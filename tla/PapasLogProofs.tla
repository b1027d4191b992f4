--------------------------- MODULE PapasLogProofs ---------------------------
(***************************************************************************)
(* Proofs about the logs of Papas (PapasLog): log() hands out a logger,    *)
(* the file of PDebug is new or goes on whole, and the rotating sink       *)
(* loses the oldest lines only.  Each has an inductive invariant of its    *)
(* own; the loggers' (ShapeInv) is under the other two.  The last sections *)
(* are about systems of their own: the logger of the terminal              *)
(* (PapasLogger), where what threads print at the same time comes out      *)
(* whole, and the formatter (Format), whose fields show what they name and *)
(* are written whole: the longest of them, for it goes through every way   *)
(* in which the writer pads, puts a prefix and grows its buffer (Writer).  *)
(***************************************************************************)
EXTENDS PapasLog, PapasLogger, Format, SequenceTheorems, FiniteSetTheorems,
        NaturalsInduction, WellFoundedInduction, TLAPS

-----------------------------------------------------------------------------
(***************************************************************************)
(* The loggers.                                                            *)
(***************************************************************************)
ShapeInv ==
  /\ loggers \in [Name -> Logger \cup {None}]
  /\ DOMAIN simple = DebugFile
  /\ initialized \in [{"pdebug", "papas_logger"} -> BOOLEAN]
  /\ {slevel, level} \subseteq Level
  /\ forgone \in BOOLEAN
  /\ s_fname \in DebugFile \cup {NoFile}
  /\ s_fname # NoFile => slevel = info

LEMMA OtherSinks ==
  /\ NoFile \notin DebugFile /\ "none" \notin DebugFile /\ "null" \notin DebugFile
  /\ "logfile" \notin DebugFile /\ "rotating" \notin DebugFile
BY LogAssumption

\* A logger is told from none by its sink.
LEMMA LoggersAreSome == \A l \in Logger : l # None /\ l.sink # "none"
<1> SUFFICES ASSUME NEW l \in Logger PROVE l.sink # "none"
  BY DEF None
<1> QED BY OtherSinks DEF Logger

LEMMA LoggerFields ==
  ASSUME ShapeInv, NEW n \in Name
  PROVE  /\ loggers[n] \in Logger \/ loggers[n] = None
         /\ loggers[n] = None <=> loggers[n].sink = "none"
BY LoggersAreSome DEF ShapeInv, None

LEMMA NamesAre == "pdebug" \in Name /\ "papas_logger" \in Name /\ "rotating" \in Name
BY DEF Name

\* log() makes a logger, fails to, or has done so before.
LEMMA LogMakes ==
  ASSUME ShapeInv, NEW n \in Name, NEW made \in Log(n)
  PROVE  /\ made.loggers \in [Name -> Logger \cup {None}]
         /\ DOMAIN made.simple = DebugFile
         /\ {made.threw, made.kept} \subseteq BOOLEAN
         /\ \A m \in Name : m # n => made.loggers[m] = loggers[m]
         /\ made.loggers[n] # loggers[n] => /\ loggers[n] = None /\ ~initialized[n] /\ n # "rotating"
                                            /\ made.loggers[n].sink \notin {"rotating", "none"}
         /\ n # "rotating" /\ ~initialized[n] /\ ~made.threw => made.loggers[n] # None
         /\ n = "rotating" \/ initialized[n] => made.loggers = loggers /\ ~made.threw
         /\ n # "pdebug" \/ initialized[n] => made.simple = simple /\ ~made.kept
         /\ n # "pdebug" /\ made.loggers[n] # loggers[n] => made.loggers[n].sink = "logfile"
<1>1. CASE n = "rotating" \/ initialized[n]
  <2>1. made = Made
    BY <1>1 DEF Log
  <2> QED BY <1>1, <2>1 DEF Made, ShapeInv
<1>2. ASSUME NEW sink \in DebugFile \cup {"null", "logfile"}, NEW lvl \in Level, NEW w, DOMAIN w = DebugFile,
             NEW kept \in BOOLEAN, n # "pdebug" => ~kept,
             ~(n = "rotating" \/ initialized[n]), n # "pdebug" => w = simple,
             made = Registered(n, sink, lvl, w, kept)
      PROVE  /\ made.loggers \in [Name -> Logger \cup {None}]
             /\ DOMAIN made.simple = DebugFile
             /\ {made.threw, made.kept} \subseteq BOOLEAN
             /\ \A m \in Name : m # n => made.loggers[m] = loggers[m]
             /\ made.loggers[n] # loggers[n] =>
                  loggers[n] = None /\ made.loggers[n].sink \notin {"rotating", "none"}
             /\ ~made.threw => made.loggers[n] # None
             /\ n # "pdebug" => made.simple = simple /\ ~made.kept
             /\ made.loggers[n] # loggers[n] => made.loggers[n].sink = sink
  <2>1. sink # "none" /\ sink # "rotating"
    BY <1>2, OtherSinks
  <2>2. CASE loggers[n] = None
    <3> DEFINE l == [sink |-> sink, level |-> lvl, flush_level |-> off]
    <3>1. made = [loggers |-> [loggers EXCEPT ![n] = l], simple |-> w, kept |-> kept, threw |-> FALSE]
      BY <1>2, <2>2 DEF Registered
    <3>2. l \in Logger /\ l.sink = sink
      BY <1>2 DEF Logger, Level, off
    <3> HIDE DEF l
    <3>3. /\ made.loggers = [loggers EXCEPT ![n] = l] /\ made.simple = w
          /\ made.threw = FALSE /\ made.kept = kept
      BY <3>1
    <3>4. l # None
      BY <3>2, LoggersAreSome
    <3> QED BY <1>2, <2>1, <2>2, <3>2, <3>3, <3>4 DEF ShapeInv
  <2>3. CASE loggers[n] # None
    <3>1. made = [loggers |-> loggers, simple |-> w, kept |-> kept, threw |-> TRUE]
      BY <1>2, <2>3 DEF Registered
    <3> QED BY <1>2, <2>3, <3>1 DEF ShapeInv
  <2> QED BY <2>2, <2>3
<1>3. ASSUME NEW w, NEW kept, made = NotOpened(w, kept)
      PROVE  made.loggers = loggers /\ made.simple = w /\ made.threw = TRUE /\ made.kept = kept
  BY <1>3 DEF NotOpened
<1>4. CASE n = "pdebug" /\ ~initialized[n]
  <2>1. made \in InitPDebug
    BY <1>4 DEF Log
  <2>2. CASE s_fname = NoFile
    <3>1. made = Registered("pdebug", "null", slevel, simple, FALSE)
      BY <2>1, <2>2 DEF InitPDebug
    <3> QED BY <1>2, <1>4, <3>1 DEF ShapeInv
  <2>3. CASE s_fname # NoFile
    <3>1. PICK w : \E kept \in BOOLEAN :
            /\ DOMAIN w = DebugFile
            /\ made = Registered("pdebug", s_fname, slevel, w, kept) \/ made = NotOpened(w, kept)
      <4>1. PICK left \in Removed : made \in Opened(left)
        BY <2>1, <2>3 DEF InitPDebug
      <4>2. left.kept \in BOOLEAN
        <5>1. \E t : \E k \in BOOLEAN : left = [text |-> t, kept |-> k]
          BY DEF Removed, IfMayFail
        <5> QED BY <5>1
      <4>3. PICK w, v : /\ w = [simple EXCEPT ![s_fname] = IF left.text = Absent THEN <<>> ELSE left.text]
                        /\ v = [simple EXCEPT ![s_fname] = left.text]
        OBVIOUS
      <4>4. DOMAIN w = DebugFile /\ DOMAIN v = DebugFile
        BY <4>3 DEF ShapeInv
      <4>5. made = Registered("pdebug", s_fname, slevel, w, left.kept) \/ made = NotOpened(v, left.kept)
        BY <4>1, <4>3 DEF Opened, IfMayFail
      <4> QED BY <4>2, <4>4, <4>5
    <3>2. s_fname \in DebugFile /\ slevel \in Level
      BY <2>3 DEF ShapeInv
    <3>3. ASSUME NEW kept \in BOOLEAN, made = Registered("pdebug", s_fname, slevel, w, kept)
          PROVE  /\ made.loggers \in [Name -> Logger \cup {None}]
                 /\ DOMAIN made.simple = DebugFile
                 /\ {made.threw, made.kept} \subseteq BOOLEAN
                 /\ \A m \in Name : m # n => made.loggers[m] = loggers[m]
                 /\ made.loggers[n] # loggers[n] =>
                      loggers[n] = None /\ made.loggers[n].sink \notin {"rotating", "none"}
                 /\ ~made.threw => made.loggers[n] # None
      BY <1>2, <1>4, <3>1, <3>2, <3>3
    <3>4. ASSUME NEW kept \in BOOLEAN, made = NotOpened(w, kept)
          PROVE  made.loggers = loggers /\ made.simple = w /\ made.threw = TRUE /\ made.kept \in BOOLEAN
      BY <1>3, <3>4
    <3>5. CASE \E kept \in BOOLEAN : made = NotOpened(w, kept)
      BY <1>4, <3>1, <3>4, <3>5 DEF ShapeInv
    <3>6. CASE \E kept \in BOOLEAN : made = Registered("pdebug", s_fname, slevel, w, kept)
      BY <1>4, <3>3, <3>6
    <3> QED BY <3>1, <3>5, <3>6
  <2> QED BY <2>2, <2>3
<1>5. CASE n = "papas_logger" /\ ~initialized[n]
  <2>1. made = Registered("papas_logger", "logfile", debug, simple, FALSE) \/ made = NotOpened(simple, FALSE)
    BY <1>5 DEF Log, InitLog, IfMayFail
  <2>2. CASE made = Registered("papas_logger", "logfile", debug, simple, FALSE)
    <3>1. PICK kept \in BOOLEAN : ~kept /\ made = Registered(n, "logfile", debug, simple, kept)
      BY <1>5, <2>2
    <3>2. debug \in Level /\ DOMAIN simple = DebugFile /\ n # "pdebug" /\ n # "rotating"
      BY <1>5 DEF ShapeInv, Level, debug
    <3> HIDE DEF debug, Level
    <3> QED BY <1>2, <1>5, <3>1, <3>2
  <2>3. CASE made = NotOpened(simple, FALSE)
    BY <1>3, <1>5, <2>3 DEF ShapeInv
  <2> QED BY <2>1, <2>2, <2>3
<1> QED BY <1>1, <1>4, <1>5 DEF Name

-----------------------------------------------------------------------------
(***************************************************************************)
(* What a step is to the loggers and to the static variables.              *)
(***************************************************************************)
SameStatics == UNCHANGED <<initialized, s_fname, slevel, earlier>>

\* A line of the logger n, or a flush of it.
Uses(n) == \E made \in Log(n) :
  /\ initialized' = [m \in DOMAIN initialized |-> initialized[m] \/ m = n]
  /\ loggers' = made.loggers
  /\ undeleted' = (undeleted \/ made.kept) /\ forgone' = (forgone \/ made.threw)
  /\ made.threw => simple' = made.simple /\ UNCHANGED <<files, line>>
  /\ UNCHANGED <<pdebugVars, level, earlier, found>>

LineSteps ==
  \/ \E n \in Name, lvl \in Level, ok \in BOOLEAN : Running /\ LogLine(n, lvl, ok)
  \/ PDebugFlush

LEMMA LineStepUses == ShapeInv /\ LineSteps => \E n \in Name : Uses(n)
<1> SUFFICES ASSUME ShapeInv, LineSteps PROVE \E n \in Name : Uses(n)
  OBVIOUS
<1>1. ASSUME NEW n \in Name, NEW lvl, NEW ok, LogLine(n, lvl, ok)
      PROVE  Uses(n)
  BY <1>1 DEF LogLine, Uses, sinkVars
<1>2. CASE PDebugFlush
  <2>1. [initialized EXCEPT !["pdebug"] = TRUE] =
        [m \in DOMAIN initialized |-> initialized[m] \/ m = "pdebug"]
    BY DEF ShapeInv
  <2> QED BY <1>2, <2>1, NamesAre DEF PDebugFlush, Uses, pdebugVars
<1> QED BY <1>1, <1>2 DEF LineSteps

\* What the files of PDebug are given.
LEMMA LineStepTexts == ShapeInv /\ LineSteps => DOMAIN simple' = DebugFile
<1> SUFFICES ASSUME ShapeInv, LineSteps PROVE DOMAIN simple' = DebugFile
  OBVIOUS
<1>1. ASSUME NEW n \in Name, NEW lvl, NEW ok, LogLine(n, lvl, ok)
      PROVE  DOMAIN simple' = DebugFile
  <2>1. PICK made \in Log(n) :
          IF made.threw THEN simple' = made.simple
          ELSE IF made.loggers[n] = None THEN simple' = made.simple
          ELSE ToSink(made.loggers[n], lvl, made.simple, ok)
    BY <1>1 DEF LogLine
  <2>2. DOMAIN made.simple = DebugFile
    BY LogMakes
  <2> QED BY <2>1, <2>2 DEF ToSink
<1>2. CASE PDebugFlush
  BY <1>2, LogMakes, NamesAre DEF PDebugFlush
<1> QED BY <1>1, <1>2 DEF LineSteps

\* The steps, those that log a line taken together.
LEMMA NextIs ==
  [Next]_vars =>
    \/ PDebug \/ \E fname \in DebugFile : SetFile(fname)
    \/ \E l \in LevelSet : SetLevel(l)
    \/ \E n \in OwnName : FlushOn(n, info) \/ Drop(n)
    \/ drop_all
    \/ \E n \in OwnName, ok \in BOOLEAN : rotating_logger(n, ok)
    \/ LineSteps
    \/ Exit \/ Crash \/ Start \/ UNCHANGED vars
<1> SUFFICES ASSUME NEW n \in Name, NEW ok \in BOOLEAN
             PROVE  Running /\ LogLine(n, info, ok) => LineSteps
  BY NamesAre DEF Next, WriteText, WriteFormatted, LogText, LogFormatted, OwnLine, LineSteps
<1>1. info \in Level
  BY DEF info, Level
<1> QED BY <1>1 DEF LineSteps

LEMMA ShapeInit == Init => ShapeInv
<1> SUFFICES ASSUME Init PROVE ShapeInv
  OBVIOUS
<1>1. initialized \in [{"pdebug", "papas_logger"} -> BOOLEAN]
  BY DEF Init
<1>2. forgone \in BOOLEAN
  BY DEF Init
<1>3. loggers \in [Name -> Logger \cup {None}] /\ DOMAIN simple = DebugFile
  BY DEF Init
<1>4. {slevel, level} \subseteq Level /\ s_fname = NoFile
  BY DEF Init, Level, info
<1> QED BY <1>1, <1>2, <1>3, <1>4 DEF ShapeInv

LEMMA ShapeKeeps == ShapeInv /\ [Next]_vars => ShapeInv'
<1> SUFFICES ASSUME ShapeInv, [Next]_vars PROVE ShapeInv'
  OBVIOUS
<1>1. CASE PDebug
  BY <1>1 DEF PDebug, ShapeInv, Level, err, registryVars, historyVars
<1>2. ASSUME NEW fname \in DebugFile, SetFile(fname) PROVE ShapeInv'
  BY <1>2 DEF SetFile, ShapeInv, Level, info, registryVars, historyVars
<1>3. ASSUME NEW l \in LevelSet, SetLevel(l) PROVE ShapeInv'
  <2>1. l \in Level
    BY LogAssumption DEF Level
  <2>2. \A n \in Name : loggers'[n] \in Logger \cup {None}
    BY <1>3, <2>1, LoggerFields DEF SetLevel, Logger
  <2>3. loggers' \in [Name -> Logger \cup {None}]
    BY <1>3, <2>2 DEF SetLevel
  <2> QED BY <1>3, <2>1, <2>3 DEF SetLevel, ShapeInv, pdebugVars, historyVars
<1>4. ASSUME NEW n \in OwnName, FlushOn(n, info) PROVE ShapeInv'
  <2>1. n \in Name /\ info \in Level
    BY LogAssumption DEF Level, info
  <2>2. [loggers[n] EXCEPT !.flush_level = info] \in Logger
    BY <1>4, <2>1, LoggerFields DEF FlushOn, Logger
  <2>3. loggers' \in [Name -> Logger \cup {None}]
    BY <1>4, <2>1, <2>2 DEF FlushOn, ShapeInv
  <2> QED BY <1>4, <2>3 DEF FlushOn, ShapeInv, pdebugVars, historyVars
<1>5. ASSUME NEW n \in OwnName, Drop(n) PROVE ShapeInv'
  BY <1>5 DEF Drop, ShapeInv, pdebugVars
<1>6. CASE drop_all
  BY <1>6 DEF drop_all, ShapeInv, pdebugVars
<1>7. ASSUME NEW n \in OwnName, NEW ok \in BOOLEAN, rotating_logger(n, ok) PROVE ShapeInv'
  <2>1. n \in Name
    BY LogAssumption
  <2>2. [sink |-> "rotating", level |-> level, flush_level |-> off] \in Logger
    BY DEF ShapeInv, Logger, Level, off
  <2>3. loggers' \in [Name -> Logger \cup {None}]
    BY <1>7, <2>1, <2>2 DEF rotating_logger, ShapeInv
  <2> QED BY <1>7, <2>3 DEF rotating_logger, ShapeInv, pdebugVars, historyVars
<1>8. CASE LineSteps
  <2>1. PICK n \in Name : Uses(n)
    BY <1>8, LineStepUses
  <2>2. PICK made \in Log(n) :
          /\ initialized' = [m \in DOMAIN initialized |-> initialized[m] \/ m = n]
          /\ loggers' = made.loggers
          /\ forgone' = (forgone \/ made.threw)
          /\ UNCHANGED <<pdebugVars, level, earlier>>
    BY <2>1 DEF Uses
  <2>3. initialized' \in [{"pdebug", "papas_logger"} -> BOOLEAN]
    BY <2>2 DEF ShapeInv
  <2>4. forgone' \in BOOLEAN
    BY <2>2
  <2>5. loggers' \in [Name -> Logger \cup {None}]
    BY <2>2, LogMakes
  <2>6. DOMAIN simple' = DebugFile
    BY <1>8, LineStepTexts
  <2> QED BY <2>2, <2>3, <2>4, <2>5, <2>6 DEF ShapeInv, pdebugVars
<1>9. CASE Exit \/ Crash \/ UNCHANGED vars
  BY <1>9 DEF Exit, Crash, vars, ShapeInv, registryVars, pdebugVars, historyVars
<1>10. CASE Start
  <2>1. /\ initialized' \in [{"pdebug", "papas_logger"} -> BOOLEAN] /\ forgone' \in BOOLEAN
    BY <1>10 DEF Start, Fresh
  <2>2. loggers' \in [Name -> Logger \cup {None}] /\ DOMAIN simple' = DebugFile
    BY <1>10 DEF Start, Fresh, ShapeInv
  <2>3. {slevel, level}' \subseteq Level /\ s_fname' = NoFile
    BY <1>10 DEF Start, Fresh, Level, info
  <2> QED BY <2>1, <2>2, <2>3 DEF ShapeInv
<1> QED
  BY <1>1, <1>2, <1>3, <1>4, <1>5, <1>6, <1>7, <1>8, <1>9, <1>10, NextIs

\* Levels are changed, loggers and their sinks stay.
LEMMA LevelsOnly ==
  ASSUME ShapeInv, [Next]_vars,
         (\E l \in LevelSet : SetLevel(l)) \/ (\E m \in OwnName : FlushOn(m, info))
  PROVE  \A n \in Name : loggers'[n].sink = loggers[n].sink /\ (loggers'[n] = None <=> loggers[n] = None)
<1> SUFFICES ASSUME NEW n \in Name PROVE loggers'[n].sink = loggers[n].sink
  BY LoggerFields, ShapeKeeps, LoggersAreSome DEF ShapeInv, None
<1>1. ASSUME NEW l \in LevelSet, SetLevel(l) PROVE loggers'[n].sink = loggers[n].sink
  BY <1>1, LoggerFields DEF SetLevel, Logger
<1>2. ASSUME NEW m \in OwnName, FlushOn(m, info) PROVE loggers'[n].sink = loggers[n].sink
  BY <1>2, LogAssumption, LoggerFields DEF FlushOn, Logger, ShapeInv
<1> QED BY <1>1, <1>2

LEMMA Shaped == Spec => []ShapeInv
BY ShapeInit, ShapeKeeps, PTL DEF Spec

(***************************************************************************)
(* PDebug::log() and Log::log() hand out the logger that they made when    *)
(* they were first called, unless that call failed or the registry was     *)
(* told to drop it: no other path leads to a null pointer.                 *)
(***************************************************************************)
THEOREM LoggersStay == Spec => []LoggerIsThere
<1>1. Init => LoggerIsThere
  BY DEF Init, LoggerIsThere
<1>2. ShapeInv /\ LoggerIsThere /\ [Next]_vars => LoggerIsThere'
  <2> SUFFICES ASSUME ShapeInv, LoggerIsThere, [Next]_vars,
                      NEW n \in (DOMAIN initialized)', initialized'[n], ~forgone'
               PROVE  loggers'[n] # None
    BY DEF LoggerIsThere
  <2>1. n \in {"pdebug", "papas_logger"}
    BY ShapeKeeps DEF ShapeInv
  <2>2. n \in Name /\ n \in DOMAIN initialized
    BY <2>1, NamesAre DEF ShapeInv
  <2>3. ASSUME initialized'[n] = initialized[n], forgone' = forgone,
               loggers[n] # None => loggers'[n] # None
        PROVE  loggers'[n] # None
    BY <2>2, <2>3 DEF LoggerIsThere
  <2>4. ASSUME UNCHANGED <<initialized, forgone, loggers>> PROVE loggers'[n] # None
    BY <2>3, <2>4
  <2>5. CASE PDebug \/ \E fname \in DebugFile : SetFile(fname)
    BY <2>4, <2>5 DEF PDebug, SetFile, registryVars, historyVars
  <2>6. CASE (\E l \in LevelSet : SetLevel(l)) \/ \E m \in OwnName : FlushOn(m, info)
    <3>1. loggers[n] # None => loggers'[n] # None
      BY <2>2, <2>6, LevelsOnly
    <3> QED BY <2>3, <2>6, <3>1 DEF SetLevel, FlushOn, historyVars
  <2>8. CASE drop_all \/ \E m \in OwnName : Drop(m)
    BY <2>8 DEF drop_all, Drop
  <2>9. ASSUME NEW m \in OwnName, NEW ok \in BOOLEAN, rotating_logger(m, ok) PROVE loggers'[n] # None
    <3>1. loggers[n] # None => loggers'[n] # None
      BY <2>2, <2>9 DEF rotating_logger, ShapeInv
    <3> QED BY <2>3, <2>9, <3>1 DEF rotating_logger, historyVars
  <2>10. CASE LineSteps
    <3>1. PICK m \in Name : Uses(m)
      BY <2>10, LineStepUses
    <3>2. PICK made \in Log(m) :
            /\ initialized' = [k \in DOMAIN initialized |-> initialized[k] \/ k = m]
            /\ loggers' = made.loggers
            /\ forgone' = (forgone \/ made.threw)
      BY <3>1 DEF Uses
    <3>3. ~forgone /\ ~made.threw
      BY <3>2
    <3>4. CASE initialized[n]
      <4>1. loggers[n] # None
        BY <2>2, <3>3, <3>4 DEF LoggerIsThere
      <4>2. made.loggers[n] = loggers[n]
        BY <2>2, <4>1, LogMakes
      <4> QED BY <3>2, <4>1, <4>2
    <3>5. CASE ~initialized[n]
      <4>1. n = m
        BY <2>2, <3>2, <3>5
      <4> QED BY <2>1, <3>2, <3>3, <3>5, <4>1, LogMakes
    <3> QED BY <3>4, <3>5
  <2>11. CASE Exit \/ Crash \/ UNCHANGED vars
    BY <2>4, <2>11 DEF Exit, Crash, vars, registryVars, historyVars
  <2>12. CASE Start
    BY <2>1, <2>12 DEF Start, Fresh
  <2> QED BY <2>5, <2>6, <2>8, <2>9, <2>10, <2>11, <2>12, NextIs
<1> QED BY <1>1, <1>2, Shaped, PTL DEF Spec
-----------------------------------------------------------------------------
(***************************************************************************)
(* The file of PDebug.                                                     *)
(***************************************************************************)
\* The lines of a file are in order, and the last lines are the newest.
InOrder(text, last) ==
  \A i \in 1 .. Len(text) : text[i] <= last /\ (i > 1 => text[i] > text[i - 1])

\* A file holds all of old, and after it lines of this run only.
GoesOn(text, old, before) ==
  /\ text # Absent /\ old \in Seq(Nat \ {0}) /\ Len(old) <= Len(text)
  /\ \A i \in 1 .. Len(old) : text[i] = old[i]
  /\ \A i \in Len(old) + 1 .. Len(text) : text[i] > before

\* What stays of the file f, of those that were held before.
Old(held, f, kept) == IF kept THEN held[f] ELSE <<>>

\* texts may be what the files hold, and log the logger of PDebug.
Fits(log, texts, last, before, held, kept) ==
  /\ texts \in [DebugFile -> {Absent} \cup Seq(Nat \ {0})]
  /\ \A f \in DebugFile : texts[f] # Absent => InOrder(texts[f], last)
  /\ \A f \in DebugFile : log.sink = f => GoesOn(texts[f], Old(held, f, kept), before)

\* Only PDebug has loggers that write to its files, and it makes them once; until
\* then its files are what the run found.
DebugInv ==
  /\ line \in Nat /\ earlier \in 0 .. line /\ undeleted \in BOOLEAN
  /\ Fits(loggers["pdebug"], simple, line, earlier, found, undeleted)
  /\ \A n \in Name : loggers[n].sink \in DebugFile => n = "pdebug" /\ initialized[n]
  /\ ~initialized["pdebug"] => simple = found /\ ~undeleted

\* Absent is not a file with lines.
LEMMA AbsentIsNoText == Absent \notin Seq(Nat \ {0})
<1> SUFFICES ASSUME Absent \in Seq(Nat \ {0}) PROVE FALSE
  OBVIOUS
<1>1. Absent[1] = 0 /\ 1 \in 1 .. Len(Absent)
  BY DEF Absent
<1>2. Absent[1] \in Nat \ {0}
  BY <1>1, ElementOfSeq
<1> QED BY <1>1, <1>2

LEMMA EmptyIsAFile == <<>> # Absent /\ Len(<<>>) = 0
BY DEF Absent

\* What PDebug's first call of log() leaves.
LEMMA PDebugMakes ==
  ASSUME ShapeInv, DebugInv, ~initialized["pdebug"], NEW made \in Log("pdebug")
  PROVE  Fits(made.loggers["pdebug"], made.simple, line, earlier, found, made.kept)
<1> DEFINE P == "pdebug"
<1>1. P \in Name /\ loggers[P].sink \notin DebugFile /\ simple = found
  BY NamesAre DEF DebugInv
<1>2. made \in InitPDebug
  BY DEF Log
<1>3. CASE s_fname = NoFile
  <2>1. made = Registered(P, "null", slevel, simple, FALSE)
    BY <1>2, <1>3 DEF InitPDebug
  <2>2. made.simple = simple
    BY <2>1 DEF Registered
  <2>3. made.loggers[P].sink \notin DebugFile
    BY <1>1, <2>1, OtherSinks DEF Registered, ShapeInv
  <2> QED BY <2>2, <2>3 DEF Fits, DebugInv
<1>4. CASE s_fname # NoFile
  <2>1. s_fname \in DebugFile /\ slevel = info /\ simple \in [DebugFile -> {Absent} \cup Seq(Nat \ {0})]
    BY <1>4 DEF ShapeInv, DebugInv, Fits
  <2>2. PICK left \in Removed : made \in Opened(left)
    BY <1>2, <1>4 DEF InitPDebug
  <2>3. \/ left.text = Absent /\ left.kept = FALSE
        \/ left.text = simple[s_fname] /\ simple[s_fname] # Absent /\ left.kept = TRUE
    BY <2>1 DEF Removed, IfMayFail
  <2>4. CASE made = NotOpened([simple EXCEPT ![s_fname] = left.text], left.kept)
    <3> DEFINE w == [simple EXCEPT ![s_fname] = left.text]
    <3>1. made.simple = w /\ made.loggers = loggers
      BY <2>4 DEF NotOpened
    <3>2. w \in [DebugFile -> {Absent} \cup Seq(Nat \ {0})]
      BY <2>1, <2>3
    <3>3. \A f \in DebugFile : w[f] # Absent => w[f] = simple[f]
      BY <2>1, <2>3
    <3> HIDE DEF w
    <3> QED BY <1>1, <3>1, <3>2, <3>3 DEF Fits, DebugInv
  <2>5. CASE made = Registered(P, s_fname, slevel,
               [simple EXCEPT ![s_fname] = IF left.text = Absent THEN <<>> ELSE left.text], left.kept)
    <3>1. PICK text : text = IF left.text = Absent THEN <<>> ELSE left.text
      OBVIOUS
    <3> DEFINE w == [simple EXCEPT ![s_fname] = text]
    <3>2. made.simple = w /\ made.kept = left.kept
      BY <2>5, <3>1 DEF Registered
    <3>3. \A f \in DebugFile : made.loggers[P].sink = f => f = s_fname
      BY <1>1, <2>1, <2>5 DEF Registered, ShapeInv
    <3>4. text \in Seq(Nat \ {0}) /\ text # Absent /\ InOrder(text, line)
      <4>1. InOrder(<<>>, line)
        BY EmptyIsAFile DEF InOrder
      <4>2. simple[s_fname] # Absent => InOrder(simple[s_fname], line)
        BY <2>1 DEF DebugInv, Fits
      <4> QED BY <2>1, <2>3, <3>1, <4>1, <4>2, EmptyIsAFile
    <3>5. text = Old(found, s_fname, left.kept)
      BY <1>1, <2>3, <3>1 DEF Old
    <3>6. GoesOn(text, text, earlier)
      BY <3>4, LenProperties DEF GoesOn
    <3>7. /\ w \in [DebugFile -> {Absent} \cup Seq(Nat \ {0})]
          /\ w[s_fname] = text /\ \A f \in DebugFile : f # s_fname => w[f] = simple[f]
      BY <2>1, <3>4
    <3> HIDE DEF w
    <3>8. \A f \in DebugFile : w[f] # Absent => InOrder(w[f], line)
      BY <3>4, <3>7 DEF DebugInv, Fits
    <3> QED BY <3>2, <3>3, <3>5, <3>6, <3>7, <3>8 DEF Fits
  <2> QED BY <2>2, <2>4, <2>5 DEF Opened, IfMayFail
<1> QED BY <1>3, <1>4

LEMMA FitsNext ==
  ASSUME NEW log, NEW texts, NEW last \in Nat, NEW before \in 0 .. last, NEW held, NEW kept,
         Fits(log, texts, last, before, held, kept), log.sink \in DebugFile
  PROVE  Fits(log, [texts EXCEPT ![log.sink] = Append(@, last + 1)], last + 1, before, held, kept)
<1>1. PICK g \in DebugFile : g = log.sink
  OBVIOUS
<1>2. PICK s : s = texts[g]
  OBVIOUS
<1> DEFINE old == Old(held, g, kept)
<1>3. s \in Seq(Nat \ {0}) /\ GoesOn(s, old, before) /\ InOrder(s, last)
  BY <1>1, <1>2 DEF Fits, GoesOn
<1> HIDE DEF old
<1>4. PICK u : u = Append(s, last + 1)
  OBVIOUS
<1>5. /\ u \in Seq(Nat \ {0}) /\ Len(u) = Len(s) + 1 /\ u[Len(s) + 1] = last + 1
      /\ \A i \in 1 .. Len(s) : u[i] = s[i] /\ s[i] \in Nat
  BY <1>3, <1>4, AppendProperties, ElementOfSeq
<1>6. PICK t : t = [texts EXCEPT ![g] = u]
  OBVIOUS
<1>7. texts \in [DebugFile -> {Absent} \cup Seq(Nat \ {0})]
  BY DEF Fits
<1>8. /\ t \in [DebugFile -> {Absent} \cup Seq(Nat \ {0})]
      /\ t[g] = u /\ \A f \in DebugFile : f # g => t[f] = texts[f]
  BY <1>5, <1>6, <1>7
<1>9. u # Absent /\ Len(s) \in Nat
  BY <1>3, <1>5, AbsentIsNoText
<1>10. InOrder(u, last + 1)
  <2> SUFFICES ASSUME NEW i \in 1 .. Len(u)
               PROVE  u[i] <= last + 1 /\ (i > 1 => u[i] > u[i - 1])
    BY DEF InOrder
  <2>1. CASE i \in 1 .. Len(s)
    <3>1. u[i] = s[i] /\ s[i] \in Nat /\ s[i] <= last
      BY <1>3, <1>5, <2>1 DEF InOrder
    <3>2. i > 1 => s[i] > s[i - 1] /\ u[i - 1] = s[i - 1]
      <4>1. i > 1 => i - 1 \in 1 .. Len(s)
        BY <1>9, <2>1
      <4> QED BY <1>3, <1>5, <2>1, <4>1 DEF InOrder
    <3> QED BY <3>1, <3>2
  <2>2. CASE i = Len(s) + 1
    <3>1. i > 1 => Len(s) \in 1 .. Len(s) /\ i - 1 = Len(s)
      BY <1>9, <2>2
    <3>2. i > 1 => u[i - 1] = s[i - 1] /\ s[i - 1] \in Nat /\ s[i - 1] <= last
      BY <1>3, <1>5, <3>1 DEF InOrder
    <3> QED BY <1>5, <2>2, <3>2
  <2> QED BY <1>5, <1>9, <2>1, <2>2
<1>11. GoesOn(u, old, before)
  <2>1. old \in Seq(Nat \ {0}) /\ Len(old) \in Nat /\ Len(old) <= Len(s)
    BY <1>3 DEF GoesOn
  <2>2. \A i \in Len(old) + 1 .. Len(u) : u[i] > before
    <3> TAKE i \in Len(old) + 1 .. Len(u)
    <3>1. (i \in 1 .. Len(s) /\ i \in Len(old) + 1 .. Len(s)) \/ i = Len(s) + 1
      BY <1>5, <1>9, <2>1
    <3>2. i \in 1 .. Len(s) /\ i \in Len(old) + 1 .. Len(s) => u[i] = s[i] /\ s[i] > before
      BY <1>3, <1>5 DEF GoesOn
    <3>3. before \in Nat /\ last + 1 > before
      OBVIOUS
    <3> QED BY <1>5, <3>1, <3>2, <3>3
  <2>3. \A i \in 1 .. Len(old) : u[i] = old[i]
    <3> TAKE i \in 1 .. Len(old)
    <3>1. i \in 1 .. Len(s)
      BY <1>9, <2>1
    <3> QED BY <1>3, <1>5, <3>1 DEF GoesOn
  <2> QED BY <1>5, <1>9, <2>1, <2>2, <2>3 DEF GoesOn
<1>12. \A f \in DebugFile : t[f] # Absent => InOrder(t[f], last + 1)
  <2> SUFFICES ASSUME NEW f \in DebugFile, t[f] # Absent, f # g PROVE InOrder(t[f], last + 1)
    BY <1>8, <1>10
  <2>1. t[f] \in Seq(Nat \ {0}) /\ InOrder(t[f], last)
    BY <1>8 DEF Fits
  <2>2. \A i \in 1 .. Len(t[f]) : t[f][i] \in Nat
    BY <2>1, ElementOfSeq
  <2> QED BY <2>1, <2>2 DEF InOrder
<1> QED BY <1>1, <1>2, <1>4, <1>6, <1>8, <1>11, <1>12 DEF Fits, old

\* The line is counted, and not written.
LEMMA FitsStill ==
  ASSUME NEW log, NEW texts, NEW last \in Nat, NEW before, NEW held, NEW kept,
         NEW l \in {last, last + 1}, Fits(log, texts, last, before, held, kept)
  PROVE  Fits(log, texts, l, before, held, kept)
<1>1. ASSUME NEW f \in DebugFile, texts[f] # Absent PROVE InOrder(texts[f], l)
  <2>1. texts[f] \in Seq(Nat \ {0}) /\ InOrder(texts[f], last)
    BY <1>1 DEF Fits
  <2>2. \A i \in 1 .. Len(texts[f]) : texts[f][i] \in Nat
    BY <2>1, ElementOfSeq
  <2> QED BY <2>1, <2>2 DEF InOrder
<1> QED BY <1>1 DEF Fits

LEMMA LogTexts ==
  ASSUME ShapeInv, DebugInv, NEW n \in Name, NEW made \in Log(n)
  PROVE  Fits(made.loggers["pdebug"], made.simple, line, earlier, found, undeleted \/ made.kept)
<1>1. CASE n = "pdebug" /\ ~initialized[n]
  <2>1. ~undeleted /\ made.kept \in BOOLEAN
    BY <1>1, LogMakes DEF DebugInv
  <2>2. (undeleted \/ made.kept) = made.kept
    BY <2>1
  <2> QED BY <1>1, <2>2, PDebugMakes
<1>2. CASE ~(n = "pdebug" /\ ~initialized[n])
  <2>1. made.simple = simple /\ (undeleted \/ made.kept) = undeleted
    <3>1. made.simple = simple /\ ~made.kept /\ undeleted \in BOOLEAN
      BY <1>2, LogMakes DEF DebugInv
    <3> QED BY <3>1
  <2>2. made.loggers["pdebug"] = loggers["pdebug"]
    <3>1. CASE n = "pdebug"
      <4>1. made.loggers = loggers
        BY <1>2, <3>1, LogMakes
      <4> QED BY <4>1
    <3>2. CASE n # "pdebug"
      BY <3>2, NamesAre, LogMakes
    <3> QED BY <3>1, <3>2
  <2> QED BY <2>1, <2>2 DEF DebugInv
<1> QED BY <1>1, <1>2

\* Only log() of PDebug makes loggers that write to its files.
LEMMA LogOwners ==
  ASSUME ShapeInv, DebugInv, NEW n \in Name, Uses(n)
  PROVE  \A m \in Name : loggers'[m].sink \in DebugFile => m = "pdebug" /\ initialized'[m]
<1> SUFFICES ASSUME NEW m \in Name, loggers'[m].sink \in DebugFile
             PROVE  m = "pdebug" /\ initialized'[m]
  OBVIOUS
<1>1. PICK made \in Log(n) :
        /\ initialized' = [k \in DOMAIN initialized |-> initialized[k] \/ k = n]
        /\ loggers' = made.loggers
  BY DEF Uses
<1>2. CASE made.loggers[m] = loggers[m]
  BY <1>1, <1>2 DEF DebugInv, ShapeInv
<1>3. CASE made.loggers[m] # loggers[m]
  <2>1. m = n
    BY <1>3, LogMakes
  <2>2. m = "pdebug"
    BY <1>1, <1>3, <2>1, LogMakes, OtherSinks
  <2> QED BY <1>1, <2>1, <2>2 DEF ShapeInv
<1> QED BY <1>2, <1>3

LEMMA LogLineTexts ==
  ASSUME ShapeInv, DebugInv, NEW n \in Name, NEW lvl, NEW ok, LogLine(n, lvl, ok)
  PROVE  /\ line' \in {line, line + 1} /\ earlier' = earlier /\ found' = found
         /\ Fits(loggers'["pdebug"], simple', line', earlier, found, undeleted')
         /\ ~initialized'["pdebug"] => simple' = simple /\ undeleted' = undeleted
<1>1. PICK made \in Log(n) :
        /\ loggers' = made.loggers
        /\ IF made.threw THEN UNCHANGED line /\ simple' = made.simple
           ELSE IF made.loggers[n] = None THEN UNCHANGED line /\ simple' = made.simple
           ELSE ToSink(made.loggers[n], lvl, made.simple, ok)
        /\ earlier' = earlier /\ found' = found
        /\ undeleted' = (undeleted \/ made.kept)
        /\ initialized' = [m \in DOMAIN initialized |-> initialized[m] \/ m = n]
  BY DEF LogLine
<1> DEFINE log == made.loggers["pdebug"]
           g == made.loggers[n].sink
<1>2. Fits(log, made.simple, line, earlier, found, undeleted')
  BY <1>1, LogTexts
<1>8. ~initialized'["pdebug"] =>
        /\ n # "pdebug" /\ made.simple = simple /\ undeleted' = undeleted
  <2>1. SUFFICES ASSUME ~initialized'["pdebug"] PROVE n # "pdebug" /\ made.simple = simple /\ undeleted' = undeleted
    OBVIOUS
  <2>2. n # "pdebug"
    BY <1>1, <2>1 DEF ShapeInv
  <2>3. made.simple = simple /\ ~made.kept /\ undeleted \in BOOLEAN
    BY <2>2, LogMakes DEF DebugInv
  <2> QED BY <1>1, <2>2, <2>3
<1>3. line \in Nat /\ earlier \in 0 .. line
  BY DEF DebugInv
<1>4. CASE UNCHANGED line /\ simple' = made.simple
  BY <1>1, <1>2, <1>4, <1>8
<1>5. CASE line' = line + 1 /\ simple' = made.simple
  BY <1>1, <1>2, <1>3, <1>5, <1>8, FitsStill
<1>6. CASE g \in DebugFile /\ line' = line + 1 /\ simple' = [made.simple EXCEPT ![g] = Append(@, line + 1)]
  <2>1. n = "pdebug"
    <3>1. made.loggers[n] = loggers[n] => n = "pdebug"
      BY <1>6 DEF DebugInv
    <3> QED BY <1>6, <3>1, LogMakes, OtherSinks
  <2> HIDE DEF g
  <2>2. log.sink = g
    BY <2>1 DEF g
  <2> QED BY <1>1, <1>2, <1>3, <1>6, <1>8, <2>1, <2>2, FitsNext
<1>7. CASE ToSink(made.loggers[n], lvl, made.simple, ok)
  BY <1>4, <1>5, <1>6, <1>7, OtherSinks DEF ToSink
<1> QED BY <1>1, <1>4, <1>7

LEMMA DebugInit == Init => DebugInv
<1> SUFFICES ASSUME Init PROVE DebugInv
  OBVIOUS
<1>1. /\ simple = [f \in DebugFile |-> Absent] /\ found = simple /\ undeleted = FALSE
      /\ line = 0 /\ earlier = 0
  BY DEF Init
<1>2. \A n \in Name : loggers[n].sink = "none"
  BY DEF Init, None
<1>3. simple \in [DebugFile -> {Absent} \cup Seq(Nat \ {0})] /\ \A f \in DebugFile : simple[f] = Absent
  BY <1>1
<1>4. Fits(loggers["pdebug"], simple, line, earlier, found, undeleted)
  BY <1>2, <1>3, OtherSinks, NamesAre DEF Fits
<1>5. line \in Nat /\ earlier \in 0 .. line /\ simple = found
  BY <1>1
<1>6. undeleted \in BOOLEAN /\ ~undeleted
  BY <1>1
<1>7. \A n \in Name : loggers[n].sink \notin DebugFile
  BY <1>2, OtherSinks
<1> QED BY <1>4, <1>5, <1>6, <1>7 DEF DebugInv

LEMMA DebugKeeps == ShapeInv /\ DebugInv /\ [Next]_vars => DebugInv'
<1> SUFFICES ASSUME ShapeInv, DebugInv, [Next]_vars PROVE DebugInv'
  OBVIOUS
<1>1. ASSUME UNCHANGED <<line, earlier, found, undeleted, simple, initialized>>,
             \A n \in Name : loggers'[n].sink \in {loggers[n].sink, "none", "rotating"}
      PROVE  DebugInv'
  BY <1>1, OtherSinks, NamesAre DEF DebugInv, Fits
<1>2. CASE PDebug \/ (\E fname \in DebugFile : SetFile(fname)) \/ Exit \/ Crash \/ UNCHANGED vars
  BY <1>1, <1>2 DEF PDebug, SetFile, Exit, Crash, registryVars, historyVars, vars
<1>3. CASE (\E l \in LevelSet : SetLevel(l)) \/ \E m \in OwnName : FlushOn(m, info)
  <2>1. UNCHANGED <<line, earlier, found, undeleted, simple, initialized>>
    BY <1>3 DEF SetLevel, FlushOn, historyVars
  <2> QED BY <1>1, <1>3, <2>1, LevelsOnly
<1>4. CASE drop_all \/ \E m \in OwnName : Drop(m)
  <2>1. UNCHANGED <<line, earlier, found, undeleted, simple, initialized>>
    BY <1>4 DEF drop_all, Drop
  <2>2. \A n \in Name : loggers'[n] \in {loggers[n], None}
    BY <1>4 DEF drop_all, Drop, ShapeInv
  <2> QED BY <1>1, <2>1, <2>2 DEF None
<1>5. ASSUME NEW m \in OwnName, NEW ok \in BOOLEAN, rotating_logger(m, ok) PROVE DebugInv'
  <2>1. UNCHANGED <<line, earlier, found, undeleted, simple, initialized>>
    BY <1>5 DEF rotating_logger, historyVars
  <2>2. \A n \in Name : loggers'[n].sink \in {loggers[n].sink, "rotating"}
    BY <1>5 DEF rotating_logger, ShapeInv
  <2> QED BY <1>1, <2>1, <2>2
<1>6. ASSUME NEW n \in Name, NEW lvl, NEW ok, LogLine(n, lvl, ok) PROVE DebugInv'
  <2>1. Uses(n)
    BY <1>6 DEF LogLine, Uses, sinkVars
  <2>2. \A m \in Name : loggers'[m].sink \in DebugFile => m = "pdebug" /\ initialized'[m]
    BY <2>1, LogOwners
  <2>3. line' \in Nat /\ earlier' \in 0 .. line' /\ undeleted' \in BOOLEAN
    BY <1>6, <2>1, LogLineTexts DEF DebugInv, Uses
  <2>4. Fits(loggers'["pdebug"], simple', line', earlier', found', undeleted')
    BY <1>6, LogLineTexts
  <2>5. ~initialized'["pdebug"] => simple' = found' /\ ~undeleted'
    <3>1. ~initialized'["pdebug"] => ~initialized["pdebug"]
      BY <2>1 DEF Uses, ShapeInv
    <3> QED BY <1>6, <3>1, LogLineTexts DEF DebugInv
  <2> QED BY <2>2, <2>3, <2>4, <2>5 DEF DebugInv, Fits, InOrder, GoesOn, Old
<1>7. CASE PDebugFlush
  <2>1. Uses("pdebug")
    <3>1. [initialized EXCEPT !["pdebug"] = TRUE] =
          [m \in DOMAIN initialized |-> initialized[m] \/ m = "pdebug"]
      BY DEF ShapeInv
    <3> QED BY <1>7, <3>1 DEF PDebugFlush, Uses, pdebugVars
  <2>2. \A m \in Name : loggers'[m].sink \in DebugFile => m = "pdebug" /\ initialized'[m]
    BY <2>1, NamesAre, LogOwners
  <2>3. PICK made \in Log("pdebug") :
          /\ loggers' = made.loggers /\ simple' = made.simple
          /\ line' = line /\ earlier' = earlier /\ found' = found
          /\ undeleted' = (undeleted \/ made.kept)
    BY <1>7 DEF PDebugFlush
  <2>4. Fits(loggers'["pdebug"], simple', line', earlier', found', undeleted')
    BY <2>3, NamesAre, LogTexts
  <2>5. initialized'["pdebug"] /\ undeleted' \in BOOLEAN
    BY <1>7, <2>3 DEF PDebugFlush, ShapeInv
  <2> QED BY <2>2, <2>3, <2>4, <2>5 DEF DebugInv, Fits, InOrder, GoesOn, Old
<1>8. CASE Start
  <2>1. /\ \A n \in Name : loggers'[n].sink = "none"
        /\ line' = line /\ earlier' = line /\ simple' = simple
        /\ found' = simple /\ undeleted' = FALSE
    BY <1>8 DEF Start, Fresh, None
  <2>2. \A f \in DebugFile : simple'[f] # Absent => InOrder(simple'[f], line')
    BY <2>1 DEF DebugInv, Fits
  <2>3. Fits(loggers'["pdebug"], simple', line', earlier', found', undeleted')
    BY <2>1, <2>2, OtherSinks, NamesAre DEF DebugInv, Fits
  <2>4. Fits(loggers["pdebug"], simple, line, earlier, found, undeleted)'
    BY <2>3 DEF Fits, InOrder, GoesOn, Old
  <2>5. line' \in Nat /\ earlier' \in 0 .. line' /\ simple' = found'
    BY <2>1 DEF DebugInv
  <2>6. undeleted' \in BOOLEAN /\ ~undeleted'
    BY <2>1
  <2>7. \A n \in Name : loggers'[n].sink \notin DebugFile
    BY <2>1, OtherSinks
  <2> QED BY <2>4, <2>5, <2>6, <2>7 DEF DebugInv
<1> QED
  BY <1>2, <1>3, <1>4, <1>5, <1>6, <1>7, <1>8, NextIs DEF LineSteps

\* Two texts with the same lines at the front.
LEMMA PrefixOf ==
  ASSUME NEW old \in Seq(Nat \ {0}), NEW text \in Seq(Nat \ {0}), Len(old) <= Len(text),
         \A i \in 1 .. Len(old) : text[i] = old[i]
  PROVE  IsPrefix(old, text)
<1> DEFINE n == Len(old)
<1>1. n \in Nat /\ Len(text) \in Nat
  BY LenProperties
<1>2. /\ \A i \in 1 .. n : old[i] \in Nat \ {0} /\ text[i] \in Nat \ {0}
  BY <1>1, ElementOfSeq
<1> HIDE DEF n
<1>3. /\ SubSeq(old, 1, n) \in Seq(Nat \ {0}) /\ SubSeq(text, 1, n) \in Seq(Nat \ {0})
      /\ Len(SubSeq(old, 1, n)) = n /\ Len(SubSeq(text, 1, n)) = n
      /\ \A i \in 1 .. n : SubSeq(old, 1, n)[i] = old[i] /\ SubSeq(text, 1, n)[i] = text[i]
  <2>1. ASSUME NEW t, \A i \in 1 .. n : t[i] \in Nat \ {0}
        PROVE  /\ SubSeq(t, 1, n) \in Seq(Nat \ {0}) /\ Len(SubSeq(t, 1, n)) = n
               /\ \A i \in 1 .. n : SubSeq(t, 1, n)[i] = t[i]
    BY <1>1, <2>1, SubSeqProperties
  <2> QED BY <1>2, <2>1
<1>4. SubSeq(old, 1, n) = SubSeq(text, 1, n)
  BY <1>3, SeqEqual DEF n
<1> QED BY <1>4 DEF IsPrefix, n

(***************************************************************************)
(* While PDebug writes to a file, this holds the lines of the run that     *)
(* opened it, in the order of the calls: what an earlier run left there is *)
(* gone, also when that one crashed or the file could not be opened.  If   *)
(* the file was there and std::remove failed, which PDebug::init does not  *)
(* notice, it still holds all that it held, and the lines of this run come *)
(* after that.                                                             *)
(***************************************************************************)
THEOREM DebugFileNewOrGoesOn == Spec => []DebugFileIsNewOrGoesOn
<1>1. DebugInv => DebugFileIsNewOrGoesOn
  <2> SUFFICES ASSUME DebugInv, NEW f \in DebugFile, loggers["pdebug"].sink = f,
                      NEW old, old = IF undeleted THEN found[f] ELSE <<>>
               PROVE  /\ simple[f] # Absent /\ old # Absent /\ IsPrefix(old, simple[f])
                      /\ \A i \in Len(old) + 1 .. Len(simple[f]) :
                           simple[f][i] > IF i = Len(old) + 1 THEN earlier ELSE simple[f][i - 1]
    BY DEF DebugFileIsNewOrGoesOn
  <2>1. GoesOn(simple[f], old, earlier) /\ InOrder(simple[f], line) /\ simple[f] \in Seq(Nat \ {0})
    BY DEF DebugInv, Fits, GoesOn, Old
  <2>2. old \in Seq(Nat \ {0}) /\ Len(old) \in Nat /\ Len(simple[f]) \in Nat
    BY <2>1, LenProperties DEF GoesOn
  <2>3. simple[f] # Absent /\ old # Absent
    BY <2>1, <2>2, AbsentIsNoText DEF GoesOn
  <2>4. IsPrefix(old, simple[f])
    BY <2>1, PrefixOf DEF GoesOn
  <2>5. ASSUME NEW i \in Len(old) + 1 .. Len(simple[f])
        PROVE  simple[f][i] > IF i = Len(old) + 1 THEN earlier ELSE simple[f][i - 1]
    <3>1. i \in 1 .. Len(simple[f]) /\ (i # Len(old) + 1 => i > 1)
      BY <2>2
    <3> QED BY <2>1, <3>1 DEF GoesOn, InOrder
  <2> QED BY <2>3, <2>4, <2>5
<1> QED BY <1>1, DebugInit, DebugKeeps, Shaped, PTL DEF Spec
-----------------------------------------------------------------------------
(***************************************************************************)
(* The files of the rotating sink.                                         *)
(***************************************************************************)
Lines == Seq(Nat \ {0})

\* The texts t hold the lines in order, and all that were taken but the oldest.
Newest(t, took, last) ==
  /\ \A i \in File : \A m \in 1 .. Len(t[i]) : t[i][m] <= last
  /\ \A i, j \in File : \A m \in 1 .. Len(t[i]), n \in 1 .. Len(t[j]) :
       i > j \/ (i = j /\ m < n) => t[i][m] < t[j][n]
  /\ took \subseteq 1 .. last
  /\ \A l \in took : \/ \E i \in File : \E m \in 1 .. Len(t[i]) : t[i][m] = l
                     \/ \A i \in File : \A m \in 1 .. Len(t[i]) : l < t[i][m]

LEMMA FilesAre == 0 \in File /\ File \subseteq Nat /\ MaxFiles \in Nat
BY FileSinkAssumption DEF File

LEMMA EmptyText == <<>> \in Lines /\ 1 .. Len(<<>>) = {}
BY DEF Lines

\* The files are renamed from the last one down to i.
LEMMA ShiftKeeps ==
  ASSUME NEW t \in [File -> Lines], NEW took, NEW last \in Nat, Newest(t, took, last),
         NEW i \in File, NEW u \in [File -> Lines],
         \A j \in File : u[j] = IF j > i THEN t[j - 1] ELSE IF j = i THEN <<>> ELSE t[j]
  PROVE  Newest(u, took, last)
<1> DEFINE h(j) == IF j > i THEN j - 1 ELSE j
<1>1. \A j \in File : \A m \in 1 .. Len(u[j]) : j # i /\ h(j) \in File /\ u[j] = t[h(j)]
  <2> TAKE j \in File
  <2> TAKE m \in 1 .. Len(u[j])
  <2>1. j # i
    <3>1. i \in Int
      BY FilesAre
    <3>2. u[i] = <<>>
      BY <3>1
    <3> QED BY <3>2, EmptyText
  <2>2. h(j) \in File
    BY FilesAre DEF File
  <2> QED BY <2>1, <2>2, FilesAre
<1>2. \A j \in File : \A m \in 1 .. Len(u[j]) : u[j][m] <= last
  BY <1>1 DEF Newest
<1>3. ASSUME NEW j \in File, NEW k \in File, NEW m \in 1 .. Len(u[j]), NEW n \in 1 .. Len(u[k]),
             j > k \/ (j = k /\ m < n)
      PROVE  u[j][m] < u[k][n]
  <2>1. h(j) \in File /\ h(k) \in File /\ u[j] = t[h(j)] /\ u[k] = t[h(k)] /\ j # i /\ k # i
    BY <1>1
  <2>2. h(j) > h(k) \/ (h(j) = h(k) /\ m < n)
    BY <1>3, <2>1, FilesAre
  <2>3. PICK a, b : a = h(j) /\ b = h(k)
    OBVIOUS
  <2> HIDE DEF h
  <2> QED BY <2>1, <2>2, <2>3 DEF Newest
<1>4. ASSUME NEW l \in took
      PROVE  \/ \E j \in File : \E m \in 1 .. Len(u[j]) : u[j][m] = l
             \/ \A j \in File : \A m \in 1 .. Len(u[j]) : l < u[j][m]
  <2>1. CASE \A j \in File : \A m \in 1 .. Len(t[j]) : l < t[j][m]
    <3> HIDE DEF h
    <3> QED BY <1>1, <2>1
  <2>2. ASSUME NEW k \in File, NEW n \in 1 .. Len(t[k]), t[k][n] = l, k < MaxFiles
        PROVE  \E j \in File : \E m \in 1 .. Len(u[j]) : u[j][m] = l
    <3>1. PICK j : j = IF k < i THEN k ELSE k + 1
      OBVIOUS
    <3>2. j \in File /\ (k < i => j < i) /\ (~(k < i) => j > i /\ j - 1 = k)
      BY <2>2, <3>1, FilesAre DEF File
    <3>3. j \in Nat /\ i \in Nat
      BY <3>2, FilesAre
    <3>4. u[j] = t[k]
      BY <3>1, <3>2, <3>3
    <3> QED BY <2>2, <3>2, <3>4
  <2>3. ASSUME NEW n \in 1 .. Len(t[MaxFiles]), t[MaxFiles][n] = l,
               NEW j \in File, NEW m \in 1 .. Len(u[j])
        PROVE  l < u[j][m]
    <3>1. h(j) \in File /\ u[j] = t[h(j)] /\ j # i
      BY <1>1
    <3>2. h(j) < MaxFiles /\ MaxFiles \in File
      BY <3>1, FilesAre DEF File
    <3> HIDE DEF h
    <3> QED BY <2>3, <3>1, <3>2 DEF Newest
  <2>4. \A k \in File : k < MaxFiles \/ k = MaxFiles
    BY FilesAre DEF File
  <2> HIDE DEF h
  <2> QED BY <2>1, <2>2, <2>3, <2>4 DEF Newest
<1> HIDE DEF h
<1> QED BY <1>2, <1>3, <1>4 DEF Newest

\* The next line is written, and then it is taken.
LEMMA AppendKeeps ==
  ASSUME NEW t \in [File -> Lines], NEW took, NEW last \in Nat, Newest(t, took, last),
         NEW u, u = [t EXCEPT ![0] = Append(@, last + 1)]
  PROVE  u \in [File -> Lines] /\ Newest(u, took \cup {last + 1}, last + 1)
<1>1. t[0] \in Lines /\ Len(t[0]) \in Nat
  BY FilesAre DEF Lines
<1>2. PICK s : s = Append(t[0], last + 1)
  OBVIOUS
<1>3. /\ s \in Lines /\ Len(s) = Len(t[0]) + 1 /\ s[Len(t[0]) + 1] = last + 1
      /\ \A m \in 1 .. Len(t[0]) : s[m] = t[0][m]
  BY <1>1, <1>2, AppendProperties DEF Lines
<1>4. u = [t EXCEPT ![0] = s]
  BY <1>2
<1>5. /\ u \in [File -> Lines] /\ u[0] = s
      /\ \A j \in File : j # 0 => u[j] = t[j]
  BY <1>3, <1>4, FilesAre
<1>6. \A j \in File : \A m \in 1 .. Len(t[j]) : m \in 1 .. Len(u[j]) /\ u[j][m] = t[j][m]
  BY <1>1, <1>3, <1>5
<1>7. \A j \in File : \A m \in 1 .. Len(u[j]) :
        \/ m \in 1 .. Len(t[j]) /\ u[j][m] = t[j][m]
        \/ j = 0 /\ m = Len(t[0]) + 1 /\ u[j][m] = last + 1
  BY <1>1, <1>3, <1>5
<1>8. \A j \in File : \A m \in 1 .. Len(t[j]) : t[j][m] \in Nat /\ t[j][m] <= last
  BY ElementOfSeq DEF Newest, Lines
<1>9. \A j \in File : \A m \in 1 .. Len(u[j]) : u[j][m] <= last + 1
  BY <1>7, <1>8
<1>10. ASSUME NEW j \in File, NEW k \in File, NEW m \in 1 .. Len(u[j]), NEW n \in 1 .. Len(u[k]),
              j > k \/ (j = k /\ m < n)
       PROVE  u[j][m] < u[k][n]
  <2>1. m \in 1 .. Len(t[j]) /\ u[j][m] = t[j][m]
    <3>1. Len(u[j]) \in Nat /\ m \in Nat /\ n \in Nat
      BY <1>5 DEF Lines
    <3>2. CASE j = 0 /\ m = Len(t[0]) + 1
      <4>1. k = 0 /\ m < n
        BY <1>10, <3>2, FilesAre
      <4>2. n <= Len(t[0]) + 1
        BY <1>1, <1>3, <1>5, <4>1
      <4> QED BY <1>1, <3>1, <3>2, <4>1, <4>2
    <3> QED BY <1>7, <3>2
  <2>2. CASE n \in 1 .. Len(t[k]) /\ u[k][n] = t[k][n]
    BY <1>10, <2>1, <2>2 DEF Newest
  <2>3. CASE u[k][n] = last + 1
    BY <1>8, <2>1, <2>3
  <2> QED BY <1>7, <2>2, <2>3
<1>11. took \subseteq 1 .. last
  BY DEF Newest
<1>12. ASSUME NEW l \in took
       PROVE  \/ \E j \in File : \E m \in 1 .. Len(u[j]) : u[j][m] = l
              \/ \A j \in File : \A m \in 1 .. Len(u[j]) : l < u[j][m]
  <2>1. CASE \E j \in File : \E m \in 1 .. Len(t[j]) : t[j][m] = l
    BY <1>6, <2>1
  <2>2. CASE \A j \in File : \A m \in 1 .. Len(t[j]) : l < t[j][m]
    BY <1>7, <1>11, <2>2
  <2> QED BY <2>1, <2>2 DEF Newest
<1>13. \E j \in File : \E m \in 1 .. Len(u[j]) : u[j][m] = last + 1
  BY <1>1, <1>3, <1>5, FilesAre
<1>14. took \cup {last + 1} \subseteq 1 .. last + 1
  BY <1>11
<1> QED BY <1>5, <1>9, <1>10, <1>12, <1>13, <1>14 DEF Newest

\* The next line is lost.
LEMMA NumberKeeps ==
  ASSUME NEW t \in [File -> Lines], NEW took, NEW last \in Nat, Newest(t, took, last)
  PROVE  Newest(t, took, last + 1)
<1>1. \A j \in File : \A m \in 1 .. Len(t[j]) : t[j][m] \in Nat /\ t[j][m] <= last
  BY ElementOfSeq DEF Newest, Lines
<1>2. \A j \in File : \A m \in 1 .. Len(t[j]) : t[j][m] <= last + 1
  BY <1>1
<1>3. took \subseteq 1 .. last + 1
  BY DEF Newest
<1> QED BY <1>2, <1>3 DEF Newest

\* The last lines of the first file are lost.
LEMMA CrashKeeps ==
  ASSUME NEW t \in [File -> Lines], NEW took, NEW last \in Nat, Newest(t, took, last),
         NEW kept \in Lines, Len(kept) <= Len(t[0]), \A m \in 1 .. Len(kept) : kept[m] = t[0][m],
         NEW gone,
         \A m \in 1 .. Len(t[0]) : t[0][m] \in gone \/ \E n \in 1 .. Len(kept) : kept[n] = t[0][m],
         NEW u, u = [t EXCEPT ![0] = kept]
  PROVE  u \in [File -> Lines] /\ Newest(u, took \ gone, last)
<1>1. /\ u \in [File -> Lines] /\ u[0] = kept
      /\ \A j \in File : j # 0 => u[j] = t[j]
  BY FilesAre
<1>2. \A j \in File : \A m \in 1 .. Len(u[j]) : m \in 1 .. Len(t[j]) /\ u[j][m] = t[j][m]
  BY <1>1, FilesAre DEF Lines
<1>3. ASSUME NEW l \in took \ gone
      PROVE  \/ \E j \in File : \E m \in 1 .. Len(u[j]) : u[j][m] = l
             \/ \A j \in File : \A m \in 1 .. Len(u[j]) : l < u[j][m]
  <2>1. CASE \A j \in File : \A m \in 1 .. Len(t[j]) : l < t[j][m]
    BY <1>2, <2>1
  <2>2. ASSUME NEW j \in File, NEW m \in 1 .. Len(t[j]), t[j][m] = l
        PROVE  \E k \in File : \E n \in 1 .. Len(u[k]) : u[k][n] = l
    BY <1>1, <1>3, <2>2
  <2> QED BY <2>1, <2>2 DEF Newest
<1>4. \A j \in File : \A m \in 1 .. Len(u[j]) : u[j][m] <= last
  BY <1>2 DEF Newest
<1>5. \A i, j \in File : \A m \in 1 .. Len(u[i]), n \in 1 .. Len(u[j]) :
        i > j \/ (i = j /\ m < n) => u[i][m] < u[j][n]
  BY <1>2 DEF Newest
<1> QED BY <1>1, <1>3, <1>4, <1>5 DEF Newest

Texts(fs) == [i \in File |-> IF fs[i] = Absent THEN <<>> ELSE fs[i]]

RotInv ==
  /\ line \in Nat /\ unflushed \in Nat
  /\ files \in [File -> {Absent} \cup Lines]
  /\ Newest(Texts(files), taken, line)
  /\ Running => \A n \in Name : loggers[n].sink = "rotating" => files[0] # Absent

LEMMA TextsAre ==
  ASSUME NEW fs \in [File -> {Absent} \cup Lines]
  PROVE  Texts(fs) \in [File -> Lines]
BY EmptyText DEF Texts

\* What _rotate leaves, whether it returns or not.
LEMMA RotateKeeps ==
  ASSUME RotInv, NEW fs \in HalfRotated \cup {Rotated}
  PROVE  fs \in [File -> {Absent} \cup Lines] /\ Newest(Texts(fs), taken, line)
<1>1. Texts(files) \in [File -> Lines] /\ line \in Nat /\ Newest(Texts(files), taken, line)
  BY TextsAre DEF RotInv
<1>2. ASSUME NEW i \in File
      PROVE  /\ ShiftedDownTo(i) \in [File -> {Absent} \cup Lines]
             /\ Newest(Texts(ShiftedDownTo(i)), taken, line)
  <2> DEFINE gs == ShiftedDownTo(i)
  <2>1. \A j \in File : j > i => j - 1 \in File
    BY FilesAre DEF File
  <2>2. gs \in [File -> {Absent} \cup Lines]
    BY <2>1 DEF ShiftedDownTo, RotInv
  <2>3. \A j \in File : gs[j] = IF j > i THEN files[j - 1] ELSE IF j = i THEN Absent ELSE files[j]
    BY DEF ShiftedDownTo
  <2> HIDE DEF gs
  <2>4. \A j \in File : Texts(gs)[j] = IF j > i THEN Texts(files)[j - 1]
                                      ELSE IF j = i THEN <<>> ELSE Texts(files)[j]
    BY <2>1, <2>3 DEF Texts
  <2>5. Texts(gs) \in [File -> Lines]
    BY <2>2, TextsAre
  <2> QED BY <1>1, <2>2, <2>4, <2>5, ShiftKeeps DEF gs
<1>3. /\ Rotated \in [File -> {Absent} \cup Lines]
      /\ Texts(Rotated) = Texts(ShiftedDownTo(0))
  <2>1. Rotated \in [File -> {Absent} \cup Lines]
    BY <1>2, FilesAre, EmptyText DEF Rotated
  <2>2. \A j \in File : /\ j = 0 => Rotated[j] = <<>> /\ ShiftedDownTo(0)[j] = Absent
                        /\ j # 0 => Rotated[j] = ShiftedDownTo(0)[j]
    BY FilesAre DEF Rotated, ShiftedDownTo
  <2> QED BY <2>1, <2>2 DEF Texts
<1>4. fs = files \/ fs = Rotated \/ \E i \in File : fs = ShiftedDownTo(i)
  BY FilesAre DEF HalfRotated
<1> QED BY <1>1, <1>2, <1>3, <1>4, FilesAre DEF RotInv

\* What _sink_it leaves.
LEMMA SinkKeeps ==
  ASSUME RotInv, files[0] # Absent, NEW flush, NEW ok \in BOOLEAN, SinkIt(line + 1, flush, ok)
  PROVE  /\ files' \in [File -> {Absent} \cup Lines]
         /\ Newest(Texts(files'), IF ok THEN taken \cup {line + 1} ELSE taken, line + 1)
         /\ ok => files'[0] # Absent
         /\ unflushed' \in Nat
<1> DEFINE full == current_size + LineSize[line + 1] > MaxSize
<1>1. PICK before : before = IF full THEN Rotated ELSE files
  OBVIOUS
<1>2. /\ before \in [File -> {Absent} \cup Lines]
      /\ Newest(Texts(before), taken, line)
  BY <1>1, RotateKeeps DEF RotInv
<1>3. before[0] \in Lines /\ before[0] # Absent
  <2>1. <<>> # Absent
    BY DEF Absent
  <2>2. full => before[0] = <<>>
    <3>1. Rotated[0] = <<>>
      BY FilesAre DEF Rotated, ShiftedDownTo
    <3> QED BY <1>1, <3>1
  <2>3. before[0] # Absent
    BY <1>1, <2>1, <2>2
  <2> QED BY <1>2, <2>3, FilesAre
<1>4. line \in Nat /\ Texts(before) \in [File -> Lines]
  BY <1>2, TextsAre DEF RotInv
<1>5. unflushed' \in Nat
  BY DEF SinkIt, RotInv
<1>6. CASE ok
  <2>1. PICK s : s = Append(before[0], line + 1)
    OBVIOUS
  <2>2. s \in Lines /\ s # Absent
    <3>1. line + 1 \in Nat \ {0}
      BY <1>4
    <3>2. s \in Lines
      BY <1>3, <2>1, <3>1, AppendProperties DEF Lines
    <3> QED BY <3>2, AbsentIsNoText DEF Lines
  <2>3. files' = [before EXCEPT ![0] = s]
    BY <1>1, <1>6, <2>1 DEF SinkIt
  <2>4. files' \in [File -> {Absent} \cup Lines] /\ files'[0] = s
    BY <1>2, <2>2, <2>3, FilesAre
  <2>5. Texts(files') = [Texts(before) EXCEPT ![0] = Append(@, line + 1)]
    <3>1. \A j \in File : Texts(files')[j] = IF j = 0 THEN s ELSE Texts(before)[j]
      BY <1>2, <2>2, <2>3, <2>4 DEF Texts
    <3>2. Texts(before)[0] = before[0]
      BY <1>3, FilesAre DEF Texts
    <3>3. [Texts(before) EXCEPT ![0] = s] = [j \in File |-> IF j = 0 THEN s ELSE Texts(before)[j]]
      BY <1>4
    <3>4. Texts(files') = [j \in File |-> IF j = 0 THEN s ELSE Texts(before)[j]]
      BY <3>1 DEF Texts
    <3> QED BY <2>1, <3>2, <3>3, <3>4
  <2>6. Newest(Texts(files'), taken \cup {line + 1}, line + 1)
    BY <1>2, <1>4, <2>5, AppendKeeps
  <2> QED BY <1>5, <1>6, <2>2, <2>4, <2>6
<1>7. CASE ~ok
  <2>1. \/ files' \in HalfRotated
        \/ files' = before
    BY <1>1, <1>7 DEF SinkIt
  <2>2. PICK fs : fs = files'
    OBVIOUS
  <2>3. fs \in [File -> {Absent} \cup Lines] /\ Newest(Texts(fs), taken, line)
    BY <1>2, <2>1, <2>2, RotateKeeps
  <2>4. Newest(Texts(fs), taken, line + 1)
    BY <1>4, <2>3, NumberKeeps, TextsAre
  <2> QED BY <1>5, <1>7, <2>2, <2>3, <2>4
<1> QED BY <1>6, <1>7

LEMMA RotInit == Init => RotInv
<1> SUFFICES ASSUME Init PROVE RotInv
  OBVIOUS
<1>1. /\ line = 0 /\ taken = {} /\ unflushed = 0
      /\ files = [i \in File |-> Absent]
  BY DEF Init, SinkInit
<1>2. \A n \in Name : loggers[n].sink = "none"
  BY DEF Init, None
<1>3. \A i \in File : Texts(files)[i] = <<>>
  BY <1>1 DEF Texts
<1>4. Newest(Texts(files), taken, line)
  BY <1>1, <1>3, EmptyText DEF Newest
<1> QED BY <1>1, <1>2, <1>4 DEF RotInv

LEMMA RotKeeps == ShapeInv /\ RotInv /\ [Next]_vars => RotInv'
<1> SUFFICES ASSUME ShapeInv, RotInv, [Next]_vars PROVE RotInv'
  OBVIOUS
<1>1. ASSUME UNCHANGED <<files, line, taken>>, unflushed' \in {unflushed, 0},
             state' = "running" =>
               state = "running" /\ \A n \in Name : loggers'[n].sink = "rotating" => loggers[n].sink = "rotating"
      PROVE  RotInv'
  BY <1>1 DEF RotInv, Running, Newest, Texts
<1>2. CASE PDebug \/ (\E fname \in DebugFile : SetFile(fname)) \/ Exit \/ Crash \/ UNCHANGED vars
  BY <1>1, <1>2 DEF PDebug, SetFile, Exit, Crash, Flushed, Terminates, registryVars, historyVars, sinkVars, vars
<1>3. CASE (\E l \in LevelSet : SetLevel(l)) \/ \E m \in OwnName : FlushOn(m, info)
  <2>1. UNCHANGED <<files, line, taken, state, unflushed>>
    BY <1>3 DEF SetLevel, FlushOn, historyVars, sinkVars
  <2> QED BY <1>1, <1>3, <2>1, LevelsOnly
<1>4. CASE drop_all \/ \E m \in OwnName : Drop(m)
  <2>1. UNCHANGED <<files, line, taken, state>> /\ unflushed' \in {unflushed, 0}
    BY <1>4 DEF Flushed, drop_all, Drop
  <2>2. \A n \in Name : loggers'[n] \in {loggers[n], None}
    BY <1>4 DEF drop_all, Drop, ShapeInv
  <2> QED BY <1>1, <2>1, <2>2 DEF None
<1>5. ASSUME NEW m \in OwnName, NEW ok \in BOOLEAN, rotating_logger(m, ok) PROVE RotInv'
  <2>1. UNCHANGED <<line, taken>>
    BY <1>5 DEF rotating_logger, historyVars
  <2>2. CASE ~ok
    BY <1>1, <1>5, <2>1, <2>2 DEF rotating_logger, Open, sinkVars
  <2>3. CASE ok
    <3>1. PICK s : s = Content(0)
      OBVIOUS
    <3>2. s \in Lines /\ s # Absent /\ s = Texts(files)[0]
      BY <3>1, FilesAre, EmptyText, AbsentIsNoText DEF RotInv, Content, Lines, Texts
    <3>3. files' = [files EXCEPT ![0] = s]
      BY <1>5, <2>3, <3>1 DEF rotating_logger, Open
    <3>4. files' \in [File -> {Absent} \cup Lines] /\ files'[0] = s
      BY <3>2, <3>3, FilesAre DEF RotInv
    <3>5. Texts(files') = Texts(files)
      BY <3>2, <3>3, <3>4 DEF RotInv, Texts
    <3>6. unflushed' \in Nat
      BY <1>5, <2>3 DEF rotating_logger, Open
    <3> QED BY <2>1, <3>2, <3>4, <3>5, <3>6 DEF RotInv, Newest
  <2> QED BY <2>2, <2>3
<1>6. ASSUME NEW n \in Name, NEW lvl, NEW ok \in BOOLEAN, Running, LogLine(n, lvl, ok) PROVE RotInv'
  <2>1. PICK made \in Log(n) :
          /\ loggers' = made.loggers
          /\ IF made.threw THEN UNCHANGED <<sinkVars, line, taken>>
             ELSE IF made.loggers[n] = None
             THEN UNCHANGED <<sinkVars, line, taken>>
             ELSE ToSink(made.loggers[n], lvl, made.simple, ok)
    BY <1>6 DEF LogLine
  <2>2. \A m \in Name : loggers'[m].sink = "rotating" => loggers[m].sink = "rotating"
    BY <2>1, LogMakes
  <2>3. CASE UNCHANGED <<sinkVars, line, taken>>
    BY <1>1, <1>6, <2>2, <2>3 DEF Running, sinkVars
  <2>4. CASE ToSink(made.loggers[n], lvl, made.simple, ok) /\ ~UNCHANGED <<sinkVars, line, taken>>
    <3>1. CASE made.loggers[n].sink = "rotating"
      <4>1. files[0] # Absent
        BY <1>6, <2>1, <2>2, <3>1 DEF RotInv
      <4>2. /\ SinkIt(line + 1, lvl >= made.loggers[n].flush_level, ok)
            /\ line' = line + 1
            /\ taken' = IF ok THEN taken \cup {line + 1} ELSE taken
            /\ ~ok => state' = "terminated"
        BY <2>4, <3>1 DEF ToSink, Terminates
      <4>3. /\ files' \in [File -> {Absent} \cup Lines]
            /\ Newest(Texts(files'), IF ok THEN taken \cup {line + 1} ELSE taken, line + 1)
            /\ ok => files'[0] # Absent
            /\ unflushed' \in Nat
        BY <4>1, <4>2, SinkKeeps
      <4>4. Newest(Texts(files'), taken', line')
        BY <4>2, <4>3
      <4> QED BY <4>2, <4>3, <4>4 DEF RotInv, Running, Newest, Texts
    <3>2. CASE made.loggers[n].sink # "rotating"
      <4>1. UNCHANGED <<files, taken, unflushed>> /\ line' \in {line, line + 1}
        BY <2>4, <3>2 DEF ToSink, sinkVars
      <4>2. PICK t, l : t = Texts(files) /\ l = line
        OBVIOUS
      <4>3. t \in [File -> Lines] /\ l \in Nat /\ Newest(t, taken, l)
        BY <4>2, TextsAre DEF RotInv
      <4>4. Newest(t, taken, l + 1)
        BY <4>3, NumberKeeps
      <4>5. Newest(Texts(files)', taken', line')
        BY <4>1, <4>2, <4>3, <4>4 DEF Texts
      <4>6. line' \in Nat /\ files' = files /\ unflushed' \in Nat
        BY <4>1 DEF RotInv
      <4> QED BY <1>6, <2>1, <2>2, <4>5, <4>6 DEF RotInv, Running, Newest, Texts
    <3> QED BY <3>1, <3>2
  <2> QED BY <2>1, <2>3, <2>4
<1>7. CASE PDebugFlush
  <2>1. UNCHANGED <<files, line, taken>> /\ Running /\ unflushed' \in {unflushed, 0}
    BY <1>7 DEF Flushed, PDebugFlush
  <2>2. PICK made \in Log("pdebug") : loggers' = made.loggers
    BY <1>7 DEF PDebugFlush
  <2>3. \A m \in Name : loggers'[m].sink = "rotating" => loggers[m].sink = "rotating"
    BY <2>2, NamesAre, LogMakes
  <2> QED BY <1>1, <2>1, <2>3 DEF Running
<1>8. CASE Start
  <2>1. \A n \in Name : loggers'[n].sink = "none"
    BY <1>8 DEF Start, Fresh, None
  <2>2. PICK lost \in 0 .. IF state = "terminated" THEN unflushed ELSE 0 :
          LET kept == SubSeq(Content(0), 1, Len(Content(0)) - lost) IN
          /\ files' = IF lost = 0 THEN files ELSE [files EXCEPT ![0] = kept]
          /\ taken' = IF lost = 0 THEN taken ELSE taken \ (ToSet(Content(0)) \ ToSet(kept))
    BY <1>8 DEF Start
  <2>3. line' = line /\ unflushed' = 0
    BY <1>8 DEF Start
  <2>4. CASE lost = 0
    BY <2>1, <2>2, <2>3, <2>4 DEF RotInv, Newest, Texts
  <2>5. CASE lost # 0
    <3>1. PICK s : s = Content(0)
      OBVIOUS
    <3>2. s \in Lines /\ s = Texts(files)[0]
      BY <3>1, FilesAre, EmptyText DEF RotInv, Content, Texts
    <3>3. PICK kept : kept = SubSeq(s, 1, Len(s) - lost)
      OBVIOUS
    <3>4. /\ kept \in Lines /\ Len(kept) <= Len(s) /\ kept # Absent
          /\ \A m \in 1 .. Len(kept) : kept[m] = s[m]
      <4> DEFINE k == Len(s) - lost
      <4>1. k \in Int /\ k <= Len(s) /\ kept = SubSeq(s, 1, k)
        <5>1. lost \in Int /\ lost >= 0
          BY DEF RotInv
        <5> QED BY <3>2, <3>3, <5>1 DEF Lines
      <4> HIDE DEF k
      <4>2. CASE k < 1
        <5>1. kept = <<>>
          BY <3>2, <3>3, <4>1, <4>2, SubSeqProperties DEF Lines
        <5> QED BY <3>2, <5>1, EmptyText, EmptyIsAFile DEF Lines
      <4>3. CASE k >= 1
        <5>1. k \in 1 .. Len(s) /\ kept = SubSeq(s, 1, k)
          BY <3>3, <4>1, <4>3
        <5>2. kept \in Lines /\ Len(kept) = k /\ \A m \in 1 .. Len(kept) : kept[m] = s[m]
          BY <3>2, <4>1, <5>1, SubSeqProperties DEF Lines
        <5> QED BY <4>1, <5>2, AbsentIsNoText DEF Lines
      <4> QED BY <4>1, <4>2, <4>3
    <3>5. PICK gone : gone = ToSet(s) \ ToSet(kept)
      OBVIOUS
    <3>6. files' = [files EXCEPT ![0] = kept] /\ taken' = taken \ gone
      BY <2>2, <2>5, <3>1, <3>3, <3>5
    <3>7. \A m \in 1 .. Len(s) : s[m] \in gone \/ \E n \in 1 .. Len(kept) : kept[n] = s[m]
      <4>1. /\ DOMAIN s = 1 .. Len(s) /\ DOMAIN kept = 1 .. Len(kept)
        BY <3>2, <3>4 DEF Lines
      <4>2. \A m \in 1 .. Len(s) : s[m] \in ToSet(s)
        BY <4>1 DEF ToSet
      <4>3. \A x \in ToSet(kept) : \E n \in 1 .. Len(kept) : kept[n] = x
        BY <4>1 DEF ToSet
      <4> QED BY <3>5, <4>2, <4>3
    <3>8. files' \in [File -> {Absent} \cup Lines]
      BY <3>4, <3>6, FilesAre DEF RotInv
    <3>9. Texts(files') = [Texts(files) EXCEPT ![0] = kept]
      BY <3>4, <3>6, <3>8 DEF RotInv, Texts
    <3>10. Newest(Texts(files'), taken', line)
      <4>1. PICK t, u : t = Texts(files) /\ u = Texts(files')
        OBVIOUS
      <4>2. t \in [File -> Lines] /\ line \in Nat /\ Newest(t, taken, line) /\ t[0] = s
        BY <3>2, <4>1, TextsAre DEF RotInv
      <4>3. u = [t EXCEPT ![0] = kept]
        BY <3>9, <4>1
      <4>4. Newest(u, taken \ gone, line)
        BY <3>4, <3>7, <4>2, <4>3, CrashKeeps
      <4> QED BY <3>6, <4>1, <4>4
    <3> QED BY <2>1, <2>3, <3>8, <3>10 DEF RotInv, Newest, Texts
  <2> QED BY <2>4, <2>5
<1> QED
  BY <1>2, <1>3, <1>4, <1>5, <1>6, <1>7, <1>8, NextIs DEF LineSteps

(***************************************************************************)
(* However many files the rotating sink has, however small they are, and   *)
(* at whatever step of _rotate, of a write or of the program it fails: the *)
(* files read from the oldest to the newest are in the order of the calls, *)
(* and a line that was taken is missing only if all that are left are      *)
(* newer.                                                                  *)
(***************************************************************************)
THEOREM NewestStay == Spec => []RotationKeepsNewest
<1>1. RotInv => RotationKeepsNewest
  <2> SUFFICES ASSUME RotInv PROVE RotationKeepsNewest
    OBVIOUS
  <2>1. \A i \in File : Content(i) = Texts(files)[i] /\ Content(i) \in Lines
    BY TextsAre DEF RotInv, Content, Texts
  <2>2. \A i \in File : DOMAIN Content(i) = 1 .. Len(Content(i))
    BY <2>1 DEF Lines
  <2>3. \A i \in File : \A k : k \in ToSet(Content(i)) <=> \E m \in 1 .. Len(Content(i)) : k = Content(i)[m]
    BY <2>2 DEF ToSet
  <2> QED BY <2>1, <2>2, <2>3 DEF RotInv, Newest, RotationKeepsNewest, Holds
<1> QED BY <1>1, RotInit, RotKeeps, Shaped, PTL DEF Spec
-----------------------------------------------------------------------------
(***************************************************************************)
(* The logger that writes to the terminal (PapasLogger).                   *)
(***************************************************************************)
CONSTANT Operand   \* what a statement may insert

Statement == [level : Severity, operands : Seq(Operand)]

Word == {"now", "Papas LOG", "\n"} \cup {LevelName[i] : i \in 1..6} \cup Operand

TerminalTypes ==
  /\ at \in [Thread -> {"idle", "inserting", "ending"}]
  /\ statement \in [Thread -> Statement]
  /\ m_stream \in [Thread -> Seq(Operand)]
  /\ out \in Seq(Word)
  /\ logged \in [Thread -> Seq(Statement)]
  /\ printed \in Seq([thread : Thread, n : Nat, part : {"text", "end"}, to : Nat])

\* What a thread has not printed yet is in its stream, or left to insert.
StreamInv ==
  \A t \in Thread : at[t] # "idle" =>
    /\ logged[t] # <<>>
    /\ Threshold <= logged[t][Len(logged[t])].level
    /\ statement[t].level = logged[t][Len(logged[t])].level
    /\ logged[t][Len(logged[t])].operands = m_stream[t] \o statement[t].operands

\* Where a piece is.
Placed(k) ==
  /\ printed[k].to = PrintedTo(k - 1) + Len(TextOf(printed[k]))
  /\ printed[k].to <= Len(out)
  /\ \A i \in 1..Len(TextOf(printed[k])) :
       out[PrintedTo(k - 1) + i] = TextOf(printed[k])[i]

PlaceInv ==
  /\ Len(out) = PrintedTo(Len(printed))
  /\ \A k \in DOMAIN printed : Placed(k)

TerminalInv == TerminalTypes /\ StreamInv /\ PlaceInv /\ PiecesAreThoseDue

\* Putting something in front of a text.
LEMMA InFront ==
  ASSUME NEW S, NEW word \in S, NEW input \in Seq(S)
  PROVE  <<word>> \o input \in Seq(S)
<1>1. <<word>> \in Seq(S)
  OBVIOUS
<1> QED BY <1>1, ConcatProperties

\* What the decorators make is a text.
LEMMA DecoratedIsText ==
  ASSUME NEW lvl \in Severity, NEW input \in Seq(Word)
  PROVE  Decorated(lvl, input) \in Seq(Word)
<1>1. PICK word : word = LevelName[lvl + 1]
  OBVIOUS
<1>2. word \in Word
  <2>1. lvl + 1 \in 1..6
    BY DEF Severity
  <2> QED BY <1>1, <2>1 DEF Word
<1>3. PICK levelled \in Seq(Word) : levelled = LevelDecorated(lvl, input)
  <2>1. <<word>> \o input \in Seq(Word)
    BY <1>2, InFront
  <2> QED BY <1>1, <2>1 DEF LevelDecorated
<1>4. PICK named \in Seq(Word) : named = NamedDecorated(levelled)
  <2>1. "Papas LOG" \in Word
    BY DEF Word
  <2>2. <<"Papas LOG">> \o levelled \in Seq(Word)
    BY <2>1, InFront
  <2> QED BY <2>2 DEF NamedDecorated
<1>5. TimedDecorated(named) \in Seq(Word)
  <2>1. "now" \in Word
    BY DEF Word
  <2>2. <<"now">> \o named \in Seq(Word)
    BY <2>1, InFront
  <2> QED BY <2>2 DEF TimedDecorated
<1> QED BY <1>3, <1>4, <1>5 DEF Decorated

LEMMA OperandsAreWords ==
  ASSUME NEW s \in Seq(Operand)
  PROVE  s \in Seq(Word)
<1>1. Operand \subseteq Word
  BY DEF Word
<1>2. \A i \in 1..Len(s) : s[i] \in Word
  BY <1>1
<1> QED BY <1>2

LEMMA EndIsText == <<"\n">> \in Seq(Word)
<1>1. "\n" \in Word
  BY DEF Word
<1> QED BY <1>1

LEMMA TextIsText ==
  ASSUME TerminalTypes, NEW p, p.thread \in Thread, p.n \in 1..Len(logged[p.thread])
  PROVE  TextOf(p) \in Seq(Word)
<1>1. PICK held \in Statement : held = logged[p.thread][p.n]
  BY DEF TerminalTypes
<1>2. held.level \in Severity /\ held.operands \in Seq(Word)
  BY OperandsAreWords DEF Statement
<1>3. Decorated(held.level, held.operands) \in Seq(Word)
  BY <1>2, DecoratedIsText
<1> QED BY <1>1, <1>3, EndIsText DEF TextOf

PieceOf == [thread : Thread, n : Nat, part : {"text", "end"}, to : Nat]

LEMMA PieceTypes ==
  ASSUME TerminalTypes
  PROVE  /\ Len(printed) \in Nat /\ DOMAIN printed = 1..Len(printed)
         /\ \A k \in 1..Len(printed) : /\ printed[k].thread \in Thread /\ printed[k].n \in Nat
                                       /\ printed[k].part \in {"text", "end"} /\ printed[k].to \in Nat
<1>1. printed \in Seq(PieceOf)
  BY DEF TerminalTypes, PieceOf
<1>2. ASSUME NEW k \in 1..Len(printed)
      PROVE  /\ printed[k].thread \in Thread /\ printed[k].n \in Nat
             /\ printed[k].part \in {"text", "end"} /\ printed[k].to \in Nat
  <2>1. PICK p \in PieceOf : p = printed[k]
    BY <1>1
  <2> QED BY <2>1 DEF PieceOf
<1>3. Len(printed) \in Nat /\ DOMAIN printed = 1..Len(printed)
  BY <1>1
<1> QED BY <1>2, <1>3

\* A piece that was printed was due.
LEMMA PieceFacts ==
  ASSUME TerminalInv, NEW k \in DOMAIN printed
  PROVE  /\ k \in 1..Len(printed)
         /\ printed[k].thread \in Thread /\ printed[k].part \in {"text", "end"}
         /\ printed[k].to \in Nat
         /\ printed[k].n \in 1..Len(logged[printed[k].thread])
         /\ Due(printed[k].thread, printed[k].n, printed[k].part)
         /\ TextOf(printed[k]) \in Seq(Word)
<1>1. k \in 1..Len(printed) /\ printed[k].thread \in Thread /\ printed[k].n \in Nat
      /\ printed[k].part \in {"text", "end"} /\ printed[k].to \in Nat
  BY PieceTypes DEF TerminalInv
<1>2. Due(printed[k].thread, printed[k].n, printed[k].part)
  BY DEF TerminalInv, PiecesAreThoseDue
<1>3. PICK t \in Thread : t = printed[k].thread
  BY <1>1
<1>4. logged[t] \in Seq(Statement)
  BY DEF TerminalInv, TerminalTypes
<1>5. printed[k].n \in 1..Len(logged[t])
  BY <1>2, <1>3, <1>4 DEF Due
<1> QED BY <1>1, <1>2, <1>3, <1>5, TextIsText DEF TerminalInv

LEMMA PrintedToIsNat ==
  ASSUME TerminalTypes, NEW k \in 0..Len(printed)
  PROVE  PrintedTo(k) \in Nat
BY PieceTypes DEF PrintedTo

-----------------------------------------------------------------------------
\* A step that prints nothing, and only adds to what was logged, moves no piece.
LEMMA PlacesStay ==
  ASSUME TerminalInv, UNCHANGED <<out, printed>>,
         \A t \in Thread : \A n \in 1..Len(logged[t]) : logged'[t][n] = logged[t][n]
  PROVE  PlaceInv'
<1>1. Len(out') = PrintedTo(Len(printed))'
  BY DEF TerminalInv, PlaceInv, PrintedTo
<1>2. ASSUME NEW k \in DOMAIN printed'
      PROVE  Placed(k)'
  <2>1. k \in DOMAIN printed /\ Placed(k)
    BY DEF TerminalInv, PlaceInv
  <2>2. (TextOf(printed[k]))' = TextOf(printed[k])
    BY <2>1, PieceFacts DEF TextOf, Decorated, TimedDecorated,
                            NamedDecorated, LevelDecorated
  <2>3. PrintedTo(k - 1)' = PrintedTo(k - 1)
    BY DEF PrintedTo
  <2> QED BY <2>1, <2>2, <2>3 DEF Placed
<1> QED BY <1>1, <1>2 DEF PlaceInv

\* A step that puts a text at the end of the output places one more piece.
LEMMA PlaceOneMore ==
  ASSUME TerminalInv, UNCHANGED logged, NEW text \in Seq(Word), out' = out \o text,
         NEW t \in Thread, NEW part \in {"text", "end"}, logged[t] # <<>>, GivenOut(t, part),
         text = IF part = "end" THEN <<"\n">>
                ELSE Decorated(logged[t][Len(logged[t])].level, logged[t][Len(logged[t])].operands)
  PROVE  PlaceInv'
<1> DEFINE p == [thread |-> t, n |-> Len(logged[t]), part |-> part, to |-> Len(out) + Len(text)]
<1> PICK last : last = Len(printed) + 1
  OBVIOUS
<1>1. /\ out \in Seq(Word) /\ Len(out') = Len(out) + Len(text)
      /\ \A i \in 1..Len(out) : out'[i] = out[i]
      /\ \A i \in 1..Len(text) : out'[Len(out) + i] = text[i]
  BY DEF TerminalInv, TerminalTypes
<1>2. printed' = Append(printed, p)
  BY <1>1 DEF GivenOut
<1>3. /\ DOMAIN printed' = 1..last /\ Len(printed') = last /\ Len(printed) \in Nat
      /\ DOMAIN printed = 1..Len(printed)
      /\ \A k \in 1..Len(printed) : printed'[k] = printed[k]
      /\ printed'[last] = p
  BY <1>2 DEF TerminalInv, TerminalTypes
<1>4. Len(out') = PrintedTo(Len(printed))'
  <2>1. PrintedTo(Len(printed))' = printed'[last].to
    BY <1>3 DEF PrintedTo
  <2> QED BY <2>1, <1>1, <1>3
<1>5. ASSUME NEW k \in 1..Len(printed)
      PROVE  Placed(k)'
  <2>1. k \in DOMAIN printed /\ Placed(k)
    BY <1>3 DEF TerminalInv, PlaceInv
  <2>2. (TextOf(printed[k]))' = TextOf(printed[k])
    BY <1>3 DEF TextOf, Decorated, TimedDecorated,
                NamedDecorated, LevelDecorated
  <2>3. PrintedTo(k - 1)' = PrintedTo(k - 1)
    BY <1>3 DEF PrintedTo
  <2>4. PrintedTo(k - 1) \in Nat /\ Len(TextOf(printed[k])) \in Nat /\ printed[k].to \in Nat
    BY <1>3, <2>1, PieceFacts, PrintedToIsNat DEF TerminalInv
  <2>5. printed'[k] = printed[k] /\ printed[k].to <= Len(out')
    BY <1>1, <1>3, <2>1, <2>4 DEF Placed
  <2>6. ASSUME NEW i \in 1..Len(TextOf(printed[k]))
        PROVE  out'[PrintedTo(k - 1) + i] = TextOf(printed[k])[i]
    <3>1. PrintedTo(k - 1) + i \in 1..Len(out)
      BY <1>1, <2>1, <2>4 DEF Placed
    <3> QED BY <1>1, <2>1, <3>1 DEF Placed
  <2> QED BY <2>1, <2>2, <2>3, <2>5, <2>6 DEF Placed
<1>6. Placed(last)'
  <2>0. /\ printed'[last].thread = t /\ printed'[last].n = Len(logged[t])
        /\ printed'[last].part = part /\ printed'[last].to = Len(out) + Len(text)
    BY <1>3
  <2>1. (TextOf(printed[last]))' = text
    BY <2>0 DEF TextOf, Decorated, TimedDecorated,
                NamedDecorated, LevelDecorated
  <2>2. PrintedTo(last - 1)' = PrintedTo(Len(printed))
    BY <1>3 DEF PrintedTo
  <2>3. PrintedTo(last - 1)' = Len(out)
    BY <2>2 DEF TerminalInv, PlaceInv
  <2>4. Len(out) + Len(text) <= Len(out')
    BY <1>1 DEF TerminalInv, TerminalTypes
  <2>5. (printed[last].to = PrintedTo(last - 1) + Len(TextOf(printed[last])))'
    BY <2>0, <2>1, <2>3
  <2>6. (printed[last].to <= Len(out))'
    BY <2>0, <2>4
  <2>7. ASSUME NEW i \in 1..Len(TextOf(printed[last])')
        PROVE  (out[PrintedTo(last - 1) + i] = TextOf(printed[last])[i])'
    BY <1>1, <2>1, <2>3
  <2> QED BY <2>5, <2>6, <2>7 DEF Placed
<1> QED BY <1>3, <1>4, <1>5, <1>6 DEF PlaceInv

-----------------------------------------------------------------------------
\* A step that prints nothing and makes nothing due leaves the pieces those due.
LEMMA DuesStay ==
  ASSUME TerminalInv, UNCHANGED printed, \A t \in Thread : Len(logged'[t]) \in Nat,
         \A t \in Thread, n \in Nat, part \in {"text", "end"} : Due(t, n, part)' <=> Due(t, n, part)
  PROVE  PiecesAreThoseDue'
<1>1. ASSUME NEW k \in DOMAIN printed'
      PROVE  Due(printed[k].thread, printed[k].n, printed[k].part)'
  <2>1. PICK t, n, part : t = printed[k].thread /\ n = printed[k].n /\ part = printed[k].part
    OBVIOUS
  <2>2. Due(t, n, part) /\ t \in Thread /\ n \in Nat /\ part \in {"text", "end"}
    <3>1. printed[k].n \in Nat
      BY PieceTypes DEF TerminalInv
    <3> QED BY <2>1, <3>1, PieceFacts
  <2>3. Due(t, n, part)'
    BY <2>2
  <2>4. printed' = printed
    OBVIOUS
  <2> QED BY <2>1, <2>3, <2>4 DEF Due
<1>2. ASSUME NEW t \in Thread, NEW part \in {"text", "end"}, NEW n \in 1..Len(logged'[t]), Due(t, n, part)'
      PROVE  \E k \in DOMAIN printed' : IsPiece(printed'[k], t, n, part)
  <2>1. Due(t, n, part)
    BY <1>2
  <2>2. n \in 1..Len(logged[t])
    BY <2>1 DEF Due, TerminalInv, TerminalTypes
  <2> QED BY <2>1, <2>2 DEF TerminalInv, PiecesAreThoseDue
<1>3. ASSUME NEW k \in DOMAIN printed', NEW j \in 1..(k - 1), printed'[j].thread = printed'[k].thread
      PROVE  Precedes(printed'[j], printed'[k])
  BY <1>3 DEF TerminalInv, PiecesAreThoseDue
<1> QED BY <1>1, <1>2, <1>3 DEF PiecesAreThoseDue, IsPiece, Precedes

\* A step that prints what it makes due.
LEMMA OneMoreDue ==
  ASSUME TerminalInv, UNCHANGED logged, NEW t \in Thread, NEW part \in {"text", "end"}, logged[t] # <<>>,
         GivenOut(t, part),
         ~Due(t, Len(logged[t]), part),
         part = "text" => ~Due(t, Len(logged[t]), "end"),
         \A u \in Thread, n \in Nat, q \in {"text", "end"} :
           Due(u, n, q)' <=> \/ Due(u, n, q)
                             \/ u = t /\ n = Len(logged[t]) /\ q = part
  PROVE  PiecesAreThoseDue'
<1> DEFINE last == Len(printed) + 1
<1>1. PICK to : printed' = Append(printed, [thread |-> t, n |-> Len(logged[t]), part |-> part, to |-> to])
  BY DEF GivenOut
<1>2. /\ DOMAIN printed' = 1..last /\ Len(printed) \in Nat
      /\ DOMAIN printed = 1..Len(printed)
      /\ \A k \in 1..Len(printed) : printed'[k] = printed[k]
      /\ printed'[last] = [thread |-> t, n |-> Len(logged[t]), part |-> part, to |-> to]
  BY <1>1 DEF TerminalInv, TerminalTypes
<1>3. Len(logged[t]) \in Nat \ {0}
  BY DEF TerminalInv, TerminalTypes
<1>4. ASSUME NEW k \in 1..Len(printed)
      PROVE  Due(printed[k].thread, printed[k].n, printed[k].part)
             /\ printed[k].thread \in Thread /\ printed[k].n \in Nat /\ printed[k].part \in {"text", "end"}
             /\ printed[k].n \in 1..Len(logged[printed[k].thread])
  BY <1>2, PieceFacts, PieceTypes DEF TerminalInv
<1>5. ASSUME NEW k \in DOMAIN printed'
      PROVE  Due(printed[k].thread, printed[k].n, printed[k].part)'
  <2>1. PICK u, n, q : u = printed'[k].thread /\ n = printed'[k].n /\ q = printed'[k].part
    OBVIOUS
  <2>2. CASE k \in 1..Len(printed)
    <3>1. Due(u, n, q) /\ u \in Thread /\ n \in Nat /\ q \in {"text", "end"}
      BY <1>2, <1>4, <2>1, <2>2
    <3>2. Due(u, n, q)'
      BY <3>1
    <3> QED BY <2>1, <3>2 DEF Due
  <2>3. CASE k = last
    <3>1. u = t /\ n = Len(logged[t]) /\ q = part
      BY <1>2, <2>1, <2>3
    <3>2. Due(u, n, q)'
      BY <1>3, <3>1
    <3> QED BY <2>1, <3>2 DEF Due
  <2> QED BY <1>2, <2>2, <2>3
<1>6. ASSUME NEW u \in Thread, NEW q \in {"text", "end"}, NEW n \in 1..Len(logged'[u]), Due(u, n, q)'
      PROVE  \E k \in DOMAIN printed' : IsPiece(printed'[k], u, n, q)
  <2>1. CASE Due(u, n, q)
    <3>1. PICK k \in DOMAIN printed : IsPiece(printed[k], u, n, q)
      BY <2>1 DEF TerminalInv, PiecesAreThoseDue
    <3> QED BY <1>2, <3>1
  <2>2. CASE u = t /\ n = Len(logged[t]) /\ q = part
    <3>1. IsPiece(printed'[last], u, n, q)
      BY <1>2, <2>2 DEF IsPiece
    <3> QED BY <1>2, <3>1
  <2>3. n \in Nat
    BY DEF TerminalInv, TerminalTypes
  <2> QED BY <1>6, <2>1, <2>2, <2>3
<1>7. ASSUME NEW k \in DOMAIN printed', NEW j \in 1..(k - 1), printed'[j].thread = printed'[k].thread
      PROVE  Precedes(printed'[j], printed'[k])
  <2>1. CASE k \in 1..Len(printed)
    <3>1. j \in 1..Len(printed)
      BY <1>2, <2>1
    <3> QED BY <1>2, <1>7, <2>1, <3>1 DEF TerminalInv, PiecesAreThoseDue
  <2>2. CASE k = last
    <3>1. j \in 1..Len(printed)
      BY <1>2, <2>2
    <3>2. printed'[j] = printed[j] /\ printed[j].thread = t
      BY <1>2, <1>7, <2>2, <3>1
    <3>3. printed[j].n \in 1..Len(logged[t]) /\ Due(t, printed[j].n, printed[j].part)
          /\ printed[j].part \in {"text", "end"}
      BY <1>4, <3>1, <3>2
    <3>4. CASE printed[j].n < Len(logged[t])
      BY <1>2, <2>2, <3>2, <3>4 DEF Precedes
    <3>5. CASE printed[j].n = Len(logged[t])
      <4>1. printed[j].part = "text" /\ part = "end"
        BY <3>3, <3>5
      <4> QED BY <1>2, <2>2, <3>2, <3>5, <4>1 DEF Precedes
    <3> QED BY <1>3, <3>3, <3>4, <3>5
  <2> QED BY <1>2, <2>1, <2>2
<1> QED BY <1>5, <1>6, <1>7 DEF PiecesAreThoseDue, IsPiece, Precedes

-----------------------------------------------------------------------------
LEMMA NoText == <<>> \in Seq(Operand) /\ <<>> \in Seq(Word) /\ Len(<<>>) = 0
OBVIOUS

LEMMA TerminalStarts ==
  ASSUME TerminalInit PROVE TerminalInv
<1>1. Idle \in Statement
  BY NoText DEF Idle, Statement, Severity
<1>2. TerminalTypes
  BY <1>1, NoText DEF TerminalInit, TerminalTypes
<1>3. StreamInv
  BY DEF TerminalInit, StreamInv
<1>4. printed = <<>> /\ Len(printed) = 0 /\ DOMAIN printed = {} /\ Len(out) = 0
  BY DEF TerminalInit
<1>5. PlaceInv
  BY <1>4 DEF PlaceInv, PrintedTo
<1>6. ASSUME NEW t \in Thread PROVE 1..Len(logged[t]) = {}
  <2>1. Len(logged[t]) = 0
    BY DEF TerminalInit
  <2> QED BY <2>1
<1>7. PiecesAreThoseDue
  BY <1>4, <1>6 DEF PiecesAreThoseDue
<1> QED BY <1>2, <1>3, <1>5, <1>7 DEF TerminalInv

LEMMA SetLoggerKeeps ==
  ASSUME TerminalInv, SetLogger PROVE TerminalInv'
<1>1. UNCHANGED <<at, statement, m_stream, out, logged, printed>>
  BY DEF SetLogger
<1>2. TerminalTypes'
  BY <1>1 DEF TerminalInv, TerminalTypes
<1>3. StreamInv'
  BY <1>1 DEF TerminalInv, StreamInv
<1>4. PlaceInv'
  BY <1>1, PlacesStay
<1>5. PiecesAreThoseDue'
  BY <1>1, DuesStay DEF TerminalInv, TerminalTypes, Due
<1> QED BY <1>2, <1>3, <1>4, <1>5 DEF TerminalInv

LEMMA MacroKeeps ==
  ASSUME TerminalInv, NEW t \in Thread, NEW s \in Statement, Macro(t, s)
  PROVE  TerminalInv'
<1>0. /\ at \in [Thread -> {"idle", "inserting", "ending"}]
      /\ logged \in [Thread -> Seq(Statement)]
      /\ statement \in [Thread -> Statement]
      /\ m_stream \in [Thread -> Seq(Operand)]
  BY DEF TerminalInv, TerminalTypes
<1>1. CASE ~papaslogger
  <2>1. UNCHANGED <<at, statement, out, logged, printed>> /\ at[t] = "idle"
        /\ m_stream' = [m_stream EXCEPT ![t] = <<>>]
    BY <1>1 DEF Macro
  <2>2. TerminalTypes'
    BY <2>1, NoText DEF TerminalInv, TerminalTypes
  <2>3. StreamInv'
    BY <1>0, <2>1 DEF TerminalInv, StreamInv
  <2>4. PlaceInv'
    BY <2>1, PlacesStay
  <2>5. PiecesAreThoseDue'
    BY <2>1, DuesStay DEF TerminalInv, TerminalTypes, Due
  <2> QED BY <2>2, <2>3, <2>4, <2>5 DEF TerminalInv
<1>2. CASE papaslogger
  <2>1. /\ UNCHANGED <<out, printed>> /\ at[t] = "idle"
        /\ m_stream' = [m_stream EXCEPT ![t] = <<>>]
        /\ statement' = [statement EXCEPT ![t] = s]
        /\ logged' = [logged EXCEPT ![t] = Append(@, s)]
    BY <1>2 DEF Macro
  <2>2. IF Threshold <= s.level THEN at' = [at EXCEPT ![t] = "inserting"] ELSE at' = at
    BY <1>2 DEF Macro
  <2>3. TerminalTypes'
    <3>1. at' \in [Thread -> {"idle", "inserting", "ending"}]
      BY <1>0, <2>2
    <3>2. logged' \in [Thread -> Seq(Statement)]
      BY <1>0, <2>1
    <3> QED BY <2>1, <3>1, <3>2, NoText DEF TerminalInv, TerminalTypes
  <2>4. /\ Len(logged[t]) \in Nat /\ Len(logged'[t]) = Len(logged[t]) + 1
        /\ logged'[t][Len(logged[t]) + 1] = s
        /\ \A n \in 1..Len(logged[t]) : logged'[t][n] = logged[t][n]
        /\ \A u \in Thread : u # t => logged'[u] = logged[u]
    BY <1>0, <2>1
  <2>5. StreamInv'
    <3>1. ASSUME NEW u \in Thread, at'[u] # "idle", u # t
          PROVE  /\ logged'[u] # <<>>
                 /\ Threshold <= logged'[u][Len(logged'[u])].level
                 /\ statement'[u].level = logged'[u][Len(logged'[u])].level
                 /\ logged'[u][Len(logged'[u])].operands = m_stream'[u] \o statement'[u].operands
      <4>1. at'[u] = at[u]
        BY <1>0, <2>2, <3>1
      <4>2. logged'[u] = logged[u] /\ statement'[u] = statement[u] /\ m_stream'[u] = m_stream[u]
        BY <1>0, <2>1, <3>1
      <4> QED BY <3>1, <4>1, <4>2 DEF TerminalInv, StreamInv
    <3>2. ASSUME at'[t] # "idle"
          PROVE  /\ logged'[t] # <<>>
                 /\ Threshold <= logged'[t][Len(logged'[t])].level
                 /\ statement'[t].level = logged'[t][Len(logged'[t])].level
                 /\ logged'[t][Len(logged'[t])].operands = m_stream'[t] \o statement'[t].operands
      <4>1. Threshold <= s.level
        BY <2>1, <2>2, <3>2
      <4>2. statement'[t] = s /\ m_stream'[t] = <<>> /\ logged'[t][Len(logged'[t])] = s
        BY <1>0, <2>1, <2>4
      <4>3. s.operands \in Seq(Operand)
        BY DEF Statement
      <4>4. <<>> \o s.operands = s.operands
        BY <4>3, ConcatEmptySeq
      <4> QED BY <2>4, <4>1, <4>2, <4>4
    <3> QED BY <3>1, <3>2 DEF StreamInv
  <2>6. PlaceInv'
    BY <2>1, <2>4, PlacesStay
  <2>7. ASSUME NEW u \in Thread, NEW n \in Nat, NEW part \in {"text", "end"}
        PROVE  Due(u, n, part)' <=> Due(u, n, part)
    <3>1. CASE u # t
      <4>1. at'[u] = at[u] /\ logged'[u] = logged[u]
        BY <1>0, <2>2, <2>4, <3>1
      <4> QED BY <4>1 DEF Due
    <3>2. CASE u = t /\ n \in 1..Len(logged[t])
      BY <1>0, <2>1, <2>3, <2>4, <3>2 DEF Due, TerminalTypes
    <3>3. CASE u = t /\ n \notin 1..Len(logged[t])
      <4>1. ~Due(u, n, part)
        BY <1>0, <3>3 DEF Due
      <4>2. ASSUME Due(u, n, part)' PROVE FALSE
        <5>1. DOMAIN logged'[t] = 1..(Len(logged[t]) + 1)
          BY <2>3, <2>4 DEF TerminalTypes
        <5>2. n = Len(logged[t]) + 1
          BY <2>4, <3>3, <4>2, <5>1 DEF Due
        <5>3. Threshold <= s.level
          BY <2>4, <3>3, <4>2, <5>2 DEF Due
        <5>4. at'[t] = "inserting"
          BY <1>0, <2>2, <5>3
        <5> QED BY <2>4, <3>3, <4>2, <5>2, <5>4 DEF Due
      <4> QED BY <4>1, <4>2
    <3> QED BY <3>1, <3>2, <3>3
  <2>8. \A u \in Thread : Len(logged'[u]) \in Nat
    BY <2>3 DEF TerminalTypes
  <2>9. PiecesAreThoseDue'
    BY <2>1, <2>7, <2>8, DuesStay
  <2> QED BY <2>3, <2>5, <2>6, <2>9 DEF TerminalInv
<1> QED BY <1>1, <1>2

LEMMA InsertKeeps ==
  ASSUME TerminalInv, NEW t \in Thread, Insert(t)
  PROVE  TerminalInv'
<1>0. /\ statement \in [Thread -> Statement]
      /\ m_stream \in [Thread -> Seq(Operand)]
  BY DEF TerminalInv, TerminalTypes
<1>1. UNCHANGED <<at, out, logged, printed>> /\ statement[t].operands # <<>>
      /\ m_stream' = [m_stream EXCEPT ![t] = Append(@, Head(statement[t].operands))]
      /\ statement' = [statement EXCEPT ![t].operands = Tail(@)]
  BY DEF Insert
<1>2. PICK operands \in Seq(Operand) : operands = statement[t].operands
  BY <1>0 DEF Statement
<1>3. /\ operands # <<>> /\ Head(operands) \in Operand /\ Tail(operands) \in Seq(Operand)
      /\ operands = <<Head(operands)>> \o Tail(operands)
  BY <1>1, <1>2
<1>4. /\ m_stream'[t] = Append(m_stream[t], Head(operands))
      /\ statement'[t].operands = Tail(operands) /\ statement'[t].level = statement[t].level
      /\ \A u \in Thread : u # t => m_stream'[u] = m_stream[u] /\ statement'[u] = statement[u]
  BY <1>0, <1>1, <1>2 DEF Statement
<1>5. m_stream'[t] \o statement'[t].operands = m_stream[t] \o statement[t].operands
  <2>1. m_stream[t] \in Seq(Operand)
    BY <1>0
  <2>2. Append(m_stream[t], Head(operands)) = m_stream[t] \o <<Head(operands)>>
    BY <1>3, <2>1
  <2>3. <<Head(operands)>> \in Seq(Operand)
    BY <1>3
  <2>4. (m_stream[t] \o <<Head(operands)>>) \o Tail(operands) = m_stream[t] \o (<<Head(operands)>> \o Tail(operands))
    BY <1>3, <2>1, <2>3, ConcatAssociative
  <2> QED BY <1>2, <1>3, <1>4, <2>2, <2>4
<1>6. TerminalTypes'
  <2>1. m_stream' \in [Thread -> Seq(Operand)]
    BY <1>0, <1>1, <1>2, <1>3
  <2>2. statement' \in [Thread -> Statement]
    BY <1>0, <1>1, <1>2, <1>3 DEF Statement
  <2> QED BY <1>1, <2>1, <2>2 DEF TerminalInv, TerminalTypes
<1>7. StreamInv'
  BY <1>1, <1>4, <1>5 DEF TerminalInv, StreamInv
<1>8. PlaceInv'
  BY <1>1, PlacesStay
<1>9. PiecesAreThoseDue'
  BY <1>1, DuesStay DEF TerminalInv, TerminalTypes, Due
<1> QED BY <1>6, <1>7, <1>8, <1>9 DEF TerminalInv

\* What both steps that print keep.
LEMMA PrintingKeepsTypes ==
  ASSUME TerminalInv, NEW t \in Thread, NEW part \in {"text", "end"}, NEW text \in Seq(Word),
         NEW where \in {"idle", "ending"},
         at' = [at EXCEPT ![t] = where], out' = out \o text, GivenOut(t, part),
         UNCHANGED <<statement, m_stream, logged>>
  PROVE  TerminalTypes'
<1>0. /\ at \in [Thread -> {"idle", "inserting", "ending"}]
      /\ out \in Seq(Word) /\ logged \in [Thread -> Seq(Statement)]
      /\ printed \in Seq(PieceOf)
  BY DEF TerminalInv, TerminalTypes, PieceOf
<1>1. at' \in [Thread -> {"idle", "inserting", "ending"}]
  BY <1>0
<1>2. out' \in Seq(Word)
  BY <1>0, ConcatProperties
<1>3. printed' \in Seq(PieceOf)
  <2>1. Len(logged[t]) \in Nat /\ Len(out') \in Nat
    BY <1>0, <1>2
  <2>2. [thread |-> t, n |-> Len(logged[t]), part |-> part, to |-> Len(out')] \in PieceOf
    BY <2>1 DEF PieceOf
  <2> QED BY <1>0, <2>2 DEF GivenOut
<1> QED BY <1>1, <1>2, <1>3 DEF TerminalInv, TerminalTypes, PieceOf

LEMMA PrintTextKeeps ==
  ASSUME TerminalInv, NEW t \in Thread, PrintText(t)
  PROVE  TerminalInv'
<1>0. /\ at \in [Thread -> {"idle", "inserting", "ending"}]
      /\ statement \in [Thread -> Statement] /\ m_stream \in [Thread -> Seq(Operand)]
      /\ logged \in [Thread -> Seq(Statement)]
  BY DEF TerminalInv, TerminalTypes
<1>1. /\ at[t] = "inserting" /\ statement[t].operands = <<>>
      /\ at' = [at EXCEPT ![t] = "ending"] /\ GivenOut(t, "text")
      /\ UNCHANGED <<statement, m_stream, logged>>
  BY DEF PrintText
<1>2. PICK last \in Statement : last = logged[t][Len(logged[t])] /\ logged[t] # <<>>
  <2>1. logged[t] # <<>>
    BY <1>1 DEF TerminalInv, StreamInv
  <2> QED BY <1>0, <2>1
<1>3. /\ Threshold <= last.level /\ statement[t].level = last.level
      /\ last.operands = m_stream[t]
  <2>1. m_stream[t] \o <<>> = m_stream[t]
    BY <1>0, ConcatEmptySeq
  <2> QED BY <1>1, <1>2, <2>1 DEF TerminalInv, StreamInv
<1>4. PICK text \in Seq(Word) : text = Decorated(last.level, last.operands)
  <2>1. last.level \in Severity /\ last.operands \in Seq(Word)
    BY OperandsAreWords DEF Statement
  <2> QED BY <2>1, DecoratedIsText
<1>5. out' = out \o text
  BY <1>3, <1>4 DEF PrintText
<1>6. TerminalTypes'
  BY <1>1, <1>5, PrintingKeepsTypes
<1>7. StreamInv'
  BY <1>0, <1>1 DEF TerminalInv, StreamInv
<1>8. PlaceInv'
  BY <1>1, <1>2, <1>4, <1>5, PlaceOneMore
<1>9. Len(logged[t]) \in 1..Len(logged[t]) /\ DOMAIN logged[t] = 1..Len(logged[t])
  BY <1>0, <1>2
<1>10. ~Due(t, Len(logged[t]), "text") /\ ~Due(t, Len(logged[t]), "end")
  BY <1>1, <1>9 DEF Due
<1>11. ASSUME NEW u \in Thread, NEW n \in Nat, NEW q \in {"text", "end"}
       PROVE  Due(u, n, q)' <=> \/ Due(u, n, q)
                                \/ u = t /\ n = Len(logged[t]) /\ q = "text"
  <2>1. CASE u # t
    <3>1. at'[u] = at[u]
      BY <1>0, <1>1, <2>1
    <3> QED BY <1>1, <2>1, <3>1 DEF Due
  <2>2. CASE u = t
    <3>1. at'[t] = "ending"
      BY <1>0, <1>1
    <3> QED BY <1>1, <1>2, <1>3, <1>9, <2>2, <3>1 DEF Due
  <2> QED BY <2>1, <2>2
<1>12. PiecesAreThoseDue'
  BY <1>1, <1>2, <1>10, <1>11, OneMoreDue
<1> QED BY <1>6, <1>7, <1>8, <1>12 DEF TerminalInv

LEMMA EndLineKeeps ==
  ASSUME TerminalInv, NEW t \in Thread, EndLine(t)
  PROVE  TerminalInv'
<1>0. /\ at \in [Thread -> {"idle", "inserting", "ending"}]
      /\ logged \in [Thread -> Seq(Statement)] /\ out \in Seq(Word)
  BY DEF TerminalInv, TerminalTypes
<1>1. /\ at[t] = "ending"
      /\ at' = [at EXCEPT ![t] = "idle"] /\ GivenOut(t, "end")
      /\ UNCHANGED <<statement, m_stream, logged>>
  BY DEF EndLine
<1>2. logged[t] # <<>> /\ Threshold <= logged[t][Len(logged[t])].level
  BY <1>1 DEF TerminalInv, StreamInv
<1>3. PICK text \in Seq(Word) : text = <<"\n">>
  BY EndIsText
<1>4. out' = out \o text
  <2>1. out' = Append(out, "\n")
    BY DEF EndLine
  <2>2. "\n" \in Word
    BY DEF Word
  <2>3. Append(out, "\n") = out \o <<"\n">>
    BY <1>0, <2>2
  <2> QED BY <1>3, <2>1, <2>3
<1>6. TerminalTypes'
  BY <1>1, <1>4, PrintingKeepsTypes
<1>7. StreamInv'
  BY <1>0, <1>1 DEF TerminalInv, StreamInv
<1>8. PlaceInv'
  BY <1>1, <1>2, <1>3, <1>4, PlaceOneMore
<1>9. Len(logged[t]) \in 1..Len(logged[t]) /\ DOMAIN logged[t] = 1..Len(logged[t])
  BY <1>0, <1>2
<1>10. ~Due(t, Len(logged[t]), "end")
  BY <1>1, <1>9 DEF Due
<1>11. ASSUME NEW u \in Thread, NEW n \in Nat, NEW q \in {"text", "end"}
       PROVE  Due(u, n, q)' <=> \/ Due(u, n, q)
                                \/ u = t /\ n = Len(logged[t]) /\ q = "end"
  <2>1. CASE u # t
    <3>1. at'[u] = at[u]
      BY <1>0, <1>1, <2>1
    <3> QED BY <1>1, <2>1, <3>1 DEF Due
  <2>2. CASE u = t
    <3>1. at'[t] = "idle"
      BY <1>0, <1>1
    <3> QED BY <1>1, <1>2, <1>9, <2>2, <3>1 DEF Due
  <2> QED BY <2>1, <2>2
<1>12. PiecesAreThoseDue'
  BY <1>1, <1>2, <1>10, <1>11, OneMoreDue
<1> QED BY <1>6, <1>7, <1>8, <1>12 DEF TerminalInv

\* A text that is at its place is that part of the output.
LEMMA PlacesMakeTheOutput ==
  ASSUME TerminalInv
  PROVE  OutputIsPieces
<1>1. ASSUME NEW k \in DOMAIN printed
      PROVE  SubSeq(out, PrintedTo(k - 1) + 1, printed[k].to) = TextOf(printed[k])
  <2>1. PICK text \in Seq(Word) : text = TextOf(printed[k])
    BY PieceFacts
  <2>2. PICK from \in Nat : from = PrintedTo(k - 1)
    <3>1. k - 1 \in 0..Len(printed)
      BY PieceFacts, PieceTypes DEF TerminalInv
    <3> QED BY <3>1, PrintedToIsNat DEF TerminalInv
  <2>3. /\ printed[k].to = from + Len(text) /\ printed[k].to <= Len(out)
        /\ \A i \in 1..Len(text) : out[from + i] = text[i]
    BY <2>1, <2>2 DEF TerminalInv, PlaceInv, Placed
  <2>4. out \in Seq(Word) /\ Len(text) \in Nat /\ Len(out) \in Nat
    BY DEF TerminalInv, TerminalTypes
  <2> DEFINE cut == SubSeq(out, from + 1, from + Len(text))
  <2>5. /\ cut \in Seq(Word) /\ Len(cut) = Len(text)
        /\ \A i \in 1..Len(text) : cut[i] = out[from + i]
    BY <2>3, <2>4, SubSeqProperties
  <2>6. cut = text
    BY <2>3, <2>5, SeqEqual
  <2> QED BY <2>1, <2>2, <2>3, <2>6
<1>2. Len(out) = PrintedTo(Len(printed))
  BY DEF TerminalInv, PlaceInv
<1> QED BY <1>1, <1>2 DEF OutputIsPieces

\* Messages that threads print at the same time come out whole, each once and
\* those of a thread in order (OutStream of Logger.h), whatever they insert.
THEOREM TerminalKeepsMessagesWhole ==
  ASSUME Statements \subseteq Statement
  PROVE  TerminalSpec => []MessagesAreWhole
<1>1. TerminalInit => TerminalInv
  BY TerminalStarts
<1>2. TerminalInv /\ [TerminalNext]_terminalVars => TerminalInv'
  <2> SUFFICES ASSUME TerminalInv, [TerminalNext]_terminalVars PROVE TerminalInv'
    OBVIOUS
  <2>1. CASE SetLogger
    BY <2>1, SetLoggerKeeps
  <2>2. ASSUME NEW t \in Thread, NEW s \in Statements, Macro(t, s) PROVE TerminalInv'
    <3>1. s \in Statement
      OBVIOUS
    <3> QED BY <2>2, <3>1, MacroKeeps
  <2>3. ASSUME NEW t \in Thread, Insert(t) PROVE TerminalInv'
    BY <2>3, InsertKeeps
  <2>4. ASSUME NEW t \in Thread, PrintText(t) PROVE TerminalInv'
    BY <2>4, PrintTextKeeps
  <2>5. ASSUME NEW t \in Thread, EndLine(t) PROVE TerminalInv'
    BY <2>5, EndLineKeeps
  <2>6. CASE UNCHANGED terminalVars
    <3>1. UNCHANGED <<at, statement, m_stream, out, logged, printed>>
      BY <2>6 DEF terminalVars
    <3>2. TerminalTypes' /\ StreamInv'
      BY <3>1 DEF TerminalInv, TerminalTypes, StreamInv
    <3>3. PlaceInv'
      BY <3>1, PlacesStay
    <3>4. PiecesAreThoseDue'
      BY <3>1, DuesStay DEF TerminalInv, TerminalTypes, Due
    <3> QED BY <3>2, <3>3, <3>4 DEF TerminalInv
  <2> QED BY <2>1, <2>2, <2>3, <2>4, <2>5, <2>6 DEF TerminalNext
<1>3. TerminalInv => MessagesAreWhole
  BY PlacesMakeTheOutput DEF TerminalInv, MessagesAreWhole
<1> QED BY <1>1, <1>2, <1>3, PTL DEF TerminalSpec

-----------------------------------------------------------------------------
(***************************************************************************)
(* The formatter that makes the text of a line (Format).                   *)
(***************************************************************************)
CONSTANTS Part, Arg   \* what a format string and a list of arguments consist of

IsRef(ref) == ref.by \in {"count", "number", "name"} /\ (ref.by = "number" => ref.index \in Nat)

IsSize(ref) == ref.by = "value" \/ IsRef(ref)

\* What callers pass: any parts and any arguments; of a field, what it refers
\* to is told by its turn, by a number or by a name.
CallsAreWellFormed ==
  /\ MaxPackedArgs \in Nat
  /\ FormatString \subseteq Seq(Part) /\ ArgLists \subseteq Seq(Arg)
  /\ \A p \in Part : p.kind = "field" =>
       /\ IsRef(p.ref) /\ IsSize(p.width) /\ IsSize(p.precision)
       /\ {"width", "precision"} \subseteq DOMAIN p.spec

\* Either all of some references are by turn and were counted, or none is.
Counts(n, refs) ==
  \/ n = Cardinality(refs) /\ \A r \in refs : RefAt(r[1], r[2]).by = "count"
  \/ n = -1 /\ \A r \in refs : RefAt(r[1], r[2]).by # "count"

CallTypes ==
  /\ call \in Seq(Part) /\ format_str \in Seq(Part) /\ args \in Seq(Arg)
  /\ Len(format_str) <= Len(call)
  /\ \A j \in 1..Len(format_str) : format_str[j] = call[Done + j]

FieldInv ==
  outcome \in {"formatting", "returned"} =>
    /\ CallTypes
    /\ Counts(next_arg_index_, RefsBefore(Done + 1, 1))
    /\ DOMAIN written = {i \in Fields : i <= Done}
    /\ \A i \in DOMAIN written : ShowsWhatItNames(i)
    /\ outcome = "returned" => format_str = <<>>

-----------------------------------------------------------------------------
\* The references of a call, in their order.
LEMMA RefsAre ==
  ASSUME CallTypes
  PROVE  /\ Fields \subseteq 1..Len(call) /\ Len(call) \in Nat
         /\ IsFiniteSet(Refs)
         /\ \A r \in Refs : r = <<r[1], r[2]>> /\ r[1] \in Fields /\ r[2] \in 1..3
<1>1. Fields \subseteq 1..Len(call) /\ Len(call) \in Nat
  BY DEF CallTypes, Fields
<1>2. IsFiniteSet(Fields) /\ IsFiniteSet(1..3)
  <2>1. IsFiniteSet(1..Len(call))
    BY <1>1, FS_Interval
  <2>2. IsFiniteSet(Fields)
    BY <1>1, <2>1, FS_Subset
  <2>3. IsFiniteSet(1..3)
    <3>1. 1 \in Int /\ 3 \in Int
      OBVIOUS
    <3> QED BY <3>1, FS_Interval, Zenon
  <2> QED BY <2>2, <2>3
<1>3. IsFiniteSet(Refs)
  <2>1. Refs \in SUBSET (Fields \X (1..3))
    BY DEF Refs
  <2>2. IsFiniteSet(Fields \X (1..3))
    BY <1>2, FS_Product
  <2> QED BY <2>1, <2>2, FS_Subset
<1>4. \A r \in Refs : r = <<r[1], r[2]>> /\ r[1] \in Fields /\ r[2] \in 1..3
  BY DEF Refs
<1> QED BY <1>1, <1>3, <1>4

LEMMA RefsBeforeIsFinite ==
  ASSUME CallTypes, NEW i, NEW slot
  PROVE  IsFiniteSet(RefsBefore(i, slot)) /\ Cardinality(RefsBefore(i, slot)) \in Nat
<1>1. RefsBefore(i, slot) \in SUBSET Refs
  BY DEF RefsBefore
<1> QED BY <1>1, RefsAre, FS_Subset, FS_CardinalityType

LEMMA RefsOfOneMore ==
  ASSUME CallTypes, NEW i \in Fields, NEW slot \in 1..3
  PROVE  /\ RefAt(i, slot).by # "value" =>
              /\ <<i, slot>> \notin RefsBefore(i, slot)
              /\ RefsBefore(i, slot + 1) = RefsBefore(i, slot) \cup {<<i, slot>>}
         /\ RefAt(i, slot).by = "value" =>
              RefsBefore(i, slot + 1) = RefsBefore(i, slot)
<1>1. i \in Nat
  BY RefsAre
<1>2. <<i, slot>> \notin RefsBefore(i, slot)
  BY <1>1 DEF RefsBefore
<1>3. RefAt(i, slot).by # "value" <=> <<i, slot>> \in Refs
  BY DEF Refs
<1>4. ASSUME NEW r \in Refs
      PROVE  /\ r[1] < i \/ (r[1] = i /\ r[2] < slot + 1) <=> r[1] < i \/ (r[1] = i /\ r[2] < slot) \/ r = <<i, slot>>
             /\ r = <<i, slot>> => ~(r[1] < i \/ (r[1] = i /\ r[2] < slot))
  <2>1. r = <<r[1], r[2]>> /\ r[1] \in Nat /\ r[2] \in 1..3
    BY RefsAre
  <2>2. r = <<i, slot>> <=> r[1] = i /\ r[2] = slot
    BY <2>1
  <2>3. r[2] < slot + 1 <=> r[2] < slot \/ r[2] = slot
    BY <2>1
  <2> QED BY <1>1, <2>1, <2>2, <2>3
<1> QED BY <1>2, <1>3, <1>4 DEF RefsBefore

LEMMA RefsOfNextPart ==
  ASSUME CallTypes, NEW i \in 1..Len(call)
  PROVE  RefsBefore(i + 1, 1) = IF i \in Fields THEN RefsBefore(i, 4)
                                ELSE RefsBefore(i, 1)
<1>1. ASSUME NEW r \in Refs
      PROVE  /\ r[1] \in Fields /\ r[1] \in Nat /\ r[2] \in 1..3
             /\ r[1] < i + 1 \/ (r[1] = i + 1 /\ r[2] < 1) <=> r[1] < i \/ r[1] = i
  <2>1. r[1] \in Nat /\ r[2] \in 1..3 /\ r[1] \in Fields
    BY RefsAre
  <2> QED BY <2>1
<1>2. CASE i \in Fields
  <2>1. \A r \in Refs : (r[1] = i /\ r[2] < 4) <=> r[1] = i
    BY <1>1
  <2> QED BY <1>1, <1>2, <2>1 DEF RefsBefore
<1>3. CASE i \notin Fields
  <2>1. \A r \in Refs : r[1] # i
    BY <1>1, <1>3
  <2> QED BY <1>1, <1>3, <2>1 DEF RefsBefore
<1> QED BY <1>2, <1>3

-----------------------------------------------------------------------------
LEMMA FirstNumber ==
  ASSUME NEW T \in SUBSET Nat, T # {}
  PROVE  \E n \in T : \A m \in T : n <= m
<1> DEFINE R == OpToRel(<, Nat)
<1>1. IsWellFoundedOn(R, Nat)
  BY NatLessThanWellFounded, Zenon
<1>2. PICK n \in T : \A m \in T : ~(<<m, n>> \in R)
  <2> HIDE DEF R
  <2> QED BY <1>1, WFMin
<1>3. \A m \in T : n <= m
  <2> SUFFICES ASSUME NEW m \in T, m < n PROVE FALSE
    OBVIOUS
  <2>1. <<m, n>> \in R
    BY DEF OpToRel
  <2> QED BY <2>1, <1>2, Zenon
<1> QED BY <1>3

\* However the arguments are stored, one that is found is that of its number.
LEMMA ArgAtIs ==
  ASSUME CallTypes, MaxPackedArgs \in Nat, NEW i \in Nat, ArgAt(i) # NoArg
  PROVE  ArgAt(i) = args[i + 1] /\ i + 1 \in 1..Len(args)
<1>1. Len(args) \in Nat
  BY DEF CallTypes
<1>2. CASE i < MaxPackedArgs
  BY <1>1, <1>2 DEF ArgAt
<1>3. CASE i >= MaxPackedArgs
  <2>1. ~Packed
    BY <1>1, <1>3 DEF ArgAt
  <2> DEFINE m == Min({i, Len(args)})
  <2>2. ArgAt(i) = Append(args, NoArg)[m + 1]
    <3>1. ~(i < MaxPackedArgs) /\ i >= MaxPackedArgs
      BY <1>3
    <3> QED BY <2>1, <3>1, Zenon DEF ArgAt
  <2>3. m \in {i, Len(args)} /\ m <= i /\ m <= Len(args)
    <3>1. \E x \in {i, Len(args)} : \A y \in {i, Len(args)} : x =< y
      BY <1>1
    <3> QED BY <3>1 DEF Min
  <2>4. CASE m = Len(args)
    <3>1. Append(args, NoArg)[m + 1] = NoArg
      BY <2>4 DEF CallTypes
    <3> QED BY <2>2, <3>1
  <2>5. CASE m = i /\ m < Len(args)
    <3>1. Append(args, NoArg)[m + 1] = args[i + 1]
      BY <1>1, <2>5 DEF CallTypes
    <3>2. i + 1 \in 1..Len(args)
      BY <1>1, <2>5
    <3> QED BY <2>2, <3>1, <3>2
  <2> QED BY <1>1, <2>3, <2>4, <2>5
<1> QED BY <1>1, <1>2, <1>3

LEMMA UnnamedIsSome ==
  ASSUME NEW arg, Unnamed(arg) # NoArg
  PROVE  arg # NoArg
<1>1. NoArg.type # "named"
  BY DEF NoArg
<1> QED BY <1>1 DEF Unnamed

\* A reference that is accepted leads to the argument that it means, and is
\* counted if it goes by its turn.
LEMMA LookupShows ==
  ASSUME CallTypes, CallsAreWellFormed, NEW i \in Fields, NEW slot \in 1..3,
         NEW ref, ref = RefAt(i, slot), IsRef(ref),
         NEW n, Counts(n, RefsBefore(i, slot)),
         NEW reached, reached = Lookup(n, ref), reached.arg # NoArg
  PROVE  /\ reached.arg = Unnamed(Meant(i, slot))
         /\ Counts(reached.next, RefsBefore(i, slot + 1))
<1> DEFINE refs == RefsBefore(i, slot)
<1>1. /\ <<i, slot>> \notin refs
      /\ RefsBefore(i, slot + 1) = refs \cup {<<i, slot>>}
  BY RefsOfOneMore DEF IsRef
<1>2. IsFiniteSet(refs) /\ Cardinality(refs) \in Nat
  BY RefsBeforeIsFinite
<1>3. Cardinality(refs \cup {<<i, slot>>}) = Cardinality(refs) + 1
  BY <1>1, <1>2, FS_AddElement
<1>4. \A r \in refs \cup {<<i, slot>>} : r \in refs \/ (r[1] = i /\ r[2] = slot)
  OBVIOUS
<1>5. \A r \in refs : n = Cardinality(refs) => RefAt(r[1], r[2]).by = "count" \/ n = -1
  BY <1>2 DEF Counts
<1> HIDE DEF refs
<1>6. CASE ref.by = "count"
  <2>1. n >= 0
    BY <1>6 DEF Lookup
  <2>2. n = Cardinality(refs) /\ \A r \in refs : RefAt(r[1], r[2]).by = "count"
    BY <1>2, <2>1 DEF Counts, refs
  <2>3. reached = [next |-> n + 1, arg |-> Unnamed(ArgAt(n))]
    BY <1>6, <2>1 DEF Lookup
  <2>4. ArgAt(n) = args[n + 1]
    BY <1>2, <2>2, <2>3, UnnamedIsSome, ArgAtIs DEF CallsAreWellFormed
  <2>5. Meant(i, slot) = args[n + 1]
    <3>1. RefAt(i, slot).by = "count" /\ Cardinality(RefsBefore(i, slot)) = n
      BY <1>6, <2>2 DEF refs
    <3> QED BY <3>1 DEF Meant
  <2>6. Counts(n + 1, refs \cup {<<i, slot>>})
    BY <1>3, <1>4, <1>6, <2>2 DEF Counts
  <2>7. reached.arg = Unnamed(Meant(i, slot))
    BY <2>3, <2>4, <2>5
  <2>8. reached.next = n + 1
    BY <2>3
  <2> QED BY <1>1, <2>6, <2>7, <2>8
<1>7. CASE ref.by \in {"number", "name"}
  <2>1. n <= 0
    BY <1>7 DEF Lookup
  <2>2. \A r \in refs : RefAt(r[1], r[2]).by # "count"
    <3>1. CASE n = Cardinality(refs)
      <4>1. refs = {}
        BY <1>2, <2>1, <3>1, FS_EmptySet
      <4> QED BY <4>1
    <3> QED BY <3>1 DEF Counts, refs
  <2>3. reached.next = -1
    BY <1>7, <2>1 DEF Lookup
  <2>4. Counts(-1, refs \cup {<<i, slot>>})
    BY <1>4, <1>7, <2>2 DEF Counts
  <2>5. CASE ref.by = "number"
    <3>1. reached.arg = Unnamed(ArgAt(ref.index)) /\ ref.index \in Nat
      BY <2>1, <2>5 DEF Lookup, IsRef
    <3>2. ArgAt(ref.index) = args[ref.index + 1]
      BY <3>1, UnnamedIsSome, ArgAtIs DEF CallsAreWellFormed
    <3>3. Meant(i, slot) = args[ref.index + 1]
      BY <2>5 DEF Meant
    <3> QED BY <1>1, <2>3, <2>4, <3>1, <3>2, <3>3
  <2>6. CASE ref.by = "name"
    <3> DEFINE IsIt(m) == args[m].type = "named" /\ args[m].name = ref.name
               its == {m \in DOMAIN args : IsIt(m)}
    <3>1. reached.arg = Named(ref.name)
      BY <2>1, <2>6 DEF Lookup
    <3>2. its # {} /\ reached.arg = args[Min(its)].arg
      BY <3>1 DEF Named
    <3>3. DOMAIN args = 1..Len(args) /\ Len(args) \in Nat
      BY DEF CallTypes
    <3>4. PICK first \in its : \A m \in its : first <= m
      <4>1. its \in SUBSET Nat
        BY <3>3
      <4> HIDE DEF its
      <4> QED BY <3>2, <4>1, FirstNumber
    <3>5. Min(its) = first
      <4>1. \A m \in its : m \in Nat
        BY <3>3
      <4> HIDE DEF its
      <4> QED BY <3>4, <4>1 DEF Min
    <3>6. Meant(i, slot) = args[first]
      <4>1. first \in DOMAIN args /\ IsIt(first) /\ \A m \in 1..(first - 1) : ~IsIt(m)
        BY <3>3, <3>4
      <4>2. ASSUME NEW m \in DOMAIN args, IsIt(m), \A q \in 1..(m - 1) : ~IsIt(q)
            PROVE  m = first
        <5>1. ~(first < m)
          BY <3>3, <4>1, <4>2
        <5>2. ~(m < first)
          BY <3>3, <4>1, <4>2
        <5> QED BY <3>3, <4>1, <5>1, <5>2
      <4>3. first = CHOOSE m \in DOMAIN args : IsIt(m) /\ \A q \in 1..(m - 1) : ~IsIt(q)
        <5> HIDE DEF IsIt
        <5> QED BY <4>1, <4>2
      <4>4. first = FirstNamed(args, ref.name)
        BY <4>3 DEF FirstNamed
      <4> QED BY <2>6, <4>4 DEF Meant
    <3>7. Unnamed(args[first]) = args[first].arg
      BY <3>4 DEF Unnamed
    <3> QED BY <1>1, <2>3, <2>4, <3>2, <3>5, <3>6, <3>7
  <2> QED BY <1>7, <2>5, <2>6
<1> QED BY <1>6, <1>7 DEF IsRef

LEMMA SizeShows ==
  ASSUME CallTypes, CallsAreWellFormed, NEW i \in Fields, NEW slot \in 1..3,
         NEW ref, ref = RefAt(i, slot), IsSize(ref),
         NEW n, Counts(n, RefsBefore(i, slot)),
         NEW reached, reached = LookupSize(n, ref), reached.ok
  PROVE  /\ ref.by # "value" => reached.size = Unnamed(Meant(i, slot)).value
         /\ Counts(reached.next, RefsBefore(i, slot + 1))
<1>1. CASE ref.by = "value"
  <2>1. reached.next = n
    BY <1>1 DEF LookupSize
  <2>2. RefsBefore(i, slot + 1) = RefsBefore(i, slot)
    BY <1>1, RefsOfOneMore
  <2> QED BY <1>1, <2>1, <2>2
<1>2. CASE ref.by # "value"
  <2>1. IsRef(ref)
    BY <1>2 DEF IsSize
  <2>2. PICK looked : looked = Lookup(n, ref)
    OBVIOUS
  <2> DEFINE good == looked.arg.type \in {"int", "uint"} /\ looked.arg.value >= 0
  <2>3. reached = [next |-> looked.next, ok |-> good, size |-> IF good THEN looked.arg.value ELSE 0]
    BY <1>2, <2>2 DEF LookupSize
  <2>4. good
    <3>1. ASSUME ~good PROVE FALSE
      <4>1. LookupSize(n, ref) = [next |-> looked.next, ok |-> FALSE, size |-> 0]
        BY <1>2, <2>2, <3>1 DEF LookupSize
      <4>2. ~[next |-> looked.next, ok |-> FALSE, size |-> 0].ok
        OBVIOUS
      <4> QED BY <4>1, <4>2
    <3> QED BY <3>1
  <2>5. looked.arg # NoArg
    BY <2>4 DEF NoArg
  <2>6. reached.next = looked.next /\ reached.size = looked.arg.value
    BY <2>3, <2>4
  <2> QED BY <2>1, <2>2, <2>5, <2>6, LookupShows
<1> QED BY <1>1, <1>2

\* The references depend on the call only.
LEMMA RefsStay ==
  ASSUME UNCHANGED call
  PROVE  /\ Fields' = Fields
         /\ \A i, slot : RefAt(i, slot)' = RefAt(i, slot)
         /\ \A i, slot : RefsBefore(i, slot)' = RefsBefore(i, slot)
<1>1. Fields' = Fields
  BY DEF Fields
<1>2. \A i, slot : RefAt(i, slot)' = RefAt(i, slot)
  BY DEF RefAt
<1>3. Refs' = Refs
  BY <1>1, <1>2 DEF Refs
<1>4. \A i, slot : RefsBefore(i, slot)' = RefsBefore(i, slot)
  BY <1>3 DEF RefsBefore
<1> QED BY <1>1, <1>2, <1>4

\* What is meant, and so what was written, stays right as long as the call is
\* the same.
LEMMA MeantStays ==
  ASSUME UNCHANGED <<call, args>>, NEW i, NEW slot
  PROVE  Meant(i, slot)' = Meant(i, slot)
<1>1. /\ args' = args /\ RefAt(i, slot)' = RefAt(i, slot)
      /\ RefsBefore(i, slot)' = RefsBefore(i, slot)
  BY RefsStay
<1> QED BY <1>1 DEF Meant

LEMMA ShowingStays ==
  ASSUME UNCHANGED <<call, args>>, NEW i, written'[i] = written[i], ShowsWhatItNames(i)
  PROVE  ShowsWhatItNames(i)'
BY MeantStays DEF ShowsWhatItNames

LEMMA CountsStay ==
  ASSUME UNCHANGED call, NEW n, NEW i, Counts(n, RefsBefore(i, 1))
  PROVE  Counts(n, RefsBefore(i, 1))'
BY RefsStay DEF Counts

-----------------------------------------------------------------------------
\* Where the part in hand is.
LEMMA PartInHand ==
  ASSUME CallTypes, format_str # <<>>
  PROVE  /\ Done \in Nat /\ Done + 1 \in 1..Len(call)
         /\ Head(format_str) = call[Done + 1] /\ Head(format_str) \in Part
         /\ Tail(format_str) \in Seq(Part) /\ Len(Tail(format_str)) = Len(format_str) - 1
         /\ \A j \in 1..Len(Tail(format_str)) : Tail(format_str)[j] = call[Done + 1 + j]
<1>1. format_str \in Seq(Part) /\ call \in Seq(Part) /\ Len(format_str) \in Nat /\ Len(call) \in Nat
      /\ Len(format_str) > 0 /\ Len(format_str) <= Len(call)
  BY DEF CallTypes
<1>2. Done \in Nat /\ Done + 1 \in 1..Len(call)
  BY <1>1 DEF Done
<1>3. Head(format_str) = format_str[1] /\ format_str[1] \in Part
  BY <1>1
<1>4. format_str[1] = call[Done + 1]
  BY <1>1 DEF CallTypes
<1>5. /\ Tail(format_str) \in Seq(Part) /\ Len(Tail(format_str)) = Len(format_str) - 1
      /\ \A j \in 1..Len(Tail(format_str)) : Tail(format_str)[j] = format_str[j + 1]
  BY <1>1
<1>6. ASSUME NEW j \in 1..Len(Tail(format_str))
      PROVE  Tail(format_str)[j] = call[Done + 1 + j]
  <2>1. j + 1 \in 1..Len(format_str) /\ Tail(format_str)[j] = format_str[j + 1]
    BY <1>1, <1>5
  <2>2. format_str[j + 1] = call[Done + (j + 1)]
    BY <2>1 DEF CallTypes
  <2>3. Done + (j + 1) = Done + 1 + j
    BY <1>2
  <2> QED BY <2>1, <2>2, <2>3
<1> QED BY <1>2, <1>3, <1>4, <1>5, <1>6

\* One part more has been dealt with.
LEMMA OnePartMore ==
  ASSUME CallTypes, format_str # <<>>, format_str' = Tail(format_str), UNCHANGED <<call, args>>
  PROVE  CallTypes' /\ Done' = Done + 1
<1>1. Done' = Done + 1
  <2>1. Len(format_str) \in Nat /\ Len(call) \in Nat
    BY DEF CallTypes
  <2> QED BY <2>1, PartInHand DEF Done
<1>2. PICK done \in Nat : done = Done
  BY PartInHand
<1>3. \A j \in 1..Len(format_str') : format_str'[j] = call'[done + 1 + j]
  BY <1>2, PartInHand
<1>4. Len(format_str') <= Len(call')
  BY PartInHand DEF CallTypes
<1>5. Done' = done + 1
  BY <1>1, <1>2
<1>6. format_str' \in Seq(Part) /\ call' \in Seq(Part) /\ args' \in Seq(Arg)
  BY PartInHand DEF CallTypes
<1> QED BY <1>1, <1>3, <1>4, <1>5, <1>6 DEF CallTypes

LEMMA FormatKeeps ==
  ASSUME CallsAreWellFormed, NEW parts \in FormatString, NEW list \in ArgLists, Format(parts, list)
  PROVE  FieldInv'
<1>1. /\ outcome' = "formatting" /\ format_str' = parts /\ args' = list /\ next_arg_index_' = 0
      /\ call' = parts /\ written' = <<>>
  BY DEF Format
<1>2. parts \in Seq(Part) /\ list \in Seq(Arg) /\ Len(parts) \in Nat
  BY DEF CallsAreWellFormed
<1>3. Done' = 0
  BY <1>1, <1>2 DEF Done
<1>4. CallTypes'
  BY <1>1, <1>2, <1>3 DEF CallTypes
<1>5. \A r \in Refs' : r[1] \in 1..Len(parts) /\ r[2] \in 1..3
  <2>1. Fields' \subseteq 1..Len(parts)
    BY <1>1, <1>2 DEF Fields
  <2> QED BY <2>1 DEF Refs
<1>6. RefsBefore(1, 1)' = {}
  BY <1>5 DEF RefsBefore
<1>7. Counts(0, RefsBefore(1, 1))'
  BY <1>6, FS_EmptySet DEF Counts
<1>8. Counts(next_arg_index_, RefsBefore(Done + 1, 1))'
  BY <1>1, <1>3, <1>7
<1>9. DOMAIN written' = {} /\ {i \in Fields' : i <= Done'} = {}
  <2>1. Fields' \subseteq 1..Len(parts)
    BY <1>1, <1>2 DEF Fields
  <2>2. \A i \in Fields' : i >= 1
    BY <2>1
  <2>3. \A i \in Fields' : ~(i <= Done')
    BY <1>2, <1>3, <2>1, <2>2
  <2>4. DOMAIN written' = {}
    BY <1>1
  <2> QED BY <2>3, <2>4
<1> QED BY <1>1, <1>4, <1>8, <1>9 DEF FieldInv

\* Fields that have been dealt with.
LEMMA FieldsDone ==
  ASSUME CallTypes, NEW done \in Nat, done + 1 \in 1..Len(call)
  PROVE  {i \in Fields : i <= done + 1} =
           {i \in Fields : i <= done} \cup (IF done + 1 \in Fields THEN {done + 1} ELSE {})
<1>1. \A i \in Fields : i \in Nat
  BY RefsAre
<1>2. \A i \in Fields : i <= done + 1 <=> i <= done \/ i = done + 1
  BY <1>1
<1> QED BY <1>2

LEMMA WriteTextKeeps ==
  ASSUME FieldInv, CopyText
  PROVE  FieldInv'
<1>1. /\ outcome = "formatting" /\ format_str # <<>> /\ Head(format_str).kind = "text"
      /\ format_str' = Tail(format_str)
      /\ UNCHANGED <<args, next_arg_index_, outcome, call, written>>
  BY DEF CopyText, Formatting
<1>2. /\ CallTypes /\ Counts(next_arg_index_, RefsBefore(Done + 1, 1))
      /\ DOMAIN written = {i \in Fields : i <= Done}
      /\ \A i \in DOMAIN written : ShowsWhatItNames(i)
  BY <1>1 DEF FieldInv
<1>3. PICK done \in Nat : /\ done = Done /\ done + 1 \in 1..Len(call)
                          /\ Head(format_str) = call[done + 1] /\ Done' = done + 1
  BY <1>1, <1>2, PartInHand, OnePartMore
<1>4. CallTypes'
  BY <1>1, <1>2, OnePartMore
<1>5. done + 1 \notin Fields
  BY <1>1, <1>3 DEF Fields
<1>6. RefsBefore(done + 2, 1) = RefsBefore(done + 1, 1)
  <2>1. done + 1 + 1 = done + 2
    BY <1>3
  <2> QED BY <1>2, <1>3, <1>5, <2>1, RefsOfNextPart
<1>7. Counts(next_arg_index_, RefsBefore(done + 2, 1))
  BY <1>2, <1>3, <1>6
<1>8. Counts(next_arg_index_, RefsBefore(Done + 1, 1))'
  <2>1. PICK n : n = next_arg_index_
    OBVIOUS
  <2>2. Counts(n, RefsBefore(done + 2, 1))'
    BY <1>1, <1>7, <2>1, CountsStay
  <2>3. next_arg_index_' = n /\ Done' + 1 = done + 2
    BY <1>1, <1>3, <2>1
  <2> QED BY <2>2, <2>3
<1>9. DOMAIN written' = {i \in Fields' : i <= Done'}
  <2>1. {i \in Fields : i <= done + 1} = {i \in Fields : i <= done}
    BY <1>2, <1>3, <1>5, FieldsDone
  <2> QED BY <1>1, <1>2, <1>3, <2>1, RefsStay
<1>10. \A i \in DOMAIN written' : ShowsWhatItNames(i)'
  BY <1>1, <1>2, ShowingStays
<1> QED BY <1>1, <1>4, <1>8, <1>9, <1>10 DEF FieldInv

\* A field is written after its value, its width and its precision were found.
LEMMA FieldKeeps ==
  ASSUME CallsAreWellFormed, FieldInv, Field
  PROVE  FieldInv'
<1> DEFINE field == Head(format_str)
           value == Lookup(next_arg_index_, field.ref)
           width == LookupSize(value.next, field.width)
           precision == LookupSize(width.next, field.precision)
           shown == AsString(value.arg)
           spec == [field.spec EXCEPT !.width = width.size, !.precision = precision.size]
<1>1. /\ outcome = "formatting" /\ format_str # <<>> /\ field.kind = "field"
      /\ format_str' = Tail(format_str) /\ UNCHANGED <<args, call>>
      /\ next_arg_index_' = precision.next
  BY DEF Field, Formatting
<1>2. \/ outcome' = "thrown"
      \/ /\ shown # NoArg /\ width.ok /\ precision.ok /\ outcome' = outcome
         /\ written' = [i \in DOMAIN written \cup {Done + 1} |->
                          IF i = Done + 1 THEN [arg |-> shown, spec |-> spec, at |-> buffer.size]
                          ELSE written[i]]
  BY DEF Field
<1>3. CASE outcome' = "thrown"
  BY <1>3 DEF FieldInv
<1>4. CASE outcome' # "thrown"
  <2>1. /\ CallTypes /\ Counts(next_arg_index_, RefsBefore(Done + 1, 1))
        /\ DOMAIN written = {i \in Fields : i <= Done}
        /\ \A i \in DOMAIN written : ShowsWhatItNames(i)
    BY <1>1 DEF FieldInv
  <2>2. PICK done \in Nat : /\ done = Done /\ done + 1 \in 1..Len(call)
                            /\ field = call[done + 1] /\ field \in Part /\ Done' = done + 1
    BY <1>1, <2>1, PartInHand, OnePartMore
  <2>3. PICK here \in Nat : here = done + 1
    OBVIOUS
  <2>4. CallTypes'
    BY <1>1, <2>1, OnePartMore
  <2>5. here \in Fields
    BY <1>1, <2>1, <2>2, <2>3 DEF Fields, CallTypes
  <2>6. /\ field.ref = RefAt(here, 1) /\ field.width = RefAt(here, 2)
        /\ field.precision = RefAt(here, 3)
    BY <2>2, <2>3 DEF RefAt
  <2>7. /\ IsRef(field.ref) /\ IsSize(field.width) /\ IsSize(field.precision)
        /\ {"width", "precision"} \subseteq DOMAIN field.spec
    BY <1>1, <2>2 DEF CallsAreWellFormed
  <2>8. /\ shown # NoArg /\ width.ok /\ precision.ok /\ outcome' = outcome
        /\ written' = [i \in DOMAIN written \cup {here} |->
                         IF i = here THEN [arg |-> shown, spec |-> spec, at |-> buffer.size]
                         ELSE written[i]]
    BY <1>2, <1>4, <2>2, <2>3
  <2>9. value.arg # NoArg
    <3>1. AsString(NoArg) = NoArg
      BY DEF AsString, NoArg
    <3> QED BY <2>8, <3>1
  <2>10. PICK foundValue : foundValue = value
    OBVIOUS
  <2>11. PICK foundWidth : foundWidth = width
    OBVIOUS
  <2>12. PICK foundPrecision : foundPrecision = precision
    OBVIOUS
  <2>13. Counts(next_arg_index_, RefsBefore(here, 1))
    BY <2>1, <2>2, <2>3
  <2>14. /\ foundValue.arg = Unnamed(Meant(here, 1))
         /\ Counts(foundValue.next, RefsBefore(here, 2))
    BY <2>1, <2>5, <2>6, <2>7, <2>9, <2>10, <2>13, LookupShows
  <2>15. /\ field.width.by # "value" => foundWidth.size = Unnamed(Meant(here, 2)).value
         /\ Counts(foundWidth.next, RefsBefore(here, 3))
    BY <2>1, <2>5, <2>6, <2>7, <2>8, <2>10, <2>11, <2>14, SizeShows
  <2>16. /\ field.precision.by # "value" => foundPrecision.size = Unnamed(Meant(here, 3)).value
         /\ Counts(foundPrecision.next, RefsBefore(here, 4))
    BY <2>1, <2>5, <2>6, <2>7, <2>8, <2>11, <2>12, <2>15, SizeShows
  <2>17. Counts(foundPrecision.next, RefsBefore(here + 1, 1))
    BY <2>1, <2>2, <2>3, <2>5, <2>16, RefsOfNextPart
  <2>18. Counts(next_arg_index_, RefsBefore(Done + 1, 1))'
    <3>1. Counts(foundPrecision.next, RefsBefore(here + 1, 1))'
      BY <1>1, <2>17, CountsStay
    <3>2. next_arg_index_' = foundPrecision.next /\ Done' + 1 = here + 1
      BY <1>1, <2>2, <2>3, <2>12
    <3> QED BY <3>1, <3>2
  <2>19. DOMAIN written' = {i \in Fields' : i <= Done'}
    <3>1. {i \in Fields : i <= done + 1} = {i \in Fields : i <= done} \cup {here}
      BY <2>1, <2>2, <2>3, <2>5, FieldsDone
    <3>2. DOMAIN written' = DOMAIN written \cup {here}
      BY <2>8
    <3> QED BY <1>1, <2>1, <2>2, <3>1, <3>2, RefsStay
  <2>20. ShowsWhatItNames(here)'
    <3>1. written'[here].arg = shown /\ written'[here].spec = spec
      BY <2>8
    <3>2. spec.width = foundWidth.size /\ spec.precision = foundPrecision.size
      BY <2>7, <2>11, <2>12
    <3>3. call[here] = field
      BY <2>2, <2>3
    <3>4. /\ written'[here].arg = AsString(Unnamed(Meant(here, 1)))
          /\ call[here].width.by # "value" =>
               written'[here].spec.width = Unnamed(Meant(here, 2)).value
          /\ call[here].precision.by # "value" =>
               written'[here].spec.precision = Unnamed(Meant(here, 3)).value
      BY <2>10, <2>14, <2>15, <2>16, <3>1, <3>2, <3>3
    <3>5. \A slot : Meant(here, slot)' = Meant(here, slot)
      BY <1>1, MeantStays
    <3>6. call' = call
      BY <1>1
    <3> QED BY <3>4, <3>5, <3>6 DEF ShowsWhatItNames
  <2>21. ASSUME NEW i \in DOMAIN written' PROVE ShowsWhatItNames(i)'
    <3>1. CASE i = here
      BY <2>20, <3>1
    <3>2. CASE i # here
      <4>1. i \in DOMAIN written /\ written'[i] = written[i]
        BY <2>8, <3>2
      <4> QED BY <1>1, <2>1, <4>1, ShowingStays
    <3> QED BY <3>1, <3>2
  <2>22. outcome' = "formatting"
    BY <1>1, <2>8
  <2> QED BY <2>4, <2>18, <2>19, <2>21, <2>22 DEF FieldInv
<1> QED BY <1>3, <1>4

LEMMA OtherStepsKeep ==
  ASSUME FieldInv,
         \/ Refuse
         \/ Return
         \/ UNCHANGED formatVars
  PROVE  FieldInv'
<1>1. CASE Refuse
  <2>1. outcome' = "thrown"
    BY <1>1 DEF Refuse
  <2> QED BY <2>1 DEF FieldInv
<1>2. CASE Return \/ UNCHANGED formatVars
  <2>1. UNCHANGED <<format_str, args, next_arg_index_, call, written>>
    BY <1>2 DEF Return, formatVars
  <2>2. \/ outcome = "formatting" /\ format_str = <<>> /\ outcome' = "returned"
        \/ outcome' = outcome
    BY <1>2 DEF Return, formatVars
  <2>3. SUFFICES ASSUME outcome' \in {"formatting", "returned"} PROVE FieldInv'
    BY DEF FieldInv
  <2>4. /\ CallTypes /\ Counts(next_arg_index_, RefsBefore(Done + 1, 1))
        /\ DOMAIN written = {i \in Fields : i <= Done}
        /\ \A i \in DOMAIN written : ShowsWhatItNames(i)
        /\ outcome' = "returned" => format_str = <<>>
    BY <2>2, <2>3 DEF FieldInv
  <2>5. Done' = Done
    BY <2>1 DEF Done
  <2>6. CallTypes'
    BY <2>1, <2>4, <2>5 DEF CallTypes
  <2>7. Counts(next_arg_index_, RefsBefore(Done + 1, 1))'
    <3>1. PICK n, next : n = next_arg_index_ /\ next = Done + 1
      OBVIOUS
    <3>2. Counts(n, RefsBefore(next, 1))'
      BY <2>1, <2>4, <3>1, CountsStay
    <3>3. next_arg_index_' = n /\ Done' + 1 = next
      BY <2>1, <2>5, <3>1
    <3> QED BY <3>2, <3>3
  <2>8. DOMAIN written' = {i \in Fields' : i <= Done'}
    BY <2>1, <2>4, <2>5, RefsStay
  <2>9. \A i \in DOMAIN written' : ShowsWhatItNames(i)'
    BY <2>1, <2>4, ShowingStays
  <2> QED BY <2>1, <2>4, <2>6, <2>7, <2>8, <2>9 DEF FieldInv
<1> QED BY <1>1, <1>2

(***************************************************************************)
(* For every format string and every list of arguments: what is not        *)
(* refused counts all its arguments or none, and each field is written     *)
(* with the value, the width and the precision that it refers to           *)
(* (next_arg_index_ of FormatterBase).                                     *)
(***************************************************************************)
THEOREM FieldsShowTheirArguments ==
  ASSUME CallsAreWellFormed
  PROVE  FormatSpec => []FieldsShowWhatTheyName
<1>1. FormatInit => FieldInv
  BY DEF FormatInit, FieldInv
<1>2. FieldInv /\ [FormatNext]_formatVars => FieldInv'
  BY FormatKeeps, WriteTextKeeps, FieldKeeps, OtherStepsKeep DEF FormatNext
<1>3. FieldInv => FieldsShowWhatTheyName
  <2> SUFFICES ASSUME FieldInv, outcome = "returned"
               PROVE  /\ \/ \A r \in Refs : RefAt(r[1], r[2]).by = "count"
                         \/ \A r \in Refs : RefAt(r[1], r[2]).by # "count"
                      /\ DOMAIN written = Fields
                      /\ \A i \in Fields : ShowsWhatItNames(i)
    BY DEF FieldsShowWhatTheyName
  <2>1. /\ CallTypes /\ Counts(next_arg_index_, RefsBefore(Done + 1, 1))
        /\ DOMAIN written = {i \in Fields : i <= Done}
        /\ \A i \in DOMAIN written : ShowsWhatItNames(i)
        /\ format_str = <<>>
    BY DEF FieldInv
  <2>2. Done = Len(call) /\ Len(call) \in Nat
    BY <2>1 DEF CallTypes, Done
  <2>3. \A i \in Fields : i \in Nat /\ i <= Len(call)
    BY <2>1, RefsAre
  <2>4. RefsBefore(Done + 1, 1) = Refs
    <3>1. \A r \in Refs : r[1] < Len(call) + 1
      BY <2>1, <2>2, <2>3, RefsAre
    <3> QED BY <2>2, <3>1 DEF RefsBefore
  <2>5. DOMAIN written = Fields
    BY <2>1, <2>2, <2>3
  <2> QED BY <2>1, <2>4, <2>5 DEF Counts
<1> QED BY <1>1, <1>2, <1>3, PTL DEF FormatSpec

-----------------------------------------------------------------------------
(***************************************************************************)
(* The buffer that the fields are written to (Writer).  A text is at a     *)
(* place: that is all the fields need to know, and putting something       *)
(* elsewhere or growing the buffer does not take it away.                  *)
(***************************************************************************)
\* What texts consist of: any characters but the one that marks a place of
\* the memory that was not written.
CONSTANT Char

Cell == Char \cup {Unset}

\* The characters the writer makes itself; no character is a place not written.
CharsAreThere ==
  /\ Unset \notin Char
  /\ {Digit[d] : d \in 1..16} \cup {" ", "-", "+", "x", "t", "r", "u", "l", "s"} \subseteq Char

IsBuffer(b) ==
  /\ b \in [ptr : Seq(Cell), size : Nat]
  /\ b.size <= Len(b.ptr) /\ InlineSize <= Len(b.ptr)

\* The text t is there, after so many places.
Has(b, after, t) ==
  /\ after + Len(t) <= Len(b.ptr)
  /\ \A j \in 1..Len(t) : b.ptr[after + j] = t[j]

\* c is what b becomes when t is written.
Writes(b, c, t) ==
  /\ IsBuffer(c) /\ c.size = b.size + Len(t)
  /\ Has(c, 0, Text(b)) /\ Has(c, b.size, t)

LEMMA MaxIs ==
  ASSUME NEW a \in Int, NEW b \in Int
  PROVE  Max({a, b}) = IF a >= b THEN a ELSE b
<1>1. PICK m : m = IF a >= b THEN a ELSE b
  OBVIOUS
<1>2. m \in {a, b} /\ \A y \in {a, b} : m >= y
  BY <1>1
<1>3. \A x \in {a, b} : (\A y \in {a, b} : x >= y) => x = m
  BY <1>1
<1>4. Max({a, b}) \in {a, b} /\ \A y \in {a, b} : Max({a, b}) >= y
  BY <1>2 DEF Max
<1> QED BY <1>1, <1>3, <1>4

LEMMA RepeatIs ==
  ASSUME NEW S, NEW c \in S, NEW n \in Nat
  PROVE  Repeat(c, n) \in Seq(S) /\ Len(Repeat(c, n)) = n /\ \A i \in 1..n : Repeat(c, n)[i] = c
BY DEF Repeat

\* A text of characters is one of cells.
LEMMA CharsAreCells ==
  ASSUME NEW t \in Seq(Char)
  PROVE  t \in Seq(Cell)
<1>1. \A i \in 1..Len(t) : t[i] \in Cell
  BY DEF Cell
<1> QED BY <1>1

LEMMA TextOfBuffer ==
  ASSUME NEW b, IsBuffer(b)
  PROVE  /\ Text(b) \in Seq(Cell) /\ Len(Text(b)) = b.size
         /\ \A i \in 1..b.size : Text(b)[i] = b.ptr[i]
<1>1. /\ b.ptr \in Seq(Cell) /\ b.size \in Nat /\ b.size <= Len(b.ptr)
      /\ Len(b.ptr) \in Nat
  BY DEF IsBuffer
<1>2. \A i \in 1..b.size : b.ptr[i] \in Cell
  BY <1>1
<1>3. PICK p, n : p = b.ptr /\ n = b.size
  OBVIOUS
<1>4. /\ SubSeq(p, 1, n) \in Seq(Cell)
      /\ Len(SubSeq(p, 1, n)) = IF 1 <= n THEN n - 1 + 1 ELSE 0
      /\ \A i \in 1..(n - 1 + 1) : SubSeq(p, 1, n)[i] = p[1 + i - 1]
  BY <1>1, <1>2, <1>3, SubSeqProperties
<1> QED BY <1>1, <1>3, <1>4 DEF Text

\* The text of a buffer is at its beginning.
LEMMA HoldsItsText ==
  ASSUME NEW b, IsBuffer(b)
  PROVE  Has(b, 0, Text(b))
<1>1. b.size \in Nat /\ b.size <= Len(b.ptr)
  BY DEF IsBuffer
<1> QED BY <1>1, TextOfBuffer DEF Has

-----------------------------------------------------------------------------
LEMMA GrowIs ==
  ASSUME NEW b, IsBuffer(b), NEW n \in Nat
  PROVE  /\ IsBuffer(grow(b, n)) /\ grow(b, n).size = b.size
         /\ n <= Len(grow(b, n).ptr) /\ Len(b.ptr) <= Len(grow(b, n).ptr)
         /\ \A i \in 1..b.size : grow(b, n).ptr[i] = b.ptr[i]
<1>1. /\ b \in [ptr : Seq(Cell), size : Nat] /\ b.ptr \in Seq(Cell) /\ b.size \in Nat
      /\ b.size <= Len(b.ptr) /\ InlineSize <= Len(b.ptr) /\ Len(b.ptr) \in Nat
  BY DEF IsBuffer
<1>2. PICK m \in Nat : /\ m = Max({n, capacity(b) + capacity(b) \div 2})
                       /\ n <= m /\ Len(b.ptr) <= m
  <2>1. capacity(b) + capacity(b) \div 2 \in Nat /\ Len(b.ptr) <= capacity(b) + capacity(b) \div 2
    BY <1>1 DEF capacity
  <2> QED BY <2>1, <1>1, MaxIs
<1>3. PICK p : p = [i \in 1..m |-> IF i <= b.size THEN b.ptr[i] ELSE Unset]
  OBVIOUS
<1>4. p \in Seq(Cell) /\ Len(p) = m /\ \A i \in 1..b.size : p[i] = b.ptr[i]
  <2>1. \A i \in 1..m : p[i] \in Cell
    BY <1>1, <1>3 DEF Cell
  <2>2. p \in [1..m -> Cell]
    BY <1>3, <2>1
  <2>3. p \in Seq(Cell) /\ Len(p) = m
    <3>1. m \in Nat /\ DOMAIN p = 1..m
      BY <1>2, <1>3
    <3>2. p \in Seq(Cell)
      BY <2>2, <3>1
    <3>3. Len(p) \in Nat /\ DOMAIN p = 1..Len(p)
      BY <3>2
    <3> QED BY <3>1, <3>2, <3>3
  <2>4. \A i \in 1..b.size : i \in 1..m /\ p[i] = b.ptr[i]
    BY <1>1, <1>2, <1>3
  <2> QED BY <2>3, <2>4
<1>5. grow(b, n) = [b EXCEPT !.ptr = p]
  BY <1>2, <1>3, Zenon DEF grow
<1>6. grow(b, n).ptr = p /\ grow(b, n).size = b.size /\ grow(b, n) \in [ptr : Seq(Cell), size : Nat]
  BY <1>1, <1>4, <1>5
<1>7. b.size <= m /\ InlineSize <= m
  <2>1. \A i, j : i <= j /\ i \in Int /\ j \in Int /\ j <= m => i <= m
    BY <1>2
  <2> QED BY <1>1, <1>2, <2>1, InlineSizeAssumption
<1> QED BY <1>2, <1>4, <1>6, <1>7 DEF IsBuffer

\* Room may be made by moving to new memory; there is room then, and the text
\* is as it was.  If there was room the memory stays.
LEMMA ReserveIs ==
  ASSUME NEW b, IsBuffer(b), NEW n \in Nat
  PROVE  /\ IsBuffer(reserve(b, n)) /\ reserve(b, n).size = b.size
         /\ n <= Len(reserve(b, n).ptr) /\ Len(b.ptr) <= Len(reserve(b, n).ptr)
         /\ \A i \in 1..b.size : reserve(b, n).ptr[i] = b.ptr[i]
         /\ n <= Len(b.ptr) => reserve(b, n) = b
<1>1. Len(b.ptr) \in Nat
  BY DEF IsBuffer
<1>2. CASE n > capacity(b)
  BY <1>1, <1>2, GrowIs DEF reserve, capacity
<1>3. CASE ~(n > capacity(b))
  BY <1>1, <1>3 DEF reserve, capacity
<1> QED BY <1>2, <1>3

LEMMA GrowBufferIs ==
  ASSUME NEW b, IsBuffer(b), NEW n \in Nat
  PROVE  /\ IsBuffer(grow_buffer(b, n)) /\ grow_buffer(b, n).size = b.size + n
         /\ Len(b.ptr) <= Len(grow_buffer(b, n).ptr)
         /\ b.size + n <= Len(grow_buffer(b, n).ptr)
         /\ \A i \in 1..b.size : grow_buffer(b, n).ptr[i] = b.ptr[i]
         /\ b.size + n <= Len(b.ptr) => grow_buffer(b, n).ptr = b.ptr
<1>1. b.size + n \in Nat
  BY DEF IsBuffer
<1>2. PICK r : r = reserve(b, b.size + n)
  OBVIOUS
<1>3. /\ IsBuffer(r) /\ r.size = b.size /\ b.size + n <= Len(r.ptr) /\ Len(b.ptr) <= Len(r.ptr)
      /\ \A i \in 1..b.size : r.ptr[i] = b.ptr[i]
      /\ b.size + n <= Len(b.ptr) => r = b
  BY <1>1, <1>2, ReserveIs
<1>4. grow_buffer(b, n) = [r EXCEPT !.size = b.size + n]
  BY <1>2 DEF grow_buffer, resize
<1>5. grow_buffer(b, n).ptr = r.ptr /\ grow_buffer(b, n).size = b.size + n
  BY <1>3, <1>4 DEF IsBuffer
<1>6. IsBuffer(grow_buffer(b, n))
  BY <1>1, <1>3, <1>4 DEF IsBuffer
<1> QED BY <1>3, <1>5, <1>6

LEMMA PutIs ==
  ASSUME NEW b, IsBuffer(b), NEW after \in Nat, NEW t \in Seq(Cell)
  PROVE  /\ IsBuffer(Put(b, after, t)) /\ Put(b, after, t).size = b.size
         /\ Len(Put(b, after, t).ptr) = Len(b.ptr)
         /\ \A i \in 1..Len(b.ptr) :
              Put(b, after, t).ptr[i] = IF i \in (after + 1)..(after + Len(t)) THEN t[i - after] ELSE b.ptr[i]
<1>1. /\ b \in [ptr : Seq(Cell), size : Nat] /\ b.ptr \in Seq(Cell) /\ b.size \in Nat
      /\ b.size <= Len(b.ptr) /\ InlineSize <= Len(b.ptr) /\ Len(b.ptr) \in Nat
      /\ DOMAIN b.ptr = 1..Len(b.ptr) /\ Len(t) \in Nat
  BY DEF IsBuffer
<1>2. PICK p : p = [i \in 1..Len(b.ptr) |->
                      IF i \in (after + 1)..(after + Len(t)) THEN t[i - after] ELSE b.ptr[i]]
  OBVIOUS
<1>3. \A i \in 1..Len(b.ptr) : p[i] \in Cell
  BY <1>1, <1>2
<1>4. p \in Seq(Cell) /\ Len(p) = Len(b.ptr)
  <2>1. p \in [1..Len(b.ptr) -> Cell]
    BY <1>2, <1>3
  <2> QED BY <1>1, <1>2, <2>1
<1>5. Put(b, after, t) = [b EXCEPT !.ptr = p]
  BY <1>1, <1>2 DEF Put
<1>6. Put(b, after, t).ptr = p /\ Put(b, after, t).size = b.size
  BY <1>1, <1>5
<1>7. IsBuffer(Put(b, after, t))
  BY <1>1, <1>4, <1>5 DEF IsBuffer
<1> QED BY <1>2, <1>4, <1>6, <1>7

\* What is put is there.
LEMMA PutHolds ==
  ASSUME NEW b, IsBuffer(b), NEW after \in Nat, NEW t \in Seq(Cell), after + Len(t) <= Len(b.ptr)
  PROVE  Has(Put(b, after, t), after, t)
<1>1. Len(b.ptr) \in Nat /\ Len(t) \in Nat
  BY DEF IsBuffer
<1>2. \A j \in 1..Len(t) : after + j \in 1..Len(b.ptr) /\ after + j \in (after + 1)..(after + Len(t))
  BY <1>1
<1>3. \A j \in 1..Len(t) : Put(b, after, t).ptr[after + j] = t[after + j - after]
  <2>1. \A i \in 1..Len(b.ptr) :
          Put(b, after, t).ptr[i] = IF i \in (after + 1)..(after + Len(t)) THEN t[i - after] ELSE b.ptr[i]
    BY PutIs
  <2>2. PICK p : p = Put(b, after, t).ptr
    OBVIOUS
  <2> TAKE j \in 1..Len(t)
  <2>3. PICK i : i = after + j
    OBVIOUS
  <2>4. i \in 1..Len(b.ptr) /\ i \in (after + 1)..(after + Len(t))
    BY <1>2, <2>3
  <2>5. p[i] = t[i - after]
    BY <2>1, <2>2, <2>4
  <2> QED BY <2>2, <2>3, <2>5
<1>4. \A j \in 1..Len(t) : after + j - after = j
  BY <1>1
<1>5. \A j \in 1..Len(t) : Put(b, after, t).ptr[after + j] = t[j]
  BY <1>3, <1>4
<1>6. after + Len(t) <= Len(Put(b, after, t).ptr)
  BY PutIs
<1> QED BY <1>5, <1>6, Zenon DEF Has

\* What is elsewhere stays.
LEMMA PutKeeps ==
  ASSUME NEW b, IsBuffer(b), NEW after \in Nat, NEW t \in Seq(Cell),
         NEW x \in Nat, NEW u \in Seq(Cell), Has(b, x, u),
         x + Len(u) <= after \/ after + Len(t) <= x
  PROVE  Has(Put(b, after, t), x, u)
<1>1. Len(b.ptr) \in Nat /\ Len(t) \in Nat /\ Len(u) \in Nat
  BY DEF IsBuffer
<1>2. \A j \in 1..Len(u) : x + j \in 1..Len(b.ptr) /\ x + j \notin (after + 1)..(after + Len(t))
  BY <1>1 DEF Has
<1>3. \A j \in 1..Len(u) : Put(b, after, t).ptr[x + j] = b.ptr[x + j]
  BY <1>2, PutIs
<1> QED BY <1>1, <1>3, PutIs DEF Has

\* Growing keeps what counts as the text.
LEMMA GrowBufferKeeps ==
  ASSUME NEW b, IsBuffer(b), NEW n \in Nat, NEW x \in Nat, NEW u \in Seq(Cell),
         Has(b, x, u), x + Len(u) <= b.size \/ b.size + n <= Len(b.ptr)
  PROVE  Has(grow_buffer(b, n), x, u)
<1>1. Len(b.ptr) \in Nat /\ Len(u) \in Nat /\ b.size \in Nat /\ Len(grow_buffer(b, n).ptr) \in Nat
  BY GrowBufferIs DEF IsBuffer
<1>2. CASE b.size + n <= Len(b.ptr)
  BY <1>2, GrowBufferIs DEF Has
<1>3. CASE x + Len(u) <= b.size
  <2>1. \A j \in 1..Len(u) : x + j \in 1..b.size
    BY <1>1, <1>3
  <2>2. \A j \in 1..Len(u) : grow_buffer(b, n).ptr[x + j] = b.ptr[x + j]
    BY <2>1, GrowBufferIs
  <2>3. x + Len(u) <= Len(grow_buffer(b, n).ptr)
    BY <1>1, GrowBufferIs DEF Has
  <2> QED BY <2>2, <2>3 DEF Has
<1> QED BY <1>2, <1>3

LEMMA ReserveKeeps ==
  ASSUME NEW b, IsBuffer(b), NEW n \in Nat, NEW x \in Nat, NEW u \in Seq(Cell),
         Has(b, x, u), x + Len(u) <= b.size
  PROVE  Has(reserve(b, n), x, u)
<1>1. Len(b.ptr) \in Nat /\ Len(u) \in Nat /\ b.size \in Nat /\ Len(reserve(b, n).ptr) \in Nat
  BY ReserveIs DEF IsBuffer
<1>2. \A j \in 1..Len(u) : x + j \in 1..b.size
  BY <1>1
<1>3. \A j \in 1..Len(u) : reserve(b, n).ptr[x + j] = b.ptr[x + j]
  BY <1>2, ReserveIs
<1>4. x + Len(u) <= Len(reserve(b, n).ptr)
  BY <1>1, ReserveIs DEF Has
<1> QED BY <1>3, <1>4 DEF Has

\* Two texts one after the other are one text, and the other way round.
LEMMA JoinedIs ==
  ASSUME NEW b, IsBuffer(b), NEW x \in Nat, NEW t \in Seq(Cell), NEW u \in Seq(Cell)
  PROVE  Has(b, x, t \o u) <=> Has(b, x, t) /\ Has(b, x + Len(t), u)
<1>1. Len(b.ptr) \in Nat /\ Len(t) \in Nat /\ Len(u) \in Nat
  BY DEF IsBuffer
<1>2. /\ Len(t \o u) = Len(t) + Len(u)
      /\ \A i \in 1..(Len(t) + Len(u)) : (t \o u)[i] = IF i <= Len(t) THEN t[i] ELSE u[i - Len(t)]
  BY ConcatProperties
<1>3. PICK tu : tu = t \o u
  OBVIOUS
<1>4. ASSUME Has(b, x, tu) PROVE Has(b, x, t) /\ Has(b, x + Len(t), u)
  <2>1. \A j \in 1..Len(t) : b.ptr[x + j] = t[j]
    <3> TAKE j \in 1..Len(t)
    <3>1. j \in 1..(Len(t) + Len(u)) /\ j <= Len(t)
      BY <1>1
    <3> QED BY <1>2, <1>3, <1>4, <3>1 DEF Has
  <2>2. \A j \in 1..Len(u) : b.ptr[x + Len(t) + j] = u[j]
    <3> TAKE j \in 1..Len(u)
    <3>1. PICK i : i = Len(t) + j
      OBVIOUS
    <3>2. i \in 1..(Len(t) + Len(u)) /\ ~(i <= Len(t)) /\ i - Len(t) = j /\ x + i = x + Len(t) + j
      BY <1>1, <3>1
    <3> QED BY <1>2, <1>3, <1>4, <3>2 DEF Has
  <2>3. x + Len(t) <= Len(b.ptr) /\ x + Len(t) + Len(u) <= Len(b.ptr)
    BY <1>1, <1>2, <1>3, <1>4 DEF Has
  <2> QED BY <2>1, <2>2, <2>3 DEF Has
<1>5. ASSUME Has(b, x, t), Has(b, x + Len(t), u) PROVE Has(b, x, tu)
  <2>1. ASSUME NEW i \in 1..(Len(t) + Len(u)) PROVE b.ptr[x + i] = tu[i]
    <3>1. CASE i <= Len(t)
      <4>1. i \in 1..Len(t)
        BY <1>1, <3>1
      <4> QED BY <1>2, <1>3, <1>5, <3>1, <4>1 DEF Has
    <3>2. CASE ~(i <= Len(t))
      <4>1. PICK j : j = i - Len(t)
        OBVIOUS
      <4>2. j \in 1..Len(u) /\ x + Len(t) + j = x + i
        BY <1>1, <3>2, <4>1
      <4> QED BY <1>2, <1>3, <1>5, <3>2, <4>1, <4>2 DEF Has
    <3> QED BY <3>1, <3>2
  <2> QED BY <1>1, <1>2, <1>3, <1>5, <2>1 DEF Has
<1> QED BY <1>3, <1>4, <1>5

-----------------------------------------------------------------------------
\* g is b with room for n more characters.
Room(b, g, n) ==
  IsBuffer(g) /\ g.size = b.size + n /\ Has(g, 0, Text(b)) /\ Len(b.ptr) <= Len(g.ptr)

LEMMA GrowMakesRoom ==
  ASSUME NEW b, IsBuffer(b), NEW n \in Nat
  PROVE  Room(b, grow_buffer(b, n), n)
<1>1. /\ Text(b) \in Seq(Cell) /\ Len(Text(b)) = b.size /\ b.size \in Nat
      /\ Has(b, 0, Text(b))
  BY TextOfBuffer, HoldsItsText DEF IsBuffer
<1>2. Has(grow_buffer(b, n), 0, Text(b))
  BY <1>1, GrowBufferKeeps
<1> QED BY <1>2, GrowBufferIs DEF Room

\* Putting something into the room leaves the text before it.
LEMMA PutInRoom ==
  ASSUME NEW b, IsBuffer(b), NEW g, NEW n \in Nat, Room(b, g, n),
         NEW after \in Nat, b.size <= after, NEW t \in Seq(Cell)
  PROVE  Room(b, Put(g, after, t), n)
<1>1. /\ Text(b) \in Seq(Cell) /\ Len(Text(b)) = b.size /\ b.size \in Nat
  BY TextOfBuffer DEF IsBuffer
<1>2. IsBuffer(g) /\ g.size = b.size + n /\ Has(g, 0, Text(b)) /\ Len(b.ptr) <= Len(g.ptr)
  BY DEF Room
<1>3. Has(Put(g, after, t), 0, Text(b))
  BY <1>1, <1>2, PutKeeps
<1>4. IsBuffer(Put(g, after, t)) /\ Put(g, after, t).size = g.size /\ Len(Put(g, after, t).ptr) = Len(g.ptr)
  BY <1>2, PutIs, Zenon
<1> QED BY <1>2, <1>3, <1>4 DEF Room

\* What a buffer holds within its text is where that text is.
LEMMA PartOfText ==
  ASSUME NEW c, IsBuffer(c), NEW d, IsBuffer(d), Has(d, 0, Text(c)),
         NEW x \in Nat, NEW u \in Seq(Cell), Has(c, x, u), x + Len(u) <= c.size
  PROVE  Has(d, x, u)
<1>1. /\ Len(Text(c)) = c.size /\ c.size \in Nat /\ Len(u) \in Nat /\ Len(d.ptr) \in Nat
      /\ \A i \in 1..c.size : Text(c)[i] = c.ptr[i]
  BY TextOfBuffer DEF IsBuffer
<1>2. \A j \in 1..Len(u) : c.ptr[x + j] = u[j]
  BY DEF Has
<1>3. c.size <= Len(d.ptr) /\ \A i \in 1..c.size : d.ptr[i] = Text(c)[i]
  <2>1. 0 + Len(Text(c)) <= Len(d.ptr) /\ \A i \in 1..Len(Text(c)) : d.ptr[0 + i] = Text(c)[i]
    BY DEF Has
  <2>2. \A i \in 1..c.size : 0 + i = i
    BY <1>1
  <2> QED BY <1>1, <2>1, <2>2
<1>4. \A j \in 1..Len(u) : x + j \in 1..c.size
  BY <1>1
<1>5. \A j \in 1..Len(u) : d.ptr[x + j] = u[j]
  <2> TAKE j \in 1..Len(u)
  <2>1. PICK i \in 1..c.size : i = x + j
    BY <1>4
  <2> QED BY <1>1, <1>2, <1>3, <2>1
<1> QED BY <1>1, <1>3, <1>5 DEF Has

\* What is written after something else was.
LEMMA WritesTwice ==
  ASSUME NEW b, IsBuffer(b), NEW c, NEW d, NEW t \in Seq(Cell), NEW u \in Seq(Cell),
         Writes(b, c, t), Writes(c, d, u)
  PROVE  Writes(b, d, t \o u)
<1>1. /\ IsBuffer(c) /\ c.size = b.size + Len(t) /\ Has(c, 0, Text(b)) /\ Has(c, b.size, t)
      /\ IsBuffer(d) /\ d.size = c.size + Len(u) /\ Has(d, 0, Text(c)) /\ Has(d, c.size, u)
  BY DEF Writes
<1>2. /\ Text(b) \in Seq(Cell) /\ Len(Text(b)) = b.size /\ b.size \in Nat
      /\ Len(t) \in Nat /\ Len(u) \in Nat
  BY TextOfBuffer DEF IsBuffer
<1>3. Has(d, 0, Text(b)) /\ Has(d, b.size, t)
  <2>1. 0 + Len(Text(b)) <= c.size /\ b.size + Len(t) <= c.size
    BY <1>1, <1>2
  <2> QED BY <1>1, <1>2, <2>1, PartOfText
<1>4. Has(d, b.size, t \o u)
  BY <1>1, <1>2, <1>3, JoinedIs
<1>5. Len(t \o u) = Len(t) + Len(u)
  BY ConcatProperties
<1> QED BY <1>1, <1>2, <1>3, <1>4, <1>5 DEF Writes

LEMMA AppendWrites ==
  ASSUME NEW b, IsBuffer(b), NEW t \in Seq(Cell)
  PROVE  Writes(b, append(b, t), t)
<1>1. b.size \in Nat /\ Len(t) \in Nat
  BY DEF IsBuffer
<1>2. PICK g : g = grow_buffer(b, Len(t))
  OBVIOUS
<1>3. Room(b, g, Len(t)) /\ b.size + Len(t) <= Len(g.ptr) /\ IsBuffer(g)
  BY <1>1, <1>2, GrowMakesRoom, GrowBufferIs
<1>4. Room(b, Put(g, b.size, t), Len(t)) /\ Has(Put(g, b.size, t), b.size, t)
  BY <1>1, <1>3, PutInRoom, PutHolds, SMTT(30)
<1> QED BY <1>2, <1>4 DEF append, Room, Writes

\* Reserving is not seen.
LEMMA WritesAfterReserve ==
  ASSUME NEW b, IsBuffer(b), NEW n \in Nat, NEW c, NEW t, Writes(reserve(b, n), c, t)
  PROVE  Writes(b, c, t)
<1>1. PICK r : r = reserve(b, n)
  OBVIOUS
<1>2. IsBuffer(r) /\ r.size = b.size /\ \A i \in 1..b.size : r.ptr[i] = b.ptr[i]
  BY <1>1, ReserveIs
<1>3. Text(r) = Text(b)
  <2>1. /\ Text(b) \in Seq(Cell) /\ Len(Text(b)) = b.size
        /\ \A i \in 1..b.size : Text(b)[i] = b.ptr[i]
        /\ Text(r) \in Seq(Cell) /\ Len(Text(r)) = r.size
        /\ \A i \in 1..r.size : Text(r)[i] = r.ptr[i]
    BY <1>2, TextOfBuffer
  <2> QED BY <1>2, <2>1, SeqEqual
<1> QED BY <1>1, <1>2, <1>3 DEF Writes

-----------------------------------------------------------------------------
\* How many places of a field are not filled by so many characters.
Padding(width, n) == IF width <= n THEN 0 ELSE width - n

LEMMA PaddingIs ==
  ASSUME NEW width \in Nat, NEW k \in Nat, NEW n \in Nat
  PROVE  Max({0, width - k - n}) = Padding(width, k + n)
<1>1. PICK d \in Int : d = width - k - n
  OBVIOUS
<1>2. Max({0, d}) = IF 0 >= d THEN 0 ELSE d
  BY MaxIs
<1> QED BY <1>1, <1>2 DEF Padding

LEMMA RoomIs ==
  ASSUME NEW width \in Nat, NEW size \in Nat
  PROVE  Max({size, width}) = IF width <= size THEN size ELSE width
<1>1. Max({size, width}) = IF size >= width THEN size ELSE width
  BY MaxIs
<1> QED BY <1>1

\* What is written around the characters of a field that is wider than they
\* are: padding is the difference.
Before(spec, align, prefix, padding) ==
  CASE align = "left" -> prefix
    [] align = "right" -> Repeat(spec.fill, padding) \o prefix
    [] align = "center" -> Repeat(spec.fill, padding \div 2) \o prefix
    [] align = "numeric" -> prefix \o Repeat(spec.fill, padding)

After(spec, align, padding) ==
  CASE align = "left" -> Repeat(spec.fill, padding)
    [] align = "center" -> Repeat(spec.fill, padding - padding \div 2)
    [] OTHER -> <<>>

LEMMA NoPadding == \A c : Repeat(c, 0) = <<>>
<1> TAKE c
<1>1. 1..0 = {}
  OBVIOUS
<1>2. Repeat(c, 0) \in Seq({c}) /\ Len(Repeat(c, 0)) = 0
  BY RepeatIs
<1> QED BY <1>2

LEMMA ThreePieces ==
  ASSUME NEW S, NEW s \in Seq(S), NEW t \in Seq(S), NEW u \in Seq(S)
  PROVE  /\ s \o t \o u \in Seq(S) /\ Len(s \o t \o u) = Len(s) + Len(t) + Len(u)
         /\ s \o t \in Seq(S) /\ Len(s \o t) = Len(s) + Len(t)
         /\ Len(s) \in Nat /\ Len(t) \in Nat /\ Len(u) \in Nat
<1>1. s \o t \in Seq(S) /\ Len(s \o t) = Len(s) + Len(t)
  BY ConcatProperties
<1>2. s \o t \o u \in Seq(S) /\ Len(s \o t \o u) = Len(s \o t) + Len(u)
  BY <1>1, ConcatProperties
<1> QED BY <1>1, <1>2

LEMMA AlignedIs ==
  ASSUME NEW S, NEW spec, spec.width \in Nat, spec.fill \in S, NEW align \in Align \ {"default"},
         NEW prefix \in Seq(S), NEW body \in Seq(S), NEW padding \in Nat,
         padding = Padding(spec.width, Len(prefix) + Len(body))
  PROVE  /\ Before(spec, align, prefix, padding) \in Seq(S) /\ After(spec, align, padding) \in Seq(S)
         /\ Aligned(spec, align, prefix, body) =
              Before(spec, align, prefix, padding) \o body \o After(spec, align, padding)
         /\ Len(Before(spec, align, prefix, padding)) + Len(After(spec, align, padding)) =
              Len(prefix) + padding
         /\ Len(Aligned(spec, align, prefix, body)) = Len(prefix) + padding + Len(body)
         /\ Aligned(spec, align, prefix, body) \in Seq(S)
<1>1. PICK half \in Nat : half = padding \div 2 /\ padding - half \in Nat
  OBVIOUS
<1>2. \A n \in Nat : Repeat(spec.fill, n) \in Seq(S) /\ Len(Repeat(spec.fill, n)) = n
  BY RepeatIs
<1>3. PICK whole, left, right :
        /\ whole = Repeat(spec.fill, padding) /\ whole \in Seq(S) /\ Len(whole) = padding
        /\ left = Repeat(spec.fill, half) /\ left \in Seq(S) /\ Len(left) = half
        /\ right = Repeat(spec.fill, padding - half) /\ right \in Seq(S) /\ Len(right) = padding - half
  BY <1>1, <1>2
<1>4. \A s, t \in Seq(S) : s \o t \in Seq(S) /\ Len(s \o t) = Len(s) + Len(t)
  <2> TAKE s, t \in Seq(S)
  <2> QED BY ConcatProperties
<1>5. \A s \in Seq(S) : s \o <<>> = s /\ Len(s) \in Nat
  BY ConcatEmptySeq
<1>6. <<>> \in Seq(S) /\ Len(<<>>) = 0
  BY EmptySeq
<1>7. Aligned(spec, align, prefix, body) =
        CASE align = "left" -> prefix \o body \o whole
          [] align = "right" -> whole \o prefix \o body
          [] align = "center" -> left \o prefix \o body \o right
          [] align = "numeric" -> prefix \o whole \o body
  <2>1. PICK space : space = Max({0, spec.width - Len(prefix) - Len(body)})
    OBVIOUS
  <2>2. space = padding
    <3>1. Len(prefix) \in Nat /\ Len(body) \in Nat
      BY <1>5
    <3>2. PICK w, k, l \in Nat : w = spec.width /\ k = Len(prefix) /\ l = Len(body)
      BY <3>1
    <3>3. space = Max({0, w - k - l}) /\ padding = Padding(w, k + l)
      BY <2>1, <3>2
    <3> QED BY <3>3, PaddingIs
  <2>3. Aligned(spec, align, prefix, body) =
          CASE align = "left" -> prefix \o body \o Repeat(spec.fill, space)
            [] align = "right" -> Repeat(spec.fill, space) \o prefix \o body
            [] align = "center" -> Repeat(spec.fill, space \div 2) \o prefix \o body
                                     \o Repeat(spec.fill, space - space \div 2)
            [] align = "numeric" -> prefix \o Repeat(spec.fill, space) \o body
    BY <2>1, Zenon DEF Aligned
  <2> QED BY <1>1, <1>3, <2>2, <2>3, Zenon
<1> DEFINE before == Before(spec, align, prefix, padding)
           after == After(spec, align, padding)
<1>8. /\ whole \o prefix \in Seq(S) /\ Len(whole \o prefix) = padding + Len(prefix)
       /\ left \o prefix \in Seq(S) /\ Len(left \o prefix) = half + Len(prefix)
       /\ prefix \o whole \in Seq(S) /\ Len(prefix \o whole) = Len(prefix) + padding
  <2>1. whole \o prefix \in Seq(S) /\ Len(whole \o prefix) = Len(whole) + Len(prefix)
    BY <1>3, <1>4
  <2>2. left \o prefix \in Seq(S) /\ Len(left \o prefix) = Len(left) + Len(prefix)
    BY <1>3, <1>4
  <2>3. prefix \o whole \in Seq(S) /\ Len(prefix \o whole) = Len(prefix) + Len(whole)
    BY <1>3, <1>4
  <2>4. Len(whole) = padding /\ Len(left) = half
    BY <1>3
  <2> QED BY <2>1, <2>2, <2>3, <2>4, Zenon
<1>9. before \in Seq(S) /\ after \in Seq(S) /\ Len(before) + Len(after) = Len(prefix) + padding
  <2>1. \A s \in Seq(S) : Len(s) \in Nat
    BY <1>5
  <2>2. CASE align = "left"
    BY <1>3, <2>1, <2>2 DEF Before, After
  <2>3. CASE align = "right"
    <3>1. before = whole \o prefix /\ after = <<>>
      BY <1>3, <2>3 DEF Before, After
    <3> HIDE DEF before, after
    <3>2. Len(prefix) \in Nat
      BY <2>1
    <3> QED BY <1>6, <1>8, <3>1, <3>2
  <2>4. CASE align = "center"
    <3>1. before = left \o prefix /\ after = right
      BY <1>1, <1>3, <2>4 DEF Before, After
    <3> HIDE DEF before, after
    <3>2. Len(prefix) \in Nat
      BY <2>1
    <3>3. Len(before) = half + Len(prefix) /\ Len(after) = padding - half
      BY <1>3, <1>8, <3>1
    <3>4. before \in Seq(S) /\ after \in Seq(S)
      BY <1>3, <1>8, <3>1
    <3> QED BY <1>1, <3>2, <3>3, <3>4
  <2>5. CASE align = "numeric"
    <3>1. before = prefix \o whole /\ after = <<>>
      BY <1>3, <2>5 DEF Before, After
    <3> HIDE DEF before, after
    <3>2. Len(prefix) \in Nat
      BY <2>1
    <3> QED BY <1>6, <1>8, <3>1, <3>2
  <2> QED BY <2>2, <2>3, <2>4, <2>5 DEF Align
<1>10. Aligned(spec, align, prefix, body) = before \o body \o after
  <2>1. CASE align = "left"
    BY <1>3, <1>7, <2>1 DEF Before, After
  <2>2. CASE align = "right"
    <3>1. before = whole \o prefix /\ after = <<>>
      BY <1>3, <2>2 DEF Before, After
    <3>2. before \o body \in Seq(S)
      BY <1>4, <1>9
    <3>3. Aligned(spec, align, prefix, body) = before \o body
      BY <1>7, <2>2, <3>1
    <3> HIDE DEF before, after
    <3> QED BY <1>5, <3>1, <3>2, <3>3
  <2>3. CASE align = "center"
    BY <1>1, <1>3, <1>7, <2>3 DEF Before, After
  <2>4. CASE align = "numeric"
    <3>1. before = prefix \o whole /\ after = <<>>
      BY <1>3, <2>4 DEF Before, After
    <3>2. before \o body \in Seq(S)
      BY <1>4, <1>9
    <3>3. Aligned(spec, align, prefix, body) = before \o body
      BY <1>7, <2>4, <3>1
    <3> HIDE DEF before, after
    <3> QED BY <1>5, <3>1, <3>2, <3>3
  <2> QED BY <2>1, <2>2, <2>3, <2>4 DEF Align
<1> HIDE DEF before, after
<1>11. /\ before \o body \o after \in Seq(S)
       /\ Len(before \o body \o after) = Len(prefix) + padding + Len(body)
  <2>1. Len(prefix) \in Nat
    BY <1>5
  <2> QED BY <1>9, <2>1, ThreePieces
<1> QED BY <1>9, <1>10, <1>11 DEF before, after

-----------------------------------------------------------------------------
\* t consists of so many cells.
IsText(t, n) == t \in Seq(Cell) /\ n \in Nat /\ Len(t) = n

LEMMA JoinedText ==
  ASSUME NEW s, NEW k, IsText(s, k), NEW t, NEW l, IsText(t, l)
  PROVE  IsText(s \o t, k + l)
<1>1. s \o t \in Seq(Cell) /\ Len(s \o t) = Len(s) + Len(t) /\ k + l \in Nat
  <2>1. s \in Seq(Cell) /\ t \in Seq(Cell) /\ k \in Nat /\ l \in Nat
    BY DEF IsText
  <2>2. s \o t \in Seq(Cell) /\ Len(s \o t) = Len(s) + Len(t)
    BY <2>1, ThreePieces
  <2> QED BY <2>1, <2>2
<1> QED BY <1>1 DEF IsText

LEMMA JoinedHolds ==
  ASSUME NEW b, IsBuffer(b), NEW x \in Nat, NEW s, NEW k, IsText(s, k), NEW t, NEW l, IsText(t, l),
         Has(b, x, s), NEW y, y = x + k, Has(b, y, t)
  PROVE  Has(b, x, s \o t)
<1>1. s \in Seq(Cell) /\ t \in Seq(Cell) /\ y = x + Len(s)
  BY DEF IsText
<1> QED BY <1>1, JoinedIs

LEMMA NoChars == IsText(<<>>, 0)
BY EmptySeq DEF IsText

LEMMA RepeatText ==
  ASSUME NEW c \in Cell, NEW n \in Nat
  PROVE  IsText(Repeat(c, n), n)
BY RepeatIs DEF IsText

\* Putting a text beside another.
LEMMA PutFirst ==
  ASSUME NEW b, IsBuffer(b), NEW start \in Nat, start = b.size, NEW g, NEW m \in Nat, Room(b, g, m),
         NEW y \in Nat, NEW t, NEW l, IsText(t, l), start <= y, y + l <= start + m
  PROVE  Room(b, Put(g, y, t), m) /\ Has(Put(g, y, t), y, t)
<1>1. IsBuffer(g) /\ g.size = start + m /\ g.size <= Len(g.ptr) /\ Len(g.ptr) \in Nat
  BY DEF Room, IsBuffer
<1>2. y + Len(t) <= Len(g.ptr) /\ t \in Seq(Cell)
  BY <1>1 DEF IsText
<1> QED BY <1>1, <1>2, PutHolds, PutInRoom

LEMMA PutMore ==
  ASSUME NEW b, IsBuffer(b), NEW start \in Nat, start = b.size, NEW g, NEW m \in Nat, Room(b, g, m),
         NEW x \in Nat, NEW s, NEW k, IsText(s, k), Has(g, x, s),
         NEW y \in Nat, NEW t, NEW l, IsText(t, l), start <= y, y + l <= start + m,
         x + k <= y \/ y + l <= x
  PROVE  Room(b, Put(g, y, t), m) /\ Has(Put(g, y, t), x, s) /\ Has(Put(g, y, t), y, t)
<1>1. IsBuffer(g)
  BY DEF Room
<1>2. /\ x + Len(s) <= y \/ y + Len(t) <= x
      /\ s \in Seq(Cell) /\ t \in Seq(Cell)
  BY DEF IsText
<1>3. Has(Put(g, y, t), x, s)
  BY <1>1, <1>2, PutKeeps
<1> QED BY <1>3, PutFirst

\* Two texts that are put beside each other.
LEMMA PutBoth ==
  ASSUME NEW b, IsBuffer(b), NEW start \in Nat, start = b.size, NEW g, NEW m \in Nat, Room(b, g, m),
         NEW x \in Nat, NEW s, NEW k, IsText(s, k), start <= x, x + k <= start + m,
         NEW y \in Nat, NEW t, NEW l, IsText(t, l), start <= y, y + l <= start + m,
         x + k <= y \/ y + l <= x
  PROVE  /\ Room(b, Put(Put(g, x, s), y, t), m)
         /\ Has(Put(Put(g, x, s), y, t), x, s) /\ Has(Put(Put(g, x, s), y, t), y, t)
<1>1. PICK h : h = Put(g, x, s)
  OBVIOUS
<1>2. Room(b, h, m) /\ Has(h, x, s)
  BY <1>1, PutFirst
<1> QED BY <1>1, <1>2, PutMore

\* All that will be there but n characters, which end at p.end.
Opens(b, p, before, k, n, after, l) ==
  /\ IsText(before, k) /\ IsText(after, l) /\ Room(b, p.b, k + n + l)
  /\ Has(p.b, b.size, before) /\ Has(p.b, b.size + k + n, after)
  /\ p.end = b.size + k + n

LEMMA OpenIs ==
  ASSUME NEW b, NEW start, start = b.size, NEW p, NEW n, NEW before, NEW k, IsText(before, k),
         NEW after, NEW l, IsText(after, l), NEW m, m = k + n + l, NEW end, end = start + k + n,
         Room(b, p.b, m), Has(p.b, start, before), Has(p.b, end, after), p.end = end
  PROVE  Opens(b, p, before, k, n, after, l)
BY Zenon DEF Opens

LEMMA FilledIn ==
  ASSUME NEW b, IsBuffer(b), NEW p, NEW before, NEW k, NEW after, NEW l, NEW n, NEW digits,
         Opens(b, p, before, k, n, after, l), IsText(digits, n)
  PROVE  Writes(b, Put(p.b, p.end - n, digits), before \o digits \o after)
<1>1. k \in Nat /\ l \in Nat /\ n \in Nat
  BY DEF Opens, IsText
<1>2. PICK size \in Nat : size = b.size
  BY DEF IsBuffer
<1>3. PICK from, end, m \in Nat : from = size + k /\ end = size + k + n /\ m = k + n + l
  BY <1>1
<1>4. /\ size <= from /\ from + n <= size + m /\ size + k <= from /\ from + n <= end /\ end - n = from
      /\ m = (k + n) + l /\ end = size + (k + n) /\ k + n \in Nat
  BY <1>1, <1>3
<1>5. PICK c : c = Put(p.b, from, digits)
  OBVIOUS
<1>6. p.end = end /\ Room(b, p.b, m) /\ Has(p.b, size, before) /\ Has(p.b, end, after)
  BY <1>2, <1>3, Zenon DEF Opens
<1>7. Room(b, c, m) /\ Has(c, size, before) /\ Has(c, from, digits)
  BY <1>1, <1>2, <1>4, <1>5, <1>6, PutMore DEF Opens
<1>8. Has(c, end, after)
  BY <1>1, <1>2, <1>4, <1>5, <1>6, PutMore DEF Opens
<1>9. IsBuffer(c) /\ IsText(before, k) /\ IsText(after, l)
  BY <1>7 DEF Room, Opens
<1>10. Has(c, size, before \o digits) /\ IsText(before \o digits, k + n)
  BY <1>3, <1>7, <1>9, JoinedHolds, JoinedText
<1>11. Has(c, size, before \o digits \o after) /\ IsText(before \o digits \o after, m)
  <2>1. IsText(before \o digits \o after, (k + n) + l)
    BY <1>9, <1>10, JoinedText
  <2> QED BY <1>4, <1>8, <1>9, <1>10, <2>1, JoinedHolds
<1> QED BY <1>2, <1>4, <1>5, <1>6, <1>7, <1>11 DEF Room, Writes, IsText

\* A text of no characters is anywhere.
LEMMA HoldsNothing ==
  ASSUME NEW b, IsBuffer(b), NEW x \in Nat, x <= b.size
  PROVE  Has(b, x, <<>>)
<1>1. Len(<<>>) = 0 /\ 1..0 = {} /\ b.size <= Len(b.ptr) /\ b.size \in Nat /\ Len(b.ptr) \in Nat
  BY DEF IsBuffer
<1> QED BY <1>1 DEF Has

LEMMA Halves ==
  ASSUME NEW n \in Nat
  PROVE  /\ n \div 2 \in Nat /\ n - n \div 2 \in Nat
         /\ \A h, r : h = n \div 2 /\ r = n - h => h + r = n
OBVIOUS

\* The last part of prepare_int_buffer opens a place for the digits, where the
\* alignment asks for it.
LEMMA PlaceOpens ==
  ASSUME NEW b, IsBuffer(b), NEW n \in Nat, NEW prefix, NEW k \in Nat, IsText(prefix, k),
         NEW spec, spec.width \in Nat, spec.fill \in Cell, spec.align \in Align, NEW align,
         align = IF spec.align = "default" THEN "right" ELSE spec.align,
         NEW padding \in Nat, padding = Padding(spec.width, k + n)
  PROVE  \E x, y \in Nat : Opens(b, place(b, n, spec, prefix), Before(spec, align, prefix, padding), x, n,
                              After(spec, align, padding), y)
<1> DEFINE before == Before(spec, align, prefix, padding)
           after == After(spec, align, padding)
           p == place(b, n, spec, prefix)
<1>1. PICK width, start \in Nat : width = spec.width /\ start = b.size
  BY DEF IsBuffer
<1>2. PICK size, total \in Nat : size = k + n /\ total = size + padding
  OBVIOUS
<1>3. PICK half, rest \in Nat : half = padding \div 2 /\ rest = padding - half /\ half + rest = padding
  BY Halves
<1>4. padding = IF width <= size THEN 0 ELSE width - size
  BY <1>1, <1>2 DEF Padding
<1>5. PICK g : g = grow_buffer(b, Max({size, width}))
  OBVIOUS
<1>6. Room(b, g, total)
  <2>1. Max({size, width}) = total
    <3>1. Max({size, width}) = IF width <= size THEN size ELSE width
      BY RoomIs
    <3> QED BY <1>4, <1>2, <3>1
  <2>2. g = grow_buffer(b, total)
    BY <1>5, <2>1
  <2> QED BY <2>2, GrowMakesRoom
<1>7. PICK whole, left, right :
        /\ whole = Repeat(spec.fill, padding) /\ IsText(whole, padding)
        /\ left = Repeat(spec.fill, half) /\ IsText(left, half)
        /\ right = Repeat(spec.fill, rest) /\ IsText(right, rest)
  BY RepeatText
<1>8. /\ Repeat(spec.fill, 0) = <<>> /\ IsText(<<>>, 0)
      /\ prefix \o <<>> = prefix /\ <<>> \o prefix = prefix
  BY NoPadding, NoChars, ConcatEmptySeq DEF IsText
<1>9. ASSUME NEW c, Room(b, c, total), NEW x \in Nat, x <= start + total
      PROVE  Has(c, x, <<>>)
  <2>1. IsBuffer(c) /\ c.size = start + total
    BY <1>1, <1>9 DEF Room
  <2> QED BY <1>9, <2>1, HoldsNothing
<1>10. /\ IsText(whole \o prefix, padding + k) /\ IsText(prefix \o whole, k + padding)
       /\ IsText(left \o prefix, half + k)
  BY <1>7, JoinedText
<1>11. /\ width <= size =>
            p = [b |-> Put(g, start, prefix), end |-> start + size]
       /\ width > size /\ spec.align = "left" =>
            p = [b |-> Put(Put(g, start + size, Repeat(spec.fill, width - size)), start, prefix),
                end |-> start + size]
       /\ width > size /\ spec.align = "center" =>
            p = [b |-> Put(fill_padding(g, start, width, size, spec.fill), start + (width - size) \div 2, prefix),
                end |-> start + (width - size) \div 2 + size]
       /\ width > size /\ spec.align = "numeric" =>
            p = [b |-> Put(Put(g, start + k, Repeat(spec.fill, width - size)), start, prefix),
                end |-> start + width]
       /\ width > size /\ spec.align \in {"right", "default"} =>
            p = [b |-> Put(Put(g, start, Repeat(spec.fill, width - size)), (start + width) - size, prefix),
                end |-> start + width]
  <2> DEFINE grown == grow_buffer(b, Max({Len(prefix) + n, spec.width}))
  <2>1. spec.width <= (Len(prefix) + n) =>
            p = [b |-> Put(grown, b.size, prefix), end |-> b.size + (Len(prefix) + n)]
    BY DEF place
  <2>2. spec.width > (Len(prefix) + n) /\ spec.align = "left" /\ ~(spec.width <= Len(prefix) + n) =>
            p = [b |-> Put(Put(grown, b.size + (Len(prefix) + n), Repeat(spec.fill, spec.width - (Len(prefix) + n))), b.size, prefix),
                end |-> b.size + (Len(prefix) + n)]
    BY DEF place
  <2>3. spec.width > (Len(prefix) + n) /\ spec.align = "center" /\ ~(spec.width <= Len(prefix) + n) =>
            p = [b |-> Put(fill_padding(grown, b.size, spec.width, (Len(prefix) + n), spec.fill), b.size + (spec.width - (Len(prefix) + n)) \div 2, prefix),
                end |-> b.size + (spec.width - (Len(prefix) + n)) \div 2 + (Len(prefix) + n)]
    BY DEF place
  <2>4. spec.width > (Len(prefix) + n) /\ spec.align = "numeric" /\ ~(spec.width <= Len(prefix) + n) =>
            p = [b |-> Put(Put(grown, b.size + Len(prefix), Repeat(spec.fill, spec.width - (Len(prefix) + n))), b.size, prefix),
                end |-> b.size + spec.width]
    BY DEF place
  <2>5. spec.width > (Len(prefix) + n) /\ spec.align \in {"right", "default"} /\ ~(spec.width <= Len(prefix) + n) =>
            p = [b |-> Put(Put(grown, b.size, Repeat(spec.fill, spec.width - (Len(prefix) + n))), (b.size + spec.width) - (Len(prefix) + n), prefix),
                end |-> b.size + spec.width]
    BY DEF place
  <2>6. grown = g /\ Len(prefix) = k
    <3>1. Len(prefix) = k
      BY DEF IsText
    <3> QED BY <1>1, <1>5, <1>2, <3>1, Zenon
  <2> HIDE DEF grown, p
  <2>7. spec.width = width /\ b.size = start /\ k + n = size
    BY <1>1, <1>2
  <2>8. width > size => ~(width <= size)
    OBVIOUS
  <2>9. width <= size =>
            p = [b |-> Put(g, start, prefix), end |-> start + size]
    BY <2>1, <2>6, <2>7, <2>8
  <2>10. width > size /\ spec.align = "left" =>
            p = [b |-> Put(Put(g, start + size, Repeat(spec.fill, width - size)), start, prefix),
                end |-> start + size]
    BY <2>2, <2>6, <2>7, <2>8
  <2>11. width > size /\ spec.align = "center" =>
            p = [b |-> Put(fill_padding(g, start, width, size, spec.fill), start + (width - size) \div 2, prefix),
                end |-> start + (width - size) \div 2 + size]
    BY <2>3, <2>6, <2>7, <2>8
  <2>12. width > size /\ spec.align = "numeric" =>
            p = [b |-> Put(Put(g, start + k, Repeat(spec.fill, width - size)), start, prefix),
                end |-> start + width]
    BY <2>4, <2>6, <2>7, <2>8
  <2>13. width > size /\ spec.align \in {"right", "default"} =>
            p = [b |-> Put(Put(g, start, Repeat(spec.fill, width - size)), (start + width) - size, prefix),
                end |-> start + width]
    BY <2>5, <2>6, <2>7, <2>8
  <2> QED BY <2>9, <2>10, <2>11, <2>12, <2>13, Zenon
<1>12. CASE width <= size
  <2>1. padding = 0
    BY <1>4, <1>12
  <2>2. PICK end \in Nat : end = start + size /\ end = start + k + n /\ total = k + n + 0
                           /\ end <= start + total /\ start + k <= start + total
    BY <1>2, <2>1
  <2>3. p = [b |-> Put(g, start, prefix), end |-> end]
    BY <1>11, <1>12, <2>2
  <2>4. before = prefix /\ after = <<>>
    <3>1. padding \div 2 = 0 /\ padding - padding \div 2 = 0
      BY <2>1
    <3> QED BY <1>8, <2>1, <3>1 DEF Before, After, Align
  <2> HIDE DEF before, after, p
  <2>5. PICK c : c = Put(g, start, prefix)
    OBVIOUS
  <2>6. Room(b, c, total) /\ Has(c, start, prefix)
    BY <1>1, <1>6, <2>2, <2>5, PutFirst
  <2>7. Has(c, end, <<>>)
    BY <1>9, <2>2, <2>6
  <2>8. p.b = c /\ p.end = end
    BY <2>3, <2>5
  <2>9. Opens(b, p, before, k, n, after, 0)
    BY <1>1, <1>8, <2>2, <2>4, <2>6, <2>7, <2>8, OpenIs, Zenon
  <2> QED BY <2>9 DEF before, after, p
<1>13. CASE width > size /\ spec.align = "left"
  <2>1. PICK beyond \in Nat :
          /\ beyond = start + size /\ beyond = start + k + n /\ total = k + n + padding
          /\ width - size = padding
          /\ start <= beyond /\ beyond + padding <= start + total
          /\ start <= start /\ start + k <= start + total /\ start + k <= beyond
    BY <1>4, <1>2, <1>13
  <2>2. p = [b |-> Put(Put(g, beyond, Repeat(spec.fill, width - size)), start, prefix),
             end |-> beyond]
    BY <1>11, <1>13, <2>1
  <2>3. before = prefix /\ after = whole
    BY <1>1, <1>7, <1>13 DEF Before, After
  <2> HIDE DEF before, after, p
  <2>4. PICK c : c = Put(Put(g, beyond, whole), start, prefix)
    OBVIOUS
  <2>5. p.b = c /\ p.end = beyond
    BY <1>7, <2>1, <2>2, <2>4
  <2>6. Room(b, c, total) /\ Has(c, beyond, whole) /\ Has(c, start, prefix)
    BY <1>1, <1>6, <1>7, <2>1, <2>4, PutBoth
  <2>7. Opens(b, p, before, k, n, after, padding)
    BY <1>1, <1>7, <2>1, <2>3, <2>5, <2>6, OpenIs, Zenon
  <2> QED BY <2>7 DEF before, after, p
<1>14. CASE width > size /\ spec.align = "center"
  <2>1. PICK from, beyond, lead \in Nat :
          /\ from = start + half /\ beyond = start + half + size /\ lead = half + k
          /\ beyond = start + lead + n /\ total = lead + n + rest
          /\ start <= start /\ start + half <= start + total
          /\ start <= beyond /\ beyond + rest <= start + total /\ start + half <= beyond
          /\ start <= from /\ from + k <= start + total /\ start + half <= from /\ from + k <= beyond
    <3>1. PICK from, beyond, lead \in Nat :
            from = start + half /\ beyond = start + half + size /\ lead = half + k
      OBVIOUS
    <3>2. half + rest = padding
      BY <1>3
    <3> QED BY <1>2, <3>1, <3>2
  <2>2. width - size = padding /\ (width - size) \div 2 = half /\ width - size - half = rest
    <3>1. width - size = padding
      BY <1>4, <1>14
    <3> QED BY <1>3, <3>1
  <2>3. p = [b |-> Put(fill_padding(g, start, width, size, spec.fill), from, prefix), end |-> beyond]
    <3>1. p = [b |-> Put(fill_padding(g, start, width, size, spec.fill), start + (width - size) \div 2, prefix),
               end |-> start + (width - size) \div 2 + size]
      <4>1. ~(width <= size)
        BY <1>14
      <4> QED BY <1>11, <1>14, <4>1, Zenon
    <3>2. (width - size) \div 2 = half /\ start + half = from /\ start + half + size = beyond
      BY <2>1, <2>2
    <3> QED BY <3>1, <3>2, Zenon
  <2>4. before = left \o prefix /\ after = right
    BY <1>1, <1>3, <1>7, <1>14 DEF Before, After
  <2> HIDE DEF before, after, p
  <2>5. PICK f : f = Put(Put(g, start, left), beyond, right)
    OBVIOUS
  <2>6. fill_padding(g, start, width, size, spec.fill) = f
    BY <1>7, <2>1, <2>5, <2>2, Zenon DEF fill_padding
  <2>7. PICK c : c = Put(f, from, prefix)
    OBVIOUS
  <2>8. Room(b, f, total) /\ Has(f, start, left) /\ Has(f, beyond, right)
    BY <1>1, <1>6, <1>7, <2>1, <2>5, PutBoth
  <2>9. Room(b, c, total) /\ Has(c, start, left) /\ Has(c, beyond, right) /\ Has(c, from, prefix)
    <3>1. Room(b, c, total) /\ Has(c, start, left) /\ Has(c, from, prefix)
      BY <1>1, <1>7, <2>1, <2>7, <2>8, PutMore
    <3>2. Has(c, beyond, right)
      BY <1>1, <1>7, <2>1, <2>7, <2>8, PutMore
    <3> QED BY <3>1, <3>2
  <2>10. Has(c, start, left \o prefix)
    <3>1. IsBuffer(c)
      BY <2>9 DEF Room
    <3> QED BY <1>7, <2>1, <2>9, <3>1, JoinedHolds
  <2>11. p.b = c /\ p.end = beyond
    BY <2>3, <2>6, <2>7
  <2>12. IsText(before, lead) /\ IsText(after, rest)
    BY <1>7, <1>10, <2>1, <2>4
  <2>13. Opens(b, p, before, lead, n, after, rest)
    BY <1>1, <2>1, <2>4, <2>9, <2>10, <2>11, <2>12, OpenIs, Zenon
  <2> QED BY <2>13 DEF before, after, p
<1>15. CASE width > size /\ spec.align = "numeric"
  <2>1. PICK from, end, lead \in Nat :
          /\ from = start + k /\ end = start + width /\ lead = k + padding
          /\ end = start + lead + n /\ total = lead + n + 0 /\ width - size = padding
          /\ start <= from /\ from + padding <= start + total
          /\ start <= start /\ start + k <= start + total /\ start + k <= from
          /\ end <= start + total
    BY <1>4, <1>2, <1>15
  <2>2. p = [b |-> Put(Put(g, from, Repeat(spec.fill, width - size)), start, prefix), end |-> end]
    BY <1>11, <1>15, <2>1
  <2>3. before = prefix \o whole /\ after = <<>>
    BY <1>1, <1>7, <1>15 DEF Before, After
  <2> HIDE DEF before, after, p
  <2>4. PICK c : c = Put(Put(g, from, whole), start, prefix)
    OBVIOUS
  <2>5. p.b = c /\ p.end = end
    BY <1>7, <2>1, <2>2, <2>4
  <2>6. Room(b, c, total) /\ Has(c, from, whole) /\ Has(c, start, prefix)
    BY <1>1, <1>6, <1>7, <2>1, <2>4, PutBoth
  <2>7. Has(c, start, prefix \o whole)
    <3>1. IsBuffer(c)
      BY <2>6 DEF Room
    <3> QED BY <1>7, <2>1, <2>6, <3>1, JoinedHolds
  <2>8. Has(c, end, <<>>)
    BY <1>9, <2>1, <2>6
  <2>9. IsText(before, lead) /\ IsText(after, 0)
    BY <1>8, <1>10, <2>1, <2>3
  <2>10. Opens(b, p, before, lead, n, after, 0)
    BY <1>1, <2>1, <2>3, <2>5, <2>6, <2>7, <2>8, <2>9, OpenIs, Zenon
  <2> QED BY <2>10 DEF before, after, p
<1>16. CASE width > size /\ spec.align \in {"right", "default"}
  <2>1. PICK from, end, lead \in Nat :
          /\ from = start + padding /\ from = (start + width) - size /\ end = start + width
          /\ lead = padding + k /\ end = start + lead + n /\ total = lead + n + 0
          /\ width - size = padding
          /\ start <= start /\ start + padding <= start + total
          /\ start <= from /\ from + k <= start + total /\ start + padding <= from
          /\ end <= start + total
    BY <1>4, <1>2, <1>16
  <2>2. p = [b |-> Put(Put(g, start, Repeat(spec.fill, width - size)), from, prefix), end |-> end]
    BY <1>11, <1>16, <2>1
  <2>3. before = whole \o prefix /\ after = <<>>
    BY <1>1, <1>7, <1>16 DEF Before, After
  <2> HIDE DEF before, after, p
  <2>4. PICK c : c = Put(Put(g, start, whole), from, prefix)
    OBVIOUS
  <2>5. p.b = c /\ p.end = end
    BY <1>7, <2>1, <2>2, <2>4
  <2>6. Room(b, c, total) /\ Has(c, start, whole) /\ Has(c, from, prefix)
    BY <1>1, <1>6, <1>7, <2>1, <2>4, PutBoth
  <2>7. Has(c, start, whole \o prefix)
    <3>1. IsBuffer(c)
      BY <2>6 DEF Room
    <3> QED BY <1>7, <2>1, <2>6, <3>1, JoinedHolds
  <2>8. Has(c, end, <<>>)
    BY <1>9, <2>1, <2>6
  <2>9. IsText(before, lead) /\ IsText(after, 0)
    BY <1>8, <1>10, <2>1, <2>3
  <2>10. Opens(b, p, before, lead, n, after, 0)
    BY <1>1, <2>1, <2>3, <2>5, <2>6, <2>7, <2>8, <2>9, OpenIs, Zenon
  <2> QED BY <2>10 DEF before, after, p
<1>17. width <= size \/ width > size
  OBVIOUS
<1> QED BY <1>12, <1>13, <1>14, <1>15, <1>16, <1>17 DEF Align

\* Joining texts, by the laws below rather than by its definition.
s \odot t == s \o t

LEMMA JoinText ==
  ASSUME NEW s, NEW k, IsText(s, k), NEW t, NEW l, IsText(t, l)
  PROVE  IsText(s \odot t, k + l)
BY JoinedText, Zenon DEF \odot

LEMMA FillIn ==
  ASSUME NEW b, IsBuffer(b), NEW p, NEW before, NEW k, NEW after, NEW l, NEW n, NEW digits,
         Opens(b, p, before, k, n, after, l), IsText(digits, n)
  PROVE  Writes(b, Put(p.b, p.end - n, digits), before \odot digits \odot after)
<1>1. Writes(b, Put(p.b, p.end - n, digits), before \o digits \o after)
  BY FilledIn
<1> QED BY <1>1, Zenon DEF \odot

LEMMA WriteTwice ==
  ASSUME NEW b, IsBuffer(b), NEW c, NEW d, NEW t, t \in Seq(Cell), NEW u, u \in Seq(Cell),
         Writes(b, c, t), Writes(c, d, u)
  PROVE  Writes(b, d, t \odot u)
<1>1. Writes(b, d, t \o u)
  BY WritesTwice
<1> QED BY <1>1, Zenon DEF \odot

LEMMA BeforeIs ==
  ASSUME NEW spec, NEW prefix, NEW padding
  PROVE  /\ Before(spec, "left", prefix, padding) = prefix
         /\ Before(spec, "right", prefix, padding) = Repeat(spec.fill, padding) \odot prefix
         /\ Before(spec, "center", prefix, padding) = Repeat(spec.fill, padding \div 2) \odot prefix
         /\ Before(spec, "numeric", prefix, padding) = prefix \odot Repeat(spec.fill, padding)
<1>1. /\ Before(spec, "left", prefix, padding) = prefix
      /\ Before(spec, "right", prefix, padding) = Repeat(spec.fill, padding) \o prefix
      /\ Before(spec, "center", prefix, padding) = Repeat(spec.fill, padding \div 2) \o prefix
      /\ Before(spec, "numeric", prefix, padding) = prefix \o Repeat(spec.fill, padding)
  BY DEF Before
<1> QED BY <1>1, Zenon DEF \odot

\* Where a field puts what it shows when it does not say so.
Or(spec, align) == IF spec.align = "default" THEN align ELSE spec.align

\* What the formatter needs of a field to lay it out.
IsSpec(spec) ==
  /\ {"width", "fill", "align", "flags", "precision", "type"} \subseteq DOMAIN spec
  /\ spec.width \in Nat /\ spec.fill \in Char /\ spec.align \in Align

\* A place with nothing to be put into it.
LEMMA NothingToFill ==
  ASSUME NEW b, IsBuffer(b), NEW p, NEW before, NEW k, NEW after, NEW l,
         Opens(b, p, before, k, 0, after, l)
  PROVE  Writes(b, p.b, before \odot after)
<1> SUFFICES Writes(b, p.b, before \o after)
  BY Zenon DEF \odot
<1>1. k \in Nat /\ l \in Nat /\ IsText(before, k) /\ IsText(after, l)
  BY DEF Opens, IsText
<1>2. PICK size \in Nat : size = b.size
  BY DEF IsBuffer
<1>3. PICK m, end \in Nat : m = k + 0 + l /\ m = k + l /\ end = size + k + 0 /\ end = size + k
  BY <1>1
<1>4. Room(b, p.b, m) /\ Has(p.b, size, before) /\ Has(p.b, end, after)
  BY <1>2, <1>3, Zenon DEF Opens
<1>5. IsBuffer(p.b) /\ p.b.size = size + m /\ Has(p.b, 0, Text(b))
  BY <1>2, <1>4 DEF Room
<1>6. Has(p.b, size, before \o after)
  BY <1>1, <1>3, <1>4, <1>5, JoinedHolds
<1>7. IsText(before \o after, m)
  BY <1>1, <1>3, JoinedText
<1> QED BY <1>2, <1>5, <1>6, <1>7 DEF Writes, IsText

\* The padding around a prefix and what comes after it.
PaddingOf(spec, prefix, body) == Padding(spec.width, Len(prefix) + Len(body))

Words == Seq(Cell)

LEMMA TextIs ==
  ASSUME NEW t, NEW n, IsText(t, n)
  PROVE  t \in Words
BY DEF IsText, Words

LEMMA PaddingOfIs ==
  ASSUME NEW spec, NEW prefix, NEW k, IsText(prefix, k), NEW body, NEW n, IsText(body, n)
  PROVE  PaddingOf(spec, prefix, body) = Padding(spec.width, k + n)
BY DEF PaddingOf, IsText

LEMMA AlignedCells ==
  ASSUME NEW spec, spec.width \in Nat, spec.fill \in Cell, NEW align \in Align \ {"default"},
         NEW prefix \in Seq(Cell), NEW body \in Seq(Cell), NEW padding \in Nat,
         padding = Padding(spec.width, Len(prefix) + Len(body))
  PROVE  Aligned(spec, align, prefix, body) =
           Before(spec, align, prefix, padding) \o body \o After(spec, align, padding)
<1>1. PICK S : S = Cell
  OBVIOUS
<1>2. prefix \in Seq(S) /\ body \in Seq(S) /\ spec.fill \in S
  BY <1>1
<1> QED BY <1>2, AlignedIs, SMTT(60)

LEMMA AlignedSplits ==
  ASSUME NEW spec, spec.width \in Nat, spec.fill \in Cell, NEW align, align \in Align, align # "default",
         NEW prefix, prefix \in Words, NEW body, body \in Words
  PROVE  Aligned(spec, align, prefix, body) =
           Before(spec, align, prefix, PaddingOf(spec, prefix, body)) \odot body
             \odot After(spec, align, PaddingOf(spec, prefix, body))
<1>1. prefix \in Seq(Cell) /\ body \in Seq(Cell)
  BY DEF Words
<1>2. PICK m \in Nat : m = Len(prefix) + Len(body)
  BY DEF Words
<1>3. PICK padding \in Nat : padding = PaddingOf(spec, prefix, body) /\ padding = Padding(spec.width, m)
  <2>1. PaddingOf(spec, prefix, body) = Padding(spec.width, m)
    BY <1>2 DEF PaddingOf
  <2>2. Padding(spec.width, m) \in Nat
    BY DEF Padding
  <2> QED BY <2>1, <2>2
<1>4. padding = Padding(spec.width, Len(prefix) + Len(body)) /\ align \in Align \ {"default"}
  BY <1>2, <1>3
<1>5. Aligned(spec, align, prefix, body) =
        Before(spec, align, prefix, padding) \o body \o After(spec, align, padding)
  BY <1>1, <1>4, AlignedCells
<1> QED BY <1>3, <1>5, Zenon DEF \odot

\* Padding, prefix and digits come out as the alignment says.
LEMMA PlaceWrites ==
  ASSUME NEW b, IsBuffer(b), NEW prefix, NEW k \in Nat, IsText(prefix, k), NEW digits, NEW n \in Nat,
         IsText(digits, n), NEW spec, spec.width \in Nat, spec.fill \in Cell, spec.align \in Align,
         NEW p, p = place(b, n, spec, prefix)
  PROVE  /\ Writes(b, Put(p.b, p.end - n, digits), Aligned(spec, Or(spec, "right"), prefix, digits))
         /\ p.end \in Nat
<1>1. PICK padding \in Nat : padding = Padding(spec.width, k + n)
  <2>1. PICK m \in Nat : m = k + n
    OBVIOUS
  <2>2. Padding(spec.width, m) \in Nat
    BY DEF Padding
  <2> QED BY <2>1, <2>2
<1>2. PICK align : align = Or(spec, "right")
  OBVIOUS
<1>3. align = IF spec.align = "default" THEN "right" ELSE spec.align
  BY <1>2 DEF Or
<1>4. align \in Align /\ align # "default"
  BY <1>3 DEF Align
<1>5. PICK before, after : before = Before(spec, align, prefix, padding) /\ after = After(spec, align, padding)
  OBVIOUS
<1>6. PICK x, y \in Nat : Opens(b, p, before, x, n, after, y)
  BY <1>1, <1>3, <1>5, PlaceOpens
<1>7. Writes(b, Put(p.b, p.end - n, digits), before \odot digits \odot after)
  BY <1>6, FillIn
<1>8. Aligned(spec, align, prefix, digits) = Before(spec, align, prefix, padding) \odot digits \odot After(spec, align, padding)
  <2>1. padding = PaddingOf(spec, prefix, digits) /\ prefix \in Words /\ digits \in Words
    BY <1>1, PaddingOfIs, TextIs
  <2> QED BY <1>4, <2>1, AlignedSplits
<1>9. p.end \in Nat
  <2>1. PICK size \in Nat : size = b.size
    BY DEF IsBuffer
  <2>2. p.end = size + x + n
    BY <1>6, <2>1, Zenon DEF Opens
  <2> QED BY <2>2
<1> QED BY <1>2, <1>5, <1>7, <1>8, <1>9, Zenon

\* A text is placed as a prefix without digits is.
LEMMA StrPlaces ==
  ASSUME NEW b, IsBuffer(b), NEW text, NEW n \in Nat, IsText(text, n), NEW spec, spec.width \in Nat,
         spec.align \in Align, {"align", "width", "fill"} \subseteq DOMAIN spec,
         NEW align, align = IF spec.align \in {"default", "numeric"} THEN "left" ELSE spec.align
  PROVE  write_str(b, text, spec) = place(b, 0, [spec EXCEPT !.align = align], text).b
<1>1. PICK width, start \in Nat : n = Len(text) /\ width = spec.width /\ start = b.size
  BY DEF IsBuffer, IsText
<1>2. PICK other : other = [spec EXCEPT !.align = align]
  OBVIOUS
<1>3. other.align = align /\ other.width = width /\ other.fill = spec.fill
  BY <1>1, <1>2
<1>4. PICK g : g = grow_buffer(b, Max({n, width}))
  OBVIOUS
<1>5. PICK padding, half : padding = Repeat(spec.fill, width - n) /\ half = (width - n) \div 2
  OBVIOUS
<1>6. Len(text) + 0 = n /\ n + 0 = n /\ start + n - n = start /\ (start + width) - n = start + (width - n)
  BY <1>1
<1>7. CASE width <= n
  <2>1. write_str(b, text, spec) = Put(g, start, text)
    BY <1>1, <1>4, <1>7 DEF write_str
  <2>2. place(b, 0, other, text) = [b |-> Put(g, start, text), end |-> start + n]
    BY <1>1, <1>3, <1>4, <1>6, <1>7 DEF place
  <2> QED BY <1>2, <2>1, <2>2
<1>8. CASE width > n /\ align = "left"
  <2>1. ~(width <= n) /\ spec.align \notin {"right", "center"}
    BY <1>8 DEF Align
  <2>2. write_str(b, text, spec) = Put(Put(g, start + n, padding), start, text)
    BY <1>1, <1>4, <1>5, <2>1 DEF write_str
  <2>3. place(b, 0, other, text) = [b |-> Put(Put(g, start + n, padding), start, text), end |-> start + n]
    BY <1>1, <1>3, <1>4, <1>5, <1>6, <1>8, <2>1 DEF place
  <2> QED BY <1>2, <2>2, <2>3
<1>9. CASE width > n /\ align = "center"
  <2>1. ~(width <= n) /\ spec.align = "center"
    BY <1>9 DEF Align
  <2>2. write_str(b, text, spec) = Put(fill_padding(g, start, width, n, spec.fill), start + half, text)
    BY <1>1, <1>4, <1>5, <2>1 DEF write_str
  <2>3. place(b, 0, other, text) =
          [b |-> Put(fill_padding(g, start, width, n, spec.fill), start + half, text), end |-> start + half + n]
    BY <1>1, <1>3, <1>4, <1>5, <1>6, <1>9, <2>1 DEF place
  <2> QED BY <1>2, <2>2, <2>3
<1>10. CASE width > n /\ align = "right"
  <2>1. ~(width <= n) /\ spec.align = "right"
    BY <1>10 DEF Align
  <2>2. write_str(b, text, spec) = Put(Put(g, start, padding), start + (width - n), text)
    BY <1>1, <1>4, <1>5, <2>1 DEF write_str
  <2>3. place(b, 0, other, text) =
          [b |-> Put(Put(g, start, padding), (start + width) - n, text), end |-> start + width]
    BY <1>1, <1>3, <1>4, <1>5, <1>6, <1>10, <2>1 DEF place
  <2> QED BY <1>2, <1>6, <2>2, <2>3
<1>11. align \in {"left", "center", "right"} /\ (width <= n \/ width > n)
  BY DEF Align
<1> QED BY <1>7, <1>8, <1>9, <1>10, <1>11

LEMMA Regroup ==
  ASSUME NEW s, s \in Words, NEW t, t \in Words, NEW u, u \in Words
  PROVE  s \odot t \odot u = s \odot (t \odot u)
<1>1. s \o t \o u = s \o (t \o u)
  BY ConcatAssociative DEF Words
<1> QED BY <1>1, Zenon DEF \odot

LEMMA TwoTexts ==
  ASSUME NEW s, s \in Words, NEW t, t \in Words
  PROVE  s \odot t \in Words
<1>1. s \o t \in Words
  BY ConcatProperties DEF Words
<1> QED BY <1>1, Zenon DEF \odot

LEMMA NothingAround ==
  ASSUME NEW s, s \in Words
  PROVE  s \odot <<>> = s /\ <<>> \odot s = s
<1>1. s \o <<>> = s /\ <<>> \o s = s
  BY ConcatEmptySeq DEF Words
<1> QED BY <1>1, Zenon DEF \odot

LEMMA ThreeTexts ==
  ASSUME NEW s, s \in Words, NEW t, t \in Words, NEW u, u \in Words
  PROVE  s \odot t \odot u \in Words /\ s \odot t \odot u \odot <<>> = s \odot t \odot u
<1>1. s \odot t \in Words
  BY TwoTexts
<1>2. s \odot t \odot u \in Words
  BY <1>1, TwoTexts
<1> QED BY <1>2, NothingAround

LEMMA StrAligned ==
  ASSUME NEW spec, spec.width \in Nat, spec.fill \in Cell, NEW align, align \in Align, align # "default",
         NEW text, NEW k \in Nat, IsText(text, k), NEW padding \in Nat, padding = Padding(spec.width, k)
  PROVE  Aligned(spec, align, <<>>, text) =
           Before(spec, align, <<>>, padding) \odot text \odot After(spec, align, padding)
<1>1. PICK empty : empty = <<>> /\ IsText(empty, 0)
  BY NoChars
<1>2. padding = PaddingOf(spec, empty, text) /\ empty \in Words /\ text \in Words
  <2>1. 0 + k = k
    OBVIOUS
  <2> QED BY <1>1, <2>1, PaddingOfIs, TextIs
<1>3. Aligned(spec, align, empty, text) =
        Before(spec, align, empty, padding) \odot text \odot After(spec, align, padding)
  BY <1>1, <1>2, AlignedSplits
<1> QED BY <1>1, <1>3, Zenon

\* A text comes out as the alignment says, which is on the left if not told.
LEMMA StrWrites ==
  ASSUME NEW b, IsBuffer(b), NEW text, NEW k \in Nat, IsText(text, k), NEW spec, spec.width \in Nat, spec.fill \in Cell,
         spec.align \in Align, {"align", "width", "fill"} \subseteq DOMAIN spec,
         NEW align, align = IF spec.align \in {"default", "numeric"} THEN "left" ELSE spec.align
  PROVE  /\ Writes(b, write_str(b, text, spec), Aligned(spec, align, <<>>, text))
         /\ \E x, y \in Nat : \E padding \in Nat :
              /\ padding = Padding(spec.width, k)
              /\ Aligned(spec, align, <<>>, text) =
                   Before(spec, align, <<>>, padding) \odot text \odot After(spec, align, padding)
              /\ IsText(Before(spec, align, <<>>, padding), x) /\ IsText(After(spec, align, padding), y)
<1>1. PICK width \in Nat : width = spec.width
  OBVIOUS
<1>2. PICK other : other = [spec EXCEPT !.align = align]
  OBVIOUS
<1>3. other.align = align /\ other.width = width /\ other.fill = spec.fill
  BY <1>1, <1>2
<1>4. align \in Align /\ align # "numeric" /\ align # "default"
  BY DEF Align
<1>5. PICK padding \in Nat : padding = Padding(width, k) /\ padding = Padding(width, k + 0)
  <2>1. Padding(width, k) \in Nat /\ k + 0 = k
    BY DEF Padding
  <2> QED BY <2>1
<1>6. PICK p : p = place(b, 0, other, text)
  OBVIOUS
<1>7. write_str(b, text, spec) = p.b
  BY <1>2, <1>6, StrPlaces
<1>8. PICK before, after : before = Before(other, align, text, padding) /\ after = After(other, align, padding)
  OBVIOUS
<1>9. PICK x, y \in Nat : Opens(b, p, before, x, 0, after, y)
  <2>1. align = IF other.align = "default" THEN "right" ELSE other.align
    BY <1>3, <1>4
  <2>2. other.width \in Nat /\ other.fill \in Cell /\ other.align \in Align /\ padding = Padding(other.width, k + 0)
    BY <1>3, <1>4, <1>5
  <2> QED BY <1>6, <1>8, <2>1, <2>2, PlaceOpens
<1>10. Writes(b, p.b, before \odot after)
  BY <1>9, NothingToFill
<1>11. PICK front, pad : front = Before(spec, align, <<>>, padding) /\ pad = After(spec, align, padding)
  OBVIOUS
<1>12. pad = after /\ before = front \odot text
  <2>1. pad = after
    BY <1>3, <1>8, <1>11 DEF After
  <2>2. PICK left, right : /\ left = Repeat(spec.fill, padding) /\ left \in Words
                           /\ right = Repeat(spec.fill, padding \div 2) /\ right \in Words
    <3>1. PICK half \in Nat : half = padding \div 2
      OBVIOUS
    <3> QED BY <3>1, RepeatText, TextIs
  <2>3. text \in Words
    BY TextIs
  <2>4. left \odot <<>> = left /\ right \odot <<>> = right /\ <<>> \odot text = text
    BY <2>2, <2>3, NothingAround
  <2>5. CASE align = "left"
    <3>1. before = text /\ front = <<>>
      BY <1>8, <1>11, <2>5, BeforeIs
    <3> QED BY <2>1, <2>4, <3>1
  <2>6. CASE align = "right"
    <3>1. before = left \odot text /\ front = left \odot <<>>
      BY <1>3, <1>8, <1>11, <2>2, <2>6, BeforeIs
    <3> QED BY <2>1, <2>4, <3>1
  <2>7. CASE align = "center"
    <3>1. before = right \odot text /\ front = right \odot <<>>
      BY <1>3, <1>8, <1>11, <2>2, <2>7, BeforeIs
    <3> QED BY <2>1, <2>4, <3>1
  <2> QED BY <1>4, <2>5, <2>6, <2>7 DEF Align
<1>13. Aligned(spec, align, <<>>, text) = front \odot text \odot pad
  BY <1>1, <1>4, <1>5, <1>11, StrAligned, Zenon
<1>14. \E m \in Nat : IsText(front, m)
  <2>1. CASE align = "left"
    BY <1>11, <2>1, NoChars, BeforeIs
  <2>2. CASE align = "right"
    <3>1. IsText(Repeat(spec.fill, padding) \odot <<>>, padding + 0)
      BY RepeatText, NoChars, JoinText
    <3>2. padding + 0 \in Nat
      OBVIOUS
    <3> QED BY <1>11, <2>2, <3>1, <3>2, BeforeIs
  <2>3. CASE align = "center"
    <3>1. PICK half \in Nat : half = padding \div 2
      OBVIOUS
    <3>2. IsText(Repeat(spec.fill, half) \odot <<>>, half + 0)
      BY RepeatText, NoChars, JoinText
    <3>3. half + 0 \in Nat
      OBVIOUS
    <3> QED BY <1>11, <2>3, <3>1, <3>2, <3>3, BeforeIs
  <2> QED BY <1>4, <2>1, <2>2, <2>3 DEF Align
<1>15. IsText(pad, y)
  BY <1>9, <1>12 DEF Opens
<1>16. padding = Padding(spec.width, k)
  BY <1>1, <1>5
<1> QED BY <1>7, <1>10, <1>11, <1>12, <1>13, <1>14, <1>15, <1>16

LEMMA LengthIsOne ==
  ASSUME NEW s, NEW k, IsText(s, k), NEW l, IsText(s, l)
  PROVE  k = l
BY DEF IsText

\* The number of its own that is made for a precision: the prefix, zeros, and a
\* place for the digits.
LEMMA NumberOpens ==
  ASSUME NEW b, IsBuffer(b), NEW prefix, NEW k \in Nat, IsText(prefix, k), NEW n \in Nat, NEW z \in Nat,
         "0" \in Cell, NEW sub, sub.width = k + (n + z), sub.fill = "0", sub.align = "numeric",
         NEW p, p = place(b, n, sub, prefix)
  PROVE  Opens(b, p, prefix \odot Repeat("0", z), k + z, n, <<>>, 0)
<1>1. PICK number, size \in Nat : number = k + (n + z) /\ size = k + n /\ number - size = z
  OBVIOUS
<1>2. z = Padding(number, size)
  <2>1. z = IF number <= size THEN 0 ELSE number - size
    BY <1>1
  <2> QED BY <2>1 DEF Padding
<1>3. PICK align : align = "numeric"
  OBVIOUS
<1>4. /\ sub.width \in Nat /\ sub.fill \in Cell /\ sub.align \in Align
      /\ align = IF sub.align = "default" THEN "right" ELSE sub.align
      /\ z = Padding(sub.width, k + n)
  BY <1>1, <1>2, <1>3 DEF Align
<1>5. PICK before, after : before = Before(sub, align, prefix, z) /\ after = After(sub, align, z)
  OBVIOUS
<1>6. PICK x, y \in Nat : Opens(b, p, before, x, n, after, y)
  BY <1>4, <1>5, PlaceOpens
<1>7. before = prefix \odot Repeat("0", z) /\ after = <<>>
  <2>1. before = prefix \odot Repeat(sub.fill, z)
    BY <1>3, <1>5, BeforeIs
  <2>2. after = <<>>
    BY <1>3, <1>5 DEF After
  <2> QED BY <2>1, <2>2
<1>8. x = k + z
  <2>1. IsText(before, k + z)
    BY <1>7, RepeatText, JoinText
  <2>2. IsText(before, x)
    BY <1>6 DEF Opens
  <2> QED BY <2>1, <2>2, LengthIsOne
<1>9. y = 0
  <2>1. IsText(after, y) /\ IsText(after, 0)
    BY <1>6, <1>7, NoChars DEF Opens
  <2> QED BY <2>1, LengthIsOne
<1> QED BY <1>6, <1>7, <1>8, <1>9

\* Integers, and pointers whose precision asks for no more digits than there
\* are.
LEMMA ShortPrecisionWrites ==
  ASSUME NEW b, IsBuffer(b), NEW prefix, NEW k \in Nat, IsText(prefix, k), NEW digits, NEW n \in Nat,
         IsText(digits, n), NEW spec, spec.width \in Nat, spec.fill \in Cell, spec.align \in Align,
         spec.precision <= n, NEW p, p = prepare_int_buffer(b, n, spec, prefix)
  PROVE  /\ Writes(b, Put(p.b, p.end - n, digits), Aligned(spec, Or(spec, "right"), prefix, digits))
         /\ p.end \in Nat
<1>1. p = place(b, n, spec, prefix)
  BY DEF prepare_int_buffer
<1> QED BY <1>1, PlaceWrites

\* What a field on the left or on the right comes out as.
LEMMA AlignedOnASide ==
  ASSUME NEW spec, spec.width \in Nat, spec.fill \in Cell,
         NEW prefix, prefix \in Words, NEW body, body \in Words
  PROVE  /\ Aligned(spec, "left", prefix, body) =
              prefix \odot body \odot Repeat(spec.fill, PaddingOf(spec, prefix, body))
         /\ Aligned(spec, "right", prefix, body) =
              Repeat(spec.fill, PaddingOf(spec, prefix, body)) \odot (prefix \odot body)
<1>1. ASSUME NEW align, align \in Align, align # "default"
      PROVE  Aligned(spec, align, prefix, body) =
               Before(spec, align, prefix, PaddingOf(spec, prefix, body)) \odot body
                 \odot After(spec, align, PaddingOf(spec, prefix, body))
  BY <1>1, AlignedSplits
<1>2. PICK rest, pad : rest = PaddingOf(spec, prefix, body) /\ pad = Repeat(spec.fill, rest) /\ pad \in Words
  <2>1. PaddingOf(spec, prefix, body) \in Nat
    <3>1. PICK m \in Nat : m = Len(prefix) + Len(body)
      BY DEF Words
    <3>2. Padding(spec.width, m) \in Nat
      BY DEF Padding
    <3> QED BY <3>1, <3>2 DEF PaddingOf
  <2> QED BY <2>1, RepeatText, TextIs
<1>3. /\ Before(spec, "left", prefix, rest) = prefix /\ After(spec, "left", rest) = pad
      /\ Before(spec, "right", prefix, rest) = pad \odot prefix /\ After(spec, "right", rest) = <<>>
  BY <1>2, BeforeIs DEF After
<1>4. pad \odot prefix \odot body \odot <<>> = pad \odot (prefix \odot body)
  <2>1. pad \odot prefix \odot body = pad \odot (prefix \odot body)
    BY <1>2, Regroup
  <2>2. pad \odot prefix \odot body \odot <<>> = pad \odot prefix \odot body
    BY <1>2, ThreeTexts
  <2> QED BY <2>1, <2>2
<1>5. Aligned(spec, "left", prefix, body) =
        Before(spec, "left", prefix, rest) \odot body \odot After(spec, "left", rest)
  BY <1>1, <1>2 DEF Align
<1>6. Aligned(spec, "right", prefix, body) =
        Before(spec, "right", prefix, rest) \odot body \odot After(spec, "right", rest)
  BY <1>1, <1>2 DEF Align
<1> QED BY <1>2, <1>3, <1>4, <1>5, <1>6, Zenon

\* The number of its own that is made for a precision.
NumberSpec(spec, number) == [spec EXCEPT !.width = number, !.fill = "0", !.align = "numeric"]

LEMMA NumberSpecIs ==
  ASSUME NEW spec, {"width", "fill", "align"} \subseteq DOMAIN spec, NEW number
  PROVE  /\ NumberSpec(spec, number).width = number /\ NumberSpec(spec, number).fill = "0"
         /\ NumberSpec(spec, number).align = "numeric"
BY DEF NumberSpec

\* The padding behind a number: the place of the digits is lost if the buffer
\* has to grow for it.
Extended(q, pad) ==
  [b |-> append(q.b, pad),
   end |-> IF q.b.size + Len(pad) > capacity(q.b) THEN Nowhere ELSE q.end]

\* A prefix, zeros and digits, and how many there are.
IsNumber(prefix, k, zeros, z, digits, n, number) ==
  /\ k \in Nat /\ z \in Nat /\ n \in Nat /\ number \in Nat /\ number = k + (n + z)
  /\ IsText(prefix, k) /\ IsText(zeros, z) /\ IsText(digits, n)
  /\ zeros = Repeat("0", z) /\ "0" \in Cell

IsNumberSpec(sub, number) == sub.width = number /\ sub.fill = "0" /\ sub.align = "numeric"

\* p is what becomes of b for a precision that asks for more digits than n.
ForPrecision(b, n, spec, prefix, number, p) ==
  /\ spec.width <= number => p = place(b, n, NumberSpec(spec, number), prefix)
  /\ ~(spec.width <= number) /\ spec.align = "left" =>
       p = Extended(place(reserve(b, spec.width), n, NumberSpec(spec, number), prefix),
                    Repeat(spec.fill, spec.width - number))
  /\ ~(spec.width <= number) /\ spec.align # "left" =>
       p = place(append(reserve(b, spec.width), Repeat(spec.fill, spec.width - number)), n,
                 NumberSpec(spec, number), prefix)

\* What prepare_int_buffer does for a precision.
LEMMA LongPrecisionIs ==
  ASSUME NEW b, NEW prefix, prefix = <<>> \/ Last(prefix) # "0",
         NEW k, NEW zeros, NEW z, NEW digits, NEW n, NEW number,
         IsNumber(prefix, k, zeros, z, digits, n, number),
         NEW spec, spec.width \in Nat, spec.precision = n + z, z > 0
  PROVE  ForPrecision(b, n, spec, prefix, number, prepare_int_buffer(b, n, spec, prefix))
<1>1. ~(spec.precision <= n) /\ Len(prefix) + spec.precision = number
  BY DEF IsText, IsNumber
<1>2. number >= spec.width <=> spec.width <= number
  BY DEF IsNumber
<1>3. (IF prefix # <<>> /\ Last(prefix) = "0" THEN Front(prefix) ELSE prefix) = prefix
  OBVIOUS
<1>4. prepare_int_buffer(b, n, spec, prefix) =
        IF number >= spec.width THEN place(b, n, NumberSpec(spec, number), prefix)
        ELSE IF spec.align = "left"
        THEN Extended(place(reserve(b, spec.width), n, NumberSpec(spec, number), prefix),
                      Repeat(spec.fill, spec.width - number))
        ELSE place(append(reserve(b, spec.width), Repeat(spec.fill, spec.width - number)), n,
                   NumberSpec(spec, number), prefix)
  BY <1>1, <1>3 DEF prepare_int_buffer, NumberSpec, Extended
<1> QED BY <1>2, <1>4, Zenon DEF ForPrecision

LEMMA AppendHasRoom ==
  ASSUME NEW b, IsBuffer(b), NEW t, t \in Seq(Cell)
  PROVE  Len(b.ptr) <= Len(append(b, t).ptr)
<1>1. PICK n, g : n \in Nat /\ n = Len(t) /\ g = grow_buffer(b, n)
  <2>1. Len(t) \in Nat
    OBVIOUS
  <2> QED BY <2>1
<1>2. IsBuffer(g) /\ Len(b.ptr) <= Len(g.ptr)
  BY <1>1, GrowBufferIs
<1>3. b.size \in Nat
  BY DEF IsBuffer
<1>4. Len(Put(g, b.size, t).ptr) = Len(g.ptr)
  BY <1>2, <1>3, PutIs
<1> QED BY <1>1, <1>2, <1>4 DEF append

\* The zeros are in front of the digits: a number of its own, with the padding
\* of the field on one side.
LEMMA NumberAligned ==
  ASSUME NEW spec, spec.width \in Nat, spec.fill \in Cell,
         NEW prefix, prefix \in Words, NEW zeros, zeros \in Words, NEW digits, digits \in Words
  PROVE  /\ Aligned(spec, "left", prefix, zeros \odot digits) =
              prefix \odot zeros \odot digits \odot Repeat(spec.fill, PaddingOf(spec, prefix, zeros \odot digits))
         /\ Aligned(spec, "right", prefix, zeros \odot digits) =
              Repeat(spec.fill, PaddingOf(spec, prefix, zeros \odot digits)) \odot (prefix \odot zeros \odot digits)
<1>1. PICK body : body = zeros \odot digits /\ body \in Words
  BY TwoTexts
<1>2. prefix \odot body = prefix \odot zeros \odot digits
  BY <1>1, Regroup
<1>3. /\ Aligned(spec, "left", prefix, body) =
           prefix \odot body \odot Repeat(spec.fill, PaddingOf(spec, prefix, body))
      /\ Aligned(spec, "right", prefix, body) =
           Repeat(spec.fill, PaddingOf(spec, prefix, body)) \odot (prefix \odot body)
  <2>1. body \in Words
    BY <1>1
  <2> QED BY <2>1, AlignedOnASide
<1> QED BY <1>1, <1>2, <1>3, Zenon

LEMMA OpenEnds ==
  ASSUME NEW b, IsBuffer(b), NEW p, NEW before, NEW k \in Nat, NEW n \in Nat, NEW after, NEW l \in Nat,
         Opens(b, p, before, k, n, after, l)
  PROVE  p.end \in Nat
<1>1. PICK size \in Nat : size = b.size
  BY DEF IsBuffer
<1>2. p.end = size + k + n
  BY <1>1, Zenon DEF Opens
<1> QED BY <1>2

LEMMA NumberFills ==
  ASSUME NEW b, IsBuffer(b), NEW prefix, NEW k, NEW zeros, NEW z, NEW digits, NEW n, NEW number,
         IsNumber(prefix, k, zeros, z, digits, n, number), NEW sub, IsNumberSpec(sub, number),
         NEW p, p = place(b, n, sub, prefix)
  PROVE  /\ Writes(b, Put(p.b, p.end - n, digits), prefix \odot zeros \odot digits)
         /\ p.end \in Nat /\ IsText(prefix \odot zeros, k + z)
         /\ Opens(b, p, prefix \odot zeros, k + z, n, <<>>, 0)
<1>1. /\ k \in Nat /\ z \in Nat /\ n \in Nat /\ k + z \in Nat /\ IsText(prefix, k) /\ IsText(zeros, z)
      /\ IsText(digits, n) /\ "0" \in Cell /\ zeros = Repeat("0", z)
      /\ sub.width = k + (n + z) /\ sub.fill = "0" /\ sub.align = "numeric"
  BY DEF IsNumber, IsNumberSpec
<1>2. Opens(b, p, prefix \odot zeros, k + z, n, <<>>, 0)
  BY <1>1, NumberOpens
<1>3. Writes(b, Put(p.b, p.end - n, digits), prefix \odot zeros \odot digits \odot <<>>)
  BY <1>1, <1>2, FillIn, Zenon
<1>4. IsText(prefix \odot zeros, k + z)
  BY <1>1, JoinText, Zenon
<1>5. prefix \odot zeros \odot digits \odot <<>> = prefix \odot zeros \odot digits
  <2>1. IsText(prefix \odot zeros \odot digits, k + z + n)
    BY <1>1, <1>4, JoinText, Zenon
  <2>2. prefix \odot zeros \odot digits \in Words
    BY <2>1, TextIs, Zenon
  <2> QED BY <2>2, NothingAround, Zenon
<1>6. p.end \in Nat
  BY <1>1, <1>2, OpenEnds
<1> QED BY <1>2, <1>3, <1>4, <1>5, <1>6, Zenon

\* On the left the number is put first, and the padding appended.
LEMMA NumberOnTheLeft ==
  ASSUME NEW b, IsBuffer(b), NEW prefix, NEW k, NEW zeros, NEW z, NEW digits, NEW n, NEW number,
         IsNumber(prefix, k, zeros, z, digits, n, number), NEW sub, IsNumberSpec(sub, number),
         NEW pad, NEW rest \in Nat, IsText(pad, rest), b.size + (number + rest) <= capacity(b),
         NEW p, p = Extended(place(b, n, sub, prefix), pad)
  PROVE  /\ Writes(b, Put(p.b, p.end - n, digits), prefix \odot zeros \odot digits \odot pad)
         /\ p.end \in Nat
<1>1. PICK x, before : x \in Nat /\ before = prefix \odot zeros /\ x = k + z /\ x + n = number
  BY DEF IsNumber
<1>2. PICK q : q = place(b, n, sub, prefix) /\ Opens(b, q, before, x, n, <<>>, 0) /\ IsText(before, x)
  BY <1>1, NumberFills, Zenon
<1>3. n \in Nat /\ number \in Nat /\ IsText(digits, n)
  BY DEF IsNumber
<1>4. PICK size, end, room \in Nat :
        size = b.size /\ end = size + x + n /\ end = size + number /\ room = capacity(b) /\ end + rest <= room
  <2>1. PICK size, room \in Nat : size = b.size /\ room = capacity(b) /\ size + (number + rest) <= room
    BY DEF IsBuffer, capacity
  <2> QED BY <1>1, <1>3, <2>1
<1>5. Room(b, q.b, number) /\ Has(q.b, size, before) /\ q.end = end
  <2>1. Room(b, q.b, x + n + 0) /\ Has(q.b, size, before) /\ q.end = end
    BY <1>2, <1>4, Zenon DEF Opens
  <2>2. x + n + 0 = number
    <3>1. x \in Nat /\ x + n = number
      BY <1>1
    <3> QED BY <3>1, <1>3
  <2> QED BY <2>1, <2>2
<1>6. IsBuffer(q.b) /\ q.b.size = end /\ Has(q.b, 0, Text(b)) /\ Len(b.ptr) <= Len(q.b.ptr)
  BY <1>4, <1>5 DEF Room
<1>7. p.end = q.end
  <2>1. PICK more \in Nat : more = capacity(q.b) /\ room <= more
    BY <1>4, <1>6 DEF IsBuffer, capacity
  <2>2. Len(pad) = rest
    BY DEF IsText
  <2>3. ~(end + rest > more)
    BY <1>4, <2>1
  <2>4. p.end = IF end + rest > more THEN Nowhere ELSE q.end
    BY <1>2, <1>6, <2>1, <2>2 DEF Extended
  <2> QED BY <2>3, <2>4
<1>8. PICK c : c = append(q.b, pad)
  OBVIOUS
<1>9. Writes(q.b, c, pad)
  BY <1>6, <1>8, AppendWrites DEF IsText
<1>10. IsBuffer(c) /\ c.size = end + rest /\ Has(c, 0, Text(q.b)) /\ Has(c, end, pad)
  BY <1>6, <1>9 DEF Writes, IsText
<1>11. Has(c, size, before) /\ Has(c, 0, Text(b))
  <2>1. before \in Seq(Cell) /\ Len(before) = x
    BY <1>2, Zenon DEF IsText
  <2>2. size + x <= end
    <3>1. x \in Nat
      BY <1>1
    <3> QED BY <3>1, <1>4, <1>3
  <2>3. size + Len(before) <= q.b.size
    BY <1>6, <2>1, <2>2
  <2>4. Has(c, size, before)
    BY <1>5, <1>6, <1>10, <2>1, <2>3, PartOfText, Zenon
  <2>5. 0 + size <= end
    BY <1>4, <1>3
  <2>6. Text(b) \in Seq(Cell) /\ Len(Text(b)) = size /\ 0 + size <= end
    <3>1. Text(b) \in Seq(Cell) /\ Len(Text(b)) = b.size
      BY TextOfBuffer
    <3> QED BY <1>4, <2>5, <3>1, Zenon
  <2>7. Has(c, 0, Text(b))
    BY <1>6, <1>10, <2>6, PartOfText
  <2> QED BY <2>4, <2>7
<1>12. Opens(b, p, before, x, n, pad, rest)
  <2>1. PICK m \in Nat : m = x + n + rest /\ end + rest = size + m
    <3>1. x \in Nat
      BY <1>1
    <3> QED BY <3>1, <1>4, <1>3
  <2>2. Len(b.ptr) <= Len(c.ptr)
    <3>1. Len(q.b.ptr) <= Len(c.ptr)
      <4>1. pad \in Seq(Cell)
        BY Zenon DEF IsText
      <4> QED BY <1>6, <1>8, <4>1, AppendHasRoom, Zenon
    <3> QED BY <1>6, <1>10, <3>1 DEF IsBuffer
  <2>3. Room(b, c, m)
    BY <1>4, <1>10, <1>11, <2>1, <2>2 DEF Room
  <2>4. p.b = c /\ p.end = end
    BY <1>2, <1>5, <1>7, <1>8 DEF Extended
  <2> QED BY <1>2, <1>4, <1>10, <1>11, <2>1, <2>3, <2>4, OpenIs, Zenon
<1>13. p.end \in Nat
  <2>1. x \in Nat
    BY <1>1
  <2> QED BY <2>1, <1>12, <1>3, OpenEnds
<1>14. Writes(b, Put(p.b, p.end - n, digits), before \odot digits \odot pad)
  BY <1>12, <1>3, FillIn, Zenon
<1> QED BY <1>1, <1>13, <1>14, Zenon

\* A pointer with zeros for its precision.  On the left this takes a buffer that
\* need not grow for the padding.
LEMMA LongPrecisionWrites ==
  ASSUME NEW b, IsBuffer(b), NEW prefix, NEW k \in Nat, IsText(prefix, k),
         prefix = <<>> \/ Last(prefix) # "0",
         NEW digits, NEW n \in Nat, IsText(digits, n), "0" \in Cell,
         NEW spec, {"width", "fill", "align"} \subseteq DOMAIN spec,
         spec.width \in Nat, spec.fill \in Cell,
         NEW z \in Nat, spec.precision = n + z, z > 0,
         NEW room \in Nat, room = capacity(b), spec.align = "left" => b.size + spec.width <= room,
         NEW p, p = prepare_int_buffer(b, n, spec, prefix),
         NEW align, align = IF spec.align = "left" THEN "left" ELSE "right"
  PROVE  /\ Writes(b, Put(p.b, p.end - n, digits), Aligned(spec, align, prefix, Repeat("0", z) \odot digits))
         /\ p.end \in Nat
<1>1. PICK width, size, number, rest \in Nat :
        /\ width = spec.width /\ size = b.size /\ number = k + (n + z)
        /\ rest = Padding(width, number) /\ (width > number => rest = width - number)
        /\ (width <= number => rest = 0)
  <2>1. PICK width, size, number \in Nat : width = spec.width /\ size = b.size /\ number = k + (n + z)
    BY DEF IsBuffer
  <2>2. Padding(width, number) \in Nat /\ (width > number => Padding(width, number) = width - number)
        /\ (width <= number => Padding(width, number) = 0)
    BY DEF Padding
  <2> QED BY <2>1, <2>2
<1>2. PICK zeros, whole, pad : zeros = Repeat("0", z) /\ whole = prefix \odot zeros \odot digits
        /\ pad = Repeat(spec.fill, rest) /\ IsText(pad, rest) /\ IsText(zeros, z)
  BY RepeatText
<1>3. whole \in Words
  <2>1. IsText(prefix \odot zeros, k + z)
    BY <1>2, JoinText, Zenon
  <2>2. IsText(prefix \odot zeros \odot digits, k + z + n)
    BY <2>1, JoinText, Zenon
  <2> QED BY <1>2, <2>2, TextIs, Zenon
<1>4. PaddingOf(spec, prefix, zeros \odot digits) = rest
  <2>1. IsText(zeros \odot digits, z + n)
    BY <1>2, JoinText
  <2>2. k + (z + n) = number
    BY <1>1
  <2>3. PaddingOf(spec, prefix, zeros \odot digits) = Padding(spec.width, k + (z + n))
    BY <2>1, PaddingOfIs
  <2> QED BY <1>1, <2>2, <2>3
<1>5. /\ Aligned(spec, "left", prefix, zeros \odot digits) = whole \odot pad
      /\ Aligned(spec, "right", prefix, zeros \odot digits) = pad \odot whole
  <2>1. prefix \in Words /\ zeros \in Words /\ digits \in Words
    BY <1>2, TextIs
  <2>2. pad = Repeat(spec.fill, PaddingOf(spec, prefix, zeros \odot digits))
    BY <1>2, <1>4
  <2>3. /\ Aligned(spec, "left", prefix, zeros \odot digits) =
             prefix \odot zeros \odot digits \odot Repeat(spec.fill, PaddingOf(spec, prefix, zeros \odot digits))
        /\ Aligned(spec, "right", prefix, zeros \odot digits) =
             Repeat(spec.fill, PaddingOf(spec, prefix, zeros \odot digits)) \odot (prefix \odot zeros \odot digits)
    BY <2>1, NumberAligned
  <2> QED BY <1>2, <2>2, <2>3, Zenon
<1>6. IsNumber(prefix, k, zeros, z, digits, n, number)
  BY <1>1, <1>2 DEF IsNumber
<1>7. PICK sub : sub = NumberSpec(spec, number) /\ IsNumberSpec(sub, number)
  BY NumberSpecIs DEF IsNumberSpec
<1>8. /\ spec.width <= number => p = place(b, n, sub, prefix)
      /\ ~(spec.width <= number) /\ spec.align = "left" =>
           p = Extended(place(reserve(b, spec.width), n, sub, prefix), Repeat(spec.fill, spec.width - number))
      /\ ~(spec.width <= number) /\ spec.align # "left" =>
           p = place(append(reserve(b, spec.width), Repeat(spec.fill, spec.width - number)), n, sub, prefix)
  <2>1. ForPrecision(b, n, spec, prefix, number, p)
    BY <1>6, LongPrecisionIs
  <2> QED BY <1>7, <2>1, Zenon DEF ForPrecision
<1>9. CASE width <= number
  <2>1. p = place(b, n, sub, prefix)
    BY <1>1, <1>9, <1>8
  <2>2. Writes(b, Put(p.b, p.end - n, digits), whole) /\ p.end \in Nat
    BY <1>2, <1>6, <1>7, <2>1, NumberFills, Zenon
  <2>3. pad = <<>>
    BY <1>1, <1>2, <1>9, NoPadding
  <2>4. whole \odot <<>> = whole /\ <<>> \odot whole = whole
    BY <1>3, NothingAround, Zenon
  <2> QED BY <1>2, <1>5, <2>2, <2>3, <2>4, Zenon
<1>10. CASE ~(width <= number) /\ spec.align = "left"
  <2>1. width <= room /\ rest = width - number /\ size + (number + rest) <= room
    BY <1>1, <1>10
  <2>2. reserve(b, width) = b
    BY <2>1, ReserveIs DEF capacity
  <2>3. p = Extended(place(b, n, sub, prefix), pad)
    BY <1>1, <1>2, <1>10, <1>8, <2>1, <2>2
  <2>4. b.size + (number + rest) <= capacity(b)
    BY <1>1, <2>1
  <2>5. Writes(b, Put(p.b, p.end - n, digits), prefix \odot zeros \odot digits \odot pad) /\ p.end \in Nat
    BY <1>2, <1>6, <1>7, <2>3, <2>4, NumberOnTheLeft, Zenon
  <2> QED BY <1>2, <1>5, <1>10, <2>5, Zenon
<1>11. CASE ~(width <= number) /\ spec.align # "left"
  <2>1. PICK r, c : r = reserve(b, width) /\ c = append(r, pad)
    OBVIOUS
  <2>2. IsBuffer(r)
    BY <1>1, <2>1, ReserveIs
  <2>3. Writes(r, c, pad) /\ IsBuffer(c)
    BY <1>2, <2>1, <2>2, AppendWrites DEF IsText, Writes
  <2>4. p = place(c, n, sub, prefix)
    BY <1>1, <1>2, <1>11, <1>8, <2>1
  <2>5. Writes(c, Put(p.b, p.end - n, digits), whole) /\ p.end \in Nat
    BY <1>2, <1>6, <1>7, <2>3, <2>4, NumberFills, Zenon
  <2>6. Writes(r, Put(p.b, p.end - n, digits), pad \odot whole)
    <3>1. pad \in Seq(Cell) /\ whole \in Seq(Cell)
      BY <1>2, <1>3, Zenon DEF IsText, Words
    <3> QED BY <2>2, <2>3, <2>5, <3>1, WriteTwice, Zenon
  <2>7. Writes(b, Put(p.b, p.end - n, digits), pad \odot whole)
    BY <1>1, <2>1, <2>6, WritesAfterReserve
  <2> QED BY <1>2, <1>5, <1>11, <2>5, <2>7, Zenon
<1> QED BY <1>9, <1>10, <1>11

-----------------------------------------------------------------------------
(***************************************************************************)
(* Digits.                                                                 *)
(***************************************************************************)
Bases == {2, 8, 10, 16}

Shorter(m, base) == m \div base
Remainder(m, base) == m % base

LEMMA ShorterIs ==
  ASSUME NEW base \in Bases, NEW m \in Nat
  PROVE  /\ Remainder(m, base) \in Nat /\ Remainder(m, base) < base
         /\ base <= m => Shorter(m, base) \in Nat /\ Shorter(m, base) < m
         /\ 0 < base /\ base \in Nat /\ base <= 16
<1>1. CASE base = 2
  BY <1>1 DEF Shorter, Remainder
<1>2. CASE base = 8
  BY <1>2 DEF Shorter, Remainder
<1>3. CASE base = 10
  BY <1>3 DEF Shorter, Remainder
<1>4. CASE base = 16
  BY <1>4 DEF Shorter, Remainder
<1> QED BY <1>1, <1>2, <1>3, <1>4 DEF Bases

LEMMA LeastOf ==
  ASSUME NEW B \in SUBSET Nat, B # {}
  PROVE  \E n \in B : \A m \in B : n <= m
<1> DEFINE UpTo == {0 .. n : n \in B}
<1>1. IsWellFoundedOn(StrictSubsetOrdering(Nat), FiniteSubsetsOf(Nat))
  BY FS_StrictSubsetOrderingWellFounded
<1>2. UpTo \subseteq FiniteSubsetsOf(Nat) /\ UpTo # {}
  <2>1. \A n \in B : IsFiniteSet(0 .. n) /\ 0 .. n \in SUBSET Nat
    BY FS_Interval
  <2> QED BY <2>1 DEF FiniteSubsetsOf
<1>3. PICK T \in UpTo : \A U \in UpTo : ~(<<U, T>> \in StrictSubsetOrdering(Nat))
  <2> HIDE DEF UpTo
  <2> QED BY <1>1, <1>2, WFMin
<1>4. PICK n \in B : T = 0 .. n
  BY <1>3
<1>5. ASSUME NEW m \in B, m < n
      PROVE  FALSE
  <2>1. 0 .. m \in UpTo /\ 0 .. m \subseteq T /\ 0 .. m # T
    <3>1. n \in 0 .. n /\ n \notin 0 .. m /\ 0 .. m \subseteq 0 .. n
      BY <1>5
    <3> QED BY <3>1, <1>4
  <2>2. 0 .. m \in SUBSET Nat /\ T \in SUBSET Nat
    BY <1>4
  <2>3. <<0 .. m, T>> \in StrictSubsetOrdering(Nat)
    BY <2>1, <2>2 DEF StrictSubsetOrdering
  <2> QED BY <2>1, <2>3, <1>3
<1> QED BY <1>5

\* One more digit: what the recursive function of Digits does.
OneMore(f, m, base) ==
  IF m < base THEN <<Digit[m + 1]>> ELSE Append(f[Shorter(m, base)], Digit[Remainder(m, base) + 1])

CountsUp(f, n, base) == f = [m \in 0..n |-> OneMore(f, m, base)]

LEMMA DigitsApply ==
  ASSUME NEW n, NEW base
  PROVE  Digits(n, base) = (CHOOSE f : CountsUp(f, n, base))[n]
BY DEF Digits, CountsUp, OneMore, Shorter, Remainder

LEMMA CountsAt ==
  ASSUME NEW f, NEW n, NEW base, CountsUp(f, n, base), NEW m \in 0..n
  PROVE  f[m] = OneMore(f, m, base)
<1>1. f = [j \in 0..n |-> OneMore(f, j, base)]
  BY DEF CountsUp
<1> QED BY <1>1, Zenon

LEMMA CountsExist ==
  ASSUME NEW base \in Bases, NEW n \in Nat
  PROVE  \E f : CountsUp(f, n, base)
<1> DEFINE Bad == {e \in Nat : ~ \E f : CountsUp(f, e, base)}
<1> SUFFICES ASSUME Bad # {} PROVE FALSE
  OBVIOUS
<1>1. PICK e \in Bad : \A m \in Bad : e <= m
  <2>1. Bad \in SUBSET Nat
    OBVIOUS
  <2> HIDE DEF Bad
  <2> QED BY <2>1, LeastOf
<1>2. e \in Nat /\ ~ \E f : CountsUp(f, e, base)
  BY <1>1
<1>3. PICK c : e # 0 => CountsUp(c, e - 1, base)
  <2>1. CASE e = 0
    BY <2>1
  <2>2. CASE e # 0
    <3>1. e - 1 \in Nat /\ e - 1 \notin Bad
      BY <1>1, <1>2, <2>2
    <3> QED BY <3>1
  <2> QED BY <2>1, <2>2
<1> DEFINE f == [m \in 0..e |-> OneMore(c, m, base)]
<1>4. ASSUME NEW m \in 0..e, base <= m
      PROVE  c[Shorter(m, base)] = f[Shorter(m, base)]
  <2>1. PICK k \in Nat : k = Shorter(m, base) /\ k < m
    BY <1>4, ShorterIs
  <2>2. e # 0 /\ k \in 0..(e - 1) /\ k \in 0..e
    BY <1>2, <1>4, <2>1
  <2>3. c[k] = OneMore(c, k, base)
    BY <1>3, <2>2, CountsAt
  <2>4. f[k] = OneMore(c, k, base)
    BY <2>2
  <2> HIDE DEF f
  <2> QED BY <2>1, <2>3, <2>4
<1>5. \A m \in 0..e : OneMore(c, m, base) = OneMore(f, m, base)
  <2> TAKE m \in 0..e
  <2> HIDE DEF f
  <2>1. m < base \/ base <= m
    BY ShorterIs
  <2> QED BY <1>4, <2>1 DEF OneMore
<1>6. f = [m \in 0..e |-> OneMore(c, m, base)]
  OBVIOUS
<1> HIDE DEF f
<1>7. [m \in 0..e |-> OneMore(c, m, base)] = [m \in 0..e |-> OneMore(f, m, base)]
  BY <1>5, Zenon
<1>8. CountsUp(f, e, base)
  BY <1>6, <1>7, Zenon DEF CountsUp
<1> QED BY <1>2, <1>8

\* A number has digits.
LEMMA DigitsAre ==
  ASSUME CharsAreThere, NEW base \in Bases, NEW n \in Nat
  PROVE  Digits(n, base) \in Seq(Char)
<1>1. PICK f : f = (CHOOSE g : CountsUp(g, n, base)) /\ CountsUp(f, n, base)
  BY CountsExist
<1> DEFINE Bad == {m \in 0..n : f[m] \notin Seq(Char)}
<1> SUFFICES ASSUME Bad # {} PROVE FALSE
  <2>1. n \in 0..n
    OBVIOUS
  <2> QED BY <1>1, <2>1, DigitsApply
<1>2. PICK m \in Bad : \A k \in Bad : m <= k
  <2>1. Bad \in SUBSET Nat
    OBVIOUS
  <2> HIDE DEF Bad
  <2> QED BY <2>1, LeastOf
<1>3. f[m] = OneMore(f, m, base) /\ m \in Nat /\ m <= n
  BY <1>1, <1>2, CountsAt
<1>4. \A d \in 1..16 : Digit[d] \in Char
  BY DEF CharsAreThere
<1>5. CASE m < base
  <2>1. m + 1 \in 1..16
    BY <1>3, <1>5, ShorterIs
  <2>2. f[m] = <<Digit[m + 1]>> /\ Digit[m + 1] \in Char
    BY <1>3, <1>4, <1>5, <2>1 DEF OneMore
  <2>3. f[m] \in Seq(Char)
    <3>1. PICK d \in Char : d = Digit[m + 1]
      BY <2>2
    <3>2. <<d>> \in Seq(Char)
      OBVIOUS
    <3> QED BY <2>2, <3>1, <3>2
  <2> QED BY <1>2, <2>3
<1>6. CASE base <= m
  <2>1. PICK k \in Nat : k = Shorter(m, base) /\ k < m
    BY <1>3, <1>6, ShorterIs
  <2>2. f[k] \in Seq(Char)
    BY <1>2, <1>3, <2>1
  <2>3. PICK d : d = Digit[Remainder(m, base) + 1] /\ d \in Char
    <3>1. PICK r \in Nat : r = Remainder(m, base) /\ r < base
      BY <1>3, ShorterIs
    <3>2. base <= 16 /\ base \in Nat
      BY ShorterIs
    <3>3. r + 1 \in 1..16
      <4>1. r < 16
        BY <3>1, <3>2
      <4> HIDE DEF Bad
      <4> QED BY <3>1, <4>1
    <3>4. Digit[r + 1] \in Char
      BY <1>4, <3>3, Zenon
    <3> QED BY <3>1, <3>4, Zenon
  <2>4. f[m] = Append(f[k], d)
    <3>1. ~(m < base)
      BY <1>3, <1>6, ShorterIs
    <3> QED BY <1>3, <2>1, <2>3, <3>1 DEF OneMore
  <2>5. f[m] \in Seq(Char)
    BY <2>2, <2>3, <2>4, AppendProperties
  <2> QED BY <1>2, <2>5
<1>7. m < base \/ base <= m
  BY <1>3, ShorterIs
<1> QED BY <1>5, <1>6, <1>7

-----------------------------------------------------------------------------
(***************************************************************************)
(* Signs and prefixes, and the integers and pointers they belong to.       *)
(***************************************************************************)
LEMMA SignIs ==
  ASSUME CharsAreThere, NEW negative \in BOOLEAN, NEW flags
  PROVE  \/ Sign(negative, flags) = <<>>
         \/ \E c \in Char : Sign(negative, flags) = <<c>>
<1>1. "-" \in Char /\ "+" \in Char /\ " " \in Char
  BY DEF CharsAreThere
<1>2. Sign(negative, flags) \in {<<>>, <<"-">>, <<"+">>, <<" ">>}
  <2>1. CASE negative
    BY <2>1 DEF Sign
  <2>2. CASE ~negative /\ {"sign", "plus"} \subseteq flags
    BY <2>2 DEF Sign
  <2>3. CASE ~negative /\ "sign" \in flags /\ "plus" \notin flags
    BY <2>3 DEF Sign
  <2>4. CASE ~negative /\ "sign" \notin flags
    BY <2>4 DEF Sign
  <2> QED BY <2>1, <2>2, <2>3, <2>4
<1> QED BY <1>1, <1>2

LEMMA OneChar ==
  ASSUME NEW c \in Char
  PROVE  <<c>> \in Seq(Char) /\ Len(<<c>>) = 1
OBVIOUS

LEMMA SignText ==
  ASSUME CharsAreThere, NEW negative \in BOOLEAN, NEW flags
  PROVE  Sign(negative, flags) \in Seq(Char)
BY SignIs, OneChar, EmptySeq

LEMMA SignOfValue ==
  ASSUME CharsAreThere, NEW value \in Int, NEW flags
  PROVE  Sign(value < 0, flags) \in Seq(Char)
<1>1. CASE value < 0
  <2>1. Sign(value < 0, flags) = Sign(TRUE, flags)
    BY <1>1 DEF Sign
  <2> QED BY <2>1, SignText
<1>2. CASE ~(value < 0)
  <2>1. Sign(value < 0, flags) = Sign(FALSE, flags)
    BY <1>2 DEF Sign
  <2> QED BY <2>1, SignText
<1> QED BY <1>1, <1>2

LEMMA PrefixText ==
  ASSUME CharsAreThere, NEW value \in Int, NEW spec
  PROVE  Prefix(value, spec) \in Seq(Char)
<1>1. PICK s : s = Sign(value < 0, spec.flags) /\ s \in Seq(Char)
  BY SignOfValue
<1>2. PICK h : /\ h \in {<<>>, <<"0">>, <<"0", "x">>, <<"0", "b">>}
               /\ Prefix(value, spec) = s \o h
  <2> DEFINE base == IF "hash" \notin spec.flags THEN <<>>
                     ELSE CASE spec.type = "o" -> <<"0">>
                            [] spec.type \in {"x", "b"} -> <<"0", spec.type>>
                            [] OTHER -> <<>>
  <2>1. base \in {<<>>, <<"0">>, <<"0", "x">>, <<"0", "b">>}
    <3>1. CASE "hash" \notin spec.flags
      BY <3>1
    <3>2. CASE spec.type = "o"
      BY <3>2
    <3>3. CASE spec.type = "x"
      BY <3>3
    <3>4. CASE spec.type = "b"
      BY <3>4
    <3>5. CASE spec.type \notin {"o", "x", "b"}
      BY <3>5
    <3> QED BY <3>1, <3>2, <3>3, <3>4, <3>5
  <2>2. Prefix(value, spec) = s \o base
    BY <1>1 DEF Prefix
  <2> QED BY <2>1, <2>2
<1>3. "0" \in Char /\ "b" \in Char /\ "x" \in Char
  <2>1. Digit[1] = "0" /\ Digit[12] = "b"
    BY DEF Digit
  <2>2. Digit[1] \in Char /\ Digit[12] \in Char /\ "x" \in Char
    <3>1. \A d \in 1..16 : Digit[d] \in Char
      BY DEF CharsAreThere
    <3>2. 1 \in 1..16 /\ 12 \in 1..16
      OBVIOUS
    <3>3. "x" \in Char
      BY DEF CharsAreThere
    <3> QED BY <3>1, <3>2, <3>3, Zenon
  <2> QED BY <2>1, <2>2
<1>4. h \in Seq(Char)
  <2>1. /\ <<>> \in Seq(Char) /\ <<"0">> \in Seq(Char)
        /\ <<"0", "x">> \in Seq(Char) /\ <<"0", "b">> \in Seq(Char)
    BY <1>3
  <2> QED BY <1>2, <2>1
<1> QED BY <1>1, <1>2, <1>4, ConcatProperties

\* A prefix with the base at its end is not shortened for a precision.
LEMMA ShownPrefix ==
  ASSUME CharsAreThere, NEW value \in Int, NEW spec, {"flags", "type"} \subseteq DOMAIN spec,
         NEW prefix, prefix = Prefix(value, Shown(spec))
  PROVE  Last(prefix) = "x"
<1>1. PICK s : s = Sign(value < 0, {"hash"}) /\ s \in Seq(Char)
  BY SignOfValue
<1>2. Shown(spec).flags = {"hash"} /\ Shown(spec).type = "x"
  BY DEF Shown
<1>3. prefix = s \o <<"0", "x">>
  BY <1>1, <1>2 DEF Prefix
<1>4. PICK C : Char \subseteq C /\ "0" \in C /\ "x" \in C
  <2>1. Char \subseteq (Char \cup {"0", "x"}) /\ "0" \in Char \cup {"0", "x"} /\ "x" \in Char \cup {"0", "x"}
    OBVIOUS
  <2> QED BY <2>1
<1>5. s \in Seq(C) /\ <<"0", "x">> \in Seq(C) /\ Len(<<"0", "x">>) = 2
  BY <1>1, <1>4
<1>6. /\ prefix \in Seq(C) /\ Len(prefix) = Len(s) + 2 /\ Len(s) \in Nat
      /\ prefix[Len(s) + 2] = <<"0", "x">>[2]
  BY <1>3, <1>5, ConcatProperties
<1> QED BY <1>6 DEF Last

LEMMA CharText ==
  ASSUME NEW t, t \in Seq(Char)
  PROVE  \E n \in Nat : n = Len(t) /\ IsText(t, n)
<1>1. t \in Seq(Cell) /\ Len(t) \in Nat
  BY CharsAreCells
<1> QED BY <1>1 DEF IsText

LEMMA BaseIs ==
  ASSUME NEW type, type \in {NoType, "d", "x", "b", "o"}
  PROVE  Base(type) \in Bases
BY DEF Base, Bases, NoType

LEMMA MagnitudeIs ==
  ASSUME NEW value \in Int
  PROVE  Magnitude(value) \in Nat
BY DEF Magnitude

\* What there is to know of a number that is written.
IsValue(value, spec) == value \in Int /\ spec.type \in {NoType, "d", "x", "b", "o"}

DigitsIn(value, spec) == Digits(Magnitude(value), Base(spec.type))

LEMMA DigitsInIs ==
  ASSUME CharsAreThere, NEW value, NEW spec, IsValue(value, spec)
  PROVE  DigitsIn(value, spec) \in Seq(Char)
<1>1. Base(spec.type) \in Bases /\ Magnitude(value) \in Nat
  BY BaseIs, MagnitudeIs DEF IsValue
<1> QED BY <1>1, DigitsAre DEF DigitsIn

LEMMA IntIsPut ==
  ASSUME NEW b, NEW value, NEW spec, NEW digits, digits = DigitsIn(value, spec),
         NEW p, p = prepare_int_buffer(b, Len(digits), spec, Prefix(value, spec)), p.end \in Nat
  PROVE  write_int(b, value, spec) = Put(p.b, p.end - Len(digits), digits)
<1>1. p.end # Nowhere
  BY DEF Nowhere
<1> QED BY <1>1 DEF write_int, DigitsIn

LEMMA IntWrites ==
  ASSUME CharsAreThere, NEW b, IsBuffer(b), NEW spec, IsSpec(spec), NEW value, IsValue(value, spec),
         NEW digits, digits = DigitsIn(value, spec),
         spec.precision \in Int, spec.precision <= Len(digits)
  PROVE  Writes(b, write_int(b, value, spec),
                Aligned(spec, Or(spec, "right"), Prefix(value, spec), digits))
<1>1. PICK n \in Nat : n = Len(digits) /\ IsText(digits, n)
  BY DigitsInIs, CharText
<1>2. PICK prefix, k : k \in Nat /\ prefix = Prefix(value, spec) /\ IsText(prefix, k)
  <2>1. Prefix(value, spec) \in Seq(Char)
    BY PrefixText DEF IsValue
  <2> QED BY <2>1, CharText
<1>3. PICK p : p = prepare_int_buffer(b, n, spec, prefix)
  OBVIOUS
<1>4. spec.width \in Nat /\ spec.fill \in Cell /\ spec.align \in Align /\ spec.precision <= n
  BY <1>1 DEF IsSpec, Cell
<1>5. /\ Writes(b, Put(p.b, p.end - n, digits), Aligned(spec, Or(spec, "right"), prefix, digits))
      /\ p.end \in Nat
  BY <1>1, <1>2, <1>3, <1>4, ShortPrecisionWrites
<1>6. write_int(b, value, spec) = Put(p.b, p.end - n, digits)
  <2>1. p = prepare_int_buffer(b, Len(digits), spec, Prefix(value, spec))
    BY <1>1, <1>2, <1>3
  <2>2. write_int(b, value, spec) = Put(p.b, p.end - Len(digits), digits)
    BY <1>5, <2>1, IntIsPut
  <2> QED BY <1>1, <2>2
<1> QED BY <1>2, <1>5, <1>6, Zenon

\* The alignment does not depend on what is shown.
LEMMA AlignedAs ==
  ASSUME NEW spec, NEW sub, sub.width = spec.width, sub.fill = spec.fill,
         NEW align, NEW prefix, NEW body
  PROVE  Aligned(sub, align, prefix, body) = Aligned(spec, align, prefix, body)
BY Zenon DEF Aligned

LEMMA ShownIs ==
  ASSUME NEW spec, IsSpec(spec), NEW sub, sub = Shown(spec)
  PROVE  /\ IsSpec(sub) /\ sub.width = spec.width /\ sub.fill = spec.fill /\ sub.align = spec.align
         /\ sub.precision = spec.precision /\ sub.type = "x" /\ sub.flags = {"hash"}
BY DEF Shown, IsSpec

\* The zeros before the digits of a pointer.
ZerosFor(spec, digits) == Repeat("0", Max({0, spec.precision - Len(digits)}))

LEMMA ZerosAre ==
  ASSUME NEW spec, spec.precision \in Int, NEW digits, NEW n, IsText(digits, n), "0" \in Cell
  PROVE  /\ spec.precision <= n => ZerosFor(spec, digits) = <<>>
         /\ ~(spec.precision <= n) =>
              \E z \in Nat : /\ z > 0 /\ spec.precision = n + z
                             /\ ZerosFor(spec, digits) = Repeat("0", z) /\ ZerosFor(spec, digits) # <<>>
<1>1. n \in Nat /\ n = Len(digits)
  BY DEF IsText
<1>2. PICK d \in Int : d = spec.precision - n
  BY <1>1
<1>3. Max({0, d}) = IF 0 >= d THEN 0 ELSE d
  BY MaxIs
<1>4. ZerosFor(spec, digits) = Repeat("0", Max({0, d}))
  BY <1>1, <1>2 DEF ZerosFor
<1>5. CASE spec.precision <= n
  <2>1. 0 >= d
    BY <1>1, <1>2, <1>5
  <2> QED BY <1>3, <1>4, <1>5, <2>1, NoPadding
<1>6. CASE ~(spec.precision <= n)
  <2>1. PICK z \in Nat : z = d /\ z > 0 /\ spec.precision = n + z /\ ~(0 >= d)
    BY <1>1, <1>2, <1>6
  <2>2. ZerosFor(spec, digits) = Repeat("0", z)
    BY <1>3, <1>4, <2>1
  <2>3. Repeat("0", z) # <<>>
    <3>1. IsText(Repeat("0", z), z)
      BY RepeatText
    <3> QED BY <2>1, <3>1, NoChars, LengthIsOne
  <2> QED BY <1>6, <2>1, <2>2, <2>3
<1> QED BY <1>5, <1>6

\* A pointer comes out whole, with zeros for its precision, but where it is
\* padded at the end of the buffer.
LEMMA PointerWrites ==
  ASSUME CharsAreThere, NEW b, IsBuffer(b), NEW spec, IsSpec(spec), spec.precision \in Int,
         NEW value \in Int, NEW digits, digits = DigitsIn(value, Shown(spec)),
         NEW zeros, zeros = ZerosFor(spec, digits),
         ~(zeros # <<>> /\ spec.align = "left" /\ b.size + spec.width > InlineSize)
  PROVE  Writes(b, write_int(b, value, Shown(spec)),
                Aligned(spec, IF zeros # <<>> /\ spec.align # "left" THEN "right" ELSE Or(spec, "right"),
                        Prefix(value, Shown(spec)), zeros \o digits))
<1>1. PICK sub : sub = Shown(spec)
  OBVIOUS
<1>2. /\ IsSpec(sub) /\ sub.width = spec.width /\ sub.fill = spec.fill /\ sub.align = spec.align
      /\ sub.precision = spec.precision /\ sub.type = "x" /\ IsValue(value, sub)
  BY <1>1, ShownIs DEF IsValue
<1>3. digits \in Seq(Char)
  BY <1>1, <1>2, DigitsInIs
<1>4. PICK n \in Nat : n = Len(digits) /\ IsText(digits, n)
  BY <1>3, CharText
<1>5. PICK prefix, k : k \in Nat /\ prefix = Prefix(value, sub) /\ IsText(prefix, k) /\ Last(prefix) # "0"
  <2>1. Prefix(value, sub) \in Seq(Char)
    BY PrefixText
  <2>2. Last(Prefix(value, sub)) = "x"
    <3>1. {"flags", "type"} \subseteq DOMAIN spec
      BY DEF IsSpec
    <3> QED BY <1>1, <3>1, ShownPrefix
  <2> QED BY <2>1, <2>2, CharText
<1>6. "0" \in Cell
  <2>1. \A d \in 1..16 : Digit[d] \in Char
    BY DEF CharsAreThere
  <2>2. Digit[1] = "0" /\ 1 \in 1..16
    BY DEF Digit
  <2>3. Digit[1] \in Char
    BY <2>1, <2>2, Zenon
  <2> QED BY <2>2, <2>3 DEF Cell
<1>7. CASE spec.precision <= n
  <2>1. Writes(b, write_int(b, value, sub), Aligned(sub, Or(sub, "right"), prefix, digits))
    BY <1>1, <1>2, <1>4, <1>5, <1>7, IntWrites
  <2>2. zeros = <<>>
    BY <1>4, <1>6, <1>7, ZerosAre
  <2>3. zeros \o digits = digits
    BY <1>3, <2>2, ConcatEmptySeq
  <2>4. Or(sub, "right") = Or(spec, "right")
    BY <1>2 DEF Or
  <2>5. Aligned(sub, Or(spec, "right"), prefix, digits) = Aligned(spec, Or(spec, "right"), prefix, digits)
    BY <1>2, AlignedAs
  <2> QED BY <1>1, <1>5, <2>1, <2>2, <2>3, <2>4, <2>5, Zenon
<1>8. CASE ~(spec.precision <= n)
  <2>1. PICK z \in Nat : z > 0 /\ spec.precision = n + z /\ zeros = Repeat("0", z) /\ zeros # <<>>
    BY <1>4, <1>6, <1>8, ZerosAre
  <2>2. PICK align : align = IF sub.align = "left" THEN "left" ELSE "right"
    OBVIOUS
  <2>3. PICK p : p = prepare_int_buffer(b, n, sub, prefix)
    OBVIOUS
  <2>4. PICK room \in Nat : room = capacity(b) /\ (sub.align = "left" => b.size + sub.width <= room)
    <3>1. capacity(b) \in Nat /\ InlineSize <= capacity(b) /\ b.size \in Nat
      BY DEF capacity, IsBuffer
    <3>2. sub.width \in Nat /\ InlineSize \in Nat
      BY <1>2, InlineSizeAssumption DEF IsSpec
    <3>3. sub.align = "left" => ~(b.size + sub.width > InlineSize)
      BY <1>2, <2>1
    <3> QED BY <3>1, <3>2, <3>3
  <2>5. sub.width \in Nat /\ sub.fill \in Cell /\ {"width", "fill", "align"} \subseteq DOMAIN sub
    BY <1>2 DEF IsSpec, Cell
  <2>6. sub.precision = n + z
    BY <1>2, <2>1
  <2>7. /\ Writes(b, Put(p.b, p.end - n, digits), Aligned(sub, align, prefix, Repeat("0", z) \odot digits))
        /\ p.end \in Nat
    BY <1>4, <1>5, <1>6, <2>1, <2>2, <2>3, <2>4, <2>5, <2>6, LongPrecisionWrites
  <2>8. write_int(b, value, sub) = Put(p.b, p.end - n, digits)
    <3>1. p = prepare_int_buffer(b, Len(digits), sub, Prefix(value, sub)) /\ digits = DigitsIn(value, sub)
      BY <1>1, <1>4, <1>5, <2>3
    <3>2. write_int(b, value, sub) = Put(p.b, p.end - Len(digits), digits)
      BY <2>7, <3>1, IntIsPut
    <3> QED BY <1>4, <3>2
  <2>9. Repeat("0", z) \odot digits = zeros \o digits
    BY <2>1, Zenon DEF \odot
  <2>10. Aligned(sub, align, prefix, zeros \o digits) = Aligned(spec, align, prefix, zeros \o digits)
    BY <1>2, AlignedAs
  <2>11. align = IF zeros # <<>> /\ spec.align # "left" THEN "right" ELSE Or(spec, "right")
    BY <1>2, <2>1, <2>2 DEF Or
  <2> QED BY <1>1, <1>5, <2>7, <2>8, <2>9, <2>10, <2>11, Zenon
<1> QED BY <1>7, <1>8

-----------------------------------------------------------------------------
(***************************************************************************)
(* Doubles.  They are put into memory that does not count as text until    *)
(* all is done.                                                            *)
(***************************************************************************)
\* c is b with memory for m more characters.
Ahead(b, c, m) ==
  /\ IsBuffer(c) /\ c.size = b.size /\ Has(c, 0, Text(b))
  /\ b.size + m <= Len(c.ptr) /\ Len(b.ptr) <= Len(c.ptr)

LEMMA AheadOfNothing ==
  ASSUME NEW b, IsBuffer(b)
  PROVE  Ahead(b, b, 0)
<1>1. b.size \in Nat /\ b.size <= Len(b.ptr) /\ Len(b.ptr) \in Nat
  BY DEF IsBuffer
<1>2. Has(b, 0, Text(b))
  BY HoldsItsText
<1> QED BY <1>1, <1>2 DEF Ahead

LEMMA ReserveAhead ==
  ASSUME NEW b, IsBuffer(b), NEW c, NEW j, Ahead(b, c, j), NEW m \in Nat
  PROVE  Ahead(b, reserve(c, b.size + m), m)
<1>1. IsBuffer(c) /\ c.size = b.size /\ Has(c, 0, Text(b)) /\ Len(b.ptr) <= Len(c.ptr)
  BY DEF Ahead
<1>2. /\ Text(b) \in Seq(Cell) /\ Len(Text(b)) = b.size /\ b.size \in Nat
      /\ Len(b.ptr) \in Nat /\ Len(c.ptr) \in Nat
  BY <1>1, TextOfBuffer DEF IsBuffer
<1>3. PICK r : r = reserve(c, b.size + m)
  OBVIOUS
<1>4. IsBuffer(r) /\ r.size = c.size /\ b.size + m <= Len(r.ptr) /\ Len(c.ptr) <= Len(r.ptr)
  BY <1>1, <1>2, <1>3, ReserveIs
<1>5. Has(r, 0, Text(b))
  <2>1. 0 + Len(Text(b)) <= c.size
    BY <1>1, <1>2
  <2> QED BY <1>1, <1>2, <1>3, <2>1, ReserveKeeps
<1>6. Len(r.ptr) \in Nat
  BY <1>4 DEF IsBuffer
<1> QED BY <1>1, <1>2, <1>3, <1>4, <1>5, <1>6 DEF Ahead

\* Putting something there.
LEMMA PutAhead ==
  ASSUME NEW b, IsBuffer(b), NEW start \in Nat, start = b.size, NEW c, NEW m \in Nat, Ahead(b, c, m),
         NEW y \in Nat, NEW t, NEW l, IsText(t, l), start <= y, y + l <= start + m
  PROVE  Ahead(b, Put(c, y, t), m) /\ Has(Put(c, y, t), y, t)
<1>1. /\ IsBuffer(c) /\ c.size = start /\ Has(c, 0, Text(b)) /\ start + m <= Len(c.ptr)
      /\ Len(b.ptr) <= Len(c.ptr) /\ Len(c.ptr) \in Nat
  BY DEF Ahead, IsBuffer
<1>2. t \in Seq(Cell) /\ l = Len(t) /\ l \in Nat /\ y + Len(t) <= Len(c.ptr)
  BY <1>1 DEF IsText
<1>3. PICK d : d = Put(c, y, t)
  OBVIOUS
<1>4. IsBuffer(d) /\ d.size = start /\ Len(d.ptr) = Len(c.ptr)
  BY <1>1, <1>2, <1>3, PutIs
<1>5. Has(d, y, t)
  BY <1>1, <1>2, <1>3, PutHolds
<1>6. Has(d, 0, Text(b))
  <2>1. Text(b) \in Seq(Cell) /\ Len(Text(b)) = start
    BY TextOfBuffer
  <2>2. 0 + Len(Text(b)) <= y /\ 0 \in Nat
    BY <2>1
  <2> QED BY <1>1, <1>2, <1>3, <2>1, <2>2, PutKeeps
<1> QED BY <1>1, <1>3, <1>4, <1>5, <1>6 DEF Ahead

LEMMA AheadKeeps ==
  ASSUME NEW b, NEW c, NEW m, Ahead(b, c, m), NEW x \in Nat, NEW s, NEW k, IsText(s, k), Has(c, x, s),
         NEW y \in Nat, NEW t, NEW l, IsText(t, l), x + k <= y \/ y + l <= x
  PROVE  Has(Put(c, y, t), x, s)
<1>1. IsBuffer(c)
  BY DEF Ahead
<1>2. /\ x + Len(s) <= y \/ y + Len(t) <= x
      /\ s \in Seq(Cell) /\ t \in Seq(Cell)
  BY DEF IsText
<1> QED BY <1>1, <1>2, PutKeeps

\* What is there is counted at last.
LEMMA AheadCounts ==
  ASSUME NEW b, IsBuffer(b), NEW c, NEW m \in Nat, Ahead(b, c, m), NEW t, IsText(t, m),
         Has(c, b.size, t)
  PROVE  Writes(b, grow_buffer(c, m), t)
<1>1. /\ IsBuffer(c) /\ c.size = b.size /\ Has(c, 0, Text(b)) /\ c.size + m <= Len(c.ptr)
      /\ b.size \in Nat
  BY DEF Ahead, IsBuffer
<1>2. PICK g : g = grow_buffer(c, m)
  OBVIOUS
<1>3. IsBuffer(g) /\ g.size = b.size + m
  BY <1>1, <1>2, GrowBufferIs
<1>4. t \in Seq(Cell) /\ Len(t) = m /\ Text(b) \in Seq(Cell)
  BY TextOfBuffer DEF IsText
<1>5. Has(g, 0, Text(b)) /\ Has(g, b.size, t)
  BY <1>1, <1>2, <1>4, GrowBufferKeeps
<1> QED BY <1>2, <1>3, <1>4, <1>5 DEF Writes

-----------------------------------------------------------------------------
Blank == " "

\* The steps of write_double.
Reserved(b, sign, spec) ==
  IF sign = <<>> THEN b ELSE reserve(b, b.size + Max({spec.width, 1}))

WithText(b, sign, spec, made) ==
  Put(reserve(Reserved(b, sign, spec), b.size + Len(sign) + Len(made) + 1), b.size + Len(sign), made)

BlanksOf(made) == Cardinality({i \in DOMAIN made : \A j \in 1..i : made[j] = Blank})

SignNow(spec, blanks) == spec.align \notin {"right", "default"} \/ blanks = 0

WithSign(c, b, sign, spec, now) ==
  IF sign = <<>> THEN c ELSE Put(c, (b.size + Len(sign)) - 1, IF now THEN sign ELSE <<spec.fill>>)

WithFill(c, b, sign, spec, now, blanks) ==
  IF spec.fill = Blank /\ (sign = <<>> \/ now) THEN c
  ELSE Put(c, b.size + Len(sign), Repeat(spec.fill, blanks))

SignLast(c, b, sign, now, blanks) ==
  IF sign = <<>> \/ now THEN c ELSE Put(c, b.size + Len(sign) + blanks - 1, sign)

Centred(c, b, spec, n) ==
  fill_padding(Put(grow_buffer(c, spec.width), b.size + (spec.width - n) \div 2,
                   SubSeq(grow_buffer(c, spec.width).ptr, b.size + 1, b.size + n)),
               b.size, spec.width, n, spec.fill)

SignOf(number, spec) == Sign(number.negative, spec.flags)

PrintedOf(number, spec) ==
  Printed(number.text, Max({0, spec.width - Len(SignOf(number, spec))}), spec.align)

NowOf(number, spec) == SignNow(spec, BlanksOf(PrintedOf(number, spec)))

\* What is there before the blanks are replaced, and after.
Printing(b, number, spec) ==
  WithSign(WithText(b, SignOf(number, spec), spec, PrintedOf(number, spec)), b,
           SignOf(number, spec), spec, NowOf(number, spec))

Replacing(b, number, spec) ==
  SignLast(WithFill(Printing(b, number, spec), b, SignOf(number, spec), spec, NowOf(number, spec),
                    BlanksOf(PrintedOf(number, spec))),
           b, SignOf(number, spec), NowOf(number, spec), BlanksOf(PrintedOf(number, spec)))

LEMMA DoubleIs ==
  ASSUME NEW b, NEW number, ~number.special, NEW spec,
         NEW n, n = Len(PrintedOf(number, spec)) + Len(SignOf(number, spec))
  PROVE  write_double(b, number, spec) =
           IF spec.align = "center" /\ spec.width > n THEN Centred(Printing(b, number, spec), b, spec, n)
           ELSE grow_buffer(Replacing(b, number, spec), n)
BY Zenon DEF write_double, Printing, Replacing, NowOf, PrintedOf, SignOf,
             Reserved, WithText, BlanksOf, SignNow, WithSign, WithFill, SignLast, Centred, Blank

\* A double without its sign, which snprintf does not begin with a blank.
IsDouble(number) ==
  /\ number.negative \in BOOLEAN /\ number.text \in Seq(Char)
  /\ number.text # <<>> /\ number.text[1] # Blank

LEMMA PrintedIs ==
  ASSUME NEW text, NEW l, IsText(text, l), NEW width \in Nat, NEW q, q = Padding(width, l), NEW align
  PROVE  /\ q \in Nat
         /\ align = "center" => Printed(text, width, align) = text
         /\ align = "left" => Printed(text, width, align) = text \odot Repeat(Blank, q)
         /\ align \notin {"center", "left"} => Printed(text, width, align) = Repeat(Blank, q) \odot text
<1>1. l \in Nat /\ l = Len(text)
  BY DEF IsText
<1>2. PICK d \in Int : d = width - l
  BY <1>1
<1>3. Max({0, d}) = IF 0 >= d THEN 0 ELSE d
  BY MaxIs
<1>4. q = Max({0, d}) /\ q \in Nat
  BY <1>1, <1>2, <1>3 DEF Padding
<1>5. PICK blanks : blanks = Repeat(Blank, q)
  OBVIOUS
<1>6. blanks = Repeat(Blank, Max({0, width - Len(text)}))
  BY <1>1, <1>2, <1>4, <1>5
<1>7. /\ align = "center" => Printed(text, width, align) = text
      /\ align = "left" => Printed(text, width, align) = text \o blanks
      /\ align \notin {"center", "left"} => Printed(text, width, align) = blanks \o text
  BY <1>5, <1>6, Zenon DEF Printed, Blank
<1> QED BY <1>4, <1>5, <1>7, Zenon DEF \odot

\* f begins with c, so many times and no more.
Leads(f, n, p, c) ==
  p + 1 <= n /\ DOMAIN f = 1..n /\ (\A i \in 1..p : f[i] = c) /\ f[p + 1] # c

Leading(f, c) == Cardinality({i \in DOMAIN f : \A j \in 1..i : f[j] = c})

LEMMA LeadingAre ==
  ASSUME NEW n \in Nat, NEW p \in Nat, NEW f, NEW c, Leads(f, n, p, c)
  PROVE  Leading(f, c) = p
<1>1. p + 1 <= n /\ DOMAIN f = 1..n /\ (\A i \in 1..p : f[i] = c) /\ f[p + 1] # c
  BY DEF Leads
<1>2. ASSUME NEW i \in 1..n, \A j \in 1..i : f[j] = c
      PROVE  i \in 1..p
  <2>1. CASE i > p
    <3>1. p + 1 \in 1..i
      BY <2>1
    <3> QED BY <1>2, <1>1, <3>1
  <2> QED BY <2>1
<1>3. ASSUME NEW i \in 1..p
      PROVE  i \in 1..n /\ \A j \in 1..i : f[j] = c
  <2>1. i \in 1..n /\ \A j \in 1..i : j \in 1..p
    BY <1>1
  <2> QED BY <1>1, <2>1
<1>4. {i \in DOMAIN f : \A j \in 1..i : f[j] = c} = 1..p
  BY <1>2, <1>3, <1>1
<1>5. Cardinality(1..p) = p
  BY FS_Interval
<1> QED BY <1>4, <1>5 DEF Leading

\* u is s, and then the beginning of t.
Begins(u, s, p, t) == (\A i \in 1..p : u[i] = s[i]) /\ u[p + 1] = t[1]

LEMMA FrontOfJoined ==
  ASSUME NEW s, NEW p \in Nat, IsText(s, p), NEW t, NEW l \in Nat, IsText(t, l), l > 0
  PROVE  Begins(s \o t, s, p, t)
<1>1. s \in Seq(Cell) /\ t \in Seq(Cell) /\ p \in Nat /\ l \in Nat /\ Len(s) = p /\ Len(t) = l
  BY DEF IsText
<1>2. \A i \in 1..Len(s) + Len(t) : (s \o t)[i] = IF i <= Len(s) THEN s[i] ELSE t[i - Len(s)]
  BY <1>1, ConcatProperties
<1>3. PICK u : u = s \o t
  OBVIOUS
<1>4. \A i \in 1..(p + l) : u[i] = IF i <= p THEN s[i] ELSE t[i - p]
  BY <1>1, <1>2, <1>3
<1>5. p + 1 \in 1..(p + l) /\ ~(p + 1 <= p) /\ (p + 1) - p = 1
  BY <1>1
<1>6. \A i \in 1..p : i \in 1..(p + l) /\ i <= p
  BY <1>1
<1>7. \A i \in 1..p : u[i] = s[i]
  BY <1>4, <1>6, Zenon
<1>8. u[p + 1] = t[1]
  <2>1. PICK i : i = p + 1
    OBVIOUS
  <2>2. u[i] = IF i <= p THEN s[i] ELSE t[i - p]
    BY <1>4, <1>5, <2>1, Zenon
  <2> QED BY <1>5, <2>1, <2>2, Zenon
<1> QED BY <1>3, <1>7, <1>8, Zenon DEF Begins

LEMMA AddOne ==
  ASSUME NEW p \in Nat, NEW l \in Nat, l > 0
  PROVE  p + l \in Nat /\ p + 1 <= p + l
OBVIOUS

LEMMA BlanksAre ==
  ASSUME Blank \in Cell, NEW p \in Nat, NEW t, NEW l \in Nat, IsText(t, l), l > 0, t[1] # Blank,
         NEW made, made = Repeat(Blank, p) \odot t
  PROVE  BlanksOf(made) = p /\ IsText(made, p + l)
<1>1. PICK c : c = Blank /\ c \in Cell
  OBVIOUS
<1>2. PICK s : s = Repeat(c, p) /\ IsText(s, p) /\ \A i \in 1..p : s[i] = c
  <2>1. IsText(Repeat(c, p), p)
    BY <1>1, RepeatText, Zenon
  <2>2. \A i \in 1..p : Repeat(c, p)[i] = c
    BY <1>1, RepeatIs, Zenon
  <2> QED BY <2>1, <2>2, Zenon
<1>3. IsText(made, p + l)
  BY <1>1, <1>2, JoinText
<1>4. made = s \o t
  BY <1>1, <1>2, Zenon DEF \odot
<1>5. /\ \A i \in 1..p : made[i] = c
      /\ made[p + 1] = t[1]
  <2>1. Begins(s \o t, s, p, t)
    BY <1>2, FrontOfJoined, Zenon
  <2> QED BY <1>2, <1>4, <2>1, Zenon DEF Begins
<1>6. PICK n \in Nat : n = p + l /\ p + 1 <= n
  <2>1. p + l \in Nat /\ p + 1 <= p + l
    BY AddOne, Zenon
  <2> QED BY <2>1, Zenon
<1>7. DOMAIN made = 1..n
  <2>1. made \in Seq(Cell) /\ Len(made) = n
    BY <1>3, <1>6, Zenon DEF IsText
  <2>2. DOMAIN made = 1..Len(made)
    BY <2>1, LenProperties, Zenon
  <2> QED BY <2>1, <2>2, Zenon
<1>8. made[p + 1] # c
  BY <1>1, <1>5
<1>9. Leads(made, n, p, c)
  BY <1>5, <1>6, <1>7, <1>8, Zenon DEF Leads
<1>10. Leading(made, c) = p
  BY <1>9, LeadingAre, Zenon
<1> QED BY <1>1, <1>3, <1>10, Zenon DEF BlanksOf, Leading

LEMMA FirstStays ==
  ASSUME NEW text, NEW k, IsText(text, k), k > 0, NEW u, NEW l, IsText(u, l)
  PROVE  (text \odot u)[1] = text[1]
<1>1. PICK s : s = text
  OBVIOUS
<1>2. /\ s \in Seq(Cell) /\ u \in Seq(Cell) /\ Len(s) = k /\ k \in Nat /\ l \in Nat /\ Len(u) = l
  BY <1>1 DEF IsText
<1>3. \A i \in 1..Len(s) + Len(u) : (s \o u)[i] = IF i <= Len(s) THEN s[i] ELSE u[i - Len(s)]
  BY <1>2, ConcatProperties
<1>4. 1 \in 1..Len(s) + Len(u) /\ 1 <= Len(s)
  BY <1>2
<1>5. (s \o u)[1] = s[1]
  BY <1>3, <1>4, Zenon
<1> QED BY <1>1, <1>5, Zenon DEF \odot

-----------------------------------------------------------------------------
LEMMA AheadLess ==
  ASSUME NEW b, IsBuffer(b), NEW c, NEW j \in Nat, Ahead(b, c, j), NEW m \in Nat, m <= j
  PROVE  Ahead(b, c, m)
<1>1. b.size \in Nat /\ Len(c.ptr) \in Nat
  BY DEF Ahead, IsBuffer
<1> QED BY <1>1 DEF Ahead

LEMMA TextPrinted ==
  ASSUME NEW b, IsBuffer(b), NEW start \in Nat, start = b.size, NEW sign, NEW k \in Nat, IsText(sign, k),
         NEW spec, spec.width \in Nat, NEW made, NEW m \in Nat, IsText(made, m),
         NEW c, c = WithText(b, sign, spec, made)
  PROVE  Ahead(b, c, k + m) /\ Has(c, start + k, made)
<1>1. k \in Nat /\ m \in Nat /\ k = Len(sign) /\ m = Len(made)
  BY DEF IsText
<1>2. PICK r : r = Reserved(b, sign, spec)
  OBVIOUS
<1>3. \E j \in Nat : Ahead(b, r, j)
  <2>1. Ahead(b, b, 0)
    BY AheadOfNothing
  <2>2. Max({spec.width, 1}) \in Nat
    BY MaxIs
  <2>3. Ahead(b, reserve(b, b.size + Max({spec.width, 1})), Max({spec.width, 1}))
    BY <2>1, <2>2, ReserveAhead
  <2> QED BY <1>2, <2>1, <2>2, <2>3 DEF Reserved
<1>4. PICK more \in Nat : more = k + m + 1 /\ k + m <= more /\ k + m \in Nat
  BY <1>1
<1>5. PICK g : g = reserve(r, start + more) /\ Ahead(b, g, more)
  BY <1>3, ReserveAhead
<1>6. b.size + Len(sign) + Len(made) + 1 = start + more /\ b.size + Len(sign) = start + k
  <2>1. start + k + m + 1 = start + more
    BY <1>4
  <2> QED BY <1>1, <2>1, Zenon
<1>7. c = Put(g, start + k, made)
  BY <1>2, <1>5, <1>6, Zenon DEF WithText
<1>8. start + k \in Nat /\ start <= start + k /\ (start + k) + m <= start + more
  BY <1>1, <1>4
<1>9. Ahead(b, c, more) /\ Has(c, start + k, made)
  BY <1>5, <1>7, <1>8, PutAhead
<1> QED BY <1>4, <1>9, AheadLess

LEMMA JoinHolds ==
  ASSUME NEW b, IsBuffer(b), NEW x \in Nat, NEW s, NEW k, IsText(s, k), NEW t, NEW l, IsText(t, l),
         Has(b, x, s), NEW y, y = x + k, Has(b, y, t)
  PROVE  Has(b, x, s \odot t)
<1>1. Has(b, x, s \o t)
  BY JoinedHolds
<1> QED BY <1>1, Zenon DEF \odot

LEMMA SplitHolds ==
  ASSUME NEW b, IsBuffer(b), NEW x \in Nat, NEW s, NEW k, IsText(s, k), NEW t, NEW l, IsText(t, l),
         Has(b, x, s \odot t), NEW y, y = x + k
  PROVE  Has(b, x, s) /\ Has(b, y, t)
<1>1. s \in Seq(Cell) /\ t \in Seq(Cell) /\ k = Len(s)
  BY DEF IsText
<1>2. Has(b, x, s \o t)
  BY Zenon DEF \odot
<1>3. Has(b, x, s) /\ Has(b, x + Len(s), t)
  BY <1>1, <1>2, JoinedIs
<1> QED BY <1>1, <1>3, Zenon

IsSign(sign, k) ==
  IsText(sign, k) /\ (k = 0 \/ k = 1) /\ (k = 0 => sign = <<>>) /\ (k = 1 => sign # <<>>)

LEMMA SignSize ==
  ASSUME CharsAreThere, NEW negative \in BOOLEAN, NEW flags, NEW sign, sign = Sign(negative, flags)
  PROVE  \E k \in Nat : IsSign(sign, k)
<1>1. CASE sign = <<>>
  BY <1>1, NoChars DEF IsSign
<1>2. CASE sign # <<>>
  <2>1. PICK c \in Char : sign = <<c>>
    BY <1>2, SignIs
  <2>2. IsText(sign, 1)
    <3>1. <<c>> \in Seq(Char) /\ Len(<<c>>) = 1
      BY OneChar
    <3>2. <<c>> \in Seq(Cell)
      BY <3>1, CharsAreCells
    <3> QED BY <2>1, <3>1, <3>2 DEF IsText
  <2> QED BY <1>2, <2>2 DEF IsSign
<1> QED BY <1>1, <1>2

\* The sign is there, or the fill for now.
SignedBy(c, start, sign, k, f, now) ==
  /\ k = 0 \/ now => Has(c, start, sign)
  /\ k = 1 /\ ~now => Has(c, start, <<f>>)

LEMMA SignPut ==
  ASSUME NEW b, IsBuffer(b), NEW start \in Nat, start = b.size, NEW k \in Nat,
         NEW sign, IsSign(sign, k),
         NEW spec, spec.fill \in Cell, NEW made, NEW m \in Nat, IsText(made, m),
         NEW c, Ahead(b, c, k + m), Has(c, start + k, made), NEW now,
         NEW d, d = WithSign(c, b, sign, spec, now)
  PROVE  /\ Ahead(b, d, k + m) /\ Has(d, start + k, made)
         /\ SignedBy(d, start, sign, k, spec.fill, now)
<1>1. IsText(sign, k) /\ (k = 0 \/ k = 1) /\ (k = 0 => sign = <<>>) /\ (k = 1 => sign # <<>>)
  BY Zenon DEF IsSign
<1>2. CASE k = 0
  <2>1. d = c /\ start <= c.size /\ IsBuffer(c)
    BY <1>2, <1>1 DEF WithSign, Ahead
  <2>2. Has(d, start, <<>>)
    BY <2>1, HoldsNothing
  <2> QED BY <1>2, <1>1, <2>1, <2>2, Zenon DEF SignedBy
<1>3. CASE k = 1
  <2>1. PICK u : u = (IF now THEN sign ELSE <<spec.fill>>) /\ IsText(u, 1)
    <3>1. IsText(<<spec.fill>>, 1)
      <4>1. \A f \in Cell : <<f>> \in Seq(Cell) /\ Len(<<f>>) = 1
        OBVIOUS
      <4> QED BY <4>1 DEF IsText
    <3> QED BY <1>3, <1>1, <3>1, Zenon
  <2>2. (b.size + Len(sign)) - 1 = start
    <3>1. Len(sign) = 1
      BY <1>3, <1>1 DEF IsText
    <3> QED BY <3>1
  <2>3. d = Put(c, start, u)
    BY <1>3, <1>1, <2>1, <2>2, Zenon DEF WithSign
  <2>4. PICK more \in Nat : more = k + m /\ start + 1 <= start + more /\ start + 1 <= start + k /\ start + k \in Nat
    BY <1>3
  <2>5. Ahead(b, d, more) /\ Has(d, start, u)
    BY <2>1, <2>3, <2>4, PutAhead
  <2>6. Has(d, start + k, made)
    BY <2>1, <2>3, <2>4, AheadKeeps
  <2>7. k # 0
    BY <1>3
  <2> QED BY <1>3, <2>1, <2>4, <2>5, <2>6, <2>7, Zenon DEF SignedBy
<1> QED BY <1>2, <1>3, <1>1

\* Three texts, at their places.
Laid(b, c, m, start, s, x, u, y, t) ==
  Ahead(b, c, m) /\ Has(c, start, s) /\ Has(c, x, u) /\ Has(c, y, t)

\* The blanks are replaced.
LEMMA FillPut ==
  ASSUME NEW b, IsBuffer(b), NEW start \in Nat, start = b.size, NEW k \in Nat, NEW p \in Nat, NEW l \in Nat,
         NEW sign, IsText(sign, k), NEW s, IsText(s, k), NEW t, IsText(t, l),
         NEW spec, spec.fill \in Cell, NEW now, NEW m \in Nat, m = k + p + l,
         NEW x \in Nat, x = start + k, NEW y \in Nat, y = start + k + p,
         NEW c, Laid(b, c, m, start, s, x, Repeat(Blank, p), y, t),
         NEW d, d = WithFill(c, b, sign, spec, now, p)
  PROVE  Laid(b, d, m, start, s, x, Repeat(spec.fill, p), y, t)
<1>1. Ahead(b, c, m) /\ Has(c, start, s) /\ Has(c, x, Repeat(Blank, p)) /\ Has(c, y, t)
  BY Zenon DEF Laid
<1>2. CASE spec.fill = Blank /\ d = c
  BY <1>2, <1>1 DEF Laid
<1>3. CASE d = Put(c, x, Repeat(spec.fill, p))
  <2>1. PICK pad : pad = Repeat(spec.fill, p) /\ IsText(pad, p)
    BY RepeatText
  <2>2. start <= x /\ x + p <= start + m /\ start + k <= x /\ x + p <= y
    OBVIOUS
  <2>3. Ahead(b, d, m) /\ Has(d, x, pad)
    BY <1>3, <1>1, <2>1, <2>2, PutAhead
  <2>4. Has(d, start, s)
    BY <1>3, <1>1, <2>1, <2>2, AheadKeeps
  <2>5. Has(d, y, t)
    BY <1>3, <1>1, <2>1, <2>2, AheadKeeps
  <2> QED BY <2>1, <2>3, <2>4, <2>5 DEF Laid
<1>4. d = Put(c, x, Repeat(spec.fill, p)) \/ (spec.fill = Blank /\ d = c)
  <2>1. Len(sign) = k
    BY DEF IsText
  <2>2. b.size + Len(sign) = x
    BY <2>1
  <2> QED BY <2>2, Zenon DEF WithFill
<1> QED BY <1>2, <1>3, <1>4

\* Two stretches of the fill, one place apart, are one.
LEMMA FillGrows ==
  ASSUME NEW c, IsBuffer(c), NEW start \in Nat, NEW f \in Cell, NEW p \in Nat, p > 0,
         Has(c, start, <<f>>), Has(c, start + 1, Repeat(f, p))
  PROVE  Has(c, start, Repeat(f, p))
<1>1. PICK s : s = Repeat(f, p) /\ Len(s) = p /\ \A i \in 1..p : s[i] = f
  BY RepeatIs
<1>2. PICK q : q = c.ptr /\ Len(q) \in Nat
  BY DEF IsBuffer
<1>3. start + 1 + p <= Len(q) /\ \A i \in 1..p : q[start + 1 + i] = f
  BY <1>1, <1>2 DEF Has
<1>4. q[start + 1] = f
  <2>1. 1 \in 1..Len(<<f>>) /\ <<f>>[1] = f
    OBVIOUS
  <2>2. \A j \in 1..Len(<<f>>) : q[start + j] = <<f>>[j]
    BY <1>2, Zenon DEF Has
  <2> QED BY <2>1, <2>2
<1>5. \A i \in 1..p : q[start + i] = f
  <2> TAKE i \in 1..p
  <2>1. CASE i = 1
    BY <1>4, <2>1
  <2>2. CASE i # 1
    <3>1. i - 1 \in 1..p /\ start + 1 + (i - 1) = start + i
      BY <2>2
    <3>2. q[start + 1 + (i - 1)] = f
      BY <1>3, <3>1, Zenon
    <3> QED BY <3>1, <3>2
  <2> QED BY <2>1, <2>2
<1>6. start + p <= Len(q)
  <2>1. PICK n \in Nat : n = Len(q) /\ start + 1 + p <= n
    BY <1>2, <1>3
  <2> QED BY <2>1
<1> QED BY <1>1, <1>2, <1>5, <1>6, Zenon DEF Has

\* The sign after the padding.
LEMMA SignPutLast ==
  ASSUME NEW b, IsBuffer(b), NEW start \in Nat, start = b.size, NEW p \in Nat, p > 0, NEW l \in Nat,
         NEW sign, IsText(sign, 1), sign # <<>>, NEW t, IsText(t, l), NEW f \in Cell,
         NEW m \in Nat, m = 1 + p + l, NEW c, Ahead(b, c, m), Has(c, start, <<f>>),
         Has(c, start + 1, Repeat(f, p)), NEW y \in Nat, y = start + 1 + p, Has(c, y, t),
         NEW now, ~now, NEW d, d = SignLast(c, b, sign, now, p)
  PROVE  Ahead(b, d, m) /\ Has(d, start, Repeat(f, p) \odot sign \odot t)
<1>1. PICK pad : pad = Repeat(f, p) /\ IsText(pad, p)
  BY RepeatText
<1>2. Has(c, start, pad)
  <2>1. IsBuffer(c)
    BY DEF Ahead
  <2> QED BY <1>1, <2>1, FillGrows
<1>3. PICK x \in Nat : x = start + p /\ x + 1 <= start + m /\ start <= x /\ x + 1 = y /\ start + p <= x
  <2>1. PICK x \in Nat : x = start + p
    OBVIOUS
  <2> QED BY <2>1
<1>4. b.size + Len(sign) + p - 1 = x
  <2>1. Len(sign) = 1
    BY DEF IsText
  <2> QED BY <1>3, <2>1
<1>5. d = Put(c, x, sign)
  BY <1>4, Zenon DEF SignLast
<1>6. Ahead(b, d, m) /\ Has(d, x, sign)
  BY <1>3, <1>5, PutAhead, SMTT(30)
<1>7. Has(d, start, pad)
  BY <1>1, <1>2, <1>3, <1>5, AheadKeeps
<1>8. Has(d, y, t)
  <2>1. x + 1 <= y
    BY <1>3
  <2> QED BY <1>3, <1>5, <2>1, AheadKeeps
<1>9. IsBuffer(d)
  BY <1>6 DEF Ahead
<1>10. Has(d, start, pad \odot sign) /\ IsText(pad \odot sign, p + 1)
  BY <1>1, <1>3, <1>6, <1>7, <1>9, JoinHolds, JoinText
<1>11. y = start + (p + 1)
  OBVIOUS
<1>12. Has(d, start, pad \odot sign \odot t)
  BY <1>8, <1>9, <1>10, <1>11, JoinHolds
<1> QED BY <1>1, <1>6, <1>12

-----------------------------------------------------------------------------
\* What snprintf makes of a number: p blanks, and what they are before.
IsPrinting(number, spec, sign, k, t, l, p) ==
  /\ k \in Nat /\ l \in Nat /\ p \in Nat /\ l > 0
  /\ sign = SignOf(number, spec) /\ IsSign(sign, k)
  /\ IsText(t, l) /\ PrintedOf(number, spec) = Repeat(Blank, p) \odot t
  /\ IsText(PrintedOf(number, spec), p + l) /\ BlanksOf(PrintedOf(number, spec)) = p

LEMMA BlankIs ==
  ASSUME CharsAreThere
  PROVE  Blank \in Char /\ Blank \in Cell
BY Zenon DEF CharsAreThere, Blank, Cell

LEMMA LessForTheSign ==
  ASSUME NEW width \in Nat, NEW k \in Nat, NEW l \in Nat, l > 0
  PROVE  Max({0, width - k}) \in Nat /\ Padding(Max({0, width - k}), l) = Padding(width, k + l)
<1>1. PICK d \in Int : d = width - k
  OBVIOUS
<1>2. PICK w \in Nat : w = Max({0, d}) /\ w = IF 0 >= d THEN 0 ELSE d
  BY MaxIs
<1>3. Padding(w, l) = Padding(width, k + l)
  BY <1>1, <1>2 DEF Padding
<1> QED BY <1>1, <1>2, <1>3

LEMMA PrintedAs ==
  ASSUME CharsAreThere, NEW spec, spec.width \in Nat, NEW number, IsDouble(number),
         NEW sign, sign = SignOf(number, spec), NEW k \in Nat, IsSign(sign, k),
         NEW l \in Nat, IsText(number.text, l), NEW q, q = Padding(spec.width, k + l)
  PROVE  /\ q \in Nat
         /\ spec.align = "center" => IsPrinting(number, spec, sign, k, number.text, l, 0)
         /\ spec.align = "left" => IsPrinting(number, spec, sign, k, number.text \odot Repeat(Blank, q), l + q, 0)
         /\ spec.align \notin {"center", "left"} => IsPrinting(number, spec, sign, k, number.text, l, q)
<1>1. PICK text : text = number.text /\ IsText(text, l)
  OBVIOUS
<1>2. l > 0 /\ text[1] # Blank
  <2>1. text # <<>> /\ text[1] # Blank
    BY <1>1, Zenon DEF IsDouble, Blank
  <2>2. text \in Seq(Cell) /\ Len(text) = l
    BY <1>1 DEF IsText
  <2> QED BY <2>1, <2>2, EmptySeq
<1>3. Blank \in Cell
  BY BlankIs
<1>4. PICK width \in Nat : width = Max({0, spec.width - k}) /\ q = Padding(width, l)
  BY <1>2, LessForTheSign
<1>5. PICK made : made = PrintedOf(number, spec) /\ made = Printed(text, width, spec.align)
  <2>1. Len(sign) = k
    BY DEF IsText, IsSign
  <2> QED BY <1>1, <1>4, <2>1, Zenon DEF PrintedOf
<1>6. PICK pad : pad = Repeat(Blank, q) /\ IsText(pad, q) /\ q \in Nat
  <2>1. q \in Nat
    BY <1>1, <1>4, PrintedIs
  <2> QED BY <1>3, <2>1, RepeatText
<1>7. /\ spec.align = "center" => made = text
      /\ spec.align = "left" => made = text \odot pad
      /\ spec.align \notin {"center", "left"} => made = pad \odot text
  BY <1>1, <1>4, <1>5, <1>6, PrintedIs
<1>8. PICK tail : tail = text \odot pad /\ IsText(tail, l + q) /\ l + q \in Nat /\ l + q > 0 /\ tail[1] # Blank
  <2>1. IsText(text \odot pad, l + q)
    BY <1>1, <1>6, JoinText
  <2>2. (text \odot pad)[1] = text[1]
    BY <1>1, <1>2, <1>6, FirstStays
  <2>3. l + q \in Nat /\ l + q > 0
    BY <1>2, <1>6
  <2> QED BY <1>2, <2>1, <2>2, <2>3, Zenon
<1>9. PICK none : none = Repeat(Blank, 0) /\ none = <<>>
  BY NoPadding
<1>10. none \odot text = text /\ none \odot tail = tail
  BY <1>1, <1>8, <1>9, TextIs, NothingAround
<1>11. CASE spec.align = "center"
  <2>1. made = Repeat(Blank, 0) \odot text
    BY <1>7, <1>9, <1>10, <1>11, Zenon
  <2>2. BlanksOf(made) = 0 /\ IsText(made, 0 + l)
    BY <1>1, <1>2, <1>3, <2>1, BlanksAre
  <2> QED BY <1>1, <1>2, <1>5, <1>6, <1>11, <2>1, <2>2 DEF IsPrinting
<1>12. CASE spec.align = "left"
  <2>1. made = Repeat(Blank, 0) \odot tail
    BY <1>7, <1>8, <1>9, <1>10, <1>12, Zenon
  <2>2. BlanksOf(made) = 0 /\ IsText(made, 0 + (l + q))
    BY <1>3, <1>8, <2>1, BlanksAre
  <2>3. IsPrinting(number, spec, sign, k, tail, l + q, 0)
    BY <1>5, <1>8, <2>1, <2>2 DEF IsPrinting
  <2> QED BY <1>1, <1>6, <1>8, <1>12, <2>3
<1>13. CASE spec.align \notin {"center", "left"}
  <2>1. made = Repeat(Blank, q) \odot text
    BY <1>6, <1>7, <1>13, Zenon
  <2>2. BlanksOf(made) = q /\ IsText(made, q + l)
    BY <1>1, <1>2, <1>3, <1>6, <2>1, BlanksAre
  <2> QED BY <1>1, <1>2, <1>5, <1>6, <1>13, <2>1, <2>2 DEF IsPrinting
<1> QED BY <1>11, <1>12, <1>13

\* The memory when the number has been printed and its sign was put before it.
LEMMA PrintingIs ==
  ASSUME CharsAreThere, NEW b, IsBuffer(b), NEW start \in Nat, start = b.size,
         NEW spec, spec.width \in Nat, spec.fill \in Cell, NEW number, NEW sign,
         NEW k \in Nat, NEW l \in Nat, NEW p \in Nat, NEW t, IsPrinting(number, spec, sign, k, t, l, p),
         NEW m \in Nat, m = k + p + l, NEW x \in Nat, x = start + k, NEW y \in Nat, y = start + k + p,
         NEW now, now = NowOf(number, spec), NEW c, c = Printing(b, number, spec)
  PROVE  /\ Ahead(b, c, m) /\ Has(c, x, Repeat(Blank, p)) /\ Has(c, y, t)
         /\ SignedBy(c, start, sign, k, spec.fill, now)
<1>1. PICK made : made = PrintedOf(number, spec) /\ made = Repeat(Blank, p) \odot t
  BY Zenon DEF IsPrinting
<1>2. /\ sign = SignOf(number, spec) /\ IsSign(sign, k) /\ IsText(sign, k)
      /\ IsText(t, l) /\ IsText(made, p + l)
  BY <1>1, Zenon DEF IsPrinting, IsSign
<1>3. PICK n \in Nat : n = p + l /\ m = k + n /\ y = x + p
  OBVIOUS
<1>4. PICK w : w = WithText(b, sign, spec, made)
  OBVIOUS
<1>5. Ahead(b, w, k + n) /\ Has(w, x, made)
  BY <1>2, <1>3, <1>4, TextPrinted
<1>6. c = WithSign(w, b, sign, spec, now)
  BY <1>1, <1>2, <1>4, Zenon DEF Printing
<1>7. /\ Ahead(b, c, k + n) /\ Has(c, x, made)
      /\ SignedBy(c, start, sign, k, spec.fill, now)
  <2>1. IsText(made, n) /\ Has(w, start + k, made)
    BY <1>2, <1>3, <1>5
  <2>2. /\ Ahead(b, c, k + n) /\ Has(c, start + k, made)
        /\ SignedBy(c, start, sign, k, spec.fill, now)
    BY <1>2, <1>5, <1>6, <2>1, SignPut, Zenon
  <2> QED BY <2>2
<1>8. Has(c, x, Repeat(Blank, p)) /\ Has(c, y, t)
  <2>1. IsBuffer(c) /\ IsText(Repeat(Blank, p), p)
    BY <1>7, BlankIs, RepeatText DEF Ahead
  <2> QED BY <1>1, <1>2, <1>3, <1>7, <2>1, SplitHolds
<1> QED BY <1>3, <1>7, <1>8, Zenon

\* What the sign, the padding and the number come to.
SignInPlace(sign, f, p, t, now, k) ==
  IF k = 0 \/ now THEN sign \odot Repeat(f, p) \odot t ELSE Repeat(f, p) \odot sign \odot t

LEMMA ReplacingIs ==
  ASSUME CharsAreThere, NEW b, IsBuffer(b), NEW start \in Nat, start = b.size,
         NEW spec, spec.width \in Nat, spec.fill \in Cell, NEW number, NEW sign,
         NEW k \in Nat, NEW l \in Nat, NEW p \in Nat, NEW t, IsPrinting(number, spec, sign, k, t, l, p),
         NEW m \in Nat, m = k + p + l, NEW now, now = NowOf(number, spec),
         NEW d, d = Replacing(b, number, spec)
  PROVE  /\ Ahead(b, d, m) /\ Has(d, start, SignInPlace(sign, spec.fill, p, t, now, k))
         /\ IsText(SignInPlace(sign, spec.fill, p, t, now, k), m)
<1>1. PICK x, y \in Nat : x = start + k /\ y = start + k + p /\ y = x + p
  OBVIOUS
<1>2. PICK c : c = Printing(b, number, spec)
  OBVIOUS
<1>3. /\ Ahead(b, c, m) /\ Has(c, x, Repeat(Blank, p)) /\ Has(c, y, t)
      /\ SignedBy(c, start, sign, k, spec.fill, now)
  BY <1>1, <1>2, PrintingIs
<1>4. /\ sign = SignOf(number, spec) /\ IsText(sign, k) /\ IsText(t, l)
      /\ (k = 0 \/ k = 1) /\ (k = 0 => sign = <<>>) /\ (k = 1 => sign # <<>>)
      /\ BlanksOf(PrintedOf(number, spec)) = p
  BY Zenon DEF IsPrinting, IsSign
<1>5. PICK w : w = WithFill(c, b, sign, spec, now, p)
  OBVIOUS
<1>6. d = SignLast(w, b, sign, now, p)
  BY <1>2, <1>4, <1>5, Zenon DEF Replacing
<1>7. PICK pad : pad = Repeat(spec.fill, p) /\ IsText(pad, p)
  BY RepeatText
<1>8. CASE k = 0 \/ now
  <2>1. Has(c, start, sign)
    BY <1>3, <1>8, Zenon DEF SignedBy
  <2>2. Laid(b, c, m, start, sign, x, Repeat(Blank, p), y, t)
    BY <1>3, <2>1, Zenon DEF Laid
  <2>3. Laid(b, w, m, start, sign, x, Repeat(spec.fill, p), y, t)
    BY <1>1, <1>4, <1>5, <2>2, FillPut, Zenon
  <2>4. /\ Ahead(b, w, m) /\ Has(w, start, sign) /\ Has(w, x, pad) /\ Has(w, y, t)
    BY <1>7, <2>3, Zenon DEF Laid
  <2>5. d = w
    BY <1>4, <1>6, <1>8, Zenon DEF SignLast
  <2>6. IsBuffer(d)
    BY <2>4, <2>5 DEF Ahead
  <2>7. PICK n \in Nat : n = k + p /\ y = start + n /\ m = n + l
    BY <1>1
  <2>8. Has(d, start, sign \odot pad) /\ IsText(sign \odot pad, n)
    BY <1>1, <1>4, <1>7, <2>4, <2>5, <2>6, <2>7, JoinHolds, JoinText
  <2>9. Has(d, start, sign \odot pad \odot t) /\ IsText(sign \odot pad \odot t, m)
    BY <1>4, <2>4, <2>5, <2>6, <2>7, <2>8, JoinHolds, JoinText
  <2> QED BY <1>7, <1>8, <2>4, <2>5, <2>9, Zenon DEF SignInPlace
<1>9. CASE ~(k = 0 \/ now)
  <2>1. k = 1 /\ ~now /\ x = start + 1 /\ y = start + 1 + p /\ m = 1 + p + l
    BY <1>1, <1>4, <1>9
  <2>2. Has(c, start, <<spec.fill>>)
    BY <1>3, <2>1, Zenon DEF SignedBy
  <2>3. IsText(<<spec.fill>>, 1)
    <3>1. \A f \in Cell : <<f>> \in Seq(Cell) /\ Len(<<f>>) = 1
      OBVIOUS
    <3> QED BY <3>1 DEF IsText
  <2>4. /\ Ahead(b, w, m) /\ Has(w, start, <<spec.fill>>) /\ Has(w, x, pad) /\ Has(w, y, t)
    <3>1. IsText(<<spec.fill>>, k) /\ IsText(sign, k)
      BY <1>4, <2>1, <2>3
    <3>2. Laid(b, c, m, start, <<spec.fill>>, x, Repeat(Blank, p), y, t)
      BY <1>3, <2>2, Zenon DEF Laid
    <3>3. Laid(b, w, m, start, <<spec.fill>>, x, Repeat(spec.fill, p), y, t)
      BY <1>1, <1>4, <1>5, <3>1, <3>2, FillPut, Zenon
    <3> QED BY <1>7, <3>3, Zenon DEF Laid
  <2>5. p > 0
    <3>1. p # 0
      BY <1>4, <2>1, Zenon DEF NowOf, SignNow
    <3> QED BY <3>1
  <2>6. Ahead(b, d, m) /\ Has(d, start, pad \odot sign \odot t)
    BY <1>4, <1>6, <1>7, <2>1, <2>4, <2>5, SignPutLast
  <2>7. IsText(pad \odot sign \odot t, m)
    <3>1. IsText(pad \odot sign \odot t, p + k + l)
      BY <1>4, <1>7, JoinText
    <3>2. p + k + l = m
      OBVIOUS
    <3> QED BY <3>1, <3>2
  <2> QED BY <1>7, <1>9, <2>6, <2>7, Zenon DEF SignInPlace
<1> QED BY <1>8, <1>9

\* A double that is not moved.
LEMMA DoubleCounts ==
  ASSUME CharsAreThere, NEW b, IsBuffer(b), NEW spec, spec.width \in Nat, spec.fill \in Cell,
         NEW number, ~number.special, NEW sign,
         NEW k \in Nat, NEW l \in Nat, NEW p \in Nat, NEW t, IsPrinting(number, spec, sign, k, t, l, p),
         ~(spec.align = "center" /\ spec.width > p + l + k)
  PROVE  Writes(b, write_double(b, number, spec),
                SignInPlace(sign, spec.fill, p, t, NowOf(number, spec), k))
<1>1. PICK start, m \in Nat : start = b.size /\ m = k + p + l /\ m = p + l + k
  BY DEF IsBuffer
<1>2. PICK d, s : /\ d = Replacing(b, number, spec)
                  /\ s = SignInPlace(sign, spec.fill, p, t, NowOf(number, spec), k)
  OBVIOUS
<1>3. Ahead(b, d, m) /\ Has(d, start, s) /\ IsText(s, m)
  BY <1>1, <1>2, ReplacingIs
<1>4. Writes(b, grow_buffer(d, m), s)
  BY <1>1, <1>3, AheadCounts
<1>5. Len(PrintedOf(number, spec)) + Len(SignOf(number, spec)) = m
  <2>1. Len(PrintedOf(number, spec)) = p + l /\ Len(SignOf(number, spec)) = k
    BY DEF IsPrinting, IsText, IsSign
  <2> QED BY <1>1, <2>1
<1>6. ~(spec.align = "center" /\ spec.width > m)
  BY <1>1
<1>7. write_double(b, number, spec) = grow_buffer(d, m)
  BY <1>2, <1>5, <1>6, DoubleIs, Zenon
<1> QED BY <1>2, <1>4, <1>7, Zenon

-----------------------------------------------------------------------------
LEMMA SignTexts ==
  ASSUME NEW sign, NEW k \in Nat, IsSign(sign, k), NEW text, NEW l, IsText(text, l),
         NEW f \in Cell, NEW q \in Nat, NEW pad, pad = Repeat(f, q)
  PROVE  /\ sign \in Words /\ text \in Words /\ pad \in Words
         /\ k = 0 => sign = <<>>
         /\ q = 0 => pad = <<>>
<1>1. IsText(sign, k) /\ (k = 0 => sign = <<>>)
  BY Zenon DEF IsSign
<1>2. IsText(pad, q)
  BY RepeatText
<1>3. q = 0 => pad = <<>>
  BY NoPadding
<1> QED BY <1>1, <1>2, <1>3, TextIs

\* The sign before the padding is the sign after it where one of them is empty.
LEMMA SignAfter ==
  ASSUME NEW sign, sign \in Words, NEW pad, pad \in Words, NEW text, text \in Words,
         sign = <<>> \/ pad = <<>>
  PROVE  sign \odot pad \odot text = pad \odot (sign \odot text)
<1>1. /\ sign \odot <<>> = sign /\ <<>> \odot sign = sign
      /\ pad \odot <<>> = pad /\ <<>> \odot pad = pad
  BY NothingAround
<1>2. sign \odot pad = pad \odot sign
  BY <1>1, Zenon
<1>3. pad \odot sign \odot text = pad \odot (sign \odot text)
  BY Regroup
<1> QED BY <1>2, <1>3, Zenon

LEMMA RightInPlace ==
  ASSUME NEW sign, NEW k \in Nat, IsSign(sign, k), NEW text, NEW l, IsText(text, l),
         NEW f \in Cell, NEW q \in Nat, NEW now, now <=> q = 0
  PROVE  SignInPlace(sign, f, q, text, now, k) = Repeat(f, q) \odot (sign \odot text)
<1>1. PICK pad : pad = Repeat(f, q)
  OBVIOUS
<1>2. /\ sign \in Words /\ text \in Words /\ pad \in Words
      /\ (k = 0 => sign = <<>>) /\ (now => pad = <<>>)
  BY <1>1, SignTexts
<1>3. CASE k = 0 \/ now
  <2>1. sign \odot pad \odot text = pad \odot (sign \odot text)
    BY <1>2, <1>3, SignAfter
  <2> QED BY <1>1, <1>3, <2>1, Zenon DEF SignInPlace
<1>4. CASE ~(k = 0 \/ now)
  <2>1. pad \odot sign \odot text = pad \odot (sign \odot text)
    BY <1>2, Regroup
  <2> QED BY <1>1, <1>4, <2>1, Zenon DEF SignInPlace
<1> QED BY <1>3, <1>4

LEMMA DoubleOnTheRight ==
  ASSUME CharsAreThere, NEW b, IsBuffer(b), NEW spec, spec.width \in Nat, spec.fill \in Cell,
         spec.align \in {"right", "default"}, NEW number, IsDouble(number), ~number.special,
         NEW text, text = number.text, NEW l \in Nat, IsText(text, l),
         NEW sign, sign = SignOf(number, spec), NEW k \in Nat, IsSign(sign, k)
  PROVE  Writes(b, write_double(b, number, spec), Aligned(spec, "right", sign, text))
<1>1. PICK q \in Nat : q = Padding(spec.width, k + l)
  BY PrintedAs
<1>2. IsPrinting(number, spec, sign, k, text, l, q)
  BY <1>1, PrintedAs
<1>3. PICK now : now = NowOf(number, spec) /\ (now <=> q = 0)
  <2>1. BlanksOf(PrintedOf(number, spec)) = q
    BY <1>2, Zenon DEF IsPrinting
  <2>2. NowOf(number, spec) <=> q = 0
    BY <2>1 DEF NowOf, SignNow
  <2> QED BY <2>2
<1>4. Writes(b, write_double(b, number, spec), SignInPlace(sign, spec.fill, q, text, now, k))
  BY <1>2, <1>3, DoubleCounts
<1>5. SignInPlace(sign, spec.fill, q, text, now, k) = Repeat(spec.fill, q) \odot (sign \odot text)
  BY <1>3, RightInPlace
<1>6. Aligned(spec, "right", sign, text) = Repeat(spec.fill, q) \odot (sign \odot text)
  <2>1. IsText(sign, k)
    BY Zenon DEF IsSign
  <2>2. PaddingOf(spec, sign, text) = q
    BY <1>1, <2>1, PaddingOfIs
  <2>3. sign \in Words /\ text \in Words
    BY <2>1, TextIs
  <2> QED BY <2>2, <2>3, AlignedOnASide
<1> QED BY <1>4, <1>5, <1>6, Zenon

DoubleSpec(spec) == IF spec.align = "left" THEN [spec EXCEPT !.fill = Blank] ELSE spec

LEMMA DoubleOnTheLeft ==
  ASSUME CharsAreThere, NEW b, IsBuffer(b), NEW spec, IsSpec(spec),
         spec.align = "left", NEW number, IsDouble(number), ~number.special,
         NEW text, text = number.text, NEW l \in Nat, IsText(text, l),
         NEW sign, sign = SignOf(number, spec), NEW k \in Nat, IsSign(sign, k)
  PROVE  Writes(b, write_double(b, number, spec), Aligned(DoubleSpec(spec), "left", sign, text))
<1>1. spec.width \in Nat /\ spec.fill \in Cell
  BY DEF IsSpec, Cell
<1>2. PICK q \in Nat : q = Padding(spec.width, k + l)
  BY <1>1, PrintedAs
<1>3. PICK pad : pad = Repeat(Blank, q)
  OBVIOUS
<1>4. PICK tail : tail = text \odot pad /\ IsPrinting(number, spec, sign, k, tail, l + q, 0)
  BY <1>1, <1>2, <1>3, PrintedAs
<1>5. PICK now : now = NowOf(number, spec) /\ now
  BY Zenon DEF NowOf, SignNow
<1>6. l + q \in Nat
  OBVIOUS
<1>7. Writes(b, write_double(b, number, spec), SignInPlace(sign, spec.fill, 0, tail, now, k))
  BY <1>1, <1>4, <1>5, <1>6, DoubleCounts
<1>8. sign \in Words /\ text \in Words /\ pad \in Words /\ IsText(sign, k)
  BY <1>3, BlankIs, SignTexts DEF IsSign
<1>9. SignInPlace(sign, spec.fill, 0, tail, now, k) = sign \odot text \odot pad
  <2>1. sign \odot Repeat(spec.fill, 0) = sign
    <3>1. Repeat(spec.fill, 0) = <<>>
      BY NoPadding
    <3>2. sign \odot <<>> = sign
      BY <1>8, NothingAround
    <3> QED BY <3>1, <3>2, Zenon
  <2>2. sign \odot text \odot pad = sign \odot (text \odot pad)
    BY <1>8, Regroup
  <2>3. SignInPlace(sign, spec.fill, 0, tail, now, k) = sign \odot tail
    BY <1>5, <2>1, Zenon DEF SignInPlace
  <2> QED BY <1>4, <2>2, <2>3
<1>10. PICK s : s = DoubleSpec(spec) /\ s.width = spec.width /\ s.fill = Blank
  <2>1. PICK s : s = [spec EXCEPT !.fill = Blank]
    OBVIOUS
  <2>2. s = DoubleSpec(spec)
    BY <2>1, Zenon DEF DoubleSpec
  <2>3. {"width", "fill"} \subseteq DOMAIN spec
    BY DEF IsSpec
  <2>4. s.width = spec.width /\ s.fill = Blank
    BY <2>1, <2>3
  <2> QED BY <2>2, <2>4, Zenon
<1>11. Aligned(s, "left", sign, text) = sign \odot text \odot pad
  <2>1. PaddingOf(s, sign, text) = q
    BY <1>2, <1>8, <1>10, PaddingOfIs
  <2>2. s.width \in Nat /\ s.fill \in Cell
    BY <1>1, <1>10, BlankIs
  <2>3. Aligned(s, "left", sign, text) = sign \odot text \odot Repeat(s.fill, PaddingOf(s, sign, text))
    BY <1>8, <2>2, AlignedOnASide
  <2> QED BY <1>3, <1>10, <2>1, <2>3, Zenon
<1> QED BY <1>7, <1>9, <1>10, <1>11, Zenon

\* Around a double whose padding does not go to one side only.
LEMMA DoubleAround ==
  ASSUME NEW spec, spec.width \in Nat, spec.fill \in Cell,
         NEW text, NEW l \in Nat, IsText(text, l), NEW sign, NEW k \in Nat, IsSign(sign, k),
         NEW q \in Nat, q = Padding(spec.width, k + l)
  PROVE  /\ Aligned(spec, "numeric", sign, text) = sign \odot Repeat(spec.fill, q) \odot text
         /\ Aligned(spec, "center", sign, text) =
              Repeat(spec.fill, q \div 2) \odot (sign \odot text) \odot Repeat(spec.fill, q - q \div 2)
<1>1. IsText(sign, k) /\ sign \in Words /\ text \in Words
  BY TextIs DEF IsSign
<1>2. PaddingOf(spec, sign, text) = q
  BY <1>1, PaddingOfIs
<1>3. PICK h \in Nat, r \in Nat : h = q \div 2 /\ r = q - h
  BY Halves
<1>4. PICK pad, left, right : /\ pad = Repeat(spec.fill, q) /\ left = Repeat(spec.fill, h)
                              /\ right = Repeat(spec.fill, r)
                              /\ pad \in Words /\ left \in Words /\ right \in Words
  BY RepeatText, TextIs
<1>5. "numeric" \in Align /\ "numeric" # "default" /\ "center" \in Align /\ "center" # "default"
  BY DEF Align
<1>6. Aligned(spec, "numeric", sign, text) = sign \odot pad \odot text
  <2>1. Aligned(spec, "numeric", sign, text) =
          Before(spec, "numeric", sign, q) \odot text \odot After(spec, "numeric", q)
    BY <1>1, <1>2, <1>5, AlignedSplits, Zenon
  <2>2. Before(spec, "numeric", sign, q) = sign \odot pad
    BY <1>4, BeforeIs
  <2>3. After(spec, "numeric", q) = <<>>
    BY DEF After
  <2>4. sign \odot pad \odot text \odot <<>> = sign \odot pad \odot text
    BY <1>1, <1>4, ThreeTexts
  <2> QED BY <2>1, <2>2, <2>3, <2>4, Zenon
<1>7. Aligned(spec, "center", sign, text) = left \odot (sign \odot text) \odot right
  <2>1. Aligned(spec, "center", sign, text) =
          Before(spec, "center", sign, q) \odot text \odot After(spec, "center", q)
    BY <1>1, <1>2, <1>5, AlignedSplits, Zenon
  <2>2. Before(spec, "center", sign, q) = left \odot sign
    <3>1. Before(spec, "center", sign, q) = Repeat(spec.fill, q \div 2) \odot sign
      BY BeforeIs
    <3> QED BY <1>3, <1>4, <3>1, Zenon
  <2>3. After(spec, "center", q) = right
    BY <1>3, <1>4 DEF After
  <2>4. left \odot sign \odot text = left \odot (sign \odot text)
    BY <1>1, <1>4, Regroup
  <2> QED BY <2>1, <2>2, <2>3, <2>4, Zenon
<1> QED BY <1>3, <1>4, <1>6, <1>7, Zenon

LEMMA DoubleInTheMiddle ==
  ASSUME CharsAreThere, NEW b, IsBuffer(b), NEW spec, spec.width \in Nat, spec.fill \in Cell,
         NEW number, IsDouble(number), ~number.special,
         NEW text, text = number.text, NEW l \in Nat, IsText(text, l),
         NEW sign, sign = SignOf(number, spec), NEW k \in Nat, IsSign(sign, k),
         NEW align, align = spec.align,
         align = "numeric" \/ (align = "center" /\ spec.width <= k + l)
  PROVE  Writes(b, write_double(b, number, spec), Aligned(spec, align, sign, text))
<1>1. PICK q \in Nat : q = Padding(spec.width, k + l)
  BY PrintedAs
<1>2. PICK now : now = NowOf(number, spec) /\ now
  BY Zenon DEF NowOf, SignNow
<1>3. PICK pad, none : /\ pad = Repeat(spec.fill, q) /\ none = Repeat(spec.fill, 0) /\ none = <<>>
                       /\ sign \in Words /\ text \in Words /\ pad \in Words
  BY SignTexts, NoPadding
<1>4. CASE align = "numeric"
  <2>1. IsPrinting(number, spec, sign, k, text, l, q)
    BY <1>1, <1>4, PrintedAs
  <2>2. Writes(b, write_double(b, number, spec), SignInPlace(sign, spec.fill, q, text, now, k))
    BY <1>2, <1>4, <2>1, DoubleCounts
  <2>3. SignInPlace(sign, spec.fill, q, text, now, k) = sign \odot pad \odot text
    BY <1>2, <1>3, Zenon DEF SignInPlace
  <2>4. Aligned(spec, "numeric", sign, text) = sign \odot pad \odot text
    BY <1>1, <1>3, DoubleAround
  <2> QED BY <1>4, <2>2, <2>3, <2>4, Zenon
<1>5. CASE align = "center"
  <2>1. IsPrinting(number, spec, sign, k, text, l, 0) /\ spec.width <= k + l
    BY <1>1, <1>5, PrintedAs
  <2>2. ~(spec.width > 0 + l + k) /\ 0 \in Nat
    BY <2>1
  <2>3. Writes(b, write_double(b, number, spec), SignInPlace(sign, spec.fill, 0, text, now, k))
    BY <1>2, <2>1, <2>2, DoubleCounts
  <2>4. SignInPlace(sign, spec.fill, 0, text, now, k) = sign \odot text
    <3>1. sign \odot none = sign
      BY <1>3, NothingAround, Zenon
    <3> QED BY <1>2, <1>3, <3>1, Zenon DEF SignInPlace
  <2>5. q = 0 /\ q \div 2 = 0 /\ q - q \div 2 = 0
    <3>1. q = 0
      BY <1>1, <2>1 DEF Padding
    <3> QED BY <3>1
  <2>6. Aligned(spec, "center", sign, text) = none \odot (sign \odot text) \odot none
    <3>1. Aligned(spec, "center", sign, text) =
            Repeat(spec.fill, q \div 2) \odot (sign \odot text) \odot Repeat(spec.fill, q - q \div 2)
      BY <1>1, DoubleAround
    <3> QED BY <1>3, <2>5, <3>1, Zenon
  <2>7. sign \odot text \in Words
    BY <1>3, TwoTexts, Zenon
  <2>8. none \odot (sign \odot text) \odot none = sign \odot text
    BY <1>3, <2>7, NothingAround, Zenon
  <2> QED BY <1>5, <2>3, <2>4, <2>6, <2>8, Zenon
<1> QED BY <1>4, <1>5

-----------------------------------------------------------------------------
LEMMA MemoryIs ==
  ASSUME NEW g, IsBuffer(g), NEW start \in Nat, NEW s, NEW n \in Nat, IsText(s, n), Has(g, start, s)
  PROVE  SubSeq(g.ptr, start + 1, start + n) = s
<1>1. PICK f : f = g.ptr /\ f \in Seq(Cell)
  BY DEF IsBuffer
<1>2. s \in Seq(Cell) /\ Len(s) = n
  BY DEF IsText
<1>3. start + n <= Len(f) /\ \A j \in 1..n : f[start + j] = s[j]
  BY <1>1, <1>2, Zenon DEF Has
<1>4. PICK t : t = SubSeq(f, start + 1, start + n)
  OBVIOUS
<1>5. t \in Seq(Cell) /\ Len(t) = n /\ \A j \in 1..n : t[j] = f[start + j]
  BY <1>1, <1>3, <1>4
<1>6. \A j \in 1..n : t[j] = s[j]
  BY <1>3, <1>5
<1>7. t = s
  BY <1>2, <1>5, <1>6, SeqEqual
<1> QED BY <1>1, <1>4, <1>7

LEMMA RoomToCentre ==
  ASSUME NEW b, IsBuffer(b), NEW start \in Nat, start = b.size, NEW c, NEW n \in Nat, Ahead(b, c, n),
         NEW s, IsText(s, n), Has(c, start, s), NEW width \in Nat, start + width <= Len(c.ptr),
         NEW g, g = grow_buffer(c, width)
  PROVE  Room(b, g, width) /\ Has(g, start, s)
<1>1. IsBuffer(c) /\ c.size = start /\ Has(c, 0, Text(b)) /\ Len(b.ptr) <= Len(c.ptr)
  BY DEF Ahead
<1>2. c.size + width <= Len(c.ptr)
  BY <1>1
<1>3. IsBuffer(g) /\ g.size = c.size + width /\ Len(c.ptr) <= Len(g.ptr) /\ g.ptr = c.ptr
  BY <1>1, <1>2, GrowBufferIs
<1>4. Has(g, 0, Text(b)) /\ Has(g, start, s)
  BY <1>1, <1>3, Zenon DEF Has
<1>5. g.size = b.size + width /\ Len(b.ptr) <= Len(g.ptr)
  BY <1>1, <1>3
<1> QED BY <1>3, <1>4, <1>5, Zenon DEF Room

\* s in the middle of the room, and then what is around it.
Surrounded(g, start, h, n, left, s, right) ==
  Put(Put(Put(g, start + h, s), start, left), start + h + n, right)

LEMMA SurroundedWrites ==
  ASSUME NEW b, IsBuffer(b), NEW start \in Nat, start = b.size, NEW width \in Nat,
         NEW g, Room(b, g, width), NEW n \in Nat, NEW s, IsText(s, n),
         NEW h \in Nat, NEW r \in Nat, h + n + r = width,
         NEW left, IsText(left, h), NEW right, IsText(right, r),
         NEW d, d = Surrounded(g, start, h, n, left, s, right)
  PROVE  Writes(b, d, left \odot s \odot right)
<1>1. PICK x, y \in Nat : x = start + h /\ y = start + h + n /\ y = x + n
  OBVIOUS
<1>2. /\ start <= x /\ x + n <= start + width /\ start <= y /\ y + r <= start + width
      /\ start + h <= x /\ start + h <= y /\ x + n <= y /\ start + h <= start + width /\ start <= start
  BY <1>1
<1>3. PICK c : c = Put(g, x, s) /\ Room(b, c, width) /\ Has(c, x, s)
  BY <1>2, PutFirst
<1>4. PICK e : e = Put(c, start, left) /\ Room(b, e, width) /\ Has(e, x, s) /\ Has(e, start, left)
  BY <1>2, <1>3, PutMore
<1>5. d = Put(e, y, right)
  BY <1>1, <1>3, <1>4, Zenon DEF Surrounded
<1>6. Room(b, d, width) /\ Has(d, x, s) /\ Has(d, y, right)
  BY <1>2, <1>4, <1>5, PutMore
<1>7. Has(d, start, left)
  BY <1>2, <1>4, <1>5, PutMore
<1>8. IsBuffer(d) /\ d.size = start + width /\ Has(d, 0, Text(b))
  BY <1>6 DEF Room
<1>9. PICK m \in Nat : m = h + n /\ y = start + m /\ m + r = width
  BY <1>1
<1>10. Has(d, start, left \odot s) /\ IsText(left \odot s, m)
  BY <1>1, <1>6, <1>7, <1>8, <1>9, JoinHolds, JoinText
<1>11. Has(d, start, left \odot s \odot right) /\ IsText(left \odot s \odot right, m + r)
  BY <1>6, <1>8, <1>9, <1>10, JoinHolds, JoinText
<1>12. Len(left \odot s \odot right) = width
  BY <1>9, <1>11 DEF IsText
<1>13. d.size = b.size + Len(left \odot s \odot right)
  BY <1>8, <1>12, Zenon
<1> QED BY <1>8, <1>11, <1>13, Zenon DEF Writes

LEMMA DoubleCentred ==
  ASSUME CharsAreThere, NEW b, IsBuffer(b), NEW spec, spec.width \in Nat, spec.fill \in Cell,
         NEW number, IsDouble(number), ~number.special,
         NEW text, text = number.text, NEW l \in Nat, IsText(text, l),
         NEW sign, sign = SignOf(number, spec), NEW k \in Nat, IsSign(sign, k),
         spec.align = "center", spec.width > k + l, b.size + spec.width <= InlineSize
  PROVE  Writes(b, write_double(b, number, spec), Aligned(spec, "center", sign, text))
<1>1. PICK start, n \in Nat : start = b.size /\ n = k + l /\ n = l + k /\ n = k + 0 + l
  BY DEF IsBuffer
<1>2. PICK q \in Nat : q = Padding(spec.width, k + l) /\ q = spec.width - n
  <2>1. Padding(spec.width, k + l) = spec.width - n /\ spec.width - n \in Nat
    BY <1>1 DEF Padding
  <2> QED BY <2>1
<1>3. IsPrinting(number, spec, sign, k, text, l, 0)
  BY <1>2, PrintedAs
<1>4. PICK now : now = NowOf(number, spec) /\ now
  BY Zenon DEF NowOf, SignNow
<1>5. PICK c : c = Printing(b, number, spec)
  OBVIOUS
<1>6. PICK x \in Nat : x = start + k /\ x = start + k + 0
  BY <1>1
<1>7. Ahead(b, c, n) /\ Has(c, x, text) /\ SignedBy(c, start, sign, k, spec.fill, now)
  <2>1. PICK p \in Nat : p = 0 /\ n = k + p + l /\ x = start + k + p
    BY <1>1, <1>6
  <2>2. IsPrinting(number, spec, sign, k, text, l, p)
    BY <1>3, <2>1
  <2>3. n \in Nat /\ x \in Nat /\ start \in Nat /\ start = b.size /\ x = start + k
    BY <1>1, <1>6
  <2>4. now = NowOf(number, spec)
    BY <1>4, Zenon
  <2> QED BY <1>5, <2>1, <2>2, <2>3, <2>4, PrintingIs
<1>8. IsText(sign, k)
  BY Zenon DEF IsSign
<1>9. PICK s : s = sign \odot text /\ Has(c, start, s) /\ IsText(s, n)
  <2>1. Has(c, start, sign)
    BY <1>4, <1>7, Zenon DEF SignedBy
  <2>2. IsBuffer(c)
    BY <1>7 DEF Ahead
  <2>3. Has(c, start, sign \odot text)
    BY <1>6, <1>7, <1>8, <2>1, <2>2, JoinHolds
  <2>4. IsText(sign \odot text, n)
    BY <1>1, <1>8, JoinText
  <2> QED BY <2>3, <2>4
<1>10. start + spec.width <= Len(c.ptr)
  <2>1. InlineSize <= Len(b.ptr) /\ Len(b.ptr) <= Len(c.ptr) /\ Len(b.ptr) \in Nat /\ Len(c.ptr) \in Nat
    BY <1>7 DEF Ahead, IsBuffer
  <2>2. InlineSize \in Nat
    BY InlineSizeAssumption
  <2> QED BY <1>1, <2>1, <2>2
<1>11. PICK g : g = grow_buffer(c, spec.width) /\ Room(b, g, spec.width) /\ Has(g, start, s)
  BY <1>1, <1>7, <1>9, <1>10, RoomToCentre
<1>12. s = SubSeq(g.ptr, start + 1, start + n)
  <2>1. IsBuffer(g)
    BY <1>11 DEF Room
  <2> QED BY <1>1, <1>9, <1>11, <2>1, MemoryIs
<1>13. PICK h \in Nat, r \in Nat : h = q \div 2 /\ r = q - h
  BY Halves
<1>14. spec.width - n - h = r /\ h + n + r = spec.width
  BY <1>1, <1>2, <1>13
<1>15. PICK left, right : /\ left = Repeat(spec.fill, h) /\ right = Repeat(spec.fill, r)
                          /\ IsText(left, h) /\ IsText(right, r)
  BY RepeatText
<1>16. Centred(c, b, spec, n) = Surrounded(g, start, h, n, left, s, right)
  <2>1. h = (spec.width - n) \div 2
    BY <1>2, <1>13, Zenon
  <2>2. Centred(c, b, spec, n) =
          Surrounded(g, start, h, n, Repeat(spec.fill, h), s, Repeat(spec.fill, spec.width - n - h))
    <3>1. start = b.size /\ g = grow_buffer(c, spec.width)
      BY <1>1, <1>11
    <3> QED BY <1>12, <2>1, <3>1, Zenon DEF Centred, fill_padding, Surrounded
  <2> QED BY <1>14, <1>15, <2>2, Zenon
<1>17. Writes(b, Centred(c, b, spec, n), left \odot s \odot right)
  BY <1>1, <1>9, <1>11, <1>14, <1>15, <1>16, SurroundedWrites
<1>18. Aligned(spec, "center", sign, text) = left \odot s \odot right
  <2>1. Aligned(spec, "center", sign, text) =
          Repeat(spec.fill, q \div 2) \odot (sign \odot text) \odot Repeat(spec.fill, q - q \div 2)
    BY <1>2, DoubleAround
  <2> QED BY <1>9, <1>13, <1>15, <2>1, Zenon
<1>19. write_double(b, number, spec) = Centred(c, b, spec, n)
  <2>1. Len(PrintedOf(number, spec)) + Len(SignOf(number, spec)) = n
    <3>1. Len(PrintedOf(number, spec)) = 0 + l /\ Len(SignOf(number, spec)) = k
      BY <1>3 DEF IsPrinting, IsText, IsSign
    <3> QED BY <1>1, <3>1
  <2>2. spec.width > n
    BY <1>1
  <2> QED BY <1>5, <2>1, <2>2, DoubleIs, Zenon
<1> QED BY <1>17, <1>18, <1>19, Zenon

-----------------------------------------------------------------------------
\* Where write_special puts the sign.
SpecialAt(start, spec, n) ==
  CASE spec.width <= n \/ spec.align \notin {"right", "center"} -> start
    [] spec.width > n /\ spec.align = "right" -> start + spec.width - n
    [] OTHER -> start + (spec.width - n) \div 2

BlankFor(sign) == IF sign = <<>> THEN <<>> ELSE <<Blank>>

LEMMA SpecialIs ==
  ASSUME NEW b, NEW number, NEW sign, NEW spec
  PROVE  write_special(b, number, sign, spec) =
           Put(write_str(b, BlankFor(sign) \odot number.text, spec),
               SpecialAt(b.size, spec, Len(BlankFor(sign) \odot number.text)), sign)
BY Zenon DEF write_special, SpecialAt, BlankFor, Blank, \odot

\* How text is aligned.
TextAlign(spec) == IF spec.align \in {"default", "numeric"} THEN "left" ELSE spec.align

LEMMA TextAlignIs ==
  ASSUME NEW spec, spec.align \in Align
  PROVE  /\ TextAlign(spec) \in Align /\ TextAlign(spec) # "default"
         /\ TextAlign(spec) \in {"left", "right", "center"}
         /\ TextAlign(spec) = "left" <=> spec.align \notin {"right", "center"}
         /\ TextAlign(spec) # "left" => TextAlign(spec) = spec.align
BY DEF TextAlign, Align

LEMMA SpecialAtIs ==
  ASSUME NEW spec, spec.width \in Nat, spec.fill \in Cell, spec.align \in Align,
         NEW start \in Nat, NEW n \in Nat, NEW x \in Nat,
         IsText(Before(spec, TextAlign(spec), <<>>, Padding(spec.width, n)), x)
  PROVE  SpecialAt(start, spec, n) = start + x
<1>1. PICK align, padding : /\ align = TextAlign(spec) /\ padding = Padding(spec.width, n) /\ padding \in Nat
                            /\ IsText(Before(spec, align, <<>>, padding), x)
  <2>1. Padding(spec.width, n) \in Nat
    BY DEF Padding
  <2> QED BY <2>1
<1>2. /\ align \in {"left", "right", "center"}
      /\ align = "left" <=> spec.align \notin {"right", "center"}
      /\ align # "left" => align = spec.align
  BY <1>1, TextAlignIs, Zenon
<1>3. PICK h \in Nat : h = padding \div 2
  BY <1>1, Halves
<1>4. PICK pad, half : /\ pad = Repeat(spec.fill, padding) /\ half = Repeat(spec.fill, h)
                       /\ IsText(pad, padding) /\ IsText(half, h) /\ pad \in Words /\ half \in Words
  BY <1>1, RepeatText, TextIs
<1>5. pad \odot <<>> = pad /\ half \odot <<>> = half
  BY <1>4, NothingAround
<1>6. CASE align = "left"
  <2>1. Before(spec, "left", <<>>, padding) = <<>>
    BY BeforeIs
  <2>2. x = 0
    BY <1>1, <1>6, <2>1, NoChars, LengthIsOne
  <2>3. SpecialAt(start, spec, n) = start
    BY <1>2, <1>6, Zenon DEF SpecialAt
  <2> QED BY <2>2, <2>3
<1>7. CASE align = "right"
  <2>1. Before(spec, "right", <<>>, padding) = pad \odot <<>>
    BY <1>4, BeforeIs
  <2>2. x = padding
    BY <1>1, <1>4, <1>5, <1>7, <2>1, LengthIsOne
  <2>3. spec.align = "right"
    BY <1>2, <1>7
  <2>4. CASE spec.width <= n
    <3>1. padding = 0
      BY <1>1, <2>4 DEF Padding
    <3>2. SpecialAt(start, spec, n) = start
      BY <2>4 DEF SpecialAt
    <3> QED BY <2>2, <3>1, <3>2
  <2>5. CASE ~(spec.width <= n)
    <3>1. padding = spec.width - n /\ spec.width > n
      BY <1>1, <2>5 DEF Padding
    <3>2. SpecialAt(start, spec, n) = start + spec.width - n
      BY <2>3, <2>5, <3>1 DEF SpecialAt
    <3> QED BY <2>2, <3>1, <3>2
  <2> QED BY <2>4, <2>5
<1>8. CASE align = "center"
  <2>1. Before(spec, "center", <<>>, padding) = half \odot <<>>
    <3>1. Before(spec, "center", <<>>, padding) = Repeat(spec.fill, padding \div 2) \odot <<>>
      BY BeforeIs
    <3> QED BY <1>3, <1>4, <3>1, Zenon
  <2>2. x = h
    BY <1>1, <1>4, <1>5, <1>8, <2>1, LengthIsOne
  <2>3. spec.align = "center"
    BY <1>2, <1>8
  <2>4. CASE spec.width <= n
    <3>1. h = 0
      BY <1>1, <1>3, <2>4 DEF Padding
    <3>2. SpecialAt(start, spec, n) = start
      BY <2>4 DEF SpecialAt
    <3> QED BY <2>2, <3>1, <3>2
  <2>5. CASE ~(spec.width <= n)
    <3>1. padding = spec.width - n /\ spec.width > n
      BY <1>1, <2>5 DEF Padding
    <3>2. SpecialAt(start, spec, n) = start + (spec.width - n) \div 2
      BY <2>3, <2>5, <3>1 DEF SpecialAt
    <3>3. SpecialAt(start, spec, n) = start + h
      BY <1>3, <3>1, <3>2, Zenon
    <3> QED BY <2>2, <3>3
  <2> QED BY <2>4, <2>5
<1> QED BY <1>2, <1>6, <1>7, <1>8

\* Four texts in a row, and another one of the same size in the place of the
\* second.
Row(c, start, s, x, t, k, u, l, v) ==
  /\ Has(c, start, s) /\ Has(c, start + x, t) /\ Has(c, start + x + k, u)
  /\ Has(c, start + x + k + l, v)

LEMMA RowIs ==
  ASSUME NEW c, IsBuffer(c), NEW start \in Nat, NEW x \in Nat, NEW k \in Nat, NEW l \in Nat, NEW y \in Nat,
         NEW s, IsText(s, x), NEW t, IsText(t, k), NEW u, IsText(u, l), NEW v, IsText(v, y)
  PROVE  /\ Row(c, start, s, x, t, k, u, l, v) <=> Has(c, start, s \odot (t \odot u) \odot v)
         /\ IsText(s \odot (t \odot u) \odot v, x + (k + l) + y)
<1>1. PICK a, d, e, n, m \in Nat : /\ a = start + x /\ d = start + x + k /\ d = a + k
                                  /\ e = start + x + k + l /\ n = k + l /\ m = x + n /\ e = start + m
  OBVIOUS
<1>2. /\ IsText(t \odot u, n) /\ IsText(s \odot (t \odot u), m)
      /\ IsText(s \odot (t \odot u) \odot v, m + y)
  BY <1>1, JoinText
<1>3. ASSUME Row(c, start, s, x, t, k, u, l, v)
      PROVE  Has(c, start, s \odot (t \odot u) \odot v)
  <2>1. Has(c, start, s) /\ Has(c, a, t) /\ Has(c, d, u) /\ Has(c, e, v)
    BY <1>1, <1>3, Zenon DEF Row
  <2>2. Has(c, a, t \odot u)
    BY <1>1, <2>1, JoinHolds
  <2>3. Has(c, start, s \odot (t \odot u))
    BY <1>1, <1>2, <2>1, <2>2, JoinHolds
  <2> QED BY <1>1, <1>2, <2>1, <2>3, JoinHolds
<1>4. ASSUME Has(c, start, s \odot (t \odot u) \odot v)
      PROVE  Row(c, start, s, x, t, k, u, l, v)
  <2>1. Has(c, start, s \odot (t \odot u)) /\ Has(c, e, v)
    BY <1>1, <1>2, <1>4, SplitHolds
  <2>2. Has(c, start, s) /\ Has(c, a, t \odot u)
    BY <1>1, <1>2, <2>1, SplitHolds
  <2>3. Has(c, a, t) /\ Has(c, d, u)
    BY <1>1, <2>2, SplitHolds
  <2> QED BY <1>1, <2>1, <2>2, <2>3, Zenon DEF Row
<1> QED BY <1>1, <1>2, <1>3, <1>4

LEMMA KeptByPut ==
  ASSUME NEW c, IsBuffer(c), NEW x \in Nat, NEW s, NEW k, IsText(s, k), Has(c, x, s),
         NEW y \in Nat, NEW t, NEW l, IsText(t, l), x + k <= y \/ y + l <= x
  PROVE  Has(Put(c, y, t), x, s)
<1>1. /\ s \in Seq(Cell) /\ t \in Seq(Cell)
      /\ x + Len(s) <= y \/ y + Len(t) <= x
  BY DEF IsText
<1> QED BY <1>1, PutKeeps

LEMMA SecondReplaced ==
  ASSUME NEW b, IsBuffer(b), NEW c, NEW start \in Nat, start = b.size,
         NEW x \in Nat, NEW k \in Nat, NEW l \in Nat, NEW y \in Nat,
         NEW s, IsText(s, x), NEW t, IsText(t, k), NEW u, IsText(u, l), NEW v, IsText(v, y),
         Writes(b, c, s \odot (t \odot u) \odot v), NEW r, IsText(r, k)
  PROVE  Writes(b, Put(c, start + x, r), s \odot (r \odot u) \odot v)
<1>1. PICK a, d, e, m \in Nat : /\ a = start + x /\ d = start + x + k /\ e = start + x + k + l
                                /\ m = x + (k + l) + y /\ start <= a /\ a + k = d /\ a + k <= d /\ a + k <= e
                                /\ a + k <= start + m
  OBVIOUS
<1>2. PICK old, new : /\ old = s \odot (t \odot u) \odot v /\ new = s \odot (r \odot u) \odot v
                      /\ IsText(old, m) /\ IsText(new, m)
  <2>1. IsBuffer(b) /\ IsText(s \odot (t \odot u) \odot v, m) /\ IsText(s \odot (r \odot u) \odot v, m)
    BY <1>1, RowIs
  <2> QED BY <2>1
<1>3. /\ IsBuffer(c) /\ c.size = start + m /\ Has(c, 0, Text(b)) /\ Has(c, start, old)
  <2>1. Len(old) = m
    BY <1>2 DEF IsText
  <2> QED BY <1>2, <2>1, Zenon DEF Writes
<1>4. Row(c, start, s, x, t, k, u, l, v)
  BY <1>2, <1>3, RowIs
<1>5. Has(c, start, s) /\ Has(c, a, t) /\ Has(c, d, u) /\ Has(c, e, v)
  BY <1>1, <1>4, Zenon DEF Row
<1>6. PICK w : w = Put(c, a, r)
  OBVIOUS
<1>7. /\ s \in Seq(Cell) /\ Len(s) = x /\ u \in Seq(Cell) /\ Len(u) = l /\ v \in Seq(Cell) /\ Len(v) = y
      /\ r \in Seq(Cell) /\ Len(r) = k
  BY DEF IsText
<1>8. a + k <= Len(c.ptr)
  <2>1. PICK z \in Nat : z = Len(c.ptr) /\ start + m <= z
    BY <1>3 DEF IsBuffer
  <2>2. a + k <= z
    <3>1. start + m <= z
      BY <2>1
    <3> QED BY <1>1, <3>1
  <2> QED BY <2>1, <2>2, Zenon
<1>9. IsBuffer(w) /\ w.size = c.size /\ Has(w, a, r)
  <2>1. IsBuffer(c) /\ r \in Seq(Cell)
    BY <1>3, <1>7
  <2>2. IsBuffer(w) /\ w.size = c.size
    BY <1>6, <2>1, PutIs
  <2>3. a + Len(r) <= Len(c.ptr)
    BY <1>7, <1>8, Zenon
  <2>4. Has(w, a, r)
    BY <1>3, <1>6, <1>7, <2>3, PutHolds
  <2> QED BY <2>2, <2>4
<1>10. Has(w, start, s)
  <2>1. start + x <= a
    BY <1>1
  <2> QED BY <1>1, <1>3, <1>5, <1>6, <2>1, KeptByPut
<1>11. Has(w, d, u)
  BY <1>1, <1>3, <1>5, <1>6, KeptByPut
<1>12. Has(w, e, v)
  BY <1>1, <1>3, <1>5, <1>6, KeptByPut
<1>13. Row(w, start, s, x, r, k, u, l, v)
  BY <1>1, <1>9, <1>10, <1>11, <1>12, Zenon DEF Row
<1>14. Has(w, start, new)
  BY <1>2, <1>9, <1>13, RowIs
<1>15. Has(w, 0, Text(b))
  <2>1. Text(b) \in Seq(Cell) /\ Len(Text(b)) = start
    BY TextOfBuffer
  <2>2. 0 \in Nat /\ 0 + start <= a
    BY <1>1
  <2>3. IsText(Text(b), start)
    BY <2>1 DEF IsText
  <2> QED BY <1>1, <1>3, <1>6, <2>2, <2>3, KeptByPut
<1>16. w.size = b.size + Len(new)
  <2>1. Len(new) = m
    BY <1>2 DEF IsText
  <2> QED BY <1>3, <1>9, <2>1, Zenon
<1> QED BY <1>1, <1>2, <1>6, <1>9, <1>14, <1>15, <1>16, Zenon DEF Writes

\* Infinity and NaN.
LEMMA SpecialWrites ==
  ASSUME CharsAreThere, NEW b, IsBuffer(b), NEW spec, IsSpec(spec), NEW number,
         NEW text, text = number.text, NEW l \in Nat, IsText(text, l),
         NEW sign, NEW k \in Nat, IsSign(sign, k)
  PROVE  Writes(b, write_special(b, number, sign, spec), Aligned(spec, TextAlign(spec), <<>>, sign \odot text))
<1>1. spec.width \in Nat /\ spec.fill \in Cell /\ spec.align \in Align /\ {"align", "width", "fill"} \subseteq DOMAIN spec
  BY DEF IsSpec, Cell
<1>2. PICK start, n \in Nat : start = b.size /\ n = k + l
  BY DEF IsBuffer
<1>3. IsText(sign, k) /\ (k = 0 \/ k = 1) /\ (k = 0 => sign = <<>>) /\ (k = 1 => sign # <<>>)
  BY Zenon DEF IsSign
<1>4. PICK blank : blank = BlankFor(sign) /\ IsText(blank, k)
  <2>1. IsText(<<Blank>>, 1)
    <3>1. \A f \in Cell : <<f>> \in Seq(Cell) /\ Len(<<f>>) = 1
      OBVIOUS
    <3> QED BY <3>1, BlankIs DEF IsText
  <2>2. CASE k = 0
    BY <1>3, <2>2, NoChars DEF BlankFor
  <2>3. CASE k = 1
    BY <1>3, <2>1, <2>3 DEF BlankFor
  <2> QED BY <1>3, <2>2, <2>3
<1>5. PICK align : align = TextAlign(spec) /\ align \in Align /\ align # "default"
  BY <1>1, TextAlignIs
<1>6. PICK body : body = blank \odot text /\ IsText(body, n)
  BY <1>2, <1>4, JoinText
<1>7. PICK whole : whole = sign \odot text /\ IsText(whole, n)
  BY <1>2, <1>3, JoinText
<1>8. PICK c : c = write_str(b, body, spec)
  OBVIOUS
<1>9. /\ Writes(b, c, Aligned(spec, align, <<>>, body))
      /\ \E x, y \in Nat : \E padding \in Nat :
           /\ padding = Padding(spec.width, n)
           /\ Aligned(spec, align, <<>>, body) =
                Before(spec, align, <<>>, padding) \odot body \odot After(spec, align, padding)
           /\ IsText(Before(spec, align, <<>>, padding), x) /\ IsText(After(spec, align, padding), y)
  <2>1. align = IF spec.align \in {"default", "numeric"} THEN "left" ELSE spec.align
    BY <1>5, Zenon DEF TextAlign
  <2> QED BY <1>1, <1>6, <1>8, <2>1, StrWrites
<1>10. PICK x, y \in Nat : \E padding \in Nat :
           /\ padding = Padding(spec.width, n)
           /\ Aligned(spec, align, <<>>, body) =
                Before(spec, align, <<>>, padding) \odot body \odot After(spec, align, padding)
           /\ IsText(Before(spec, align, <<>>, padding), x) /\ IsText(After(spec, align, padding), y)
  BY <1>9
<1>11. PICK padding \in Nat :
           /\ padding = Padding(spec.width, n)
           /\ Aligned(spec, align, <<>>, body) =
                Before(spec, align, <<>>, padding) \odot body \odot After(spec, align, padding)
           /\ IsText(Before(spec, align, <<>>, padding), x) /\ IsText(After(spec, align, padding), y)
  BY <1>10
<1>12. PICK s, v : s = Before(spec, align, <<>>, padding) /\ v = After(spec, align, padding)
  OBVIOUS
<1>13. Writes(b, c, s \odot (blank \odot text) \odot v)
  BY <1>6, <1>9, <1>11, <1>12, Zenon
<1>14. Writes(b, Put(c, start + x, sign), s \odot (sign \odot text) \odot v)
  BY <1>2, <1>3, <1>4, <1>11, <1>12, <1>13, SecondReplaced
<1>15. Aligned(spec, align, <<>>, whole) = s \odot (sign \odot text) \odot v
  <2>1. Aligned(spec, align, <<>>, whole) =
           Before(spec, align, <<>>, padding) \odot whole \odot After(spec, align, padding)
    BY <1>1, <1>5, <1>7, <1>11, StrAligned
  <2> QED BY <1>7, <1>12, <2>1, Zenon
<1>16. SpecialAt(start, spec, n) = start + x
  <2>1. IsText(Before(spec, TextAlign(spec), <<>>, Padding(spec.width, n)), x)
    BY <1>5, <1>11
  <2> QED BY <1>1, <2>1, SpecialAtIs
<1>17. write_special(b, number, sign, spec) = Put(c, SpecialAt(start, spec, n), sign)
  <2>1. body = BlankFor(sign) \odot number.text
    BY <1>4, <1>6
  <2>2. n = Len(body)
    BY <1>6 DEF IsText
  <2>3. start = b.size
    BY <1>2
  <2>4. write_special(b, number, sign, spec) = Put(write_str(b, body, spec), SpecialAt(start, spec, n), sign)
    BY <2>1, <2>2, <2>3, SpecialIs
  <2> QED BY <1>8, <2>4
<1> QED BY <1>5, <1>7, <1>14, <1>15, <1>16, <1>17, Zenon

-----------------------------------------------------------------------------
\* What callers give: a type, and with it what is shown of such an argument.
IsPlain(arg) ==
  /\ arg.type \in IntType \cup {"double", "string", "cstring", "pointer", "custom"}
  /\ arg.type \in IntType \cup {"cstring", "pointer"} => arg.value \in Int
  /\ arg.type = "char" => arg.text \in Char
  /\ arg.type \in {"string", "custom"} \/ (arg.type = "cstring" /\ ~arg.null) => arg.text \in Seq(Char)
  /\ arg.type = "double" =>
       arg.negative \in BOOLEAN /\ arg.text \in Seq(Char) /\ (~arg.special => IsDouble(arg))

IsField(arg, spec) ==
  /\ IsPlain(arg) /\ arg.type # "custom" /\ IsSpec(spec) /\ spec.precision \in Int
  /\ SpecAllowed(arg, spec) /\ TypeAllowed(arg, spec)

LEMMA AlignedChars ==
  ASSUME NEW spec, IsSpec(spec), NEW align, align \in Align, align # "default",
         NEW prefix, prefix \in Seq(Char), NEW body, body \in Seq(Char)
  PROVE  Aligned(spec, align, prefix, body) \in Seq(Char)
<1>1. PICK k, n \in Nat : k = Len(prefix) /\ n = Len(body)
  OBVIOUS
<1>2. spec.width \in Nat /\ spec.fill \in Char
  BY DEF IsSpec
<1>3. PICK padding \in Nat : padding = Padding(spec.width, Len(prefix) + Len(body))
  BY <1>1, <1>2 DEF Padding
<1>4. align \in Align \ {"default"}
  OBVIOUS
<1> QED BY <1>2, <1>3, <1>4, AlignedIs

LEMMA OrIs ==
  ASSUME NEW spec, IsSpec(spec), NEW align, align \in Align, align # "default"
  PROVE  Or(spec, align) \in Align /\ Or(spec, align) # "default"
BY DEF Or, IsSpec

LEMMA ZerosText ==
  ASSUME CharsAreThere, NEW spec, spec.precision \in Int, NEW digits, digits \in Seq(Char)
  PROVE  ZerosFor(spec, digits) \in Seq(Char)
<1>1. "0" \in Char
  <2>1. \A d \in 1..16 : Digit[d] \in Char
    BY DEF CharsAreThere
  <2>2. Digit[1] = "0" /\ 1 \in 1..16
    BY DEF Digit
  <2> QED BY <2>1, <2>2, Zenon
<1>2. PICK m \in Nat : m = Max({0, spec.precision - Len(digits)})
  <2>1. PICK d \in Int : d = spec.precision - Len(digits)
    OBVIOUS
  <2>2. Max({0, d}) \in Nat
    BY MaxIs
  <2> QED BY <2>1, <2>2
<1> QED BY <1>1, <1>2, RepeatIs DEF ZerosFor

LEMMA ExpectedPointer ==
  ASSUME NEW w, NEW spec, NEW arg, spec = w.spec, arg = w.arg, IsPointer(arg, spec), arg.type # "double"
  PROVE  Expected(w) =
           Aligned(spec, IF Zeros(arg, spec) # <<>> /\ spec.align # "left" THEN "right" ELSE Or(spec, "right"),
                   Prefix(arg.value, Shown(spec)), Zeros(arg, spec) \o DigitsOf(arg, spec))
BY Zenon DEF Expected, Or

LEMMA ExpectedInt ==
  ASSUME NEW w, NEW spec, NEW arg, spec = w.spec, arg = w.arg, ~IsPointer(arg, spec), IsInt(arg, spec),
         arg.type # "double"
  PROVE  Expected(w) = Aligned(spec, Or(spec, "right"), Prefix(arg.value, spec), DigitsOf(arg, spec))
BY Zenon DEF Expected, Or

LEMMA ExpectedDouble ==
  ASSUME NEW w, NEW spec, NEW arg, spec = w.spec, arg = w.arg, ~IsPointer(arg, spec), ~IsInt(arg, spec),
         arg.type = "double", ~arg.special
  PROVE  Expected(w) = Aligned(DoubleSpec(spec), Or(spec, "right"), SignOf(arg, spec), arg.text)
BY Zenon DEF Expected, Or, DoubleSpec, SignOf, Blank

LEMMA ExpectedText ==
  ASSUME NEW w, NEW spec, NEW arg, spec = w.spec, arg = w.arg, ~IsPointer(arg, spec), ~IsInt(arg, spec),
         arg.type # "double" \/ arg.special
  PROVE  Expected(w) = Aligned(spec, TextAlign(spec), <<>>,
                               IF arg.type = "double" THEN SignOf(arg, spec) \odot arg.text ELSE AsText(arg, spec))
BY Zenon DEF Expected, TextAlign, SignOf, \odot

LEMMA DigitsOfPointer ==
  ASSUME NEW arg, NEW spec, IsPointer(arg, spec), IsSpec(spec)
  PROVE  /\ DigitsOf(arg, spec) = DigitsIn(arg.value, Shown(spec))
         /\ Zeros(arg, spec) = ZerosFor(spec, DigitsIn(arg.value, Shown(spec)))
<1>1. Shown(spec).type = "x"
  BY ShownIs
<1>2. DigitsOf(arg, spec) = DigitsIn(arg.value, Shown(spec))
  BY <1>1, Zenon DEF DigitsOf, DigitsIn
<1> QED BY <1>2, Zenon DEF Zeros, ZerosFor

LEMMA PointerShown ==
  ASSUME CharsAreThere, NEW b, IsBuffer(b), NEW w, NEW spec, NEW arg, spec = w.spec, arg = w.arg,
         w.at = b.size, ~PaddedAtTheEnd(w), IsField(arg, spec), IsPointer(arg, spec)
  PROVE  Writes(b, Visit(b, arg, spec), Expected(w)) /\ Expected(w) \in Seq(Char)
<1>1. IsSpec(spec) /\ spec.precision \in Int /\ arg.value \in Int /\ arg.type # "double"
  BY DEF IsField, IsPlain, IsPointer
<1>2. PICK digits, zeros : /\ digits = DigitsIn(arg.value, Shown(spec)) /\ digits = DigitsOf(arg, spec)
                           /\ zeros = ZerosFor(spec, digits) /\ zeros = Zeros(arg, spec)
  BY <1>1, DigitsOfPointer
<1>3. ~(zeros # <<>> /\ spec.align = "left" /\ b.size + spec.width > InlineSize)
  BY <1>2, Zenon DEF PaddedAtTheEnd
<1>4. PICK align : align = IF zeros # <<>> /\ spec.align # "left" THEN "right" ELSE Or(spec, "right")
  OBVIOUS
<1>5. align \in Align /\ align # "default"
  <2>1. "right" \in Align
    BY DEF Align
  <2> QED BY <1>1, <1>4, <2>1, OrIs
<1>6. Expected(w) = Aligned(spec, align, Prefix(arg.value, Shown(spec)), zeros \o digits)
  BY <1>1, <1>2, <1>4, ExpectedPointer, Zenon
<1>7. Writes(b, write_int(b, arg.value, Shown(spec)),
             Aligned(spec, align, Prefix(arg.value, Shown(spec)), zeros \o digits))
  BY <1>1, <1>2, <1>3, <1>4, PointerWrites
<1>8. Visit(b, arg, spec) = write_int(b, arg.value, Shown(spec))
  BY <1>1, Zenon DEF Visit
<1>9. digits \in Seq(Char) /\ zeros \in Seq(Char) /\ Prefix(arg.value, Shown(spec)) \in Seq(Char)
  <2>1. IsValue(arg.value, Shown(spec))
    BY <1>1, ShownIs DEF IsValue
  <2> QED BY <1>1, <1>2, <2>1, DigitsInIs, ZerosText, PrefixText
<1>10. zeros \o digits \in Seq(Char)
  BY <1>9
<1> QED BY <1>1, <1>5, <1>6, <1>7, <1>8, <1>9, <1>10, AlignedChars

LEMMA IntShown ==
  ASSUME CharsAreThere, NEW b, IsBuffer(b), NEW w, NEW spec, NEW arg, spec = w.spec, arg = w.arg,
         IsField(arg, spec), ~IsPointer(arg, spec), IsInt(arg, spec)
  PROVE  Writes(b, Visit(b, arg, spec), Expected(w)) /\ Expected(w) \in Seq(Char)
<1>1. IsSpec(spec) /\ spec.precision \in Int /\ arg.value \in Int /\ arg.type # "double" /\ arg.type \in IntType
  BY DEF IsField, IsPlain, IsInt, IntType
<1>2. ~(spec.precision >= 0)
  BY <1>1 DEF IsField, SpecAllowed
<1>3. IsValue(arg.value, spec)
  <2>1. spec.type \in {NoType, "d", "x", "b", "o"}
    BY <1>1 DEF IsField, TypeAllowed, IsInt, IntType
  <2> QED BY <1>1, <2>1 DEF IsValue
<1>4. PICK digits : digits = DigitsIn(arg.value, spec) /\ digits \in Seq(Char)
  BY <1>3, DigitsInIs
<1>5. digits = DigitsOf(arg, spec)
  BY <1>4, Zenon DEF DigitsOf, DigitsIn
<1>6. Writes(b, write_int(b, arg.value, spec),
             Aligned(spec, Or(spec, "right"), Prefix(arg.value, spec), digits))
  <2>1. spec.precision <= Len(digits)
    BY <1>1, <1>2, <1>4
  <2> QED BY <1>1, <1>3, <1>4, <2>1, IntWrites
<1>7. Expected(w) = Aligned(spec, Or(spec, "right"), Prefix(arg.value, spec), digits)
  BY <1>1, <1>5, ExpectedInt, Zenon
<1>8. Visit(b, arg, spec) = write_int(b, arg.value, spec)
  BY <1>1, Zenon DEF Visit
<1>9. Prefix(arg.value, spec) \in Seq(Char)
  BY <1>1, PrefixText
<1>10. Or(spec, "right") \in Align /\ Or(spec, "right") # "default"
  <2>1. "right" \in Align
    BY DEF Align
  <2> QED BY <1>1, <2>1, OrIs
<1> QED BY <1>1, <1>4, <1>6, <1>7, <1>8, <1>9, <1>10, AlignedChars

LEMMA NotANumber ==
  ASSUME NEW arg, NEW spec, arg.type = "double"
  PROVE  ~IsPointer(arg, spec) /\ ~IsInt(arg, spec)
BY DEF IsPointer, IsInt

LEMMA DoubleAligned ==
  ASSUME CharsAreThere, NEW b, IsBuffer(b), NEW spec, IsSpec(spec), NEW number, IsDouble(number), ~number.special,
         ~(spec.align = "center" /\ b.size + spec.width > InlineSize)
  PROVE  Writes(b, write_double(b, number, spec),
                Aligned(DoubleSpec(spec), Or(spec, "right"), SignOf(number, spec), number.text))
<1>1. spec.width \in Nat /\ spec.fill \in Cell /\ spec.align \in {"default", "left", "right", "center", "numeric"}
  BY DEF IsSpec, Cell, Align
<1>2. PICK text : text = number.text /\ text \in Seq(Char)
  BY DEF IsDouble
<1>3. PICK l \in Nat : IsText(text, l)
  BY <1>2, CharText
<1>4. PICK sign : sign = SignOf(number, spec)
  OBVIOUS
<1>5. PICK k \in Nat : IsSign(sign, k)
  <2>1. number.negative \in BOOLEAN
    BY DEF IsDouble
  <2>2. sign = Sign(number.negative, spec.flags)
    BY <1>4, Zenon DEF SignOf
  <2> QED BY <2>1, <2>2, SignSize
<1>6. spec.align # "left" => DoubleSpec(spec) = spec
  BY Zenon DEF DoubleSpec
<1>7. CASE spec.align = "left"
  <2>1. Or(spec, "right") = "left"
    BY <1>7 DEF Or
  <2>2. Writes(b, write_double(b, number, spec), Aligned(DoubleSpec(spec), "left", sign, text))
    BY <1>2, <1>3, <1>4, <1>5, <1>7, DoubleOnTheLeft
  <2> QED BY <1>2, <1>4, <2>1, <2>2, Zenon
<1>8. CASE spec.align \in {"right", "default"}
  <2>1. Or(spec, "right") = "right" /\ spec.align # "left"
    BY <1>8 DEF Or
  <2>2. Writes(b, write_double(b, number, spec), Aligned(spec, "right", sign, text))
    BY <1>1, <1>2, <1>3, <1>4, <1>5, <1>8, DoubleOnTheRight
  <2> QED BY <1>2, <1>4, <1>6, <2>1, <2>2, Zenon
<1>9. CASE spec.align = "numeric" \/ (spec.align = "center" /\ spec.width <= k + l)
  <2>1. Or(spec, "right") = spec.align /\ spec.align # "left"
    BY <1>9 DEF Or
  <2>2. Writes(b, write_double(b, number, spec), Aligned(spec, spec.align, sign, text))
    BY <1>1, <1>2, <1>3, <1>4, <1>5, <1>9, DoubleInTheMiddle
  <2> QED BY <1>2, <1>4, <1>6, <2>1, <2>2, Zenon
<1>10. CASE spec.align = "center" /\ ~(spec.width <= k + l)
  <2>1. Or(spec, "right") = "center" /\ spec.align # "left"
    BY <1>10 DEF Or
  <2>2. spec.width > k + l /\ b.size + spec.width <= InlineSize
    <3>1. b.size \in Nat /\ InlineSize \in Nat
      BY InlineSizeAssumption DEF IsBuffer
    <3> QED BY <1>1, <1>10, <3>1
  <2>3. Writes(b, write_double(b, number, spec), Aligned(spec, "center", sign, text))
    BY <1>1, <1>2, <1>3, <1>4, <1>5, <1>10, <2>2, DoubleCentred
  <2> QED BY <1>2, <1>4, <1>6, <2>1, <2>3, Zenon
<1> QED BY <1>1, <1>7, <1>8, <1>9, <1>10

LEMMA DoubleShown ==
  ASSUME CharsAreThere, NEW b, IsBuffer(b), NEW w, NEW spec, NEW arg, spec = w.spec, arg = w.arg,
         w.at = b.size, ~CentredAtTheEnd(w), IsField(arg, spec), arg.type = "double", ~arg.special
  PROVE  Writes(b, Visit(b, arg, spec), Expected(w)) /\ Expected(w) \in Seq(Char)
<1>1. IsSpec(spec) /\ IsDouble(arg)
  BY DEF IsField, IsPlain
<1>2. ~IsPointer(arg, spec) /\ ~IsInt(arg, spec)
  BY NotANumber
<1>3. ~(spec.align = "center" /\ b.size + spec.width > InlineSize)
  BY Zenon DEF CentredAtTheEnd
<1>4. Writes(b, write_double(b, arg, spec),
             Aligned(DoubleSpec(spec), Or(spec, "right"), SignOf(arg, spec), arg.text))
  BY <1>1, <1>3, DoubleAligned
<1>5. Expected(w) = Aligned(DoubleSpec(spec), Or(spec, "right"), SignOf(arg, spec), arg.text)
  BY <1>2, ExpectedDouble
<1>6. Visit(b, arg, spec) = write_double(b, arg, spec)
  BY <1>2, Zenon DEF Visit
<1>7. IsSpec(DoubleSpec(spec))
  <2>1. PICK s : s = [spec EXCEPT !.fill = Blank]
    OBVIOUS
  <2>2. IsSpec(s)
    BY <1>1, <2>1, BlankIs DEF IsSpec
  <2> QED BY <1>1, <2>1, <2>2 DEF DoubleSpec
<1>8. Or(spec, "right") \in Align /\ Or(spec, "right") # "default"
  <2>1. "right" \in Align
    BY DEF Align
  <2> QED BY <1>1, <2>1, OrIs
<1>9. SignOf(arg, spec) \in Seq(Char) /\ arg.text \in Seq(Char)
  <2>1. arg.negative \in BOOLEAN /\ arg.text \in Seq(Char)
    BY <1>1 DEF IsDouble
  <2>2. Sign(arg.negative, spec.flags) \in Seq(Char)
    BY <2>1, SignText
  <2> QED BY <2>1, <2>2, Zenon DEF SignOf
<1>10. Expected(w) \in Seq(Char)
  BY <1>5, <1>7, <1>8, <1>9, AlignedChars
<1> QED BY <1>4, <1>5, <1>6, <1>10, Zenon

LEMMA SpecialShown ==
  ASSUME CharsAreThere, NEW b, IsBuffer(b), NEW w, NEW spec, NEW arg, spec = w.spec, arg = w.arg,
         IsField(arg, spec), arg.type = "double", arg.special
  PROVE  Writes(b, Visit(b, arg, spec), Expected(w)) /\ Expected(w) \in Seq(Char)
<1>1. IsSpec(spec) /\ arg.negative \in BOOLEAN /\ arg.text \in Seq(Char)
  BY DEF IsField, IsPlain
<1>2. ~IsPointer(arg, spec) /\ ~IsInt(arg, spec)
  BY NotANumber
<1>3. PICK sign : sign = SignOf(arg, spec) /\ sign = Sign(arg.negative, spec.flags) /\ sign \in Seq(Char)
  BY <1>1, SignText DEF SignOf
<1>4. PICK k \in Nat : IsSign(sign, k)
  BY <1>1, <1>3, SignSize
<1>5. PICK text : text = arg.text /\ text \in Seq(Char)
  BY <1>1
<1>6. PICK l \in Nat : IsText(text, l)
  BY <1>5, CharText
<1>7. Writes(b, write_special(b, arg, sign, spec), Aligned(spec, TextAlign(spec), <<>>, sign \odot text))
  BY <1>1, <1>4, <1>5, <1>6, SpecialWrites
<1>8. Visit(b, arg, spec) = write_special(b, arg, sign, spec)
  BY <1>2, <1>3, Zenon DEF Visit, write_double
<1>9. Expected(w) = Aligned(spec, TextAlign(spec), <<>>, sign \odot text)
  BY <1>2, <1>3, <1>5, ExpectedText, Zenon
<1>10. sign \odot text \in Seq(Char)
  <2>1. sign \o text \in Seq(Char)
    BY <1>3, <1>5
  <2> QED BY <2>1, Zenon DEF \odot
<1>11. TextAlign(spec) \in Align /\ TextAlign(spec) # "default"
  BY <1>1, TextAlignIs DEF IsSpec
<1>12. Expected(w) \in Seq(Char)
  <2>1. <<>> \in Seq(Char)
    OBVIOUS
  <2> QED BY <1>1, <1>9, <1>10, <1>11, <2>1, AlignedChars
<1> QED BY <1>7, <1>8, <1>9, <1>12, Zenon

LEMMA AsTextIs ==
  ASSUME CharsAreThere, NEW spec, NEW arg, IsField(arg, spec), ~IsPointer(arg, spec), ~IsInt(arg, spec),
         arg.type # "double"
  PROVE  AsText(arg, spec) \in Seq(Char)
<1>1. CASE arg.type = "bool"
  <2>1. \A d \in 1..16 : Digit[d] \in Char
    BY DEF CharsAreThere
  <2>2. {"t", "r", "u", "l", "s"} \subseteq Char
    BY DEF CharsAreThere
  <2>3. Digit[15] = "e" /\ Digit[11] = "a" /\ Digit[16] = "f" /\ {15, 11, 16} \subseteq 1..16
    BY DEF Digit
  <2>4. Digit[15] \in Char /\ Digit[11] \in Char /\ Digit[16] \in Char
    BY <2>1, <2>3
  <2>5. "e" \in Char /\ "a" \in Char /\ "f" \in Char
    BY <2>3, <2>4, Zenon
  <2>6. <<"t", "r", "u", "e">> \in Seq(Char) /\ <<"f", "a", "l", "s", "e">> \in Seq(Char)
    BY <2>2, <2>5
  <2> QED BY <1>1, <2>6, Zenon DEF AsText
<1>2. CASE arg.type = "char"
  <2>1. arg.text \in Char
    BY <1>2 DEF IsField, IsPlain
  <2>2. <<arg.text>> \in Seq(Char)
    BY <2>1
  <2>3. AsText(arg, spec) = <<arg.text>>
    BY <1>2 DEF AsText
  <2> QED BY <2>2, <2>3
<1>3. CASE arg.type \notin {"bool", "char"}
  <2>1. arg.type \in {"string", "cstring"}
    BY <1>3 DEF IsField, IsPlain, IntType, IsInt, IsPointer
  <2>2. arg.text \in Seq(Char)
    BY <2>1 DEF IsField, IsPlain, TypeAllowed, IsPointer
  <2>3. spec.precision \in Int
    BY DEF IsField
  <2>4. AsText(arg, spec) = IF spec.precision >= 0
                            THEN SubSeq(arg.text, 1, Min({Len(arg.text), spec.precision})) ELSE arg.text
    BY <1>3, Zenon DEF AsText
  <2>5. CASE spec.precision >= 0
    <3>1. PICK n \in Nat : n = Len(arg.text)
      BY <2>2
    <3>2. PICK m \in Nat : m = Min({n, spec.precision}) /\ m <= n
      <4>1. \A i, j \in Int : Min({i, j}) = IF i <= j THEN i ELSE j
        BY DEF Min
      <4>2. Min({n, spec.precision}) = IF n <= spec.precision THEN n ELSE spec.precision
        BY <2>3, <4>1
      <4> QED BY <2>3, <2>5, <4>2
    <3>3. SubSeq(arg.text, 1, m) \in Seq(Char)
      <4>1. PICK t : t = arg.text /\ t \in Seq(Char) /\ Len(t) = n
        BY <2>2, <3>1
      <4>2. m \in Nat /\ m <= n
        BY <3>2
      <4>3. SubSeq(t, 1, m) \in Seq(Char)
        BY <4>1, <4>2
      <4> QED BY <4>1, <4>3, Zenon
    <3> QED BY <2>4, <2>5, <3>1, <3>2, <3>3
  <2> QED BY <2>2, <2>4, <2>5
<1> QED BY <1>1, <1>2, <1>3

LEMMA TextShown ==
  ASSUME CharsAreThere, NEW b, IsBuffer(b), NEW w, NEW spec, NEW arg, spec = w.spec, arg = w.arg,
         IsField(arg, spec), ~IsPointer(arg, spec), ~IsInt(arg, spec), arg.type # "double"
  PROVE  Writes(b, Visit(b, arg, spec), Expected(w)) /\ Expected(w) \in Seq(Char)
<1>1. /\ IsSpec(spec) /\ spec.width \in Nat /\ spec.fill \in Cell /\ spec.align \in Align
      /\ {"align", "width", "fill"} \subseteq DOMAIN spec
  BY DEF IsField, IsSpec, Cell
<1>2. PICK text : text = AsText(arg, spec) /\ text \in Seq(Char)
  BY AsTextIs
<1>3. PICK k \in Nat : IsText(text, k)
  BY <1>2, CharText
<1>4. PICK align : align = TextAlign(spec) /\ align \in Align /\ align # "default"
  BY <1>1, TextAlignIs
<1>5. Writes(b, write_str(b, text, spec), Aligned(spec, align, <<>>, text))
  <2>1. align = IF spec.align \in {"default", "numeric"} THEN "left" ELSE spec.align
    BY <1>4, Zenon DEF TextAlign
  <2> QED BY <1>1, <1>3, <2>1, StrWrites
<1>6. Expected(w) = Aligned(spec, align, <<>>, text)
  BY <1>2, <1>4, ExpectedText, Zenon
<1>7. Visit(b, arg, spec) = write_str(b, text, spec)
  BY <1>2, Zenon DEF Visit
<1>8. <<>> \in Seq(Char)
  OBVIOUS
<1>9. Expected(w) \in Seq(Char)
  BY <1>1, <1>2, <1>4, <1>6, <1>8, AlignedChars
<1> QED BY <1>5, <1>6, <1>7, <1>9, Zenon

\* Whatever the argument and what the field asks for, what is expected is
\* written, but at the end of the buffer.
LEMMA VisitWrites ==
  ASSUME CharsAreThere, NEW b, IsBuffer(b), NEW w, w.at = b.size, ~CentredAtTheEnd(w), ~PaddedAtTheEnd(w),
         IsField(w.arg, w.spec)
  PROVE  Writes(b, Visit(b, w.arg, w.spec), Expected(w)) /\ Expected(w) \in Seq(Char)
<1>1. PICK arg, spec : arg = w.arg /\ spec = w.spec
  OBVIOUS
<1>2. CASE IsPointer(arg, spec)
  BY <1>1, <1>2, PointerShown
<1>3. CASE ~IsPointer(arg, spec) /\ IsInt(arg, spec)
  BY <1>1, <1>3, IntShown
<1>4. CASE arg.type = "double" /\ ~arg.special
  BY <1>1, <1>4, DoubleShown
<1>5. CASE arg.type = "double" /\ arg.special
  BY <1>1, <1>5, SpecialShown
<1>6. CASE ~IsPointer(arg, spec) /\ ~IsInt(arg, spec) /\ arg.type # "double"
  BY <1>1, <1>6, TextShown
<1> QED BY <1>2, <1>3, <1>4, <1>5, <1>6

-----------------------------------------------------------------------------
(***************************************************************************)
(* All of them: what a field was written as stays where it was put.        *)
(***************************************************************************)

\* What callers pass: fields with all that is asked of one, texts of
\* characters, and arguments that are plain once their names are left out.
CallsAreTyped ==
  /\ \A arg \in Arg : IsPlain(Unnamed(arg))
  /\ \A p \in Part :
       /\ p.kind = "text" => p.text \in Seq(Char)
       /\ p.kind = "field" =>
            /\ IsSpec(p.spec)
            /\ p.width.by = "value" => p.width.value \in Nat
            /\ p.precision.by = "value" => p.precision.value \in Int

\* What is expected of w is a part of the text.
Shows(b, w) ==
  /\ w.at \in Nat /\ Expected(w) \in Seq(Char)
  /\ w.at + Len(Expected(w)) <= b.size /\ Has(b, w.at, Expected(w))

NoneAtTheEnd == \A i \in DOMAIN written : ~CentredAtTheEnd(written[i]) /\ ~PaddedAtTheEnd(written[i])

WholeInv ==
  NoneAtTheEnd =>
    /\ IsBuffer(buffer) /\ Text(buffer) \in Seq(Char)
    /\ \A i \in DOMAIN written : Shows(buffer, written[i])

LEMMA NextOfLookup ==
  ASSUME NEW n \in Int, NEW ref
  PROVE  Lookup(n, ref).next \in Int /\ LookupSize(n, ref).next \in Int
<1>1. Lookup(n, ref).next \in Int
  <2>1. CASE ref.by = "count" /\ n >= 0
    <3>1. Lookup(n, ref).next = n + 1
      BY <2>1 DEF Lookup
    <3> QED BY <3>1
  <2>2. CASE ref.by = "number" /\ n <= 0
    <3>1. Lookup(n, ref).next = -1
      BY <2>2 DEF Lookup
    <3> QED BY <3>1
  <2>3. CASE ref.by = "name" /\ n <= 0
    <3>1. Lookup(n, ref).next = -1
      BY <2>3 DEF Lookup
    <3> QED BY <3>1
  <2>4. CASE ~(ref.by = "count" /\ n >= 0) /\ ~(ref.by \in {"number", "name"} /\ n <= 0)
    <3>1. Lookup(n, ref).next = n
      BY <2>4 DEF Lookup
    <3> QED BY <3>1
  <2> QED BY <2>1, <2>2, <2>3, <2>4
<1>2. PICK looked : looked = Lookup(n, ref) /\ looked.next \in Int
  BY <1>1
<1>3. CASE ref.by = "value"
  <2>1. LookupSize(n, ref).next = n
    BY <1>3 DEF LookupSize
  <2> QED BY <1>1, <2>1
<1>4. CASE ref.by # "value"
  <2> DEFINE good == looked.arg.type \in {"int", "uint"} /\ looked.arg.value >= 0
  <2>1. LookupSize(n, ref) = [next |-> looked.next, ok |-> good, size |-> IF good THEN looked.arg.value ELSE 0]
    BY <1>2, <1>4 DEF LookupSize
  <2>2. LookupSize(n, ref).next = looked.next
    BY <2>1
  <2> QED BY <1>2, <2>2
<1> QED BY <1>1, <1>3, <1>4

\* What is found is one of the arguments.
LEMMA FoundIsPlain ==
  ASSUME CallTypes, CallsAreWellFormed, CallsAreTyped, NEW ref, IsRef(ref), NEW n \in Int,
         Lookup(n, ref).arg # NoArg
  PROVE  IsPlain(Lookup(n, ref).arg)
<1>1. \A i \in 1..Len(args) : args[i] \in Arg
  BY DEF CallTypes
<1>2. PICK arg : arg = Lookup(n, ref).arg /\ arg # NoArg
  OBVIOUS
<1>3. SUFFICES \E i \in 1..Len(args) : arg = Unnamed(args[i])
  BY <1>1, <1>2 DEF CallsAreTyped
<1>4. ASSUME NEW i \in Nat, arg = Unnamed(ArgAt(i))
      PROVE  \E k \in 1..Len(args) : arg = Unnamed(args[k])
  <2>1. ArgAt(i) # NoArg
    BY <1>2, <1>4, UnnamedIsSome
  <2>2. ArgAt(i) = args[i + 1] /\ i + 1 \in 1..Len(args)
    BY <2>1, ArgAtIs DEF CallsAreWellFormed
  <2> QED BY <1>4, <2>2
<1>5. CASE ref.by = "count" /\ n >= 0
  <2>1. n \in Nat /\ arg = Unnamed(ArgAt(n))
    BY <1>2, <1>5 DEF Lookup
  <2> QED BY <2>1, <1>4
<1>6. CASE ref.by = "number" /\ n <= 0
  <2>1. ref.index \in Nat /\ arg = Unnamed(ArgAt(ref.index))
    BY <1>2, <1>6 DEF Lookup, IsRef
  <2> QED BY <2>1, <1>4
<1>7. CASE ref.by = "name" /\ n <= 0
  <2> DEFINE its == {m \in DOMAIN args : args[m].type = "named" /\ args[m].name = ref.name}
  <2>1. arg = Named(ref.name)
    BY <1>2, <1>7 DEF Lookup
  <2>2. its # {} /\ arg = args[Min(its)].arg
    BY <1>2, <2>1 DEF Named
  <2>3. DOMAIN args = 1..Len(args) /\ its \in SUBSET Nat
    BY DEF CallTypes
  <2>4. Min(its) \in its
    <3> HIDE DEF its
    <3>1. \E m \in its : \A q \in its : m <= q
      BY <2>2, <2>3, FirstNumber
    <3> QED BY <3>1 DEF Min
  <2>5. Min(its) \in 1..Len(args) /\ args[Min(its)].type = "named"
    BY <2>3, <2>4
  <2> QED BY <2>2, <2>5 DEF Unnamed
<1>8. CASE ~(ref.by = "count" /\ n >= 0) /\ ~(ref.by \in {"number", "name"} /\ n <= 0)
  BY <1>2, <1>8 DEF Lookup
<1> QED BY <1>5, <1>6, <1>7, <1>8

LEMMA SizeIs ==
  ASSUME CallTypes, CallsAreWellFormed, CallsAreTyped, NEW ref, IsSize(ref), NEW n \in Int,
         LookupSize(n, ref).ok
  PROVE  IF ref.by = "value" THEN LookupSize(n, ref).size = ref.value ELSE LookupSize(n, ref).size \in Nat
<1>1. CASE ref.by = "value"
  BY <1>1 DEF LookupSize
<1>2. CASE ref.by # "value"
  <2>1. IsRef(ref)
    BY <1>2 DEF IsSize
  <2>2. PICK looked : looked = Lookup(n, ref)
    OBVIOUS
  <2> DEFINE good == looked.arg.type \in {"int", "uint"} /\ looked.arg.value >= 0
  <2>3. LookupSize(n, ref) = [next |-> looked.next, ok |-> good, size |-> IF good THEN looked.arg.value ELSE 0]
    BY <1>2, <2>2 DEF LookupSize
  <2>4. good
    <3>1. ASSUME ~good PROVE FALSE
      <4>1. LookupSize(n, ref) = [next |-> looked.next, ok |-> FALSE, size |-> 0]
        BY <1>2, <2>2, <3>1 DEF LookupSize
      <4>2. ~[next |-> looked.next, ok |-> FALSE, size |-> 0].ok
        OBVIOUS
      <4> QED BY <4>1, <4>2
    <3> QED BY <3>1
  <2>5. IsPlain(looked.arg)
    <3>1. looked.arg # NoArg
      BY <2>4 DEF NoArg
    <3> QED BY <2>1, <2>2, <3>1, FoundIsPlain
  <2>6. looked.arg.value \in Int
    BY <2>4, <2>5 DEF IsPlain, IntType
  <2>7. LookupSize(n, ref).size = looked.arg.value
    BY <2>3, <2>4
  <2> QED BY <1>2, <2>4, <2>6, <2>7
<1> QED BY <1>1, <1>2

LEMMA StringIsPlain ==
  ASSUME NEW arg, IsPlain(arg)
  PROVE  IsPlain(AsString(arg)) /\ AsString(arg).type # "custom"
<1>1. CASE arg.type = "custom"
  <2>1. arg.text \in Seq(Char)
    BY <1>1 DEF IsPlain
  <2>2. AsString(arg) = [type |-> "string", text |-> arg.text]
    BY <1>1 DEF AsString
  <2>3. AsString(arg).type = "string" /\ AsString(arg).text \in Seq(Char)
    BY <2>1, <2>2
  <2> QED BY <2>3 DEF IsPlain, IntType
<1>2. CASE arg.type # "custom"
  BY <1>2 DEF AsString
<1> QED BY <1>1, <1>2

LEMMA TextGrows ==
  ASSUME NEW b, IsBuffer(b), Text(b) \in Seq(Char), NEW t \in Seq(Char), NEW c, Writes(b, c, t)
  PROVE  IsBuffer(c) /\ Text(c) \in Seq(Char)
<1>1. PICK n, l \in Nat : n = b.size /\ l = Len(t)
  BY DEF IsBuffer
<1>2. PICK u : u = Text(b) /\ u \in Seq(Char) /\ Len(u) = n
  BY <1>1, TextOfBuffer
<1>3. IsBuffer(c) /\ c.size = n + l /\ Has(c, 0, u) /\ Has(c, n, t)
  BY <1>1, <1>2 DEF Writes
<1>4. PICK v : v = Text(c) /\ v \in Seq(Cell) /\ Len(v) = n + l /\ \A i \in 1..(n + l) : v[i] = c.ptr[i]
  BY <1>3, TextOfBuffer
<1>5. \A j \in 1..n : c.ptr[0 + j] = u[j]
  BY <1>2, <1>3 DEF Has
<1>6. \A j \in 1..l : c.ptr[n + j] = t[j]
  BY <1>1, <1>3 DEF Has
<1>7. ASSUME NEW i \in 1..(n + l)
      PROVE  c.ptr[i] \in Char
  <2>1. CASE i <= n
    <3>1. i \in 1..n /\ 0 + i = i
      BY <1>1, <2>1
    <3>2. c.ptr[i] = u[i]
      BY <1>5, <3>1
    <3> QED BY <1>2, <3>1, <3>2
  <2>2. CASE i > n
    <3>1. i - n \in 1..l /\ n + (i - n) = i
      BY <1>1, <2>2
    <3>2. c.ptr[i] = t[i - n]
      BY <1>6, <3>1
    <3> QED BY <1>1, <3>1, <3>2
  <2> QED BY <1>1, <2>1, <2>2
<1>8. \A i \in 1..Len(v) : v[i] \in Char
  BY <1>4, <1>7
<1>9. v \in Seq(Char)
  BY <1>4, <1>8
<1> QED BY <1>3, <1>4, <1>9

LEMMA ShowsStays ==
  ASSUME NEW b, IsBuffer(b), NEW t \in Seq(Char), NEW c, Writes(b, c, t), NEW w, Shows(b, w)
  PROVE  Shows(c, w)
<1>1. PICK e : e = Expected(w) /\ e \in Seq(Char) /\ e \in Seq(Cell)
  BY CharsAreCells DEF Shows
<1>2. w.at \in Nat /\ w.at + Len(e) <= b.size /\ Has(b, w.at, e)
  BY <1>1 DEF Shows
<1>3. IsBuffer(c) /\ c.size = b.size + Len(t) /\ Has(c, 0, Text(b))
  BY DEF Writes
<1>4. Has(c, w.at, e)
  BY <1>1, <1>2, <1>3, PartOfText
<1>5. w.at + Len(e) <= c.size
  <2>1. b.size \in Nat /\ Len(t) \in Nat /\ Len(e) \in Nat
    BY <1>1 DEF IsBuffer
  <2> QED BY <1>2, <1>3, <2>1
<1> QED BY <1>1, <1>2, <1>4, <1>5 DEF Shows

LEMMA NowShows ==
  ASSUME NEW b, IsBuffer(b), NEW w, w.at = b.size, Expected(w) \in Seq(Char), NEW c, Writes(b, c, Expected(w))
  PROVE  Shows(c, w)
<1>1. w.at \in Nat
  BY DEF IsBuffer
<1>2. PICK n \in Nat : n = w.at + Len(Expected(w))
  BY <1>1
<1>3. c.size = n /\ Has(c, w.at, Expected(w))
  BY <1>2 DEF Writes
<1> QED BY <1>1, <1>2, <1>3 DEF Shows

LEMMA EmptyIsBuffer ==
  ASSUME CharsAreThere
  PROVE  IsBuffer(EmptyBuffer) /\ Text(EmptyBuffer) \in Seq(Char)
<1>1. PICK p : p = Repeat(Unset, InlineSize) /\ p \in Seq(Cell) /\ Len(p) = InlineSize
  <2>1. Unset \in Cell
    BY DEF Cell
  <2> QED BY <2>1, RepeatIs, InlineSizeAssumption
<1>2. EmptyBuffer = [ptr |-> p, size |-> 0]
  BY <1>1 DEF EmptyBuffer
<1>3. IsBuffer(EmptyBuffer)
  BY <1>1, <1>2, InlineSizeAssumption DEF IsBuffer
<1>4. Text(EmptyBuffer) \in Seq(Cell) /\ Len(Text(EmptyBuffer)) = 0
  BY <1>2, <1>3, TextOfBuffer
<1>5. Text(EmptyBuffer) = <<>>
  BY <1>4
<1> QED BY <1>3, <1>5

LEMMA ShownIsWhole ==
  ASSUME IsBuffer(buffer), NEW w, Shows(buffer, w)
  PROVE  IsWhole(w)
<1>1. PICK x, l \in Nat : x = w.at /\ l = Len(Expected(w))
  BY DEF Shows
<1>2. PICK e : e = Expected(w) /\ e \in Seq(Char) /\ Len(e) = l
  BY <1>1 DEF Shows
<1>3. PICK v, n : v = Text(buffer) /\ v \in Seq(Cell) /\ n = Len(v) /\ n = buffer.size
  BY TextOfBuffer
<1>4. x + l <= n /\ n \in Nat /\ \A j \in 1..l : v[x + j] = e[j]
  <2>1. Has(buffer, x, e) /\ x + l <= n /\ n \in Nat
    BY <1>1, <1>2, <1>3 DEF Shows, IsBuffer
  <2>2. \A i \in 1..n : v[i] = buffer.ptr[i]
    BY <1>3, TextOfBuffer
  <2>3. \A j \in 1..l : buffer.ptr[x + j] = e[j]
    BY <1>2, <2>1 DEF Has
  <2>4. \A j \in 1..l : x + j \in 1..n
    BY <1>1, <2>1
  <2> QED BY <2>1, <2>2, <2>3, <2>4
<1>5. PICK first, last : first = x + 1 /\ last = x + l
  OBVIOUS
<1>6. /\ first \in Nat /\ last \in Nat /\ last - first + 1 = l
      /\ \A i \in first..last : i \in 1..n
  <2>1. x + l <= n /\ n \in Nat
    BY <1>4
  <2>2. x \in Nat /\ l \in Nat
    BY <1>1
  <2> QED BY <1>5, <2>1, <2>2
<1>7. \A i \in first..last : v[i] \in Cell
  <2>1. v \in Seq(Cell) /\ n = Len(v)
    BY <1>3
  <2>2. \A i \in 1..n : v[i] \in Cell
    BY <2>1
  <2> QED BY <1>6, <2>2
<1>8. PICK s : s = SubSeq(v, first, last)
  OBVIOUS
<1>9. s \in Seq(Cell) /\ Len(s) = l /\ \A j \in 1..l : s[j] = v[x + j]
  <2>1. /\ SubSeq(v, first, last) \in Seq(Cell)
        /\ Len(SubSeq(v, first, last)) = IF first <= last THEN last - first + 1 ELSE 0
        /\ \A i \in 1..(last - first + 1) : SubSeq(v, first, last)[i] = v[first + i - 1]
    BY <1>3, <1>6, <1>7, SubSeqProperties
  <2>2. \A i \in 1..l : first + i - 1 = x + i
    BY <1>1, <1>6, <1>5
  <2>3. Len(s) = l
    <3>1. Len(s) = IF first <= last THEN l ELSE 0
      BY <1>6, <1>8, <2>1
    <3>2. first <= last \/ l = 0
      BY <1>1, <1>6, <1>5
    <3> QED BY <3>1, <3>2
  <2> QED BY <1>6, <1>8, <2>1, <2>2, <2>3
<1>10. s = e
  <2>1. e \in Seq(Cell) /\ Len(e) = Len(s) /\ s \in Seq(Cell)
    BY <1>2, <1>9, CharsAreCells
  <2>2. \A j \in 1..l : s[j] = e[j]
    BY <1>4, <1>9
  <2>3. \A j \in 1..Len(s) : s[j] = e[j]
    BY <1>9, <2>2
  <2> QED BY <2>1, <2>3, SeqEqual
<1> QED BY <1>1, <1>2, <1>3, <1>10, <1>8, <1>5, Zenon DEF IsWhole

LEMMA WholeIs ==
  ASSUME CharsAreThere, WholeInv
  PROVE  FieldsAreWhole
<1>1. SUFFICES ASSUME NoneAtTheEnd
               PROVE  (\A i \in DOMAIN written : IsWhole(written[i])) /\ Unset \notin ToSet(Text(buffer))
  BY DEF FieldsAreWhole, NoneAtTheEnd
<1>2. IsBuffer(buffer) /\ Text(buffer) \in Seq(Char) /\ \A i \in DOMAIN written : Shows(buffer, written[i])
  BY <1>1 DEF WholeInv
<1>3. \A i \in DOMAIN written : IsWhole(written[i])
  BY <1>2, ShownIsWhole
<1>4. PICK v : v = Text(buffer) /\ v \in Seq(Char)
  BY <1>2
<1>5. \A i \in DOMAIN v : v[i] \in Char
  BY <1>4
<1>6. Unset \notin Char
  BY DEF CharsAreThere
<1>7. Unset \notin ToSet(v)
  BY <1>5, <1>6 DEF ToSet
<1> QED BY <1>3, <1>4, <1>7

LEMMA CopyTextKeepsWhole ==
  ASSUME CallsAreTyped, FieldInv, WholeInv, CopyText
  PROVE  WholeInv'
<1>1. /\ outcome = "formatting" /\ format_str # <<>> /\ Head(format_str).kind = "text"
      /\ buffer' = append(buffer, Head(format_str).text) /\ written' = written
  BY DEF CopyText, Formatting
<1>2. Head(format_str) \in Part
  BY <1>1, PartInHand DEF FieldInv
<1>3. PICK t : t = Head(format_str).text /\ t \in Seq(Char) /\ t \in Seq(Cell)
  BY <1>1, <1>2, CharsAreCells DEF CallsAreTyped
<1>4. PICK b, c, w : b = buffer /\ c = append(b, t) /\ c = buffer' /\ w = written /\ w = written'
  BY <1>1, <1>3
<1>5. SUFFICES ASSUME NoneAtTheEnd
               PROVE  IsBuffer(c) /\ Text(c) \in Seq(Char) /\ \A i \in DOMAIN w : Shows(c, w[i])
  BY <1>4 DEF WholeInv, NoneAtTheEnd
<1>6. IsBuffer(b) /\ Text(b) \in Seq(Char) /\ \A i \in DOMAIN w : Shows(b, w[i])
  BY <1>4, <1>5 DEF WholeInv
<1>7. Writes(b, c, t)
  BY <1>3, <1>4, <1>6, AppendWrites
<1> QED BY <1>3, <1>6, <1>7, TextGrows, ShowsStays

\* A field is refused and changes nothing, or is written as VisitWrites says.
LEMMA FieldKeepsWhole ==
  ASSUME CharsAreThere, CallsAreWellFormed, CallsAreTyped, FieldInv, WholeInv, Field
  PROVE  WholeInv'
<1>1. PICK n, f, v, wd, pr, arg, sp :
        /\ n = next_arg_index_ /\ f = Head(format_str)
        /\ v = Lookup(n, f.ref) /\ wd = LookupSize(v.next, f.width) /\ pr = LookupSize(wd.next, f.precision)
        /\ arg = AsString(v.arg) /\ sp = [f.spec EXCEPT !.width = wd.size, !.precision = pr.size]
  OBVIOUS
<1>2. outcome = "formatting" /\ format_str # <<>> /\ f.kind = "field"
  BY <1>1, Zenon DEF Field, Formatting
<1>3. \/ UNCHANGED <<buffer, written>>
      \/ /\ arg # NoArg /\ wd.ok /\ pr.ok
         /\ SpecAllowed(arg, sp) /\ TypeAllowed(arg, sp)
         /\ buffer' = Visit(buffer, arg, sp)
         /\ written' = [i \in DOMAIN written \cup {Done + 1} |->
                          IF i = Done + 1 THEN [arg |-> arg, spec |-> sp, at |-> buffer.size]
                          ELSE written[i]]
  BY <1>1, Zenon DEF Field
<1>4. CASE UNCHANGED <<buffer, written>>
  <2>1. PICK b, w : b = buffer /\ b = buffer' /\ w = written /\ w = written'
    BY <1>4
  <2> QED BY <2>1 DEF WholeInv, NoneAtTheEnd
<1>5. CASE ~UNCHANGED <<buffer, written>>
  <2>1. /\ CallTypes /\ Counts(n, RefsBefore(Done + 1, 1))
        /\ DOMAIN written = {i \in Fields : i <= Done}
    BY <1>1, <1>2 DEF FieldInv
  <2>2. PICK here \in Nat : here = Done + 1 /\ f \in Part /\ here \notin DOMAIN written
    <3>1. Done \in Nat /\ f \in Part
      BY <1>1, <1>2, <2>1, PartInHand
    <3>2. Done + 1 \notin DOMAIN written
      BY <2>1, <3>1
    <3> QED BY <3>1, <3>2
  <2>3. n \in Int
    BY <2>1, RefsBeforeIsFinite DEF Counts
  <2>4. /\ IsRef(f.ref) /\ IsSize(f.width) /\ IsSize(f.precision) /\ IsSpec(f.spec)
        /\ f.width.by = "value" => f.width.value \in Nat
        /\ f.precision.by = "value" => f.precision.value \in Int
    BY <1>2, <2>2 DEF CallsAreWellFormed, CallsAreTyped
  <2>5. /\ arg # NoArg /\ wd.ok /\ pr.ok /\ SpecAllowed(arg, sp) /\ TypeAllowed(arg, sp)
        /\ buffer' = Visit(buffer, arg, sp)
        /\ written' = [i \in DOMAIN written \cup {here} |->
                         IF i = here THEN [arg |-> arg, spec |-> sp, at |-> buffer.size] ELSE written[i]]
    BY <1>3, <1>5, <2>2
  <2>6. v.next \in Int /\ wd.next \in Int
    <3>1. v.next \in Int
      BY <1>1, <2>3, NextOfLookup
    <3> QED BY <1>1, <3>1, NextOfLookup
  <2>7. v.arg # NoArg
    <3>1. AsString(NoArg) = NoArg
      BY DEF AsString, NoArg
    <3> QED BY <1>1, <2>5, <3>1, Zenon
  <2>8. IsPlain(v.arg)
    BY <1>1, <2>1, <2>3, <2>4, <2>7, FoundIsPlain
  <2>9. IsPlain(arg) /\ arg.type # "custom"
    BY <1>1, <2>8, StringIsPlain
  <2>10. wd.size \in Nat
    <3>1. IF f.width.by = "value" THEN wd.size = f.width.value ELSE wd.size \in Nat
      BY <1>1, <2>1, <2>4, <2>5, <2>6, SizeIs, Zenon
    <3> QED BY <2>4, <3>1
  <2>11. pr.size \in Int
    <3>1. IF f.precision.by = "value" THEN pr.size = f.precision.value ELSE pr.size \in Nat
      BY <1>1, <2>1, <2>4, <2>5, <2>6, SizeIs, Zenon
    <3> QED BY <2>4, <3>1
  <2>12. IsSpec(sp) /\ sp.precision \in Int
    <3>1. /\ DOMAIN sp = DOMAIN f.spec /\ sp.width = wd.size /\ sp.precision = pr.size
          /\ sp.fill = f.spec.fill /\ sp.align = f.spec.align
      BY <1>1, <2>4 DEF IsSpec
    <3> QED BY <2>4, <2>10, <2>11, <3>1 DEF IsSpec
  <2>13. IsField(arg, sp)
    BY <2>5, <2>9, <2>12 DEF IsField
  <2>14. PICK b, c, old, new : b = buffer /\ c = buffer' /\ old = written /\ new = written'
    OBVIOUS
  <2>15. PICK w : w = [arg |-> arg, spec |-> sp, at |-> b.size]
    OBVIOUS
  <2>16. c = Visit(b, arg, sp) /\ new = [i \in DOMAIN old \cup {here} |-> IF i = here THEN w ELSE old[i]]
    BY <2>5, <2>14, <2>15
  <2>17. here \notin DOMAIN old /\ DOMAIN new = DOMAIN old \cup {here}
         /\ new[here] = w /\ \A i \in DOMAIN old : new[i] = old[i]
    BY <2>2, <2>16, <2>14
  <2>18. SUFFICES ASSUME \A i \in DOMAIN new : ~CentredAtTheEnd(new[i]) /\ ~PaddedAtTheEnd(new[i])
                  PROVE  IsBuffer(c) /\ Text(c) \in Seq(Char) /\ \A i \in DOMAIN new : Shows(c, new[i])
    BY <2>14 DEF WholeInv, NoneAtTheEnd
  <2>19. \A i \in DOMAIN old : ~CentredAtTheEnd(old[i]) /\ ~PaddedAtTheEnd(old[i])
    BY <2>17, <2>18
  <2>20. IsBuffer(b) /\ Text(b) \in Seq(Char) /\ \A i \in DOMAIN old : Shows(b, old[i])
    BY <2>19, <2>14 DEF WholeInv, NoneAtTheEnd
  <2>21. w.arg = arg /\ w.spec = sp /\ w.at = b.size /\ ~CentredAtTheEnd(w) /\ ~PaddedAtTheEnd(w)
    BY <2>17, <2>18, <2>15
  <2>22. PICK t : t = Expected(w) /\ t \in Seq(Char) /\ Writes(b, c, t)
    BY <2>13, <2>16, <2>20, <2>21, VisitWrites
  <2>23. IsBuffer(c) /\ Text(c) \in Seq(Char)
    BY <2>20, <2>22, TextGrows
  <2>24. \A i \in DOMAIN old : Shows(c, old[i])
    BY <2>20, <2>22, ShowsStays
  <2>25. Shows(c, w)
    BY <2>20, <2>21, <2>22, NowShows
  <2> QED BY <2>17, <2>23, <2>24, <2>25
<1> QED BY <1>4, <1>5

(***************************************************************************)
(* Whatever is asked of the fields and given to them, and wherever the     *)
(* buffer has to be grown: every field stands in the text as a reader of   *)
(* the format string expects it, and the text has no place that was never  *)
(* written (BasicWriter and MemoryBuffer), as long as none is centred or   *)
(* padded where the code is known to lose what it has written.             *)
(***************************************************************************)
THEOREM FieldsAreWrittenWhole ==
  ASSUME CharsAreThere, CallsAreWellFormed, CallsAreTyped
  PROVE  FormatSpec => []FieldsAreWhole
<1>1. FormatInit => FieldInv /\ WholeInv
  <2> SUFFICES ASSUME FormatInit PROVE FieldInv /\ WholeInv
    OBVIOUS
  <2>1. FieldInv
    BY DEF FormatInit, FieldInv
  <2>2. DOMAIN written = {} /\ buffer = EmptyBuffer
    BY DEF FormatInit
  <2> QED BY <2>1, <2>2, EmptyIsBuffer DEF WholeInv
<1>2. FieldInv /\ WholeInv /\ [FormatNext]_formatVars => FieldInv' /\ WholeInv'
  <2> SUFFICES ASSUME FieldInv, WholeInv, [FormatNext]_formatVars PROVE FieldInv' /\ WholeInv'
    OBVIOUS
  <2>1. ASSUME NEW parts \in FormatString, NEW list \in ArgLists, Format(parts, list)
        PROVE  FieldInv' /\ WholeInv'
    <3>1. FieldInv'
      BY <2>1, FormatKeeps
    <3>2. DOMAIN written' = {} /\ buffer' = EmptyBuffer
      BY <2>1 DEF Format
    <3>3. PICK b, w : b = buffer' /\ w = written' /\ b = EmptyBuffer /\ DOMAIN w = {}
      BY <3>2
    <3>4. IsBuffer(b) /\ Text(b) \in Seq(Char)
      BY <3>3, EmptyIsBuffer
    <3> QED BY <3>1, <3>3, <3>4 DEF WholeInv
  <2>2. CASE CopyText
    BY <2>2, WriteTextKeeps, CopyTextKeepsWhole
  <2>3. CASE Field
    BY <2>3, FieldKeeps, FieldKeepsWhole
  <2>4. CASE Refuse \/ Return \/ UNCHANGED formatVars
    <3>1. FieldInv'
      BY <2>4, OtherStepsKeep
    <3>2. PICK b, w : b = buffer /\ b = buffer' /\ w = written /\ w = written'
      BY <2>4 DEF Refuse, Return, formatVars
    <3> QED BY <3>1, <3>2 DEF WholeInv, NoneAtTheEnd
  <2> QED BY <2>1, <2>2, <2>3, <2>4 DEF FormatNext
<1>3. FieldInv /\ WholeInv => FieldsAreWhole
  BY WholeIs
<1> QED BY <1>1, <1>2, <1>3, PTL DEF FormatSpec
=============================================================================
