------------------------------ MODULE FileSink ------------------------------
(***************************************************************************)
(* The rotating file sink of spdlog (sinks/file_sinks.h) with the          *)
(* file_helper it writes with: log.txt is files[0], log.1.txt files[1] and *)
(* so on.  A line is the number of the call that logged it, its length is  *)
(* LineSize of that number.                                                *)
(*                                                                         *)
(* Each operation has an outcome: TRUE if it returns, FALSE if it throws.  *)
(* MayFail says whether fopen, fwrite, remove and rename may fail.         *)
(***************************************************************************)
EXTENDS Integers, Sequences, FiniteSets, SequencesExt

CONSTANTS LineSize,     \* of each line
          MaxSize,      \* _max_size
          MaxFiles,     \* _max_files
          MayFail

Line == DOMAIN LineSize

ASSUME FileSinkAssumption ==
  /\ LineSize \in Seq(Nat \ {0})
  /\ MaxSize \in Nat /\ MaxFiles \in Nat
  /\ MayFail \in BOOLEAN

VARIABLES files,           \* what each file holds, the lines in buffers included
          unflushed,       \* how many lines at the end of files[0] are in a buffer only
          current_size     \* _current_size

sinkVars == <<files, unflushed, current_size>>

Absent == <<0>>        \* a file that is not there: no line has the number 0
File == 0..MaxFiles

SinkInit ==
  /\ files = [i \in File |-> Absent]
  /\ unflushed = 0 /\ current_size = 0

SizeOf(lines) == FoldLeft(LAMBDA size, line : size + LineSize[line], 0, lines)

Content(i) == IF files[i] = Absent THEN <<>> ELSE files[i]

\* The constructor opens the first file to append, and asks for its size.
Open(ok) ==
  \/ /\ ok
     /\ files' = [files EXCEPT ![0] = Content(0)]
     /\ current_size' = SizeOf(Content(0))
     /\ unflushed' = 0
  \/ ~ok /\ MayFail /\ UNCHANGED sinkVars

\* fflush, by force or by flush(), and fclose.
Flushed == unflushed' = 0

(***************************************************************************)
(* _rotate renames the files from the last one down; what was in the last  *)
(* is removed.  ShiftedDownTo(j) is what it leaves if it stops when files  *)
(* j and below are still to be written: file j has just been moved away.   *)
(***************************************************************************)
ShiftedDownTo(j) ==
  [i \in File |-> IF i > j THEN files[i - 1] ELSE IF i = j THEN Absent ELSE files[i]]

\* Mutant: a file is not renamed onto one that exists.
RotatedUnlessThere ==
  [i \in File |-> IF i = 0 THEN <<>> ELSE IF files[i] # Absent THEN files[i] ELSE files[i - 1]]

Rotated == [ShiftedDownTo(0) EXCEPT ![0] = <<>>]

\* What is left when the last file cannot be removed, a file cannot be renamed,
\* or the first file cannot be opened again.
HalfRotated ==
  (IF MaxFiles > 0 /\ files[MaxFiles] # Absent THEN {files} ELSE {})
    \cup {ShiftedDownTo(i) : i \in {i \in File \ {0} : files[i - 1] # Absent}}
    \cup {IF MaxFiles = 0 THEN files ELSE ShiftedDownTo(0)}

NewSize(line) ==
  IF current_size + LineSize[line] > MaxSize
  THEN LineSize[line] ELSE current_size + LineSize[line]

(***************************************************************************)
(* _sink_it: rotate if the line does not fit, then write it.  The file is  *)
(* closed before it is renamed, so that nothing stays in a buffer.  A level *)
(* of flush_level or more flushes it.                                      *)
(***************************************************************************)
SinkIt(line, flush, ok) ==
  LET full == current_size + LineSize[line] > MaxSize
      before == IF full THEN Rotated ELSE files IN
  IF ok
  THEN /\ files' = [before EXCEPT ![0] = Append(@, line)]
       /\ unflushed' = IF flush THEN 0 ELSE (IF full THEN 0 ELSE unflushed) + 1
       /\ current_size' = NewSize(line)
  ELSE /\ MayFail
       /\ \/ full /\ files' \in HalfRotated      \* _rotate throws
             /\ current_size' = current_size + LineSize[line]
          \/ files' = before /\ current_size' = NewSize(line)    \* write throws
       /\ unflushed' = IF full THEN 0 ELSE unflushed
=============================================================================
