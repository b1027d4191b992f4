-------------------------- MODULE PatternFormatter --------------------------
(***************************************************************************)
(* pattern_formatter of spdlog (details/pattern_formatter_impl.h): the     *)
(* pattern is compiled once into formatters, which then write each line.   *)
(*                                                                         *)
(* A pattern is a sequence of characters.  In a line the digits and the    *)
(* user's characters are single, and a name, a level or a text is one      *)
(* item.  What localtime makes of a time is external.                      *)
(***************************************************************************)
EXTENDS Writer

CONSTANTS Patterns, Messages,
          MaxLines        \* bound on the lines that are formatted

VARIABLES pattern,        \* the characters that are left
          user_chars,     \* those not yet given to a formatter
          _formatters,
          compiled

\* History: the whole pattern, and the lines with their messages.
VARIABLES given, lines

vars == <<pattern, user_chars, _formatters, compiled, given, lines>>

Init ==
  /\ pattern = <<>> /\ user_chars = <<>> /\ _formatters = <<>>
  /\ compiled = FALSE /\ given = <<>> /\ lines = <<>>
-----------------------------------------------------------------------------
Chars(text) == [by |-> "aggregate", text |-> text]
Char(c) == [by |-> "ch", text |-> <<c>>]
Flag(f) == [by |-> "flag", flag |-> f]

KnownFlag == {"n", "l", "L", "t", "v", "a", "A", "b", "B", "c", "C", "Y", "D", "m", "d", "H",
              "I", "M", "S", "e", "f", "F", "p", "r", "R", "T", "z", "+"}

Synonym == [h |-> "b", x |-> "D", X |-> "T"]

handle_flag(flag) ==
  CASE flag \in KnownFlag -> <<Flag(flag)>>
    [] flag \in DOMAIN Synonym -> <<Flag(Synonym[flag])>>
    [] OTHER -> <<Char("%"), Char(flag)>>

Pending == IF user_chars = <<>> THEN <<>> ELSE <<Chars(user_chars)>>

New(p) ==
  /\ given = <<>> /\ given' = p /\ pattern' = p
  /\ UNCHANGED <<user_chars, _formatters, compiled, lines>>

Compiling == given # <<>> /\ ~compiled /\ pattern # <<>>

UserChar ==
  /\ Compiling /\ Head(pattern) # "%"
  /\ user_chars' = Append(user_chars, Head(pattern))
  /\ pattern' = Tail(pattern)
  /\ UNCHANGED <<_formatters, compiled, given, lines>>

\* The character after the sign is consumed with it; a sign at the end is
\* dropped.
PercentSign ==
  /\ Compiling /\ Head(pattern) = "%"
  /\ _formatters' = _formatters \o Pending
                      \o (IF Len(pattern) = 1 THEN <<>> ELSE handle_flag(pattern[2]))
  /\ user_chars' = <<>>
  /\ pattern' = SubSeq(pattern, 3, Len(pattern))
  /\ UNCHANGED <<compiled, given, lines>>

Compiled ==
  /\ given # <<>> /\ ~compiled /\ pattern = <<>>
  /\ compiled' = TRUE
  /\ _formatters' = _formatters \o Pending
  /\ user_chars' = <<>>
  /\ UNCHANGED <<pattern, given, lines>>
-----------------------------------------------------------------------------
(***************************************************************************)
(* What the formatters write: pieces of text, and numbers with a width.    *)
(***************************************************************************)
Num(v) == [kind |-> "number", value |-> v, width |-> 0]
pad(v, width) == [kind |-> "number", value |-> v, width |-> width]
Str(s) == [kind |-> "text", text |-> <<s>>]

\* Mutant: a number is padded for all its digits but one.
WriteShort(b, piece) ==
  IF piece.kind = "text" THEN append(b, piece.text)
  ELSE write_int(b, piece.value,
                 [EmptySpec EXCEPT !.width = Max({0, piece.width - 1}), !.fill = "0"])

Write(b, piece) ==
  IF piece.kind = "text" THEN append(b, piece.text)
  ELSE write_int(b, piece.value, [EmptySpec EXCEPT !.width = piece.width, !.fill = "0"])

Joined(sep, a, b) == <<pad(a, 2), Str(sep), pad(b, 2)>>
Joined3(sep, a, b, c) == Joined(sep, a, b) \o <<Str(sep), pad(c, 2)>>

to12h(tm) == IF tm.hour > 12 THEN tm.hour - 12 ELSE tm.hour
ampm(tm) == IF tm.hour >= 12 THEN "PM" ELSE "AM"

\* Quotient and remainder as in C++, towards zero.
Sgn(n) == IF n < 0 THEN -1 ELSE 1
Quot(n, d) == Sgn(n) * (Magnitude(n) \div d)
Rem(n, d) == Sgn(n) * (Magnitude(n) % d)

Offset(minutes) ==
  (IF Quot(minutes, 60) >= 0 THEN <<Str("+")>> ELSE <<>>)
    \o Joined(":", Quot(minutes, 60), Rem(minutes, 60))

Day == <<"Sun", "Mon", "Tue", "Wed", "Thu", "Fri", "Sat">>
FullDay == <<"Sunday", "Monday", "Tuesday", "Wednesday", "Thursday", "Friday", "Saturday">>
Month == <<"Jan", "Feb", "Mar", "Apr", "May", "June", "July", "Aug", "Sept", "Oct", "Nov", "Dec">>
FullMonth == <<"January", "February", "March", "April", "May", "June",
               "July", "August", "September", "October", "November", "December">>

millis(msg) == msg.nanos \div 1000000

\* tm.mon counts from 0, tm.year from 1900.
full(msg, tm) ==
  <<Str("["), Num(tm.year + 1900), Str("-")>> \o Joined("-", tm.mon + 1, tm.mday) \o <<Str(" ")>>
    \o Joined3(":", tm.hour, tm.min, tm.sec)
    \o <<Str("."), pad(millis(msg), 3), Str("]"), Str(" "),
         Str("["), Str(msg.name), Str("]"), Str(" "),
         Str("["), Str(msg.level), Str("]"), Str(" "), Str(msg.raw)>>

Shown(flag, msg) ==
  LET tm == msg.tm IN
  CASE flag = "n" -> <<Str(msg.name)>>
    [] flag = "l" -> <<Str(msg.level)>>
    [] flag = "L" -> <<Str(msg.short_level)>>
    [] flag = "t" -> <<Num(msg.thread_id)>>
    [] flag = "v" -> <<Str(msg.raw)>>
    [] flag = "a" -> <<Str(Day[tm.wday + 1])>>
    [] flag = "A" -> <<Str(FullDay[tm.wday + 1])>>
    [] flag = "b" -> <<Str(Month[tm.mon + 1])>>
    [] flag = "B" -> <<Str(FullMonth[tm.mon + 1])>>
    [] flag = "c" -> <<Str(Day[tm.wday + 1]), Str(" "), Str(Month[tm.mon + 1]), Str(" "),
                       Num(tm.mday), Str(" ")>> \o Joined3(":", tm.hour, tm.min, tm.sec)
                       \o <<Str(" "), Num(tm.year + 1900)>>
    [] flag = "C" -> <<pad(Rem(tm.year, 100), 2)>>
    [] flag = "Y" -> <<Num(tm.year + 1900)>>
    [] flag = "D" -> Joined3("/", tm.mon + 1, tm.mday, Rem(tm.year, 100))
    [] flag = "m" -> <<pad(tm.mon + 1, 2)>>
    [] flag = "d" -> <<pad(tm.mday, 2)>>
    [] flag = "H" -> <<pad(tm.hour, 2)>>
    [] flag = "I" -> <<pad(to12h(tm), 2)>>
    [] flag = "M" -> <<pad(tm.min, 2)>>
    [] flag = "S" -> <<pad(tm.sec, 2)>>
    [] flag = "e" -> <<pad(millis(msg), 3)>>
    [] flag = "f" -> <<pad(msg.nanos \div 1000, 6)>>
    [] flag = "F" -> <<pad(msg.nanos, 9)>>
    [] flag = "p" -> <<Str(ampm(tm))>>
    [] flag = "r" -> Joined3(":", to12h(tm), tm.min, tm.sec) \o <<Str(" "), Str(ampm(tm))>>
    [] flag = "R" -> Joined(":", tm.hour, tm.min)
    [] flag = "T" -> Joined3(":", tm.hour, tm.min, tm.sec)
    [] flag = "z" -> Offset(tm.gmtoff)
    [] flag = "+" -> full(msg, tm)

Pieces(formatter, msg) ==
  IF formatter.by = "flag" THEN Shown(formatter.flag, msg)
  ELSE <<[kind |-> "text", text |-> formatter.text]>>

eol == Str("\n")

format(msg) ==
  /\ compiled /\ Len(lines) < MaxLines
  /\ LET pieces == FlattenSeq([i \in DOMAIN _formatters |-> Pieces(_formatters[i], msg)]) IN
     lines' = Append(lines, [msg |-> msg,
                             text |-> Text(FoldLeft(Write, EmptyBuffer, Append(pieces, eol)))])
  /\ UNCHANGED <<pattern, user_chars, _formatters, compiled, given>>

Next ==
  \/ \E p \in Patterns : New(p)
  \/ UserChar \/ PercentSign \/ Compiled
  \/ \E msg \in Messages : format(msg)

Spec == Init /\ [][Next]_vars
-----------------------------------------------------------------------------
\* The values that a flag shows, the coarse ones first.
Key(flag, msg) ==
  LET tm == msg.tm IN
  CASE flag = "Y" -> <<tm.year>>
    [] flag = "m" -> <<tm.mon>>
    [] flag = "d" -> <<tm.mday>>
    [] flag = "H" -> <<tm.hour>>
    [] flag = "M" -> <<tm.min>>
    [] flag = "S" -> <<tm.sec>>
    [] flag = "R" -> <<tm.hour, tm.min>>
    [] flag = "T" -> <<tm.hour, tm.min, tm.sec>>
    [] flag = "e" -> <<millis(msg)>>
    [] flag = "f" -> <<msg.nanos \div 1000>>
    [] flag = "F" -> <<msg.nanos>>
    [] flag = "+" -> <<tm.year, tm.mon, tm.mday, tm.hour, tm.min, tm.sec, millis(msg)>>

Field == [Y |-> <<1>>, m |-> <<2>>, d |-> <<3>>, H |-> <<4>>, M |-> <<5>>, S |-> <<6>>,
          R |-> <<4, 5>>, T |-> <<4, 5, 6>>, e |-> <<7>>, f |-> <<7>>, F |-> <<7>>]

TimeFlags ==
  LET flagged == SelectSeq(_formatters, LAMBDA f : f.by = "flag") IN
  [i \in DOMAIN flagged |-> flagged[i].flag]

\* From a coarse field to the next finer one, all the way.
CoarseToFine ==
  \/ TimeFlags = <<"+">>
  \/ /\ ToSet(TimeFlags) \subseteq DOMAIN Field
     /\ LET fields == FlattenSeq([i \in DOMAIN TimeFlags |-> Field[TimeFlags[i]]]) IN
        fields # <<>> /\ \A i \in DOMAIN fields : fields[i] = fields[1] + i - 1

Keys(msg) == FlattenSeq([i \in DOMAIN TimeFlags |-> Key(TimeFlags[i], msg)])

DigitValue(c) == CHOOSE n \in 0..9 : Digit[n + 1] = c

\* The first difference decides.
Before(s, t, Lt(_, _)) ==
  \E i \in DOMAIN s : /\ \A j \in 1..(i - 1) : s[j] = t[j]
                      /\ Lt(s[i], t[i])

LessDigit(a, b) ==
  a # b /\ {a, b} \subseteq {Digit[n] : n \in 1..10} /\ DigitValue(a) < DigitValue(b)

(***************************************************************************)
(* When the fields of a pattern go from a coarse one to finer ones, as in  *)
(* the format that is used when none is given, the lines of a log sort by  *)
(* the local times of their messages.                                      *)
(***************************************************************************)
LinesSortByTime ==
  compiled /\ CoarseToFine =>
    \A i, j \in DOMAIN lines :
      Before(Keys(lines[i].msg), Keys(lines[j].msg), <)
        => Before(lines[i].text, lines[j].text, LessDigit)

=============================================================================
