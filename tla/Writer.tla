------------------------------- MODULE Writer -------------------------------
(***************************************************************************)
(* BasicWriter and the buffer it writes to (spdlog/details/format.h, the   *)
(* copy of fmt that every message of spdlog goes through).  A field is not *)
(* written from left to right: the buffer is grown, then the padding, the  *)
(* prefix and the digits are put into the new room, each at its place.  A  *)
(* place that was not written holds what the memory held before.           *)
(***************************************************************************)
EXTENDS Integers, FiniteSets, SequencesExt

CONSTANT InlineSize       \* INLINE_BUFFER_SIZE

ASSUME InlineSizeAssumption == InlineSize \in Nat

Unset == "?"              \* a place of the buffer that was never written
NoType == "none"          \* a field that does not give one

Align == {"default", "left", "right", "center", "numeric"}

\* FormatSpec as it is made, before a format string changes it.
EmptySpec == [width |-> 0, fill |-> " ", align |-> "default", flags |-> {},
              precision |-> -1, type |-> NoType]

Repeat(c, n) == [i \in 1..n |-> c]

-----------------------------------------------------------------------------
(***************************************************************************)
(* Buffer and MemoryBuffer: the memory up to the capacity, and the size.   *)
(***************************************************************************)
EmptyBuffer == [ptr |-> Repeat(Unset, InlineSize), size |-> 0]

capacity(b) == Len(b.ptr)
Text(b) == SubSeq(b.ptr, 1, b.size)

\* New memory, into which what counts as the text is copied.
grow(b, size) ==
  [b EXCEPT !.ptr = [i \in 1..Max({size, capacity(b) + capacity(b) \div 2}) |->
                       IF i <= b.size THEN b.ptr[i] ELSE Unset]]

reserve(b, n) == IF n > capacity(b) THEN grow(b, n) ELSE b

resize(b, n) == [reserve(b, n) EXCEPT !.size = n]

grow_buffer(b, n) == resize(b, b.size + n)

\* text is copied to the places after at.
Put(b, at, text) ==
  [b EXCEPT !.ptr = [i \in DOMAIN @ |->
                       IF i \in (at + 1)..(at + Len(text)) THEN text[i - at] ELSE @[i]]]

append(b, text) == Put(grow_buffer(b, Len(text)), b.size, text)

\* The padding around content_size characters that are in the middle.
fill_padding(b, at, total_size, content_size, fill) ==
  LET padding == total_size - content_size
      left == padding \div 2 IN
  Put(Put(b, at, Repeat(fill, left)),
      at + left + content_size, Repeat(fill, padding - left))
-----------------------------------------------------------------------------
write_str(b, text, spec) ==
  LET n == Len(text)
      g == grow_buffer(b, Max({n, spec.width}))
      at == CASE spec.align = "right" -> b.size + spec.width - n
              [] spec.align = "center" -> b.size + (spec.width - n) \div 2
              [] OTHER -> b.size IN
  IF spec.width <= n THEN Put(g, b.size, text)
  ELSE CASE spec.align = "right" -> Put(Put(g, b.size, Repeat(spec.fill, spec.width - n)), at, text)
         [] spec.align = "center" -> Put(fill_padding(g, b.size, spec.width, n, spec.fill), at, text)
         [] OTHER -> Put(Put(g, at + n, Repeat(spec.fill, spec.width - n)), at, text)

\* Mutant: with numeric alignment the prefix is counted twice.
placePrefixCountedTwice(b, n, spec, prefix) ==
  LET size == Len(prefix) + n
      end == b.size + spec.width
      g == grow_buffer(b, Max({size, spec.width}))
      Padding(m) == Repeat(spec.fill, spec.width - size - m) IN
  CASE spec.width <= size ->
         [b |-> Put(g, b.size, prefix), end |-> b.size + size]
    [] spec.width > size /\ spec.align = "numeric" ->
         [b |-> Put(Put(g, b.size + Len(prefix), Padding(Len(prefix))), b.size, prefix), end |-> end]
    [] OTHER -> [b |-> Put(Put(g, b.size, Padding(0)), end - size, prefix), end |-> end]

\* The end of prepare_int_buffer: room for n digits, with the prefix and the
\* padding, and where the digits end.
place(b, n, spec, prefix) ==
  LET size == Len(prefix) + n
      end == b.size + spec.width
      left == (spec.width - size) \div 2
      g == grow_buffer(b, Max({size, spec.width}))
      padding == Repeat(spec.fill, spec.width - size) IN
  CASE spec.width <= size ->
         [b |-> Put(g, b.size, prefix), end |-> b.size + size]
    [] spec.width > size /\ spec.align = "left" ->
         [b |-> Put(Put(g, b.size + size, padding), b.size, prefix), end |-> b.size + size]
    [] spec.width > size /\ spec.align = "center" ->
         [b |-> Put(fill_padding(g, b.size, spec.width, size, spec.fill), b.size + left, prefix),
          end |-> b.size + left + size]
    [] spec.width > size /\ spec.align = "numeric" ->
         [b |-> Put(Put(g, b.size + Len(prefix), padding), b.size, prefix), end |-> end]
    [] spec.width > size /\ spec.align \in {"right", "default"} ->
         [b |-> Put(Put(g, b.size, padding), end - size, prefix), end |-> end]

Nowhere == -1   \* a place in memory that has been given back

\* A precision asks for a number of digits: the number is written with zeros
\* in a field of its own, and the rest of the width around it.  What reserve
\* makes room for is the width alone, so that on the left the buffer may still
\* grow for the padding: the place of the digits is then in the old memory.
prepare_int_buffer(b, n, spec, prefix) ==
  LET short == IF prefix # <<>> /\ Last(prefix) = "0" THEN Front(prefix) ELSE prefix
      number == Len(short) + spec.precision
      subspec == [spec EXCEPT !.width = number, !.fill = "0", !.align = "numeric"]
      padding == Repeat(spec.fill, spec.width - number) IN
  IF spec.precision <= n THEN place(b, n, spec, prefix)
  ELSE IF number >= spec.width THEN place(b, n, subspec, short)
  ELSE IF spec.align = "left"
  THEN LET p == place(reserve(b, spec.width), n, subspec, short) IN
       [b |-> append(p.b, padding),
        end |-> IF p.b.size + Len(padding) > capacity(p.b) THEN Nowhere ELSE p.end]
  ELSE place(append(reserve(b, spec.width), padding), n, subspec, short)

Digit == <<"0", "1", "2", "3", "4", "5", "6", "7", "8", "9", "a", "b", "c", "d", "e", "f">>

\* count_digits with format_decimal, and the loops of the other bases.
Digits(n, base) ==
  LET written[m \in 0..n] ==
        IF m < base THEN <<Digit[m + 1]>>
        ELSE Append(written[m \div base], Digit[(m % base) + 1])
  IN written[n]

Base(type) == CASE type \in {NoType, "d"} -> 10
                [] type = "x" -> 16
                [] type = "b" -> 2
                [] type = "o" -> 8

Sign(negative, flags) ==
  CASE negative -> <<"-">>
    [] ~negative /\ {"sign", "plus"} \subseteq flags -> <<"+">>
    [] ~negative /\ "sign" \in flags /\ "plus" \notin flags -> <<" ">>
    [] OTHER -> <<>>

Prefix(value, spec) ==
  Sign(value < 0, spec.flags) \o
    (IF "hash" \notin spec.flags THEN <<>>
     ELSE CASE spec.type = "o" -> <<"0">>
            [] spec.type \in {"x", "b"} -> <<"0", spec.type>>
            [] OTHER -> <<>>)

Magnitude(value) == IF value < 0 THEN -value ELSE value

write_int(b, value, spec) ==
  LET digits == Digits(Magnitude(value), Base(spec.type))
      p == prepare_int_buffer(b, Len(digits), spec, Prefix(value, spec)) IN
  IF p.end = Nowhere THEN p.b ELSE Put(p.b, p.end - Len(digits), digits)
-----------------------------------------------------------------------------
(***************************************************************************)
(* A double: its sign, what snprintf makes of the rest without a width, or *)
(* that it is infinite or not a number.                                    *)
(***************************************************************************)

\* Infinity and NaN: a blank is left for the sign, and overwritten.
write_special(b, number, sign, spec) ==
  LET text == (IF sign = <<>> THEN <<>> ELSE <<" ">>) \o number.text
      b1 == write_str(b, text, spec)
      at == CASE spec.width <= Len(text) \/ spec.align \notin {"right", "center"} -> b.size
              [] spec.width > Len(text) /\ spec.align = "right" -> b.size + spec.width - Len(text)
              [] OTHER -> b.size + (spec.width - Len(text)) \div 2 IN
  Put(b1, at, sign)

\* What snprintf writes: it pads with blanks.
Printed(text, width, align) ==
  LET blanks == Repeat(" ", Max({0, width - Len(text)})) IN
  CASE align = "center" -> text
    [] align = "left" -> text \o blanks
    [] OTHER -> blanks \o text

write_double(b, number, spec) ==
  LET sign == Sign(number.negative, spec.flags)
      offset == b.size + Len(sign)
      width == Max({0, spec.width - Len(sign)})
      printed == Printed(number.text, width, spec.align)
      b1 == IF sign = <<>> THEN b ELSE reserve(b, b.size + Max({spec.width, 1}))
      b2 == Put(reserve(b1, offset + Len(printed) + 1), offset, printed)
      n == Len(printed) + Len(sign)
      blanks == Cardinality({i \in DOMAIN printed : \A j \in 1..i : printed[j] = " "})
      \* The sign is put in front now, or after the blanks have been replaced.
      now == spec.align \notin {"right", "default"} \/ blanks = 0
      b3 == IF sign = <<>> THEN b2
            ELSE Put(b2, offset - 1, IF now THEN sign ELSE <<spec.fill>>)
      b4 == IF spec.fill = " " /\ (sign = <<>> \/ now) THEN b3
            ELSE Put(b3, offset, Repeat(spec.fill, blanks))
      b5 == IF sign = <<>> \/ now THEN b4 ELSE Put(b4, offset + blanks - 1, sign)
      \* Centred: moved to the middle of the room that is made only now.
      grown == grow_buffer(b3, spec.width)
      moved == Put(grown, b.size + (spec.width - n) \div 2,
                   SubSeq(grown.ptr, b.size + 1, b.size + n)) IN
  IF number.special THEN write_special(b, number, sign, spec)
  ELSE IF spec.align = "center" /\ spec.width > n
  THEN fill_padding(moved, b.size, spec.width, n, spec.fill)
  ELSE grow_buffer(b5, n)
=============================================================================
