------------------------------- MODULE Format -------------------------------
(***************************************************************************)
(* BasicFormatter::format (spdlog/details/format.h): a format string is    *)
(* gone through once; text is copied, and each replacement field takes an  *)
(* argument, by count, by number or by name, and up to two more for its    *)
(* width and its precision.                                                *)
(*                                                                         *)
(* A format string is a sequence of parts: how the characters of a field   *)
(* are told apart is left out, what is done with them, and when a field is *)
(* refused, is kept.                                                       *)
(***************************************************************************)
EXTENDS Writer

CONSTANTS MaxPackedArgs,  \* of ArgList: from so many arguments on, their
                          \* values and types are stored otherwise
          FormatString, ArgLists     \* what callers pass

VARIABLES format_str,     \* the parts that are left
          args,
          next_arg_index_,
          buffer,         \* of the writer
          outcome

\* History: the parts of the call, and what was written for those that are
\* fields.
VARIABLES call, written

formatVars == <<format_str, args, next_arg_index_, buffer, outcome, call, written>>

\* How a field names an argument: by its turn, a number, or a name.
ByCount == [by |-> "count"]
ByNumber(i) == [by |-> "number", index |-> i]
ByName(n) == [by |-> "name", name |-> n]
Literally(n) == [by |-> "value", value |-> n]    \* of widths and precisions

NoArg == [type |-> "none"]
IntType == {"int", "uint", "bool", "char"}
NumericType == IntType \cup {"double"}

FormatInit ==
  /\ format_str = <<>> /\ args = <<>> /\ next_arg_index_ = 0
  /\ buffer = EmptyBuffer /\ outcome = "idle"
  /\ call = <<>> /\ written = <<>>

-----------------------------------------------------------------------------
(***************************************************************************)
(* Finding an argument.  Each result has the next_arg_index_ it leaves.    *)
(***************************************************************************)

\* ArgList stores few arguments as values with packed types, and otherwise as
\* an array that ends with an argument of type none.
Packed == Len(args) < MaxPackedArgs

\* ArgList::operator[].
ArgAt(i) ==
  CASE i < MaxPackedArgs /\ i < Len(args) -> args[i + 1]
    [] i >= MaxPackedArgs /\ ~Packed -> Append(args, NoArg)[Min({i, Len(args)}) + 1]
    [] OTHER -> NoArg

\* ArgMap: the first argument of that name.
Named(n) ==
  LET found == {i \in DOMAIN args : args[i].type = "named" /\ args[i].name = n} IN
  IF found = {} THEN NoArg ELSE args[Min(found)].arg

Unnamed(arg) == IF arg.type = "named" THEN arg.arg ELSE arg

\* Mutant: an argument taken by number does not forbid to count.
LookupMixing(next, ref) ==
  CASE ref.by = "count" -> [next |-> next + 1, arg |-> Unnamed(ArgAt(next))]
    [] ref.by = "number" -> [next |-> next, arg |-> Unnamed(ArgAt(ref.index))]
    [] ref.by = "name" -> [next |-> next, arg |-> Named(ref.name)]

Lookup(next, ref) ==
  CASE ref.by = "count" /\ next >= 0 -> [next |-> next + 1, arg |-> Unnamed(ArgAt(next))]
    [] ref.by = "number" /\ next <= 0 -> [next |-> -1, arg |-> Unnamed(ArgAt(ref.index))]
    [] ref.by = "name" /\ next <= 0 -> [next |-> -1, arg |-> Named(ref.name)]
    [] OTHER -> [next |-> next, arg |-> NoArg]

\* A width or a precision: written in the field, or an argument that is an
\* integer and not negative.  An array of its values is compared with int's
\* range in the code; the model has no integer beyond it.
LookupSize(next, ref) ==
  IF ref.by = "value" THEN [next |-> next, ok |-> TRUE, size |-> ref.value]
  ELSE LET found == Lookup(next, ref)
           ok == found.arg.type \in {"int", "uint"} /\ found.arg.value >= 0 IN
       [next |-> found.next, ok |-> ok, size |-> IF ok THEN found.arg.value ELSE 0]
-----------------------------------------------------------------------------
\* A custom argument is first written to a string of its own, and that string
\* is the argument.
AsString(arg) == IF arg.type = "custom" THEN [type |-> "string", text |-> arg.text] ELSE arg

\* What the field may not ask of an argument of this type: format().
SpecAllowed(arg, spec) ==
  /\ (spec.align = "numeric" \/ spec.flags # {}) => arg.type \in NumericType
  /\ spec.flags \cap {"sign", "minus"} # {} => arg.type # "uint"
  /\ spec.precision >= 0 => arg.type \notin IntType \cup {"pointer"}

\* What the type of the field may be: ArgFormatter and the writer.
TypeAllowed(arg, spec) ==
  CASE arg.type \in {"int", "uint"} -> spec.type \in {NoType, "d", "x", "b", "o"}
    [] arg.type = "bool" -> spec.type \in {NoType, "d", "x", "b", "o"}
    [] arg.type = "char" ->
         \/ spec.type \in {"d", "x", "b", "o"}
         \/ spec.type \in {NoType, "c"} /\ spec.align # "numeric" /\ spec.flags = {}
    [] arg.type = "double" -> spec.type \in {NoType, "e", "f", "g", "a"}
    [] arg.type = "string" -> spec.type \in {NoType, "s"}
    [] arg.type = "cstring" ->
         spec.type = "p" \/ (spec.type \in {NoType, "s"} /\ ~arg.null)
    [] arg.type = "pointer" -> spec.type \in {NoType, "p"}

\* What is written of an argument, by the kind of the field.
AsText(arg, spec) ==
  CASE arg.type = "bool" -> IF arg.value # 0 THEN <<"t", "r", "u", "e">>
                           ELSE <<"f", "a", "l", "s", "e">>
    [] arg.type = "char" -> <<arg.text>>
    [] OTHER -> IF spec.precision >= 0
                THEN SubSeq(arg.text, 1, Min({Len(arg.text), spec.precision})) ELSE arg.text

IsPointer(arg, spec) == arg.type = "pointer" \/ (arg.type = "cstring" /\ spec.type = "p")

IsInt(arg, spec) ==
  \/ arg.type \in {"int", "uint"}
  \/ arg.type = "bool" /\ spec.type # NoType
  \/ arg.type = "char" /\ spec.type \notin {NoType, "c"}

\* write_pointer: a pointer is written as an integer is with these.
Shown(spec) == [spec EXCEPT !.flags = {"hash"}, !.type = "x"]

\* ArgFormatterBase: visit_any_int, visit_any_double, write_pointer, write_str.
Visit(b, arg, spec) ==
  CASE IsPointer(arg, spec) ->
         write_int(b, arg.value, Shown(spec))
    [] ~IsPointer(arg, spec) /\ IsInt(arg, spec) -> write_int(b, arg.value, spec)
    [] arg.type = "double" -> write_double(b, arg, spec)
    [] OTHER -> write_str(b, AsText(arg, spec), spec)
-----------------------------------------------------------------------------
(***************************************************************************)
(* One step for each turn of the loop over the format string.              *)
(***************************************************************************)
Format(parts, list) ==
  /\ outcome = "idle"
  /\ outcome' = "formatting"
  /\ format_str' = parts /\ args' = list /\ next_arg_index_' = 0
  /\ buffer' = EmptyBuffer
  /\ call' = parts /\ written' = <<>>

\* How many parts have been dealt with.
Done == Len(call) - Len(format_str)

Formatting == outcome = "formatting" /\ format_str # <<>>

\* Text, or a brace that is doubled.
CopyText ==
  /\ Formatting /\ Head(format_str).kind = "text"
  /\ buffer' = append(buffer, Head(format_str).text)
  /\ format_str' = Tail(format_str)
  /\ UNCHANGED <<args, next_arg_index_, outcome, call, written>>

\* A closing brace alone, or a field without one.
Refuse ==
  /\ Formatting /\ Head(format_str).kind = "unmatched"
  /\ outcome' = "thrown"
  /\ UNCHANGED <<format_str, args, next_arg_index_, buffer, call, written>>

Field ==
  /\ Formatting /\ Head(format_str).kind = "field"
  /\ LET field == Head(format_str)
         value == Lookup(next_arg_index_, field.ref)
         width == LookupSize(value.next, field.width)
         precision == LookupSize(width.next, field.precision)
         arg == AsString(value.arg)
         spec == [field.spec EXCEPT !.width = width.size, !.precision = precision.size] IN
     /\ next_arg_index_' = precision.next
     /\ IF arg # NoArg /\ width.ok /\ precision.ok /\ SpecAllowed(arg, spec) /\ TypeAllowed(arg, spec)
        THEN /\ buffer' = Visit(buffer, arg, spec)
             /\ written' = [i \in DOMAIN written \cup {Done + 1} |->
                              IF i = Done + 1 THEN [arg |-> arg, spec |-> spec, at |-> buffer.size]
                              ELSE written[i]]
             /\ UNCHANGED outcome
        ELSE outcome' = "thrown" /\ UNCHANGED <<buffer, written>>
  /\ format_str' = Tail(format_str)
  /\ UNCHANGED <<args, call>>

Return ==
  /\ outcome = "formatting" /\ format_str = <<>>
  /\ outcome' = "returned"
  /\ UNCHANGED <<format_str, args, next_arg_index_, buffer, call, written>>

FormatNext ==
  \/ \E parts \in FormatString, list \in ArgLists : Format(parts, list)
  \/ CopyText \/ Refuse \/ Field \/ Return

FormatSpec == FormatInit /\ [][FormatNext]_formatVars
-----------------------------------------------------------------------------
(***************************************************************************)
(* What a reader of the format string expects.                             *)
(***************************************************************************)
Fields == {i \in DOMAIN call : call[i].kind = "field"}

\* What a field refers to for its value, its width and its precision, in the
\* order of the text.
RefAt(i, slot) ==
  CASE slot = 1 -> call[i].ref
    [] slot = 2 -> call[i].width
    [] slot = 3 -> call[i].precision

Refs == {r \in Fields \X (1..3) : RefAt(r[1], r[2]).by # "value"}

RefsBefore(i, slot) == {r \in Refs : r[1] < i \/ (r[1] = i /\ r[2] < slot)}

\* The first argument of that name.
FirstNamed(list, n) ==
  CHOOSE i \in DOMAIN list :
    /\ list[i].type = "named" /\ list[i].name = n
    /\ \A j \in 1..(i - 1) : ~(list[j].type = "named" /\ list[j].name = n)

\* The argument meant by a reference.
Meant(i, slot) ==
  LET ref == RefAt(i, slot) IN
  CASE ref.by = "count" -> args[Cardinality(RefsBefore(i, slot)) + 1]
    [] ref.by = "number" -> args[ref.index + 1]
    [] ref.by = "name" -> args[FirstNamed(args, ref.name)]

ShowsWhatItNames(i) ==
  /\ written[i].arg = AsString(Unnamed(Meant(i, 1)))
  /\ call[i].width.by # "value" => written[i].spec.width = Unnamed(Meant(i, 2)).value
  /\ call[i].precision.by # "value" => written[i].spec.precision = Unnamed(Meant(i, 3)).value

(***************************************************************************)
(* A format string that is not refused numbers its arguments all by hand   *)
(* or not at all, and each field shows the argument, with the width and    *)
(* the precision, that it refers to by number, by name or by its turn.     *)
(* next_arg_index_ is advanced by fields, by their widths and by their     *)
(* precisions.                                                             *)
(***************************************************************************)
FieldsShowWhatTheyName ==
  outcome = "returned" =>
    /\ \/ \A r \in Refs : RefAt(r[1], r[2]).by = "count"
       \/ \A r \in Refs : RefAt(r[1], r[2]).by # "count"
    /\ DOMAIN written = Fields
    /\ \A i \in Fields : ShowsWhatItNames(i)

Aligned(spec, align, front, body) ==
  LET padding == Max({0, spec.width - Len(front) - Len(body)})
      left == padding \div 2
      Pad(n) == Repeat(spec.fill, n) IN
  CASE align = "left" -> front \o body \o Pad(padding)
    [] align = "right" -> Pad(padding) \o front \o body
    [] align = "center" -> Pad(left) \o front \o body \o Pad(padding - left)
    [] align = "numeric" -> front \o Pad(padding) \o body

\* The digits of an integer or a pointer, and the zeros that make up for a
\* precision that asks for more.
DigitsOf(arg, spec) ==
  Digits(Magnitude(arg.value), Base(IF IsPointer(arg, spec) THEN "x" ELSE spec.type))

Zeros(arg, spec) == Repeat("0", Max({0, spec.precision - Len(DigitsOf(arg, spec))}))

\* Numbers are right aligned, and all else is left aligned, unless the field
\* says otherwise.  What is no finite number is aligned as text, and a pointer
\* with zeros for its precision can only be aligned to the left or the right.
Expected(w) ==
  LET spec == w.spec
      arg == w.arg
      Or(align) == IF spec.align = "default" THEN align ELSE spec.align IN
  CASE IsPointer(arg, spec) ->
         Aligned(spec, IF Zeros(arg, spec) # <<>> /\ spec.align # "left" THEN "right" ELSE Or("right"),
                 Prefix(arg.value, Shown(spec)), Zeros(arg, spec) \o DigitsOf(arg, spec))
    [] ~IsPointer(arg, spec) /\ IsInt(arg, spec) ->
         Aligned(spec, Or("right"), Prefix(arg.value, spec), DigitsOf(arg, spec))
    [] arg.type = "double" /\ ~arg.special ->
         Aligned(IF spec.align = "left" THEN [spec EXCEPT !.fill = " "] ELSE spec,
                 Or("right"), Sign(arg.negative, spec.flags), arg.text)
    [] OTHER ->
         Aligned(spec, IF spec.align \in {"default", "numeric"} THEN "left" ELSE spec.align, <<>>,
                 IF arg.type = "double" THEN Sign(arg.negative, spec.flags) \o arg.text
                 ELSE AsText(arg, spec))

IsWhole(w) ==
  SubSeq(Text(buffer), w.at + 1, w.at + Len(Expected(w))) = Expected(w)

\* A centred number for which the buffer of InlineSize is too small, and a
\* pointer with padding on the right that comes after zeros.
CentredAtTheEnd(w) ==
  w.arg.type = "double" /\ w.spec.align = "center" /\ w.at + w.spec.width > InlineSize

PaddedAtTheEnd(w) ==
  /\ IsPointer(w.arg, w.spec) /\ Zeros(w.arg, w.spec) # <<>>
  /\ w.spec.align = "left" /\ w.at + w.spec.width > InlineSize

(***************************************************************************)
(* Whatever the alignment, the fill and the sign, each field holds its     *)
(* whole value, aligned as it says, and no place of the text is left as    *)
(* the memory was, also when the buffer is grown between two fields or in  *)
(* one.  A double that is left aligned is filled with blanks; one that is  *)
(* centred where the buffer must grow is the subject of the next property, *)
(* and a pointer that is padded there loses its digits in the same way.    *)
(***************************************************************************)
FieldsAreWhole ==
  (\A i \in DOMAIN written : ~CentredAtTheEnd(written[i]) /\ ~PaddedAtTheEnd(written[i])) =>
    /\ \A i \in DOMAIN written : IsWhole(written[i])
    /\ Unset \notin ToSet(Text(buffer))

(***************************************************************************)
(* A double that is centred is written whole: "The buffer is large enough  *)
(* - continue with formatting", says write_double before it goes on, but   *)
(* what it goes on with makes the buffer grow, and the new buffer is given *)
(* only what counts as the text by then.                                   *)
(***************************************************************************)
CentredNumbersAreWhole ==
  \A i \in DOMAIN written : CentredAtTheEnd(written[i]) => IsWhole(written[i])
=============================================================================
