------------------------------ MODULE FormatValue ---------------------------
(***************************************************************************)
(* What basic_writer writes (fmt/bundled/format.h): integers in five ways, *)
(* texts and floating-point numbers, with sign, prefix, precision and      *)
(* padding.  An integer is computed in words of WordBits bits.             *)
(***************************************************************************)
EXTENDS Characters

CONSTANT WordBits   \* the bits of int_traits<Int>::main_type

ASSUME FormatValueAssumption == WordBits \in 2 .. 64

\* Powers, as functions and not with ^, of which the provers know nothing.
TwoTo[n \in Nat] == IF n = 0 THEN 1 ELSE 2 * TwoTo[n - 1]
TenTo[n \in Nat] == IF n = 0 THEN 1 ELSE 10 * TenTo[n - 1]

Word == TwoTo[WordBits]

\* abs_value: the negation of the least value is itself.
AbsValue(value) == IF value < 0 THEN (0 - (value % Word)) % Word ELSE value

-----------------------------------------------------------------------------
(* Digits.                                                                 *)

\* internal::count_digits, from the number of bits, and the one of int_writer.
BitLength(n) == CHOOSE b \in 1 .. WordBits : TwoTo[b - 1] <= n /\ n < TwoTo[b]
CountDecimals(n) ==
  LET odd == IF n % 2 = 0 THEN n + 1 ELSE n
      t == (BitLength(odd) * 1233) \div 4096
  IN  t + 1 - (IF t > 0 /\ n < TenTo[t] THEN 1 ELSE 0)

CountInBase(n, bits) ==
  LET count[m \in Nat] == IF m < TwoTo[bits] THEN 1 ELSE 1 + count[m \div TwoTo[bits]]
  IN  count[n]

\* thousands_sep of the locale "C".
ThousandsSep == ","

\* Mutant: the separator is counted from one digit later.
PutLater(d, index, sep) == (IF index % 3 = 0 THEN sep ELSE << >>) \o <<DigitChars[d + 1]>>

\* A digit put before as many others, and after every third one the separator (add_thousands_sep).
Put(d, index, sep) == (IF (index + 1) % 3 = 0 THEN sep ELSE << >>) \o <<DigitChars[d + 1]>>

\* What lies in the num_digits characters of the buffer afterwards; writing more or
\* fewer is a wrong text.
Filling(num_digits, text) == IF Len(text) = num_digits THEN text ELSE <<"?">>

\* format_decimal, two digits at a time; no separator follows the last one.
DecimalFrom(value, sep) ==
  LET text[v \in Nat] == [index \in Nat |->
        IF v >= 100 THEN text[v \div 100][index + 2] \o Put((v \div 10) % 10, index + 1, sep) \o Put(v % 10, index, sep)
        ELSE IF v < 10 THEN <<DigitChars[v + 1]>>
        ELSE <<DigitChars[(v \div 10) + 1]>> \o Put(v % 10, index, sep)]
  IN  text[value][0]

FormatDecimal(value, num_digits, sep) == Filling(num_digits, DecimalFrom(value, sep))

\* format_int, whose buffer has room for a sign and a null.
FormatInt(value) ==
  (IF value < 0 THEN <<"-">> ELSE << >>) \o DecimalFrom(AbsValue(value), << >>)

\* format_uint.
BaseDigits(upper) == DigitChars \o (IF upper THEN <<"A", "B", "C", "D", "E", "F">> ELSE <<"a", "b", "c", "d", "e", "f">>)

UintFrom(value, bits, upper) ==
  LET text[v \in Nat] ==
        LET last == <<BaseDigits(upper)[(v % TwoTo[bits]) + 1]>>
        IN  IF v \div TwoTo[bits] = 0 THEN last ELSE text[v \div TwoTo[bits]] \o last
  IN  text[value]

FormatUint(value, bits, num_digits, upper) == Filling(num_digits, UintFrom(value, bits, upper))

-----------------------------------------------------------------------------
(* Padding.                                                                *)

\* write_padded; center leaves the greater half to the right.
WritePadded(specs, text) ==
  LET padding == specs.width - Len(text)
      fill(n) == Repeated(specs.fill, n)
  IN  IF padding <= 0 THEN text
      ELSE CASE specs.align = "right" -> fill(padding) \o text
             [] specs.align = "center" -> fill(padding \div 2) \o text \o fill(padding - padding \div 2)
             [] OTHER -> text \o fill(padding)

RightByDefault(specs) == IF specs.align = "default" THEN [specs EXCEPT !.align = "right"] ELSE specs

\* write_int with its padded_int_writer: digits after the prefix are filled up to the
\* width, or with zeros up to the precision.
WritePrefixed(prefix, digits, specs) ==
  LET size == Len(prefix) + Len(digits)
      zeros == CASE specs.align = "numeric" ->
                      Repeated(specs.fill, IF specs.width > size THEN specs.width - size ELSE 0)
                 [] specs.align # "numeric" /\ specs.precision > Len(digits) ->
                      Repeated("0", specs.precision - Len(digits))
                 [] OTHER -> << >>
  IN  WritePadded(RightByDefault(specs), prefix \o zeros \o digits)

SignOf(negative, specs) ==
  CASE negative -> <<"-">>
    [] ~negative /\ "SIGN" \in specs.flags -> IF "PLUS" \in specs.flags THEN <<"+">> ELSE <<" ">>
    [] OTHER -> << >>

-----------------------------------------------------------------------------
(* Values.                                                                 *)

\* int_writer, by the type that handle_int_type_spec accepts.
WriteInt(value, specs) ==
  LET abs == AbsValue(value)
      sign == SignOf(value < 0, specs)
      hash == IF "HASH" \in specs.flags THEN <<"0", specs.type>> ELSE << >>
      decimals == CountDecimals(abs)
      octals == CountInBase(abs, 3)
  IN  CASE specs.type \in {"none", "d"} ->
             WritePrefixed(sign, FormatDecimal(abs, decimals, << >>), specs)
        [] specs.type \in {"x", "X"} ->
             WritePrefixed(sign \o hash, FormatUint(abs, 4, CountInBase(abs, 4), specs.type = "X"), specs)
        [] specs.type \in {"b", "B"} ->
             WritePrefixed(sign \o hash, FormatUint(abs, 1, CountInBase(abs, 1), FALSE), specs)
        [] specs.type = "o" ->
             \* The prefix is a digit: it is left out if the precision asks for one anyway.
             WritePrefixed(sign \o (IF "HASH" \in specs.flags /\ specs.precision <= octals THEN <<"0">> ELSE << >>),
                           FormatUint(abs, 3, octals, FALSE), specs)
        [] specs.type = "n" ->
             WritePrefixed(sign, FormatDecimal(abs, decimals + (decimals - 1) \div 3, <<ThousandsSep>>), specs)

\* A text, cut to the precision.
WriteText(text, specs) ==
  WritePadded(specs, IF specs.precision \in 0 .. Len(text) THEN SubSeq(text, 1, specs.precision) ELSE text)

\* write_double: [negative, finite, text], with the text of snprintf or "inf" or "nan".
\* Those two are padded as a text is; a number stands to the right, or its sign to the left.
WriteDouble(number, specs) ==
  LET sign == SignOf(number.negative, specs)
      less(width) == IF sign # << >> /\ width > 0 THEN width - 1 ELSE width
  IN  IF ~number.finite THEN WritePadded(specs, sign \o number.text)
      ELSE IF specs.align = "numeric" THEN
        sign \o WritePadded([specs EXCEPT !.align = "right", !.width = less(@)], number.text)
      ELSE WritePadded(RightByDefault(specs), sign \o number.text)

\* write_pointer.
WritePointer(address, specs) ==
  WriteInt(address, [specs EXCEPT !.flags = {"HASH"}, !.type = "x"])

\* arg_formatter_base: a char is [char, value] and a bool 0 or 1.
WriteArg(arg, specs) ==
  CASE arg.type \in {"int", "uint", "long_long", "ulong_long"} -> WriteInt(arg.value, specs)
    [] arg.type = "bool" ->
         IF specs.type # "none" THEN WriteInt(arg.value, specs)
         ELSE WriteText(IF arg.value = 1 THEN <<"t", "r", "u", "e">> ELSE <<"f", "a", "l", "s", "e">>, specs)
    [] arg.type = "char" ->
         IF specs.type \in {"none", "c"} THEN WritePadded(specs, <<arg.char>>) ELSE WriteInt(arg.value, specs)
    [] arg.type = "double" -> WriteDouble(arg, specs)
    [] arg.type = "string" -> WriteText(arg.text, specs)
    [] arg.type = "pointer" -> WritePointer(arg.value, specs)

-----------------------------------------------------------------------------
(* Properties.                                                             *)

HexValue(c) == CHOOSE d \in 0 .. 15 : c \in {BaseDigits(TRUE)[d + 1], BaseDigits(FALSE)[d + 1]}

\* The number that a text is in a base, whatever of skipped stands in it.
ValueOfDigits(text, base, skipped) ==
  LET value[n \in 0 .. Len(text)] ==
        IF n = 0 THEN 0
        ELSE IF text[n] \in skipped THEN value[n - 1] ELSE value[n - 1] * base + HexValue(text[n])
  IN  value[Len(text)]

Magnitude(value) == IF value < 0 THEN -value ELSE value

BaseOf(type) ==
  CASE type \in {"none", "d", "n"} -> 10 [] type \in {"x", "X"} -> 16 [] type \in {"b", "B"} -> 2 [] type = "o" -> 8

\* What stands behind a sign and a prefix: zeros and digits, with other characters
\* between them only where they belong.
BodyReadsBack(body, value, specs) ==
  LET numeric == specs.align = "numeric"
      base == BaseOf(specs.type)
      skipped == (IF specs.type = "n" THEN {ThousandsSep} ELSE {}) \cup (IF numeric THEN {specs.fill} \ {"0"} ELSE {})
  IN  /\ \E k \in DOMAIN body : body[k] \notin skipped
      /\ ToSet(body) \subseteq skipped \cup ToSet(BaseDigits(specs.type = "X"))
      /\ ValueOfDigits(body, base, skipped) = Magnitude(value)
      /\ ~numeric => Len(body) >= specs.precision
      /\ ~numeric /\ body[1] = "0" =>
           \/ value = 0
           \/ Len(body) = specs.precision
           \/ base = 8 /\ "HASH" \in specs.flags /\ body[2] # "0"

TextReadsBack(text, start, value, specs) ==
  /\ Len(start) <= Len(text) /\ SubSeq(text, 1, Len(start)) = start
  /\ BodyReadsBack(SubSeq(text, Len(start) + 1, Len(text)), value, specs)
  /\ specs.align = "numeric" => Len(text) >= specs.width

StartOf(value, specs) ==
  SignOf(value < 0, specs)
    \o (IF "HASH" \in specs.flags /\ BaseOf(specs.type) \in {2, 16} THEN <<"0", specs.type>> ELSE << >>)

\* An integer can be read back from what is written for it: a sign, its prefix and the
\* digits of its magnitude in the base, with zeros up to the precision or, in numeric
\* alignment, up to the width with whatever fills it but a digit, and nothing else; that
\* holds of the least value as of any other.
ReadsBack(value, specs) ==
  (specs.align = "numeric" => specs.fill \notin ToSet(BaseDigits(specs.type = "X")) \ {"0"}) =>
    TextReadsBack(WriteInt(value, [specs EXCEPT !.width = IF specs.align = "numeric" THEN @ ELSE 0]),
                  StartOf(value, specs), value, specs)

\* Separators stand exactly before each group of three digits.
Grouped(value) ==
  LET text == WriteInt(value, [fill |-> " ", align |-> "default", flags |-> {}, width |-> 0, precision |-> -1,
                               type |-> "n"])
  IN  \A k \in DOMAIN text : (text[k] = ThousandsSep) <=> (Len(text) - k + 1) % 4 = 0 /\ k > (IF value < 0 THEN 2 ELSE 1)

\* Padding makes a text as wide as was asked for and changes nothing of it: the text
\* lies in one piece between fill characters, on the side that was asked for.
PadsOnly(arg, specs) ==
  specs.align # "numeric" =>
    LET text == WriteArg(arg, [specs EXCEPT !.width = 0])
        wide == WriteArg(arg, specs)
        missing == IF specs.width > Len(text) THEN specs.width - Len(text) ELSE 0
        number == \/ arg.type \in {"int", "uint", "long_long", "ulong_long", "pointer"}
                  \/ arg.type = "double" /\ arg.finite
                  \/ arg.type \in {"bool", "char"} /\ specs.type \notin {"none", "c"}
        right == specs.align = "right" \/ (specs.align = "default" /\ number)
        before == CASE right -> missing
                    [] ~right /\ specs.align = "center" -> missing \div 2
                    [] OTHER -> 0
    IN  wide = Repeated(specs.fill, before) \o text \o Repeated(specs.fill, missing - before)
=============================================================================
