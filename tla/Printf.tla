-------------------------------- MODULE Printf ------------------------------
(***************************************************************************)
(* printf on top of the formatting library (fmt/bundled/printf.h): flags,  *)
(* width and precision, the argument that each conversion takes, what it   *)
(* is converted to, and the text that comes out or the exception.          *)
(***************************************************************************)
EXTENDS FormatString, FormatValue

CONSTANTS CharBits, ShortBits, IntBits   \* long, long long, intmax_t, size_t and ptrdiff_t have WordBits

ASSUME PrintfAssumption ==
  /\ CharBits \in 2 .. ShortBits /\ ShortBits \in 2 .. IntBits /\ IntBits \in 2 .. WordBits
  /\ MaxInt = 2 ^ (IntBits - 1) - 1

Stops == {"end", "nul"}
AsSigned(value, bits) ==
  LET u == value % 2 ^ bits IN IF u >= 2 ^ (bits - 1) THEN u - 2 ^ bits ELSE u
AsUnsigned(value, bits) == value % 2 ^ bits

\* get_arg: the next one, or the one of an index that counts from 1.
NextArg(p, args) == Found(NextArgId(p), args)
IndexedArg(p, index, args) ==
  IF index = 0 THEN Fail(CheckArgId(p, 0), "argument index out of range") ELSE Found(CheckArgId(p, index - 1), args)

-----------------------------------------------------------------------------
(* The header of a conversion.                                             *)

FlagChars == {"-", "+", "0", " ", "#"}
FlaggedBy(specs, c) ==
  CASE c = "-" -> [specs EXCEPT !.align = "left"]
    [] c = "0" -> [specs EXCEPT !.fill = "0"]
    [] c = "#" -> [specs EXCEPT !.flags = @ \cup {"HASH"}]
    [] c \in {"+", " "} -> [specs EXCEPT !.flags = @ \cup FlagsOf[c]]

ParseFlags(p) ==
  LET e == RunEnd(p, p.at, FlagChars) IN
  [p EXCEPT !.at = e, !.specs = FoldLeft(FlaggedBy, @, SubSeq(p.s, p.at, e - 1))]

\* printf_width_handler: a negative width is one to the left.
WidthFrom(p, arg) ==
  LET width == AbsValue(arg.value)
      q == Require(p, Integral(arg.type), "width is not integer")
  IN  IF q.error # "" THEN q
      ELSE Require([q EXCEPT !.specs.width = width, !.specs.align = IF arg.value < 0 THEN "left" ELSE @],
                   width <= MaxInt, "number is too big")

StarWidth(p, args) ==
  LET q == NextArg(Skip(p, 1), args) IN IF q.error # "" THEN q ELSE WidthFrom(q, GetArg(q, args))

ParseFlagsAndWidth(p, args) ==
  LET q == ParseFlags(p) IN
  CASE IsDigit(Here(q)) -> LET r == ParseInt(q) IN [r EXCEPT !.specs.width = r.value]
    [] Here(q) = "*" -> StarWidth(q, args)
    [] OTHER -> q

\* parse_header: a number is an index if '$' follows it, a zero is a flag, any other
\* is the width that ends the header.
ParseHeader(p, args) ==
  LET q == ParseInt(p)
      zero == IF Here(p) = "0" THEN [q EXCEPT !.specs.fill = "0"] ELSE q
      header(r, index) == [parsed |-> r, index |-> index]
  IN  CASE ~IsDigit(Here(p)) -> header(ParseFlagsAndWidth(p, args), -1)
        [] IsDigit(Here(p)) /\ Here(q) = "$" -> header(ParseFlagsAndWidth(Skip(q, 1), args), q.value)
        [] IsDigit(Here(p)) /\ Here(q) # "$" ->
             header(IF q.value # 0 THEN [zero EXCEPT !.specs.width = q.value]
                    ELSE ParseFlagsAndWidth(zero, args), -1)

\* printf_precision_handler.
StarPrecision(p, args) ==
  LET q == NextArg(p, args)
      arg == GetArg(q, args)
      r == Require(q, Integral(arg.type), "precision is not integer")
  IN  IF r.error # "" THEN r
      ELSE Require([r EXCEPT !.specs.precision = arg.value],
                   arg.value \in -MaxInt - 1 .. MaxInt, "number is too big")

ReadPrecision(p, args) ==
  LET q == Skip(p, 1) IN
  CASE Here(p) # "." -> p
    [] Here(p) = "." /\ IsDigit(Here(q)) -> LET r == ParseInt(q) IN [r EXCEPT !.specs.precision = r.value]
    [] Here(p) = "." /\ Here(q) = "*" -> StarPrecision(Skip(q, 1), args)
    [] OTHER -> [q EXCEPT !.specs.precision = 0]

-----------------------------------------------------------------------------
(* Arguments.                                                              *)

BitsOf(type) ==
  CASE type = "bool" -> 1 [] type = "char" -> CharBits [] type \in {"int", "uint"} -> IntBits
    [] type \in {"long_long", "ulong_long"} -> WordBits

IntArg(type, value) == [type |-> type, value |-> value, name |-> << >>]

\* convert_arg, to so many bits, or to those of the argument if bits is 0.  An argument
\* is never made longer without its sign.
ConvertArg(arg, bits, to) ==
  LET own == BitsOf(arg.type)
      target == IF bits = 0 THEN own ELSE bits
      unsigned(n) == IF arg.type = "bool" THEN arg.value ELSE AsUnsigned(arg.value, n)
  IN  CASE ~Integral(arg.type) \/ (arg.type = "bool" /\ to = "s") -> arg
        [] Integral(arg.type) /\ target <= IntBits /\ to \in {"d", "i"} ->
             IntArg("int", IF target = 1 THEN arg.value ELSE AsSigned(arg.value, target))
        [] Integral(arg.type) /\ target <= IntBits /\ to \notin {"d", "i"} ->
             IntArg("uint", IF target = 1 THEN arg.value ELSE AsUnsigned(arg.value, target))
        [] Integral(arg.type) /\ target > IntBits /\ to \in {"d", "i"} ->
             IntArg("long_long", AsSigned(arg.value, WordBits))
        [] OTHER -> IntArg(IF own <= IntBits THEN "uint" ELSE "ulong_long", unsigned(own))

\* The length, which says to how many bits; L changes nothing.
Length(p) ==
  LET c == Here(p)
      twice == c \in {"h", "l"} /\ CharAt(p.s, p.at + 1) = c
      bits == CASE c = "h" -> IF twice THEN CharBits ELSE ShortBits
                [] c \in {"l", "j", "z", "t"} -> WordBits
                [] OTHER -> 0
  IN  [skip |-> IF twice THEN 2 ELSE IF c \in {"h", "l", "j", "z", "t", "L"} THEN 1 ELSE 0,
       bits |-> bits, keep |-> c = "L"]

Normalized(arg, type) == IF Integral(arg.type) /\ type \in {"i", "u"} THEN "d" ELSE type

\* printf_arg_formatter: the text of the argument, or an error.
Text(text) == [error |-> "", text |-> text]
Refused == [error |-> "invalid type specifier", text |-> << >>]
Nil == <<"(", "n", "i", "l", ")">>
Null == <<"(", "n", "u", "l", "l", ")">>

PrintArg(arg, specs) ==
  LET plain == [specs EXCEPT !.type = "none"] IN
  CASE arg.type = "bool" /\ specs.type = "s" -> Text(WriteArg(arg, plain))
    [] Integral(arg.type) /\ specs.type = "c" -> Text(WritePadded([specs EXCEPT !.align = "right"], <<"c">>))
    [] Integral(arg.type) /\ specs.type \in IntSpecs -> Text(WriteInt(arg.value, specs))
    [] arg.type = "double" /\ TypeFits("double", specs) -> Text(WriteDouble(arg, specs))
    [] arg.type \in {"cstring", "string"} /\ arg.value # 0 /\ specs.type = "s" -> Text(WriteText(arg.text, specs))
    [] arg.type = "cstring" /\ specs.type = "p" ->
         Text(IF arg.value = 0 THEN WriteText(Nil, plain) ELSE WritePointer(arg.value, specs))
    [] arg.type = "cstring" /\ arg.value = 0 /\ specs.type # "p" -> Text(WriteText(Null, specs))
    [] arg.type = "pointer" /\ arg.value = 0 -> Text(WriteText(Nil, plain))
    [] arg.type = "pointer" /\ arg.value # 0 /\ specs.type = "p" -> Text(WritePointer(arg.value, specs))
    [] OTHER -> Refused

-----------------------------------------------------------------------------
(* format.                                                                 *)

ZeroInt(arg) == Integral(arg.type) /\ arg.value = 0

\* The next argument, or that of the index.
TakeArg(p, index, args) ==
  IF p.error # "" THEN p ELSE IF index = -1 THEN NextArg(p, args) ELSE IndexedArg(p, index, args)

\* The length, the type, and the text of the argument.
PrintConverted(p, arg) ==
  LET length == Length(p)
      s == Skip(p, length.skip)
      converted == IF length.keep THEN arg ELSE ConvertArg(arg, length.bits, Here(s))
      specs == [s.specs EXCEPT
        !.flags = IF ZeroInt(arg) THEN @ \ {"HASH"} ELSE @,
        !.align = IF s.specs.fill = "0" /\ Arithmetic(arg.type) THEN "numeric" ELSE @,
        !.fill = IF @ = "0" /\ ~Arithmetic(arg.type) THEN " " ELSE @,
        !.type = Normalized(converted, Here(s))]
      printed == PrintArg(converted, specs)
  IN  IF p.error # "" THEN p
      ELSE IF Here(s) \in Stops THEN Fail(s, "invalid format string")
      ELSE IF printed.error # "" THEN Fail(s, printed.error)
      ELSE [Skip(s, 1) EXCEPT !.out = @ \o printed.text]

\* The value of an argument, after the width and the precision.
PrintNextArg(p, args) == PrintConverted(p, GetArg(p, args))
AfterHeader(header, args) ==
  PrintNextArg(TakeArg(ReadPrecision(header.parsed, args), header.index, args), args)

\* One conversion, at the character after '%'.
Conversion(p, args) ==
  AfterHeader(ParseHeader([p EXCEPT !.specs = [DefaultSpecs EXCEPT !.align = "right"]], args), args)

\* A turn of the loop: the text up to the next '%', and the conversion.
PrintNext(p, args) ==
  LET e == RunEnd(p, p.at, ToSet(p.s) \ {"%", "nul"})
      q == [p EXCEPT !.at = e, !.out = @ \o SubSeq(p.s, p.at, e - 1)]
  IN  CASE p.error # "" -> p
        [] p.error = "" /\ Here(q) \in Stops -> q
        [] p.error = "" /\ Here(q) = "%" /\ CharAt(q.s, e + 1) = "%" -> Skip([q EXCEPT !.out = Append(@, "%")], 2)
        [] OTHER -> Conversion(Skip(q, 1), args)

Printed(s, args) ==
  LET run[n \in 0 .. Len(s) + 1] == IF n = 0 THEN Parsing(s) ELSE PrintNext(run[n - 1], args)
  IN  run[Len(s) + 1]

-----------------------------------------------------------------------------
(* Properties.                                                             *)

\* A conversion as one writes it: [index, flags, width, precision, length, type].
WrittenConversion(w) ==
  LET number(n) == IF n.by = "auto" THEN <<"*">> ELSE WrittenNumber(n) IN
  <<"%">> \o (IF w.index = 0 THEN << >> ELSE Digits[w.index] \o <<"$">>) \o w.flags \o number(w.width)
    \o (IF w.precision.by = "none" THEN << >> ELSE <<".">> \o number(w.precision)) \o w.length \o <<w.type>>

LengthBits(length) ==
  CASE length = << >> -> IntBits [] length = <<"h">> -> ShortBits [] length = <<"h", "h">> -> CharBits
    [] OTHER -> WordBits

\* What C's printf prints for an integer.
InC(w, value, width, precision) ==
  LET signed == w.type \in {"d", "i"}
      bits == LengthBits(w.length)
      v == IF signed THEN AsSigned(value, bits) ELSE AsUnsigned(value, bits)
      base == CASE w.type \in {"x", "X"} -> 4 [] w.type = "o" -> 3 [] OTHER -> 0
      digits == IF base = 0 THEN Digits[Magnitude(v)] ELSE UintFrom(v, base, w.type = "X")
      has(c) == c \in ToSet(w.flags)
      zeros == Repeated("0", IF precision > Len(digits) THEN precision - Len(digits) ELSE 0)
      body == (IF has("#") /\ w.type = "o" /\ zeros = << >> /\ v # 0 THEN <<"0">> ELSE << >>) \o zeros \o digits
      prefix == IF signed /\ v < 0 THEN <<"-">>
                ELSE IF signed /\ has("+") THEN <<"+">>
                ELSE IF signed /\ has(" ") THEN <<" ">>
                ELSE IF has("#") /\ base = 4 /\ v # 0 THEN <<"0", w.type>> ELSE << >>
      missing == IF Magnitude(width) > Len(prefix \o body) THEN Magnitude(width) - Len(prefix \o body) ELSE 0
  IN  CASE has("-") \/ width < 0 -> prefix \o body \o Repeated(" ", missing)
        [] ~has("-") /\ width >= 0 /\ has("0") -> prefix \o Repeated("0", missing) \o body
        [] OTHER -> Repeated(" ", missing) \o prefix \o body

\* Where this printf follows C's: the flag 0 is not given together with - or with a
\* precision (C ignores it then), neither a sign nor the length L for an unsigned
\* conversion, nor, for a value that is 0 in the length named, a precision of 0 or,
\* unless it was 0 before, the flag #.
FollowsC(w, value, width, precision) ==
  /\ "0" \in ToSet(w.flags) => "-" \notin ToSet(w.flags) /\ width >= 0 /\ precision < 0
  /\ ToSet(w.flags) \cap {"+", " "} # {} \/ w.length = <<"L">> => w.type \in {"d", "i"}
  /\ AsUnsigned(value, LengthBits(w.length)) = 0 => precision # 0 /\ ("#" \in ToSet(w.flags) => value = 0)
  /\ w.type \in {"d", "i", "u", "x", "X", "o"}

\* p is what became of the conversion w.
LikeC(w, args, p) ==
  LET taken == SelectSeq(<<w.width, w.precision>>, LAMBDA n : n.by = "auto")
      value == Len(taken) + 1
      width == CASE w.width.by = "auto" -> args[1].value [] w.width.by = "digits" -> w.width.n [] OTHER -> 0
      precision == CASE w.precision.by = "auto" -> args[Len(taken)].value
                     [] w.precision.by = "digits" -> w.precision.n [] OTHER -> -1
      enough == IF w.index = 0 THEN value <= Len(args) ELSE w.index <= Len(args)
      fits == \A k \in 1 .. Len(taken) : args[k].type \in IntTypes \cup {"char", "bool"}
  IN  CASE w.index > 0 /\ taken # << >> -> p.error # ""
        [] ~enough \/ ~fits -> p.error # ""
        [] OTHER ->
             LET arg == args[IF w.index = 0 THEN value ELSE w.index] IN
             (arg.type \in IntTypes /\ FollowsC(w, arg.value, width, precision)
                /\ BitsOf(arg.type) = (IF LengthBits(w.length) = WordBits THEN WordBits ELSE IntBits)) =>
               IF width \in -MaxInt .. MaxInt /\ precision \in -MaxInt - 1 .. MaxInt THEN
                 p.error = "" /\ p.out = InC(w, arg.value, width, precision)
               ELSE p.error # ""

\* A conversion takes its width, its precision and its value in this order, refuses
\* indices beside them, and prints what C prints for an integer of the length it names.
PrintsLikeC(w, args) == LikeC(w, args, Printed(WrittenConversion(w), args))
=============================================================================
