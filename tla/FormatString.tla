----------------------------- MODULE FormatString ---------------------------
(***************************************************************************)
(* Format strings (fmt/bundled/format.h with the contexts of core.h): how  *)
(* one is parsed, with its arguments when it is formatted and with their   *)
(* types alone when it is checked at compile time.  An argument is         *)
(* [type, value, name]; an error is the exception that ends the parsing.   *)
(* What is parsed is a sequence of characters to be copied and of fields.  *)
(***************************************************************************)
EXTENDS Characters, FiniteSets

CONSTANT MaxInt   \* the greatest int

ASSUME FormatStringAssumption == MaxInt \in Nat /\ MaxInt >= 10

IntTypes == {"int", "uint", "long_long", "ulong_long"}
Integral(type) == type \in IntTypes \cup {"bool", "char"}
Arithmetic(type) == Integral(type) \/ type \in {"double", "long_double"}

DefaultSpecs ==
  [fill |-> " ", align |-> "default", flags |-> {}, width |-> 0, precision |-> -1, type |-> "none"]

CopyOf(c) == [char |-> c]
FieldFor(id, name, specs) == [arg |-> id, name |-> name, specs |-> specs]

\* What is being parsed, where; next_arg_id_; and what was read so far.
Parsing(s) ==
  [s |-> s, at |-> 1, next |-> 0, error |-> "", out |-> << >>, id |-> 0, name |-> << >>, value |-> 0,
   specs |-> DefaultSpecs]

Fail(p, error) == IF p.error = "" THEN [p EXCEPT !.error = error] ELSE p
Require(p, ok, error) == IF ok THEN p ELSE Fail(p, error)
Here(p) == CharAt(p.s, p.at)
EndsHere(p, error) == Require(p, Here(p) = "}", error)
Skip(p, n) == [p EXCEPT !.at = @ + n]

-----------------------------------------------------------------------------
(* Numbers and argument ids.                                               *)

\* The end of the longest run of characters from here on that are all in a set.
RunEnd(p, from, chars) ==
  CHOOSE e \in from .. Len(p.s) + 1 :
    /\ \A k \in from .. e - 1 : p.s[k] \in chars
    /\ CharAt(p.s, e) \notin chars

\* The number that digits are, or one more than the greatest int.
IntOf(digits) ==
  LET value[n \in 0 .. Len(digits)] ==
        IF n = 0 THEN 0
        ELSE IF value[n - 1] > MaxInt \div 10 THEN MaxInt + 1 ELSE value[n - 1] * 10 + DigitValue(digits[n])
  IN  value[Len(digits)]

\* parse_nonnegative_int, at a digit.
ParseInt(p) ==
  IF Here(p) = "0" THEN [Skip(p, 1) EXCEPT !.value = 0]
  ELSE LET e == RunEnd(p, p.at, ToSet(DigitChars))
           value == IntOf(SubSeq(p.s, p.at, e - 1))
       IN  Require([p EXCEPT !.at = e, !.value = value], value <= MaxInt, "number is too big")

\* next_arg_id and check_arg_id: a format string numbers its arguments or none of them.
NextArgId(p) ==
  IF p.next >= 0 THEN [p EXCEPT !.next = @ + 1, !.id = p.next, !.name = << >>]
  ELSE Fail(p, "cannot switch from manual to automatic argument indexing")

CheckArgId(p, id) ==
  IF p.next > 0 THEN Fail(p, "cannot switch from automatic to manual argument indexing")
  ELSE [p EXCEPT !.next = -1, !.id = id, !.name = << >>]

\* is_name_start.
NameStarts ==
  {"a", "b", "c", "d", "e", "f", "g", "h", "i", "j", "k", "l", "m", "n", "o", "p", "q", "r", "s", "t",
   "u", "v", "w", "x", "y", "z", "A", "B", "C", "D", "E", "F", "G", "H", "I", "J", "K", "L", "M", "N",
   "O", "P", "Q", "R", "S", "T", "U", "V", "W", "X", "Y", "Z", "_"}

\* parse_arg_id: the id is an index from 0 on, or a name.
ParseArgId(p) ==
  LET c == Here(p)
      number(q) == IF Here(q) \in {"}", ":"} THEN CheckArgId(q, q.value) ELSE Fail(q, "invalid format string")
  IN
  CASE c \in {"}", ":"} -> NextArgId(p)
    [] IsDigit(c) -> number(ParseInt(p))
    [] c \in NameStarts ->
         LET e == RunEnd(p, p.at, NameStarts \cup ToSet(DigitChars)) IN
         [p EXCEPT !.at = e, !.name = SubSeq(p.s, p.at, e - 1)]
    [] OTHER -> Fail(p, "invalid format string")

-----------------------------------------------------------------------------
(* Arguments.  args is what the handler knows; checking is TRUE for the    *)
(* handlers that run without the values.                                   *)

NoArg == [type |-> "none", value |-> 0, name |-> << >>]
Named(args, name) == {k \in DOMAIN args : args[k].name = name}
ById(p) == p.name = << >>

\* get_arg: arg_map finds the first argument of a name; do_get_arg refuses an index
\* without an argument.
GetArg(p, args) ==
  IF ById(p) THEN IF p.id < Len(args) THEN args[p.id + 1] ELSE NoArg
  ELSE IF Named(args, p.name) = {} THEN NoArg
  ELSE args[CHOOSE k \in Named(args, p.name) : \A j \in Named(args, p.name) : k <= j]

Found(p, args) ==
  Require(p, GetArg(p, args).type # "none",
          IF ById(p) THEN "argument index out of range" ELSE "argument not found")

\* What width_checker and precision_checker report.
WidthErrors == [other |-> "width is not integer", negative |-> "negative width"]
PrecisionErrors == [other |-> "precision is not integer", negative |-> "negative precision"]

\* set_dynamic_spec with one of them.
DynamicValue(p, args, errors) ==
  LET arg == GetArg(p, args)
      found == Require([Found(p, args) EXCEPT !.value = arg.value], arg.type \in IntTypes, errors.other)
  IN  Require(Require(found, arg.value >= 0, errors.negative), arg.value <= MaxInt, "number is too big")

\* on_dynamic_width and on_dynamic_precision, after '{': the argument is looked up,
\* or only kept as an arg_ref when the values are not known yet.
Dynamic(p, args, checking, errors) ==
  LET looked(q) == IF checking \/ q.error # "" THEN q ELSE DynamicValue(q, args, errors)
  IN  Skip(EndsHere(IF Here(p) = "end" THEN p ELSE looked(ParseArgId(p)), "invalid format string"), 1)

-----------------------------------------------------------------------------
(* Format specifiers.                                                      *)

AlignOf == "<" :> "left" @@ ">" :> "right" @@ "=" :> "numeric" @@ "^" :> "center"
FlagsOf == "+" :> {"SIGN", "PLUS"} @@ "-" :> {"MINUS"} @@ " " :> {"SIGN"}

RequireNumeric(p, type) == Require(p, Arithmetic(type), "format specifier requires numeric argument")

\* Mutant: the first character is looked at before the second.
ParseAlignFirst(p, type) ==
  LET second == CharAt(p.s, p.at + 1)
      set(q, align) == [IF align = "numeric" THEN RequireNumeric(q, type) ELSE q EXCEPT !.specs.align = align]
  IN  CASE Here(p) \in DOMAIN AlignOf -> set(Skip(p, 1), AlignOf[Here(p)])
        [] Here(p) \notin DOMAIN AlignOf /\ second \in DOMAIN AlignOf ->
             set([Skip(p, 2) EXCEPT !.specs.fill = Here(p)], AlignOf[second])
        [] OTHER -> p

\* parse_align: the second character is looked at before the first, which is then the fill.
ParseAlign(p, type) ==
  LET second == CharAt(p.s, p.at + 1)
      set(q, align) == [IF align = "numeric" THEN RequireNumeric(q, type) ELSE q EXCEPT !.specs.align = align]
  IN  CASE second \in DOMAIN AlignOf /\ Here(p) = "{" -> Fail(p, "invalid fill character '{'")
        [] second \in DOMAIN AlignOf /\ Here(p) # "{" ->
             set([Skip(p, 2) EXCEPT !.specs.fill = Here(p)], AlignOf[second])
        [] second \notin DOMAIN AlignOf /\ Here(p) \in DOMAIN AlignOf -> set(Skip(p, 1), AlignOf[Here(p)])
        [] OTHER -> p

\* check_sign.
ParseSign(p, type) ==
  IF Here(p) \in DOMAIN FlagsOf THEN
    Require([Skip(RequireNumeric(p, type), 1) EXCEPT !.specs.flags = FlagsOf[Here(p)]],
            Integral(type) => type \in {"int", "long_long", "char"},
            "format specifier requires signed argument")
  ELSE p

ParseHash(p, type) ==
  IF Here(p) = "#" THEN [Skip(RequireNumeric(p, type), 1) EXCEPT !.specs.flags = @ \cup {"HASH"}] ELSE p

ParseZero(p, type) ==
  IF Here(p) = "0" THEN [Skip(RequireNumeric(p, type), 1) EXCEPT !.specs.align = "numeric", !.specs.fill = "0"]
  ELSE p

ParseWidth(p, args, checking) ==
  LET set(q) == [q EXCEPT !.specs.width = q.value]
      dynamic == Dynamic(Skip(p, 1), args, checking, WidthErrors)
  IN  CASE IsDigit(Here(p)) -> set(ParseInt(p))
        [] Here(p) = "{" -> IF checking THEN dynamic ELSE set(dynamic)
        [] OTHER -> p

ParsePrecision(p, type, args, checking) ==
  LET c == CharAt(p.s, p.at + 1)
      set(q) == [q EXCEPT !.specs.precision = q.value]
      dynamic == Dynamic(Skip(p, 2), args, checking, PrecisionErrors)
      read == CASE IsDigit(c) -> set(ParseInt(Skip(p, 1)))
                [] c = "{" -> IF checking THEN dynamic ELSE set(dynamic)
                [] OTHER -> Fail(p, "missing precision specifier")
  IN  IF Here(p) # "." THEN p
      ELSE Require(read, ~Integral(type) /\ type # "pointer", "precision not allowed for this argument type")

ParseType(p) ==
  IF Here(p) \in {"}", "end"} THEN p ELSE [Skip(p, 1) EXCEPT !.specs.type = Here(p)]

\* parse_format_specs with specs_checker.
ParseSpecs(p, type, args, checking) ==
  IF Here(p) = "}" THEN p
  ELSE ParseType(ParsePrecision(ParseWidth(ParseZero(ParseHash(ParseSign(ParseAlign(p, type), type),
         type), type), args, checking), type, args, checking))

\* handle_int_type_spec and its like.
IntSpecs == {"none", "d", "x", "X", "b", "B", "o", "n"}
TypeFits(type, specs) ==
  CASE type \in IntTypes \cup {"bool"} -> specs.type \in IntSpecs
    [] type = "char" -> IF specs.type \in {"none", "c"} THEN specs.align # "numeric" /\ specs.flags = {}
                        ELSE specs.type \in IntSpecs
    [] type \in {"double", "long_double"} -> specs.type \in {"none", "g", "G", "e", "E", "f", "F", "a", "A"}
    [] type = "cstring" -> specs.type \in {"none", "s", "p"}
    [] type = "string" -> specs.type \in {"none", "s"}
    [] type = "pointer" -> specs.type \in {"none", "p"}

-----------------------------------------------------------------------------
(* The string.                                                             *)

\* What a text is copied as, where '}' comes in pairs.
Copied(text) ==
  LET add(w, c) == CASE c = "}" -> [w EXCEPT !.open = ~@, !.text = IF w.open THEN Append(@, CopyOf(c)) ELSE @]
                     [] c # "}" -> [w EXCEPT !.bad = @ \/ w.open, !.text = Append(@, CopyOf(c))]
  IN  FoldLeft(add, [text |-> << >>, open |-> FALSE, bad |-> FALSE], text)

\* The writer of parse_format_string: text up to the next '{'.
CopyText(p, text) ==
  LET w == Copied(text)
  IN  Require([p EXCEPT !.out = @ \o w.text], ~w.open /\ ~w.bad, "unmatched '}' in format string")

\* on_arg_id.  A checker does nothing for a name: the argument before it remains.
OnArgId(p, args, checking) ==
  IF checking THEN
    IF ById(p) THEN Require(p, p.id < Len(args), "argument index out of range") ELSE p
  ELSE Found(p, args)

\* on_format_specs after ':' , for the argument that p.id names.
OnFormatSpecs(p, args, checking, known) ==
  LET arg == IF checking THEN IF known \in 0 .. Len(args) - 1 THEN args[known + 1] ELSE NoArg
             ELSE GetArg(p, args)
  IN  IF p.error # "" \/ arg.type = "none" THEN p
      ELSE EndsHere(ParseSpecs([p EXCEPT !.specs = DefaultSpecs], arg.type, args, checking),
                    "missing '}' in format string")

\* A type that the argument does not know is refused by parse of a checker's formatter,
\* or else when the value is formatted.
OnField(p, field, arg) ==
  IF p.error # "" THEN p
  ELSE Require(Skip([p EXCEPT !.out = Append(@, FieldFor(field.id, field.name, p.specs))], 1),
               arg.type = "none" \/ TypeFits(arg.type, p.specs), "invalid type specifier")

\* One replacement field, at the character after '{'; known is the checker's arg_id_.
ParseField(p, args, checking, known) ==
  LET q == OnArgId(ParseArgId([p EXCEPT !.specs = DefaultSpecs]), args, checking)
      now == IF ById(q) THEN q.id ELSE known
      arg == IF ~checking THEN GetArg(q, args)
             ELSE IF Here(q) = ":" /\ now \in 0 .. Len(args) - 1 THEN args[now + 1] ELSE NoArg
      r == CASE Here(q) = "}" -> q
             [] Here(q) = ":" -> OnFormatSpecs(Skip(q, 1), args, checking, now)
             [] OTHER -> Fail(q, "missing '}' in format string")
  IN  [parsed |-> OnField(EndsHere(r, "unknown format specifier"), q, arg),
       known |-> now]

\* A turn of the loop: the text up to the next '{', and what begins there.
ParseNext(run, args, checking) ==
  LET p == run.parsed
      e == RunEnd(p, p.at, ToSet(p.s) \ {"{"})
      q == [CopyText(p, SubSeq(p.s, p.at, e - 1)) EXCEPT !.at = e + 1]
      to(r) == [run EXCEPT !.parsed = r]
  IN  IF p.error # "" \/ p.at > Len(p.s) THEN run
      ELSE CASE e > Len(p.s) -> to([q EXCEPT !.at = e])
             [] e = Len(p.s) -> to(Fail(q, "invalid format string"))
             [] e < Len(p.s) /\ Here(q) = "{" -> to(Skip([q EXCEPT !.out = Append(@, CopyOf("{"))], 1))
             [] OTHER -> ParseField(q, args, checking, run.known)

\* parse_format_string; each turn but the last gets on.  -1 is the checker's arg_id_
\* before the first field.
Runs(s, args, checking) ==
  LET run[n \in 0 .. Len(s)] ==
        IF n = 0 THEN [parsed |-> Parsing(s), known |-> -1] ELSE ParseNext(run[n - 1], args, checking)
  IN  run

ParseString(s, args, checking) == Runs(s, args, checking)[Len(s)].parsed

\* vformat_to, and check_format_string.
Formatted(s, args) == ParseString(s, args, FALSE)
Checked(s, args) == ParseString(s, args, TRUE)

-----------------------------------------------------------------------------
(* Properties.  A piece is a character or a field as one writes it: an id  *)
(* and specifiers, each of them "none" or what stands there; a number is   *)
(* [by, n], written in digits or taken from an argument.                   *)

Given(n) == [by |-> "digits", n |-> n]
NotGiven == [by |-> "none", n |-> 0]

WrittenNumber(number) ==
  CASE number.by = "none" -> << >>
    [] number.by = "digits" -> Digits[number.n]
    [] number.by = "index" -> <<"{">> \o Digits[number.n] \o <<"}">>
    [] number.by = "auto" -> <<"{", "}">>
One(c) == IF c = "none" THEN << >> ELSE <<c>>

WrittenField(w) ==
  LET specs == One(w.fill) \o One(w.align) \o One(w.sign) \o (IF w.hash THEN <<"#">> ELSE << >>)
                 \o (IF w.zero THEN <<"0">> ELSE << >>) \o WrittenNumber(w.width)
                 \o (IF w.precision.by = "none" THEN << >> ELSE <<".">> \o WrittenNumber(w.precision))
                 \o One(w.type)
  IN  <<"{">> \o (IF w.id.by = "auto" THEN << >> ELSE Digits[w.id.n])
        \o (IF specs = << >> THEN << >> ELSE <<":">> \o specs) \o <<"}">>

WrittenPiece(piece) ==
  IF "char" \notin DOMAIN piece THEN WrittenField(piece)
  ELSE IF piece.char \in {"{", "}"} THEN <<piece.char, piece.char>> ELSE <<piece.char>>

\* The arguments that a field takes, in the order in which it takes them.
Taken(w) == SelectSeq(<<w.id, w.width, w.precision>>, LAMBDA number : number.by \in {"auto", "index"})
Kinds(pieces) ==
  UNION {{number.by : number \in ToSet(Taken(w))} : w \in {w \in ToSet(pieces) : "char" \notin DOMAIN w}}

\* What is wrong with a field of an argument's type, whatever the values are.
Misfit(w, type) ==
  \/ (w.align = "=" \/ w.zero \/ w.hash \/ w.sign # "none") /\ ~Arithmetic(type)
  \/ w.sign # "none" /\ type \in {"uint", "ulong_long", "bool"}
  \/ w.precision.by # "none" /\ type \notin {"double", "long_double", "string", "cstring"}
  \/ ~TypeFits(type, [type |-> w.type, align |-> IF w.zero \/ w.align = "=" THEN "numeric" ELSE "default",
                      flags |-> IF w.hash THEN {"HASH"} ELSE IF w.sign # "none" THEN {w.sign} ELSE {}])

\* The field that stands for w when its arguments are those of the given indices.
FieldOf(w, ids, args) ==
  LET at(k) == IF k \in DOMAIN ids /\ ids[k] + 1 \in DOMAIN args THEN args[ids[k] + 1] ELSE NoArg
      width == CASE w.width.by = "digits" -> w.width.n [] w.width.by = "none" -> 0 [] OTHER -> at(2).value
      precision == CASE w.precision.by = "digits" -> w.precision.n [] w.precision.by = "none" -> -1
                     [] OTHER -> at(IF w.width.by \in {"auto", "index"} THEN 3 ELSE 2).value
  IN  FieldFor(ids[1], << >>,
        [fill |-> IF w.zero THEN "0" ELSE IF w.fill = "none" THEN " " ELSE w.fill,
         align |-> IF w.zero THEN "numeric" ELSE IF w.align = "none" THEN "default" ELSE AlignOf[w.align],
         flags |-> (IF w.sign = "none" THEN {} ELSE FlagsOf[w.sign]) \cup (IF w.hash THEN {"HASH"} ELSE {}),
         width |-> width, precision |-> precision, type |-> w.type])

\* The argument indices that each piece takes.
IdsOf(pieces, k) ==
  LET before == FlattenSeq([j \in 1 .. k - 1 |-> IF "char" \in DOMAIN pieces[j] THEN << >> ELSE Taken(pieces[j])])
      own == Taken(pieces[k])
  IN  [j \in DOMAIN own |-> IF own[j].by = "auto" THEN Len(before) + j - 1 ELSE own[j].n]

\* p is what became of the pieces.
AsWritten(pieces, args, p) ==
  LET fields == {k \in DOMAIN pieces : "char" \notin DOMAIN pieces[k]}
      arg(k, j) == IF IdsOf(pieces, k)[j] < Len(args) THEN args[IdsOf(pieces, k)[j] + 1] ELSE NoArg
      wrong == \/ {"auto", "index"} \subseteq Kinds(pieces)
               \/ \E k \in fields : \/ \E j \in DOMAIN IdsOf(pieces, k) : arg(k, j).type = "none"
                                    \/ Misfit(pieces[k], arg(k, 1).type)
                                    \/ \E j \in DOMAIN IdsOf(pieces, k) \ {1} :
                                         arg(k, j).type \notin IntTypes \/ arg(k, j).value \notin 0 .. MaxInt
                                    \/ \E number \in {pieces[k].width, pieces[k].precision} :
                                         number.by = "digits" /\ number.n > MaxInt
  IN  /\ (p.error # "") = wrong
      /\ ~wrong => p.out = [k \in DOMAIN pieces |-> IF k \in fields THEN FieldOf(pieces[k], IdsOf(pieces, k), args)
                                                    ELSE pieces[k]]

\* A format string says what its pieces say: it is refused when it both numbers
\* arguments and leaves them to be counted, when one of them is missing, when a field does
\* not fit its argument, or when a width or precision is no int from 0 on; and else
\* every field has the specifiers written, and automatic fields, widths and precisions
\* take the arguments one after the other.
FormatsAsWritten(pieces, args) ==
  AsWritten(pieces, args, Formatted(FlattenSeq([k \in DOMAIN pieces |-> WrittenPiece(pieces[k])]), args))

\* What only the values of arguments show.
DynamicErrors ==
  {"argument index out of range", "number is too big", "width is not integer", "negative width",
   "precision is not integer", "negative precision"}
ErrorsAgree(checked, formatted) ==
  /\ checked # "" => formatted # ""
  /\ checked = "" => formatted \in DynamicErrors \cup {""}

\* Checking agrees with formatting, for any string without named arguments: what is refused
\* at compile time would be refused with any values, and what is not refused can
\* only fail for a width or precision that is missing or no int from 0 on.
CheckAgrees(s, args) ==
  (\A k \in 1 .. Len(s) - 1 : s[k] = "{" => s[k + 1] \notin NameStarts) =>
    ErrorsAgree(Checked(s, args).error, Formatted(s, args).error)
=============================================================================
