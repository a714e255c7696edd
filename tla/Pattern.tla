-------------------------------- MODULE Pattern -----------------------------
(***************************************************************************)
(* The patterns of spdlog (details/pattern_formatter-inl.h): what a        *)
(* pattern compiles to, and what each flag appends for a message.  A text  *)
(* is known here by its size and by the time it shows; a pattern is a      *)
(* sequence of characters, each a string of one.                           *)
(***************************************************************************)
EXTENDS Characters

CONSTANTS
  SizeLimit,        \* one more than the greatest size_t
  TicksPerSecond,   \* of the clock that stamps messages
  LocalTime(_)      \* the weekday, month and day of a second: [wday, mon, mday]

ASSUME PatternAssumption ==
  /\ SizeLimit \in Nat \ (0 .. 64) /\ TicksPerSecond \in Nat \ {0}

-----------------------------------------------------------------------------
(* Compiling.                                                              *)

MaxWidth == 64

\* What is pushed to formatters_: a flag with its padding, or characters to be shown as they are.
Item(flag, side, width, text) == [flag |-> flag, side |-> side, width |-> width, text |-> text]
Chars(text) == Item("chars", "left", 0, text)

KnownFlags ==
  {"+", "n", "l", "L", "t", "v", "a", "A", "b", "h", "B", "c", "C", "Y", "D", "x", "m", "d",
   "H", "I", "M", "S", "e", "f", "F", "E", "p", "r", "R", "T", "X", "z", "P", "^", "$",
   "@", "s", "g", "#", "!", "%", "u", "i", "o", "O"}

\* handle_flag_.
HandleFlag(flag, side, width) ==
  IF flag = "%" THEN Chars(<<"%">>)
  ELSE IF flag \in KnownFlags THEN Item(flag, side, width, << >>) ELSE Chars(<<"%", flag>>)

\* The state of the scan: in the text, or in a flag before its side, before its
\* width, or in it.
ScanStart == [items |-> << >>, text |-> << >>, at |-> "text", side |-> "left", width |-> 0]
PushText(scan) == IF scan.text = << >> THEN scan.items ELSE Append(scan.items, Chars(scan.text))

EndFlag(scan, c) ==
  [ScanStart EXCEPT !.items = Append(scan.items,
     HandleFlag(c, scan.side, IF scan.width < MaxWidth THEN scan.width ELSE MaxWidth))]

ScanChar(scan, c) ==
  CASE scan.at = "text" /\ c = "%" -> [ScanStart EXCEPT !.items = PushText(scan), !.at = "side"]
    [] scan.at = "text" /\ c # "%" -> [scan EXCEPT !.text = Append(@, c)]
    [] scan.at = "side" /\ c \in {"-", "="} ->
         [scan EXCEPT !.at = "width", !.side = IF c = "-" THEN "right" ELSE "center"]
    [] scan.at \in {"side", "width", "digits"} /\ IsDigit(c) ->
         [scan EXCEPT !.at = "digits", !.width = (@ * 10 + DigitValue(c)) % SizeLimit]
    [] OTHER -> EndFlag(scan, c)

\* compile_pattern_ with handle_padspec_: a flag that is cut off by the end is dropped.
Scans(pattern) ==
  LET scan[k \in 0 .. Len(pattern)] == IF k = 0 THEN ScanStart ELSE ScanChar(scan[k - 1], pattern[k])
  IN  scan

Compile(pattern) ==
  LET scan == Scans(pattern)[Len(pattern)]
  IN  IF scan.at = "text" THEN PushText(scan) ELSE scan.items

-----------------------------------------------------------------------------
(* What flags append.                                                      *)

\* scoped_padder, told that size characters will follow: the spaces before and after.
Pad(side, width, size) ==
  LET total == IF width <= size THEN 0 ELSE width - size IN
  CASE side = "left" -> <<total, 0>>
    [] side = "right" -> <<0, total>>
    [] side = "center" -> <<total \div 2, (total \div 2) + (total % 2)>>

\* A field says its size to the padder, has a size, and may show a second or an elapsed time.
Field(said, size, kind, value) == [said |-> said, size |-> size, kind |-> kind, value |-> value]
Name(size) == Field(size, size, "name", 0)

FullDays == <<6, 6, 7, 9, 8, 6, 8>>
ShortMonths == <<3, 3, 3, 3, 3, 3, 3, 3, 4, 3, 3, 3>>
FullMonths == <<7, 8, 5, 5, 3, 4, 4, 6, 9, 7, 8, 8>>
SmallSize(n) == IF n < 10 THEN 1 ELSE 2

\* %n, %l, %L.
LoggerFields(msg) ==
  [flag \in {"n", "l", "L"} |->
     Name(CASE flag = "n" -> msg.name [] flag = "l" -> msg.level [] flag = "L" -> 1)]

\* %t, %P, %v.
MessageFields(msg) ==
  [flag \in {"t", "P", "v"} |->
     Name(CASE flag = "t" -> msg.thread [] flag = "P" -> msg.pid [] flag = "v" -> msg.payload)]

\* A field of the second broken down.
Shows(size, second) == Field(size, size, "second", second)

\* %a to %B.
NamedDayFields(tm) ==
  LET date == LocalTime(tm) IN
  [flag \in {"a", "A", "b", "h", "B"} |->
     Shows(CASE flag = "a" -> 3 [] flag = "A" -> FullDays[date.wday + 1]
             [] flag \in {"b", "h"} -> ShortMonths[date.mon + 1] [] flag = "B" -> FullMonths[date.mon + 1], tm)]

\* %c to %d.  The sizes that %c and %D tell the padder are not those of what follows.
DateFields(tm) ==
  LET date == LocalTime(tm)
      c == 3 + 1 + ShortMonths[date.mon + 1] + 1 + SmallSize(date.mday) + 1 + 8 + 1 + 4
  IN  [flag \in {"c", "C", "m", "d", "D", "x", "Y"} |->
         CASE flag = "c" -> Field(24, c, "second", tm) [] flag \in {"C", "m", "d"} -> Shows(2, tm)
           [] flag \in {"D", "x"} -> Field(10, 8, "second", tm) [] flag = "Y" -> Shows(4, tm)]

\* %H to %E; the fractions and %E come from the message, not from the tm.
ClockFields(tm, second) ==
  [flag \in {"H", "I", "M", "S", "e", "f", "F", "E"} |->
     CASE flag \in {"H", "I", "M", "S"} -> Shows(2, tm) [] flag = "e" -> Shows(3, second)
       [] flag = "f" -> Shows(6, second) [] flag = "F" -> Shows(9, second) [] flag = "E" -> Shows(10, second)]

\* %p to %z.
HourFields(tm) ==
  [flag \in {"p", "r", "R", "T", "X", "z"} |->
     Shows(CASE flag = "p" -> 2 [] flag = "r" -> 11 [] flag = "R" -> 5 [] flag \in {"T", "X"} -> 8 [] flag = "z" -> 6, tm)]

\* %@, %s, %g, %# and %!, for a message with a source location.
SourceFlags == {"@", "s", "g", "#", "!"}
SourceFields(msg) ==
  [flag \in SourceFlags |->
     Name(CASE flag = "@" -> msg.file + 1 + msg.line [] flag = "g" -> msg.file [] flag = "s" -> msg.base
            [] flag = "#" -> msg.line [] flag = "!" -> msg.func)]

\* %u, %i, %o and %O: a negative duration becomes a size_t, which has twenty digits.
ElapsedFields(delta) ==
  [flag \in {"u", "i", "o", "O"} |->
     LET unit == IF flag = "O" THEN TicksPerSecond ELSE 1
     IN  Field(6, IF -delta >= unit THEN 20 ELSE 6, "elapsed", delta)]

\* What each flag shows of a message.
Fields(msg, tm, since) ==
  LET tables == {LoggerFields(msg), MessageFields(msg), NamedDayFields(tm), DateFields(tm),
                 ClockFields(tm, msg.time \div TicksPerSecond), HourFields(tm),
                 ElapsedFields(msg.time - since), SourceFields(msg)}
  IN  [flag \in UNION {DOMAIN table : table \in tables} |-> (CHOOSE table \in tables : flag \in DOMAIN table)[flag]]

\* What an item appends to a text that shows the seconds in the set shows and the
\* elapsed times in the set elapsed.
Spaces(item, field) ==
  LET pads == Pad(item.side, item.width, field.said) IN pads[1] + pads[2]

AppendItem(out, item, msg, tm, since, cached) ==
  LET add(size) == [out EXCEPT !.size = @ + size] IN
  CASE item.flag = "chars" -> add(Len(item.text))
    [] item.flag = "^" -> [out EXCEPT !.start = out.size]
    [] item.flag = "$" -> [out EXCEPT !.end = out.size]
    [] item.flag = "+" ->
         \* full_formatter: [date and time.millis] [name] [level] [file:line] payload
         LET before == 26 + (IF msg.name > 0 THEN msg.name + 3 ELSE 0) + 1
             source == IF msg.line = 0 THEN 0 ELSE msg.base + 1 + msg.line + 3
         IN  [out EXCEPT !.start = out.size + before, !.end = out.size + before + msg.level,
                         !.size = @ + before + msg.level + 2 + source + msg.payload,
                         !.shows = @ \cup {cached, msg.time \div TicksPerSecond}]
    [] item.flag \in SourceFlags /\ msg.line = 0 -> out
    [] OTHER ->
         LET field == Fields(msg, tm, since)[item.flag]
             longer == add(field.size + Spaces(item, field))
         IN  CASE field.kind = "second" -> [longer EXCEPT !.shows = @ \cup {field.value}]
               [] field.kind = "elapsed" -> [longer EXCEPT !.elapsed = @ \cup {field.value}]
               [] OTHER -> longer

\* pattern_formatter::format, with the end of line; the colour range is the message's.
Outputs(items, msg, tm, since, cached, range) ==
  LET out[k \in 0 .. Len(items)] ==
        IF k = 0 THEN [size |-> 0, shows |-> {}, elapsed |-> {}, start |-> range[1], end |-> range[2]]
        ELSE AppendItem(out[k - 1], items[k], msg, tm, since, cached)
  IN  out

Format(items, msg, tm, since, cached, range) == Outputs(items, msg, tm, since, cached, range)[Len(items)]

-----------------------------------------------------------------------------
(* Properties of compiling and padding, for the inputs of a run.           *)

\* An item as one writes it in a pattern.
Written(item) ==
  IF item.flag = "chars" THEN FlattenSeq([k \in DOMAIN item.text |->
                                IF item.text[k] = "%" THEN <<"%", "%">> ELSE <<item.text[k]>>])
  ELSE <<"%">>
    \o (CASE item.side = "left" -> << >> [] item.side = "right" -> <<"-">> [] item.side = "center" -> <<"=">>)
    \o (IF item.width = 0 THEN << >> ELSE Digits[item.width]) \o <<item.flag>>

Shown(items) ==
  FlattenSeq([k \in DOMAIN items |-> IF items[k].flag = "chars" THEN items[k].text
                                     ELSE <<[items[k] EXCEPT !.text = << >>]>>])

\* A pattern that is written from items compiles to something that shows the same
\* characters and flags in the same order, however they are put next to each other;
\* a width that fits a size_t is the one written, or 64.
CompilesTo(items) ==
  Shown(Compile(FlattenSeq([k \in DOMAIN items |-> Written(items[k])])))
    = Shown([k \in DOMAIN items |->
        [items[k] EXCEPT !.width = IF @ % SizeLimit < MaxWidth THEN @ % SizeLimit ELSE MaxWidth]])

\* A padded field is as wide as was asked for, or as it is itself, with the spaces
\* where they belong, if it tells its size.
PadsTo(side, width, size) ==
  LET pads == Pad(side, width, size) IN
  /\ pads[1] + size + pads[2] = (IF size < width THEN width ELSE size)
  /\ side = "left" => pads[2] = 0
  /\ side = "right" => pads[1] = 0
  /\ side = "center" => pads[2] - pads[1] \in {0, 1}

\* Every field tells its size, but for %c and %D, and for the elapsed time between
\* two messages out of order.
SizesTold(msg, tm, since) ==
  \A flag \in DOMAIN Fields(msg, tm, since) :
    LET field == Fields(msg, tm, since)[flag] IN
    field.said = field.size \/ flag \in {"c", "D", "x"} \/ (field.kind = "elapsed" /\ field.value < 0)
=============================================================================
