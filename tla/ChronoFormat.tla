------------------------------ MODULE ChronoFormat --------------------------
(***************************************************************************)
(* Durations (fmt/bundled/chrono.h): a format of put_time's kind is parsed *)
(* once by a checker, which refuses dates, and once more by the formatter, *)
(* which shows the time of day a duration amounts to.  A duration is a     *)
(* count of units of base^exponent seconds.  The characters of a text are  *)
(* records here, as some of them are the locale's.                         *)
(***************************************************************************)
EXTENDS FormatString, FormatValue

\* The time conversions, those that need a date, and what may follow %E and %O.
TimeConversions == {"H", "I", "M", "S", "r", "R", "T", "p"}
DateConversions == {"a", "A", "w", "u", "b", "B", "c", "x", "X", "D", "F", "z", "Z"}
AlternativeOf == "E" :> {"c", "x", "X"} @@ "O" :> {"w", "u", "H", "I", "M", "S"}

-----------------------------------------------------------------------------
(* parse_chrono_format.                                                    *)

Copies(text) == [k \in DOMAIN text |-> CopyOf(text[k])]

\* Where the parsing is: in a text, behind '%', behind a modifier, or at the '}' that
\* ends it; and the handler's calls so far, on_text with a character or a conversion.
ChronoStart == [at |-> "text", error |-> "", calls |-> << >>]

Call(scan, call) == [scan EXCEPT !.at = "text", !.calls = Append(@, call)]
ConversionOf(modifier, c) == [modifier |-> modifier, conversion |-> c]
Invalid(scan) == [scan EXCEPT !.error = "invalid format"]

ChronoChar(scan, c) ==
  CASE scan.error # "" \/ scan.at = "done" -> scan
    [] scan.error = "" /\ scan.at = "text" ->
         CASE c = "%" -> [scan EXCEPT !.at = "percent"]
           [] c = "}" -> [scan EXCEPT !.at = "done"]
           [] OTHER -> Call(scan, CopyOf(c))
    [] scan.error = "" /\ scan.at = "percent" ->
         CASE c \in {"%", "n", "t"} -> Call(scan, CopyOf(IF c = "n" THEN "\n" ELSE IF c = "t" THEN "\t" ELSE c))
           [] c \in DOMAIN AlternativeOf -> [scan EXCEPT !.at = c]
           [] c \in TimeConversions \cup DateConversions -> Call(scan, ConversionOf("", c))
           [] OTHER -> Invalid(scan)
    [] scan.error = "" /\ scan.at \in DOMAIN AlternativeOf ->
         IF c \in AlternativeOf[scan.at] THEN Call(scan, ConversionOf(scan.at, c)) ELSE Invalid(scan)

ParseChrono(text) ==
  LET scan == FoldLeft(ChronoChar, ChronoStart, text)
  IN  IF scan.error = "" /\ scan.at \in {"percent", "E", "O"} THEN Invalid(scan) ELSE scan

\* chrono_format_checker.
CheckConversions(scan) ==
  IF \E call \in ToSet(scan.calls) : "conversion" \in DOMAIN call /\ call.conversion \in DateConversions
  THEN "no date" ELSE scan.error

-----------------------------------------------------------------------------
(* chrono_formatter.                                                       *)

\* C's division, which cuts towards zero.
Cut(n, d) == IF n >= 0 THEN n \div d ELSE -((-n) \div d)
CutMod(n, d) == n - Cut(n, d) * d

Seconds(d) == IF d.exponent >= 0 THEN d.count * d.base ^ d.exponent ELSE Cut(d.count, d.base ^ (-d.exponent))
Milliseconds(d) ==
  IF d.exponent >= 0 THEN 0
  ELSE Cut(CutMod(d.count, d.base ^ (-d.exponent)) * 1000, d.base ^ (-d.exponent))

Hour(d) == CutMod(Cut(Seconds(d), 3600), 24)
Hour12(d) == LET hour == CutMod(Cut(Seconds(d), 3600), 12) IN IF hour > 0 THEN hour ELSE 12
Minute(d) == CutMod(Cut(Seconds(d), 60), 60)
Second(d) == CutMod(Seconds(d), 60)

\* write; to_unsigned asserts that the value is not negative.
Showing(text) == [error |-> "", out |-> Copies(text)]
WriteWide(value, width) ==
  IF value < 0 THEN [error |-> "negative value", out |-> << >>]
  ELSE LET digits == Digits[value] IN
       Showing(Repeated("0", IF width > Len(digits) THEN width - Len(digits) ELSE 0) \o digits)
Join(first, second) ==
  IF first.error # "" THEN first ELSE [error |-> second.error, out |-> first.out \o second.out]

\* format_localized, in a locale that writes so many characters.
LocalizedSize(c) == IF c = "r" THEN 11 ELSE 2
Localized(modifier, c, d) ==
  LET time == CASE modifier = "O" /\ c \in {"H", "I"} -> <<Hour(d), 0, 0>>
                [] modifier = "O" /\ c = "M" -> <<0, Minute(d), 0>>
                [] modifier = "O" /\ c = "S" -> <<0, 0, Second(d)>>
                [] OTHER -> <<Hour(d), Minute(d), Second(d)>>
  IN  [error |-> "", out |-> [k \in 1 .. LocalizedSize(c) |->
        [localized |-> modifier, conversion |-> c, time |-> time, place |-> k]]]

HourMinute(d) == Join(WriteWide(Hour(d), 2), Join(Showing(<<":">>), WriteWide(Minute(d), 2)))

ShowConversion(d, modifier, c) ==
  CASE modifier # "" \/ c \in {"r", "p"} -> Localized(modifier, c, d)
    [] modifier = "" /\ c = "H" -> WriteWide(Hour(d), 2)
    [] modifier = "" /\ c = "I" -> WriteWide(Hour12(d), 2)
    [] modifier = "" /\ c = "M" -> WriteWide(Minute(d), 2)
    [] modifier = "" /\ c = "S" ->
         IF Milliseconds(d) = 0 THEN WriteWide(Second(d), 2)
         ELSE Join(WriteWide(Second(d), 2), Join(Showing(<<".">>), WriteWide(Milliseconds(d), 3)))
    [] modifier = "" /\ c = "R" -> HourMinute(d)
    [] modifier = "" /\ c = "T" -> Join(HourMinute(d), Join(Showing(<<":">>), WriteWide(Second(d), 2)))

-----------------------------------------------------------------------------
(* formatter<duration>.                                                    *)

\* get_units, or the number of seconds.
UnitOf ==
  <<10, -18>> :> <<"a", "s">> @@ <<10, -15>> :> <<"f", "s">> @@ <<10, -12>> :> <<"p", "s">>
    @@ <<10, -9>> :> <<"n", "s">> @@ <<10, -6>> :> <<"mu", "s">> @@ <<10, -3>> :> <<"m", "s">>
    @@ <<10, -2>> :> <<"c", "s">> @@ <<10, -1>> :> <<"d", "s">> @@ <<10, 0>> :> <<"s">>
    @@ <<10, 1>> :> <<"d", "a", "s">> @@ <<10, 2>> :> <<"h", "s">> @@ <<10, 3>> :> <<"k", "s">>
    @@ <<10, 6>> :> <<"M", "s">> @@ <<10, 9>> :> <<"G", "s">> @@ <<10, 12>> :> <<"T", "s">>
    @@ <<10, 15>> :> <<"P", "s">> @@ <<60, 1>> :> <<"m">> @@ <<60, 2>> :> <<"h">>

WithUnit(d) ==
  LET period == <<d.base, d.exponent>> IN
  WriteInt(d.count, [DefaultSpecs EXCEPT !.type = "d"]) \o
    (IF period \in DOMAIN UnitOf THEN UnitOf[period]
     ELSE IF d.exponent >= 0 THEN <<"[">> \o Digits[d.base ^ d.exponent] \o <<"]", "s">>
     ELSE <<"[", "1", "/">> \o Digits[d.base ^ (-d.exponent)] \o <<"]", "s">>)

\* parse: an alignment, of any kind, a width, and the format, kept up to its '}'.
ParseDuration(s, args) ==
  LET text(q) == IF q.error # "" THEN << >> ELSE SubSeq(s, q.at, RunEnd(q, q.at, ToSet(s) \ {"}"}) - 1)
      after(p, q) ==
        [specs |-> q.specs, ref |-> IF Here(p) = "{" THEN q.id ELSE -1, text |-> text(q),
         error |-> IF q.error # "" THEN q.error ELSE CheckConversions(ParseChrono(text(q)))]
      aligned == ParseAlign([Parsing(s) EXCEPT !.next = 1], "int")
  IN  after(aligned, ParseWidth(aligned, args, TRUE))

\* Only a duration shown with its unit takes its width from an argument.
FormatParsed(parsed, d, args) ==
  LET width == IF parsed.ref = -1 \/ parsed.text # << >> THEN [error |-> "", value |-> parsed.specs.width]
               ELSE DynamicValue([Parsing(<< >>) EXCEPT !.id = parsed.ref], args, WidthErrors)
      Show(out, call) ==
        Join(out, IF "char" \in DOMAIN call THEN [error |-> "", out |-> <<call>>]
                  ELSE ShowConversion(d, call.modifier, call.conversion))
      shown == IF parsed.text = << >> THEN Showing(WithUnit(d)) ELSE FoldLeft(Show, Showing(<< >>), ParseChrono(parsed.text).calls)
      error == IF parsed.error # "" THEN parsed.error ELSE IF width.error # "" THEN width.error ELSE shown.error
  IN  [error |-> error,
       out |-> IF error # "" THEN << >>
               ELSE WritePadded([parsed.specs EXCEPT !.width = width.value, !.fill = CopyOf(@)], shown.out)]

\* format.
FormatDuration(s, d, args) == FormatParsed(ParseDuration(s, args), d, args)

-----------------------------------------------------------------------------
(* Properties.                                                             *)

ReadAt(out, from, n) == FoldLeft(LAMBDA sum, c : sum * 10 + DigitValue(c.char), 0, SubSeq(out, from, from + n - 1))

\* t, s and i are what %T, %S and %I show.
AddsUp(d, t, s, i) ==
  LET of(from) == ReadAt(t.out, from, 2) IN
      d.count >= 0 =>
        /\ {t.error, s.error, i.error} = {""}
        /\ Len(t.out) = 8 /\ of(1) < 24 /\ of(4) < 60 /\ of(7) < 60
        /\ (Seconds(d) - (of(1) * 3600 + of(4) * 60 + of(7))) % 86400 = 0
        /\ ReadAt(s.out, 1, 2) = of(7)
        /\ IF Len(s.out) = 2 THEN Milliseconds(d) = 0 ELSE Len(s.out) = 6 /\ ReadAt(s.out, 4, 3) \in 1 .. 999
        /\ d.exponent < 0 =>
             LET fraction == (IF Len(s.out) = 2 THEN 0 ELSE ReadAt(s.out, 4, 3)) IN
             /\ fraction * d.base ^ (-d.exponent) <= (d.count % d.base ^ (-d.exponent)) * 1000
             /\ (fraction + 1) * d.base ^ (-d.exponent) > (d.count % d.base ^ (-d.exponent)) * 1000
        /\ ReadAt(i.out, 1, 2) \in 1 .. 12 /\ (ReadAt(i.out, 1, 2) - of(1)) % 12 = 0

\* The time of day that %T, %I and %S show is the duration's, whatever its unit is:
\* hours, minutes and seconds add up to it but for whole days, and the fraction is that of
\* its last second.
ShowsTime(d) ==
  LET shown(c) == FormatDuration(<<"%", c>>, d, << >>) IN AddsUp(d, shown("T"), shown("S"), shown("I"))

\* What was accepted when it was parsed is formatted without an error, into as many
\* characters as were asked for; a date is never shown.
AcceptedIsShown(s, d, args) ==
  LET parsed == ParseDuration(s, args)
      formatted == FormatParsed(parsed, d, args)
  IN  d.count >= 0 /\ parsed.error = "" /\ parsed.ref = -1 =>
        /\ formatted.error = ""
        /\ Len(formatted.out) >= parsed.specs.width
        /\ \A c \in ToSet(formatted.out) : "localized" \in DOMAIN c => c.conversion \in TimeConversions
=============================================================================
