------------------------------ MODULE MCFormatting --------------------------
(***************************************************************************)
(* Small instances of what turns messages into text: the coloured sinks    *)
(* with their pattern formatters, the memory buffers, and, one input in    *)
(* each behaviour, the parsers of patterns, format strings, conversions    *)
(* and durations and the writers of values.                                *)
(***************************************************************************)
EXTENDS ColourSinks, Printf, ChronoFormat, MemoryBuffer

VARIABLES part, input

MCPatterns ==
  {<<"%", "v">>, <<"%", "u", "%", "^", "%", "8", "l", "%", "$", " ", "%", "v">>,
   <<"%", "T", ".", "%", "e", " ", "%", "o">>, <<"%", "-", "6", "!", "%", "c">>}
MCMsgSizes ==
  {[name |-> 3, level |-> 4, payload |-> 2, line |-> 0], [name |-> 0, level |-> 7, payload |-> 60, line |-> 2]}
MCLocalTime(second) == [wday |-> second, mon |-> second + 5, mday |-> 8 + second]
MCTexts == {<<"x">>, <<"y", "z", "y">>}

Upto(n, chars) == UNION {[1 .. k -> chars] : k \in 0 .. n}
Arg(type, value) == [type |-> type, value |-> value, name |-> << >>]
Automatic == [by |-> "auto", n |-> 0]
Index == [by |-> "index", n |-> 1]
Numbers == {NotGiven, Given(7), Given(128), Automatic}

-----------------------------------------------------------------------------
(* Patterns and format strings.                                            *)

MCItems ==
  {Chars(<<"a">>), Chars(<<"%">>), Chars(<<"b", "%", "%">>)}
    \cup {Item(flag, side, width, << >>) : flag \in {"l", "%", "q"}, side \in {"left", "center"}, width \in {0, 8, 70, 1003}}
WrittenItems == {item \in MCItems : item.flag \notin {"%", "q"}}

MCPieces ==
  [id : {Automatic, [by |-> "index", n |-> 0]}, fill : {"none", "<"}, align : {"<", "="}, sign : {"none", "+"},
   hash : {FALSE}, zero : BOOLEAN, width : Numbers \cup {Index}, precision : {NotGiven, Given(0), Automatic}, type : {"none", "d", "s"}]
Simple(id) ==
  [id |-> id, fill |-> "none", align |-> "none", sign |-> "none", hash |-> FALSE, zero |-> FALSE,
   width |-> NotGiven, precision |-> NotGiven, type |-> "none"]
MCArgs ==
  {<<Arg("int", -5), Arg("uint", 6), Arg("int", -1)>>, <<Arg("double", 0), Arg("long_long", 128), Arg("char", 3)>>,
   <<Arg("string", 0), Arg("ulong_long", 127), Arg("int", 0)>>, <<Arg("bool", 1)>>, << >>}
InBraces(body) == <<"{", ":">> \o body \o <<"}">>

MCWritten ==
  {<<w>> : w \in MCPieces}
    \cup {<<CopyOf(c), Simple(id), w>> : c \in {"{", "}", "x"}, id \in {Automatic, Index}, w \in MCPieces}
MCStrings ==
  Upto(4, {"{", "}", ":", "0", "x"})
    \cup {InBraces(body) : body \in Upto(3, {"{", "}", "<", "=", "+", "0", ".", "d"})}
MCDurations == {[count |-> 3723, base |-> 10, exponent |-> 0], [count |-> 11, base |-> 7, exponent |-> -1]}
MCFormats == Upto(3, {"<", "3", "%", "E", "O", "H", "S", "a", "}", "c", "r"})

ParserInputs ==
  [kind : {"pieces"}, args : MCArgs, pieces : MCWritten]
    \cup [kind : {"string"}, args : MCArgs, s : MCStrings]
    \cup [kind : {"duration"}, d : MCDurations, s : MCFormats]

TextInputs ==
  [kind : {"items"}, items : Upto(3, WrittenItems)]
    \cup [kind : {"padding"}, side : {"left", "center", "right"}, width : 0 .. 6, size : 0 .. 6]
    \cup [kind : {"fields"}, tm : 0 .. 2, since : 0 .. 4, time : 0 .. 4]
    \cup ParserInputs

-----------------------------------------------------------------------------
(* Values.                                                                 *)

MCValues == {-2048, -2047, -1000, -999, -9, 0, 1, 7, 8, 10, 99, 100, 999, 1000, 2047}
MCSpecs ==
  [fill : {" ", "0"}, align : {"default", "center", "numeric"}, flags : {{}, {"SIGN"}, {"SIGN", "PLUS"}, {"HASH"}},
   width : {0, 9}, precision : {-1, 3, 6}, type : {"none", "d", "x", "X", "b", "o", "n"}]
MCPadded ==
  {Arg("int", -42), Arg("pointer", 255)}
    \cup {[type |-> "char", value |-> 5, char |-> "c"], [type |-> "string", text |-> <<"a", "b", "c">>]}
    \cup [type : {"double"}, negative : BOOLEAN, finite : BOOLEAN, text : {<<"1", ".", "5">>}]

MCConversions ==
  [index : {0, 1}, flags : {<< >>, <<"-">>, <<"0">>, <<"#">>, <<"+">>, <<"0", "#">>, <<" ", "-">>},
   width : Numbers, precision : {NotGiven, Given(3), Given(0), Automatic},
   length : {<< >>, <<"h">>, <<"l", "l">>, <<"h", "h">>}, type : {"d", "u", "x", "o"}]
MCPrinted ==
  {<<Arg(type, value)>> : type \in {"int", "long_long"}, value \in {-128, -5, 0, 100}}
    \cup {<<Arg("int", -6), Arg("int", 9)>>, <<Arg("char", 6), Arg("int", 3), Arg("uint", 129)>>,
          <<Arg("uint", 129), Arg("int", 3), Arg("int", 1)>>, <<Arg("double", 0), Arg("int", 1)>>}

ValueInputs ==
  [kind : {"int"}, value : MCValues, specs : MCSpecs]
    \cup [kind : {"padded"}, arg : MCPadded,
          specs : [fill : {"*"}, align : {"default", "left", "right", "center"}, flags : {{}, {"SIGN"}},
                   width : 0 .. 6, precision : {-1, 2}, type : {"none"}]]
    \cup [kind : {"conversion"}, w : MCConversions, args : MCPrinted]
    \cup [kind : {"time"}, d :
           [count : -1 .. 1 \cup {59, 60, 3599, 3600, 43200, 86399, 86400, 999, 1000, 59999, 60000, 3599999},
            base : {10, 60, 7}, exponent : -3 .. 1] \cup [count : {0, 7, 1999999}, base : {10}, exponent : {-6, 2}]]

-----------------------------------------------------------------------------

FormattingInit ==
  /\ part \in {"colours", "buffers", "texts", "values"} /\ input = [kind |-> "none"]
  /\ ColourInit /\ BufferInit
  /\ part # "colours" => \A s \in Terminal : ~coloured[s]

Others == <<part, input>>

ReadText == part = "texts" /\ input.kind = "none" /\ input' \in TextInputs
WriteValue == part = "values" /\ input.kind = "none" /\ input' \in ValueInputs

FormattingNext ==
  \/ part = "colours" /\ ColourNext /\ UNCHANGED <<Others, bufferVars>>
  \/ part = "buffers" /\ BufferNext /\ UNCHANGED <<Others, colourVars>>
  \/ (ReadText \/ WriteValue) /\ UNCHANGED <<part, colourVars, bufferVars>>

FormattingSpec == FormattingInit /\ [][FormattingNext]_<<Others, colourVars, bufferVars>>

MCMessage(at) ==
  [name |-> 3, level |-> 4, payload |-> 2, line |-> 2, thread |-> 5, pid |-> 4, file |-> 6, base |-> 4, func |-> 4,
   time |-> at]

\* Every line is what its pattern says: a pattern compiles to what it was written
\* from, fields tell the padder their size and are padded as asked for; every line shows
\* its own message's time, however messages of several seconds and threads and new
\* patterns follow one another, elapsed times add up, and the colour range that a
\* pattern marks lies in the line.
LinesTrue ==
  /\ TimesTrue /\ ElapsedAddUp /\ OwnRangeFits
  /\ input.kind = "items" => CompilesTo(input.items)
  /\ input.kind = "padding" => PadsTo(input.side, input.width, input.size)
  /\ input.kind = "fields" => SizesTold(MCMessage(input.time), input.tm, input.since)

\* Format strings, conversions and duration formats mean what they say: what is written
\* is what is parsed, checking at compile time agrees with formatting, printf prints as C
\* does, what was accepted is shown, and a duration is shown as the time of day it amounts to.
TextsParsed ==
  CASE input.kind = "pieces" -> FormatsAsWritten(input.pieces, input.args)
    [] input.kind = "string" -> CheckAgrees(input.s, input.args)
    [] input.kind = "duration" -> AcceptedIsShown(input.s, input.d, << >>)
    [] input.kind = "conversion" -> PrintsLikeC(input.w, input.args)
    [] input.kind = "time" -> ShowsTime(input.d)
    [] OTHER -> TRUE

\* Values are written so that they can be read back: integers in every base and with every
\* flag, the least one too, with separators before every three digits; and padding changes
\* nothing of what is written.
ValuesWritten ==
  CASE input.kind = "int" -> ReadsBack(input.value, input.specs) /\ Grouped(input.value)
    [] input.kind = "padded" -> PadsOnly(input.arg, input.specs)
    [] OTHER -> TRUE
=============================================================================
