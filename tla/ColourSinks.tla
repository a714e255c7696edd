------------------------------ MODULE ColourSinks ---------------------------
(***************************************************************************)
(* Loggers writing to coloured terminals (sinks/ansicolor_sink-inl.h with  *)
(* details/pattern_formatter-inl.h).  A message goes to one sink after the *)
(* other and carries the colour range that formatting found in it; every   *)
(* sink has a formatter of its own, which keeps the broken-down time of    *)
(* the last second it saw.  Messages of several threads come in any order. *)
(***************************************************************************)
EXTENDS Pattern, Totals

CONSTANTS
  Terminals,        \* the number of sinks
  Patterns,         \* those that are set
  MsgSizes,         \* the sizes of a message's parts, as records
  MaxMessages,      \* bound: the messages
  MaxPatterns,      \* bound: the patterns set
  LastTime          \* bound: the clock, in ticks, of which the first second has passed

ASSUME ColourSinksAssumption ==
  /\ Terminals \in Nat /\ MaxMessages \in Nat /\ MaxPatterns \in Nat /\ LastTime \in Nat
  /\ LastTime >= TicksPerSecond /\ Patterns \subseteq Seq(STRING)
  /\ MsgSizes \subseteq [name : Nat, level : Nat, payload : Nat, line : Nat]
  /\ \A second \in 0 .. LastTime \div TicksPerSecond :
       LocalTime(second) \in [wday : 0 .. 6, mon : 0 .. 11, mday : Nat]

VARIABLES
  time,             \* the clock
  formatter,        \* of each sink: its items, when it was made, what it remembers
  coloured,         \* should_do_colors_
  messages,         \* the messages so far: sizes, time and colour range
  turn,             \* for each message the next sink
  prints,           \* history: what each sink printed
  patternsSet

colourVars == <<time, formatter, coloured, messages, turn, prints, patternsSet>>

Terminal == 1 .. Terminals

\* A pattern_formatter.  The cached texts of its full_formatters are of the second cached.
NewFormatter(pattern, number) ==
  [items |-> Compile(pattern), number |-> number, made |-> time, last |-> 0, tm |-> 0, cached |-> 0, since |-> time]

ColourInit ==
  /\ time = TicksPerSecond /\ messages = << >> /\ turn = << >> /\ patternsSet = 0
  /\ formatter = [s \in Terminal |-> NewFormatter(<<"%", "+">>, 0)]
  /\ coloured \in [Terminal -> BOOLEAN] /\ prints = [s \in Terminal |-> << >>]

PassTime ==
  /\ time < LastTime /\ time' = time + 1
  /\ UNCHANGED <<formatter, coloured, messages, turn, prints, patternsSet>>

\* set_pattern.
SetPattern(s, pattern) ==
  /\ patternsSet < MaxPatterns /\ patternsSet' = patternsSet + 1
  /\ formatter' = [formatter EXCEPT ![s] = NewFormatter(pattern, patternsSet + 1)]
  /\ UNCHANGED <<time, coloured, messages, turn, prints>>

\* A thread makes a message and starts with the first sink.
NewMessage(sizes) ==
  /\ Len(messages) < MaxMessages
  /\ messages' = Append(messages, [sizes |-> sizes, time |-> time, range |-> <<0, 0>>])
  /\ turn' = Append(turn, 1)
  /\ UNCHANGED <<time, formatter, coloured, prints, patternsSet>>

\* Mutant: the time is broken down again only for a later second.
RefreshLater(f, second) == IF second > f.last THEN [f EXCEPT !.last = second, !.tm = second] ELSE f

\* pattern_formatter::format: the time is broken down once a second ...
Refresh(f, second) == IF second # f.last THEN [f EXCEPT !.last = second, !.tm = second] ELSE f

\* ... and so is the text of full_formatter, which is only used by %+.
Recache(f, second) ==
  IF \E k \in DOMAIN f.items : f.items[k].flag = "+" THEN
    IF f.cached # second THEN [f EXCEPT !.cached = f.tm] ELSE f
  ELSE f

\* log of a sink.
PrintLine(id) ==
  /\ turn[id] <= Terminals
  /\ LET s == turn[id]
         msg == messages[id]
         second == msg.time \div TicksPerSecond
         f == Recache(Refresh(formatter[s], second), second)
         fields == [name |-> msg.sizes.name, level |-> msg.sizes.level, payload |-> msg.sizes.payload,
                    thread |-> 5, pid |-> 4, file |-> 6, base |-> 4, line |-> msg.sizes.line,
                    func |-> 4, time |-> msg.time]
         out == Format(f.items, fields, f.tm, f.since, f.cached, msg.range)
     IN /\ formatter' = [formatter EXCEPT ![s] = [f EXCEPT !.since = msg.time]]
        /\ messages' = [messages EXCEPT ![id].range = <<out.start, out.end>>]
        /\ prints' = [prints EXCEPT ![s] = Append(@,
             [id |-> id, size |-> out.size, shows |-> out.shows, elapsed |-> out.elapsed,
              number |-> f.number, marks |-> {f.items[k].flag : k \in DOMAIN f.items} \cap {"^", "$", "+"},
              range |-> IF coloured[s] /\ out.end > out.start THEN <<out.start, out.end>> ELSE <<0, 0>>])]
  /\ turn' = [turn EXCEPT ![id] = @ + 1]
  /\ UNCHANGED <<time, coloured, patternsSet>>

ColourNext ==
  \/ PassTime
  \/ \E s \in Terminal, pattern \in Patterns : SetPattern(s, pattern)
  \/ \E sizes \in MsgSizes : NewMessage(sizes)
  \/ \E id \in DOMAIN messages : PrintLine(id)

ColourSpec == ColourInit /\ [][ColourNext]_colourVars

-----------------------------------------------------------------------------
(* Properties.                                                             *)

\* Every time a line shows is that of its message, in whatever order messages come
\* and patterns are set: no cache is ever used for another second.
TimesTrue ==
  \A s \in Terminal : \A k \in DOMAIN prints[s] :
    prints[s][k].shows \subseteq {messages[prints[s][k].id].time \div TicksPerSecond}

\* What a formatter shows as elapsed in each line that it made.
Elapsed(s) ==
  [k \in 1 .. Len(prints[s]) |->
     IF prints[s][k].number = formatter[s].number THEN CHOOSE e \in prints[s][k].elapsed : TRUE ELSE 0]

\* The elapsed times that a formatter shows add up to the time from its making to
\* the last message it formatted, if it shows one in every line.
ElapsedAddUp ==
  \A s \in Terminal :
    LET own == {k \in DOMAIN prints[s] : prints[s][k].number = formatter[s].number} IN
    Len(prints[s]) \in own /\ (\A k \in own : prints[s][k].elapsed # {}) =>
      TotalOf(Elapsed(s)) = messages[Last(prints[s]).id].time - formatter[s].made

\* A colour range that a sink's own pattern marks lies in the line it printed.
OwnRangeFits ==
  \A s \in Terminal : \A k \in DOMAIN prints[s] :
    LET p == prints[s][k] IN
    "+" \in p.marks \/ {"^", "$"} \subseteq p.marks => p.range[1] <= p.range[2] /\ p.range[2] <= p.size

\* "Wrap the originally formatted message in color codes": without the codes, a sink
\* prints the line that was formatted, so that a colour range lies in it.
WrapsFormatted ==
  \A s \in Terminal : \A k \in DOMAIN prints[s] : prints[s][k].range[2] <= prints[s][k].size
=============================================================================
