------------------------------ MODULE DailyFile -----------------------------
(***************************************************************************)
(* The daily file sink of spdlog (sinks/daily_file_sink.h).  A message is  *)
(* stamped when it is made and sunk later, in any order if several threads *)
(* or a thread pool log; the sink looks at the stamp to see whether it is  *)
(* time for a new file, names that file after the day of the stamp, and    *)
(* asks the clock when it will be time for the next one.                   *)
(***************************************************************************)
EXTENDS Integers, FiniteSets

CONSTANTS
  DayLength,    \* the clock's ticks in a day
  LastTick,     \* bound: the clock stops there
  MaxStamped    \* bound: the messages stamped

ASSUME DailyFileAssumption ==
  DayLength \in Nat \ {0} /\ LastTick \in Nat /\ MaxStamped \in Nat

VARIABLES
  now,          \* the clock
  hour, wipes,  \* the sink's arguments: the rotation time, and truncate
  label,        \* the day in _filename, or Closed if there is no sink
  opened,       \* whether fd_ is not null
  rotation,     \* rotation_tp_
  stamped, waiting,\* the messages stamped, by number, and those not sunk yet
  written,      \* the days' files: triples of file, message and stamp
  failed,       \* history: opening a file has failed
  late,         \* history: a message was sunk on a later day than stamped, or out of order
  crashed,      \* history: a write through a null FILE pointer
  gone          \* history: the files that were truncated while a process was writing to them

dailyVars == <<now, hour, wipes, label, opened, rotation, stamped, waiting, written, failed, late, crashed, gone>>

Closed == -1
Day(t) == t \div DayLength

DailyTypeOK ==
  /\ now \in 0 .. LastTick /\ hour \in 0 .. DayLength - 1 /\ wipes \in BOOLEAN
  /\ label \in {Closed} \cup 0 .. Day(LastTick) /\ opened \in BOOLEAN
  /\ rotation \in 0 .. LastTick + DayLength
  /\ stamped \in 0 .. MaxStamped /\ waiting \subseteq (1 .. MaxStamped) \X (0 .. LastTick)
  /\ written \subseteq (0 .. Day(LastTick)) \X (1 .. MaxStamped) \X (0 .. LastTick)
  /\ failed \in BOOLEAN /\ late \in BOOLEAN /\ crashed \in BOOLEAN /\ gone \subseteq 0 .. Day(LastTick)

DailyInit ==
  /\ now = 0 /\ hour \in 0 .. DayLength - 1 /\ wipes \in BOOLEAN
  /\ label = Closed /\ opened = FALSE /\ rotation = 0
  /\ stamped = 0 /\ waiting = {} /\ written = {}
  /\ failed = FALSE /\ late = FALSE /\ crashed = FALSE /\ gone = {}

Tick ==
  /\ now < LastTick /\ now' = now + 1
  /\ UNCHANGED <<hour, wipes, label, opened, rotation, stamped, waiting, written, failed, late, crashed, gone>>

\* next_rotation_tp_().
NextRotation(t) ==
  LET today == Day(t) * DayLength + hour IN IF today > t THEN today ELSE today + DayLength

\* What is left of the files once that of day d is open.
Kept(d) == IF wipes THEN {w \in written : w[1] # d} ELSE written

\* The constructor.
NewDaily ==
  /\ label = Closed
  /\ label' = Day(now) /\ opened' = TRUE
  /\ rotation' = NextRotation(now) /\ written' = Kept(Day(now))
  /\ UNCHANGED <<now, hour, wipes, stamped, waiting, failed, late, crashed, gone>>

Stamp ==
  /\ label # Closed /\ stamped < MaxStamped /\ stamped' = stamped + 1
  /\ waiting' = waiting \cup {<<stamped + 1, now>>}
  /\ UNCHANGED <<now, hour, wipes, label, opened, rotation, written, failed, late, crashed, gone>>

\* sink_it_.
SinkDaily(m) ==
  /\ m \in waiting /\ waiting' = waiting \ {m}
  /\ late' = (late \/ Day(m[2]) # Day(now) \/ \E o \in waiting : o[2] < m[2])
  /\ LET day == Day(m[2])
         due == m[2] >= rotation
         kept == IF due THEN Kept(day) ELSE written
     IN \/ /\ IF due THEN label' = day /\ opened' = TRUE /\ rotation' = NextRotation(now)
              ELSE UNCHANGED <<label, opened, rotation>>
           /\ written' = IF opened' THEN kept \cup {<<label', m[1], m[2]>>} ELSE kept
           /\ gone' = IF kept = written THEN gone ELSE gone \cup {day}
           /\ crashed' = (crashed \/ ~opened') /\ UNCHANGED failed
        \/ \* the file cannot be opened: the sink throws before it asks the clock
           /\ due /\ label' = day /\ opened' = FALSE /\ failed' = TRUE
           /\ UNCHANGED <<rotation, written, crashed, gone>>
  /\ UNCHANGED <<now, hour, wipes, stamped>>

\* The process ends, and what it had not sunk is lost with it.
EndDaily ==
  /\ label # Closed
  /\ label' = Closed /\ opened' = FALSE /\ waiting' = {}
  /\ UNCHANGED <<now, hour, wipes, rotation, stamped, written, failed, late, crashed, gone>>

DailyNext == Tick \/ NewDaily \/ Stamp \/ (\E m \in waiting : SinkDaily(m)) \/ EndDaily

DailySpec == DailyInit /\ [][DailyNext]_dailyVars

\* As long as messages are sunk in time, a file that rotates at midnight holds the
\* messages of its own day, one that rotates at another time those of its day and
\* of the next one until then, and no process truncates what it has written itself
\* unless it does not rotate at midnight.
DaysKept ==
  ~late =>
    /\ \A w \in written : Day(w[3]) - w[1] \in (IF hour = 0 THEN {0} ELSE {0, 1})
    /\ hour = 0 => gone = {}

\* A file that could not be opened is written to only if a message comes that is
\* older than the one for which it was to be opened.
NullNeedsDisorder == crashed => failed /\ late
=============================================================================
