-------------------------------- MODULE Logger ------------------------------
(***************************************************************************)
(* The loggers of spdlog (logger-inl.h, logger.h, and the half of          *)
(* async_logger-inl.h that runs in the pool).  A call of log, or of flush, *)
(* goes through the sinks one after the other; several threads do so at a  *)
(* time, and only a single sink is protected by a mutex.  Any sink may     *)
(* throw: a logger catches that for each sink, an asynchronous one only    *)
(* for the whole loop, after which the other sinks go without.             *)
(***************************************************************************)
EXTENDS Integers, Sequences, SequencesExt, FiniteSets

CONSTANTS
  Loggers, AsyncLoggers,   \* and those whose sinks are called by the pool's thread
  SinkList,                \* the sinks every logger starts with, none of them twice
  Callers,                 \* the program's threads
  Worker,                  \* the pool's
  Off,                     \* level::off, above the other levels 1, 2, ...
  MaxCalls, MaxChanges, MaxClock  \* bounds: calls, changes of a setting, half seconds

ASSUME LoggerAssumption ==
  /\ AsyncLoggers \subseteq Loggers /\ Worker \notin Callers
  /\ SinkList \in Seq(ToSet(SinkList)) /\ IsInjective(SinkList)
  /\ Off \in Nat \ {0} /\ MaxCalls \in Nat /\ MaxChanges \in Nat /\ MaxClock \in Nat

VARIABLES
  config,       \* for each logger its level_, flush_level_ and sinks_
  sinkLevel,    \* level_ of each sink
  call,         \* for each thread the call it is in: the message, the sink's turn and the loop
  posted,       \* the calls in the pool's queue
  got,          \* what each sink has got, and ...
  unflushed,    \* ... what of it has not been flushed since
  calls,        \* history: level, logger and fate of each call
  thrown,       \* history: the sinks that threw, with the call and the loop
  levels,       \* history: the levels any logger ("log", "flush") or sink ("sink") ever had
  changes, clock,
  err_counter, last_report, printed  \* of the default error handler

loggerVars == <<config, sinkLevel, call, posted, got, unflushed, calls, thrown, levels, changes,
                clock, err_counter, last_report, printed>>

Threads == Callers \cup {Worker}
Levels == 1 .. Off
LogSinks == ToSet(SinkList)
Second == 2
Idle == [id |-> 0, turn |-> 0, loop |-> "log"]

LoggerTypeOK ==
  /\ \A l \in Loggers : config[l].level \in Levels /\ config[l].flush \in Levels
  /\ sinkLevel \in [LogSinks -> Levels]
  /\ call \in [Threads -> [id : 0 .. MaxCalls, turn : 0 .. Len(SinkList) + 2, loop : {"log", "flush"}]]
  /\ got \in [LogSinks -> Seq(1 .. MaxCalls)] /\ err_counter \in Nat /\ printed \in 0 .. err_counter

LoggerInit ==
  /\ \E flush \in Levels :
       /\ config = [l \in Loggers |-> [level |-> 1, flush |-> flush, sinks |-> SinkList]]
       /\ levels = [log |-> {1}, flush |-> {flush}, sink |-> {1}]
  /\ sinkLevel = [s \in LogSinks |-> 1] /\ call = [t \in Threads |-> Idle] /\ posted = << >>
  /\ got = [s \in LogSinks |-> << >>] /\ unflushed = [s \in LogSinks |-> {}]
  /\ calls = << >> /\ thrown = {} /\ changes = 0 /\ clock = 0
  /\ err_counter = 0 /\ last_report = -Second /\ printed = 0

\* err_handler_, without a handler of the user's.
ErrHandler ==
  /\ err_counter' = err_counter + 1
  /\ IF clock - last_report < Second THEN UNCHANGED <<last_report, printed>>
     ELSE last_report' = clock /\ printed' = printed + 1
NoError == UNCHANGED <<err_counter, last_report, printed>>

NewCall(l, level, fate) ==
  Len(calls) < MaxCalls /\ calls' = Append(calls, [logger |-> l, level |-> level, fate |-> fate])

\* sink_it_ and flush_: the loop, in the caller's thread or in the pool's.
Enter_(t, l, loop) ==
  LET first == [id |-> Len(calls) + 1, turn |-> 1, loop |-> loop] IN
  IF l \in AsyncLoggers THEN posted' = Append(posted, first) /\ UNCHANGED call
  ELSE call' = [call EXCEPT ![t] = first] /\ UNCHANGED posted

Log(t, l, level) ==
  /\ call[t] = Idle
  /\ \/ /\ level < config[l].level /\ NewCall(l, level, "refused")
        /\ NoError /\ UNCHANGED <<call, posted>>
     \/ /\ level >= config[l].level /\ NewCall(l, level, "taken")
        /\ NoError /\ Enter_(t, l, "log")
     \/ \* force_log: the arguments do not fit the format string
        /\ level >= config[l].level /\ NewCall(l, level, "bad")
        /\ ErrHandler /\ UNCHANGED <<call, posted>>
  /\ UNCHANGED <<config, sinkLevel, got, unflushed, thrown, levels, changes, clock>>

Flush(t, l) ==
  /\ call[t] = Idle /\ NewCall(l, Off, "flush") /\ Enter_(t, l, "flush")
  /\ NoError /\ UNCHANGED <<config, sinkLevel, got, unflushed, thrown, levels, changes, clock>>

TakePosted ==
  /\ call[Worker] = Idle /\ posted # << >>
  /\ call' = [call EXCEPT ![Worker] = Head(posted)] /\ posted' = Tail(posted)
  /\ NoError
  /\ UNCHANGED <<config, sinkLevel, got, unflushed, calls, thrown, levels, changes, clock>>

Of(t) == calls[call[t].id]
SinksOf(t) == config[Of(t).logger].sinks
AtSink(t, loop) == call[t] # Idle /\ call[t].loop = loop /\ call[t].turn <= Len(SinksOf(t))
Next_(t) == call' = [call EXCEPT ![t].turn = @ + 1]

\* Mutant: the exception leaves the loop, as it does in the pool.
LeaveLoop(t) == call' = [call EXCEPT ![t].turn = Len(SinksOf(t)) + 1]

\* After an exception of a sink.
Caught(t) ==
  call' = [call EXCEPT ![t].turn = IF Of(t).logger \in AsyncLoggers THEN Len(SinksOf(t)) + 1 ELSE @ + 1]

Throws(t, s) ==
  /\ thrown' = thrown \cup {<<s, call[t].id, call[t].loop>>} /\ ErrHandler /\ Caught(t)
  /\ UNCHANGED <<got, unflushed>>

LogToSink(t) ==
  /\ AtSink(t, "log")
  /\ LET s == SinksOf(t)[call[t].turn] IN
       \/ /\ Of(t).level < sinkLevel[s] /\ Next_(t) /\ NoError /\ UNCHANGED <<got, unflushed, thrown>>
       \/ /\ Of(t).level >= sinkLevel[s] /\ Next_(t) /\ NoError /\ UNCHANGED thrown
          /\ got' = [got EXCEPT ![s] = Append(@, call[t].id)]
          /\ unflushed' = [unflushed EXCEPT ![s] = @ \cup {call[t].id}]
       \/ Of(t).level >= sinkLevel[s] /\ Throws(t, s)
  /\ UNCHANGED <<config, sinkLevel, posted, calls, levels, changes, clock>>

ShouldFlush(t) == Of(t).level >= config[Of(t).logger].flush /\ Of(t).level # Off

EndLoop(t) ==
  /\ call[t] # Idle /\ call[t].turn > Len(SinksOf(t))
  /\ call' = [call EXCEPT ![t] =
                IF @.loop = "log" /\ ShouldFlush(t) THEN [@ EXCEPT !.turn = 1, !.loop = "flush"] ELSE Idle]
  /\ NoError
  /\ UNCHANGED <<config, sinkLevel, posted, got, unflushed, calls, thrown, levels, changes, clock>>

FlushSink(t) ==
  /\ AtSink(t, "flush")
  /\ LET s == SinksOf(t)[call[t].turn] IN
       \/ unflushed' = [unflushed EXCEPT ![s] = {}] /\ Next_(t) /\ NoError /\ UNCHANGED <<got, thrown>>
       \/ Throws(t, s)
  /\ UNCHANGED <<config, sinkLevel, posted, calls, levels, changes, clock>>

Change(kind, level) ==
  /\ changes < MaxChanges /\ changes' = changes + 1
  /\ levels' = [levels EXCEPT ![kind] = @ \cup {level}]
  /\ NoError /\ UNCHANGED <<call, posted, got, unflushed, calls, thrown, clock>>

SetLevel(l, level) ==
  config' = [config EXCEPT ![l].level = level] /\ Change("log", level) /\ UNCHANGED sinkLevel
FlushOn(l, level) ==
  config' = [config EXCEPT ![l].flush = level] /\ Change("flush", level) /\ UNCHANGED sinkLevel
SetSinkLevel(s, level) ==
  sinkLevel' = [sinkLevel EXCEPT ![s] = level] /\ Change("sink", level) /\ UNCHANGED config

InUse(l) ==
  \/ \E t \in Threads : call[t] # Idle /\ Of(t).logger = l
  \/ \E k \in DOMAIN posted : calls[posted[k].id].logger = l

\* clone, to a logger k nobody has used yet, and swap: not for threads that log meanwhile.
CloneOrSwap(l, k) ==
  /\ ~InUse(l) /\ ~InUse(k)
  /\ \/ config' = [config EXCEPT ![k] = config[l]] /\ \A c \in DOMAIN calls : calls[c].logger # k
     \/ config' = [config EXCEPT ![k] = config[l], ![l] = config[k]]
  /\ config' # config
  /\ NoError
  /\ UNCHANGED <<sinkLevel, call, posted, got, unflushed, calls, thrown, levels, changes, clock>>

HalfSecond ==
  /\ clock < MaxClock /\ clock' = clock + 1 /\ NoError
  /\ UNCHANGED <<config, sinkLevel, call, posted, got, unflushed, calls, thrown, levels, changes>>

LoggerNext ==
  \/ \E t \in Callers, l \in Loggers : Flush(t, l) \/ \E level \in Levels : Log(t, l, level)
  \/ TakePosted \/ HalfSecond
  \/ \E t \in Threads : LogToSink(t) \/ FlushSink(t) \/ EndLoop(t)
  \/ \E l \in Loggers, level \in Levels : SetLevel(l, level) \/ FlushOn(l, level)
  \/ \E s \in LogSinks, level \in Levels : SetSinkLevel(s, level)
  \/ \E l, k \in Loggers : CloneOrSwap(l, k)

LoggerSpec == LoggerInit /\ [][LoggerNext]_loggerVars

-----------------------------------------------------------------------------
(* Properties.                                                             *)

Over(c) ==
  /\ \A t \in Threads : call[t].id # c
  /\ \A k \in DOMAIN posted : posted[k].id # c

\* What a sink may miss: what it threw for itself and, in the pool, what another
\* sink threw for.
Excused(s, c, loop) ==
  \/ <<s, c, loop>> \in thrown
  \/ calls[c].logger \in AsyncLoggers /\ \E r \in LogSinks : <<r, c, loop>> \in thrown

\* Every sink gets once what reaches the highest level it and its logger ever had,
\* and nothing below the lowest one, whatever the other sinks throw and whoever
\* changes levels meanwhile.
SinksServed ==
  \A s \in LogSinks, c \in DOMAIN calls :
    LET level == calls[c].level
        times == Cardinality({i \in DOMAIN got[s] : got[s][i] = c})
    IN /\ times <= 1
       /\ times = 1 => calls[c].fate = "taken" /\ \A kind \in {"log", "sink"} : \E v \in levels[kind] : v <= level
       /\ times = 0 /\ Over(c) /\ calls[c].fate # "flush"
            /\ (\A kind \in {"log", "sink"} : \A v \in levels[kind] : v <= level)
            => calls[c].fate = "bad" \/ Excused(s, c, "log")

\* Once a call is over that reaches every flush level there ever was, no sink holds
\* it unflushed, unless flushing failed: in the pool, also if flushing an earlier
\* sink failed.
FlushedAfter ==
  \A s \in LogSinks, c \in DOMAIN calls :
    /\ Over(c) /\ c \in unflushed[s]
    /\ calls[c].level # Off /\ \A v \in levels.flush : v <= calls[c].level
    => Excused(s, c, "flush")

\* Every failure is counted, and the default handler prints at most one a second.
ErrorsCounted ==
  /\ err_counter = Cardinality(thrown) + Cardinality({c \in DOMAIN calls : calls[c].fate = "bad"})
  /\ err_counter > 0 => printed > 0
  /\ Second * printed <= clock + Second
=============================================================================
