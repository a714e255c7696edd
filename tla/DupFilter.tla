------------------------------ MODULE DupFilter -----------------------------
(***************************************************************************)
(* The duplicate filter of spdlog (sinks/dup_filter_sink.h on              *)
(* sinks/dist_sink.h): a message equal to the last one that was passed on, *)
(* and not much younger, is counted instead of passed on; the next one that*)
(* is passed on is preceded by a report of how many were skipped.  A sink  *)
(* below may throw, and then the message goes no further.                  *)
(***************************************************************************)
EXTENDS FiniteSets, Totals

CONSTANTS
  Payloads,
  MaxSkip,      \* max_skip_duration
  Below,        \* the number of sinks below
  MaxInputs,    \* bound: the messages
  MaxStamp      \* bound: their time stamps

ASSUME DupFilterAssumption ==
  /\ MaxSkip \in Nat /\ Below \in Nat \ {0} /\ MaxInputs \in Nat /\ MaxStamp \in Nat /\ 0 \notin Payloads

VARIABLES
  lastTime, lastPayload, skipped,   \* the members of the sink
  out,                              \* what each sink below has got
  inputs,                           \* history: the messages, with what became of each
  threw                             \* history: a sink below has thrown

dupVars == <<lastTime, lastPayload, skipped, out, inputs, threw>>

Sinks == 1 .. Below
NoPayload == 0
Longago == -MaxSkip - 1

DupTypeOK ==
  /\ lastTime \in Longago .. MaxStamp /\ lastPayload \in Payloads \cup {NoPayload}
  /\ skipped \in 0 .. MaxInputs /\ threw \in BOOLEAN
  /\ out \in [Sinks -> Seq([report : 0 .. MaxInputs, payload : Payloads \cup {NoPayload}])]
  /\ inputs \in Seq([payload : Payloads, time : 0 .. MaxStamp, fate : {"passed", "skipped", "error"}])

DupInit ==
  /\ lastTime = Longago /\ lastPayload = NoPayload /\ skipped = 0
  /\ out = [s \in Sinks |-> << >>] /\ inputs = << >> /\ threw = FALSE

\* filter_.
Passes(payload, time) == time - lastTime > MaxSkip \/ payload # lastPayload

Arrive(payload, time, fate) ==
  inputs' = Append(inputs, [payload |-> payload, time |-> time, fate |-> fate])

Skip(payload, time) ==
  /\ ~Passes(payload, time) /\ Arrive(payload, time, "skipped")
  /\ skipped' = skipped + 1
  /\ UNCHANGED <<lastTime, lastPayload, out, threw>>

\* dist_sink::sink_it_ for a sequence of messages, of which the k-th meets a sink
\* s that throws; k is beyond the last one if none does.
Distribute(msgs, k, s) ==
  [t \in Sinks |-> out[t] \o SubSeq(msgs, 1, IF k <= Len(msgs) /\ t >= s THEN k - 1 ELSE k)]

Pass(payload, time) ==
  LET msgs == (IF skipped > 0 THEN <<[report |-> skipped, payload |-> NoPayload]>> ELSE << >>)
                \o <<[report |-> 0, payload |-> payload]>>
  IN  /\ Passes(payload, time)
      /\ \/ /\ out' = [t \in Sinks |-> out[t] \o msgs]
            /\ lastTime' = time /\ lastPayload' = payload /\ skipped' = 0
            /\ Arrive(payload, time, "passed") /\ UNCHANGED threw
         \/ /\ \E k \in 1 .. Len(msgs), s \in Sinks : out' = Distribute(msgs, k, s)
            /\ Arrive(payload, time, "error") /\ threw' = TRUE
            /\ UNCHANGED <<lastTime, lastPayload, skipped>>

DupNext ==
  \E payload \in Payloads, time \in 0 .. MaxStamp :
    Len(inputs) < MaxInputs /\ (Skip(payload, time) \/ Pass(payload, time))

DupSpec == DupInit /\ [][DupNext]_dupVars

-----------------------------------------------------------------------------
(* Properties.                                                             *)

\* A message is dropped only for an equal one that all sinks got not more than
\* max_skip_duration before it: a message that is repeated for long is seen again
\* and again.
SkippedForAnEqual ==
  \A i \in DOMAIN inputs : inputs[i].fate = "skipped" =>
    \E j \in 1 .. i - 1 :
      /\ inputs[j].fate = "passed" /\ inputs[j].payload = inputs[i].payload
      /\ inputs[i].time - inputs[j].time <= MaxSkip

Reported(s) == TotalOf([k \in 1 .. Len(out[s]) |-> out[s][k].report])
CountOf(fate) == Cardinality({i \in 1 .. Len(inputs) : inputs[i].fate = fate})

\* No sink is told of fewer messages than were skipped before the last one it got
\* and, unless some sink threw, of none twice: a report that was cut short is
\* made again.
SkipsReported ==
  \A s \in Sinks :
    /\ Reported(s) + skipped >= CountOf("skipped")
    /\ ~threw => Reported(s) + skipped = CountOf("skipped")
=============================================================================
