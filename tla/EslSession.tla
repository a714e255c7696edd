---------------------------- MODULE EslSession -----------------------------
(***************************************************************************)
(* An outbound session (FreeSwitch/testserver.c, testcharge.c): FreeSWITCH *)
(* connects for a call, the thread of the call sends its commands without  *)
(* looking at what comes of them, and then receives with a time-out of one *)
(* second until the socket fails or, once a disconnect notice has said     *)
(* "linger", until time(NULL), which counts whole seconds, has reached the *)
(* time of the notice plus five.                                           *)
(***************************************************************************)
EXTENDS Integers, Sequences

CONSTANTS
  Setup,        \* the commands sent before the loop
  Second,       \* the clock's ticks per second
  MaxTime       \* bound: the clock stops there

ASSUME EslSessionAssumption == Second \in Nat \ {0} /\ MaxTime \in Nat /\ Setup \in Seq(STRING)

\* The setups of the two programs.
ServerSetup == <<"filter", "events", "linger", "answer", "conference">>
ChargeSetup == <<"filter", "events", "linger 5", "answer", "set", "set", "speak">>

VARIABLES
  clock,
  todo,         \* the commands still to send
  session,      \* "on", or how it ended: "lingered" or "failed"
  socket,       \* whether the socket still works
  called,       \* when esl_recv_timed was called
  done, exp,    \* the program's variables
  noticed       \* history: when the notice came

sessionVars == <<clock, todo, session, socket, called, done, exp, noticed>>

SessionTypeOK ==
  /\ clock \in 0 .. MaxTime /\ called \in 0 .. clock /\ noticed \in 0 .. clock
  /\ todo \in {SubSeq(Setup, i, Len(Setup)) : i \in 1 .. Len(Setup) + 1}
  /\ session \in {"on", "lingered", "failed"} /\ socket \in BOOLEAN /\ done \in BOOLEAN
  /\ exp \in 0 .. (MaxTime \div Second) + 5

SessionInit ==
  /\ clock = 0 /\ called = 0 /\ noticed = 0 /\ exp = 0
  /\ todo = Setup /\ session = "on" /\ socket = TRUE /\ done = FALSE

Seconds(t) == t \div Second
TimedOut == clock - called >= Second

\* Time passes, but no call of esl_recv_timed outlasts its second.
Tick ==
  /\ clock < MaxTime /\ session = "on" /\ (todo # << >> \/ ~TimedOut)
  /\ clock' = clock + 1
  /\ UNCHANGED <<todo, session, socket, called, done, exp, noticed>>

\* A command: sent, or without effect on a socket that has failed.
SendCommand ==
  /\ todo # << >> /\ todo' = Tail(todo)
  /\ called' = clock
  /\ UNCHANGED <<clock, session, socket, done, exp, noticed>>

SocketFails ==
  /\ session = "on" /\ socket /\ socket' = FALSE
  /\ UNCHANGED <<clock, todo, session, called, done, exp, noticed>>

Receiving == session = "on" /\ todo = << >>

\* Mutant: the clock is read only when nothing came for a second.
ExpiredIfIdle(status) == status = "break" /\ Seconds(clock) >= exp

Expired(status) == Seconds(clock) >= exp

\* esl_recv_timed returns an event or, after its second, nothing.
Received(status) ==
  /\ Receiving /\ socket /\ (status = "break" => TimedOut)
  /\ called' = clock
  /\ UNCHANGED <<clock, todo, socket>>

AfterNotice(status) ==
  /\ Received(status) /\ done
  /\ session' = IF Expired(status) THEN "lingered" ELSE "on"
  /\ UNCHANGED <<done, exp, noticed>>

\* A disconnect notice whose disposition is "linger".
Notice ==
  /\ Received("event") /\ ~done
  /\ done' = TRUE /\ exp' = Seconds(clock) + 5 /\ noticed' = clock
  /\ UNCHANGED session

\* Any other event, a notice with another disposition, or none for a second.
OtherEvent(status) ==
  /\ Received(status) /\ ~done
  /\ UNCHANGED <<session, done, exp, noticed>>

ReceiveFails ==
  /\ Receiving /\ ~socket /\ session' = "failed"
  /\ UNCHANGED <<clock, todo, socket, called, done, exp, noticed>>

ReceiveReturns == Notice \/ ReceiveFails \/ \E st \in {"event", "break"} : AfterNotice(st) \/ OtherEvent(st)

SessionNext == Tick \/ SendCommand \/ SocketFails \/ ReceiveReturns

SessionSpec == SessionInit /\ [][SessionNext]_sessionVars

\* After a notice the session stays for the five seconds, less what whole seconds
\* hide, unless its socket fails; and it never stays longer than those five and
\* the second of a last receive, however many events keep coming.
LingersFive ==
  /\ session = "lingered" => clock - noticed > 4 * Second
  /\ done /\ session = "on" => clock - noticed <= 6 * Second
=============================================================================
