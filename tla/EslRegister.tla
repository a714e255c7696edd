---------------------------- MODULE EslRegister ----------------------------
(***************************************************************************)
(* The registration watcher (FreeSwitch/Inbond_test/testclient.c): after   *)
(* subscribing to three kinds of events it polls for one, sleeps a second  *)
(* if there is none, and answers a registration with a message to the      *)
(* registered user.  What it looks for in an event it uses without asking  *)
(* whether it is there, except the contact.                                *)
(***************************************************************************)
EXTENDS Integers, Sequences, SequencesExt

CONSTANTS
  Room,         \* the characters to_buf holds, without the terminating zero
  Widths,       \* the lengths that "user@domain" may have
  MaxEvents     \* bound: the events that arrive

ASSUME EslRegisterAssumption == Room \in Nat /\ MaxEvents \in Nat /\ Widths \subseteq Nat

VARIABLES
  watcher,      \* "subscribing", "polling", "asleep", "ended" or "crashed"
  link,         \* whether the connection to FreeSWITCH still works
  inbox,        \* the events that have arrived and not been polled for
  handled,      \* history: the events polled for, in order
  messages      \* the messages sent: which event each answers, and how much of its address

registerVars == <<watcher, link, inbox, handled, messages>>

\* The names of subclasses as their parts; a name matches if the comparison, as
\* long as the received name, finds no difference.
Register == <<"sofia", "re", "gister">>
Subclasses == {Register, <<"sofia", "unre", "gister">>, <<"sofia", "ex", "pire">>}

\* inner: last_ievent is there.  A notice of FreeSWITCH that it goes down has a
\* body and no inner event.
Events == [inner : {TRUE}, subclass : Subclasses, contact : BOOLEAN, user : BOOLEAN, width : Widths]
Goodbye == [inner |-> FALSE, subclass |-> << >>, contact |-> FALSE, user |-> FALSE, width |-> 0]

RegisterTypeOK ==
  /\ watcher \in {"subscribing", "polling", "asleep", "ended", "crashed"} /\ link \in BOOLEAN
  /\ inbox \in Seq(Events \cup {Goodbye}) /\ handled \in Seq(Events \cup {Goodbye})
  /\ messages \in Seq([event : 1 .. MaxEvents, width : 0 .. Room])

RegisterInit ==
  /\ watcher = "subscribing" /\ link = TRUE
  /\ inbox = << >> /\ handled = << >> /\ messages = << >>

\* esl_connect, "api status" and esl_events; their results are not looked at.
Subscribe ==
  /\ watcher = "subscribing" /\ watcher' = "polling"
  /\ UNCHANGED <<link, inbox, handled, messages>>

Arrives(e) ==
  /\ link /\ watcher # "subscribing" /\ Len(inbox) + Len(handled) < MaxEvents
  /\ inbox' = Append(inbox, e)
  /\ UNCHANGED <<watcher, link, handled, messages>>

LinkFails ==
  /\ link /\ link' = FALSE
  /\ UNCHANGED <<watcher, inbox, handled, messages>>

\* Mutant: the length of the name looked for, not of the one received.
MatchesTail(name) == Len(name) >= 3 /\ name[3] = Register[3]

Matches(name) == IsPrefix(name, Register)

\* Mutant: the address is not cut to the buffer.
MessageUncut(e) == [event |-> Len(handled) + 1, width |-> e.width]

\* snprintf cuts the address off; the result of esl_sendevent is not looked at.
Message(e) == [event |-> Len(handled) + 1, width |-> IF e.width <= Room THEN e.width ELSE Room]

Answered(e) == Matches(e.subclass) /\ e.contact

\* A member of the event, or the inner event itself, that is missing is a null
\* pointer, and reading through it ends the program.
Fatal(e) == ~e.inner \/ (Answered(e) /\ ~e.user)

Poll ==
  /\ watcher = "polling" /\ inbox # << >>
  /\ LET e == Head(inbox) IN
       /\ inbox' = Tail(inbox) /\ handled' = Append(handled, e)
       /\ watcher' = IF Fatal(e) THEN "crashed" ELSE "polling"
       /\ messages' = IF Answered(e) /\ ~Fatal(e) THEN Append(messages, Message(e)) ELSE messages
  /\ UNCHANGED link

\* Mutant: a poll that brings nothing ends the loop.
PollNothingEnds ==
  /\ watcher = "polling" /\ inbox = << >>
  /\ watcher' = "ended"
  /\ UNCHANGED <<link, inbox, handled, messages>>

PollNothing ==
  /\ watcher = "polling" /\ inbox = << >>
  /\ watcher' = IF link THEN "asleep" ELSE "ended"
  /\ UNCHANGED <<link, inbox, handled, messages>>

Wake ==
  /\ watcher = "asleep" /\ watcher' = "polling"
  /\ UNCHANGED <<link, inbox, handled, messages>>

RegisterStep == Subscribe \/ Poll \/ PollNothing \/ Wake

RegisterNext == RegisterStep \/ LinkFails \/ \E e \in Events \cup {Goodbye} : Arrives(e)

RegisterSpec == RegisterInit /\ [][RegisterNext]_registerVars

\* Every complete registration that was polled for is answered once, in order, with
\* as much of the address as fits; no other event is ever answered; and only an
\* event that lacks what the program takes for granted ends it otherwise than
\* the end of the connection does.
AnswersRegistrations ==
  LET complete(i) == handled[i].subclass = Register /\ handled[i].contact /\ handled[i].user
  IN  /\ {messages[k].event : k \in 1 .. Len(messages)} = {i \in 1 .. Len(handled) : complete(i)}
      /\ \A j, k \in 1 .. Len(messages) : j < k => messages[j].event < messages[k].event
      /\ \A k \in 1 .. Len(messages) :
           LET width == handled[messages[k].event].width IN
           messages[k].width \in {width, Room} /\ messages[k].width <= Room
      /\ watcher = "crashed" => ~(Last(handled).inner /\ Last(handled).user)
      /\ watcher = "ended" => ~link /\ inbox = << >>

\* An event that has arrived is looked at, unless the program crashes before.
EventsHandled == [](inbox # << >> => <>(inbox = << >> \/ watcher = "crashed"))
=============================================================================
