------------------------------- MODULE Mcast -------------------------------
(***************************************************************************)
(* The multicast test (Linux-c/Mcast_test): mul_client.c sends one datagram*)
(* to the group and ends; mul_server.c binds the port, joins the group and *)
(* receives five times, with a pause of five seconds after each.           *)
(***************************************************************************)
EXTENDS Integers, Sequences, FiniteSets

CONSTANTS
  Senders,      \* the runs of mul_client.c
  Buffered,     \* the datagrams the socket's buffer holds
  Receives      \* five

ASSUME McastAssumption ==
  /\ Buffered \in Nat \ {0} /\ Receives \in Nat \ {0} /\ << >> \notin Senders

VARIABLES
  receiver,     \* "new", "bound", "joined", "paused", or how it ended: "done" or "error"
  times,        \* the receives that are over
  buffer,       \* the datagrams in the socket's buffer, by sender
  unsent,       \* the senders that have not sent yet
  lines,        \* what was printed, by sender; << >> stands for a failed receive
  delivered     \* history: all that the socket took up

mcastVars == <<receiver, times, buffer, unsent, lines, delivered>>

McastInit ==
  /\ receiver = "new" /\ times = 0 /\ buffer = << >> /\ unsent = Senders
  /\ lines = << >> /\ delivered = << >>

\* bind(), and then both setsockopt() calls; each may fail and ends the program.
Prepare ==
  /\ \/ receiver = "new" /\ receiver' \in {"bound", "error"}
     \/ receiver = "bound" /\ receiver' \in {"joined", "error"}
  /\ UNCHANGED <<times, buffer, unsent, lines, delivered>>

\* A datagram: the network may lose it, the buffer may be full, and a socket that
\* is bound gets it only from the time on that somebody on the host has joined.
Send(s) ==
  /\ s \in unsent /\ unsent' = unsent \ {s}
  /\ \/ UNCHANGED <<buffer, delivered>>
     \/ /\ receiver \in {"bound", "joined", "paused"} /\ Len(buffer) < Buffered
        /\ buffer' = Append(buffer, s) /\ delivered' = Append(delivered, s)
  /\ UNCHANGED <<receiver, times, lines>>

\* Mutant: times is raised in the body of the loop as well.
CountedTwice == times' = times + 2

Counted == times' = times + 1

PrintLine(line) ==
  /\ receiver = "joined" /\ receiver' = "paused"
  /\ lines' = Append(lines, line)
  /\ UNCHANGED <<unsent, delivered>>

Receive ==
  /\ buffer # << >> /\ PrintLine(Head(buffer))
  /\ buffer' = Tail(buffer) /\ Counted

\* recvfrom fails (a signal, say); buff has been cleared, and is printed empty.
ReceiveError == PrintLine(<< >>) /\ Counted /\ UNCHANGED buffer

\* sleep, and then the next receive or the end.
Pause ==
  /\ receiver = "paused"
  /\ receiver' = IF times < Receives THEN "joined" ELSE "done"
  /\ UNCHANGED <<times, buffer, unsent, lines, delivered>>

McastNext == Prepare \/ Receive \/ ReceiveError \/ Pause \/ \E s \in Senders : Send(s)

McastSpec == McastInit /\ [][McastNext]_mcastVars

\* How many of the first k lines show a datagram.
Heard(k) == Cardinality({j \in 1 .. k : lines[j] # << >>})

\* Between the socket's buffer and the output nothing is lost, repeated or put
\* out of order, and the receiver ends only after five receives, of which those
\* that failed were printed as empty lines.
McastSound ==
  LET heard == Heard(Len(lines)) IN
  /\ Len(delivered) = heard + Len(buffer)
  /\ \A k \in 1 .. Len(lines) : lines[k] # << >> => lines[k] = delivered[Heard(k)]
  /\ \A k \in 1 .. Len(buffer) : buffer[k] = delivered[heard + k]
  /\ receiver = "done" => Len(lines) = Receives
=============================================================================
