----------------------------- MODULE EchoSystem -----------------------------
(***************************************************************************)
(* The echo server and its clients together: EchoServer with EchoClient at *)
(* the other end of every connection.                                      *)
(***************************************************************************)
EXTENDS EchoServer, EchoClient

\* The n bytes that were typed at a terminal after the first k.
TypedAfter(c, k, n) == [i \in 1..n |-> <<c, k + i>>]

\* The programs that EchoServer allows for may send whatever these clients send.
ASSUME EchoSystemAssumption ==
  \A c \in Clients :
    /\ MaxTyped[c] =< MaxSent
    /\ \A k \in 0..MaxTyped[c] : \A n \in 1..ReadMax :
         k + n =< MaxTyped[c] => TypedAfter(c, k, n) \in Chunks[c]

systemVars == <<vars, clientVars>>

SystemInit == Init /\ ClientInit

SystemNext ==
  \/ ServerNext /\ UNCHANGED clientVars
  \/ Network /\ UNCHANGED <<serverVars, clientVars>>
  \/ \E c \in Clients : (ClientStep(c) \/ UserStep(c)) /\ UNCHANGED serverVars

SystemSpec == SystemInit /\ [][SystemNext]_systemVars

\* The server, the network and every client's thread are scheduled; nothing
\* makes a user type, and nothing kills a client.
SystemFairness ==
  /\ WF_systemVars(ServerNext /\ UNCHANGED clientVars)
  /\ WF_systemVars(Network /\ UNCHANGED <<serverVars, clientVars>>)
  /\ \A c \in Clients : WF_systemVars(ClientStep(c) /\ UNCHANGED serverVars)

SystemFairSpec == SystemSpec /\ SystemFairness

-----------------------------------------------------------------------------
(* Safety                                                                  *)

\* To the server a client is one of the programs its specification allows for,
\* so that what holds of the server with any of them holds here.
ServerSpec == Spec

\* What reaches the connection is what was typed, in the order it was typed:
\* dropped lines and newlines leave gaps, but nothing is sent twice or late.
SentInOrder ==
  \A c \in Clients : \A p, q \in 1..Len(sent[c]) :
    p < q => sent[c][p][2] < sent[c][q][2]

\* "connect success" is printed for no connection attempt that failed, although
\* a failed attempt is reported by EPOLLOUT as well.
ConnectSuccessIsReal ==
  \A c \in Clients : writeCb[c] = "write" => sock[c]["srv"] # "none"

\* A client that is not killed and has sent less than a buffer holds keeps an
\* established connection for as long as the server lives: neither the end of
\* its input nor a line that was dropped closes it.
ClientStays ==
  \A c \in Clients \ Mortal :
    sock[c]["srv"] # "none" /\ sock[c]["cli"] \in Closed =>
      ~listening \/ Len(sent[c]) >= ReadMax

-----------------------------------------------------------------------------
(* Inductive invariants                                                    *)

\* The lines that wait at the terminal are what was typed last, without a gap, and
\* what has been sent was typed before them: start[i] bytes were typed before line
\* i, and the end of the last line is the end of all that was typed.
LinesInv(c) ==
  /\ typed[c] =< MaxTyped[c]
  /\ \E start \in [1..(Len(tty[c]) + 1) -> 0..typed[c]] :
       /\ start[Len(tty[c]) + 1] = typed[c]
       /\ \A i \in 1..Len(tty[c]) :
            /\ start[i] < start[i + 1]
            /\ tty[c][i] = TypedAfter(c, start[i], start[i + 1] - start[i])
       /\ Len(sent[c]) =< start[1]
       /\ \A p \in 1..Len(sent[c]) : sent[c][p][2] \in 1..start[1]

\* An event without EPOLLIN is that of a connection that stands: one that failed
\* is readable as well.
EventsInv(c) ==
  \A e \in cbatch[c] : e.src = "socket" /\ "IN" \notin e.mask => sock[c]["srv"] # "none"

\* While the server lives, no error is latched on a client's end of a connection
\* that both ends have, and no more is on its way to it than there is room for.
EndInv(c) ==
  /\ listening /\ sock[c]["srv"] # "none" /\ sock[c]["cli"] \notin Closed =>
       err[c]["cli"] = "none"
  /\ Len(inbox[c]["cli"]) =< Room

ClientInv ==
  /\ ClientTypeOK /\ SentInOrder /\ ConnectSuccessIsReal /\ ClientStays
  /\ \A c \in Clients : LinesInv(c) /\ EventsInv(c) /\ EndInv(c)

\* Together with the invariants of the server this is inductive.
SystemInv == FdInv /\ StreamInv /\ ClientInv

-----------------------------------------------------------------------------
(* Liveness                                                                *)

\* Everything a client has sent comes back to its screen, unless it or the
\* server ends: the server's blocking write always finds a client that reads,
\* because no client ever waits for the server in a write of its own.
EchoShown ==
  \A c \in Clients :
    []<>(got[c] = sent[c] \/ cpc[c] = "gone" \/ ~listening)

\* A client's epoll loop does not keep spinning on a writable socket: once the
\* connection stands, its interest in EPOLLOUT goes away.
WriteInterestEnds ==
  \A c \in Clients :
    sock[c]["cli"] = "open" ~> (~wantOut[c] \/ sock[c]["cli"] \in Closed)

\* A client does not hold on to a dead connection: when the server is gone, it
\* closes its end.
DeadConnectionDropped ==
  \A c \in Clients :
    sock[c]["cli"] = "open" /\ sock[c]["srv"] \in Closed ~> sock[c]["cli"] \in Closed
=============================================================================
