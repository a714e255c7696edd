------------------------------ MODULE Sockets ------------------------------
(***************************************************************************)
(* The TCP connections between the echo clients and the echo server, as    *)
(* Linux-c/server.c and Linux-c/client.c use them: what connect, accept,   *)
(* read, write and close do to the two ends of a connection.  The kernel   *)
(* is not part of the repository; this module is external to it.           *)
(*                                                                         *)
(* A client makes one connection in its life, so that a connection is      *)
(* named by its client.  The state of its end on side s is sock[c][s];     *)
(* inbox[c][s] holds the bytes on their way to that end: everything in the *)
(* send buffer of the peer, on the wire and in the receive buffer.         *)
(***************************************************************************)
EXTENDS Integers, Sequences, FiniteSets

CONSTANTS
  Clients,    \* the client processes, and so the connections
  Bytes,      \* the values of a byte
  Room,       \* how many bytes one direction of a connection can hold
  ReadMax,    \* READ_BUF_MAX: what one read() takes, in the server and the client
  Backlog     \* SERVER_BACK_LOG: the length given to listen()

ASSUME SocketsAssumption ==
  /\ IsFiniteSet(Clients)
  /\ Room \in Nat \ {0}
  /\ ReadMax \in Nat \ {0}
  /\ Backlog \in Nat

VARIABLES
  sock,       \* the state of every end of every connection
  inbox,      \* the bytes on their way to every end
  err,        \* the error latched on every end
  listening,  \* whether the server's listening socket is open
  sent,       \* history: the bytes of each client that the kernel accepted
  got         \* history: the bytes that each client has read

sockVars == <<sock, inbox, err, listening, sent, got>>

Sides == {"cli", "srv"}
EachEnd(S) == [Clients -> [Sides -> S]]
Peer(s) == IF s = "cli" THEN "srv" ELSE "cli"

Closed == {"fin", "abort"}          \* close() with nothing unread, with unread bytes
Alive == {"queued", "open"}         \* the end takes bytes

SockStates == {"none", "connecting"} \cup Alive \cup Closed
Errors == {"none", "provoked", "reset", "pipe"}

SocketsTypeOK ==
  /\ sock \in EachEnd(SockStates)
  /\ inbox \in EachEnd(Seq(Bytes))
  /\ err \in EachEnd(Errors)
  /\ listening \in BOOLEAN
  /\ sent \in [Clients -> Seq(Bytes)]
  /\ got \in [Clients -> Seq(Bytes)]

SocketsInit ==
  /\ sock = [c \in Clients |-> [s \in Sides |-> "none"]]
  /\ inbox = [c \in Clients |-> [s \in Sides |-> << >>]]
  /\ err = [c \in Clients |-> [s \in Sides |-> "none"]]
  /\ listening = FALSE
  /\ sent = [c \in Clients |-> << >>]
  /\ got = [c \in Clients |-> << >>]

-----------------------------------------------------------------------------
(* What epoll_wait and read see of an end.                                 *)

\* read() returns 0 or -1: no bytes left, and the peer has closed or the
\* connection has been reset.
AtEof(c, s) ==
  /\ inbox[c][s] = << >>
  /\ sock[c][Peer(s)] = "fin" \/ err[c][s] \in {"reset", "pipe"}

\* EPOLLIN is reported.
Readable(c, s) == inbox[c][s] # << >> \/ AtEof(c, s)

Queued == {c \in Clients : sock[c]["srv"] = "queued"}

Free(c, s) == Room - Len(inbox[c][s])

AtMost(n, q) == IF n =< Len(q) THEN n ELSE Len(q)
Taken(n, q) == SubSeq(q, 1, AtMost(n, q))
Rest(n, q) == SubSeq(q, AtMost(n, q) + 1, Len(q))

-----------------------------------------------------------------------------
(* System calls on an end.                                                 *)

\* read() takes what there is, up to n bytes.
Receive(c, s, n) ==
  /\ inbox[c][s] # << >>
  /\ inbox' = [inbox EXCEPT ![c][s] = Rest(n, @)]

\* write() on a connection whose peer is there: the bytes that fit go through.
Deliver(c, s, data) ==
  /\ sock[c][Peer(s)] \in Alive
  /\ Len(data) =< Free(c, Peer(s))
  /\ inbox' = [inbox EXCEPT ![c][Peer(s)] = @ \o data]
  /\ UNCHANGED err

\* write() on a connection whose peer has closed, before that is known: the
\* bytes are accepted and lost, and a closed peer answers them with a reset.
Swallow(c, s) ==
  /\ sock[c][Peer(s)] \in Closed
  /\ err[c][s] \in {"none", "provoked"}
  /\ err' = [err EXCEPT ![c][s] = IF sock[c][Peer(s)] = "fin" THEN "provoked" ELSE @]
  /\ UNCHANGED inbox

\* write() on a connection that was reset: -1 once, SIGPIPE from then on.
FailOnce(c, s) ==
  /\ err[c][s] = "reset"
  /\ err' = [err EXCEPT ![c][s] = "pipe"]
  /\ UNCHANGED inbox

\* close(): with unread bytes, which are thrown away, it resets the connection.
Closing(c, s) == IF inbox[c][s] = << >> THEN "fin" ELSE "abort"

Close(c, s) ==
  /\ sock' = [sock EXCEPT ![c][s] = Closing(c, s)]
  /\ inbox' = [inbox EXCEPT ![c][s] = << >>]

\* The server process ends: the kernel closes every end that it has, and resets
\* the connections nobody accepted.
CloseServer ==
  /\ listening' = FALSE
  /\ sock' = [c \in Clients |->
                [sock[c] EXCEPT !["srv"] = IF @ = "open" THEN Closing(c, "srv")
                                           ELSE IF @ = "queued" THEN "abort" ELSE @]]
  /\ inbox' = [c \in Clients |-> [inbox[c] EXCEPT !["srv"] = << >>]]

-----------------------------------------------------------------------------
(* The calls of a client process.                                          *)

\* connect() on a non-blocking socket: EINPROGRESS.
Connect(c) ==
  /\ sock[c]["cli"] = "none"
  /\ sock' = [sock EXCEPT ![c]["cli"] = "connecting"]
  /\ UNCHANGED <<inbox, err, listening, sent, got>>

\* write() of data, all of which the kernel takes.
ClientSend(c, data) ==
  /\ sock[c]["cli"] = "open"
  /\ err[c]["cli"] \in {"none", "provoked"}
  /\ Deliver(c, "cli", data) \/ Swallow(c, "cli")
  /\ sent' = [sent EXCEPT ![c] = @ \o data]
  /\ UNCHANGED <<sock, listening, got>>

\* write() on a connection that was reset: -1.
ClientSendFails(c) ==
  /\ sock[c]["cli"] \in {"connecting", "open"}
  /\ FailOnce(c, "cli")
  /\ UNCHANGED <<sock, listening, sent, got>>

\* read() of up to n bytes.
ClientReceive(c, n) ==
  /\ sock[c]["cli"] = "open"
  /\ Receive(c, "cli", n)
  /\ got' = [got EXCEPT ![c] = @ \o Taken(n, inbox[c]["cli"])]
  /\ UNCHANGED <<sock, err, listening, sent>>

\* close(), or the end of the process.
ClientClose(c) ==
  /\ sock[c]["cli"] \in {"connecting", "open"}
  /\ Close(c, "cli")
  /\ UNCHANGED <<err, listening, sent, got>>

-----------------------------------------------------------------------------
(* The network.                                                            *)

\* The handshake completes: the connection enters the accept queue, which holds
\* one connection more than the backlog.
Establish(c) ==
  /\ listening
  /\ sock[c]["cli"] = "connecting" /\ err[c]["cli"] = "none"
  /\ Cardinality(Queued) =< Backlog
  /\ sock' = [sock EXCEPT ![c]["cli"] = "open", ![c]["srv"] = "queued"]
  /\ UNCHANGED <<inbox, err, listening, sent, got>>

\* Nobody listens: the connection attempt is answered with a reset.
Refuse(c) ==
  /\ ~listening
  /\ sock[c]["cli"] = "connecting"
  /\ err[c]["cli"] = "none"
  /\ err' = [err EXCEPT ![c]["cli"] = "reset"]
  /\ UNCHANGED <<sock, inbox, listening, sent, got>>

\* The reset of a close() with unread bytes arrives: of the bytes before it,
\* those that were not read yet may be lost.
LearnAbort(c, s) ==
  /\ sock[c][s] \in Alive /\ sock[c][Peer(s)] = "abort"
  /\ err[c][s] = "none"
  /\ err' = [err EXCEPT ![c][s] = "reset"]
  /\ \E n \in 0..Len(inbox[c][s]) : inbox' = [inbox EXCEPT ![c][s] = SubSeq(@, 1, n)]
  /\ UNCHANGED <<sock, listening, sent, got>>

\* The reset that answers bytes written after the peer's close() arrives.
LearnProvoked(c, s) ==
  /\ sock[c][s] \in Alive
  /\ err[c][s] = "provoked"
  /\ err' = [err EXCEPT ![c][s] = "pipe"]
  /\ UNCHANGED <<sock, inbox, listening, sent, got>>

Network == \E c \in Clients :
             \/ Establish(c)
             \/ Refuse(c)
             \/ \E s \in Sides : LearnAbort(c, s) \/ LearnProvoked(c, s)
=============================================================================
