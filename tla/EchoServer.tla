----------------------------- MODULE EchoServer -----------------------------
(***************************************************************************)
(* The echo server (Linux-c/server.c with socket_handler.c and             *)
(* socket_util.c): one thread that waits on epoll, walks through the batch *)
(* of events it got, accepts connections and echoes what it reads with a   *)
(* blocking write.  Any program may be at the other end of a connection:   *)
(* here the clients connect, send, read and close as they like.            *)
(*                                                                         *)
(* A record (socket_event_t) is malloc'ed for every accepted connection and*)
(* never freed, so it is named by its connection.  A file descriptor number*)
(* is reused after close(); the record keeps the number it was made with,  *)
(* and every call a callback makes goes to whatever that number stands for *)
(* at the time of the call.                                                *)
(***************************************************************************)
EXTENDS Sockets, SequencesExt

CONSTANTS
  Fds,        \* the descriptor numbers left for accepted connections
  MaxEvents,  \* RECV_EP_EVENT_MAX
  Chunks,     \* what a client may hand to one write(): a set of byte sequences
  MaxSent     \* bound: the bytes a client sends on its connection

ASSUME EchoServerAssumption ==
  /\ Fds \subseteq Nat
  /\ IsFiniteSet(Fds)
  /\ MaxEvents \in Nat \ {0}
  /\ Chunks \in [Clients -> SUBSET Seq(Bytes)]
  /\ MaxSent \in Nat

NoClient == "no client"
NoFd == -1
Listener == "listener"

ASSUME NamesAssumption ==
  /\ NoClient \notin Clients
  /\ Listener \notin Clients

VARIABLES
  pc,         \* where the server's thread is
  batch,      \* recv_ep_event: the records whose event is still to be handled
  fdOf,       \* the field fd of every record
  owner,      \* the kernel's descriptor table: the connection behind a number
  interest,   \* the epoll instance: the record registered for a number
  writer,     \* the record whose callback is in write()
  wbuf        \* what that write() has not handed to the kernel yet

serverVars == <<pc, batch, fdOf, owner, interest, writer, wbuf>>
vars == <<sockVars, serverVars>>

TypeOK ==
  /\ SocketsTypeOK
  /\ pc \in {"start", "listen", "loop", "write", "blocked", "exited", "killed"}
  /\ batch \subseteq Clients \cup {Listener}
  /\ fdOf \in [Clients -> Fds \cup {NoFd}]
  /\ owner \in [Fds -> Clients \cup {NoClient}]
  /\ interest \in [Fds -> Clients \cup {NoClient}]
  /\ writer \in Clients \cup {NoClient}
  /\ wbuf \in Seq(Bytes)

Init ==
  /\ SocketsInit
  /\ pc = "start"
  /\ batch = {}
  /\ fdOf = [c \in Clients |-> NoFd]
  /\ owner = [f \in Fds |-> NoClient]
  /\ interest = [f \in Fds |-> NoClient]
  /\ writer = NoClient
  /\ wbuf = << >>

-----------------------------------------------------------------------------
(* main                                                                    *)

\* socket, bind and listen: from now on connections may queue up.
Listen ==
  /\ pc = "start"
  /\ pc' = "listen"
  /\ listening' = TRUE
  /\ UNCHANGED <<sock, inbox, err, sent, got, batch, fdOf, owner, interest, writer, wbuf>>

\* One of those calls fails: exit(1).
ListenFails ==
  /\ pc = "start"
  /\ pc' = "exited"
  /\ UNCHANGED <<sockVars, batch, fdOf, owner, interest, writer, wbuf>>

\* epoll_create, and the registration of the listening socket's record.
EpollCreate ==
  /\ pc = "listen"
  /\ pc' = "loop"
  /\ UNCHANGED <<sockVars, batch, fdOf, owner, interest, writer, wbuf>>

\* epoll_create fails: close(listen_fd) and exit(1), whoever is in the queue.
EpollCreateFails ==
  /\ pc = "listen"
  /\ pc' = "exited"
  /\ CloseServer
  /\ UNCHANGED <<err, sent, got, batch, fdOf, owner, interest, writer, wbuf>>

\* Mutant: the listening socket's record is never registered.
ReadyUnlistened ==
  {interest[f] : f \in {g \in Fds : /\ interest[g] # NoClient
                                    /\ owner[g] # NoClient
                                    /\ Readable(owner[g], "srv")}}

\* The records epoll_wait can report: those registered under a number whose
\* connection is readable, and the listening socket's.
Ready ==
  {interest[f] : f \in {g \in Fds : /\ interest[g] # NoClient
                                    /\ owner[g] # NoClient
                                    /\ Readable(owner[g], "srv")}}
    \cup {r \in {Listener} : Queued # {}}

\* epoll_wait returns every ready record, or MaxEvents of them.  A batch is
\* walked through in the order of the kernel's ready list, about which nothing
\* is known here: it is kept as a set.
EpollWait ==
  /\ pc = "loop" /\ batch = {}
  /\ \E B \in SUBSET Ready :
       /\ B # {}
       /\ Cardinality(B) =< MaxEvents
       /\ B = Ready \/ Cardinality(B) = MaxEvents
       /\ batch' = B
  /\ UNCHANGED <<sockVars, pc, fdOf, owner, interest, writer, wbuf>>

-----------------------------------------------------------------------------
(* socket_accept_callback                                                  *)

FreeFds == {f \in Fds : owner[f] = NoClient}

\* Mutant: the record of the new connection holds the wrong number.
AcceptWrongFd ==
  /\ pc = "loop" /\ Listener \in batch
  /\ \E c \in Queued, f \in FreeFds :
       /\ \A g \in FreeFds : f =< g
       /\ sock' = [sock EXCEPT ![c]["srv"] = "open"]
       /\ owner' = [owner EXCEPT ![f] = c]
       /\ fdOf' = [fdOf EXCEPT ![c] = f + 1]
       /\ interest' = [interest EXCEPT ![f] = c]
  /\ batch' = batch \ {Listener}
  /\ UNCHANGED <<inbox, err, listening, sent, got, pc, writer, wbuf>>

\* Mutant: the new connection is not registered with epoll.
AcceptUnregistered ==
  /\ pc = "loop" /\ Listener \in batch
  /\ \E c \in Queued, f \in FreeFds :
       /\ \A g \in FreeFds : f =< g
       /\ sock' = [sock EXCEPT ![c]["srv"] = "open"]
       /\ owner' = [owner EXCEPT ![f] = c]
       /\ fdOf' = [fdOf EXCEPT ![c] = f]
  /\ batch' = batch \ {Listener}
  /\ UNCHANGED <<inbox, err, listening, sent, got, pc, interest, writer, wbuf>>

\* accept() takes a connection out of the queue and gives it the lowest free
\* number; the new record is registered for EPOLLIN.
Accept ==
  /\ pc = "loop" /\ Listener \in batch
  /\ \E c \in Queued, f \in FreeFds :
       /\ \A g \in FreeFds : f =< g
       /\ sock' = [sock EXCEPT ![c]["srv"] = "open"]
       /\ owner' = [owner EXCEPT ![f] = c]
       /\ fdOf' = [fdOf EXCEPT ![c] = f]
       /\ interest' = [interest EXCEPT ![f] = c]
  /\ batch' = batch \ {Listener}
  /\ UNCHANGED <<inbox, err, listening, sent, got, pc, writer, wbuf>>

\* accept() fails for lack of a number: the callback returns -1, nobody looks
\* at that, and the connection stays in the queue.
AcceptFails ==
  /\ pc = "loop" /\ Listener \in batch
  /\ FreeFds = {}
  /\ batch' = batch \ {Listener}
  /\ UNCHANGED <<sockVars, pc, fdOf, owner, interest, writer, wbuf>>

-----------------------------------------------------------------------------
(* client_read_callback                                                    *)

\* The connection that the record's number stands for now.
Conn(c) == owner[fdOf[c]]

\* Mutant: the event stays in the batch after it was handled.
ReadBytesAgain(c) ==
  /\ pc = "loop" /\ c \in batch /\ Conn(c) # NoClient
  /\ Receive(Conn(c), "srv", ReadMax)
  /\ wbuf' = Taken(ReadMax, inbox[Conn(c)]["srv"])
  /\ writer' = c
  /\ pc' = "write"
  /\ UNCHANGED <<sock, err, listening, sent, got, batch, fdOf, owner, interest>>

\* read() returns bytes: the callback goes on to write them back.
ReadBytes(c) ==
  /\ pc = "loop" /\ c \in batch /\ Conn(c) # NoClient
  /\ Receive(Conn(c), "srv", ReadMax)
  /\ wbuf' = Taken(ReadMax, inbox[Conn(c)]["srv"])
  /\ writer' = c
  /\ pc' = "write"
  /\ batch' = batch \ {c}
  /\ UNCHANGED <<sock, err, listening, sent, got, fdOf, owner, interest>>

\* Mutant: EPOLL_CTL_DEL without close().
ReadEofLeaks(c) ==
  /\ pc = "loop" /\ c \in batch /\ Conn(c) # NoClient
  /\ AtEof(Conn(c), "srv")
  /\ interest' = [interest EXCEPT ![fdOf[c]] = NoClient]
  /\ batch' = batch \ {c}
  /\ UNCHANGED <<sockVars, pc, fdOf, owner, writer, wbuf>>

\* Mutant: the connection is closed whatever read() would return.
ReadEofAlways(c) ==
  /\ pc = "loop" /\ c \in batch /\ Conn(c) # NoClient
  /\ Close(Conn(c), "srv")
  /\ interest' = [interest EXCEPT ![fdOf[c]] = NoClient]
  /\ owner' = [owner EXCEPT ![fdOf[c]] = NoClient]
  /\ batch' = batch \ {c}
  /\ UNCHANGED <<err, listening, sent, got, pc, fdOf, writer, wbuf>>

\* Mutant: the end of one connection ends the process.
ReadEofExits(c) ==
  /\ pc = "loop" /\ c \in batch /\ Conn(c) # NoClient
  /\ AtEof(Conn(c), "srv")
  /\ CloseServer
  /\ pc' = "killed"
  /\ batch' = {}
  /\ UNCHANGED <<err, sent, got, fdOf, owner, interest, writer, wbuf>>

\* read() returns 0 or -1: EPOLL_CTL_DEL and close().
ReadEof(c) ==
  /\ pc = "loop" /\ c \in batch /\ Conn(c) # NoClient
  /\ AtEof(Conn(c), "srv")
  /\ Close(Conn(c), "srv")
  /\ interest' = [interest EXCEPT ![fdOf[c]] = NoClient]
  /\ owner' = [owner EXCEPT ![fdOf[c]] = NoClient]
  /\ batch' = batch \ {c}
  /\ UNCHANGED <<err, listening, sent, got, pc, fdOf, writer, wbuf>>

\* The callback returns: write()'s result is only printed.
WriteReturns ==
  /\ pc' = "loop"
  /\ writer' = NoClient
  /\ wbuf' = << >>

\* Mutant: write() returns with what fits, as on a non-blocking socket.
WriteOnce ==
  /\ pc \in {"write", "blocked"}
  /\ \E n \in 0..Len(wbuf) :
       /\ n = Len(wbuf) \/ n = Free(Conn(writer), "cli")
       /\ Deliver(Conn(writer), "srv", Taken(n, wbuf))
       /\ WriteReturns
  /\ UNCHANGED <<sock, listening, sent, got, batch, fdOf, owner, interest>>

\* The blocking write() hands over what fits.  It returns once everything has
\* been taken; until then the thread sleeps in it.
WriteSome ==
  /\ pc \in {"write", "blocked"}
  /\ \E n \in 1..Len(wbuf) :
       /\ n = Len(wbuf) \/ n = Free(Conn(writer), "cli")
       /\ Deliver(Conn(writer), "srv", Taken(n, wbuf))
       /\ IF n = Len(wbuf)
            THEN WriteReturns
            ELSE /\ pc' = "blocked"
                 /\ wbuf' = Rest(n, wbuf)
                 /\ UNCHANGED writer
  /\ UNCHANGED <<sock, listening, sent, got, batch, fdOf, owner, interest>>

\* The client has closed: the bytes are lost without an error.
WriteSwallowed ==
  /\ pc \in {"write", "blocked"}
  /\ Swallow(Conn(writer), "srv")
  /\ WriteReturns
  /\ UNCHANGED <<sock, listening, sent, got, batch, fdOf, owner, interest>>

\* The connection was reset: write() returns -1, or the number of bytes taken
\* before the reset, and then the error stays for the next call.
WriteFails ==
  /\ \/ pc = "write" /\ FailOnce(Conn(writer), "srv")
     \/ pc = "blocked" /\ err[Conn(writer)]["srv"] \in {"reset", "pipe"}
          /\ UNCHANGED <<inbox, err>>
  /\ WriteReturns
  /\ UNCHANGED <<sock, listening, sent, got, batch, fdOf, owner, interest>>

\* The connection was reset and the error has been reported: SIGPIPE, which the
\* server neither ignores nor handles, ends the process.
Sigpipe ==
  /\ pc = "write"
  /\ err[Conn(writer)]["srv"] = "pipe"
  /\ CloseServer
  /\ pc' = "killed"
  /\ batch' = {}
  /\ owner' = [f \in Fds |-> NoClient]
  /\ interest' = [f \in Fds |-> NoClient]
  /\ writer' = NoClient
  /\ wbuf' = << >>
  /\ UNCHANGED <<err, sent, got, fdOf>>

-----------------------------------------------------------------------------

ServerNext ==
  \/ Listen \/ ListenFails \/ EpollCreate \/ EpollCreateFails
  \/ EpollWait
  \/ Accept \/ AcceptFails
  \/ \E c \in Clients : ReadBytes(c) \/ ReadEof(c)
  \/ WriteSome \/ WriteSwallowed \/ WriteFails \/ Sigpipe

\* What a program at the other end of a connection may do.
PeerSend(c) == \E data \in Chunks[c] :
                 /\ Len(sent[c]) + Len(data) =< MaxSent
                 /\ ClientSend(c, data)
PeerReceive(c) == \E n \in 1..Room : ClientReceive(c, n)
PeerNext ==
  \E c \in Clients :
    \/ Connect(c) \/ ClientClose(c)
    \/ PeerSend(c) \/ ClientSendFails(c)
    \/ PeerReceive(c)

Next ==
  \/ ServerNext
  \/ PeerNext /\ UNCHANGED serverVars
  \/ Network /\ UNCHANGED serverVars

Spec == Init /\ [][Next]_vars

-----------------------------------------------------------------------------
(* Safety                                                                  *)

\* When the server dispatches an event, the record's descriptor number still
\* stands for the connection the record was made for, although numbers are
\* reused while older events of the same batch wait, and read() has something
\* to return: on a blocking socket it would otherwise hang the whole server.
BatchFresh ==
  \A c \in batch \ {Listener} :
    /\ fdOf[c] # NoFd
    /\ Conn(c) = c
    /\ Readable(c, "srv")

\* What client_read_callback holds of a connection between read() and write().
InHand(c) == IF writer = c THEN wbuf ELSE << >>

\* The bytes on their way back to a client, and those it has, are the first
\* bytes it sent: nothing is reordered, left out, repeated, or crosses over
\* from another connection, also when a connection dies half way.
Integrity(c) == IsPrefix(got[c] \o inbox[c]["cli"], sent[c])
EchoIntegrity == \A c \in Clients : Integrity(c)

\* While both ends are there, every byte that was sent is in exactly one place.
Conserved(c) ==
  sock[c]["cli"] = "open" /\ sock[c]["srv"] \in Alive =>
    sent[c] = got[c] \o inbox[c]["cli"] \o InHand(c) \o inbox[c]["srv"]
EchoConserved == \A c \in Clients : Conserved(c)

\* As long as it lives, the server closes a connection only after the client
\* has closed its end.
NeverHangsUp ==
  listening => \A c \in Clients : sock[c]["srv"] \in Closed => sock[c]["cli"] \in Closed

\* Every accepted connection has one descriptor number and is registered under
\* it, and every number in use belongs to one: none leaks, none is forgotten.
FdAccounting ==
  /\ \A f \in Fds : interest[f] = owner[f]
  /\ \A f \in Fds : owner[f] # NoClient =>
       sock[owner[f]]["srv"] = "open" /\ fdOf[owner[f]] = f
  /\ \A c \in Clients : sock[c]["srv"] = "open" =>
       fdOf[c] # NoFd /\ Conn(c) = c

\* SIGPIPE takes the server down only if some client closed its connection
\* before everything it had sent came back: a client that waits for its echo
\* never harms the others.
DiesOnlyForUnechoed ==
  pc = "killed" =>
    \E c \in Clients : sock[c]["cli"] \in Closed /\ got[c] # sent[c]

\* The server implements the echo service.
Service == INSTANCE EchoService WITH sent <- sent, got <- got
ServiceSpec == Service!Spec

-----------------------------------------------------------------------------
(* Inductive invariants                                                    *)

Unborn(c) == sock[c]["cli"] \in {"none", "connecting"}

InWrite == pc \in {"write", "blocked"}

\* What a callback relies on between two system calls: a record is in write()
\* exactly while bytes are left to write, and its connection has not been closed
\* meanwhile; an error is latched on a server's end only by a client's close();
\* a connection that is not established has no server's end yet, and none is
\* accepted before the loop.
CallInv ==
  /\ pc = "start" => ~listening /\ \A c \in Clients : sock[c]["srv"] = "none"
  /\ pc = "listen" => \A c \in Clients : sock[c]["srv"] # "open"
  /\ InWrite => writer \in Clients /\ sock[writer]["srv"] = "open" /\ wbuf # << >>
  /\ ~InWrite => writer = NoClient /\ wbuf = << >>
  /\ \A c \in Clients :
       /\ err[c]["srv"] # "none" => sock[c]["cli"] \in Closed
       /\ Unborn(c) => sock[c]["srv"] = "none"

\* An event that was reported stays true until it is handled: what was readable
\* when epoll_wait returned is still open and readable.
BatchInv ==
  \A c \in batch \ {Listener} : sock[c]["srv"] = "open" /\ Readable(c, "srv")

\* Together with the accounting of descriptor numbers this is inductive.
FdInv == TypeOK /\ FdAccounting /\ CallInv /\ BatchInv /\ NeverHangsUp

\* Nothing was exchanged on a connection that is not established, an established
\* one has a server's end, and only that end waits in the accept queue.
EstablishedInv(c) ==
  /\ Unborn(c) =>
       /\ sent[c] = << >> /\ got[c] = << >>
       /\ inbox[c]["cli"] = << >> /\ inbox[c]["srv"] = << >>
  /\ sock[c]["cli"] = "open" => sock[c]["srv"] # "none"
  /\ sock[c]["cli"] \in Closed => inbox[c]["cli"] = << >>
  /\ sock[c]["cli"] # "queued"

\* Of the bytes a client sent, those that are on their way, in the server's hand
\* or back are never more than there were, also on a dying connection.
NoMoreThanSent(c) ==
  Len(got[c]) + Len(inbox[c]["cli"]) + Len(InHand(c)) + Len(inbox[c]["srv"])
    =< Len(sent[c])

\* What holds of the bytes of one client.
Stream(c) == Integrity(c) /\ Conserved(c) /\ EstablishedInv(c) /\ NoMoreThanSent(c)

\* Relative to FdInv this is inductive.
StreamInv == DiesOnlyForUnechoed /\ \A c \in Clients : Stream(c)

-----------------------------------------------------------------------------
(* Liveness                                                                *)

\* The server's thread is scheduled, the network delivers, and the programs at
\* the other end read what they get (nothing makes them connect, send or close).
Fairness ==
  /\ WF_vars(ServerNext)
  /\ WF_vars(Network /\ UNCHANGED serverVars)
  /\ \A c \in Clients : WF_vars(PeerReceive(c) /\ UNCHANGED serverVars)

FairSpec == Spec /\ Fairness

\* With descriptor numbers left for everybody, every connection in the accept
\* queue is accepted, or the server ends.
QueuedAccepted ==
  \A c \in Clients : sock[c]["srv"] = "queued" ~> sock[c]["srv"] # "queued"

\* A connection that its client has closed is closed by the server as well, and
\* its descriptor number is given back.
ClosedReleased ==
  \A c \in Clients :
    sock[c]["cli"] \in Closed /\ sock[c]["srv"] \in Alive ~> sock[c]["srv"] \in Closed
=============================================================================
