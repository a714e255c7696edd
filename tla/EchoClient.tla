----------------------------- MODULE EchoClient -----------------------------
(***************************************************************************)
(* The echo clients (Linux-c/client.c with socket_handler.c and            *)
(* socket_util.c): every client is one thread that waits on epoll for its  *)
(* terminal and for its non-blocking socket, sends each line it is given   *)
(* without the newline, and prints what comes back.                        *)
(*                                                                         *)
(* Standard input is a terminal: a read() returns one line, or the first   *)
(* ReadMax bytes of it.  A byte is named by the client and by its place in *)
(* all that was typed there.                                               *)
(***************************************************************************)
EXTENDS Sockets, SequencesExt

CONSTANTS
  LineLengths,  \* how many bytes a line may have, with its newline
  MaxTyped,     \* bound: how many bytes are typed at each terminal
  Quitters,     \* the clients whose user may type the end-of-file character
  Mortal        \* the clients whose process may be killed

ASSUME EchoClientAssumption ==
  /\ LineLengths \subseteq Nat \ {0}
  /\ MaxTyped \in [Clients -> Nat]
  /\ Quitters \subseteq Clients
  /\ Mortal \subseteq Clients
  /\ \A c \in Clients : {c} \X (1..MaxTyped[c]) \subseteq Bytes

VARIABLES
  cpc,        \* where a client's thread is
  cbatch,     \* recv_ep_event: the events it has still to handle
  watched,    \* the records registered with its epoll instance
  wantOut,    \* whether its socket's record has EPOLLOUT in events
  writeCb,    \* the write_callback of its socket's record
  tty,        \* the lines typed at its terminal that it has not read
  typed,      \* how many bytes have been typed at its terminal
  hungUp      \* whether the user has typed the end-of-file character

clientVars == <<cpc, cbatch, watched, wantOut, writeCb, tty, typed, hungUp>>

Sources == {"socket", "stdin"}
Events == [src : Sources, mask : SUBSET {"IN", "OUT"}]

ClientTypeOK ==
  /\ cpc \in [Clients -> {"start", "loop", "gone"}]
  /\ cbatch \in [Clients -> SUBSET Events]
  /\ watched \in [Clients -> SUBSET Sources]
  /\ wantOut \in [Clients -> BOOLEAN]
  /\ writeCb \in [Clients -> {"connect", "write"}]
  /\ tty \in [Clients -> Seq(Seq(Bytes))]
  /\ typed \in [Clients -> Nat]
  /\ hungUp \in [Clients -> BOOLEAN]

ClientInit ==
  /\ cpc = [c \in Clients |-> "start"]
  /\ cbatch = [c \in Clients |-> {}]
  /\ watched = [c \in Clients |-> {}]
  /\ wantOut = [c \in Clients |-> FALSE]
  /\ writeCb = [c \in Clients |-> "connect"]
  /\ tty = [c \in Clients |-> << >>]
  /\ typed = [c \in Clients |-> 0]
  /\ hungUp = [c \in Clients |-> FALSE]

-----------------------------------------------------------------------------
(* The user.                                                               *)

TypeLine(c) ==
  /\ cpc[c] = "loop" /\ ~hungUp[c]
  /\ \E n \in LineLengths :
       /\ typed[c] + n =< MaxTyped[c]
       /\ typed' = [typed EXCEPT ![c] = @ + n]
       /\ tty' = [tty EXCEPT ![c] = Append(@, [k \in 1..n |-> <<c, typed[c] + k>>])]
  /\ UNCHANGED <<sockVars, cpc, cbatch, watched, wantOut, writeCb, hungUp>>

TypeEof(c) ==
  /\ c \in Quitters /\ cpc[c] = "loop" /\ ~hungUp[c]
  /\ hungUp' = [hungUp EXCEPT ![c] = TRUE]
  /\ UNCHANGED <<sockVars, cpc, cbatch, watched, wantOut, writeCb, tty, typed>>

\* The process ends: the kernel closes its socket.
Dies(c) ==
  /\ cpc' = [cpc EXCEPT ![c] = "gone"]
  /\ cbatch' = [cbatch EXCEPT ![c] = {}]
  /\ IF sock[c]["cli"] \in {"connecting", "open"}
       THEN ClientClose(c)
       ELSE UNCHANGED sockVars
  /\ UNCHANGED <<watched, wantOut, writeCb, tty, typed, hungUp>>

Kill(c) ==
  /\ c \in Mortal /\ cpc[c] = "loop"
  /\ Dies(c)

-----------------------------------------------------------------------------
(* main                                                                    *)

\* The socket is registered for EPOLLIN and EPOLLOUT, the terminal for EPOLLIN,
\* and connect() is under way.
Start(c) ==
  /\ cpc[c] = "start"
  /\ cpc' = [cpc EXCEPT ![c] = "loop"]
  /\ watched' = [watched EXCEPT ![c] = Sources]
  /\ wantOut' = [wantOut EXCEPT ![c] = TRUE]
  /\ Connect(c)
  /\ UNCHANGED <<cbatch, writeCb, tty, typed, hungUp>>

\* connect() is refused at once: exit(1).
StartFails(c) ==
  /\ cpc[c] = "start" /\ ~listening
  /\ cpc' = [cpc EXCEPT ![c] = "gone"]
  /\ UNCHANGED <<sockVars, cbatch, watched, wantOut, writeCb, tty, typed, hungUp>>

\* The socket takes bytes, or has an error to report.
Writable(c) ==
  \/ err[c]["cli"] \in {"reset", "pipe"}
  \/ sock[c]["cli"] = "open" /\ (sock[c]["srv"] \in Alive => Free(c, "srv") > 0)

\* The events that epoll_wait reports.
SocketMask(c) ==
  {m \in {"IN", "OUT"} : IF m = "IN" THEN Readable(c, "cli")
                                     ELSE wantOut[c] /\ Writable(c)}
TtyReadable(c) == tty[c] # << >> \/ hungUp[c]
Pending(c) ==
  {e \in Events :
     /\ e.src \in watched[c]
     /\ e.mask = IF e.src = "socket" THEN SocketMask(c)
                 ELSE IF TtyReadable(c) THEN {"IN"} ELSE {}
     /\ e.mask # {}}

Wait(c) ==
  /\ cpc[c] = "loop" /\ cbatch[c] = {}
  /\ Pending(c) # {}
  /\ cbatch' = [cbatch EXCEPT ![c] = Pending(c)]
  /\ UNCHANGED <<sockVars, cpc, watched, wantOut, writeCb, tty, typed, hungUp>>

-----------------------------------------------------------------------------
(* client_active_fd_process: EPOLLIN goes first, EPOLLOUT only without it. *)

\* Mutant: EPOLLOUT is looked at whether or not there is EPOLLIN.
WriteEventToo(c, src) == {e \in cbatch[c] : e.src = src /\ "OUT" \in e.mask}

ReadEvent(c, src) == {e \in cbatch[c] : e.src = src /\ "IN" \in e.mask}
WriteEvent(c, src) == {e \in cbatch[c] : e.src = src /\ "IN" \notin e.mask}

Handled(c, events) ==
  /\ cpc[c] = "loop"
  /\ events # {}
  /\ cbatch' = [cbatch EXCEPT ![c] = @ \ events]

\* stdin_read_callback: write() of what was read but for its last byte.  The
\* socket does not block: what does not fit is dropped, and so is everything
\* before the connection stands and after it is closed (EAGAIN, EBADF).
WriteLine(c, data) ==
  \/ /\ data = << >>
     /\ UNCHANGED sockVars
  \/ /\ data # << >> /\ sock[c]["cli"] = "open" /\ sock[c]["srv"] \in Alive
     /\ Free(c, "srv") > 0
     /\ ClientSend(c, Taken(Free(c, "srv"), data))
  \/ /\ data # << >> /\ sock[c]["cli"] = "open" /\ sock[c]["srv"] \in Alive
     /\ Free(c, "srv") = 0
     /\ UNCHANGED sockVars
  \/ /\ data # << >> /\ sock[c]["cli"] = "open" /\ sock[c]["srv"] \in Closed
     /\ ClientSend(c, data)
  \/ data # << >> /\ ClientSendFails(c)
  \/ /\ data # << >>
     /\ \/ sock[c]["cli"] = "connecting" /\ err[c]["cli"] = "none"
        \/ sock[c]["cli"] \in Closed
     /\ UNCHANGED sockVars

\* Mutant: the line is sent but not consumed.
StdinLineAgain(c) ==
  /\ Handled(c, ReadEvent(c, "stdin"))
  /\ tty[c] # << >>
  /\ WriteLine(c, Front(Taken(ReadMax, Head(tty[c]))))
  /\ UNCHANGED <<cpc, watched, wantOut, writeCb, tty, typed, hungUp>>

StdinLine(c) ==
  /\ Handled(c, ReadEvent(c, "stdin"))
  /\ tty[c] # << >>
  /\ LET line == Head(tty[c])
         rest == Rest(ReadMax, line)
     IN  /\ WriteLine(c, Front(Taken(ReadMax, line)))
         /\ tty' = [tty EXCEPT ![c] = IF rest = << >> THEN Tail(@) ELSE <<rest>> \o Tail(@)]
  /\ UNCHANGED <<cpc, watched, wantOut, writeCb, typed, hungUp>>

\* The same with the connection reset and the error reported before: SIGPIPE.
StdinSigpipe(c) ==
  /\ cpc[c] = "loop" /\ ReadEvent(c, "stdin") # {}
  /\ tty[c] # << >> /\ Len(Head(tty[c])) > 1
  /\ sock[c]["cli"] \in {"connecting", "open"} /\ err[c]["cli"] = "pipe"
  /\ Dies(c)

\* Mutant: the end of the input ends the client.
StdinEofQuits(c) ==
  /\ cpc[c] = "loop" /\ ReadEvent(c, "stdin") # {}
  /\ tty[c] = << >>
  /\ Dies(c)

\* End of file at the terminal: EPOLL_CTL_DEL and close(); the loop goes on.
StdinEof(c) ==
  /\ Handled(c, ReadEvent(c, "stdin"))
  /\ tty[c] = << >>
  /\ watched' = [watched EXCEPT ![c] = @ \ {"stdin"}]
  /\ UNCHANGED <<sockVars, cpc, wantOut, writeCb, tty, typed, hungUp>>

\* Mutant: the last byte read is cut off, as it is for the terminal.
SocketReadCuts(c) ==
  /\ Handled(c, ReadEvent(c, "socket"))
  /\ Receive(c, "cli", ReadMax)
  /\ got' = [got EXCEPT ![c] = @ \o Front(Taken(ReadMax, inbox[c]["cli"]))]
  /\ UNCHANGED <<sock, err, listening, sent, cpc, watched, wantOut, writeCb, tty, typed, hungUp>>

\* socket_read_callback: what came back is printed.
SocketRead(c) ==
  /\ Handled(c, ReadEvent(c, "socket"))
  /\ ClientReceive(c, ReadMax)
  /\ UNCHANGED <<cpc, watched, wantOut, writeCb, tty, typed, hungUp>>

\* A read() that fills read_buf makes read_buf[ret] = '\0' write past its end:
\* the process may go on as above, or be aborted.
SocketReadOverflows(c) ==
  /\ cpc[c] = "loop" /\ ReadEvent(c, "socket") # {}
  /\ Len(inbox[c]["cli"]) >= ReadMax
  /\ Dies(c)

\* Mutant: EPOLL_CTL_DEL without close().
SocketEofLeaks(c) ==
  /\ Handled(c, ReadEvent(c, "socket"))
  /\ AtEof(c, "cli")
  /\ watched' = [watched EXCEPT ![c] = @ \ {"socket"}]
  /\ UNCHANGED <<sockVars, cpc, wantOut, writeCb, tty, typed, hungUp>>

\* The server closed, or the connection failed: EPOLL_CTL_DEL and close().
SocketEof(c) ==
  /\ Handled(c, ReadEvent(c, "socket"))
  /\ AtEof(c, "cli")
  /\ ClientClose(c)
  /\ watched' = [watched EXCEPT ![c] = @ \ {"socket"}]
  /\ UNCHANGED <<cpc, wantOut, writeCb, tty, typed, hungUp>>

\* socket_connect_callback: "connect success".
ConnectCallback(c) ==
  /\ Handled(c, WriteEvent(c, "socket"))
  /\ writeCb[c] = "connect"
  /\ writeCb' = [writeCb EXCEPT ![c] = "write"]
  /\ UNCHANGED <<sockVars, cpc, watched, wantOut, tty, typed, hungUp>>

\* Mutant: the event mask is not changed.
WriteCallbackIdle(c) ==
  /\ Handled(c, WriteEvent(c, "socket"))
  /\ writeCb[c] = "write"
  /\ UNCHANGED <<sockVars, cpc, watched, wantOut, writeCb, tty, typed, hungUp>>

\* Mutant: the callback is cleared instead of the event.
WriteCallbackCleared(c) ==
  /\ Handled(c, WriteEvent(c, "socket"))
  /\ writeCb[c] = "write"
  /\ writeCb' = [writeCb EXCEPT ![c] = "NULL"]
  /\ UNCHANGED <<sockVars, cpc, watched, wantOut, tty, typed, hungUp>>

\* socket_write_callback: no more interest in EPOLLOUT.
WriteCallback(c) ==
  /\ Handled(c, WriteEvent(c, "socket"))
  /\ writeCb[c] = "write"
  /\ wantOut' = [wantOut EXCEPT ![c] = FALSE]
  /\ UNCHANGED <<sockVars, cpc, watched, writeCb, tty, typed, hungUp>>

-----------------------------------------------------------------------------

ClientStep(c) ==
  \/ Start(c) \/ StartFails(c) \/ Wait(c)
  \/ StdinLine(c) \/ StdinSigpipe(c) \/ StdinEof(c)
  \/ SocketRead(c) \/ SocketReadOverflows(c) \/ SocketEof(c)
  \/ ConnectCallback(c) \/ WriteCallback(c)

UserStep(c) == TypeLine(c) \/ TypeEof(c) \/ Kill(c)
=============================================================================
