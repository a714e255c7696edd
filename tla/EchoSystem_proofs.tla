------------------------- MODULE EchoSystem_proofs -------------------------
(***************************************************************************)
(* Proofs about the echo server with whatever programs are at the other    *)
(* ends (FdInv, StreamInv, and that it implements EchoService), and then   *)
(* about the server and its clients together: every step of the system is  *)
(* one that EchoServer allows for, so that what was proved of the server   *)
(* holds of it with these clients, and what the clients rely on.           *)
(*                                                                         *)
(* SystemInv is inductive: the invariants of the server say what a client  *)
(* finds at the other end of its connection, and the invariant of the      *)
(* clients says that what they send is what EchoServer lets them send.     *)
(***************************************************************************)
EXTENDS EchoSystem, SequenceTheorems, TLAPS

-----------------------------------------------------------------------------
(* Facts about byte sequences, and what the calls of Sockets do to the     *)
(* types.                                                                  *)

\* What a read of up to n bytes takes and what it leaves make up the buffer.
LEMMA TakenAndRest ==
  ASSUME NEW S, NEW q \in Seq(S), NEW n \in Nat
  PROVE  /\ Taken(n, q) \in Seq(S)
         /\ Rest(n, q) \in Seq(S)
         /\ Len(Taken(n, q)) = AtMost(n, q)
         /\ Taken(n, q) \o Rest(n, q) = q
<1>1. AtMost(n, q) \in 0..Len(q)
  BY LenProperties DEF AtMost
<1>2. \A k \in 1..Len(q) : q[k] \in S
  BY ElementOfSeq
<1>3. Taken(n, q) \in Seq(S) /\ Len(Taken(n, q)) = AtMost(n, q)
  BY <1>1, <1>2, LenProperties, SubSeqProperties DEF Taken
<1>4. Rest(n, q) \in Seq(S)
  BY <1>1, <1>2, LenProperties, SubSeqProperties DEF Rest
<1>5. Taken(n, q) \o Rest(n, q) = SubSeq(q, 1, Len(q))
  <2>1. /\ 1 \in 1..(Len(q) + 1)
        /\ AtMost(n, q) \in (1 - 1)..Len(q)
        /\ Len(q) \in AtMost(n, q)..Len(q)
    BY <1>1, LenProperties
  <2> QED
    BY <2>1, ConcatAdjacentSubSeq DEF Taken, Rest
<1> QED
  BY <1>3, <1>4, <1>5, SubSeqFull

\* A sequence is a prefix of each of its extensions.
LEMMA PrefixOfConcat ==
  ASSUME NEW S, NEW s \in Seq(S), NEW t \in Seq(S)
  PROVE  IsPrefix(s, s \o t)
<1>1. /\ s \o t \in Seq(S)
      /\ Len(s \o t) = Len(s) + Len(t)
      /\ \A k \in 1..Len(s) : (s \o t)[k] = s[k]
  BY ConcatProperties, LenProperties
<1>2. Len(s) \in Nat /\ Len(t) \in Nat
  BY LenProperties
<1>3. SubSeq(s \o t, 1, Len(s)) = SubSeq(s, 1, Len(s))
  BY <1>1, <1>2
<1> QED
  BY <1>1, <1>2, <1>3 DEF IsPrefix

\* What is a prefix stays one when the longer sequence grows.
LEMMA PrefixTransitive ==
  ASSUME NEW S, NEW s \in Seq(S), NEW t \in Seq(S), NEW u \in Seq(S),
         IsPrefix(s, t), IsPrefix(t, u)
  PROVE  IsPrefix(s, u)
<1>1. Len(s) \in Nat /\ Len(t) \in Nat /\ Len(u) \in Nat
  BY LenProperties
<1>2. Len(s) =< Len(t) /\ Len(t) =< Len(u)
  BY DEF IsPrefix
<1>3. \A k \in 1..Len(s) : s[k] = t[k]
  BY <1>1, <1>2 DEF IsPrefix
<1>4. \A k \in 1..Len(t) : t[k] = u[k]
  BY <1>1, <1>2 DEF IsPrefix
<1>5. \A k \in 1..Len(s) : s[k] = u[k]
  BY <1>1, <1>2, <1>3, <1>4
<1>6. SubSeq(s, 1, Len(s)) = SubSeq(u, 1, Len(s))
  BY <1>1, <1>2, <1>5
<1> QED
  BY <1>1, <1>2, <1>6 DEF IsPrefix

-----------------------------------------------------------------------------
(* Typing of the calls.                                                    *)

LEMMA PeerSide == \A s \in Sides : Peer(s) \in Sides
  BY DEF Sides, Peer

\* Replacing what one end holds.
LEMMA EndUpdate ==
  ASSUME NEW S, NEW f \in EachEnd(S), NEW c \in Clients, NEW s \in Sides, NEW x \in S
  PROVE  [f EXCEPT ![c][s] = x] \in EachEnd(S)
  BY DEF EachEnd

LEMMA ReceiveTyping ==
  ASSUME SocketsTypeOK, NEW c \in Clients, NEW s \in Sides, NEW n \in Nat,
         Receive(c, s, n)
  PROVE  inbox' \in EachEnd(Seq(Bytes))
<1>1. Rest(n, inbox[c][s]) \in Seq(Bytes)
  BY PeerSide, TakenAndRest DEF SocketsTypeOK, EachEnd
<1> QED
  BY <1>1, PeerSide, EndUpdate DEF SocketsTypeOK, Receive, EachEnd

LEMMA DeliverTyping ==
  ASSUME SocketsTypeOK, NEW c \in Clients, NEW s \in Sides,
         NEW data \in Seq(Bytes), Deliver(c, s, data)
  PROVE  inbox' \in EachEnd(Seq(Bytes)) /\ err' = err
<1>1. inbox[c][Peer(s)] \o data \in Seq(Bytes)
  BY PeerSide, ConcatProperties DEF SocketsTypeOK, EachEnd
<1> QED
  BY <1>1, PeerSide, EndUpdate DEF SocketsTypeOK, Deliver, EachEnd

LEMMA SwallowTyping ==
  ASSUME SocketsTypeOK, NEW c \in Clients, NEW s \in Sides, Swallow(c, s)
  PROVE  err' \in EachEnd(Errors) /\ inbox' = inbox
  BY PeerSide DEF SocketsTypeOK, Swallow, EachEnd, Errors

LEMMA FailOnceTyping ==
  ASSUME SocketsTypeOK, NEW c \in Clients, NEW s \in Sides, FailOnce(c, s)
  PROVE  err' \in EachEnd(Errors) /\ inbox' = inbox
  BY PeerSide DEF SocketsTypeOK, FailOnce, EachEnd, Errors

LEMMA CloseTyping ==
  ASSUME SocketsTypeOK, NEW c \in Clients, NEW s \in Sides, Close(c, s)
  PROVE  /\ sock' \in EachEnd(SockStates)
         /\ inbox' \in EachEnd(Seq(Bytes))
<1>1. Closing(c, s) \in Closed /\ << >> \in Seq(Bytes)
  BY DEF Closing, Closed
<1> QED
  BY <1>1, PeerSide, EndUpdate DEF SocketsTypeOK, Close, EachEnd, SockStates

LEMMA CloseServerTyping ==
  ASSUME SocketsTypeOK, CloseServer
  PROVE  /\ sock' \in EachEnd(SockStates)
         /\ inbox' \in EachEnd(Seq(Bytes))
         /\ listening' \in BOOLEAN
<1>1. << >> \in Seq(Bytes)
  OBVIOUS
<1>2. \A c \in Clients : Closing(c, "srv") \in Closed
  BY DEF Closing, Closed
<1>3. sock' \in EachEnd(SockStates)
  BY <1>2 DEF SocketsTypeOK, CloseServer, EachEnd, SockStates, Closed, Sides
<1> QED
  BY <1>1, <1>3 DEF SocketsTypeOK, CloseServer, EachEnd

\* Whatever a client process calls keeps the types.
LEMMA ClientCallTyping ==
  ASSUME SocketsTypeOK, NEW c \in Clients,
         \/ Connect(c) \/ ClientClose(c) \/ ClientSendFails(c)
         \/ \E data \in Seq(Bytes) : ClientSend(c, data)
         \/ \E n \in Nat : ClientReceive(c, n)
  PROVE  SocketsTypeOK'
<1> "cli" \in Sides
  BY DEF Sides
<1>1. CASE Connect(c)
  BY <1>1, PeerSide, EndUpdate DEF Connect, SocketsTypeOK, EachEnd, SockStates
<1>2. CASE ClientClose(c)
  BY <1>2, CloseTyping DEF ClientClose, SocketsTypeOK, EachEnd
<1>3. CASE ClientSendFails(c)
  BY <1>3, FailOnceTyping DEF ClientSendFails, SocketsTypeOK, EachEnd
<1>4. ASSUME NEW data \in Seq(Bytes), ClientSend(c, data)
      PROVE  SocketsTypeOK'
  <2>1. sent[c] \o data \in Seq(Bytes)
    BY ConcatProperties DEF SocketsTypeOK, EachEnd
  <2>2. sent' \in [Clients -> Seq(Bytes)]
    BY <1>4, <2>1 DEF ClientSend, SocketsTypeOK, EachEnd
  <2>3. inbox' \in EachEnd(Seq(Bytes)) /\ err' \in EachEnd(Errors)
    BY <1>4, DeliverTyping, SwallowTyping DEF ClientSend, SocketsTypeOK, EachEnd
  <2> QED
    BY <1>4, <2>2, <2>3 DEF ClientSend, SocketsTypeOK, EachEnd
<1>5. ASSUME NEW n \in Nat, ClientReceive(c, n)
      PROVE  SocketsTypeOK'
  <2>1. inbox[c]["cli"] \in Seq(Bytes)
    BY PeerSide DEF SocketsTypeOK, EachEnd
  <2>2. got[c] \o Taken(n, inbox[c]["cli"]) \in Seq(Bytes)
    BY <2>1, TakenAndRest, ConcatProperties DEF SocketsTypeOK, EachEnd
  <2>3. got' \in [Clients -> Seq(Bytes)]
    BY <1>5, <2>2 DEF ClientReceive, SocketsTypeOK, EachEnd
  <2> QED
    BY <1>5, <2>3, ReceiveTyping DEF ClientReceive, SocketsTypeOK, EachEnd
<1> QED
  BY <1>1, <1>2, <1>3, <1>4, <1>5

\* So does the network.
LEMMA NetworkTyping ==
  ASSUME SocketsTypeOK, Network
  PROVE  SocketsTypeOK'
<1> PICK c \in Clients :
      \/ Establish(c)
      \/ Refuse(c)
      \/ \E s \in Sides : LearnAbort(c, s) \/ LearnProvoked(c, s)
  BY DEF Network
<1> "cli" \in Sides /\ "srv" \in Sides
  BY DEF Sides
<1>1. CASE Establish(c)
  BY <1>1, PeerSide, EndUpdate DEF Establish, SocketsTypeOK, EachEnd, SockStates, Alive
<1>2. CASE Refuse(c)
  BY <1>2, PeerSide, EndUpdate DEF Refuse, SocketsTypeOK, EachEnd, Errors
<1>3. ASSUME NEW s \in Sides, LearnAbort(c, s)
      PROVE  SocketsTypeOK'
  <2>1. PICK n \in 0..Len(inbox[c][s]) :
          inbox' = [inbox EXCEPT ![c][s] = SubSeq(@, 1, n)]
    BY <1>3 DEF LearnAbort
  <2>2. inbox[c][s] \in Seq(Bytes)
    BY PeerSide DEF SocketsTypeOK, EachEnd
  <2>3. SubSeq(inbox[c][s], 1, n) \in Seq(Bytes)
    BY <2>2, LenProperties, SubSeqProperties, ElementOfSeq
  <2>4. inbox' \in EachEnd(Seq(Bytes))
    BY <2>1, <2>3, PeerSide, EndUpdate DEF SocketsTypeOK, EachEnd
  <2> QED
    BY <1>3, <2>4, PeerSide, EndUpdate DEF LearnAbort, SocketsTypeOK, EachEnd, Errors
<1>4. ASSUME NEW s \in Sides, LearnProvoked(c, s)
      PROVE  SocketsTypeOK'
  BY <1>4, PeerSide, EndUpdate DEF LearnProvoked, SocketsTypeOK, EachEnd, Errors
<1> QED
  BY <1>1, <1>2, <1>3, <1>4

-----------------------------------------------------------------------------
(* What the clients and the network leave alone.                           *)

\* On d's connection the server's end stays what it is, except that it enters
\* the accept queue when the connection is established; an event stays true, and
\* an error only comes from a client that has closed, for good.
Kept(d) ==
  /\ \/ sock'[d]["srv"] = sock[d]["srv"]
     \/ listening /\ Unborn(d) /\ sock'[d]["srv"] = "queued" /\ sock'[d]["cli"] = "open"
  /\ Unborn(d)' => Unborn(d)
  /\ sock[d]["cli"] \in Closed => sock'[d]["cli"] = sock[d]["cli"]
  /\ err'[d]["srv"] # "none" => err[d]["srv"] # "none" \/ sock[d]["cli"] \in Closed
  /\ Readable(d, "srv") => Readable(d, "srv")'

LEMMA Sided == "cli" \in Sides /\ "srv" \in Sides /\ Peer("cli") = "srv" /\ Peer("srv") = "cli"
  BY DEF Sides, Peer

\* A peer that writes adds to what there is to read.
LEMMA DeliverKeepsReadable ==
  ASSUME SocketsTypeOK, NEW c \in Clients, NEW data \in Seq(Bytes),
         Deliver(c, "cli", data), UNCHANGED sock, NEW d \in Clients,
         Readable(d, "srv")
  PROVE  Readable(d, "srv")'
<1>1. inbox[d]["srv"] \in Seq(Bytes)
  BY Sided DEF SocketsTypeOK, EachEnd
<1>2. CASE d = c
  <2>1. inbox'[d]["srv"] = inbox[d]["srv"] \o data
    BY <1>2, Sided DEF SocketsTypeOK, EachEnd, Deliver
  <2>2. inbox[d]["srv"] # << >> => inbox'[d]["srv"] # << >>
    BY <1>1, <2>1, ConcatEqualIffEmpty
  <2> QED
    BY <2>2 DEF Readable, AtEof, Deliver
<1>3. CASE d # c
  <2>1. inbox'[d]["srv"] = inbox[d]["srv"]
    BY <1>3 DEF SocketsTypeOK, EachEnd, Deliver
  <2> QED
    BY <2>1 DEF Readable, AtEof, Deliver
<1> QED
  BY <1>2, <1>3

LEMMA PeerKeeps ==
  ASSUME SocketsTypeOK, PeerNext
  PROVE  /\ SocketsTypeOK'
         /\ listening' = listening
         /\ \A d \in Clients : Kept(d)
<1> USE Sided
<1> PICK c \in Clients :
      \/ Connect(c) \/ ClientClose(c)
      \/ PeerSend(c) \/ ClientSendFails(c)
      \/ PeerReceive(c)
  BY DEF PeerNext
<1>1. CASE Connect(c)
  <2>1. SocketsTypeOK'
    BY <1>1, ClientCallTyping
  <2> QED
    BY <1>1, <2>1 DEF Connect, SocketsTypeOK, EachEnd, Kept, Unborn, Readable, AtEof, Closed
<1>2. CASE ClientClose(c)
  <2>1. SocketsTypeOK'
    BY <1>2, ClientCallTyping
  <2>2. sock'[c]["cli"] \in Closed /\ sock[c]["cli"] \notin Closed
    BY <1>2 DEF ClientClose, Close, Closing, SocketsTypeOK, EachEnd, Closed
  <2>3. ASSUME NEW d \in Clients PROVE Kept(d)
    <3>1. inbox'[d]["srv"] = inbox[d]["srv"] /\ sock'[d]["srv"] = sock[d]["srv"] /\ err' = err
      BY <1>2 DEF ClientClose, Close, SocketsTypeOK, EachEnd
    <3>2. d # c => sock'[d] = sock[d]
      BY <1>2 DEF ClientClose, Close, SocketsTypeOK, EachEnd
    <3> QED
      BY <2>2, <3>1, <3>2 DEF Kept, Unborn, Readable, AtEof, Closed
  <2> QED
    BY <1>2, <2>1, <2>3 DEF ClientClose
<1>3. CASE PeerSend(c)
  <2>1. PICK data \in Seq(Bytes) : ClientSend(c, data)
    BY <1>3, EchoServerAssumption DEF PeerSend
  <2>2. SocketsTypeOK'
    BY <2>1, ClientCallTyping
  <2>3. UNCHANGED <<sock, listening>>
    BY <2>1 DEF ClientSend
  <2>4. \A d \in Clients : err'[d]["srv"] = err[d]["srv"]
    <3>1. CASE Deliver(c, "cli", data)
      BY <3>1 DEF Deliver
    <3>2. CASE Swallow(c, "cli")
      BY <3>2 DEF Swallow, SocketsTypeOK, EachEnd
    <3> QED
      BY <2>1, <3>1, <3>2 DEF ClientSend
  <2>5. ASSUME NEW d \in Clients, Readable(d, "srv") PROVE Readable(d, "srv")'
    <3>1. CASE Deliver(c, "cli", data)
      BY <2>3, <2>5, <3>1, DeliverKeepsReadable
    <3>2. CASE Swallow(c, "cli")
      BY <2>3, <2>4, <2>5, <3>2 DEF Swallow, Readable, AtEof
    <3> QED
      BY <2>1, <3>1, <3>2 DEF ClientSend
  <2> QED
    BY <2>2, <2>3, <2>4, <2>5 DEF Kept, Unborn
<1>4. CASE ClientSendFails(c)
  <2>1. SocketsTypeOK'
    BY <1>4, ClientCallTyping
  <2> QED
    BY <1>4, <2>1 DEF ClientSendFails, FailOnce, SocketsTypeOK, EachEnd, Kept, Unborn, Readable, AtEof
<1>5. CASE PeerReceive(c)
  <2>1. PICK n \in Nat : ClientReceive(c, n)
    BY <1>5, SocketsAssumption DEF PeerReceive
  <2>2. SocketsTypeOK'
    BY <2>1, ClientCallTyping
  <2> QED
    BY <2>1, <2>2 DEF ClientReceive, Receive, SocketsTypeOK, EachEnd, Kept, Unborn, Readable, AtEof
<1> QED
  BY <1>1, <1>2, <1>3, <1>4, <1>5

LEMMA NetworkKeeps ==
  ASSUME SocketsTypeOK, Network
  PROVE  /\ SocketsTypeOK'
         /\ listening' = listening
         /\ \A d \in Clients : Kept(d)
<1> USE Sided
<1>0. SocketsTypeOK'
  BY NetworkTyping
<1> PICK c \in Clients :
      \/ Establish(c)
      \/ Refuse(c)
      \/ \E s \in Sides : LearnAbort(c, s) \/ LearnProvoked(c, s)
  BY DEF Network
<1>1. CASE Establish(c)
  BY <1>0, <1>1 DEF Establish, Unborn, SocketsTypeOK, EachEnd, Kept, Unborn, Readable, AtEof, Closed
<1>2. CASE Refuse(c)
  BY <1>0, <1>2 DEF Refuse, SocketsTypeOK, EachEnd, Kept, Unborn, Readable, AtEof
<1>3. ASSUME NEW s \in Sides, LearnAbort(c, s)
      PROVE  listening' = listening /\ \A d \in Clients : Kept(d)
  <2>1. CASE s = "cli"
    BY <1>3, <2>1 DEF LearnAbort, SocketsTypeOK, EachEnd, Kept, Unborn, Readable, AtEof, Closed
  <2>2. CASE s = "srv"
    BY <1>3, <2>2, ZenonT(60) DEF LearnAbort, SocketsTypeOK, EachEnd, Kept, Unborn, Readable, AtEof, Closed
  <2> QED
    BY <2>1, <2>2 DEF Sides
<1>4. ASSUME NEW s \in Sides, LearnProvoked(c, s)
      PROVE  listening' = listening /\ \A d \in Clients : Kept(d)
  BY <1>4 DEF LearnProvoked, SocketsTypeOK, EachEnd, Kept, Unborn, Readable, AtEof, Sides
<1> QED
  BY <1>0, <1>1, <1>2, <1>3, <1>4

-----------------------------------------------------------------------------
(* What holds of the record whose callback runs.                           *)

LEMMA BatchConn ==
  ASSUME FdInv, NEW c \in Clients, c \in batch
  PROVE  /\ fdOf[c] \in Fds /\ Conn(c) = c
         /\ owner[fdOf[c]] = c /\ interest[fdOf[c]] = c
         /\ sock[c]["srv"] = "open" /\ Readable(c, "srv")
<1>1. c # Listener
  BY NamesAssumption
<1>2. sock[c]["srv"] = "open" /\ Readable(c, "srv")
  BY <1>1 DEF FdInv, BatchInv
<1>3. fdOf[c] # NoFd /\ Conn(c) = c
  BY <1>2 DEF FdInv, FdAccounting
<1> QED
  BY <1>2, <1>3 DEF FdInv, FdAccounting, TypeOK, Conn

LEMMA WriterConn ==
  ASSUME FdInv, InWrite
  PROVE  /\ writer \in Clients /\ Conn(writer) = writer
         /\ sock[writer]["srv"] = "open"
         /\ wbuf # << >>
  BY DEF FdInv, CallInv, FdAccounting

-----------------------------------------------------------------------------
(* The steps of the peers and of the network.                              *)

LEMMA EnvironmentStep ==
  ASSUME FdInv, PeerNext \/ Network, UNCHANGED serverVars
  PROVE  FdInv'
<1>1. SocketsTypeOK' /\ listening' = listening /\ \A d \in Clients : Kept(d)
  BY PeerKeeps, NetworkKeeps DEF FdInv, TypeOK
<1>2. TypeOK'
  BY <1>1 DEF FdInv, TypeOK, serverVars
<1>3. FdAccounting'
  <2>1. \A d \in Clients : sock'[d]["srv"] = "open" <=> sock[d]["srv"] = "open"
    BY <1>1 DEF FdInv, CallInv, Kept
  <2>2. \A f \in Fds : owner[f] # NoClient => owner[f] \in Clients
    BY DEF FdInv, TypeOK
  <2> QED
    BY <2>1, <2>2 DEF FdInv, FdAccounting, Conn, serverVars
<1>4. CallInv'
  BY <1>1 DEF FdInv, CallInv, InWrite, Kept, Unborn, serverVars, Closed
<1>5. BatchInv'
  <2>1. \A d \in batch \ {Listener} : d \in Clients
    BY DEF FdInv, TypeOK
  <2> QED
    BY <1>1, <2>1 DEF FdInv, CallInv, BatchInv, Kept, serverVars
<1>6. NeverHangsUp'
  BY <1>1 DEF FdInv, NeverHangsUp, Kept, Closed
<1> QED
  BY <1>2, <1>3, <1>4, <1>5, <1>6 DEF FdInv

-----------------------------------------------------------------------------
(* The steps of the server's thread.                                       *)

LEMMA StartStep ==
  ASSUME FdInv, Listen \/ ListenFails \/ EpollCreate
  PROVE  FdInv'
<1> USE DEF Listen, ListenFails, EpollCreate, sockVars
<1>1. TypeOK'
  BY DEF FdInv, TypeOK, SocketsTypeOK
<1>2. FdAccounting'
  BY DEF FdInv, FdAccounting, Conn
<1>3. CallInv'
  BY DEF FdInv, CallInv, InWrite, Unborn
<1>4. BatchInv'
  BY DEF FdInv, BatchInv, Readable, AtEof
<1>5. NeverHangsUp'
  BY DEF FdInv, CallInv, NeverHangsUp, Closed
<1> QED
  BY <1>1, <1>2, <1>3, <1>4, <1>5 DEF FdInv

LEMMA EpollWaitStep ==
  ASSUME FdInv, EpollWait
  PROVE  FdInv'
<1>1. batch' \subseteq Ready /\ UNCHANGED <<sockVars, pc, fdOf, owner, interest, writer, wbuf>>
  BY DEF EpollWait
<1>2. ASSUME NEW r \in Ready, r # Listener
      PROVE  r \in Clients /\ sock[r]["srv"] = "open" /\ Readable(r, "srv")
  <2>1. PICK f \in Fds : r = interest[f] /\ owner[f] # NoClient /\ Readable(owner[f], "srv")
    BY <1>2 DEF Ready
  <2>2. interest[f] = owner[f] /\ owner[f] \in Clients /\ sock[owner[f]]["srv"] = "open"
    BY <2>1 DEF FdInv, FdAccounting, TypeOK
  <2> QED
    BY <2>1, <2>2
<1>3. TypeOK'
  BY <1>1, <1>2 DEF FdInv, TypeOK, SocketsTypeOK, sockVars
<1>4. FdAccounting'
  BY <1>1 DEF FdInv, FdAccounting, Conn, sockVars
<1>5. CallInv'
  BY <1>1 DEF FdInv, CallInv, InWrite, Unborn, sockVars
<1>6. BatchInv'
  BY <1>1, <1>2 DEF BatchInv, Readable, AtEof, sockVars
<1>7. NeverHangsUp'
  BY <1>1 DEF FdInv, NeverHangsUp, sockVars
<1> QED
  BY <1>3, <1>4, <1>5, <1>6, <1>7 DEF FdInv

LEMMA AcceptFailsStep ==
  ASSUME FdInv, AcceptFails
  PROVE  FdInv'
<1>1. TypeOK'
  BY DEF FdInv, TypeOK, SocketsTypeOK, AcceptFails, sockVars
<1>2. FdAccounting'
  BY DEF FdInv, FdAccounting, Conn, AcceptFails, sockVars
<1>3. CallInv'
  BY DEF FdInv, CallInv, InWrite, Unborn, AcceptFails, sockVars
<1>4. BatchInv'
  BY DEF FdInv, BatchInv, Readable, AtEof, AcceptFails, sockVars
<1>5. NeverHangsUp'
  BY DEF FdInv, NeverHangsUp, AcceptFails, sockVars
<1> QED
  BY <1>1, <1>2, <1>3, <1>4, <1>5 DEF FdInv

LEMMA AcceptStep ==
  ASSUME FdInv, Accept
  PROVE  FdInv'
<1> USE Sided
<1> PICK c \in Queued, f \in FreeFds :
      /\ sock' = [sock EXCEPT ![c]["srv"] = "open"]
      /\ owner' = [owner EXCEPT ![f] = c]
      /\ fdOf' = [fdOf EXCEPT ![c] = f]
      /\ interest' = [interest EXCEPT ![f] = c]
  BY DEF Accept
<1>1. c \in Clients /\ sock[c]["srv"] = "queued"
  BY DEF Queued
<1>2. f \in Fds /\ owner[f] = NoClient
  BY DEF FreeFds
<1>3. UNCHANGED <<inbox, err, listening, sent, got, pc, writer, wbuf>>
  BY DEF Accept
<1>4. batch' = batch \ {Listener} /\ pc = "loop"
  BY DEF Accept
<1>5. /\ \A d \in Clients : sock'[d]["cli"] = sock[d]["cli"]
      /\ \A d \in Clients \ {c} : sock'[d]["srv"] = sock[d]["srv"]
      /\ sock'[c]["srv"] = "open"
  BY <1>1 DEF FdInv, TypeOK, SocketsTypeOK, EachEnd
<1>6. TypeOK'
  <2>1. sock' \in EachEnd(SockStates)
    BY <1>1, EndUpdate DEF FdInv, TypeOK, SocketsTypeOK, SockStates, Alive
  <2> QED
    BY <1>1, <1>2, <1>3, <1>4, <2>1 DEF FdInv, TypeOK, SocketsTypeOK
<1>7. FdAccounting'
  <2>1. \A g \in Fds : interest'[g] = owner'[g]
    BY <1>2 DEF FdInv, FdAccounting, TypeOK
  <2>2. ASSUME NEW g \in Fds, owner'[g] # NoClient
        PROVE  sock'[owner'[g]]["srv"] = "open" /\ fdOf'[owner'[g]] = g
    <3>1. CASE g = f
      BY <1>1, <1>2, <1>5, <3>1 DEF FdInv, TypeOK
    <3>2. CASE g # f
      <4>1. owner'[g] = owner[g] /\ owner[g] \in Clients
        BY <2>2, <3>2 DEF FdInv, TypeOK
      <4>2. sock[owner[g]]["srv"] = "open" /\ fdOf[owner[g]] = g
        BY <2>2, <4>1 DEF FdInv, FdAccounting
      <4> QED
        BY <1>1, <1>5, <4>1, <4>2 DEF FdInv, TypeOK
    <3> QED
      BY <3>1, <3>2
  <2>3. ASSUME NEW d \in Clients, sock'[d]["srv"] = "open"
        PROVE  fdOf'[d] # NoFd /\ owner'[fdOf'[d]] = d
    <3>1. CASE d = c
      <4>1. fdOf'[d] = f /\ owner'[f] = d
        BY <1>1, <1>2, <3>1 DEF FdInv, TypeOK
      <4> QED
        BY <1>2, <4>1, EchoServerAssumption DEF NoFd
    <3>2. CASE d # c
      <4>1. fdOf'[d] = fdOf[d] /\ fdOf[d] # NoFd /\ owner[fdOf[d]] = d
        BY <1>5, <2>3, <3>2 DEF FdInv, FdAccounting, Conn, TypeOK
      <4>2. fdOf[d] # f
        BY <1>2, <4>1, NamesAssumption
      <4>3. owner'[fdOf[d]] = d
        BY <4>1, <4>2 DEF FdInv, TypeOK
      <4> QED
        BY <4>1, <4>3
    <3> QED
      BY <3>1, <3>2
  <2> QED
    BY <2>1, <2>2, <2>3 DEF FdAccounting, Conn
<1>8. CallInv'
  BY <1>1, <1>3, <1>4, <1>5 DEF FdInv, CallInv, InWrite, Unborn
<1>9. BatchInv'
  <2>1. \A d \in batch' \ {Listener} : d \in Clients /\ d \in batch \ {Listener}
    BY <1>4 DEF FdInv, TypeOK
  <2> QED
    BY <1>3, <1>5, <2>1 DEF FdInv, BatchInv, Readable, AtEof
<1>10. NeverHangsUp'
  BY <1>3, <1>5 DEF FdInv, NeverHangsUp, Closed
<1> QED
  BY <1>6, <1>7, <1>8, <1>9, <1>10 DEF FdInv

LEMMA ReadBytesStep ==
  ASSUME FdInv, NEW c \in Clients, ReadBytes(c)
  PROVE  FdInv'
<1> USE Sided
<1>1. pc = "loop" /\ c \in batch /\ Conn(c) = c /\ sock[c]["srv"] = "open"
  BY BatchConn DEF ReadBytes
<1>2. Receive(c, "srv", ReadMax) /\ wbuf' = Taken(ReadMax, inbox[c]["srv"])
  BY <1>1 DEF ReadBytes
<1>3. /\ UNCHANGED <<sock, err, listening, sent, got, fdOf, owner, interest>>
      /\ writer' = c /\ pc' = "write" /\ batch' = batch \ {c}
  BY DEF ReadBytes
<1>4. inbox[c]["srv"] \in Seq(Bytes) /\ inbox[c]["srv"] # << >>
  BY <1>2 DEF FdInv, TypeOK, SocketsTypeOK, EachEnd, Receive
<1>5. wbuf' \in Seq(Bytes) /\ wbuf' # << >>
  <2>1. ReadMax \in Nat /\ ReadMax > 0
    BY SocketsAssumption
  <2>2. Len(inbox[c]["srv"]) > 0
    BY <1>4, EmptySeq, LenProperties
  <2>3. wbuf' \in Seq(Bytes) /\ Len(wbuf') > 0
    BY <1>2, <1>4, <2>1, <2>2, TakenAndRest DEF AtMost
  <2> QED
    BY <2>3, EmptySeq
<1>6. inbox' \in EachEnd(Seq(Bytes))
  BY <1>2, SocketsAssumption, ReceiveTyping DEF FdInv, TypeOK
<1>7. \A d \in Clients \ {c} : inbox'[d]["srv"] = inbox[d]["srv"]
  BY <1>2 DEF Receive, FdInv, TypeOK, SocketsTypeOK, EachEnd
<1>8. TypeOK'
  BY <1>3, <1>5, <1>6 DEF FdInv, TypeOK, SocketsTypeOK
<1>9. FdAccounting'
  BY <1>3 DEF FdInv, FdAccounting, Conn
<1>10. CallInv'
  BY <1>1, <1>3, <1>5 DEF FdInv, CallInv, InWrite, Unborn
<1>11. BatchInv'
  <2>1. \A d \in batch' \ {Listener} : d \in Clients \ {c} /\ d \in batch \ {Listener}
    BY <1>3 DEF FdInv, TypeOK
  <2> QED
    BY <1>3, <1>7, <2>1 DEF FdInv, BatchInv, Readable, AtEof
<1>12. NeverHangsUp'
  BY <1>3 DEF FdInv, NeverHangsUp
<1> QED
  BY <1>8, <1>9, <1>10, <1>11, <1>12 DEF FdInv

LEMMA ReadEofStep ==
  ASSUME FdInv, NEW c \in Clients, ReadEof(c)
  PROVE  FdInv'
<1> USE Sided
<1>1. /\ pc = "loop" /\ c \in batch /\ Conn(c) = c /\ sock[c]["srv"] = "open"
      /\ fdOf[c] \in Fds /\ owner[fdOf[c]] = c
  BY BatchConn DEF ReadEof
<1>2. AtEof(c, "srv") /\ Close(c, "srv")
  BY <1>1 DEF ReadEof
<1>3. /\ UNCHANGED <<err, listening, sent, got, pc, fdOf, writer, wbuf>>
      /\ batch' = batch \ {c}
      /\ interest' = [interest EXCEPT ![fdOf[c]] = NoClient]
      /\ owner' = [owner EXCEPT ![fdOf[c]] = NoClient]
  BY DEF ReadEof
<1>4. sock[c]["cli"] \in Closed
  BY <1>2 DEF AtEof, FdInv, CallInv, Closed
<1>5. /\ sock' \in EachEnd(SockStates) /\ inbox' \in EachEnd(Seq(Bytes))
      /\ sock'[c]["srv"] \in Closed
      /\ \A d \in Clients : sock'[d]["cli"] = sock[d]["cli"]
      /\ \A d \in Clients \ {c} : sock'[d] = sock[d] /\ inbox'[d] = inbox[d]
  BY <1>2, CloseTyping DEF Close, Closing, FdInv, TypeOK, SocketsTypeOK, EachEnd, Closed
<1>6. sock'[c]["srv"] # "open" /\ sock'[c]["srv"] # "none"
  BY <1>5 DEF Closed
<1>7. TypeOK'
  BY <1>1, <1>3, <1>5 DEF FdInv, TypeOK, SocketsTypeOK
<1>8. FdAccounting'
  <2>1. \A g \in Fds : interest'[g] = owner'[g]
    BY <1>3 DEF FdInv, FdAccounting, TypeOK
  <2>2. ASSUME NEW g \in Fds, owner'[g] # NoClient
        PROVE  sock'[owner'[g]]["srv"] = "open" /\ fdOf'[owner'[g]] = g
    <3>1. g # fdOf[c] /\ owner'[g] = owner[g] /\ owner[g] \in Clients
      BY <1>3, <2>2 DEF FdInv, TypeOK
    <3>2. sock[owner[g]]["srv"] = "open" /\ fdOf[owner[g]] = g
      BY <2>2, <3>1 DEF FdInv, FdAccounting
    <3>3. owner[g] # c
      BY <3>1, <3>2
    <3> QED
      BY <1>3, <1>5, <3>1, <3>2, <3>3
  <2>3. ASSUME NEW d \in Clients, sock'[d]["srv"] = "open"
        PROVE  fdOf'[d] # NoFd /\ owner'[fdOf'[d]] = d
    <3>1. d # c /\ sock[d]["srv"] = "open"
      BY <1>5, <1>6, <2>3
    <3>2. fdOf[d] # NoFd /\ owner[fdOf[d]] = d /\ fdOf[d] \in Fds
      BY <3>1 DEF FdInv, FdAccounting, Conn, TypeOK
    <3>3. fdOf[d] # fdOf[c]
      BY <1>1, <3>1, <3>2
    <3> QED
      BY <1>3, <3>2, <3>3 DEF FdInv, TypeOK
  <2> QED
    BY <2>1, <2>2, <2>3 DEF FdAccounting, Conn
<1>9. CallInv'
  <2>1. ~InWrite /\ ~InWrite'
    BY <1>1, <1>3 DEF InWrite
  <2>2. ASSUME NEW d \in Clients, Unborn(d)' PROVE sock'[d]["srv"] = "none"
    BY <1>4, <1>5, <2>2 DEF Unborn, FdInv, CallInv, Closed
  <2>3. writer' = NoClient /\ wbuf' = << >>
    BY <1>3, <2>1 DEF FdInv, CallInv
  <2>4. \A d \in Clients : err'[d]["srv"] # "none" => sock'[d]["cli"] \in Closed
    BY <1>3, <1>5 DEF FdInv, CallInv
  <2> QED
    BY <1>1, <1>3, <2>1, <2>2, <2>3, <2>4 DEF CallInv
<1>10. BatchInv'
  <2>1. \A d \in batch' \ {Listener} : d \in Clients \ {c} /\ d \in batch \ {Listener}
    BY <1>3 DEF FdInv, TypeOK
  <2> QED
    BY <1>3, <1>5, <2>1 DEF FdInv, BatchInv, Readable, AtEof
<1>11. NeverHangsUp'
  BY <1>3, <1>4, <1>5 DEF FdInv, NeverHangsUp
<1> QED
  BY <1>7, <1>8, <1>9, <1>10, <1>11 DEF FdInv

\* A return of write(), and a step inside it, keep every reported event true:
\* only the writer's own error changes, and only after its client has closed.
LEMMA WriteStep ==
  ASSUME FdInv, WriteSome \/ WriteSwallowed \/ WriteFails
  PROVE  FdInv'
<1> USE Sided
<1>1. InWrite /\ writer \in Clients /\ Conn(writer) = writer /\ wbuf # << >>
  BY WriterConn DEF InWrite, WriteSome, WriteSwallowed, WriteFails
<1>2. UNCHANGED <<sock, listening, sent, got, batch, fdOf, owner, interest>>
  BY DEF WriteSome, WriteSwallowed, WriteFails
<1>3. \/ pc' = "loop" /\ writer' = NoClient /\ wbuf' = << >>
      \/ pc' = "blocked" /\ writer' = writer /\ wbuf' \in Seq(Bytes) /\ wbuf' # << >>
  <2>1. CASE WriteSome
    <3>1. PICK n \in 1..Len(wbuf) :
            IF n = Len(wbuf)
              THEN WriteReturns
              ELSE pc' = "blocked" /\ wbuf' = Rest(n, wbuf) /\ UNCHANGED writer
      BY <2>1 DEF WriteSome
    <3>2. CASE n = Len(wbuf)
      BY <3>1, <3>2 DEF WriteReturns
    <3>3. CASE n # Len(wbuf)
      <4>1. wbuf \in Seq(Bytes) /\ Len(wbuf) \in Nat /\ n \in Nat
        BY LenProperties DEF FdInv, TypeOK
      <4>2. /\ Rest(n, wbuf) \in Seq(Bytes)
            /\ Taken(n, wbuf) \in Seq(Bytes) /\ Len(Taken(n, wbuf)) = n
            /\ Taken(n, wbuf) \o Rest(n, wbuf) = wbuf
        BY <4>1, TakenAndRest DEF AtMost
      <4>3. Rest(n, wbuf) # << >>
        BY <3>3, <4>1, <4>2, ConcatEmptySeq
      <4> QED
        BY <3>1, <3>3, <4>2, <4>3
    <3> QED
      BY <3>2, <3>3
  <2>2. CASE WriteSwallowed \/ WriteFails
    BY <2>2 DEF WriteSwallowed, WriteFails, WriteReturns
  <2> QED
    BY <2>1, <2>2
<1>4. /\ inbox' \in EachEnd(Seq(Bytes)) /\ err' \in EachEnd(Errors)
      /\ \A d \in Clients : inbox'[d]["srv"] = inbox[d]["srv"]
      /\ \A d \in Clients : err'[d]["srv"] # "none" =>
           err[d]["srv"] # "none" \/ sock[d]["cli"] \in Closed
      /\ \A d \in Clients : err[d]["srv"] \in {"reset", "pipe"} =>
           err'[d]["srv"] \in {"reset", "pipe"}
  <2>0. SocketsTypeOK
    BY DEF FdInv, TypeOK
  <2>1. CASE WriteSome
    <3>1. PICK n \in 1..Len(wbuf) : Deliver(writer, "srv", Taken(n, wbuf))
      BY <1>1, <2>1 DEF WriteSome
    <3>2. Taken(n, wbuf) \in Seq(Bytes)
      BY LenProperties, TakenAndRest DEF FdInv, TypeOK
    <3>3. inbox' \in EachEnd(Seq(Bytes)) /\ err' = err
      BY <1>1, <2>0, <3>1, <3>2, DeliverTyping
    <3>4. \A d \in Clients : inbox'[d]["srv"] = inbox[d]["srv"]
      BY <2>0, <3>1 DEF Deliver, SocketsTypeOK, EachEnd
    <3> QED
      BY <2>0, <3>3, <3>4 DEF SocketsTypeOK
  <2>2. CASE WriteSwallowed
    <3>1. Swallow(writer, "srv")
      BY <1>1, <2>2 DEF WriteSwallowed
    <3>2. inbox' = inbox /\ err' \in EachEnd(Errors)
      BY <1>1, <2>0, <3>1, SwallowTyping
    <3>3. \A d \in Clients \ {writer} : err'[d] = err[d]
      BY <2>0, <3>1 DEF Swallow, SocketsTypeOK, EachEnd
    <3>4. sock[writer]["cli"] \in Closed /\ err[writer]["srv"] \in {"none", "provoked"}
      BY <3>1 DEF Swallow
    <3> QED
      BY <2>0, <3>2, <3>3, <3>4 DEF SocketsTypeOK
  <2>3. CASE WriteFails
    <3>1. CASE FailOnce(writer, "srv")
      <4>1. inbox' = inbox /\ err' \in EachEnd(Errors)
        BY <1>1, <2>0, <3>1, FailOnceTyping
      <4>2. /\ \A d \in Clients \ {writer} : err'[d] = err[d]
            /\ err[writer]["srv"] = "reset" /\ err'[writer]["srv"] = "pipe"
        BY <1>1, <2>0, <3>1 DEF FailOnce, SocketsTypeOK, EachEnd
      <4> QED
        BY <2>0, <4>1, <4>2 DEF SocketsTypeOK
    <3>2. CASE UNCHANGED <<inbox, err>>
      BY <2>0, <3>2 DEF SocketsTypeOK
    <3> QED
      BY <1>1, <2>3, <3>1, <3>2 DEF WriteFails
  <2> QED
    BY <2>1, <2>2, <2>3
<1>5. TypeOK'
  <2>1. SocketsTypeOK'
    BY <1>2, <1>4 DEF FdInv, TypeOK, SocketsTypeOK
  <2>2. /\ pc' \in {"loop", "blocked"} /\ wbuf' \in Seq(Bytes)
        /\ writer' \in Clients \cup {NoClient}
    BY <1>1, <1>3, EmptySeq
  <2> QED
    BY <1>2, <2>1, <2>2 DEF FdInv, TypeOK
<1>6. FdAccounting'
  BY <1>2 DEF FdInv, FdAccounting, Conn
<1>7. CallInv'
  <2>1. \A d \in Clients : err'[d]["srv"] # "none" => sock'[d]["cli"] \in Closed
    BY <1>2, <1>4 DEF FdInv, CallInv
  <2>2. \A d \in Clients : Unborn(d)' => sock'[d]["srv"] = "none"
    BY <1>2 DEF FdInv, CallInv, Unborn
  <2>3. sock[writer]["srv"] = "open"
    BY <1>1 DEF FdInv, CallInv
  <2> QED
    BY <1>1, <1>2, <1>3, <2>1, <2>2, <2>3 DEF CallInv, InWrite
<1>8. BatchInv'
  <2>1. \A d \in batch \ {Listener} : d \in Clients
    BY DEF FdInv, TypeOK
  <2> QED
    BY <1>2, <1>4, <2>1 DEF FdInv, BatchInv, Readable, AtEof
<1>9. NeverHangsUp'
  BY <1>2 DEF FdInv, NeverHangsUp
<1> QED
  BY <1>5, <1>6, <1>7, <1>8, <1>9 DEF FdInv

\* When the process ends, what it had is closed.
LEMMA ServerEnd ==
  ASSUME FdInv, CloseServer
  PROVE  /\ sock' \in EachEnd(SockStates) /\ inbox' \in EachEnd(Seq(Bytes))
         /\ listening' = FALSE
         /\ \A d \in Clients : /\ sock'[d]["cli"] = sock[d]["cli"]
                               /\ sock'[d]["srv"] # "open"
                               /\ sock[d]["srv"] = "none" => sock'[d]["srv"] = "none"
<1>1. SocketsTypeOK
  BY DEF FdInv, TypeOK
<1>2. sock' \in EachEnd(SockStates) /\ inbox' \in EachEnd(Seq(Bytes))
  BY <1>1, CloseServerTyping
<1>3. \A d \in Clients : /\ sock'[d]["cli"] = sock[d]["cli"]
                         /\ sock'[d]["srv"] # "open"
                         /\ sock[d]["srv"] = "none" => sock'[d]["srv"] = "none"
  BY <1>1, Sided DEF CloseServer, Closing, SocketsTypeOK, EachEnd
<1> QED
  BY <1>2, <1>3 DEF CloseServer

LEMMA SigpipeStep ==
  ASSUME FdInv, Sigpipe
  PROVE  FdInv'
<1>1. /\ CloseServer /\ pc' = "killed" /\ batch' = {}
      /\ owner' = [f \in Fds |-> NoClient] /\ interest' = [f \in Fds |-> NoClient]
      /\ writer' = NoClient /\ wbuf' = << >>
      /\ UNCHANGED <<err, sent, got, fdOf>>
  BY DEF Sigpipe
<1>2. TypeOK'
  <2>1. sock' \in EachEnd(SockStates) /\ inbox' \in EachEnd(Seq(Bytes)) /\ listening' = FALSE
    BY <1>1, ServerEnd
  <2> QED
    BY <1>1, <2>1, EmptySeq DEF FdInv, TypeOK, SocketsTypeOK
<1>3. FdAccounting'
  BY <1>1, ServerEnd DEF FdAccounting
<1>4. CallInv'
  BY <1>1, ServerEnd DEF FdInv, CallInv, InWrite, Unborn
<1>5. BatchInv' /\ NeverHangsUp'
  BY <1>1, ServerEnd DEF BatchInv, NeverHangsUp
<1> QED
  BY <1>2, <1>3, <1>4, <1>5 DEF FdInv

\* Before the loop there is no number to give back and no event to handle.
LEMMA EpollCreateFailsStep ==
  ASSUME FdInv, EpollCreateFails
  PROVE  FdInv'
<1>1. /\ pc = "listen" /\ pc' = "exited" /\ CloseServer
      /\ UNCHANGED <<err, sent, got, batch, fdOf, owner, interest, writer, wbuf>>
  BY DEF EpollCreateFails
<1>2. \A d \in Clients : sock[d]["srv"] # "open"
  BY <1>1 DEF FdInv, CallInv
<1>3. TypeOK'
  BY <1>1, ServerEnd DEF FdInv, TypeOK, SocketsTypeOK
<1>4. FdAccounting'
  <2>1. \A f \in Fds : owner[f] = NoClient
    BY <1>2 DEF FdInv, FdAccounting, TypeOK
  <2> QED
    BY <1>1, <2>1, ServerEnd DEF FdInv, FdAccounting
<1>5. CallInv'
  BY <1>1, ServerEnd DEF FdInv, CallInv, InWrite, Unborn
<1>6. BatchInv'
  <2>1. \A d \in batch \ {Listener} : d \in Clients /\ sock[d]["srv"] = "open"
    BY DEF FdInv, BatchInv, TypeOK
  <2> QED
    BY <1>1, <1>2, <2>1 DEF BatchInv
<1>7. NeverHangsUp'
  BY <1>1, ServerEnd DEF NeverHangsUp
<1> QED
  BY <1>3, <1>4, <1>5, <1>6, <1>7 DEF FdInv

-----------------------------------------------------------------------------

LEMMA FdInit == Init => FdInv
<1> SUFFICES ASSUME Init PROVE FdInv
  OBVIOUS
<1>0. SocketsTypeOK
  BY EmptySeq DEF Init, SocketsInit, SocketsTypeOK, EachEnd, SockStates, Errors
<1>1. TypeOK
  BY <1>0, EmptySeq DEF Init, TypeOK
<1>2. FdAccounting /\ CallInv /\ BatchInv /\ NeverHangsUp
  BY Sided DEF Init, SocketsInit, FdAccounting, CallInv, InWrite, BatchInv, NeverHangsUp
<1> QED
  BY <1>1, <1>2 DEF FdInv

LEMMA FdStep ==
  ASSUME FdInv, [Next]_vars
  PROVE  FdInv'
<1>1. CASE ServerNext
  BY <1>1, StartStep, EpollWaitStep, AcceptStep, AcceptFailsStep, ReadBytesStep,
     ReadEofStep, WriteStep, SigpipeStep, EpollCreateFailsStep DEF ServerNext
<1>2. CASE PeerNext /\ UNCHANGED serverVars
  BY <1>2, EnvironmentStep
<1>3. CASE Network /\ UNCHANGED serverVars
  BY <1>3, EnvironmentStep
<1>4. CASE UNCHANGED vars
  BY <1>4 DEF vars, sockVars, serverVars, FdInv, TypeOK, SocketsTypeOK, FdAccounting,
     Conn, CallInv, InWrite, Unborn, BatchInv, Readable, AtEof, NeverHangsUp
<1> QED
  BY <1>1, <1>2, <1>3, <1>4 DEF Next

\* The inductive invariant of descriptor numbers and events: in every state the
\* numbers, registrations, reported events and latched errors agree.
THEOREM FdInvariant == Spec => []FdInv
<1>1. FdInv /\ [Next]_vars => FdInv'
  BY FdStep
<1> QED
  BY <1>1, FdInit, PTL DEF Spec

\* Type correctness.
THEOREM ServerTyping == Spec => []TypeOK
BY FdInvariant, PTL DEF FdInv

\* No descriptor number leaks and none is forgotten.
THEOREM NumbersAccounted == Spec => []FdAccounting
BY FdInvariant, PTL DEF FdInv

\* As long as it lives, the server hangs up on no client that is there.
THEOREM NoHangUp == Spec => []NeverHangsUp
BY FdInvariant, PTL DEF FdInv

\* Every event that is dispatched reaches the connection it was reported for,
\* and read() does not block on it.
THEOREM EventsFresh == Spec => []BatchFresh
<1>1. FdInv => BatchFresh
  BY DEF FdInv, FdAccounting, BatchInv, BatchFresh, TypeOK
<1> QED
  BY <1>1, FdInvariant, PTL

-----------------------------------------------------------------------------
(* What comes back is what was sent, whatever clients, network and server  *)
(* do, and the server implements EchoService.  StreamInv is inductive      *)
(* relative to FdInv.  A step moves the bytes of at most one connection,   *)
(* except for the end of the server; this section says what each kind of   *)
(* move does to a sequence of bytes, and the next one what each step does  *)
(* to each connection.                                                     *)

\* A prefix, element by element.
LEMMA PrefixElements ==
  ASSUME NEW S, NEW s \in Seq(S), NEW t \in Seq(S)
  PROVE  IsPrefix(s, t) <=> /\ Len(s) =< Len(t)
                            /\ \A k \in 1..Len(s) : s[k] = t[k]
<1>1. Len(s) \in Nat /\ Len(t) \in Nat
  BY LenProperties
<1>2. ASSUME IsPrefix(s, t) PROVE \A k \in 1..Len(s) : s[k] = t[k]
  BY <1>1, <1>2 DEF IsPrefix
<1>3. ASSUME Len(s) =< Len(t), \A k \in 1..Len(s) : s[k] = t[k]
      PROVE  IsPrefix(s, t)
  <2>1. SubSeq(s, 1, Len(s)) = SubSeq(t, 1, Len(s))
    BY <1>1, <1>3
  <2> QED
    BY <1>3, <2>1 DEF IsPrefix
<1> QED
  BY <1>2, <1>3 DEF IsPrefix

\* Losing bytes off the end of the bytes under way.
LEMMA LoseTail ==
  ASSUME NEW S, NEW g \in Seq(S), NEW q \in Seq(S), NEW r \in Seq(S), NEW s \in Seq(S),
         IsPrefix(r, q), IsPrefix(g \o q, s)
  PROVE  IsPrefix(g \o r, s)
<1>1. /\ Len(g) \in Nat /\ Len(q) \in Nat /\ Len(r) \in Nat /\ Len(s) \in Nat
      /\ Len(r) =< Len(q) /\ \A k \in 1..Len(r) : r[k] = q[k]
  BY LenProperties, PrefixElements
<1>2. /\ g \o q \in Seq(S) /\ Len(g \o q) = Len(g) + Len(q)
      /\ \A k \in 1..(Len(g) + Len(q)) :
           (g \o q)[k] = IF k =< Len(g) THEN g[k] ELSE q[k - Len(g)]
  BY ConcatProperties
<1>3. /\ g \o r \in Seq(S) /\ Len(g \o r) = Len(g) + Len(r)
      /\ \A k \in 1..(Len(g) + Len(r)) :
           (g \o r)[k] = IF k =< Len(g) THEN g[k] ELSE r[k - Len(g)]
  BY ConcatProperties
<1>4. Len(g \o q) =< Len(s) /\ \A k \in 1..Len(g \o q) : (g \o q)[k] = s[k]
  BY <1>2, PrefixElements, ZenonT(60)
<1>5. Len(g \o r) =< Len(s)
  BY <1>1, <1>2, <1>3, <1>4
<1>6. ASSUME NEW k \in 1..Len(g \o r) PROVE (g \o r)[k] = s[k]
  <2>1. (g \o r)[k] = (g \o q)[k]
    <3>1. CASE k =< Len(g)
      BY <1>1, <1>2, <1>3, <3>1
    <3>2. CASE ~(k =< Len(g))
      <4>1. k - Len(g) \in 1..Len(r)
        BY <1>1, <1>3, <3>2
      <4> QED
        BY <1>1, <1>2, <1>3, <3>2, <4>1
    <3> QED
      BY <3>1, <3>2
  <2> QED
    BY <1>1, <1>2, <1>3, <1>4, <2>1
<1> QED
  BY <1>3, <1>5, <1>6, PrefixElements

\* Sending adds at the end.
LEMMA Extend ==
  ASSUME NEW S, NEW p \in Seq(S), NEW s \in Seq(S), NEW d \in Seq(S), IsPrefix(p, s)
  PROVE  IsPrefix(p, s \o d)
<1>1. IsPrefix(s, s \o d) /\ s \o d \in Seq(S)
  BY PrefixOfConcat, ConcatProperties
<1> QED
  BY <1>1, PrefixTransitive

\* Concatenation under a name of its own: where a step needs only that it is
\* associative, the provers are not to look into the sequences.
Cat(x, y) == x \o y

LEMMA CatAssociative ==
  ASSUME NEW S
  PROVE  \A x, y, z \in Seq(S) : Cat(Cat(x, y), z) = Cat(x, Cat(y, z))
<1> SUFFICES ASSUME NEW x \in Seq(S), NEW y \in Seq(S), NEW z \in Seq(S)
             PROVE  Cat(Cat(x, y), z) = Cat(x, Cat(y, z))
  OBVIOUS
<1> QED
  BY ConcatAssociative, SMT DEF Cat

LEMMA BytesAssociative ==
  \A x, y, z \in Seq(Bytes) : Cat(Cat(x, y), z) = Cat(x, Cat(y, z))
  BY CatAssociative

\* write(): part of what is in hand joins the bytes under way, which stay a
\* prefix as long as nothing is missing.
LEMMA HandOver ==
  ASSUME NEW S, NEW g \in Seq(S), NEW q \in Seq(S), NEW t \in Seq(S), NEW r \in Seq(S),
         NEW j \in Seq(S)
  PROVE  /\ g \o q \o (t \o r) \o j = g \o (q \o t) \o r \o j
         /\ IsPrefix(g \o (q \o t), g \o q \o (t \o r) \o j)
<1>1. /\ Cat(g, q) \in Seq(S) /\ Cat(q, t) \in Seq(S) /\ Cat(g, Cat(q, t)) \in Seq(S)
      /\ Cat(r, j) \in Seq(S)
  BY ConcatProperties DEF Cat
<1>2. \A x, y, z \in Seq(S) : Cat(Cat(x, y), z) = Cat(x, Cat(y, z))
  BY CatAssociative
<1>3. Cat(Cat(g, q), t) = Cat(g, Cat(q, t))
  BY <1>2
<1>4. Cat(Cat(Cat(g, q), t), r) = Cat(Cat(g, q), Cat(t, r))
  BY <1>1, <1>2
<1>5. Cat(Cat(Cat(g, Cat(q, t)), r), j) = Cat(Cat(g, Cat(q, t)), Cat(r, j))
  BY <1>1, <1>2
<1>6. Cat(Cat(Cat(g, q), Cat(t, r)), j) = Cat(Cat(Cat(g, Cat(q, t)), r), j)
  BY <1>3, <1>4
<1>7. IsPrefix(Cat(g, Cat(q, t)), Cat(Cat(g, Cat(q, t)), Cat(r, j)))
  BY <1>1, PrefixOfConcat DEF Cat
<1> QED
  BY <1>5, <1>6, <1>7 DEF Cat

-----------------------------------------------------------------------------
(* What a step does to one connection.                                     *)

LEMMA StreamTypes ==
  ASSUME TypeOK, NEW d \in Clients
  PROVE  /\ sent[d] \in Seq(Bytes) /\ Len(sent[d]) \in Nat
         /\ got[d] \in Seq(Bytes) /\ Len(got[d]) \in Nat
         /\ inbox[d]["cli"] \in Seq(Bytes) /\ Len(inbox[d]["cli"]) \in Nat
         /\ inbox[d]["srv"] \in Seq(Bytes) /\ Len(inbox[d]["srv"]) \in Nat
         /\ InHand(d) \in Seq(Bytes) /\ Len(InHand(d)) \in Nat
  BY Sided, EmptySeq, LenProperties DEF TypeOK, SocketsTypeOK, EachEnd, InHand

\* The step is about another connection.
LEMMA Untouched ==
  ASSUME NEW d \in Clients, Stream(d),
         sock'[d] = sock[d], inbox'[d] = inbox[d], sent'[d] = sent[d], got'[d] = got[d],
         InHand(d)' = InHand(d)
  PROVE  Stream(d)'
  BY DEF Stream, Integrity, Conserved, EstablishedInv, Unborn, NoMoreThanSent

\* The step only loses bytes, on a connection that is not whole any more.
LEMMA Loss ==
  ASSUME TypeOK, TypeOK', NEW d \in Clients, Stream(d),
         sent'[d] = sent[d], got'[d] = got[d],
         IsPrefix(inbox'[d]["cli"], inbox[d]["cli"]),
         Len(InHand(d)') =< Len(InHand(d)),
         Len(inbox'[d]["srv"]) =< Len(inbox[d]["srv"]),
         ~(sock'[d]["cli"] = "open" /\ sock'[d]["srv"] \in Alive),
         EstablishedInv(d)'
  PROVE  Stream(d)'
<1>1. /\ sent[d] \in Seq(Bytes) /\ got[d] \in Seq(Bytes)
      /\ inbox[d]["cli"] \in Seq(Bytes) /\ inbox'[d]["cli"] \in Seq(Bytes)
  <2>1. sent[d] \in Seq(Bytes) /\ got[d] \in Seq(Bytes) /\ inbox[d]["cli"] \in Seq(Bytes)
    BY StreamTypes
  <2>2. inbox'[d]["cli"] \in Seq(Bytes)
    BY Sided DEF TypeOK, SocketsTypeOK, EachEnd
  <2> QED
    BY <2>1, <2>2
<1>2. Integrity(d)'
  BY <1>1, LoseTail DEF Stream, Integrity
<1>3. Conserved(d)'
  BY DEF Conserved
<1>4. NoMoreThanSent(d)'
  <2> DEFINE g == Len(got[d])
             i == Len(inbox[d]["cli"])
             h == Len(InHand(d))
             j == Len(inbox[d]["srv"])
             s == Len(sent[d])
             i2 == Len(inbox'[d]["cli"])
             h2 == Len(InHand(d)')
             j2 == Len(inbox'[d]["srv"])
  <2>1. i2 =< i /\ h2 =< h /\ j2 =< j
    BY DEF IsPrefix
  <2>2. i2 \in Nat /\ h2 \in Nat /\ j2 \in Nat
    BY Sided, EmptySeq, LenProperties DEF TypeOK, SocketsTypeOK, EachEnd, InHand
  <2>3. g \in Nat /\ i \in Nat /\ h \in Nat /\ j \in Nat /\ s \in Nat
    BY StreamTypes
  <2>4. g + i + h + j =< s
    BY DEF Stream, NoMoreThanSent
  <2>5. g + i2 + h2 + j2 =< s => NoMoreThanSent(d)'
    BY DEF NoMoreThanSent
  <2> HIDE DEF g, i, h, j, s, i2, h2, j2
  <2>6. g + i2 + h2 + j2 =< s
    BY <2>1, <2>2, <2>3, <2>4
  <2> QED
    BY <2>5, <2>6
<1> QED
  BY <1>2, <1>3, <1>4 DEF Stream

LEMMA PrefixSelf ==
  ASSUME NEW q \in Seq(Bytes)
  PROVE  IsPrefix(q, q) /\ IsPrefix(<< >>, q)
<1>1. << >> \in Seq(Bytes) /\ Len(<< >>) = 0 /\ Len(q) \in Nat
  BY EmptySeq, LenProperties
<1>2. IsPrefix(q, q)
  BY <1>1, PrefixElements
<1>3. IsPrefix(<< >>, q)
  <2>1. SubSeq(<< >>, 1, 0) = << >> /\ SubSeq(q, 1, 0) = << >>
    BY SubSeqEmpty
  <2> QED
    BY <1>1, <2>1 DEF IsPrefix
<1> QED
  BY <1>2, <1>3

LEMMA PrefixCut ==
  ASSUME NEW q \in Seq(Bytes), NEW n \in 0..Len(q)
  PROVE  IsPrefix(SubSeq(q, 1, n), q) /\ Len(SubSeq(q, 1, n)) = n
<1> DEFINE x == SubSeq(q, 1, n)
<1>1. Len(q) \in Nat /\ \A k \in 1..Len(q) : q[k] \in Bytes
  BY LenProperties, ElementOfSeq
<1>2. x \in Seq(Bytes) /\ Len(x) = n /\ \A k \in 1..n : x[k] = q[k]
  BY <1>1, SubSeqProperties
<1> HIDE DEF x
<1>3. IsPrefix(x, q)
  BY <1>1, <1>2, PrefixElements
<1> QED
  BY <1>2, <1>3 DEF x

-----------------------------------------------------------------------------
(* The steps of the peers.                                                 *)

LEMMA SendStream ==
  ASSUME FdInv, NEW c \in Clients, Stream(c), NEW data \in Seq(Bytes),
         ClientSend(c, data), InHand(c)' = InHand(c)
  PROVE  Stream(c)'
<1> USE Sided
<1>0. TypeOK
  BY DEF FdInv
<1>1. /\ sock' = sock /\ got' = got /\ sock[c]["cli"] = "open"
      /\ sent'[c] = sent[c] \o data
  BY <1>0 DEF ClientSend, TypeOK, SocketsTypeOK
<1>2. inbox'[c]["cli"] = inbox[c]["cli"]
  BY <1>0 DEF ClientSend, Deliver, Swallow, TypeOK, SocketsTypeOK, EachEnd
<1>3. \/ sock[c]["srv"] \in Closed /\ inbox'[c]["srv"] = inbox[c]["srv"]
      \/ inbox'[c]["srv"] = inbox[c]["srv"] \o data
  BY <1>0, SMTT(30) DEF ClientSend, Deliver, Swallow, TypeOK, SocketsTypeOK, EachEnd
<1>4. Integrity(c)'
  <2>1. got[c] \o inbox[c]["cli"] \in Seq(Bytes)
    BY <1>0, StreamTypes, ConcatProperties
  <2>2. IsPrefix(got[c] \o inbox[c]["cli"], sent[c] \o data)
    BY <1>0, <2>1, StreamTypes, Extend DEF Stream, Integrity
  <2> QED
    BY <1>1, <1>2, <2>2 DEF Integrity
<1>5. Conserved(c)'
  <2> SUFFICES ASSUME sock[c]["srv"] \in Alive
               PROVE  sent[c] \o data
                        = got[c] \o inbox[c]["cli"] \o InHand(c) \o inbox'[c]["srv"]
    BY <1>1, <1>2 DEF Conserved
  <2> DEFINE p == got[c] \o inbox[c]["cli"] \o InHand(c)
  <2>1. p \in Seq(Bytes) /\ inbox[c]["srv"] \in Seq(Bytes)
    BY <1>0, StreamTypes, ConcatProperties
  <2>2. inbox'[c]["srv"] = inbox[c]["srv"] \o data
    BY <1>3 DEF Alive, Closed
  <2>3. sent[c] = p \o inbox[c]["srv"]
    BY <1>1 DEF Stream, Conserved
  <2> HIDE DEF p
  <2>4. Cat(Cat(p, inbox[c]["srv"]), data) = Cat(p, Cat(inbox[c]["srv"], data))
    BY <2>1, BytesAssociative
  <2>5. sent[c] \o data = p \o inbox'[c]["srv"]
    BY <2>2, <2>3, <2>4 DEF Cat
  <2> QED
    BY <2>5 DEF p
<1>6. EstablishedInv(c)'
  BY <1>1, <1>2 DEF EstablishedInv, Unborn, Stream, Closed
<1>7. NoMoreThanSent(c)'
  <2> DEFINE g == Len(got[c])
             i == Len(inbox[c]["cli"])
             h == Len(InHand(c))
             j == Len(inbox[c]["srv"])
             s == Len(sent[c])
             k == Len(data)
             j2 == Len(inbox'[c]["srv"])
             s2 == Len(sent'[c])
  <2>1. g \in Nat /\ i \in Nat /\ h \in Nat /\ j \in Nat /\ s \in Nat /\ k \in Nat
    BY <1>0, StreamTypes, LenProperties
  <2>2. g + i + h + j =< s
    BY DEF Stream, NoMoreThanSent
  <2>3. j2 = j \/ j2 = j + k
    BY <1>0, <1>3, StreamTypes, ConcatProperties, SMTT(30)
  <2>4. s2 = s + k
    BY <1>0, <1>1, StreamTypes, ConcatProperties
  <2>5. g + i + h + j2 =< s2 => NoMoreThanSent(c)'
    BY <1>1, <1>2 DEF NoMoreThanSent
  <2> HIDE DEF g, i, h, j, s, k, j2, s2
  <2>6. g + i + h + j2 =< s2
    BY <2>1, <2>2, <2>3, <2>4
  <2> QED
    BY <2>5, <2>6
<1> QED
  BY <1>4, <1>5, <1>6, <1>7 DEF Stream

LEMMA ReceiveStream ==
  ASSUME FdInv, NEW c \in Clients, Stream(c), NEW n \in Nat,
         ClientReceive(c, n), InHand(c)' = InHand(c)
  PROVE  Stream(c)'
<1> USE Sided
<1> DEFINE g == got[c]
           q == inbox[c]["cli"]
           t == Taken(n, q)
           r == Rest(n, q)
<1>0. TypeOK
  BY DEF FdInv
<1>1. /\ sock' = sock /\ sent' = sent /\ sock[c]["cli"] = "open"
      /\ got'[c] = g \o t
      /\ inbox'[c]["cli"] = r /\ inbox'[c]["srv"] = inbox[c]["srv"]
  BY <1>0 DEF ClientReceive, Receive, TypeOK, SocketsTypeOK, EachEnd
<1>2. g \in Seq(Bytes) /\ q \in Seq(Bytes) /\ Len(g) \in Nat /\ Len(q) \in Nat
  BY <1>0, StreamTypes
<1>3. t \in Seq(Bytes) /\ r \in Seq(Bytes) /\ t \o r = q
  BY <1>2, TakenAndRest
<1>4. Integrity(c) /\ Conserved(c) /\ EstablishedInv(c) /\ NoMoreThanSent(c)
  BY DEF Stream
<1>5. (g \o t) \o r = g \o q
  <2> HIDE DEF g, q, t, r
  <2>1. Cat(Cat(g, t), r) = Cat(g, Cat(t, r))
    BY <1>2, <1>3, BytesAssociative
  <2> QED
    BY <1>3, <2>1 DEF Cat
<1>6. Integrity(c)'
  BY <1>1, <1>4, <1>5 DEF Integrity
<1>7. Conserved(c)'
  BY <1>1, <1>4, <1>5 DEF Conserved
<1>8. EstablishedInv(c)'
  BY <1>1, <1>4 DEF EstablishedInv, Unborn, Closed
<1>9. NoMoreThanSent(c)'
  <2>1. Len(g \o t) + Len(r) = Len(g) + Len(q)
    <3>1. g \o t \in Seq(Bytes)
      BY <1>2, <1>3, ConcatProperties
    <3>2. Len((g \o t) \o r) = Len(g \o t) + Len(r) /\ Len(g \o q) = Len(g) + Len(q)
      BY <1>2, <1>3, <3>1, ConcatProperties
    <3> QED
      BY <1>5, <3>2
  <2> QED
    BY <1>1, <1>4, <2>1 DEF NoMoreThanSent
<1> QED
  BY <1>6, <1>7, <1>8, <1>9 DEF Stream

LEMMA PeerStream ==
  ASSUME FdInv, \A d \in Clients : Stream(d), PeerNext, UNCHANGED serverVars
  PROVE  \A d \in Clients : Stream(d)'
<1> USE Sided
<1>0. TypeOK /\ TypeOK'
  BY EnvironmentStep DEF FdInv
<1>1. \A d \in Clients : InHand(d)' = InHand(d)
  BY DEF InHand, serverVars
<1> PICK c \in Clients :
      \/ Connect(c) \/ ClientClose(c)
      \/ PeerSend(c) \/ ClientSendFails(c)
      \/ PeerReceive(c)
  BY DEF PeerNext
<1>2. ASSUME NEW d \in Clients, d # c
      PROVE  /\ sock'[d] = sock[d] /\ inbox'[d] = inbox[d]
             /\ sent'[d] = sent[d] /\ got'[d] = got[d]
  <2>1. CASE Connect(c)
    BY <1>0, <1>2, <2>1 DEF Connect, TypeOK, SocketsTypeOK, EachEnd
  <2>2. CASE ClientClose(c)
    BY <1>0, <1>2, <2>2 DEF ClientClose, Close, TypeOK, SocketsTypeOK, EachEnd
  <2>3. CASE PeerSend(c)
    BY <1>0, <1>2, <2>3 DEF PeerSend, ClientSend, Deliver, Swallow, TypeOK, SocketsTypeOK, EachEnd
  <2>4. CASE ClientSendFails(c)
    BY <1>0, <1>2, <2>4 DEF ClientSendFails, FailOnce, TypeOK, SocketsTypeOK, EachEnd
  <2>5. CASE PeerReceive(c)
    BY <1>0, <1>2, <2>5 DEF PeerReceive, ClientReceive, Receive, TypeOK, SocketsTypeOK, EachEnd
  <2> QED
    BY <2>1, <2>2, <2>3, <2>4, <2>5
<1>3. Stream(c)'
  <2>1. CASE Connect(c)
    <3>1. /\ inbox' = inbox /\ sent' = sent /\ got' = got
          /\ sock[c]["cli"] = "none" /\ sock'[c]["cli"] = "connecting"
      BY <1>0, <2>1 DEF Connect, TypeOK, SocketsTypeOK, EachEnd
    <3> QED
      BY <1>1, <3>1 DEF Stream, Integrity, Conserved, EstablishedInv, Unborn, NoMoreThanSent, Closed
  <2>2. CASE ClientClose(c)
    <3>1. /\ sent' = sent /\ got' = got
          /\ sock'[c]["cli"] \in Closed
          /\ inbox'[c]["cli"] = << >> /\ inbox'[c]["srv"] = inbox[c]["srv"]
      BY <1>0, <2>2 DEF ClientClose, Close, Closing, TypeOK, SocketsTypeOK, EachEnd, Closed
    <3>2. IsPrefix(inbox'[c]["cli"], inbox[c]["cli"])
      BY <1>0, <3>1, StreamTypes, PrefixSelf
    <3>3. EstablishedInv(c)'
      BY <3>1 DEF EstablishedInv, Unborn, Closed
    <3>4. /\ Len(inbox'[c]["srv"]) =< Len(inbox[c]["srv"])
          /\ Len(InHand(c)') =< Len(InHand(c))
      BY <1>0, <1>1, <3>1, StreamTypes
    <3> QED
      BY <1>0, <3>1, <3>2, <3>3, <3>4, Loss DEF Closed
  <2>3. CASE PeerSend(c)
    <3>1. PICK data \in Seq(Bytes) : ClientSend(c, data)
      BY <2>3, EchoServerAssumption DEF PeerSend
    <3> QED
      BY <1>1, <3>1, SendStream
  <2>4. CASE ClientSendFails(c)
    <3>1. sock' = sock /\ inbox' = inbox /\ sent' = sent /\ got' = got
      BY <2>4 DEF ClientSendFails, FailOnce
    <3> QED
      BY <1>1, <3>1, Untouched
  <2>5. CASE PeerReceive(c)
    <3>1. PICK n \in Nat : ClientReceive(c, n)
      BY <2>5, SocketsAssumption DEF PeerReceive
    <3> QED
      BY <1>1, <3>1, ReceiveStream
  <2> QED
    BY <2>1, <2>2, <2>3, <2>4, <2>5
<1>4. ASSUME NEW d \in Clients, d # c PROVE Stream(d)'
  BY <1>1, <1>2, <1>4, Untouched
<1> QED
  BY <1>3, <1>4

-----------------------------------------------------------------------------
(* The steps of the network.                                               *)

LEMMA NetworkStream ==
  ASSUME FdInv, \A d \in Clients : Stream(d), Network, UNCHANGED serverVars
  PROVE  \A d \in Clients : Stream(d)'
<1> USE Sided
<1>0. TypeOK /\ TypeOK'
  BY EnvironmentStep DEF FdInv
<1>1. \A d \in Clients : InHand(d)' = InHand(d)
  BY DEF InHand, serverVars
<1> PICK c \in Clients :
      \/ Establish(c)
      \/ Refuse(c)
      \/ \E s \in Sides : LearnAbort(c, s) \/ LearnProvoked(c, s)
  BY DEF Network
<1>2. ASSUME Establish(c)
      PROVE  \A d \in Clients : Stream(d)'
  <2>1. /\ inbox' = inbox /\ sent' = sent /\ got' = got
        /\ Unborn(c) /\ sock'[c]["cli"] = "open" /\ sock'[c]["srv"] = "queued"
        /\ \A d \in Clients \ {c} : sock'[d] = sock[d]
    BY <1>0, <1>2 DEF Establish, Unborn, TypeOK, SocketsTypeOK, EachEnd
  <2>2. /\ sent[c] = << >> /\ got[c] = << >>
        /\ inbox[c]["cli"] = << >> /\ inbox[c]["srv"] = << >>
    BY <2>1 DEF Stream, EstablishedInv
  <2>3. InHand(c) = << >>
    BY <2>1 DEF InHand, FdInv, CallInv
  <2>4. << >> \o << >> \o << >> \o << >> = << >>
    BY ConcatEmptySeq, EmptySeq
  <2>5. Stream(c)'
    BY <1>1, <2>1, <2>2, <2>3, <2>4
       DEF Stream, Integrity, Conserved, EstablishedInv, Unborn, NoMoreThanSent, Closed
  <2>6. ASSUME NEW d \in Clients, d # c PROVE Stream(d)'
    BY <1>1, <2>1, <2>6, Untouched
  <2> QED
    BY <2>5, <2>6
<1>3. ASSUME Refuse(c) \/ \E s \in Sides : LearnProvoked(c, s)
      PROVE  \A d \in Clients : Stream(d)'
  <2>1. sock' = sock /\ inbox' = inbox /\ sent' = sent /\ got' = got
    BY <1>3 DEF Refuse, LearnProvoked
  <2> QED
    BY <1>1, <2>1, Untouched
<1>4. ASSUME NEW s \in Sides, LearnAbort(c, s)
      PROVE  \A d \in Clients : Stream(d)'
  <2>1. PICK n \in 0..Len(inbox[c][s]) :
          inbox' = [inbox EXCEPT ![c][s] = SubSeq(@, 1, n)]
    BY <1>4 DEF LearnAbort
  <2>2. /\ sock' = sock /\ sent' = sent /\ got' = got
        /\ sock[c][s] \in Alive /\ sock[c][Peer(s)] = "abort"
    BY <1>4 DEF LearnAbort
  <2>3. \A d \in Clients \ {c} : inbox'[d] = inbox[d]
    BY <1>0, <2>1 DEF TypeOK, SocketsTypeOK, EachEnd
  <2>4. /\ inbox[c][s] \in Seq(Bytes)
        /\ inbox'[c][s] = SubSeq(inbox[c][s], 1, n)
        /\ inbox'[c][Peer(s)] = inbox[c][Peer(s)]
    BY <1>0, <2>1 DEF TypeOK, SocketsTypeOK, EachEnd, Sides, Peer
  <2>5. IsPrefix(inbox'[c][s], inbox[c][s]) /\ Len(inbox'[c][s]) =< Len(inbox[c][s])
    BY <2>4, PrefixCut DEF IsPrefix
  <2>6. IsPrefix(inbox'[c]["cli"], inbox[c]["cli"])
    BY <1>0, <2>4, <2>5, StreamTypes, PrefixSelf DEF Sides
  <2>7. Len(inbox'[c]["srv"]) =< Len(inbox[c]["srv"])
    BY <1>0, <2>4, <2>5, StreamTypes DEF Sides
  <2>8. ~(sock'[c]["cli"] = "open" /\ sock'[c]["srv"] \in Alive)
    BY <2>2 DEF Sides, Alive
  <2>9. EstablishedInv(c)'
    <3>1. CASE s = "cli"
      BY <2>2, <3>1 DEF Stream, EstablishedInv, Unborn, Alive, Closed
    <3>2. CASE s = "srv"
      BY <2>2, <2>4, <3>2 DEF Stream, EstablishedInv, Unborn, Alive, Closed
    <3> QED
      BY <3>1, <3>2 DEF Sides
  <2>10. Len(InHand(c)') =< Len(InHand(c))
    BY <1>0, <1>1, StreamTypes
  <2>11. Stream(c)'
    BY <1>0, <2>2, <2>6, <2>7, <2>8, <2>9, <2>10, Loss
  <2>12. ASSUME NEW d \in Clients, d # c PROVE Stream(d)'
    BY <1>1, <2>2, <2>3, <2>12, Untouched
  <2> QED
    BY <2>11, <2>12
<1> QED
  BY <1>2, <1>3, <1>4

-----------------------------------------------------------------------------
(* The steps of the server.                                                *)

LEMMA QuietStream ==
  ASSUME \A d \in Clients : Stream(d),
         Listen \/ ListenFails \/ EpollCreate \/ EpollWait \/ AcceptFails
  PROVE  \A d \in Clients : Stream(d)'
<1>1. UNCHANGED <<sock, inbox, sent, got, writer, wbuf>>
  BY DEF Listen, ListenFails, EpollCreate, EpollWait, AcceptFails, sockVars
<1>2. \A d \in Clients : InHand(d)' = InHand(d)
  BY <1>1 DEF InHand
<1> QED
  BY <1>1, <1>2, Untouched

LEMMA AcceptStream ==
  ASSUME FdInv, \A d \in Clients : Stream(d), Accept
  PROVE  \A d \in Clients : Stream(d)'
<1> USE Sided
<1> PICK c \in Queued, f \in FreeFds : sock' = [sock EXCEPT ![c]["srv"] = "open"]
  BY DEF Accept
<1>1. c \in Clients /\ sock[c]["srv"] = "queued"
  BY DEF Queued
<1>2. UNCHANGED <<inbox, sent, got, writer, wbuf>>
  BY DEF Accept
<1>3. \A d \in Clients : InHand(d)' = InHand(d)
  BY <1>2 DEF InHand
<1>4. /\ sock'[c]["srv"] = "open" /\ sock'[c]["cli"] = sock[c]["cli"]
      /\ \A d \in Clients \ {c} : sock'[d] = sock[d]
  BY <1>1 DEF FdInv, TypeOK, SocketsTypeOK, EachEnd
<1>5. Stream(c)'
  BY <1>1, <1>2, <1>3, <1>4
     DEF Stream, Integrity, Conserved, EstablishedInv, Unborn, NoMoreThanSent, Alive
<1>6. ASSUME NEW d \in Clients, d # c PROVE Stream(d)'
  BY <1>2, <1>3, <1>4, <1>6, Untouched
<1> QED
  BY <1>5, <1>6

LEMMA ReadBytesStream ==
  ASSUME FdInv, \A d \in Clients : Stream(d), NEW c \in Clients, ReadBytes(c)
  PROVE  \A d \in Clients : Stream(d)'
<1> USE Sided
<1> DEFINE p == got[c] \o inbox[c]["cli"]
           q == inbox[c]["srv"]
           t == Taken(ReadMax, q)
           r == Rest(ReadMax, q)
<1>0. TypeOK
  BY DEF FdInv
<1>1. pc = "loop" /\ Conn(c) = c
  BY BatchConn DEF ReadBytes
<1>2. /\ sock' = sock /\ sent' = sent /\ got' = got /\ writer' = c /\ wbuf' = t
      /\ inbox'[c]["cli"] = inbox[c]["cli"] /\ inbox'[c]["srv"] = r
      /\ \A d \in Clients \ {c} : inbox'[d] = inbox[d]
  BY <1>0, <1>1 DEF ReadBytes, Receive, TypeOK, SocketsTypeOK, EachEnd
<1>3. writer = NoClient
  BY <1>1 DEF FdInv, CallInv, InWrite
<1>4. /\ InHand(c) = << >> /\ InHand(c)' = t
      /\ \A d \in Clients \ {c} : InHand(d) = << >> /\ InHand(d)' = << >>
  BY <1>2, <1>3, NamesAssumption DEF InHand
<1>5. p \in Seq(Bytes) /\ q \in Seq(Bytes)
  BY <1>0, StreamTypes, ConcatProperties
<1>6. t \in Seq(Bytes) /\ r \in Seq(Bytes) /\ t \o r = q
  BY <1>5, SocketsAssumption, TakenAndRest
<1>7. (p \o << >>) \o q = (p \o t) \o r
  <2> HIDE DEF p, q, t, r
  <2>1. Cat(Cat(p, t), r) = Cat(p, Cat(t, r))
    BY <1>5, <1>6, BytesAssociative
  <2>2. p \o << >> = p
    BY <1>5, ConcatEmptySeq
  <2> QED
    BY <1>6, <2>1, <2>2 DEF Cat
<1>8. Conserved(c)'
  BY <1>2, <1>4, <1>7 DEF Stream, Conserved
<1>9. Integrity(c)' /\ EstablishedInv(c)'
  <2>1. inbox[c]["srv"] # << >>
    BY <1>1 DEF ReadBytes, Receive
  <2> QED
    BY <1>2, <2>1 DEF Stream, Integrity, EstablishedInv, Unborn
<1>10. NoMoreThanSent(c)'
  <2> DEFINE g == Len(got[c])
             i == Len(inbox[c]["cli"])
             s == Len(sent[c])
             lt == Len(t)
             lr == Len(r)
             lq == Len(q)
  <2>1. lt + lr = lq /\ lt \in Nat /\ lr \in Nat
    BY <1>6, ConcatProperties, LenProperties
  <2>2. g \in Nat /\ i \in Nat /\ s \in Nat /\ lq \in Nat
    BY <1>0, StreamTypes
  <2>3. g + i + 0 + lq =< s
    BY <1>4, EmptySeq DEF Stream, NoMoreThanSent
  <2>4. g + i + lt + lr =< s => NoMoreThanSent(c)'
    BY <1>2, <1>4 DEF NoMoreThanSent
  <2> HIDE DEF g, i, s, lt, lr, lq
  <2>5. g + i + lt + lr =< s
    BY <2>1, <2>2, <2>3
  <2> QED
    BY <2>4, <2>5
<1>11. ASSUME NEW d \in Clients, d # c PROVE Stream(d)'
  BY <1>2, <1>4, <1>11, Untouched
<1> QED
  BY <1>8, <1>9, <1>10, <1>11 DEF Stream

LEMMA ReadEofStream ==
  ASSUME FdInv, \A d \in Clients : Stream(d), NEW c \in Clients, ReadEof(c)
  PROVE  \A d \in Clients : Stream(d)'
<1> USE Sided
<1>0. TypeOK /\ TypeOK'
  BY ReadEofStep DEF FdInv
<1>1. Conn(c) = c
  BY BatchConn DEF ReadEof
<1>2. AtEof(c, "srv") /\ Close(c, "srv")
  BY <1>1 DEF ReadEof
<1>3. sent' = sent /\ got' = got /\ \A d \in Clients : InHand(d)' = InHand(d)
  BY DEF ReadEof, InHand
<1>4. sock[c]["cli"] \in Closed
  BY <1>2 DEF AtEof, FdInv, CallInv, Closed
<1>5. /\ sock'[c]["cli"] = sock[c]["cli"] /\ inbox'[c]["cli"] = inbox[c]["cli"]
      /\ inbox'[c]["srv"] = << >>
      /\ \A d \in Clients \ {c} : sock'[d] = sock[d] /\ inbox'[d] = inbox[d]
  BY <1>0, <1>2 DEF Close, TypeOK, SocketsTypeOK, EachEnd
<1>6. IsPrefix(inbox'[c]["cli"], inbox[c]["cli"])
  BY <1>0, <1>5, StreamTypes, PrefixSelf
<1>7. /\ Len(inbox'[c]["srv"]) =< Len(inbox[c]["srv"])
      /\ Len(InHand(c)') =< Len(InHand(c))
  BY <1>0, <1>3, <1>5, StreamTypes, EmptySeq
<1>8. EstablishedInv(c)'
  BY <1>4, <1>5 DEF Stream, EstablishedInv, Unborn, Closed
<1>9. Stream(c)'
  BY <1>0, <1>3, <1>4, <1>5, <1>6, <1>7, <1>8, Loss DEF Closed
<1>10. ASSUME NEW d \in Clients, d # c PROVE Stream(d)'
  BY <1>3, <1>5, <1>10, Untouched
<1> QED
  BY <1>9, <1>10

LEMMA WriteSomeStream ==
  ASSUME FdInv, \A d \in Clients : Stream(d), WriteSome
  PROVE  \A d \in Clients : Stream(d)'
<1> USE Sided
<1>0. TypeOK
  BY DEF FdInv
<1>1. PICK c \in Clients : c = writer /\ Conn(c) = c /\ sock[c]["srv"] = "open"
  BY WriterConn DEF InWrite, WriteSome
<1>2. PICK n \in 1..Len(wbuf) :
        /\ Deliver(c, "srv", Taken(n, wbuf))
        /\ IF n = Len(wbuf)
             THEN WriteReturns
             ELSE pc' = "blocked" /\ wbuf' = Rest(n, wbuf) /\ UNCHANGED writer
  BY <1>1 DEF WriteSome
<1> DEFINE g == got[c]
           q == inbox[c]["cli"]
           t == Taken(n, wbuf)
           r == Rest(n, wbuf)
           j == inbox[c]["srv"]
<1>3. wbuf \in Seq(Bytes) /\ Len(wbuf) \in Nat /\ n \in Nat
  BY <1>0, LenProperties DEF TypeOK
<1>4. t \in Seq(Bytes) /\ r \in Seq(Bytes) /\ t \o r = wbuf
  BY <1>3, TakenAndRest
<1>5. g \in Seq(Bytes) /\ q \in Seq(Bytes) /\ j \in Seq(Bytes)
  BY <1>0, <1>1, StreamTypes
<1>6. /\ UNCHANGED <<sock, sent, got>>
      /\ sock[c]["cli"] \in Alive
      /\ inbox'[c]["cli"] = q \o t /\ inbox'[c]["srv"] = j
      /\ \A d \in Clients \ {c} : inbox'[d] = inbox[d]
  <2>1. UNCHANGED <<sock, sent, got>>
    BY DEF WriteSome
  <2>2. inbox' = [inbox EXCEPT ![c]["cli"] = @ \o t] /\ sock[c]["cli"] \in Alive
    BY <1>2 DEF Deliver
  <2>3. inbox \in [Clients -> [Sides -> Seq(Bytes)]]
    BY <1>0 DEF TypeOK, SocketsTypeOK, EachEnd
  <2> HIDE DEF t
  <2> QED
    BY <2>1, <2>2, <2>3
<1>7. InHand(c) = t \o r
  BY <1>1, <1>4 DEF InHand
<1>8. /\ InHand(c)' = r
      /\ \A d \in Clients \ {c} : InHand(d) = << >> /\ InHand(d)' = << >>
  <2>1. CASE n = Len(wbuf)
    <3>1. r = << >>
      BY <1>3, <2>1, SubSeqEmpty DEF Rest, AtMost
    <3>2. writer' = NoClient /\ wbuf' = << >>
      BY <1>2, <2>1 DEF WriteReturns
    <3> QED
      BY <1>1, <3>1, <3>2, NamesAssumption DEF InHand
  <2>2. CASE n # Len(wbuf)
    BY <1>1, <1>2, <2>2 DEF InHand
  <2> QED
    BY <2>1, <2>2
<1>9. sock[c]["cli"] = "open"
  BY <1>1, <1>6 DEF Stream, EstablishedInv, Alive
<1>10. sent[c] = g \o q \o (t \o r) \o j
  BY <1>1, <1>7, <1>9 DEF Stream, Conserved, Alive
<1>11. /\ sent[c] = g \o (q \o t) \o r \o j
       /\ IsPrefix(g \o (q \o t), sent[c])
  <2> HIDE DEF g, q, t, r, j
  <2>1. /\ g \o q \o (t \o r) \o j = g \o (q \o t) \o r \o j
        /\ IsPrefix(g \o (q \o t), g \o q \o (t \o r) \o j)
    BY <1>4, <1>5, HandOver
  <2> QED
    BY <1>10, <2>1
<1>12. Integrity(c)' /\ Conserved(c)'
  BY <1>6, <1>8, <1>11 DEF Integrity, Conserved
<1>13. EstablishedInv(c)'
  BY <1>1, <1>6, <1>9 DEF EstablishedInv, Unborn, Closed
<1>14. NoMoreThanSent(c)'
  <2> DEFINE lg == Len(g)
             lq == Len(q)
             lt == Len(t)
             lr == Len(r)
             lj == Len(j)
             ls == Len(sent[c])
             lqt == Len(q \o t)
             ltr == Len(t \o r)
  <2>1. lqt = lq + lt /\ ltr = lt + lr
    BY <1>4, <1>5, ConcatProperties
  <2>2. lg \in Nat /\ lq \in Nat /\ lt \in Nat /\ lr \in Nat /\ lj \in Nat /\ ls \in Nat
    BY <1>0, <1>1, <1>4, <1>5, LenProperties, StreamTypes
  <2>3. lg + lq + ltr + lj =< ls
    BY <1>1, <1>7 DEF Stream, NoMoreThanSent
  <2>4. lg + lqt + lr + lj =< ls => NoMoreThanSent(c)'
    BY <1>6, <1>8 DEF NoMoreThanSent
  <2> HIDE DEF lg, lq, lt, lr, lj, ls, lqt, ltr
  <2>5. lg + lqt + lr + lj =< ls
    BY <2>1, <2>2, <2>3
  <2> QED
    BY <2>4, <2>5
<1>15. ASSUME NEW d \in Clients, d # c PROVE Stream(d)'
  BY <1>6, <1>8, <1>15, Untouched
<1> QED
  BY <1>12, <1>13, <1>14, <1>15 DEF Stream

\* write() on a connection whose client has closed: what is in hand is lost.
LEMMA WriteLostStream ==
  ASSUME FdInv, \A d \in Clients : Stream(d), WriteSwallowed \/ WriteFails
  PROVE  \A d \in Clients : Stream(d)'
<1> USE Sided
<1>0. TypeOK /\ TypeOK'
  BY WriteStep DEF FdInv
<1>1. PICK c \in Clients : c = writer /\ Conn(c) = c
  BY WriterConn DEF InWrite, WriteSwallowed, WriteFails
<1>2. sock[c]["cli"] \in Closed
  <2>1. CASE WriteSwallowed
    BY <1>1, <2>1 DEF WriteSwallowed, Swallow
  <2>2. CASE WriteFails
    <3>1. err[c]["srv"] # "none"
      BY <1>1, <2>2 DEF WriteFails, FailOnce
    <3> QED
      BY <3>1 DEF FdInv, CallInv
  <2> QED
    BY <2>1, <2>2
<1>3. UNCHANGED <<sock, inbox, sent, got>> /\ wbuf' = << >> /\ writer' = NoClient
  BY DEF WriteSwallowed, WriteFails, WriteReturns, Swallow, FailOnce
<1>4. \A d \in Clients : InHand(d)' = << >>
  BY <1>3 DEF InHand
<1>5. \A d \in Clients \ {c} : InHand(d) = << >>
  BY <1>1 DEF InHand
<1>6. Stream(c)'
  <2>1. IsPrefix(inbox'[c]["cli"], inbox[c]["cli"])
    BY <1>0, <1>3, StreamTypes, PrefixSelf
  <2>2. /\ Len(inbox'[c]["srv"]) =< Len(inbox[c]["srv"])
        /\ Len(InHand(c)') =< Len(InHand(c))
    BY <1>0, <1>3, <1>4, StreamTypes, EmptySeq
  <2>3. EstablishedInv(c)'
    BY <1>3 DEF Stream, EstablishedInv, Unborn
  <2> QED
    BY <1>0, <1>2, <1>3, <2>1, <2>2, <2>3, Loss DEF Closed
<1>7. ASSUME NEW d \in Clients, d # c PROVE Stream(d)'
  BY <1>3, <1>4, <1>5, <1>7, Untouched
<1> QED
  BY <1>6, <1>7

\* The end of the server is a loss on every connection at once.
LEMMA EndStream ==
  ASSUME FdInv, \A d \in Clients : Stream(d), Sigpipe \/ EpollCreateFails
  PROVE  \A d \in Clients : Stream(d)'
<1> USE Sided
<1> SUFFICES ASSUME NEW d \in Clients PROVE Stream(d)'
  OBVIOUS
<1>0. TypeOK /\ TypeOK'
  BY SigpipeStep, EpollCreateFailsStep DEF FdInv
<1>1. CloseServer /\ sent' = sent /\ got' = got /\ InHand(d)' = << >>
  BY DEF Sigpipe, EpollCreateFails, InHand, FdInv, CallInv, InWrite
<1>2. /\ sock'[d]["cli"] = sock[d]["cli"]
      /\ sock'[d]["srv"] \notin Alive
      /\ sock[d]["srv"] # "none" => sock'[d]["srv"] # "none"
      /\ inbox'[d]["cli"] = inbox[d]["cli"] /\ inbox'[d]["srv"] = << >>
  BY <1>0, <1>1 DEF CloseServer, Closing, Alive, TypeOK, SocketsTypeOK, EachEnd
<1>3. IsPrefix(inbox'[d]["cli"], inbox[d]["cli"])
  BY <1>0, <1>2, StreamTypes, PrefixSelf
<1>4. /\ Len(inbox'[d]["srv"]) =< Len(inbox[d]["srv"])
      /\ Len(InHand(d)') =< Len(InHand(d))
  BY <1>0, <1>1, <1>2, StreamTypes, EmptySeq
<1>5. EstablishedInv(d)'
  BY <1>1, <1>2 DEF Stream, EstablishedInv, Unborn
<1> QED
  BY <1>0, <1>1, <1>2, <1>3, <1>4, <1>5, Loss

-----------------------------------------------------------------------------
(* The end of the server.                                                  *)

\* SIGPIPE hits a write() that has bytes left, so its client has not had them
\* back, and the error it hits on was latched because that client has closed.
LEMMA SigpipeUnechoed ==
  ASSUME FdInv, \A d \in Clients : Stream(d), Sigpipe
  PROVE  DiesOnlyForUnechoed'
<1> USE Sided
<1>0. TypeOK
  BY DEF FdInv
<1>1. PICK c \in Clients : c = writer /\ Conn(c) = c /\ wbuf # << >>
  BY WriterConn DEF InWrite, Sigpipe
<1>2. sock[c]["cli"] \in Closed
  BY <1>1 DEF Sigpipe, FdInv, CallInv
<1>3. sock'[c]["cli"] = sock[c]["cli"] /\ sent' = sent /\ got' = got
  BY <1>0 DEF Sigpipe, CloseServer, TypeOK, SocketsTypeOK, EachEnd
<1>4. got[c] # sent[c]
  <2> DEFINE g == Len(got[c])
             i == Len(inbox[c]["cli"])
             h == Len(InHand(c))
             j == Len(inbox[c]["srv"])
             s == Len(sent[c])
  <2>1. g \in Nat /\ i \in Nat /\ h \in Nat /\ j \in Nat /\ s \in Nat
    BY <1>0, StreamTypes
  <2>2. h # 0
    BY <1>0, <1>1, EmptySeq DEF InHand, TypeOK
  <2>3. g + i + h + j =< s
    BY DEF Stream, NoMoreThanSent
  <2>4. got[c] = sent[c] => g = s
    OBVIOUS
  <2> HIDE DEF g, i, h, j, s
  <2>5. g # s
    BY <2>1, <2>2, <2>3
  <2> QED
    BY <2>4, <2>5
<1> QED
  BY <1>2, <1>3, <1>4 DEF DiesOnlyForUnechoed

\* A client that has closed sends and reads nothing more.
LEMMA EnvironmentUnechoed ==
  ASSUME FdInv, DiesOnlyForUnechoed, PeerNext \/ Network, UNCHANGED serverVars
  PROVE  DiesOnlyForUnechoed'
<1> USE Sided
<1>0. TypeOK
  BY DEF FdInv
<1>1. \A c \in Clients : Kept(c)
  BY PeerKeeps, NetworkKeeps DEF FdInv, TypeOK
<1>2. ASSUME NEW c \in Clients, sock[c]["cli"] \in Closed
      PROVE  sent'[c] = sent[c] /\ got'[c] = got[c]
  <2>1. CASE Network
    BY <2>1 DEF Network, Establish, Refuse, LearnAbort, LearnProvoked
  <2>2. CASE PeerNext
    <3> PICK d \in Clients :
          \/ Connect(d) \/ ClientClose(d)
          \/ PeerSend(d) \/ ClientSendFails(d)
          \/ PeerReceive(d)
      BY <2>2 DEF PeerNext
    <3>1. CASE Connect(d) \/ ClientClose(d) \/ ClientSendFails(d)
      BY <3>1 DEF Connect, ClientClose, ClientSendFails
    <3>2. CASE PeerSend(d)
      <4>1. got' = got /\ sock[d]["cli"] = "open"
            /\ \A b \in Clients \ {d} : sent'[b] = sent[b]
        BY <1>0, <3>2 DEF PeerSend, ClientSend, TypeOK, SocketsTypeOK
      <4> QED
        BY <1>2, <4>1 DEF Closed
    <3>3. CASE PeerReceive(d)
      <4>1. sent' = sent /\ sock[d]["cli"] = "open"
            /\ \A b \in Clients \ {d} : got'[b] = got[b]
        BY <1>0, <3>3 DEF PeerReceive, ClientReceive, TypeOK, SocketsTypeOK
      <4> QED
        BY <1>2, <4>1 DEF Closed
    <3> QED
      BY <3>1, <3>2, <3>3
  <2> QED
    BY <2>1, <2>2
<1> QED
  BY <1>1, <1>2 DEF DiesOnlyForUnechoed, Kept, serverVars

-----------------------------------------------------------------------------

LEMMA StreamInit == Init => StreamInv
<1> SUFFICES ASSUME Init PROVE StreamInv
  OBVIOUS
<1> USE Sided
<1>1. << >> \o << >> = << >> /\ << >> \in Seq(Bytes)
  BY ConcatEmptySeq, EmptySeq
<1>2. IsPrefix(<< >>, << >>)
  BY <1>1, PrefixSelf
<1>3. ASSUME NEW d \in Clients PROVE Stream(d)
  <2>1. /\ sent[d] = << >> /\ got[d] = << >> /\ InHand(d) = << >>
        /\ inbox[d]["cli"] = << >> /\ inbox[d]["srv"] = << >>
        /\ sock[d]["cli"] = "none" /\ sock[d]["srv"] = "none"
    BY DEF Init, SocketsInit, InHand
  <2>2. Integrity(d) /\ Conserved(d) /\ EstablishedInv(d)
    BY <1>1, <1>2, <2>1 DEF Integrity, Conserved, EstablishedInv, Unborn, Closed
  <2>3. NoMoreThanSent(d)
    BY <2>1, EmptySeq DEF NoMoreThanSent
  <2> QED
    BY <2>2, <2>3 DEF Stream
<1> QED
  BY <1>3 DEF StreamInv, DiesOnlyForUnechoed, Init

LEMMA StreamStep ==
  ASSUME FdInv, StreamInv, [Next]_vars
  PROVE  StreamInv'
<1>0. DiesOnlyForUnechoed /\ \A d \in Clients : Stream(d)
  BY DEF StreamInv
<1>1. CASE ServerNext
  <2>1. \A d \in Clients : Stream(d)'
    BY <1>0, <1>1, QuietStream, AcceptStream, ReadBytesStream, ReadEofStream,
       WriteSomeStream, WriteLostStream, EndStream DEF ServerNext
  <2>2. CASE Sigpipe
    BY <1>0, <2>1, <2>2, SigpipeUnechoed DEF StreamInv
  <2>3. CASE ~Sigpipe
    <3>1. pc' # "killed"
      BY <1>1, <2>3 DEF ServerNext, Listen, ListenFails, EpollCreate, EpollCreateFails, EpollWait,
         Accept, AcceptFails, ReadBytes, ReadEof, WriteSome, WriteSwallowed, WriteFails, WriteReturns
    <3> QED
      BY <2>1, <3>1 DEF StreamInv, DiesOnlyForUnechoed
  <2> QED
    BY <2>2, <2>3
<1>2. CASE PeerNext /\ UNCHANGED serverVars
  BY <1>0, <1>2, PeerStream, EnvironmentUnechoed DEF StreamInv
<1>3. CASE Network /\ UNCHANGED serverVars
  BY <1>0, <1>3, NetworkStream, EnvironmentUnechoed DEF StreamInv
<1>4. CASE UNCHANGED vars
  <2>1. \A d \in Clients : InHand(d)' = InHand(d)
    BY <1>4 DEF InHand, vars, serverVars
  <2>2. \A d \in Clients : Stream(d)'
    BY <1>0, <1>4, <2>1, Untouched DEF vars, sockVars
  <2> QED
    BY <1>0, <1>4, <2>2 DEF StreamInv, DiesOnlyForUnechoed, vars, sockVars, serverVars
<1> QED
  BY <1>1, <1>2, <1>3, <1>4 DEF Next

\* The inductive invariant of the bytes, for every client: what is back and on
\* the way back is a prefix of what was sent, nothing is missing while both ends
\* are there, and SIGPIPE has ended the server only for an unechoed client.
THEOREM StreamInvariant == Spec => []StreamInv
<1>1. FdInv /\ FdInv' /\ StreamInv /\ [Next]_vars => StreamInv'
  BY StreamStep
<1> QED
  BY <1>1, StreamInit, FdInvariant, PTL DEF Spec

\* What comes back is what was sent, in order, with nothing of anybody else's.
THEOREM EchoIsIntact == Spec => []EchoIntegrity
<1>1. StreamInv => EchoIntegrity
  BY DEF StreamInv, Stream, EchoIntegrity
<1> QED
  BY <1>1, StreamInvariant, PTL

\* While both ends are there, every byte that was sent is in exactly one place.
THEOREM NothingLost == Spec => []EchoConserved
<1>1. StreamInv => EchoConserved
  BY DEF StreamInv, Stream, EchoConserved
<1> QED
  BY <1>1, StreamInvariant, PTL

\* Only a client that closed before it had everything back takes the server down.
THEOREM DeathHasACause == Spec => []DiesOnlyForUnechoed
BY StreamInvariant, PTL DEF StreamInv

-----------------------------------------------------------------------------
(* The server implements the echo service.                                 *)

LEMMA SamePrefix == \A s, t : Service!IsPrefix(s, t) <=> IsPrefix(s, t)
  BY DEF Service!IsPrefix, IsPrefix

\* A client's write() hands over more, and its read() returns some of it; no
\* other step touches what was sent or returned.
LEMMA ServiceStep ==
  ASSUME FdInv, StreamInv, [Next]_vars
  PROVE  [Service!Next]_<<sent, got>>
<1> USE Sided
<1>0. TypeOK
  BY DEF FdInv
<1>1. CASE ServerNext \/ Network \/ UNCHANGED vars
  <2>1. UNCHANGED <<sent, got>>
    BY <1>1 DEF ServerNext, Listen, ListenFails, EpollCreate, EpollCreateFails, EpollWait,
       Accept, AcceptFails, ReadBytes,
       ReadEof, WriteSome, WriteSwallowed, WriteFails, Sigpipe, Network, Establish, Refuse,
       LearnAbort, LearnProvoked, vars, sockVars
  <2> QED
    BY <2>1
<1>2. ASSUME NEW c \in Clients, Connect(c) \/ ClientClose(c) \/ ClientSendFails(c)
      PROVE  UNCHANGED <<sent, got>>
  BY <1>2 DEF Connect, ClientClose, ClientSendFails
<1>3. ASSUME NEW c \in Clients, PeerSend(c) PROVE Service!Submit(c)
  <2>1. PICK data \in Seq(Bytes) : ClientSend(c, data)
    BY <1>3, EchoServerAssumption DEF PeerSend
  <2>2. sent[c] \in Seq(Bytes) /\ sent' = [sent EXCEPT ![c] = @ \o data] /\ got' = got
    BY <1>0, <2>1, StreamTypes DEF ClientSend
  <2>3. sent'[c] = sent[c] \o data
    BY <1>0, <2>2 DEF TypeOK, SocketsTypeOK
  <2>4. IsPrefix(sent[c], sent[c] \o data) /\ sent[c] \o data \in Seq(Bytes)
    BY <2>2, PrefixOfConcat, ConcatProperties
  <2> QED
    BY <2>2, <2>3, <2>4, SamePrefix DEF Service!Submit
<1>4. ASSUME NEW c \in Clients, PeerReceive(c) PROVE Service!Return(c)
  <2>1. PICK n \in Nat : ClientReceive(c, n)
    BY <1>4, SocketsAssumption DEF PeerReceive
  <2> DEFINE g == got[c]
             q == inbox[c]["cli"]
             t == Taken(n, q)
             r == Rest(n, q)
  <2>2. g \in Seq(Bytes) /\ q \in Seq(Bytes) /\ sent[c] \in Seq(Bytes)
    BY <1>0, StreamTypes
  <2>3. t \in Seq(Bytes) /\ r \in Seq(Bytes) /\ t \o r = q
    BY <2>2, TakenAndRest
  <2>4. sent' = sent /\ got' = [got EXCEPT ![c] = g \o t] /\ got'[c] = g \o t
    BY <1>0, <2>1 DEF ClientReceive, TypeOK, SocketsTypeOK
  <2>5. IsPrefix(g \o q, sent[c])
    BY DEF StreamInv, Stream, Integrity
  <2> HIDE DEF g, q, t, r
  <2>6. IsPrefix(t, q)
    BY <2>3, PrefixOfConcat
  <2>7. IsPrefix(g \o t, sent[c])
    BY <2>2, <2>3, <2>5, <2>6, LoseTail
  <2>8. IsPrefix(g, g \o t)
    BY <2>2, <2>3, PrefixOfConcat
  <2> QED
    BY <2>4, <2>7, <2>8, SamePrefix DEF Service!Return, g
<1> QED
  BY <1>1, <1>2, <1>3, <1>4 DEF Next, PeerNext, Service!Next

\* Whatever clients, network and server do, a client sees the echo service.
THEOREM ImplementsService == Spec => ServiceSpec
<1>1. Init => Service!Init
  BY DEF Init, SocketsInit, Service!Init
<1>2. FdInv /\ StreamInv /\ [Next]_vars => [Service!Next]_<<sent, got>>
  BY ServiceStep
<1> QED
  BY <1>1, <1>2, FdInvariant, StreamInvariant, PTL DEF Spec, ServiceSpec, Service!Spec


-----------------------------------------------------------------------------
(* Lines, and what a client cuts off them.                                 *)

LEMMA TypedFacts ==
  ASSUME NEW c \in Clients, NEW k \in Nat, NEW n \in Nat, k + n =< MaxTyped[c]
  PROVE  /\ TypedAfter(c, k, n) \in Seq(Bytes) /\ Len(TypedAfter(c, k, n)) = n
         /\ \A i \in 1..n : TypedAfter(c, k, n)[i] = <<c, k + i>>
<1>1. MaxTyped[c] \in Nat /\ {c} \X (1..MaxTyped[c]) \subseteq Bytes
  BY EchoClientAssumption
<1>2. ASSUME NEW i \in 1..n PROVE <<c, k + i>> \in Bytes
  <2>1. k + i \in 1..MaxTyped[c]
    BY <1>1
  <2> QED
    BY <1>1, <2>1
<1>3. TypedAfter(c, k, n) \in [1..n -> Bytes]
  BY <1>2 DEF TypedAfter
<1> QED
  BY <1>3 DEF TypedAfter

\* A part of what was typed was typed without a gap.
PartTyped(c, k, n, f, l) ==
  SubSeq(TypedAfter(c, k, n), f, l) = TypedAfter(c, k + f - 1, l - f + 1)

LEMMA TypedPart ==
  ASSUME NEW c \in Clients, NEW k \in Nat, NEW n \in Nat, k + n =< MaxTyped[c],
         NEW f \in Nat \ {0}, NEW l \in Nat, f =< l + 1, l =< n
  PROVE  PartTyped(c, k, n, f, l)
<1> DEFINE q == TypedAfter(c, k, n)
           s == SubSeq(q, f, l)
           t == TypedAfter(c, k + f - 1, l - f + 1)
<1>1. q \in Seq(Bytes) /\ Len(q) = n /\ \A i \in 1..n : q[i] = <<c, k + i>>
  BY TypedFacts
<1> HIDE DEF q
<1>2. /\ k + f - 1 \in Nat /\ l - f + 1 \in Nat
      /\ (k + f - 1) + (l - f + 1) =< MaxTyped[c]
  BY EchoClientAssumption
<1>3. \A i \in f..l : q[i] \in Bytes
  BY <1>1, ElementOfSeq
<1>4. /\ s \in Seq(Bytes) /\ Len(s) = l - f + 1
      /\ \A i \in 1..(l - f + 1) : s[i] = q[f + i - 1]
  <2>1. /\ s \in Seq(Bytes)
        /\ Len(s) = IF f <= l THEN l - f + 1 ELSE 0
        /\ \A i \in 1..(l - f + 1) : s[i] = q[f + i - 1]
    BY <1>3, SubSeqProperties
  <2> HIDE DEF s
  <2> QED
    BY <2>1
<1>5. /\ t \in Seq(Bytes) /\ Len(t) = l - f + 1
      /\ \A i \in 1..(l - f + 1) : t[i] = <<c, k + f - 1 + i>>
  BY <1>2, TypedFacts
<1>6. ASSUME NEW i \in 1..(l - f + 1) PROVE s[i] = t[i]
  <2>1. f + i - 1 \in 1..n /\ k + (f + i - 1) = k + f - 1 + i
    OBVIOUS
  <2> QED
    BY <1>1, <1>4, <1>5, <2>1
<1>7. s = t
  <2> HIDE DEF s, t
  <2> QED
    BY <1>2, <1>4, <1>5, <1>6, SeqEqual
<1> QED
  BY <1>7 DEF q, PartTyped

\* What a read of up to m bytes takes of a line and what it leaves, and a line
\* without its last byte.
CutAt(m, c, k, n) ==
  \E a \in 0..n :
    /\ a = IF m =< n THEN m ELSE n
    /\ Taken(m, TypedAfter(c, k, n)) = TypedAfter(c, k, a)
    /\ Rest(m, TypedAfter(c, k, n)) = TypedAfter(c, k + a, n - a)

LEMMA CutTyped ==
  ASSUME NEW c \in Clients, NEW k \in Nat, NEW n \in Nat, NEW m \in Nat, k + n =< MaxTyped[c]
  PROVE  CutAt(m, c, k, n)
<1> DEFINE q == TypedAfter(c, k, n)
           a == AtMost(m, q)
<1>1. Len(q) = n
  BY TypedFacts
<1>2. a = (IF m =< n THEN m ELSE n) /\ a \in 0..n
  BY <1>1 DEF AtMost
<1> HIDE DEF a
<1>3. Taken(m, q) = TypedAfter(c, k, a)
  <2>1. 1 \in Nat \ {0} /\ a \in Nat /\ 1 =< a + 1 /\ a =< n /\ k + 1 - 1 = k /\ a - 1 + 1 = a
    BY <1>2
  <2>2. PartTyped(c, k, n, 1, a)
    BY <2>1, TypedPart
  <2> QED
    BY <2>1, <2>2 DEF Taken, a, PartTyped
<1>4. Rest(m, q) = TypedAfter(c, k + a, n - a)
  <2>1. /\ a + 1 \in Nat \ {0} /\ n \in Nat /\ a + 1 =< n + 1 /\ n =< n
        /\ k + (a + 1) - 1 = k + a /\ n - (a + 1) + 1 = n - a
    BY <1>2
  <2>2. PartTyped(c, k, n, a + 1, n)
    BY <2>1, TypedPart
  <2> QED
    BY <1>1, <2>1, <2>2 DEF Rest, a, PartTyped
<1> QED
  BY <1>2, <1>3, <1>4 DEF CutAt

LEMMA FrontTyped ==
  ASSUME NEW c \in Clients, NEW k \in Nat, NEW n \in Nat \ {0}, k + n =< MaxTyped[c]
  PROVE  Front(TypedAfter(c, k, n)) = TypedAfter(c, k, n - 1)
<1>1. Len(TypedAfter(c, k, n)) = n
  BY TypedFacts
<1>2. /\ 1 \in Nat \ {0} /\ n - 1 \in Nat /\ 1 =< (n - 1) + 1 /\ n - 1 =< n
      /\ k + 1 - 1 = k /\ (n - 1) - 1 + 1 = n - 1
  OBVIOUS
<1>3. PartTyped(c, k, n, 1, n - 1)
  BY <1>2, TypedPart
<1> QED
  BY <1>1, <1>2, <1>3 DEF Front, PartTyped

\* write() hands over the first bytes of what it is given, or none.
LEMMA WriteLineSends ==
  ASSUME SocketsTypeOK, NEW c \in Clients, NEW k \in Nat, NEW n \in Nat, k + n =< MaxTyped[c],
         WriteLine(c, TypedAfter(c, k, n))
  PROVE  \/ UNCHANGED sockVars
         \/ ClientSendFails(c)
         \/ \E m \in 1..n : ClientSend(c, TypedAfter(c, k, m))
<1> DEFINE q == TypedAfter(c, k, n)
<1>1. q # << >> => n # 0
  <2>1. q \in Seq(Bytes) /\ Len(q) = n
    BY TypedFacts
  <2> QED
    BY <2>1, EmptySeq
<1>2. CASE q # << >> /\ Free(c, "srv") > 0 /\ ClientSend(c, Taken(Free(c, "srv"), q))
  <2>1. Free(c, "srv") \in Nat
    <3>1. Len(inbox[c]["srv"]) \in Nat
      BY Sided, LenProperties DEF SocketsTypeOK, EachEnd
    <3> QED
      BY <1>2, <3>1, SocketsAssumption DEF Free
  <2> HIDE DEF q
  <2>2. CutAt(Free(c, "srv"), c, k, n)
    BY <2>1, CutTyped
  <2>3. PICK a \in 0..n : a = (IF Free(c, "srv") =< n THEN Free(c, "srv") ELSE n)
                          /\ Taken(Free(c, "srv"), q) = TypedAfter(c, k, a)
    BY <2>2 DEF CutAt, q
  <2>4. a \in 1..n
    BY <1>1, <1>2, <2>1, <2>3
  <2> QED
    BY <1>2, <2>3, <2>4
<1>3. CASE q # << >> /\ ClientSend(c, q)
  BY <1>1, <1>3
<1> QED
  BY <1>2, <1>3 DEF WriteLine

-----------------------------------------------------------------------------
(* What a client does to its socket.                                       *)

\* The first line that waits: its bytes were typed after all that was sent.
LEMMA FirstLine ==
  ASSUME SocketsTypeOK, ClientTypeOK, NEW c \in Clients, LinesInv(c), tty[c] # << >>
  PROVE  \E k \in Nat : \E n \in Nat \ {0} :
           /\ Head(tty[c]) = TypedAfter(c, k, n)
           /\ k + n =< MaxTyped[c] /\ Len(sent[c]) =< k
<1>1. /\ typed[c] \in Nat /\ MaxTyped[c] \in Nat /\ typed[c] =< MaxTyped[c]
      /\ Len(tty[c]) \in Nat \ {0} /\ Head(tty[c]) = tty[c][1]
  <2>1. tty[c] \in Seq(Seq(Bytes)) /\ typed[c] \in Nat
    BY DEF ClientTypeOK
  <2> QED
    BY <2>1, EmptySeq, EchoClientAssumption DEF LinesInv
<1>2. PICK start \in [1..(Len(tty[c]) + 1) -> 0..typed[c]] :
        /\ \A i \in 1..Len(tty[c]) :
             /\ start[i] < start[i + 1]
             /\ tty[c][i] = TypedAfter(c, start[i], start[i + 1] - start[i])
        /\ Len(sent[c]) =< start[1]
  BY DEF LinesInv
<1>3. start[1] \in 0..typed[c] /\ start[1 + 1] \in 0..typed[c] /\ 1 \in 1..Len(tty[c])
  <2>1. 1 \in 1..(Len(tty[c]) + 1) /\ 1 + 1 \in 1..(Len(tty[c]) + 1) /\ 1 \in 1..Len(tty[c])
    BY <1>1
  <2> QED
    BY <1>2, <2>1
<1>4. start[1] < start[1 + 1] /\ tty[c][1] = TypedAfter(c, start[1], start[1 + 1] - start[1])
  BY <1>2, <1>3
<1>5. start[1] \in Nat /\ start[1 + 1] - start[1] \in Nat \ {0}
      /\ start[1] + (start[1 + 1] - start[1]) =< MaxTyped[c]
  BY <1>1, <1>3, <1>4
<1> QED
  BY <1>1, <1>2, <1>4, <1>5

\* Sending from a line is sending what EchoServer lets its clients send.
LEMMA LineIsSent ==
  ASSUME SystemInv, NEW c \in Clients, StdinLine(c)
  PROVE  \/ UNCHANGED sockVars
         \/ ClientSendFails(c)
         \/ PeerSend(c)
<1>0. SocketsTypeOK /\ ClientTypeOK /\ LinesInv(c)
  BY DEF SystemInv, FdInv, TypeOK, ClientInv
<1>1. tty[c] # << >> /\ WriteLine(c, Front(Taken(ReadMax, Head(tty[c]))))
  BY DEF StdinLine
<1>2. PICK k \in Nat, n \in Nat \ {0} :
        /\ Head(tty[c]) = TypedAfter(c, k, n)
        /\ k + n =< MaxTyped[c] /\ Len(sent[c]) =< k
  BY <1>0, <1>1, FirstLine
<1>3. CutAt(ReadMax, c, k, n)
  BY <1>2, CutTyped, SocketsAssumption
<1>4. PICK a \in 0..n :
        /\ a = IF ReadMax =< n THEN ReadMax ELSE n
        /\ Taken(ReadMax, TypedAfter(c, k, n)) = TypedAfter(c, k, a)
  BY <1>3 DEF CutAt
<1>5. a \in Nat \ {0} /\ k + a =< MaxTyped[c] /\ a =< ReadMax /\ a - 1 \in Nat
      /\ k + (a - 1) =< MaxTyped[c]
  BY <1>2, <1>4, SocketsAssumption, EchoClientAssumption
<1>6. WriteLine(c, TypedAfter(c, k, a - 1))
  BY <1>1, <1>2, <1>4, <1>5, FrontTyped
<1>7. ASSUME NEW m \in 1..(a - 1), ClientSend(c, TypedAfter(c, k, m)) PROVE PeerSend(c)
  <2>1. k \in 0..MaxTyped[c] /\ m \in 1..ReadMax /\ k + m =< MaxTyped[c] /\ m \in Nat
    BY <1>5, SocketsAssumption, EchoClientAssumption
  <2>2. TypedAfter(c, k, m) \in Chunks[c] /\ MaxTyped[c] =< MaxSent
    BY <2>1, EchoSystemAssumption
  <2>3. Len(TypedAfter(c, k, m)) = m
    BY <2>1, TypedFacts
  <2>4. Len(sent[c]) \in Nat
    BY <1>0, LenProperties DEF SocketsTypeOK
  <2>5. Len(sent[c]) + m =< MaxSent
    BY <1>2, <2>1, <2>2, <2>4, EchoClientAssumption, EchoServerAssumption
  <2> QED
    BY <1>7, <2>2, <2>3, <2>5 DEF PeerSend
<1> QED
  BY <1>0, <1>5, <1>6, <1>7, WriteLineSends

\* A read() takes no more than there is room for.
LEMMA ReadIsReceived ==
  ASSUME SystemInv, NEW c \in Clients, ClientReceive(c, ReadMax)
  PROVE  PeerReceive(c)
<1> DEFINE q == inbox[c]["cli"]
           n == AtMost(ReadMax, q)
<1>1. q # << >> /\ q \in Seq(Bytes) /\ Len(q) =< Room /\ Len(q) \in Nat \ {0}
  <2>1. q \in Seq(Bytes) /\ q # << >>
    BY Sided DEF SystemInv, FdInv, TypeOK, SocketsTypeOK, EachEnd, ClientReceive, Receive
  <2>2. Len(q) =< Room
    BY DEF SystemInv, ClientInv, EndInv
  <2> HIDE DEF q
  <2> QED
    BY <2>1, <2>2, EmptySeq
<1>2. n \in 1..Room /\ AtMost(n, q) = n
  BY <1>1, SocketsAssumption DEF AtMost
<1>3. Taken(n, q) = Taken(ReadMax, q) /\ Rest(n, q) = Rest(ReadMax, q)
  BY <1>2 DEF Taken, Rest
<1> HIDE DEF n
<1>4. ClientReceive(c, n)
  BY <1>3, Sided DEF ClientReceive, Receive, q
<1> QED
  BY <1>2, <1>4 DEF PeerReceive

\* What a client does to its connection, EchoServer lets its clients do.
LEMMA ClientCalls ==
  ASSUME SystemInv, NEW c \in Clients, ClientStep(c) \/ UserStep(c)
  PROVE  \/ Connect(c) \/ ClientClose(c) \/ PeerSend(c) \/ ClientSendFails(c)
         \/ PeerReceive(c) \/ UNCHANGED sockVars
<1>1. ASSUME Dies(c) PROVE UNCHANGED sockVars \/ ClientClose(c)
  BY <1>1 DEF Dies
<1>2. CASE Start(c) \/ StartFails(c) \/ Wait(c)
  BY <1>2 DEF Start, StartFails, Wait
<1>3. CASE StdinLine(c)
  BY <1>3, LineIsSent
<1>4. CASE StdinSigpipe(c) \/ StdinEof(c)
  BY <1>1, <1>4 DEF StdinSigpipe, StdinEof
<1>5. CASE SocketRead(c)
  BY <1>5, ReadIsReceived DEF SocketRead
<1>6. CASE SocketReadOverflows(c) \/ SocketEof(c)
  BY <1>1, <1>6 DEF SocketReadOverflows, SocketEof
<1>7. CASE ConnectCallback(c) \/ WriteCallback(c)
  BY <1>7 DEF ConnectCallback, WriteCallback
<1>8. CASE UserStep(c)
  BY <1>1, <1>8 DEF UserStep, TypeLine, TypeEof, Kill
<1> QED
  BY <1>2, <1>3, <1>4, <1>5, <1>6, <1>7, <1>8 DEF ClientStep

\* Every step of the system is one of the server with programs of any kind.
LEMMA SystemStepIsNext ==
  ASSUME SystemInv, [SystemNext]_systemVars
  PROVE  [Next]_vars
<1>1. CASE ServerNext
  BY <1>1 DEF Next
<1>2. CASE Network /\ UNCHANGED <<serverVars, clientVars>>
  BY <1>2 DEF Next
<1>3. ASSUME NEW c \in Clients, ClientStep(c) \/ UserStep(c), UNCHANGED serverVars
      PROVE  [Next]_vars
  BY <1>3, ClientCalls DEF Next, PeerNext, vars
<1>4. CASE UNCHANGED systemVars
  BY <1>4 DEF systemVars
<1> QED
  BY <1>1, <1>2, <1>3, <1>4 DEF SystemNext

-----------------------------------------------------------------------------
(* What a step of the server or the network does to a client's end, and    *)
(* what one of another client does.                                        *)

\* What happens at a server's end does not change the client's.
LEMMA OtherEnd ==
  ASSUME NEW S, NEW f \in EachEnd(S), NEW c \in Clients, NEW d \in Clients, NEW x
  PROVE  [f EXCEPT ![c]["srv"] = x][d]["cli"] = f[d]["cli"]
  BY Sided DEF EachEnd, Sides

\* The server's end of a connection does not vanish, and the client's end is
\* closed by nobody but the client; a server that starts has no connections.
EndKept(d) ==
  /\ sent'[d] = sent[d]
  /\ sock'[d]["cli"] \in Closed => sock[d]["cli"] \in Closed
  /\ sock[d]["srv"] # "none" => sock'[d]["srv"] # "none"
  /\ sock'[d]["cli"] \in Closed /\ sock'[d]["srv"] # "none" => sock[d]["srv"] # "none"
  /\ listening' => listening \/ sock'[d]["srv"] = "none"
  /\ EndInv(d) => EndInv(d)'

\* The client's end stays as it is, with as many bytes on their way as there is
\* room for, and the server's end is there if it was.
LEMMA EndUntouched ==
  ASSUME SocketsTypeOK, NEW d \in Clients,
         sock'[d]["cli"] = sock[d]["cli"], sock'[d]["srv"] = "none" <=> sock[d]["srv"] = "none",
         err'[d]["cli"] = err[d]["cli"], sent'[d] = sent[d],
         listening' => listening \/ sock[d]["srv"] = "none",
         Len(inbox'[d]["cli"]) =< Len(inbox[d]["cli"]) \/ Len(inbox'[d]["cli"]) =< Room,
         Len(inbox'[d]["cli"]) \in Nat
  PROVE  EndKept(d)
<1>1. Len(inbox[d]["cli"]) \in Nat /\ Room \in Nat
  BY Sided, LenProperties, SocketsAssumption DEF SocketsTypeOK, EachEnd
<1> QED
  BY <1>1 DEF EndKept, EndInv

LEMMA ServerKeepsEnds ==
  ASSUME FdInv, StreamInv, ServerNext, NEW d \in Clients
  PROVE  EndKept(d)
<1> USE Sided
<1>0. SocketsTypeOK /\ SocketsTypeOK'
  BY FdStep DEF FdInv, TypeOK, Next
<1>1. Len(inbox[d]["cli"]) \in Nat /\ Len(inbox'[d]["cli"]) \in Nat /\ Room \in Nat
  BY <1>0, LenProperties, SocketsAssumption DEF SocketsTypeOK, EachEnd
<1>2. CASE Listen
  <2>1. sock[d]["srv"] = "none"
    BY <1>2 DEF Listen, FdInv, CallInv
  <2> QED
    BY <1>0, <1>1, <1>2, <2>1, EndUntouched DEF Listen
<1>3. CASE ListenFails \/ EpollCreate \/ EpollWait \/ AcceptFails
  BY <1>0, <1>1, <1>3, EndUntouched
     DEF ListenFails, EpollCreate, EpollWait, AcceptFails, sockVars
<1>4. CASE EpollCreateFails \/ Sigpipe
  <2>1. CloseServer /\ UNCHANGED <<err, sent>>
    BY <1>4 DEF EpollCreateFails, Sigpipe
  <2>2. sock'[d]["cli"] = sock[d]["cli"] /\ inbox'[d]["cli"] = inbox[d]["cli"] /\ ~listening'
    BY <1>0, <2>1 DEF CloseServer, SocketsTypeOK, EachEnd
  <2>3. sock'[d]["srv"] = "none" <=> sock[d]["srv"] = "none"
    BY <1>0, <2>1 DEF CloseServer, SocketsTypeOK, EachEnd, Closing
  <2> QED
    BY <1>0, <1>1, <2>1, <2>2, <2>3, EndUntouched
<1>5. CASE Accept
  <2>1. PICK c \in Queued : sock' = [sock EXCEPT ![c]["srv"] = "open"]
    BY <1>5 DEF Accept
  <2>2. /\ sock'[d]["cli"] = sock[d]["cli"]
        /\ sock'[d]["srv"] = "none" <=> sock[d]["srv"] = "none"
    BY <1>0, <2>1 DEF Queued, SocketsTypeOK, EachEnd
  <2> QED
    BY <1>0, <1>1, <1>5, <2>2, EndUntouched DEF Accept
<1>6. ASSUME NEW c \in Clients, ReadBytes(c) PROVE EndKept(d)
  BY <1>0, <1>1, <1>6, BatchConn, EndUntouched DEF ReadBytes, Receive, SocketsTypeOK, EachEnd
<1>7. ASSUME NEW c \in Clients, ReadEof(c) PROVE EndKept(d)
  <2>1. Close(c, "srv") /\ sock[c]["srv"] = "open" /\ UNCHANGED <<err, sent, listening>>
    BY <1>7, BatchConn DEF ReadEof
  <2>2. /\ sock'[d]["cli"] = sock[d]["cli"] /\ inbox'[d]["cli"] = inbox[d]["cli"]
        /\ sock'[d]["srv"] = "none" <=> sock[d]["srv"] = "none"
    BY <1>0, <2>1 DEF Close, Closing, SocketsTypeOK, EachEnd
  <2> QED
    BY <1>0, <1>1, <2>1, <2>2, EndUntouched
<1>8. CASE WriteSome
  <2>1. PICK n \in 1..Len(wbuf) : Deliver(Conn(writer), "srv", Taken(n, wbuf))
    BY <1>8 DEF WriteSome
  <2>2. writer \in Clients /\ Conn(writer) = writer /\ wbuf \in Seq(Bytes) /\ n \in Nat
    BY <1>8, <2>1, WriterConn, LenProperties DEF InWrite, WriteSome, FdInv, TypeOK
  <2> DEFINE t == Taken(n, wbuf)
             q == inbox[writer]["cli"]
  <2>3. t \in Seq(Bytes) /\ q \in Seq(Bytes) /\ Len(t) \in Nat /\ Len(q) \in Nat
    BY <1>0, <2>2, TakenAndRest, LenProperties, SMTT(30) DEF SocketsTypeOK, EachEnd
  <2>4. Len(t) =< Room - Len(q) /\ inbox' = [inbox EXCEPT ![writer]["cli"] = q \o t] /\ err' = err
    BY <2>1, <2>2 DEF Deliver, Free
  <2> HIDE DEF t, q
  <2>5. Len(q \o t) =< Room
    BY <1>1, <2>3, <2>4, ConcatProperties
  <2>6. inbox'[d]["cli"] = IF d = writer THEN q \o t ELSE inbox[d]["cli"]
    BY <1>0, <2>2, <2>4 DEF SocketsTypeOK, EachEnd
  <2> QED
    BY <1>0, <1>1, <1>8, <2>4, <2>5, <2>6, EndUntouched DEF WriteSome
<1>9. CASE WriteSwallowed \/ WriteFails
  <2>1. UNCHANGED <<sock, sent, listening, inbox>>
    BY <1>9 DEF WriteSwallowed, WriteFails, Swallow, FailOnce
  <2>2. err'[d]["cli"] = err[d]["cli"]
    <3>1. writer \in Clients /\ Conn(writer) = writer
      BY <1>9, WriterConn DEF InWrite, WriteSwallowed, WriteFails
    <3>2. CASE err' = err
      BY <3>2
    <3>3. CASE \E e : err' = [err EXCEPT ![writer]["srv"] = e]
      BY <1>0, <3>1, <3>3, OtherEnd DEF SocketsTypeOK
    <3>4. err' = err \/ \E e : err' = [err EXCEPT ![writer]["srv"] = e]
      BY <1>9, <3>1 DEF WriteSwallowed, WriteFails, Swallow, FailOnce
    <3> QED
      BY <3>2, <3>3, <3>4
  <2> QED
    BY <1>0, <1>1, <2>1, <2>2, EndUntouched
<1> QED
  BY <1>2, <1>3, <1>4, <1>5, <1>6, <1>7, <1>8, <1>9 DEF ServerNext

LEMMA NetworkKeepsEnds ==
  ASSUME FdInv, StreamInv, Network, UNCHANGED serverVars, NEW d \in Clients
  PROVE  EndKept(d)
<1> USE Sided
<1>0. SocketsTypeOK /\ SocketsTypeOK'
  BY FdStep DEF FdInv, TypeOK, Next
<1>1. Len(inbox[d]["cli"]) \in Nat /\ Len(inbox'[d]["cli"]) \in Nat /\ Room \in Nat
  BY <1>0, LenProperties, SocketsAssumption DEF SocketsTypeOK, EachEnd
<1>2. ASSUME NEW c \in Clients, Establish(c) PROVE EndKept(d)
  BY <1>0, <1>1, <1>2 DEF Establish, EndKept, EndInv, SocketsTypeOK, EachEnd, Closed
<1>3. ASSUME NEW c \in Clients, Refuse(c) PROVE EndKept(d)
  BY <1>0, <1>1, <1>3 DEF Refuse, EndKept, EndInv, SocketsTypeOK, EachEnd, Closed
<1>4. ASSUME NEW c \in Clients, LearnAbort(c, "cli") PROVE EndKept(d)
  <2>1. /\ sock[c]["cli"] \in Alive /\ sock[c]["srv"] = "abort"
        /\ UNCHANGED <<sock, sent, listening>>
    BY <1>4 DEF LearnAbort
  <2>2. ~listening
    BY <2>1 DEF FdInv, NeverHangsUp, Alive, Closed
  <2>3. Len(inbox'[d]["cli"]) =< Len(inbox[d]["cli"])
    <3>1. PICK n \in 0..Len(inbox[c]["cli"]) :
            inbox' = [inbox EXCEPT ![c]["cli"] = SubSeq(inbox[c]["cli"], 1, n)]
      BY <1>4 DEF LearnAbort
    <3>2. Len(SubSeq(inbox[c]["cli"], 1, n)) =< Len(inbox[c]["cli"])
      <4>1. inbox[c]["cli"] \in Seq(Bytes)
        BY <1>0 DEF SocketsTypeOK, EachEnd
      <4>2. /\ Len(inbox[c]["cli"]) \in Nat /\ n \in Int /\ 1 \in Int
            /\ \A i \in 1..n : inbox[c]["cli"][i] \in Bytes
        BY <3>1, <4>1, LenProperties
      <4>3. Len(SubSeq(inbox[c]["cli"], 1, n)) = IF 1 <= n THEN n - 1 + 1 ELSE 0
        BY <4>2, SubSeqProperties
      <4> QED
        BY <3>1, <4>2, <4>3
    <3> QED
      BY <1>0, <1>1, <3>1, <3>2 DEF SocketsTypeOK, EachEnd
  <2> QED
    BY <1>1, <2>1, <2>2, <2>3 DEF EndKept, EndInv
<1>5. ASSUME NEW c \in Clients, LearnAbort(c, "srv") PROVE EndKept(d)
  BY <1>0, <1>1, <1>5, EndUntouched DEF LearnAbort, SocketsTypeOK, EachEnd
<1>6. ASSUME NEW c \in Clients, LearnProvoked(c, "cli") PROVE EndKept(d)
  BY <1>0, <1>1, <1>6 DEF LearnProvoked, EndKept, EndInv, SocketsTypeOK, EachEnd, Alive, Closed
<1>7. ASSUME NEW c \in Clients, LearnProvoked(c, "srv") PROVE EndKept(d)
  BY <1>0, <1>1, <1>7, EndUntouched DEF LearnProvoked, SocketsTypeOK, EachEnd
<1> QED
  BY <1>2, <1>3, <1>4, <1>5, <1>6, <1>7 DEF Network, Sides

\* A client changes nothing at the ends of others, and no server's end.
ClientKept(c, d) ==
  /\ listening' = listening /\ sock'[d]["srv"] = sock[d]["srv"]
  /\ EndInv(d)'
  /\ Len(sent[d]) =< Len(sent'[d])
  /\ d # c => sent'[d] = sent[d] /\ sock'[d] = sock[d]

LEMMA CallKeepsEnds ==
  ASSUME FdInv, StreamInv, FdInv', NEW c \in Clients, NEW d \in Clients, EndInv(d),
         \/ Connect(c) \/ ClientClose(c) \/ PeerSend(c) \/ ClientSendFails(c)
         \/ PeerReceive(c) \/ UNCHANGED sockVars
  PROVE  ClientKept(c, d)
<1> USE Sided
<1>0. SocketsTypeOK /\ SocketsTypeOK'
  BY DEF FdInv, TypeOK
<1>1. /\ Len(inbox[d]["cli"]) \in Nat /\ Len(inbox'[d]["cli"]) \in Nat /\ Room \in Nat
      /\ sent[d] \in Seq(Bytes) /\ Len(sent[d]) \in Nat
  BY <1>0, LenProperties, SocketsAssumption DEF SocketsTypeOK, EachEnd
<1>2. CASE Connect(c)
  <2>1. sock[c]["srv"] = "none"
    BY <1>2 DEF Connect, FdInv, CallInv, Unborn
  <2> QED
    BY <1>0, <1>1, <1>2, <2>1 DEF Connect, ClientKept, EndInv, SocketsTypeOK, EachEnd
<1>3. CASE ClientClose(c)
  <2>1. Len(inbox'[d]["cli"]) =< Room
    <3>1. inbox'[d]["cli"] = IF d = c THEN << >> ELSE inbox[d]["cli"]
      BY <1>0, <1>3 DEF ClientClose, Close, SocketsTypeOK, EachEnd
    <3> QED
      BY <1>1, <3>1, EmptySeq DEF EndInv
  <2>2. /\ sock'[d]["srv"] = sock[d]["srv"]
        /\ d # c => sock'[d] = sock[d]
        /\ d = c => sock'[d]["cli"] \in Closed
    BY <1>0, <1>3 DEF ClientClose, Close, Closing, Closed, SocketsTypeOK, EachEnd
  <2> QED
    BY <1>1, <1>3, <2>1, <2>2 DEF ClientClose, ClientKept, EndInv
<1>4. CASE PeerSend(c)
  <2>1. PICK data \in Seq(Bytes) : ClientSend(c, data)
    BY <1>4, EchoServerAssumption DEF PeerSend
  <2>2. /\ sock' = sock /\ listening' = listening /\ sock[c]["cli"] = "open"
        /\ sent' = [sent EXCEPT ![c] = @ \o data]
    BY <2>1 DEF ClientSend
  <2>3. /\ Len(sent[d]) =< Len(sent'[d])
        /\ d # c => sent'[d] = sent[d]
    <3>1. d # c => sent'[d] = sent[d]
      BY <1>0, <2>2 DEF SocketsTypeOK
    <3>2. d = c => sent'[d] = sent[d] \o data
      BY <1>0, <2>2 DEF SocketsTypeOK
    <3>3. Len(sent[d] \o data) = Len(sent[d]) + Len(data) /\ Len(data) \in Nat
      BY <1>1, ConcatProperties, LenProperties
    <3> QED
      BY <1>1, <3>1, <3>2, <3>3
  <2>4. inbox'[d]["cli"] = inbox[d]["cli"]
    <3>1. CASE inbox' = inbox
      BY <3>1
    <3>2. CASE \E q : inbox' = [inbox EXCEPT ![c]["srv"] = q]
      BY <1>0, <3>2, OtherEnd DEF SocketsTypeOK
    <3>3. inbox' = inbox \/ \E q : inbox' = [inbox EXCEPT ![c]["srv"] = q]
      BY <2>1 DEF ClientSend, Deliver, Swallow
    <3> QED
      BY <3>1, <3>2, <3>3
  <2>5. err'[d]["cli"] = err[d]["cli"] \/ (d = c /\ ~listening)
    <3>1. CASE Deliver(c, "cli", data)
      BY <3>1 DEF Deliver
    <3>2. CASE Swallow(c, "cli")
      <4>1. ~listening
        BY <2>2, <3>2 DEF Swallow, FdInv, NeverHangsUp, Closed
      <4> QED
        BY <1>0, <3>2, <4>1 DEF Swallow, SocketsTypeOK, EachEnd
    <3> QED
      BY <2>1, <3>1, <3>2 DEF ClientSend
  <2> QED
    BY <2>2, <2>3, <2>4, <2>5 DEF ClientKept, EndInv
<1>5. CASE ClientSendFails(c)
  <2>1. UNCHANGED <<sock, listening, sent, inbox>> /\ sock[c]["cli"] \notin Closed /\ err[c]["cli"] = "reset"
    BY <1>5 DEF ClientSendFails, FailOnce, Closed
  <2>2. d # c => err'[d]["cli"] = err[d]["cli"]
    BY <1>0, <1>5 DEF ClientSendFails, FailOnce, SocketsTypeOK, EachEnd
  <2> QED
    BY <1>1, <2>1, <2>2 DEF ClientKept, EndInv
<1>6. CASE PeerReceive(c)
  <2>1. PICK n \in Nat : ClientReceive(c, n)
    BY <1>6, SocketsAssumption DEF PeerReceive
  <2> DEFINE q == inbox[c]["cli"]
             r == Rest(n, q)
  <2>2. inbox' = [inbox EXCEPT ![c]["cli"] = r] /\ UNCHANGED <<sock, err, listening, sent>>
    BY <2>1 DEF ClientReceive, Receive
  <2>3. Len(r) =< Len(q)
    <3>1. q \in Seq(Bytes)
      BY <1>0 DEF SocketsTypeOK, EachEnd
    <3> HIDE DEF q
    <3>2. /\ r \in Seq(Bytes) /\ Taken(n, q) \in Seq(Bytes) /\ Taken(n, q) \o r = q
          /\ Len(r) \in Nat /\ Len(Taken(n, q)) \in Nat /\ Len(q) \in Nat
      BY <3>1, TakenAndRest, LenProperties
    <3> HIDE DEF r
    <3>3. Len(Taken(n, q) \o r) = Len(Taken(n, q)) + Len(r)
      BY <3>2, ConcatProperties
    <3> QED
      BY <3>2, <3>3
  <2>4. Len(inbox'[d]["cli"]) =< Len(inbox[d]["cli"])
    <3> HIDE DEF r
    <3> QED
      BY <1>0, <1>1, <2>2, <2>3 DEF SocketsTypeOK, EachEnd
  <2> QED
    BY <1>1, <2>2, <2>4 DEF ClientKept, EndInv
<1>7. CASE UNCHANGED sockVars
  BY <1>1, <1>7 DEF sockVars, ClientKept, EndInv
<1> QED
  BY <1>2, <1>3, <1>4, <1>5, <1>6, <1>7

-----------------------------------------------------------------------------
(* The invariant of the clients.                                           *)

\* The lines of a terminal at which nothing is typed or read.
LEMMA LinesUntouched ==
  ASSUME NEW d \in Clients, LinesInv(d), typed'[d] = typed[d], tty'[d] = tty[d], sent'[d] = sent[d]
  PROVE  LinesInv(d)'
  BY DEF LinesInv

\* Steps of the server and of the network.
LEMMA EnvironmentKeepsClients ==
  ASSUME SystemInv, \A d \in Clients : EndKept(d), UNCHANGED clientVars
  PROVE  ClientInv'
<1>0. /\ ClientTypeOK /\ SentInOrder /\ ConnectSuccessIsReal /\ ClientStays
      /\ \A c \in Clients : LinesInv(c) /\ EventsInv(c) /\ EndInv(c)
  BY DEF SystemInv, ClientInv
<1>1. ClientTypeOK'
  BY <1>0 DEF ClientTypeOK, clientVars
<1>2. SentInOrder' /\ \A d \in Clients : LinesInv(d)'
  BY <1>0, LinesUntouched DEF SentInOrder, EndKept, clientVars
<1>3. ConnectSuccessIsReal' /\ \A d \in Clients : EventsInv(d)' /\ EndInv(d)'
  BY <1>0 DEF ConnectSuccessIsReal, EventsInv, EndKept, clientVars
<1>4. ClientStays'
  BY <1>0 DEF ClientStays, EndKept
<1> QED
  BY <1>1, <1>2, <1>3, <1>4 DEF ClientInv

\* A line is typed: it begins where all that was typed before it ends.
LEMMA TypeLineLines ==
  ASSUME SystemInv, NEW c \in Clients, TypeLine(c)
  PROVE  LinesInv(c)' /\ tty' \in [Clients -> Seq(Seq(Bytes))] /\ typed' \in [Clients -> Nat]
<1>0. ClientTypeOK /\ LinesInv(c)
  BY DEF SystemInv, ClientInv
<1>1. PICK n \in Nat \ {0} :
        /\ typed[c] + n =< MaxTyped[c]
        /\ typed' = [typed EXCEPT ![c] = @ + n]
        /\ tty' = [tty EXCEPT ![c] = Append(@, TypedAfter(c, typed[c], n))]
  BY EchoClientAssumption DEF TypeLine, TypedAfter
<1> DEFINE T == tty[c]
           l == TypedAfter(c, typed[c], n)
           N == Len(T)
<1>2. T \in Seq(Seq(Bytes)) /\ typed[c] \in Nat /\ N \in Nat /\ MaxTyped[c] \in Nat
  BY <1>0, LenProperties, EchoClientAssumption DEF ClientTypeOK
<1>3. l \in Seq(Bytes)
  BY <1>1, <1>2, TypedFacts
<1>4. /\ Append(T, l) \in Seq(Seq(Bytes)) /\ Len(Append(T, l)) = N + 1
      /\ \A i \in 1..N : Append(T, l)[i] = T[i]
      /\ Append(T, l)[N + 1] = l
  BY <1>2, <1>3, AppendProperties
<1>5. tty'[c] = Append(T, l) /\ typed'[c] = typed[c] + n /\ sent' = sent
  BY <1>0, <1>1 DEF ClientTypeOK, TypeLine, sockVars
<1>6. PICK start \in [1..(N + 1) -> 0..typed[c]] :
        /\ start[N + 1] = typed[c]
        /\ \A i \in 1..N :
             /\ start[i] < start[i + 1]
             /\ T[i] = TypedAfter(c, start[i], start[i + 1] - start[i])
        /\ Len(sent[c]) =< start[1]
        /\ \A p \in 1..Len(sent[c]) : sent[c][p][2] \in 1..start[1]
  BY <1>0 DEF LinesInv
<1> DEFINE next == [i \in 1..(N + 2) |-> IF i = N + 2 THEN typed[c] + n ELSE start[i]]
<1> HIDE DEF T, l, N
<1>7. next \in [1..(N + 2) -> 0..(typed[c] + n)] /\ next[N + 2] = typed[c] + n /\ next[1] = start[1]
  BY <1>2, <1>6, SMTT(30)
<1>8. ASSUME NEW i \in 1..(N + 1)
      PROVE  /\ next[i] < next[i + 1]
             /\ Append(T, l)[i] = TypedAfter(c, next[i], next[i + 1] - next[i])
  <2>1. CASE i \in 1..N
    <3>1. next[i] = start[i] /\ next[i + 1] = start[i + 1]
      BY <1>2, <2>1
    <3> HIDE DEF next
    <3> QED
      BY <1>4, <1>6, <2>1, <3>1
  <2>2. CASE i = N + 1
    <3>1. next[i] = typed[c] /\ next[i + 1] = typed[c] + n
      BY <1>2, <1>6, <2>2
    <3> HIDE DEF next
    <3>2. next[i + 1] - next[i] = n /\ next[i] < next[i + 1]
      BY <1>2, <3>1
    <3>3. TypedAfter(c, next[i], next[i + 1] - next[i]) = l
      BY <3>1, <3>2 DEF l
    <3>4. Append(T, l)[i] = l
      BY <1>4, <2>2
    <3> QED
      BY <3>2, <3>3, <3>4
  <2>3. i \in 1..N \/ i = N + 1
    BY <1>2
  <2> QED
    BY <2>1, <2>2, <2>3
<1> HIDE DEF next
<1>9. \E s \in [1..(Len(tty'[c]) + 1) -> 0..typed'[c]] :
        /\ s[Len(tty'[c]) + 1] = typed'[c]
        /\ \A i \in 1..Len(tty'[c]) :
             /\ s[i] < s[i + 1]
             /\ tty'[c][i] = TypedAfter(c, s[i], s[i + 1] - s[i])
        /\ Len(sent'[c]) =< s[1]
        /\ \A p \in 1..Len(sent'[c]) : sent'[c][p][2] \in 1..s[1]
  <2>1. Len(tty'[c]) = N + 1 /\ (N + 1) + 1 = N + 2
    BY <1>2, <1>4, <1>5
  <2>2. next \in [1..(Len(tty'[c]) + 1) -> 0..typed'[c]]
    BY <1>5, <1>7, <2>1
  <2>3. /\ next[Len(tty'[c]) + 1] = typed'[c]
        /\ \A i \in 1..Len(tty'[c]) :
             /\ next[i] < next[i + 1]
             /\ tty'[c][i] = TypedAfter(c, next[i], next[i + 1] - next[i])
        /\ Len(sent'[c]) =< next[1]
        /\ \A p \in 1..Len(sent'[c]) : sent'[c][p][2] \in 1..next[1]
    BY <1>5, <1>6, <1>7, <1>8, <2>1
  <2> QED
    BY <2>2, <2>3
<1>10. tty' \in [Clients -> Seq(Seq(Bytes))] /\ typed' \in [Clients -> Nat]
  BY <1>0, <1>1, <1>2, <1>4 DEF ClientTypeOK, T, l
<1> QED
  BY <1>1, <1>5, <1>9, <1>10 DEF LinesInv

\* What was sent is in order, and was typed among the first b bytes.
SentUpTo(s, b) ==
  /\ Len(s) =< b
  /\ \A p \in 1..Len(s) : s[p][2] \in 1..b
  /\ \A p, q \in 1..Len(s) : p < q => s[p][2] < s[q][2]

\* More is sent of the line that was the next one to be read.
LEMMA SentMore ==
  ASSUME NEW c \in Clients, NEW s \in Seq(Bytes), NEW k \in Nat, NEW m \in Nat \ {0}, NEW b \in Nat,
         k + m =< b, b =< MaxTyped[c], SentUpTo(s, k)
  PROVE  SentUpTo(s \o TypedAfter(c, k, m), b)
<1> DEFINE l == TypedAfter(c, k, m)
           t == s \o l
<1>0. /\ k + m =< MaxTyped[c] /\ Len(s) \in Nat
      /\ Len(s) =< k /\ \A p \in 1..Len(s) : s[p][2] \in 1..k
      /\ \A p, q \in 1..Len(s) : p < q => s[p][2] < s[q][2]
  BY LenProperties, EchoClientAssumption DEF SentUpTo
<1>1. l \in Seq(Bytes) /\ Len(l) = m /\ \A i \in 1..m : l[i] = <<c, k + i>>
  BY <1>0, TypedFacts
<1> HIDE DEF l
<1>2. /\ Len(t) = Len(s) + m
      /\ \A i \in 1..(Len(s) + m) : t[i] = IF i =< Len(s) THEN s[i] ELSE l[i - Len(s)]
  BY <1>1, ConcatProperties
<1> HIDE DEF t
<1>3. ASSUME NEW p \in 1..Len(t)
      PROVE  /\ p =< Len(s) => t[p] = s[p] /\ t[p][2] \in 1..k
             /\ p > Len(s) => t[p][2] = k + (p - Len(s))
  <2>1. p \in 1..(Len(s) + m) /\ p \in Nat /\ (p =< Len(s) => p \in 1..Len(s))
    BY <1>0, <1>2
  <2>2. CASE p =< Len(s)
    BY <1>0, <1>2, <2>1, <2>2
  <2>3. CASE p > Len(s)
    <3>1. p - Len(s) \in 1..m /\ t[p] = l[p - Len(s)]
      BY <1>0, <1>2, <2>1, <2>3
    <3> QED
      BY <1>0, <1>1, <2>1, <2>3, <3>1
  <2> QED
    BY <1>0, <2>1, <2>2, <2>3
<1>4. Len(t) =< b
  BY <1>0, <1>2
<1>5. ASSUME NEW p \in 1..Len(t) PROVE t[p][2] \in 1..b
  <2>1. CASE p =< Len(s)
    BY <1>0, <1>3, <2>1
  <2>2. CASE p > Len(s)
    BY <1>0, <1>2, <1>3, <2>2
  <2> QED
    BY <1>0, <1>2, <2>1, <2>2
<1>6. ASSUME NEW p \in 1..Len(t), NEW q \in 1..Len(t), p < q PROVE t[p][2] < t[q][2]
  <2>1. CASE q =< Len(s)
    BY <1>0, <1>3, <1>6, <2>1, SMTT(30)
  <2>2. CASE p =< Len(s) /\ q > Len(s)
    BY <1>0, <1>3, <1>6, <2>2
  <2>3. CASE p > Len(s)
    BY <1>0, <1>3, <1>6, <2>3
  <2> QED
    BY <1>0, <1>6, <2>1, <2>2, <2>3
<1> QED
  BY <1>4, <1>5, <1>6 DEF t, l, SentUpTo

\* A line is read, as far as a read() takes it: what was sent of it lies before
\* what is left.
LEMMA StdinLineLines ==
  ASSUME SystemInv, NEW c \in Clients, StdinLine(c)
  PROVE  /\ LinesInv(c)' /\ tty' \in [Clients -> Seq(Seq(Bytes))]
         /\ \A d \in Clients \ {c} : sent'[d] = sent[d]
         /\ \A p, q \in 1..Len(sent'[c]) : p < q => sent'[c][p][2] < sent'[c][q][2]
<1>0. SocketsTypeOK /\ ClientTypeOK /\ LinesInv(c) /\ SentInOrder
  BY DEF SystemInv, FdInv, TypeOK, ClientInv
<1> DEFINE T == tty[c]
           N == Len(T)
<1>1. T # << >> /\ T \in Seq(Seq(Bytes)) /\ typed[c] \in Nat /\ MaxTyped[c] \in Nat
  BY <1>0, EchoClientAssumption DEF ClientTypeOK, StdinLine
<1>2. N \in Nat \ {0} /\ Head(T) = T[1] /\ typed[c] =< MaxTyped[c] /\ sent[c] \in Seq(Bytes)
  BY <1>0, <1>1, EmptySeq DEF LinesInv, SocketsTypeOK
<1>3. PICK start \in [1..(N + 1) -> 0..typed[c]] :
        /\ start[N + 1] = typed[c]
        /\ \A i \in 1..N :
             /\ start[i] < start[i + 1]
             /\ T[i] = TypedAfter(c, start[i], start[i + 1] - start[i])
        /\ Len(sent[c]) =< start[1]
        /\ \A p \in 1..Len(sent[c]) : sent[c][p][2] \in 1..start[1]
  BY <1>0 DEF LinesInv
<1> HIDE DEF T, N
<1> DEFINE k == start[1]
           n == start[2] - start[1]
<1>4. k \in Nat /\ n \in Nat \ {0} /\ k + n = start[2] /\ k + n =< MaxTyped[c] /\ Head(T) = TypedAfter(c, k, n)
  <2>1. 1 \in 1..N /\ 1 \in 1..(N + 1) /\ 1 + 1 = 2 /\ 2 \in 1..(N + 1)
    BY <1>2
  <2>2. start[1] < start[2] /\ T[1] = TypedAfter(c, start[1], start[2] - start[1])
    BY <1>3, <2>1
  <2>3. start[1] \in 0..typed[c] /\ start[2] \in 0..typed[c]
    BY <1>3, <2>1
  <2>4. Head(T) = TypedAfter(c, k, n)
    BY <1>2, <2>2
  <2>5. typed[c] \in Nat /\ MaxTyped[c] \in Nat /\ typed[c] =< MaxTyped[c]
    BY <1>1, <1>2
  <2>6. k \in Nat /\ n \in Nat \ {0} /\ k + n = start[2] /\ k + n =< MaxTyped[c]
    BY <2>2, <2>3, <2>5
  <2> QED
    BY <2>4, <2>6
<1> HIDE DEF k, n
<1>5. CutAt(ReadMax, c, k, n)
  BY <1>4, CutTyped, SocketsAssumption
<1>6. PICK a \in 0..n :
        /\ a = IF ReadMax =< n THEN ReadMax ELSE n
        /\ Taken(ReadMax, Head(T)) = TypedAfter(c, k, a)
        /\ Rest(ReadMax, Head(T)) = TypedAfter(c, k + a, n - a)
  BY <1>4, <1>5 DEF CutAt
<1>7. a \in Nat \ {0} /\ a - 1 \in Nat /\ k + a =< MaxTyped[c] /\ k + (a - 1) =< MaxTyped[c]
  <2>1. MaxTyped[c] \in Nat /\ ReadMax \in Nat \ {0} /\ k \in Nat /\ n \in Nat \ {0} /\ k + n =< MaxTyped[c]
    BY <1>1, <1>4, SocketsAssumption
  <2>2. a \in 0..n /\ a = IF ReadMax =< n THEN ReadMax ELSE n
    BY <1>6
  <2> QED
    BY <2>1, <2>2
<1>8. SentUpTo(sent[c], k) /\ k + a \in Nat
  BY <1>0, <1>3, <1>4, <1>7 DEF SentUpTo, SentInOrder, k
<1>9. SentUpTo(sent'[c], k + a) /\ \A d \in Clients \ {c} : sent'[d] = sent[d]
  <2>1. WriteLine(c, TypedAfter(c, k, a - 1))
    BY <1>4, <1>6, <1>7, FrontTyped DEF StdinLine, T
  <2>2. CASE sent' = sent
    <3>1. Len(sent[c]) \in Nat
      BY <1>2, LenProperties
    <3> QED
      BY <1>4, <1>7, <1>8, <2>2, <3>1, SMTT(30) DEF SentUpTo
  <2>3. ASSUME NEW m \in 1..(a - 1), ClientSend(c, TypedAfter(c, k, m))
        PROVE  SentUpTo(sent'[c], k + a) /\ \A d \in Clients \ {c} : sent'[d] = sent[d]
    <3>1. sent' = [sent EXCEPT ![c] = sent[c] \o TypedAfter(c, k, m)]
      BY <2>3 DEF ClientSend
    <3>2. /\ sent'[c] = sent[c] \o TypedAfter(c, k, m)
          /\ \A d \in Clients \ {c} : sent'[d] = sent[d]
      BY <1>0, <3>1 DEF SocketsTypeOK
    <3>3. m \in Nat \ {0} /\ k + m =< k + a /\ k + a =< MaxTyped[c]
      BY <1>4, <1>7
    <3>4. SentUpTo(sent[c] \o TypedAfter(c, k, m), k + a)
      BY <1>2, <1>4, <1>8, <3>3, SentMore
    <3> QED
      BY <3>2, <3>4
  <2> QED
    BY <1>0, <1>4, <1>7, <2>1, <2>2, <2>3, WriteLineSends DEF sockVars, ClientSendFails
<1>10. tty' = [tty EXCEPT ![c] = IF Rest(ReadMax, Head(T)) = << >> THEN Tail(T)
                                 ELSE <<Rest(ReadMax, Head(T))>> \o Tail(T)]
       /\ typed' = typed
  BY DEF StdinLine, T
<1> DEFINE r == TypedAfter(c, k + a, n - a)
           L == IF r = << >> THEN Tail(T) ELSE <<r>> \o Tail(T)
<1>11. /\ r \in Seq(Bytes) /\ Len(r) = n - a /\ n - a \in Nat
       /\ r = << >> <=> a = n
  <2>1. k + a \in Nat /\ n - a \in Nat /\ (k + a) + (n - a) =< MaxTyped[c]
    BY <1>4, <1>6, <1>7
  <2>2. r \in Seq(Bytes) /\ Len(r) = n - a
    BY <2>1, TypedFacts
  <2> HIDE DEF r
  <2>3. Len(r) = 0 <=> r = << >>
    BY <2>2, EmptySeq
  <2> QED
    BY <1>4, <1>6, <2>1, <2>2, <2>3
<1>12. tty'[c] = L
  BY <1>0, <1>6, <1>10 DEF ClientTypeOK
<1> HIDE DEF r
<1>13. /\ Tail(T) \in Seq(Seq(Bytes)) /\ Len(Tail(T)) = N - 1
       /\ \A i \in 1..(N - 1) : Tail(T)[i] = T[i + 1]
  BY <1>1, HeadTailProperties DEF T, N
<1>14. k \in 0..typed[c] /\ k + a \in 0..typed[c]
  <2>1. 1 \in 1..(N + 1) /\ 2 \in 1..(N + 1)
    BY <1>2
  <2>2. start[1] \in 0..typed[c] /\ start[2] \in 0..typed[c]
    BY <1>3, <2>1
  <2>3. a \in 0..n /\ k \in Nat /\ n \in Nat /\ k + n = start[2] /\ typed[c] \in Nat
    BY <1>1, <1>4, <1>6
  <2>4. k \in 0..typed[c]
    BY <2>2 DEF k
  <2> HIDE DEF k, n
  <2> QED
    BY <2>2, <2>3, <2>4
<1> DEFINE Waits(f) ==
             /\ f \in [1..(Len(L) + 1) -> 0..typed[c]]
             /\ f[Len(L) + 1] = typed[c]
             /\ \A i \in 1..Len(L) :
                  /\ f[i] < f[i + 1]
                  /\ L[i] = TypedAfter(c, f[i], f[i + 1] - f[i])
             /\ f[1] = k + a
<1>15. (\E f : Waits(f)) /\ L \in Seq(Seq(Bytes))
  <2>1. CASE a = n
    <3> DEFINE next == [i \in 1..N |-> start[i + 1]]
    <3>1. L = Tail(T) /\ Len(L) = N - 1
      BY <1>11, <1>13, <2>1
    <3>2. /\ next \in [1..N -> 0..typed[c]] /\ next[N] = typed[c] /\ next[1] = k + a
          /\ \A i \in 1..(N - 1) : next[i] = start[i + 1] /\ next[i + 1] = start[(i + 1) + 1]
      BY <1>2, <1>3, <1>4, <2>1, SMTT(30)
    <3> HIDE DEF next, L
    <3>3. ASSUME NEW i \in 1..(N - 1)
          PROVE  /\ next[i] < next[i + 1]
                 /\ L[i] = TypedAfter(c, next[i], next[i + 1] - next[i])
      <4>1. i + 1 \in 1..N
        BY <1>2
      <4> QED
        BY <1>3, <1>13, <3>1, <3>2, <4>1
    <3>4. (N - 1) + 1 = N
      BY <1>2
    <3>5. Waits(next)
      BY <3>1, <3>2, <3>3, <3>4
    <3> QED
      BY <1>13, <3>1, <3>5
  <2>2. CASE a # n
    <3> DEFINE next == [i \in 1..(N + 1) |-> IF i = 1 THEN k + a ELSE start[i]]
    <3>1. /\ L = <<r>> \o Tail(T) /\ L \in Seq(Seq(Bytes)) /\ Len(L) = N
          /\ L[1] = r
          /\ \A i \in 2..N : L[i] = T[i]
      <4>1. <<r>> \in Seq(Seq(Bytes)) /\ Len(<<r>>) = 1 /\ <<r>>[1] = r
        BY <1>11
      <4>2. /\ <<r>> \o Tail(T) \in Seq(Seq(Bytes)) /\ Len(<<r>> \o Tail(T)) = 1 + (N - 1)
            /\ \A i \in 1..(1 + (N - 1)) :
                 (<<r>> \o Tail(T))[i] = IF i <= 1 THEN <<r>>[i] ELSE Tail(T)[i - 1]
        BY <1>13, <4>1, ConcatProperties
      <4>3. L = <<r>> \o Tail(T)
        BY <1>11, <2>2
      <4>4. ASSUME NEW i \in 2..N PROVE L[i] = T[i]
        <5>1. i \in 1..(1 + (N - 1)) /\ ~(i <= 1) /\ i - 1 \in 1..(N - 1) /\ (i - 1) + 1 = i
          BY <1>2
        <5> HIDE DEF L
        <5> QED
          BY <1>13, <4>2, <4>3, <5>1
      <4> HIDE DEF L
      <4> QED
        BY <1>2, <4>1, <4>2, <4>3, <4>4
    <3>2. /\ next \in [1..(N + 1) -> 0..typed[c]] /\ next[N + 1] = typed[c] /\ next[1] = k + a
          /\ \A i \in 2..(N + 1) : next[i] = start[i]
      BY <1>2, <1>3, <1>14
    <3> HIDE DEF next, L
    <3>3. ASSUME NEW i \in 1..N
          PROVE  /\ next[i] < next[i + 1]
                 /\ L[i] = TypedAfter(c, next[i], next[i + 1] - next[i])
      <4>1. CASE i = 1
        <5>1. next[i] = k + a /\ next[i + 1] = k + n
          BY <1>2, <1>4, <3>2, <4>1
        <5>2. next[i + 1] - next[i] = n - a /\ next[i] < next[i + 1]
          BY <1>4, <1>6, <2>2, <5>1
        <5> QED
          BY <3>1, <4>1, <5>1, <5>2 DEF r
      <4>2. CASE i # 1
        <5>1. i \in 2..N /\ i \in 2..(N + 1) /\ i + 1 \in 2..(N + 1)
          BY <1>2, <4>2
        <5> QED
          BY <1>3, <3>1, <3>2, <5>1
      <4> QED
        BY <4>1, <4>2
    <3>4. Waits(next)
      BY <3>1, <3>2, <3>3
    <3> QED
      BY <3>1, <3>4
  <2> QED
    BY <2>1, <2>2
<1> HIDE DEF L
<1>16. PICK f : Waits(f)
  BY <1>15
<1>17. LinesInv(c)'
  <2>1. /\ Len(sent'[c]) =< f[1]
        /\ \A p \in 1..Len(sent'[c]) : sent'[c][p][2] \in 1..f[1]
    BY <1>9, <1>16 DEF SentUpTo
  <2> QED
    BY <1>2, <1>10, <1>12, <1>16, <2>1 DEF LinesInv
<1>18. tty' \in [Clients -> Seq(Seq(Bytes))]
  <2>1. \E x \in Seq(Seq(Bytes)) : tty' = [tty EXCEPT ![c] = x]
    BY <1>6, <1>10, <1>15 DEF L, r
  <2> QED
    BY <1>0, <2>1 DEF ClientTypeOK
<1> QED
  BY <1>9, <1>17, <1>18 DEF SentUpTo

\* Every step but these two leaves lines and what was sent alone.
LEMMA ClientLines ==
  ASSUME SystemInv, NEW c \in Clients, ClientStep(c) \/ UserStep(c)
  PROVE  /\ SentInOrder' /\ \A d \in Clients : LinesInv(d)'
         /\ tty' \in [Clients -> Seq(Seq(Bytes))] /\ typed' \in [Clients -> Nat]
<1>0. ClientTypeOK /\ SentInOrder /\ \A d \in Clients : LinesInv(d)
  BY DEF SystemInv, ClientInv
<1>1. CASE TypeLine(c)
  <2>1. \A d \in Clients \ {c} : typed'[d] = typed[d] /\ tty'[d] = tty[d] /\ sent'[d] = sent[d]
    BY <1>0, <1>1 DEF TypeLine, sockVars, ClientTypeOK
  <2>2. sent' = sent
    BY <1>1 DEF TypeLine, sockVars
  <2> QED
    BY <1>0, <1>1, <2>1, <2>2, TypeLineLines, LinesUntouched DEF SentInOrder
<1>2. CASE StdinLine(c)
  <2>1. typed' = typed /\ \A d \in Clients \ {c} : tty'[d] = tty[d]
    BY <1>0, <1>2 DEF StdinLine, ClientTypeOK
  <2>2. \A d \in Clients \ {c} : sent'[d] = sent[d]
    BY <1>2, StdinLineLines
  <2>3. \A d \in Clients : LinesInv(d)'
    <3>1. \A d \in Clients \ {c} : LinesInv(d)'
      BY <1>0, <2>1, <2>2, LinesUntouched
    <3> QED
      BY <1>2, <3>1, StdinLineLines
  <2>4. SentInOrder'
    <3> SUFFICES ASSUME NEW d \in Clients
                 PROVE  \A p, q \in 1..Len(sent'[d]) : p < q => sent'[d][p][2] < sent'[d][q][2]
      BY DEF SentInOrder
    <3> QED
      BY <1>0, <1>2, <2>2, StdinLineLines DEF SentInOrder
  <2> QED
    BY <1>0, <1>2, <2>1, <2>3, <2>4, StdinLineLines DEF ClientTypeOK
<1>3. CASE UNCHANGED <<typed, tty, sent>>
  BY <1>0, <1>3, LinesUntouched DEF SentInOrder, ClientTypeOK
<1>4. Dies(c) => sent' = sent
  BY DEF Dies, ClientClose, sockVars
<1>5. ~TypeLine(c) /\ ~StdinLine(c) => UNCHANGED <<typed, tty, sent>>
  <2>1. CASE Start(c) \/ StartFails(c) \/ Wait(c)
    BY <2>1 DEF Start, StartFails, Wait, Connect, sockVars
  <2>2. CASE StdinSigpipe(c) \/ StdinEof(c) \/ SocketReadOverflows(c) \/ Kill(c)
    BY <1>4, <2>2 DEF StdinSigpipe, StdinEof, SocketReadOverflows, Kill, Dies, sockVars
  <2>3. CASE SocketRead(c) \/ SocketEof(c)
    BY <2>3 DEF SocketRead, SocketEof, ClientReceive, ClientClose
  <2>4. CASE ConnectCallback(c) \/ WriteCallback(c) \/ TypeEof(c)
    BY <2>4 DEF ConnectCallback, WriteCallback, TypeEof, sockVars
  <2> QED
    BY <2>1, <2>2, <2>3, <2>4 DEF ClientStep, UserStep
<1> QED
  BY <1>1, <1>2, <1>3, <1>5

LEMMA ClientTypes ==
  ASSUME SystemInv, NEW c \in Clients, ClientStep(c) \/ UserStep(c)
  PROVE  ClientTypeOK'
<1>0. ClientTypeOK
  BY DEF SystemInv, ClientInv
<1>1. tty' \in [Clients -> Seq(Seq(Bytes))] /\ typed' \in [Clients -> Nat]
  BY ClientLines
<1>2. cbatch' \in [Clients -> SUBSET Events]
  <2>1. \A E : cbatch[c] \ E \in SUBSET Events /\ {} \in SUBSET Events /\ Pending(c) \in SUBSET Events
    BY <1>0 DEF ClientTypeOK, Pending
  <2>2. \E E \in SUBSET Events : cbatch' = [cbatch EXCEPT ![c] = E] \/ cbatch' = cbatch
    BY <2>1 DEF ClientStep, UserStep, Start, StartFails, Wait, StdinLine, StdinSigpipe, StdinEof,
       SocketRead, SocketReadOverflows, SocketEof, ConnectCallback, WriteCallback, TypeLine,
       TypeEof, Kill, Dies, Handled
  <2> QED
    BY <1>0, <2>2 DEF ClientTypeOK
<1>3. cpc' \in [Clients -> {"start", "loop", "gone"}]
  BY <1>0 DEF ClientTypeOK, ClientStep, UserStep, Start, StartFails, Wait, StdinLine, StdinSigpipe,
     StdinEof, SocketRead, SocketReadOverflows, SocketEof, ConnectCallback, WriteCallback, TypeLine,
     TypeEof, Kill, Dies
<1>4. watched' \in [Clients -> SUBSET Sources]
  <2>1. \A E : watched[c] \ E \in SUBSET Sources /\ Sources \in SUBSET Sources
    BY <1>0 DEF ClientTypeOK
  <2>2. \E E \in SUBSET Sources : watched' = [watched EXCEPT ![c] = E] \/ watched' = watched
    BY <2>1 DEF ClientStep, UserStep, Start, StartFails, Wait, StdinLine, StdinSigpipe, StdinEof,
       SocketRead, SocketReadOverflows, SocketEof, ConnectCallback, WriteCallback, TypeLine,
       TypeEof, Kill, Dies
  <2> QED
    BY <1>0, <2>2 DEF ClientTypeOK
<1>5. wantOut' \in [Clients -> BOOLEAN] /\ hungUp' \in [Clients -> BOOLEAN]
  BY <1>0 DEF ClientTypeOK, ClientStep, UserStep, Start, StartFails, Wait, StdinLine, StdinSigpipe,
     StdinEof, SocketRead, SocketReadOverflows, SocketEof, ConnectCallback, WriteCallback, TypeLine,
     TypeEof, Kill, Dies
<1>6. writeCb' \in [Clients -> {"connect", "write"}]
  BY <1>0 DEF ClientTypeOK, ClientStep, UserStep, Start, StartFails, Wait, StdinLine, StdinSigpipe,
     StdinEof, SocketRead, SocketReadOverflows, SocketEof, ConnectCallback, WriteCallback, TypeLine,
     TypeEof, Kill, Dies
<1> QED
  BY <1>1, <1>2, <1>3, <1>4, <1>5, <1>6 DEF ClientTypeOK

\* An event without EPOLLIN is reported of no connection that failed.
LEMMA WaitEvents ==
  ASSUME SystemInv, NEW c \in Clients,
         NEW e \in Pending(c), e.src = "socket", "IN" \notin e.mask
  PROVE  sock[c]["srv"] # "none"
<1>1. e.mask = SocketMask(c) /\ e.mask # {}
  BY DEF Pending
<1>2. ~Readable(c, "cli") /\ Writable(c)
  BY <1>1 DEF SocketMask
<1>3. err[c]["cli"] \notin {"reset", "pipe"}
  BY <1>2 DEF Readable, AtEof
<1>4. sock[c]["cli"] = "open"
  BY <1>2, <1>3 DEF Writable
<1> QED
  BY <1>4 DEF SystemInv, StreamInv, Stream, EstablishedInv

LEMMA ClientEvents ==
  ASSUME SystemInv, NEW c \in Clients, ClientStep(c) \/ UserStep(c),
         \A d \in Clients : sock'[d]["srv"] = sock[d]["srv"]
  PROVE  ConnectSuccessIsReal' /\ \A d \in Clients : EventsInv(d)'
<1>0. ClientTypeOK /\ ConnectSuccessIsReal /\ \A d \in Clients : EventsInv(d)
  BY DEF SystemInv, ClientInv
<1>1. \A d \in Clients : EventsInv(d)'
  <2>1. CASE Wait(c)
    <3>1. \A d \in Clients : cbatch'[d] = IF d = c THEN Pending(c) ELSE cbatch[d]
      BY <1>0, <2>1 DEF Wait, ClientTypeOK
    <3> QED
      BY <1>0, <3>1, WaitEvents DEF EventsInv
  <2>2. CASE \A d \in Clients : cbatch'[d] \subseteq cbatch[d]
    BY <1>0, <2>2 DEF EventsInv
  <2>3. Dies(c) => \A d \in Clients : cbatch'[d] \subseteq cbatch[d]
    BY <1>0 DEF Dies, ClientTypeOK
  <2>4. \A E : Handled(c, E) => \A d \in Clients : cbatch'[d] \subseteq cbatch[d]
    BY <1>0 DEF Handled, ClientTypeOK
  <2>5. ~Wait(c) => \A d \in Clients : cbatch'[d] \subseteq cbatch[d]
    <3>1. CASE Start(c) \/ StartFails(c) \/ TypeLine(c) \/ TypeEof(c)
      BY <3>1 DEF Start, StartFails, TypeLine, TypeEof
    <3>2. CASE StdinSigpipe(c) \/ SocketReadOverflows(c) \/ Kill(c)
      BY <2>3, <3>2 DEF StdinSigpipe, SocketReadOverflows, Kill
    <3>3. CASE \/ StdinLine(c) \/ StdinEof(c) \/ SocketRead(c) \/ SocketEof(c)
               \/ ConnectCallback(c) \/ WriteCallback(c)
      BY <2>4, <3>3 DEF StdinLine, StdinEof, SocketRead, SocketEof, ConnectCallback, WriteCallback
    <3> QED
      BY <3>1, <3>2, <3>3 DEF ClientStep, UserStep
  <2> QED
    BY <2>1, <2>2, <2>5
<1>2. ConnectSuccessIsReal'
  <2>1. CASE ConnectCallback(c)
    <3>1. PICK e \in cbatch[c] : e.src = "socket" /\ "IN" \notin e.mask
      BY <2>1 DEF ConnectCallback, Handled, WriteEvent
    <3>2. sock[c]["srv"] # "none"
      BY <1>0, <3>1 DEF EventsInv
    <3>3. \A d \in Clients : writeCb'[d] = IF d = c THEN "write" ELSE writeCb[d]
      BY <1>0, <2>1 DEF ConnectCallback, ClientTypeOK
    <3> QED
      BY <1>0, <3>2, <3>3 DEF ConnectSuccessIsReal
  <2>2. CASE writeCb' = writeCb
    BY <1>0, <2>2 DEF ConnectSuccessIsReal
  <2>3. ~ConnectCallback(c) => writeCb' = writeCb
    BY DEF ClientStep, UserStep, Start, StartFails, Wait, StdinLine, StdinSigpipe, StdinEof, SocketRead,
       SocketReadOverflows, SocketEof, WriteCallback, TypeLine, TypeEof, Kill, Dies
  <2> QED
    BY <2>1, <2>2, <2>3
<1> QED
  BY <1>1, <1>2

\* A client closes its connection only for a reason.
LEMMA ClientCloses ==
  ASSUME SystemInv, FdInv', NEW c \in Clients, ClientStep(c) \/ UserStep(c),
         \A d \in Clients : ClientKept(c, d)
  PROVE  ClientStays'
<1>0. /\ ClientStays /\ \A d \in Clients : EndInv(d)
      /\ SocketsTypeOK /\ NeverHangsUp /\ NoMoreThanSent(c)
  BY DEF SystemInv, FdInv, TypeOK, ClientInv, StreamInv, Stream
<1> SUFFICES ASSUME NEW d \in Clients \ Mortal,
                    sock'[d]["srv"] # "none", sock'[d]["cli"] \in Closed, listening'
             PROVE  Len(sent'[d]) >= ReadMax
  BY DEF ClientStays
<1>1. /\ listening /\ sock[d]["srv"] # "none" /\ Len(sent[d]) =< Len(sent'[d])
      /\ d # c => sock'[d] = sock[d]
  BY DEF ClientKept
<1>2. Len(sent[d]) \in Nat /\ Len(sent'[d]) \in Nat /\ ReadMax \in Nat
  <2>1. SocketsTypeOK'
    BY DEF FdInv, TypeOK
  <2> QED
    BY <1>0, <2>1, LenProperties, SocketsAssumption DEF SocketsTypeOK
<1>3. CASE sock[d]["cli"] \in Closed
  <2>1. Len(sent[d]) >= ReadMax
    BY <1>0, <1>1, <1>3 DEF ClientStays
  <2> QED
    BY <1>1, <1>2, <2>1
<1>4. CASE sock[d]["cli"] \notin Closed
  <2>1. d = c /\ err[c]["cli"] = "none" /\ sock[c]["srv"] \notin Closed
    BY <1>0, <1>1, <1>4 DEF EndInv, NeverHangsUp
  <2>2. ~(StdinSigpipe(c) \/ Kill(c) \/ SocketEof(c))
    BY <2>1, Sided DEF StdinSigpipe, Kill, SocketEof, AtEof, Closed
  <2>3. CASE SocketReadOverflows(c)
    <3> DEFINE w == Len(inbox[c]["cli"])
               g == Len(got[c])
               h == Len(InHand(c))
               i == Len(inbox[c]["srv"])
               s == Len(sent[d])
    <3>1. w \in Nat /\ g \in Nat /\ h \in Nat /\ i \in Nat /\ s \in Nat
      BY <1>2, StreamTypes DEF SystemInv, FdInv
    <3>2. w >= ReadMax
      BY <2>3 DEF SocketReadOverflows
    <3>3. g + w + h + i =< s
      BY <1>0, <2>1 DEF NoMoreThanSent
    <3>4. s =< Len(sent'[d])
      BY <1>1
    <3> HIDE DEF w, g, h, i, s
    <3> QED
      BY <1>2, <3>1, <3>2, <3>3, <3>4
  <2>4. CASE Start(c)
    <3>1. sock'[c]["cli"] = "connecting"
      BY <1>0, <2>4, Sided DEF Start, Connect, SocketsTypeOK, EachEnd
    <3> QED
      BY <2>1, <3>1 DEF Closed
  <2>5. CASE sock' = sock
    BY <1>4, <2>5
  <2>6. StdinLine(c) => sock' = sock
    BY DEF StdinLine, WriteLine, ClientSend, ClientSendFails, sockVars
  <2>7. ~Start(c) /\ ~SocketReadOverflows(c) => sock' = sock
    BY <2>2, <2>6 DEF ClientStep, UserStep, StartFails, Wait, StdinEof, SocketRead, ClientReceive,
       ConnectCallback, WriteCallback, TypeLine, TypeEof, sockVars
  <2> QED
    BY <2>3, <2>4, <2>5, <2>7
<1> QED
  BY <1>3, <1>4

-----------------------------------------------------------------------------
(* The system.                                                             *)

LEMMA SystemStarts == SystemInit => SystemInv
<1> SUFFICES ASSUME SystemInit PROVE SystemInv
  OBVIOUS
<1>1. FdInv /\ StreamInv
  BY FdInit, StreamInit DEF SystemInit
<1>2. ASSUME NEW c \in Clients
      PROVE  /\ sent[c] = << >> /\ tty[c] = << >> /\ typed[c] = 0 /\ cbatch[c] = {}
             /\ writeCb[c] = "connect" /\ sock[c]["srv"] = "none" /\ sock[c]["cli"] = "none"
             /\ inbox[c]["cli"] = << >>
  BY Sided DEF SystemInit, Init, SocketsInit, ClientInit
<1>3. ClientTypeOK
  BY EmptySeq DEF SystemInit, ClientInit, ClientTypeOK
<1>4. SentInOrder /\ ConnectSuccessIsReal /\ ClientStays
  BY <1>2, EmptySeq DEF SentInOrder, ConnectSuccessIsReal, ClientStays
<1>5. ASSUME NEW c \in Clients PROVE LinesInv(c)
  <2> DEFINE f == [i \in 1..1 |-> 0]
  <2>1. f \in [1..(0 + 1) -> 0..0] /\ f[0 + 1] = 0 /\ f[1] = 0
    OBVIOUS
  <2> HIDE DEF f
  <2>2. Len(tty[c]) = 0 /\ Len(sent[c]) = 0 /\ typed[c] = 0 /\ 0 =< MaxTyped[c]
    BY <1>2, EmptySeq, EchoClientAssumption
  <2>3. /\ f \in [1..(Len(tty[c]) + 1) -> 0..typed[c]]
        /\ f[Len(tty[c]) + 1] = typed[c]
        /\ \A i \in 1..Len(tty[c]) :
             /\ f[i] < f[i + 1]
             /\ tty[c][i] = TypedAfter(c, f[i], f[i + 1] - f[i])
        /\ Len(sent[c]) =< f[1]
        /\ \A p \in 1..Len(sent[c]) : sent[c][p][2] \in 1..f[1]
    BY <2>1, <2>2
  <2> QED
    BY <2>2, <2>3 DEF LinesInv
<1>6. \A c \in Clients : EventsInv(c) /\ EndInv(c)
  BY <1>2, EmptySeq, SocketsAssumption DEF EventsInv, EndInv
<1> QED
  BY <1>1, <1>3, <1>4, <1>5, <1>6 DEF SystemInv, ClientInv

LEMMA SystemStep ==
  ASSUME SystemInv, [SystemNext]_systemVars
  PROVE  SystemInv'
<1>1. [Next]_vars /\ FdInv /\ StreamInv /\ \A d \in Clients : EndInv(d)
  BY SystemStepIsNext DEF SystemInv, ClientInv
<1>2. FdInv' /\ StreamInv'
  BY <1>1, FdStep, StreamStep
<1>3. CASE ServerNext /\ UNCHANGED clientVars
  BY <1>1, <1>2, <1>3, ServerKeepsEnds, EnvironmentKeepsClients DEF SystemInv
<1>4. CASE Network /\ UNCHANGED <<serverVars, clientVars>>
  BY <1>1, <1>2, <1>4, NetworkKeepsEnds, EnvironmentKeepsClients DEF SystemInv
<1>5. ASSUME NEW c \in Clients, ClientStep(c) \/ UserStep(c), UNCHANGED serverVars
      PROVE  ClientInv'
  <2>1. \A d \in Clients : ClientKept(c, d)
    <3>1. \/ Connect(c) \/ ClientClose(c) \/ PeerSend(c) \/ ClientSendFails(c)
          \/ PeerReceive(c) \/ UNCHANGED sockVars
      BY <1>5, ClientCalls
    <3> QED
      BY <1>1, <1>2, <3>1, CallKeepsEnds
  <2>2. \A d \in Clients : sock'[d]["srv"] = sock[d]["srv"] /\ EndInv(d)'
    BY <2>1 DEF ClientKept
  <2>3. ClientTypeOK'
    BY <1>5, ClientTypes
  <2>4. SentInOrder' /\ \A d \in Clients : LinesInv(d)'
    BY <1>5, ClientLines
  <2>5. ConnectSuccessIsReal' /\ \A d \in Clients : EventsInv(d)'
    BY <1>5, <2>2, ClientEvents
  <2>6. ClientStays'
    BY <1>2, <1>5, <2>1, ClientCloses
  <2> QED
    BY <2>2, <2>3, <2>4, <2>5, <2>6 DEF ClientInv
<1>6. CASE UNCHANGED systemVars
  <2>1. \A d \in Clients : EndKept(d)
    BY <1>6 DEF systemVars, vars, sockVars, EndKept, EndInv
  <2> QED
    BY <1>2, <1>6, <2>1, EnvironmentKeepsClients DEF SystemInv, systemVars
<1> QED
  BY <1>2, <1>3, <1>4, <1>5, <1>6 DEF SystemNext, SystemInv

\* The inductive invariant of the system: the server's, and what the clients rely
\* on.
THEOREM SystemInvariant == SystemSpec => []SystemInv
<1>1. SystemInv /\ [SystemNext]_systemVars => SystemInv'
  BY SystemStep
<1> QED
  BY <1>1, SystemStarts, PTL DEF SystemSpec

\* With these clients the server keeps to its specification, and so all that was
\* proved of it with any programs holds of the system.
THEOREM ServerAmongClients == SystemSpec => ServerSpec
<1>1. SystemInit => Init
  BY DEF SystemInit
<1>2. SystemInv /\ [SystemNext]_systemVars => [Next]_vars
  BY SystemStepIsNext
<1> QED
  BY <1>1, <1>2, SystemInvariant, PTL DEF SystemSpec, ServerSpec, Spec

\* What a client sends goes out in the order in which it was typed, and no byte of
\* it twice.
THEOREM ClientsSendInOrder == SystemSpec => []SentInOrder
BY SystemInvariant, PTL DEF SystemInv, ClientInv

\* "connect success" is printed for connections that stand.
THEOREM SuccessIsReal == SystemSpec => []ConnectSuccessIsReal
BY SystemInvariant, PTL DEF SystemInv, ClientInv

\* A client that is not killed and has sent less than a buffer holds keeps its
\* connection as long as the server lives.
THEOREM ClientsStay == SystemSpec => []ClientStays
BY SystemInvariant, PTL DEF SystemInv, ClientInv

\* What a client prints is what it sent, with these clients as with any.
THEOREM SystemEchoes == SystemSpec => []EchoIntegrity
BY ServerAmongClients, EchoIsIntact DEF ServerSpec
=============================================================================
