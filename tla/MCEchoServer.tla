---------------------------- MODULE MCEchoServer ----------------------------
(***************************************************************************)
(* Small instances of EchoServer.  A byte is tagged with the client that   *)
(* sends it, so that a byte that reaches the wrong client is noticed; apart*)
(* from that the clients are alike, which makes them a symmetry set.       *)
(***************************************************************************)
EXTENDS EchoServer, TLC

CONSTANTS c1, c2, c3

MCTwo == {c1, c2}
MCThree == {c1, c2, c3}
MCBytes == Clients \X {1, 2}
\* Where the values of the bytes matter, and where only their number does.
MCChunks == [c \in Clients |-> {<<<<c, 1>>>>, <<<<c, 2>>>>, <<<<c, 2>>, <<c, 1>>>>}]
MCPlain == [c \in Clients |-> {<<<<c, 1>>>>, <<<<c, 2>>, <<c, 1>>>>}]
MCSymmetry == Permutations(Clients)
=============================================================================
