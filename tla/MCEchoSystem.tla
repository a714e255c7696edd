---------------------------- MODULE MCEchoSystem ----------------------------
(* Small instances of EchoSystem.                                          *)
EXTENDS EchoSystem, TLC

CONSTANTS c1, c2

MCOne == {c1}
MCTwo == {c1, c2}
MCTypedOne == [c \in Clients |-> 5]
MCTypedTwo == c1 :> 4 @@ c2 :> 2
MCBytes == UNION {{c} \X (1..MaxTyped[c]) : c \in Clients}
\* Whatever a client of this instance may hand to one write().
MCChunks == [c \in Clients |->
               {q \in UNION {[1..n -> {c} \X (1..MaxTyped[c])] : n \in 1..ReadMax} :
                  \A k \in 1..(Len(q) - 1) : q[k + 1][2] = q[k][2] + 1}]
=============================================================================
