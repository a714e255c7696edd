---------------------------- MODULE EchoService ----------------------------
(***************************************************************************)
(* What the echo server promises a client, whatever other clients do: the  *)
(* bytes that come back are the bytes that were sent, in order, none twice,*)
(* none left out and none of somebody else's.  How much comes back, and    *)
(* when, is left open: the connection may end at any point.                *)
(***************************************************************************)
EXTENDS Sequences, SequencesExt

CONSTANTS Clients, Bytes

VARIABLES
  sent,   \* the bytes each client has handed over
  got     \* the bytes each client has had back

Init ==
  /\ sent = [c \in Clients |-> << >>]
  /\ got = [c \in Clients |-> << >>]

\* A client hands over more bytes.
Submit(c) ==
  /\ IsPrefix(sent[c], sent'[c]) /\ sent'[c] \in Seq(Bytes)
  /\ sent' = [sent EXCEPT ![c] = sent'[c]]
  /\ UNCHANGED got

\* A client gets more of its bytes back.
Return(c) ==
  /\ IsPrefix(got[c], got'[c]) /\ IsPrefix(got'[c], sent[c])
  /\ got' = [got EXCEPT ![c] = got'[c]]
  /\ UNCHANGED sent

Next == \E c \in Clients : Submit(c) \/ Return(c)

Spec == Init /\ [][Next]_<<sent, got>>
=============================================================================
