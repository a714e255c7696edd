------------------------------ MODULE LogQueue ------------------------------
(***************************************************************************)
(* What the queue between loggers and worker threads promises: messages    *)
(* leave it in the order in which they came; it holds at most so many; and *)
(* it loses only its oldest message, only when a message is put into a full*)
(* queue, and it counts those.                                             *)
(***************************************************************************)
EXTENDS Integers, Sequences

VARIABLES room, items, dropped

Init == room \in Nat \ {0} /\ items = << >> /\ dropped = 0

Put ==
  /\ items' # << >> /\ items' = Append(items, items'[Len(items')])
  /\ Len(items') <= room /\ UNCHANGED dropped

PutOverOldest ==
  /\ Len(items) = room /\ items' # << >>
  /\ items' = Append(Tail(items), items'[Len(items')])
  /\ dropped' = dropped + 1

Take == items # << >> /\ items' = Tail(items) /\ UNCHANGED dropped

Next == (Put \/ PutOverOldest \/ Take) /\ UNCHANGED room

Spec == Init /\ [][Next]_<<room, items, dropped>>
=============================================================================
