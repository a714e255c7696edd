----------------------------- MODULE CircularQ -----------------------------
(***************************************************************************)
(* The ring buffer of spdlog (details/circular_q.h): max slots, of which   *)
(* one stays free so that an empty ring can be told from a full one.  A    *)
(* queue is a record of the class's members.                               *)
(***************************************************************************)
EXTENDS Integers, Sequences

\* What is in a slot that was moved from, or never filled.
Moved == << >>

\* circular_q(max_items).
NewQ(max_items) ==
  [max |-> max_items + 1, head |-> 0, tail |-> 0, overrun |-> 0,
   v |-> [i \in 0 .. max_items |-> Moved]]

After(q, i) == (i + 1) % q.max

Pushed(q, item) == [q EXCEPT !.v[q.tail] = item, !.tail = After(q, q.tail)]
OverrunLast(q) == [q EXCEPT !.head = After(q, q.head), !.overrun = q.overrun + 1]

\* Mutant: on overrun the head stays, so that a full queue becomes an empty one.
PushBackForgets(q, item) ==
  LET pushed == Pushed(q, item) IN
  IF pushed.tail = pushed.head THEN [pushed EXCEPT !.overrun = @ + 1] ELSE pushed

PushBack(q, item) ==
  LET pushed == Pushed(q, item) IN
  IF pushed.tail = pushed.head THEN OverrunLast(pushed) ELSE pushed

Front(q) == q.v[q.head]
PopFront(q) == [q EXCEPT !.v[q.head] = Moved, !.head = After(q, q.head)]

EmptyQ(q) == q.tail = q.head

FullQ(q) == After(q, q.tail) = q.head

-----------------------------------------------------------------------------
(* What a queue holds, oldest first.                                       *)

Size(q) == IF q.tail >= q.head THEN q.tail - q.head ELSE q.tail + q.max - q.head
Contents(q) ==
  [k \in 1 .. Size(q) |-> q.v[IF q.head + k - 1 < q.max THEN q.head + k - 1
                                                        ELSE q.head + k - 1 - q.max]]

\* A well-formed ring of items.
IsRing(q, Items) ==
  /\ q \in [max : Nat \ {0}, head : Nat, tail : Nat, overrun : Nat,
            v : [0 .. q.max - 1 -> Items \cup {Moved}]]
  /\ q.head < q.max /\ q.tail < q.max
  /\ \A k \in 1 .. Size(q) : Contents(q)[k] \in Items
=============================================================================
