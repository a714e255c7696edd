-------------------------- MODULE AsyncLog_proofs ---------------------------
(***************************************************************************)
(* Proofs about the asynchronous core of spdlog, for any threads that log, *)
(* any number of workers and any capacity of the queue: type correctness,  *)
(* that the ring buffer with its positions, as the threads use it, is the  *)
(* queue that LogQueue promises, and what becomes of the messages.         *)
(***************************************************************************)
EXTENDS AsyncLog, FiniteSetTheorems, TLAPS

-----------------------------------------------------------------------------
(* The members of a ring.                                                  *)

Rings(V) == [max : Nat \ {0}, head : Nat, tail : Nat, overrun : Nat, v : V]

LEMMA PushedMembers ==
  ASSUME NEW V, NEW r \in Rings(V), NEW x,
         [r.v EXCEPT ![r.tail] = x] \in V, After(r, r.tail) \in Nat
  PROVE  /\ Pushed(r, x) \in Rings(V) /\ Pushed(r, x).max = r.max
         /\ Pushed(r, x).head = r.head /\ Pushed(r, x).tail = After(r, r.tail)
         /\ Pushed(r, x).overrun = r.overrun
         /\ Pushed(r, x).v = [r.v EXCEPT ![r.tail] = x]
  BY DEF Pushed, Rings

LEMMA OverrunMembers ==
  ASSUME NEW V, NEW r \in Rings(V), After(r, r.head) \in Nat
  PROVE  /\ OverrunLast(r) \in Rings(V) /\ OverrunLast(r).max = r.max
         /\ OverrunLast(r).head = After(r, r.head) /\ OverrunLast(r).tail = r.tail
         /\ OverrunLast(r).overrun = r.overrun + 1 /\ OverrunLast(r).v = r.v
<1> DEFINE o == r.overrun + 1
           p == [r EXCEPT !.head = After(r, r.head), !.overrun = o]
<1>1. o \in Nat
  BY DEF Rings
<1> HIDE DEF o
<1>2. /\ p \in Rings(V) /\ p.max = r.max /\ p.head = After(r, r.head) /\ p.tail = r.tail
      /\ p.overrun = o /\ p.v = r.v
  BY <1>1 DEF Rings
<1>3. OverrunLast(r) = p
  BY DEF OverrunLast, o
<1> HIDE DEF p
<1> QED
  BY <1>2, <1>3 DEF o

LEMMA PopMembers ==
  ASSUME NEW V, NEW r \in Rings(V),
         [r.v EXCEPT ![r.head] = Moved] \in V, After(r, r.head) \in Nat
  PROVE  /\ PopFront(r) \in Rings(V) /\ PopFront(r).max = r.max
         /\ PopFront(r).head = After(r, r.head) /\ PopFront(r).tail = r.tail
         /\ PopFront(r).overrun = r.overrun
         /\ PopFront(r).v = [r.v EXCEPT ![r.head] = Moved]
  BY DEF PopFront, Rings

-----------------------------------------------------------------------------
(* Positions in a ring.                                                    *)

LEMMA NextPosition ==
  ASSUME NEW n \in Nat \ {0}, NEW i \in 0 .. n - 1
  PROVE  (i + 1 < n /\ (i + 1) % n = i + 1) \/ (i + 1 = n /\ (i + 1) % n = 0)
  OBVIOUS

\* The slot of the k-th oldest item of a ring r.
Slot(r, k) == IF r.head + k - 1 < r.max THEN r.head + k - 1 ELSE r.head + k - 1 - r.max

\* Where the positions of a ring may be.
Positions(r) ==
  /\ r.max \in Nat \ {0} /\ r.overrun \in Nat
  /\ r.head \in 0 .. r.max - 1 /\ r.tail \in 0 .. r.max - 1
  /\ \/ r.tail >= r.head /\ Size(r) = r.tail - r.head
     \/ r.tail < r.head /\ Size(r) = r.tail + r.max - r.head
  /\ \/ r.tail + 1 < r.max /\ After(r, r.tail) = r.tail + 1
     \/ r.tail + 1 = r.max /\ After(r, r.tail) = 0
  /\ \/ r.head + 1 < r.max /\ After(r, r.head) = r.head + 1
     \/ r.head + 1 = r.max /\ After(r, r.head) = 0
  /\ EmptyQ(r) <=> r.tail = r.head
  /\ FullQ(r) <=> After(r, r.tail) = r.head

Slots(r, Items) == [0 .. r.max - 1 -> Items \cup {Moved}]

LEMMA RingFacts ==
  ASSUME NEW Items, NEW r, IsRing(r, Items)
  PROVE  Positions(r) /\ r \in Rings(Slots(r, Items)) /\ r.v \in Slots(r, Items)
<1>1. r \in Rings(Slots(r, Items)) /\ r.head < r.max /\ r.tail < r.max
  BY DEF IsRing, Rings, Slots
<1>2. /\ r.max \in Nat \ {0} /\ r.overrun \in Nat /\ r.v \in Slots(r, Items)
      /\ r.head \in 0 .. r.max - 1 /\ r.tail \in 0 .. r.max - 1
  BY <1>1 DEF Rings
<1>3. \/ r.tail + 1 < r.max /\ After(r, r.tail) = r.tail + 1
      \/ r.tail + 1 = r.max /\ After(r, r.tail) = 0
  BY <1>2, NextPosition DEF After
<1>4. \/ r.head + 1 < r.max /\ After(r, r.head) = r.head + 1
      \/ r.head + 1 = r.max /\ After(r, r.head) = 0
  BY <1>2, NextPosition DEF After
<1>5. \/ r.tail >= r.head /\ Size(r) = r.tail - r.head
      \/ r.tail < r.head /\ Size(r) = r.tail + r.max - r.head
  BY <1>2 DEF Size
<1> QED
  BY <1>1, <1>2, <1>3, <1>4, <1>5 DEF Positions, EmptyQ, FullQ

LEMMA SlotValue ==
  ASSUME NEW r, Positions(r), NEW k \in 1 .. Size(r) + 1
  PROVE  \/ r.head + k - 1 < r.max /\ Slot(r, k) = r.head + k - 1
         \/ r.head + k - 1 >= r.max /\ Slot(r, k) = r.head + k - 1 - r.max
  BY DEF Slot, Positions

\* The items of a ring lie in slots of their own, other than the one at the tail.
LEMMA SlotFacts ==
  ASSUME NEW r, Positions(r), NEW k \in 1 .. Size(r)
  PROVE  /\ Slot(r, k) \in 0 .. r.max - 1 /\ Slot(r, k) # r.tail
         /\ k # 1 => Slot(r, k) # r.head
<1>1. Size(r) \in Nat /\ k \in 1 .. Size(r) + 1
  BY DEF Positions
<1>2. \/ r.head + k - 1 < r.max /\ Slot(r, k) = r.head + k - 1
      \/ r.head + k - 1 >= r.max /\ Slot(r, k) = r.head + k - 1 - r.max
  BY <1>1, SlotValue
<1> QED
  BY <1>1, <1>2 DEF Positions

LEMMA FreeSlot ==
  ASSUME NEW r, Positions(r)
  PROVE  Slot(r, Size(r) + 1) = r.tail
<1>1. Size(r) \in Nat /\ Size(r) + 1 \in 1 .. Size(r) + 1
  BY DEF Positions
<1>2. \/ r.head + Size(r) < r.max /\ Slot(r, Size(r) + 1) = r.head + Size(r)
      \/ r.head + Size(r) >= r.max /\ Slot(r, Size(r) + 1) = r.head + Size(r) - r.max
  BY <1>1 DEF Slot, Positions
<1> QED
  BY <1>1, <1>2 DEF Positions

\* What a ring holds is a sequence.
LEMMA ContentsType ==
  ASSUME NEW Items, NEW r, IsRing(r, Items)
  PROVE  /\ Contents(r) \in Seq(Items) /\ Len(Contents(r)) = Size(r) /\ Size(r) \in Nat
         /\ \A k \in 1 .. Size(r) : Contents(r)[k] \in Items /\ Contents(r)[k] = r.v[Slot(r, k)]
<1>r. Positions(r)
  BY RingFacts
<1>1. Size(r) \in Nat
  BY <1>r DEF Positions
<1>2. \A k \in 1 .. Size(r) : Contents(r)[k] \in Items
  BY DEF IsRing
<1>3. \A k \in 1 .. Size(r) : Contents(r)[k] = r.v[Slot(r, k)]
  BY DEF Contents, Slot
<1>4. Contents(r) \in [1 .. Size(r) -> Items]
  BY <1>2 DEF Contents
<1> QED
  BY <1>1, <1>2, <1>3, <1>4

\* A ring is well formed if its members are and its items are items.
LEMMA RingMade ==
  ASSUME NEW Items, NEW r, r \in Rings(Slots(r, Items)), r.head < r.max, r.tail < r.max,
         \A k \in 1 .. Size(r) : r.v[Slot(r, k)] \in Items
  PROVE  IsRing(r, Items)
<1>1. \A k \in 1 .. Size(r) : Contents(r)[k] = r.v[Slot(r, k)]
  BY DEF Contents, Slot
<1> QED
  BY <1>1 DEF IsRing, Rings, Slots

-----------------------------------------------------------------------------
(* The operations of a ring.                                               *)

\* A new ring is empty.
LEMMA NewRing ==
  ASSUME NEW Items, NEW n \in Nat
  PROVE  /\ IsRing(NewQ(n), Items) /\ NewQ(n).max = n + 1 /\ NewQ(n).overrun = 0
         /\ Contents(NewQ(n)) = << >>
<1> DEFINE r == NewQ(n)
<1>1. /\ r \in Rings([0 .. n -> Items \cup {Moved}])
      /\ r.max = n + 1 /\ r.head = 0 /\ r.tail = 0 /\ r.overrun = 0
  BY DEF NewQ, Rings
<1> HIDE DEF r
<1>s. r \in Rings(Slots(r, Items))
  <2>1. r.max - 1 = n
    BY <1>1
  <2> QED
    BY <1>1, <2>1 DEF Slots
<1>2. Size(r) = 0
  BY <1>1 DEF Size
<1>3. IsRing(r, Items)
  BY <1>1, <1>s, <1>2, RingMade
<1>4. Contents(r) = << >>
  BY <1>2, <1>3, ContentsType
<1> QED
  BY <1>1, <1>3, <1>4 DEF r

\* push_back on a ring with a free slot adds the item behind the others.
LEMMA PushWithRoom ==
  ASSUME NEW Items, NEW r, IsRing(r, Items), NEW x \in Items, ~FullQ(r)
  PROVE  /\ IsRing(PushBack(r, x), Items) /\ PushBack(r, x).max = r.max
         /\ PushBack(r, x).overrun = r.overrun
         /\ Contents(PushBack(r, x)) = Append(Contents(r), x)
         /\ Len(Contents(r)) < r.max - 1
<1> DEFINE p == PushBack(r, x)
<1>r. Positions(r) /\ r \in Rings(Slots(r, Items)) /\ r.v \in Slots(r, Items)
  BY RingFacts
<1>0. [r.v EXCEPT ![r.tail] = x] \in Slots(r, Items) /\ After(r, r.tail) \in 0 .. r.max - 1
  BY <1>r DEF Slots, Positions
<1>1. /\ p \in Rings(Slots(r, Items)) /\ p.max = r.max /\ p.head = r.head
      /\ p.tail = After(r, r.tail) /\ p.overrun = r.overrun
      /\ p.v = [r.v EXCEPT ![r.tail] = x]
  <2>1. After(r, r.tail) \in Nat /\ After(r, r.tail) # r.head
    BY <1>r, <1>0 DEF Positions
  <2> QED
    BY <1>r, <1>0, <2>1, PushedMembers DEF PushBack
<1> HIDE DEF p
<1>2. Size(p) = Size(r) + 1 /\ Size(r) \in Nat
  BY <1>1, <1>r, SMTT(30) DEF Size, Positions
<1>3. ASSUME NEW k \in 1 .. Size(p) PROVE Slot(p, k) = Slot(r, k)
  BY <1>1 DEF Slot
<1>4. ASSUME NEW k \in 1 .. Size(r) PROVE p.v[Slot(p, k)] = Contents(r)[k]
  <2>1. Slot(p, k) = Slot(r, k)
    BY <1>2, <1>3
  <2>2. Slot(r, k) \in 0 .. r.max - 1 /\ Slot(r, k) # r.tail
    BY <1>r, SlotFacts
  <2> QED
    BY <1>1, <1>r, <2>1, <2>2, ContentsType DEF Slots
<1>5. p.v[Slot(p, Size(p))] = x
  <2>1. Size(p) \in 1 .. Size(p)
    BY <1>2
  <2>2. Slot(p, Size(p)) = r.tail
    BY <1>2, <1>3, <1>r, <2>1, FreeSlot
  <2> QED
    BY <1>1, <1>r, <2>2 DEF Slots, Positions
<1>6. IsRing(p, Items)
  <2>1. ASSUME NEW k \in 1 .. Size(p) PROVE p.v[Slot(p, k)] \in Items
    <3>1. k = Size(p) \/ k \in 1 .. Size(r)
      BY <1>2
    <3> QED
      BY <1>4, <1>5, <3>1, ContentsType
  <2>s. p \in Rings(Slots(p, Items))
    BY <1>1 DEF Slots
  <2>t. p.head < p.max /\ p.tail < p.max
    BY <1>0, <1>1, <1>r DEF Positions
  <2> QED
    BY <2>1, <2>s, <2>t, RingMade
<1>7. Contents(p) = Append(Contents(r), x)
  <2>1. \A k \in 1 .. Size(r) : Contents(p)[k] = Contents(r)[k]
    BY <1>2, <1>4, <1>6, ContentsType
  <2>2. Contents(p)[Size(p)] = x
    <3>1. Size(p) \in 1 .. Size(p)
      BY <1>2
    <3> QED
      BY <1>5, <1>6, <3>1, ContentsType
  <2>3. /\ Contents(p) \in Seq(Items) /\ Len(Contents(p)) = Size(p)
        /\ Contents(r) \in Seq(Items) /\ Len(Contents(r)) = Size(r)
    BY <1>6, ContentsType
  <2> QED
    BY <1>2, <2>1, <2>2, <2>3
<1>8. Size(r) < r.max - 1
  BY <1>r DEF Positions
<1> QED
  BY <1>1, <1>6, <1>7, <1>8, ContentsType DEF p

\* push_back on a full ring loses the oldest item and counts it.
LEMMA PushOverOldest ==
  ASSUME NEW Items, NEW r, IsRing(r, Items), NEW x \in Items, FullQ(r), r.max > 1
  PROVE  /\ IsRing(PushBack(r, x), Items) /\ PushBack(r, x).max = r.max
         /\ PushBack(r, x).overrun = r.overrun + 1
         /\ Contents(PushBack(r, x)) = Append(Tail(Contents(r)), x)
         /\ Len(Contents(r)) = r.max - 1
<1> DEFINE p == PushBack(r, x)
<1>r. Positions(r) /\ r \in Rings(Slots(r, Items)) /\ r.v \in Slots(r, Items)
  BY RingFacts
<1>0. [r.v EXCEPT ![r.tail] = x] \in Slots(r, Items) /\ After(r, r.tail) \in 0 .. r.max - 1
  BY <1>r DEF Slots, Positions
<1>1. /\ p \in Rings(Slots(r, Items)) /\ p.max = r.max /\ p.head = After(r, r.head)
      /\ p.tail = After(r, r.tail) /\ p.overrun = r.overrun + 1
      /\ p.v = [r.v EXCEPT ![r.tail] = x]
  <2> DEFINE u == Pushed(r, x)
  <2>1. After(r, r.tail) = r.head /\ After(r, r.tail) \in Nat /\ After(r, r.head) \in Nat
    BY <1>r, <1>0 DEF Positions
  <2>2. /\ u \in Rings(Slots(r, Items)) /\ u.max = r.max /\ u.head = r.head
        /\ u.tail = After(r, r.tail) /\ u.overrun = r.overrun
        /\ u.v = [r.v EXCEPT ![r.tail] = x]
    BY <1>r, <1>0, <2>1, PushedMembers
  <2>3. After(u, u.head) = After(r, r.head)
    BY <2>2 DEF After
  <2>4. p = OverrunLast(u)
    BY <2>1, <2>2 DEF PushBack
  <2> HIDE DEF p, u
  <2> QED
    BY <2>1, <2>2, <2>3, <2>4, OverrunMembers
<1> HIDE DEF p
<1>f. Size(r) \in Nat \ {0} /\ Size(r) = r.max - 1
  BY <1>r DEF Positions
<1>2. Size(p) = Size(r) /\ Size(r) \in Nat \ {0}
  BY <1>1, <1>r, <1>f DEF Size, Positions
<1>3. ASSUME NEW k \in 1 .. Size(p) PROVE Slot(p, k) = Slot(r, k + 1)
  BY <1>1, <1>2, <1>r DEF Slot, Positions
<1>4. ASSUME NEW k \in 1 .. Size(r) - 1 PROVE p.v[Slot(p, k)] = Contents(r)[k + 1]
  <2>1. Slot(p, k) = Slot(r, k + 1) /\ k + 1 \in 1 .. Size(r)
    BY <1>2, <1>3
  <2>2. Slot(r, k + 1) \in 0 .. r.max - 1 /\ Slot(r, k + 1) # r.tail
    BY <1>r, <2>1, SlotFacts
  <2> QED
    BY <1>1, <1>r, <2>1, <2>2, ContentsType DEF Slots
<1>5. p.v[Slot(p, Size(p))] = x
  <2>1. Size(p) \in 1 .. Size(p)
    BY <1>2
  <2>2. Slot(p, Size(p)) = r.tail
    BY <1>2, <1>3, <1>r, <2>1, FreeSlot
  <2> QED
    BY <1>1, <1>r, <2>2 DEF Slots, Positions
<1>6. IsRing(p, Items)
  <2>1. ASSUME NEW k \in 1 .. Size(p) PROVE p.v[Slot(p, k)] \in Items
    <3>1. k = Size(p) \/ (k \in 1 .. Size(r) - 1 /\ k + 1 \in 1 .. Size(r))
      BY <1>2
    <3> QED
      BY <1>4, <1>5, <3>1, ContentsType
  <2>s. p \in Rings(Slots(p, Items))
    BY <1>1 DEF Slots
  <2>t. p.head < p.max /\ p.tail < p.max
    BY <1>0, <1>1, <1>r DEF Positions
  <2> QED
    BY <2>1, <2>s, <2>t, RingMade
<1>7. Contents(p) = Append(Tail(Contents(r)), x)
  <2>1. \A k \in 1 .. Size(r) - 1 : Contents(p)[k] = Contents(r)[k + 1]
    BY <1>2, <1>4, <1>6, ContentsType
  <2>2. Contents(p)[Size(p)] = x
    <3>1. Size(p) \in 1 .. Size(p)
      BY <1>2
    <3> QED
      BY <1>5, <1>6, <3>1, ContentsType
  <2>3. /\ Contents(p) \in Seq(Items) /\ Len(Contents(p)) = Size(p)
        /\ Contents(r) \in Seq(Items) /\ Len(Contents(r)) = Size(r)
    BY <1>6, ContentsType
  <2> DEFINE c == Append(Tail(Contents(r)), x)
  <2>4. c \in Seq(Items) /\ Len(c) = Size(r)
    BY <1>2, <2>3
  <2>5. ASSUME NEW k \in 1 .. Size(r) - 1 PROVE c[k] = Contents(r)[k + 1]
    BY <1>2, <2>3, <2>5
  <2>6. c[Size(r)] = x
    BY <1>2, <2>3
  <2> HIDE DEF c
  <2>7. ASSUME NEW k \in 1 .. Size(r) PROVE Contents(p)[k] = c[k]
    <3>1. k = Size(r) \/ k \in 1 .. Size(r) - 1
      BY <1>2
    <3> QED
      BY <1>2, <2>1, <2>2, <2>5, <2>6, <3>1
  <2>8. Contents(p) = c
    BY <1>2, <2>3, <2>4, <2>7
  <2> QED
    BY <2>8 DEF c
<1> QED
  BY <1>1, <1>f, <1>6, <1>7, ContentsType DEF p

\* front and pop_front take the oldest item.
LEMMA PopOldest ==
  ASSUME NEW Items, NEW r, IsRing(r, Items), ~EmptyQ(r)
  PROVE  /\ IsRing(PopFront(r), Items) /\ PopFront(r).max = r.max
         /\ PopFront(r).overrun = r.overrun
         /\ Contents(PopFront(r)) = Tail(Contents(r))
         /\ Contents(r) # << >> /\ Front(r) \in Items
<1> DEFINE p == PopFront(r)
<1>r. Positions(r) /\ r \in Rings(Slots(r, Items)) /\ r.v \in Slots(r, Items)
  BY RingFacts
<1>0. [r.v EXCEPT ![r.head] = Moved] \in Slots(r, Items) /\ After(r, r.head) \in 0 .. r.max - 1
  BY <1>r DEF Slots, Positions
<1>1. /\ p \in Rings(Slots(r, Items)) /\ p.max = r.max /\ p.head = After(r, r.head)
      /\ p.tail = r.tail /\ p.overrun = r.overrun
      /\ p.v = [r.v EXCEPT ![r.head] = Moved]
  <2>1. After(r, r.head) \in Nat
    BY <1>0, <1>r DEF Positions
  <2> HIDE DEF p
  <2> QED
    BY <1>r, <1>0, <2>1, PopMembers DEF p
<1> HIDE DEF p
<1>2. Size(p) = Size(r) - 1 /\ Size(r) \in Nat \ {0}
  <2>1. r.tail # r.head
    BY <1>r DEF Positions
  <2>2. /\ p.tail >= p.head => Size(p) = p.tail - p.head
        /\ p.tail < p.head => Size(p) = p.tail + p.max - p.head
    BY <1>1, <1>r DEF Size, Positions
  <2> QED
    BY <1>1, <1>r, <2>1, <2>2, SMTT(30) DEF Positions
<1>3. ASSUME NEW k \in 1 .. Size(p) PROVE Slot(p, k) = Slot(r, k + 1)
  BY <1>1, <1>2, <1>r DEF Slot, Positions
<1>4. ASSUME NEW k \in 1 .. Size(p) PROVE p.v[Slot(p, k)] = Contents(r)[k + 1]
  <2>1. Slot(p, k) = Slot(r, k + 1) /\ k + 1 \in 1 .. Size(r) /\ k + 1 # 1
    BY <1>2, <1>3
  <2>2. Slot(r, k + 1) \in 0 .. r.max - 1 /\ Slot(r, k + 1) # r.head
    BY <1>r, <2>1, SlotFacts
  <2> QED
    BY <1>1, <1>r, <2>1, <2>2, ContentsType DEF Slots
<1>5. IsRing(p, Items)
  <2>1. ASSUME NEW k \in 1 .. Size(p) PROVE p.v[Slot(p, k)] \in Items
    <3>1. k + 1 \in 1 .. Size(r)
      BY <1>2
    <3> QED
      BY <1>4, <3>1, ContentsType
  <2>s. p \in Rings(Slots(p, Items))
    BY <1>1 DEF Slots
  <2>t. p.head < p.max /\ p.tail < p.max
    BY <1>0, <1>1, <1>r DEF Positions
  <2> QED
    BY <2>1, <2>s, <2>t, RingMade
<1>6. /\ Contents(r) \in Seq(Items) /\ Len(Contents(r)) = Size(r)
      /\ Contents(p) \in Seq(Items) /\ Len(Contents(p)) = Size(p)
  BY <1>5, ContentsType
<1>7. Contents(p) = Tail(Contents(r))
  <2>1. \A k \in 1 .. Size(p) : Contents(p)[k] = Contents(r)[k + 1]
    BY <1>4, <1>5, ContentsType
  <2> QED
    BY <1>2, <1>6, <2>1
<1>8. Front(r) \in Items
  <2>1. 1 \in 1 .. Size(r) /\ Slot(r, 1) = r.head
    BY <1>2, <1>r DEF Slot, Positions
  <2> QED
    BY <2>1, ContentsType DEF Front
<1> QED
  BY <1>1, <1>2, <1>5, <1>6, <1>7, <1>8 DEF p

-----------------------------------------------------------------------------
(* Type correctness.                                                       *)

Posting == {"post", "blocked", "notify", "leave"}

\* Whoever posts has made a message and holds the pool, or it is the thread that
\* destroys the pool, which nobody holds any more; a worker hands on what it took.
PostInv ==
  /\ \A s \in Senders :
       /\ count[s] <= Bursts[s]
       /\ pc[s] \in Posting => count[s] >= 1 /\ (s # killer => s \in refs)
  /\ pc[main] \in Posting => killer = main
  /\ pc[main] \in {"idle", "drop"} => registry \in refs
  /\ killer # Nobody => refs = {}
  /\ \A w \in Workers : pc[w] \in {"popped", "deliver"} => holds[w] \in Messages

AsyncInv == AsyncTypeOK /\ PostInv

Threads == Senders \cup Workers \cup {main}
Places ==
  {"idle", "post", "blocked", "notify", "leave", "join", "gone",
   "ready", "asleep", "popped", "deliver", "drop", "down"}

LEMMA Constants ==
  /\ Bursts \in [Senders -> Nat] /\ Rooms \subseteq Nat \ {0} /\ Policies \subseteq SUBSET Senders
  /\ main \notin Senders /\ main \notin Workers /\ Senders \cap Workers = {}
  /\ flusher \in Senders /\ flusher # main /\ Terminate \in Messages
  /\ Moved \notin Messages /\ Nobody \notin Senders \cup {main} /\ registry \notin Senders
  BY AsyncLogAssumption DEF AsyncLogAssumption, Senders, flusher, main, Messages, Terminate, Moved, Logged, Nobody, registry

LEMMA MadeIsLogged ==
  ASSUME NEW s \in Senders, NEW k \in 1 .. Bursts[s]
  PROVE  <<s, k>> \in Logged /\ <<s, k>> \in Messages
  BY DEF Logged, Messages

\* A thread that posts puts a message into the queue.
LEMMA ItemType ==
  ASSUME AsyncInv, NEW t \in Senders \cup {main}, pc[t] = "post"
  PROVE  Item(t) \in Messages
<1>1. CASE t = killer
  BY <1>1, Constants DEF Item
<1>2. CASE t # killer
  <2>1. t \in Senders /\ count[t] >= 1
    BY <1>2 DEF AsyncInv, PostInv, Posting
  <2>2. count[t] \in 1 .. Bursts[t]
    BY <1>2, <2>1, Constants DEF AsyncInv, PostInv, AsyncTypeOK
  <2> QED
    BY <1>2, <2>1, <2>2, MadeIsLogged DEF Item
<1> QED
  BY <1>1, <1>2

\* A step that puts one thread, or two, elsewhere and touches neither the queue nor a
\* message nor the references keeps the invariant, if nobody comes to post by it.
LEMMA Moves ==
  ASSUME AsyncInv, pc' \in [Threads -> Places],
         UNCHANGED <<settings, q, count, refs, killer, holds, delivered, refused>>, told' \in Nat,
         \A t \in Senders \cup {main} : pc'[t] \in Posting => pc[t] \in Posting,
         pc'[main] \in {"idle", "drop"} => pc[main] \in {"idle", "drop"},
         \A w \in Workers : pc'[w] \in {"popped", "deliver"} => pc[w] \in {"popped", "deliver"}
  PROVE  AsyncInv'
<1>1. AsyncTypeOK'
  BY DEF AsyncInv, AsyncTypeOK, settings, Threads, Places
<1>2. PostInv'
  BY DEF AsyncInv, PostInv, settings
<1> QED
  BY <1>1, <1>2 DEF AsyncInv

LEMMA PcType ==
  ASSUME AsyncInv
  PROVE  pc \in [Threads -> Places] /\ DOMAIN pc = Threads
  BY DEF AsyncInv, AsyncTypeOK, Threads, Places

\* notify_one moves the thread that calls it and perhaps one that sleeps.
LEMMA Notified ==
  ASSUME AsyncInv, NEW t \in Threads, NEW to \in Places, NEW sleeping, NEW woken \in Places,
         NotifyOne(t, to, sleeping, woken)
  PROVE  /\ pc' \in [Threads -> Places]
         /\ \A u \in Threads :
              pc'[u] = pc[u] \/ (u = t /\ pc'[u] = to) \/ (pc[u] = sleeping /\ pc'[u] = woken)
<1> DEFINE asleep == {u \in DOMAIN pc : pc[u] = sleeping}
<1>1. CASE asleep = {}
  <2>1. pc' = [pc EXCEPT ![t] = to]
    BY <1>1 DEF NotifyOne
  <2> QED
    BY <2>1, PcType
<1>2. CASE asleep # {}
  <2>1. PICK u \in asleep : pc' = [pc EXCEPT ![t] = to, ![u] = woken]
    BY <1>2 DEF NotifyOne
  <2> QED
    BY <2>1, PcType
<1> QED
  BY <1>1, <1>2

LEMMA PostType ==
  ASSUME AsyncInv, NEW s \in Senders, Post(s)
  PROVE  AsyncInv'
<1> USE Constants
<1>1. count' = [count EXCEPT ![s] = count[s] + 1] /\ count[s] + 1 \in 1 .. Bursts[s]
  <2>1. count[s] \in Nat /\ Bursts[s] \in Nat /\ count[s] < Bursts[s]
    BY DEF Post, AsyncInv, AsyncTypeOK
  <2>2. count[s] + 1 \in 1 .. Bursts[s]
    BY <2>1
  <2> QED
    BY <2>2 DEF Post
<1>2. CASE refs # {}
  <2>1. pc' = [pc EXCEPT ![s] = "post"] /\ refs' = refs \cup {s} /\ refused' = refused
    BY <1>2 DEF Post, Goes
  <2>2. AsyncTypeOK'
    BY <1>1, <2>1 DEF Post, AsyncInv, AsyncTypeOK, settings
  <2>3. PostInv'
    BY <1>1, <2>1 DEF Post, AsyncInv, AsyncTypeOK, PostInv, Posting, settings
  <2> QED
    BY <2>2, <2>3 DEF AsyncInv
<1>3. CASE refs = {}
  <2>1. pc' = pc /\ refs' = refs /\ refused' = refused \cup {<<s, count[s] + 1>>}
    BY <1>3 DEF Post
  <2>2. refused' \subseteq Logged
    BY <1>1, <2>1, MadeIsLogged DEF AsyncInv, AsyncTypeOK
  <2>3. AsyncTypeOK'
    BY <1>1, <2>1, <2>2 DEF Post, AsyncInv, AsyncTypeOK, settings
  <2>4. PostInv'
    BY <1>1, <2>1 DEF Post, AsyncInv, AsyncTypeOK, PostInv, Posting, settings
  <2> QED
    BY <2>3, <2>4 DEF AsyncInv
<1> QED
  BY <1>2, <1>3

\* enqueue: the ring stays one, and what it holds is that of LogQueue.
LEMMA EnqueueType ==
  ASSUME AsyncInv, NEW t \in Senders \cup {main}, Enqueue(t)
  PROVE  AsyncInv' /\ (Queue!Next \/ UNCHANGED <<room, Contents(q), q.overrun>>)
<1> DEFINE x == Item(t)
<1>1. /\ IsRing(q, Messages) /\ q.max = room + 1 /\ room \in Nat \ {0}
      /\ x \in Messages /\ room' = room /\ t \in Threads
  BY ItemType, Constants DEF AsyncInv, AsyncTypeOK, Enqueue, settings, Threads
<1>2. CASE Waits(t) /\ FullQ(q)
  <2>1. pc' = [pc EXCEPT ![t] = "blocked"] /\ q' = q
    BY <1>2 DEF Enqueue, Goes
  <2>2. pc' \in [Threads -> Places]
    BY <1>1, <2>1, PcType DEF Places
  <2>3. AsyncInv'
    BY <1>1, <2>1, <2>2, Moves, Constants DEF Enqueue, AsyncInv, AsyncTypeOK, Posting, Threads
  <2> QED
    BY <1>1, <2>1, <2>3
<1>3. CASE ~(Waits(t) /\ FullQ(q))
  <2>1. pc' = [pc EXCEPT ![t] = "notify"] /\ q' = PushBack(q, x)
    BY <1>3 DEF Enqueue, Goes
  <2>2. ASSUME ~FullQ(q) PROVE IsRing(q', Messages) /\ q'.max = q.max /\ Queue!Next
    <3>1. /\ IsRing(q', Messages) /\ q'.max = q.max /\ q'.overrun = q.overrun
          /\ Contents(q') = Append(Contents(q), x) /\ Len(Contents(q)) < room
      BY <1>1, <2>1, <2>2, PushWithRoom
    <3>2. Contents(q) \in Seq(Messages) /\ Len(Contents(q)) \in Nat
      BY <1>1, ContentsType
    <3>3. /\ Contents(q') # << >> /\ Contents(q')[Len(Contents(q'))] = x
          /\ Len(Contents(q')) <= room
      BY <1>1, <3>1, <3>2
    <3>4. Queue!Put
      BY <3>1, <3>3 DEF Queue!Put
    <3> QED
      BY <1>1, <3>1, <3>4 DEF Queue!Next
  <2>3. ASSUME FullQ(q) PROVE IsRing(q', Messages) /\ q'.max = q.max /\ Queue!Next
    <3>1. /\ IsRing(q', Messages) /\ q'.max = q.max /\ q'.overrun = q.overrun + 1
          /\ Contents(q') = Append(Tail(Contents(q)), x) /\ Len(Contents(q)) = room
      BY <1>1, <2>1, <2>3, PushOverOldest
    <3>2. Contents(q) \in Seq(Messages)
      BY <1>1, ContentsType
    <3>3. Contents(q') # << >> /\ Contents(q')[Len(Contents(q'))] = x
      BY <1>1, <3>1, <3>2
    <3>4. Queue!PutOverOldest
      BY <3>1, <3>3 DEF Queue!PutOverOldest
    <3> QED
      BY <1>1, <3>1, <3>4 DEF Queue!Next
  <2>4. IsRing(q', Messages) /\ q'.max = q.max /\ Queue!Next
    BY <2>2, <2>3
  <2>5. AsyncTypeOK'
    BY <1>1, <2>1, <2>4 DEF Enqueue, AsyncInv, AsyncTypeOK, settings
  <2>6. PostInv'
    BY <2>1 DEF Enqueue, AsyncInv, AsyncTypeOK, PostInv, Posting, settings
  <2> QED
    BY <2>4, <2>5, <2>6 DEF AsyncInv
<1> QED
  BY <1>2, <1>3

\* dequeue_for: the oldest message goes to the worker.
LEMMA DequeueType ==
  ASSUME AsyncInv, NEW w \in Workers, Dequeue(w)
  PROVE  AsyncInv' /\ (Queue!Next \/ UNCHANGED <<room, Contents(q), q.overrun>>)
<1>1. IsRing(q, Messages) /\ room' = room
  BY DEF AsyncInv, AsyncTypeOK, Dequeue, settings
<1>2. CASE EmptyQ(q)
  <2>1. pc' = [pc EXCEPT ![w] = "asleep"] /\ q' = q /\ holds' = holds
    BY <1>2 DEF Dequeue, Goes
  <2>2. pc' \in [Threads -> Places]
    BY <2>1, PcType DEF Places, Threads
  <2>3. AsyncInv'
    BY <1>1, <2>1, <2>2, Moves, Constants, PcType DEF Dequeue, AsyncInv, AsyncTypeOK, Posting, Threads
  <2> QED
    BY <1>1, <2>1, <2>3
<1>3. CASE ~EmptyQ(q)
  <2>1. /\ pc' = [pc EXCEPT ![w] = "popped"] /\ q' = PopFront(q)
        /\ holds' = [holds EXCEPT ![w] = Front(q)]
    BY <1>3 DEF Dequeue, Goes
  <2>2. /\ IsRing(q', Messages) /\ q'.max = q.max /\ q'.overrun = q.overrun
        /\ Contents(q') = Tail(Contents(q)) /\ Contents(q) # << >> /\ Front(q) \in Messages
    BY <1>1, <1>3, <2>1, PopOldest
  <2>3. Queue!Take
    BY <2>2 DEF Queue!Take
  <2>4. AsyncTypeOK'
    BY <2>1, <2>2 DEF Dequeue, AsyncInv, AsyncTypeOK, settings
  <2>5. PostInv'
    BY <2>1, <2>2, Constants DEF Dequeue, AsyncInv, AsyncTypeOK, PostInv, Posting, settings
  <2> QED
    BY <1>1, <2>3, <2>4, <2>5 DEF AsyncInv, Queue!Next
<1> QED
  BY <1>2, <1>3

\* A worker hands its message on.
LEMMA ProcessType ==
  ASSUME AsyncInv, NEW w \in Workers, Process(w)
  PROVE  AsyncInv'
<1>1. /\ holds[w] \in Messages /\ delivered' = delivered \cup ({holds[w]} \ {Terminate})
      /\ holds' = [holds EXCEPT ![w] = Moved]
      /\ pc' = [pc EXCEPT ![w] = IF holds[w] = Terminate THEN "gone" ELSE "ready"]
  BY DEF Process, Goes, AsyncInv, PostInv
<1>2. AsyncTypeOK'
  BY <1>1 DEF Process, AsyncInv, AsyncTypeOK, settings, Messages
<1>3. PostInv'
  BY <1>1, Constants DEF Process, AsyncInv, AsyncTypeOK, PostInv, Posting, settings
<1> QED
  BY <1>2, <1>3 DEF AsyncInv

\* pool_ptr goes out of scope: the last to hold the pool is the one to destroy it,
\* and nobody else is posting then.
LEMMA ReleaseType ==
  ASSUME AsyncInv, NEW t \in Senders \cup {main}, NEW owner \in refs, NEW to \in {"idle", "down"},
         Release(t, owner, to),
         t \in Senders => owner = t /\ pc[t] \in Posting /\ to = "idle",
         t = main => owner = registry /\ to = "down",
         UNCHANGED <<settings, q, count, told, holds, delivered, refused>>
  PROVE  AsyncInv'
<1> USE Constants
<1>1. killer = Nobody /\ refs \subseteq Senders \cup {registry} /\ refs' = refs \ {owner}
  BY DEF AsyncInv, AsyncTypeOK, PostInv, Release
<1>2. PICK at \in Places : pc' = [pc EXCEPT ![t] = at]
        /\ \/ at = to /\ refs' # {} /\ killer' = killer
           \/ at = "post" /\ refs' = {} /\ killer' = t
  BY DEF Release, Places
<1>3. /\ pc' \in [Threads -> Places] /\ pc'[t] = at
      /\ \A u \in Threads : u # t => pc'[u] = pc[u]
  BY <1>2, PcType DEF Threads
<1>4. AsyncTypeOK'
  BY <1>1, <1>2, <1>3 DEF AsyncInv, AsyncTypeOK, settings, Threads, Places
<1>5. ASSUME NEW s \in Senders, pc'[s] \in Posting
      PROVE  count'[s] >= 1 /\ (s # killer' => s \in refs')
  <2>1. CASE s = t
    BY <1>2, <1>3, <1>5, <2>1 DEF AsyncInv, PostInv, Posting
  <2>2. CASE s # t
    <3>1. pc[s] \in Posting /\ s # owner
      BY <1>3, <1>5, <2>2 DEF Threads
    <3>2. count[s] >= 1 /\ s \in refs
      BY <1>1, <3>1 DEF AsyncInv, PostInv
    <3> QED
      BY <1>1, <3>1, <3>2
  <2> QED
    BY <2>1, <2>2
<1>6. pc'[main] \in Posting => killer' = main
  <2>1. CASE t = main
    BY <1>2, <1>3, <2>1 DEF Posting
  <2>2. CASE t # main
    BY <1>1, <1>3, <2>2 DEF AsyncInv, PostInv, Threads
  <2> QED
    BY <2>1, <2>2
<1>7. pc'[main] \in {"idle", "drop"} => registry \in refs'
  <2>1. CASE t = main
    BY <1>2, <1>3, <2>1
  <2>2. CASE t # main
    BY <1>1, <1>3, <2>2 DEF AsyncInv, PostInv, Threads
  <2> QED
    BY <2>1, <2>2
<1>8. killer' # Nobody => refs' = {}
  BY <1>1, <1>2
<1>9. \A w \in Workers : pc'[w] \in {"popped", "deliver"} => holds'[w] \in Messages
  BY <1>3 DEF AsyncInv, PostInv, Threads
<1>10. \A s \in Senders : count'[s] <= Bursts[s]
  BY DEF AsyncInv, PostInv
<1> QED
  BY <1>4, <1>5, <1>6, <1>7, <1>8, <1>9, <1>10 DEF AsyncInv, PostInv

LEMMA LeaveType ==
  ASSUME AsyncInv, NEW s \in Senders, Leave(s)
  PROVE  AsyncInv'
<1>1. s \in refs /\ s # main
  BY Constants DEF Leave, AsyncInv, PostInv, Posting
<1> QED
  BY <1>1, ReleaseType DEF Leave, Posting

LEMMA ResetPoolType ==
  ASSUME AsyncInv, ResetPool
  PROVE  AsyncInv'
<1>1. registry \in refs /\ main \notin Senders
  BY Constants DEF ResetPool, AsyncInv, PostInv
<1> QED
  BY <1>1, ReleaseType DEF ResetPool

\* The remaining steps of the threads only move them.
LEMMA QuietPostType ==
  ASSUME AsyncInv, NEW t \in Senders \cup {main},
         NotifyPush(t) \/ LeaveTerminate(t) \/ Join(t) \/ StopFlusher
  PROVE  AsyncInv'
<1> USE Constants
<1>0. t \in Threads /\ main \in Threads /\ flusher \in Threads
  BY DEF Threads
<1>t. told \in Nat /\ pc \in [Threads -> Places]
  BY PcType DEF AsyncInv, AsyncTypeOK
<1>1. CASE NotifyPush(t)
  <2>1. /\ pc' \in [Threads -> Places] /\ pc[t] = "notify"
        /\ \A u \in Threads :
             pc'[u] = pc[u] \/ (u = t /\ pc'[u] = "leave") \/ (pc[u] = "asleep" /\ pc'[u] = "ready")
    BY <1>0, <1>1, Notified DEF NotifyPush, Places
  <2> QED
    BY <1>1, <1>t, <2>1, Moves DEF NotifyPush, Posting, settings, Threads
<1>2. CASE LeaveTerminate(t)
  BY <1>0, <1>2, <1>t, Moves DEF LeaveTerminate, Posting, settings, Threads, Places
<1>3. CASE Join(t)
  BY <1>0, <1>3, <1>t, Moves DEF Join, Posting, settings, Threads, Places
<1>4. CASE StopFlusher
  BY <1>0, <1>4, <1>t, Moves DEF StopFlusher, Posting, settings, Threads, Places
<1> QED
  BY <1>1, <1>2, <1>3, <1>4

LEMMA QuietWorkerType ==
  ASSUME AsyncInv, NEW w \in Workers, DequeueTimesOut(w) \/ NotifyPop(w)
  PROVE  AsyncInv'
<1> USE Constants
<1>0. w \in Threads
  BY DEF Threads
<1>t. told \in Nat /\ pc \in [Threads -> Places]
  BY PcType DEF AsyncInv, AsyncTypeOK
<1>1. CASE DequeueTimesOut(w)
  BY <1>0, <1>1, <1>t, Moves DEF DequeueTimesOut, Goes, Posting, settings, Threads, Places
<1>2. CASE NotifyPop(w)
  <2>1. /\ pc' \in [Threads -> Places] /\ pc[w] = "popped"
        /\ \A u \in Threads :
             pc'[u] = pc[u] \/ (u = w /\ pc'[u] = "deliver") \/ (pc[u] = "blocked" /\ pc'[u] = "post")
    BY <1>0, <1>2, Notified DEF NotifyPop, Places
  <2> QED
    BY <1>2, <1>t, <2>1, Moves DEF NotifyPop, Posting, settings, Threads
<1> QED
  BY <1>1, <1>2

-----------------------------------------------------------------------------
(* The theorems.                                                           *)

Abstract == <<room, Contents(q), q.overrun>>

LEMMA AsyncStart ==
  ASSUME AsyncInit
  PROVE  AsyncInv /\ Queue!Init
<1>1. room \in Nat \ {0} /\ room \in Rooms
  BY Constants DEF AsyncInit
<1>2. IsRing(q, Messages) /\ q.max = room + 1 /\ q.overrun = 0 /\ Contents(q) = << >>
  BY <1>1, NewRing DEF AsyncInit
<1>3. AsyncTypeOK
  BY <1>2 DEF AsyncInit, AsyncTypeOK
<1>4. PostInv
  BY Constants DEF AsyncInit, PostInv, Posting
<1> QED
  BY <1>1, <1>2, <1>3, <1>4 DEF AsyncInv, Queue!Init

LEMMA AsyncStep ==
  ASSUME AsyncInv, AsyncNext
  PROVE  AsyncInv' /\ (Queue!Next \/ UNCHANGED Abstract)
<1>1. ASSUME NEW t \in Senders \cup {main}, PostStep(t)
      PROVE  AsyncInv' /\ (Queue!Next \/ UNCHANGED Abstract)
  <2>1. CASE Enqueue(t)
    BY <2>1, EnqueueType DEF Abstract
  <2>2. CASE NotifyPush(t)
    BY <2>2, QuietPostType DEF NotifyPush, Abstract, settings
  <2>3. CASE LeaveTerminate(t)
    BY <2>3, QuietPostType DEF LeaveTerminate, Abstract, settings
  <2>4. CASE Join(t)
    BY <2>4, QuietPostType DEF Join, Abstract, settings
  <2> QED
    BY <1>1, <2>1, <2>2, <2>3, <2>4 DEF PostStep
<1>2. ASSUME NEW s \in Senders, Post(s) \/ Leave(s)
      PROVE  AsyncInv' /\ UNCHANGED Abstract
  BY <1>2, PostType, LeaveType DEF Post, Leave, Abstract, settings
<1>3. ASSUME NEW w \in Workers, WorkerStep(w)
      PROVE  AsyncInv' /\ (Queue!Next \/ UNCHANGED Abstract)
  <2>1. CASE Dequeue(w)
    BY <2>1, DequeueType DEF Abstract
  <2>2. CASE DequeueTimesOut(w)
    BY <2>2, QuietWorkerType DEF DequeueTimesOut, Abstract, settings
  <2>3. CASE NotifyPop(w)
    BY <2>3, QuietWorkerType DEF NotifyPop, Abstract, settings
  <2>4. CASE Process(w)
    BY <2>4, ProcessType DEF Process, Abstract, settings
  <2> QED
    BY <1>3, <2>1, <2>2, <2>3, <2>4 DEF WorkerStep
<1>4. CASE Shutdown
  <2>1. CASE StopFlusher
    BY <2>1, QuietPostType DEF StopFlusher, Abstract, settings
  <2>2. CASE ResetPool
    BY <2>2, ResetPoolType DEF ResetPool, Abstract, settings
  <2> QED
    BY <1>4, <2>1, <2>2 DEF Shutdown
<1> QED
  BY <1>1, <1>2, <1>3, <1>4 DEF AsyncNext, SenderStep, MainStep

LEMMA AsyncStutter ==
  ASSUME AsyncInv, UNCHANGED asyncVars
  PROVE  AsyncInv' /\ UNCHANGED Abstract
  BY DEF AsyncInv, AsyncTypeOK, PostInv, asyncVars, Abstract

\* Type correctness of the loggers, the pool and its queue (thread_pool-inl.h,
\* mpmc_blocking_q.h): the ring stays well formed and holds messages only.
THEOREM AsyncTyping == AsyncSpec => []AsyncInv
<1>1. AsyncInit => AsyncInv
  BY AsyncStart
<1>2. AsyncInv /\ [AsyncNext]_asyncVars => AsyncInv'
  BY AsyncStep, AsyncStutter
<1> QED
  BY <1>1, <1>2, PTL DEF AsyncSpec

\* The queue of the pool, as any number of threads use it, is LogQueue's: bounded,
\* first in first out, and losing only its oldest message, which it counts.
THEOREM ImplementsQueue == AsyncSpec => QueueSpec
<1>1. AsyncInit => Queue!Init
  BY AsyncStart
<1>2. AsyncInv /\ [AsyncNext]_asyncVars => [Queue!Next]_Abstract
  BY AsyncStep, AsyncStutter
<1> QED
  BY <1>1, <1>2, AsyncTyping, PTL DEF AsyncSpec, QueueSpec, Queue!Spec, Abstract

-----------------------------------------------------------------------------
(* What becomes of the messages: every one is accounted for, one worker    *)
(* keeps the order, shutdown drains the queue, and no message is left to   *)
(* sleeping workers. The invariant.                                        *)

Items == Contents(q)
Posters == Senders \cup {main}
AtWork == {"ready", "asleep", "popped", "deliver", "gone"}

\* A worker holds a message exactly while it has popped one; the threads of other
\* pools do nothing; the loggers' threads are never asleep on the pool's condition.
PlaceInv ==
  /\ \A w \in Workers :
       /\ pc[w] \in AtWork /\ (w \notin workers => pc[w] = "ready")
       /\ holds[w] # Moved <=> pc[w] \in {"popped", "deliver"}
  /\ \A t \in Posters : pc[t] \notin {"ready", "asleep", "popped", "deliver"}

\* The pool has a destroyer once nobody holds it, and the destroyer is past its
\* joins only when the workers are gone.
KillInv ==
  /\ refs = {} <=> killer # Nobody
  /\ \A s \in refs \ {registry} : pc[s] \in Posting
  /\ registry \in refs => pc[main] \in {"idle", "drop"}
  /\ told <= Cardinality(workers) /\ (killer = Nobody => told = 0)
  /\ killer # Nobody =>
       /\ pc[killer] \in Posting => told < Cardinality(workers)
       /\ pc[killer] \notin Posting \cup {"join"} => \A w \in workers : pc[w] = "gone"

Ended == {w \in workers : holds[w] = Terminate \/ pc[w] = "gone"}
Pending == IF killer # Nobody /\ pc[killer] \in {"notify", "leave"} THEN 1 ELSE 0

\* The terminate messages are the last ones, and as many as were posted.
TerminateInv ==
  \E u \in 0 .. Size(q) :
    /\ \A k \in 1 .. Size(q) : Items[k] = Terminate <=> k > Size(q) - u
    /\ u + Cardinality(Ended) = told + Pending
    /\ Ended # {} => u = Size(q)

Places5 == refused \cup delivered \cup Queued \cup Held \cup InHand
Lost == Made \ Places5

\* Every message is in one place; the others are as many as were overrun.
AccountInv ==
  /\ IsFiniteSet(Made) /\ Places5 \subseteq Made
  /\ Cardinality(Lost) = q.overrun
  /\ refused \cap (delivered \cup Queued \cup Held \cup InHand) = {}
  /\ delivered \cap (Queued \cup Held \cup InHand) = {}
  /\ Queued \cap (Held \cup InHand) = {}
  /\ Held \cap InHand = {}
  /\ \A v, w \in Workers : v # w /\ holds[v] \in Logged => holds[v] # holds[w]

Before(m, n) == m[1] = n[1] => m[2] < n[2]

\* The messages of one sender are in the order in which it made them.
OrderInv ==
  /\ \A j, k \in 1 .. Size(q) :
       j < k /\ Items[j] # Terminate /\ Items[k] # Terminate => Before(Items[j], Items[k])
  /\ Cardinality(workers) = 1 =>
       /\ \A m \in delivered : \A n \in Queued \cup Held : Before(m, n)
       /\ \A m \in Held : \A n \in Queued : Before(m, n)

Ready == {w \in workers : pc[w] = "ready"}
Notifying == {t \in Posters : pc[t] = "notify"}

\* While a worker sleeps, every message in the queue has a worker that is about to
\* look, or a thread that is about to wake one.
SleepInv ==
  (\E w \in workers : pc[w] = "asleep") =>
    Size(q) <= Cardinality(Ready) + Cardinality(Notifying)

DeliveryInv ==
  AsyncInv /\ PlaceInv /\ KillInv /\ TerminateInv /\ AccountInv /\ OrderInv /\ SleepInv

-----------------------------------------------------------------------------
(* Messages and the places they are in.                                    *)

LEMMA MessageFacts ==
  /\ \A m \in Logged : /\ m = <<m[1], m[2]>> /\ m[1] \in Senders /\ m[2] \in Nat \ {0}
                       /\ m # Terminate /\ m # Moved /\ m \in Messages
  /\ Terminate # Moved /\ Messages = Logged \cup {Terminate} /\ Moved \notin Messages
<1>1. ASSUME NEW m \in Logged
      PROVE  m = <<m[1], m[2]>> /\ m[1] \in Senders /\ m[2] \in Nat \ {0}
  <2>1. PICK s \in Senders : m \in {s} \X (1 .. Bursts[s])
    BY DEF Logged
  <2> QED
    BY <2>1
<1>2. Terminate[2] = 0
  BY DEF Terminate
<1> QED
  BY <1>1, <1>2, Constants DEF Messages

LEMMA MadeFacts ==
  ASSUME AsyncInv
  PROVE  /\ \A s, k : <<s, k>> \in Made <=> s \in Senders /\ k \in 1 .. count[s]
         /\ Made \subseteq Logged
         /\ \A s \in Senders : count[s] \in Nat
<1>1. \A s \in Senders : count[s] \in Nat /\ Bursts[s] \in Nat /\ count[s] <= Bursts[s]
  BY Constants DEF AsyncInv, AsyncTypeOK, PostInv
<1>2. ASSUME NEW m \in Made PROVE m \in Logged
  <2>1. PICK s \in Senders : m \in {s} \X (1 .. count[s])
    BY DEF Made
  <2>2. m \in {s} \X (1 .. Bursts[s])
    BY <1>1, <2>1
  <2> QED
    BY <2>2 DEF Logged
<1> QED
  BY <1>1, <1>2 DEF Made

LEMMA QueuedFacts ==
  ASSUME AsyncInv
  PROVE  /\ \A m : m \in Queued <=> m # Terminate /\ \E k \in 1 .. Size(q) : Items[k] = m
         /\ Size(q) \in Nat /\ \A k \in 1 .. Size(q) : Items[k] \in Messages
<1>1. IsRing(q, Messages)
  BY DEF AsyncInv, AsyncTypeOK
<1> QED
  BY <1>1, ContentsType DEF Queued, Items

LEMMA InHandFacts ==
  \A m : m \in InHand <=>
    \E s \in Senders : m = <<s, count[s]>> /\ s # killer /\ pc[s] \in {"post", "blocked"}
  BY DEF InHand

LEMMA HeldFacts ==
  \A m : m \in Held <=> m \notin {Terminate, Moved} /\ \E w \in Workers : holds[w] = m
  BY DEF Held

-----------------------------------------------------------------------------
(* What the steps do to the queue.                                         *)

\* A message comes behind the others, or it also drives out the oldest.
Pushes(x) ==
  /\ Size(q') = Size(q) + 1 /\ q'.overrun = q.overrun
  /\ \A k \in 1 .. Size(q) : Items'[k] = Items[k]
  /\ Items'[Size(q) + 1] = x

Overruns(x) ==
  /\ Size(q) >= 1 /\ Size(q') = Size(q) /\ q'.overrun = q.overrun + 1
  /\ \A k \in 1 .. Size(q) - 1 : Items'[k] = Items[k + 1]
  /\ Items'[Size(q)] = x

Pops(w) ==
  /\ Size(q) >= 1 /\ Size(q') = Size(q) - 1 /\ q'.overrun = q.overrun
  /\ \A k \in 1 .. Size(q) - 1 : Items'[k] = Items[k + 1]
  /\ holds' = [holds EXCEPT ![w] = Items[1]]

LEMMA EnqueueEffect ==
  ASSUME AsyncInv, NEW t \in Posters, Enqueue(t)
  PROVE  /\ UNCHANGED <<workers, count, refs, killer, told, holds, delivered, refused>>
         /\ pc[t] = "post" /\ Item(t) \in Messages
         /\ \/ pc' = [pc EXCEPT ![t] = "blocked"] /\ UNCHANGED q
            \/ pc' = [pc EXCEPT ![t] = "notify"] /\ Pushes(Item(t))
            \/ pc' = [pc EXCEPT ![t] = "notify"] /\ Overruns(Item(t)) /\ t # killer
<1> DEFINE x == Item(t)
<1>1. /\ IsRing(q, Messages) /\ q.max = room + 1 /\ room \in Nat \ {0} /\ x \in Messages
  BY ItemType, Constants DEF AsyncInv, AsyncTypeOK, Enqueue, Posters
<1>2. CASE Waits(t) /\ FullQ(q)
  BY <1>1, <1>2 DEF Enqueue, Goes, settings
<1>c. Contents(q) \in Seq(Messages) /\ Len(Contents(q)) = Size(q) /\ Size(q) \in Nat
  BY <1>1, ContentsType
<1>3. CASE ~FullQ(q)
  <2>1. pc' = [pc EXCEPT ![t] = "notify"] /\ q' = PushBack(q, x)
    BY <1>3 DEF Enqueue, Goes
  <2>2. /\ IsRing(q', Messages) /\ q'.overrun = q.overrun
        /\ Contents(q') = Append(Contents(q), x)
    BY <1>1, <1>3, <2>1, PushWithRoom
  <2>3. Len(Contents(q')) = Size(q')
    BY <2>2, ContentsType
  <2>4. /\ Size(q') = Size(q) + 1
        /\ \A k \in 1 .. Size(q) : Contents(q')[k] = Contents(q)[k]
        /\ Contents(q')[Size(q) + 1] = x
    BY <1>1, <1>c, <2>2, <2>3
  <2>5. Pushes(x)
    BY <2>2, <2>4 DEF Pushes, Items
  <2> QED
    BY <1>1, <2>1, <2>5 DEF Enqueue, settings
<1>4. CASE ~Waits(t) /\ FullQ(q)
  <2>1. pc' = [pc EXCEPT ![t] = "notify"] /\ q' = PushBack(q, x) /\ t # killer
    BY <1>4 DEF Enqueue, Goes, Waits
  <2>2. /\ IsRing(q', Messages) /\ q'.overrun = q.overrun + 1
        /\ Contents(q') = Append(Tail(Contents(q)), x) /\ Len(Contents(q)) = room
    BY <1>1, <1>4, <2>1, PushOverOldest
  <2>3. Len(Contents(q')) = Size(q')
    BY <2>2, ContentsType
  <2>4. /\ Size(q) >= 1 /\ Size(q') = Size(q)
        /\ \A k \in 1 .. Size(q) - 1 : Contents(q')[k] = Contents(q)[k + 1]
        /\ Contents(q')[Size(q)] = x
    BY <1>1, <1>c, <2>2, <2>3
  <2>5. Overruns(x)
    BY <2>2, <2>4 DEF Overruns, Items
  <2> QED
    BY <1>1, <2>1, <2>5 DEF Enqueue, settings
<1> QED
  BY <1>2, <1>3, <1>4

LEMMA DequeueEffect ==
  ASSUME AsyncInv, NEW w \in Workers, Dequeue(w)
  PROVE  /\ UNCHANGED <<workers, count, refs, killer, told, delivered, refused>>
         /\ w \in workers /\ pc[w] = "ready"
         /\ \/ pc' = [pc EXCEPT ![w] = "asleep"] /\ Size(q) = 0 /\ UNCHANGED <<q, holds>>
            \/ pc' = [pc EXCEPT ![w] = "popped"] /\ Pops(w)
<1>1. IsRing(q, Messages)
  BY DEF AsyncInv, AsyncTypeOK
<1>c. Contents(q) \in Seq(Messages) /\ Len(Contents(q)) = Size(q) /\ Size(q) \in Nat
  BY <1>1, ContentsType
<1>2. CASE EmptyQ(q)
  <2>1. Size(q) = 0
    BY <1>1, <1>2, RingFacts DEF Positions
  <2> QED
    BY <1>2, <2>1 DEF Dequeue, Goes, settings
<1>3. CASE ~EmptyQ(q)
  <2>1. /\ pc' = [pc EXCEPT ![w] = "popped"] /\ q' = PopFront(q)
        /\ holds' = [holds EXCEPT ![w] = Front(q)]
    BY <1>3 DEF Dequeue, Goes
  <2>2. /\ IsRing(q', Messages) /\ q'.overrun = q.overrun
        /\ Contents(q') = Tail(Contents(q)) /\ Contents(q) # << >>
    BY <1>1, <1>3, <2>1, PopOldest
  <2>3. Len(Contents(q')) = Size(q')
    BY <2>2, ContentsType
  <2>4. /\ Size(q) >= 1 /\ Size(q') = Size(q) - 1
        /\ \A k \in 1 .. Size(q) - 1 : Contents(q')[k] = Contents(q)[k + 1]
    BY <1>c, <2>2, <2>3
  <2>5. Front(q) = Contents(q)[1]
    <3>1. Positions(q) /\ 1 \in 1 .. Size(q)
      BY <1>1, <1>c, <2>4, RingFacts
    <3>2. Slot(q, 1) = q.head
      BY <3>1 DEF Slot, Positions
    <3> QED
      BY <1>1, <3>1, <3>2, ContentsType DEF Front
  <2>6. Pops(w)
    BY <2>1, <2>2, <2>4, <2>5 DEF Pops, Items
  <2> QED
    BY <2>1, <2>6 DEF Dequeue, settings
<1> QED
  BY <1>2, <1>3

-----------------------------------------------------------------------------
(* Where the threads are.                                                  *)

LEMMA ThreadFacts ==
  ASSUME AsyncInv
  PROVE  /\ pc \in [Threads -> Places] /\ DOMAIN pc = Threads
         /\ Threads = Posters \cup Workers /\ Posters \cap Workers = {}
         /\ workers \subseteq Workers /\ IsFiniteSet(workers) /\ workers # {}
         /\ holds \in [Workers -> Messages \cup {Moved}]
         /\ main \in Posters /\ Senders \subseteq Posters /\ flusher \in Posters /\ Nobody \notin Posters
         /\ killer \in Posters \cup {Nobody} /\ told \in Nat /\ IsFiniteSet(Senders)
         /\ IsFiniteSet(Posters)
<1>1. workers \in Pools /\ IsFiniteSet(workers) /\ workers # {} /\ workers \subseteq Workers
  BY AsyncLogAssumption DEF AsyncLogAssumption, AsyncInv, AsyncTypeOK, Workers
<1>2. IsFiniteSet(Senders) /\ IsFiniteSet(Posters)
  BY AsyncLogAssumption, FS_AddElement DEF AsyncLogAssumption, Posters
<1> QED
  BY <1>1, <1>2, Constants, PcType DEF AsyncInv, AsyncTypeOK, Threads, Posters

\* notify_one wakes one of those that sleep, if any does.
LEMMA NotifyEffect ==
  ASSUME AsyncInv, NEW t \in Threads, NEW to, NEW sleeping, NEW woken,
         NotifyOne(t, to, sleeping, woken), pc[t] # sleeping
  PROVE  \/ pc' = [pc EXCEPT ![t] = to] /\ \A u \in Threads : pc[u] # sleeping
         \/ \E u \in Threads \ {t} :
              pc[u] = sleeping /\ pc' = [pc EXCEPT ![t] = to, ![u] = woken]
<1> DEFINE asleep == {u \in DOMAIN pc : pc[u] = sleeping}
<1>1. CASE asleep = {}
  <2>1. pc' = [pc EXCEPT ![t] = to]
    BY <1>1 DEF NotifyOne
  <2> QED
    BY <1>1, <2>1, ThreadFacts
<1>2. CASE asleep # {}
  <2>1. PICK u \in asleep : pc' = [pc EXCEPT ![t] = to, ![u] = woken]
    BY <1>2 DEF NotifyOne
  <2> QED
    BY <2>1, ThreadFacts
<1> QED
  BY <1>1, <1>2

LEMMA PushNotified ==
  ASSUME AsyncInv, PlaceInv, NEW t \in Posters, NotifyPush(t)
  PROVE  /\ UNCHANGED <<workers, q, count, refs, killer, told, holds, delivered, refused>>
         /\ pc[t] = "notify"
         /\ \/ pc' = [pc EXCEPT ![t] = "leave"] /\ \A w \in workers : pc[w] # "asleep"
            \/ \E w \in workers :
                 pc[w] = "asleep" /\ pc' = [pc EXCEPT ![t] = "leave", ![w] = "ready"]
<1>1. t \in Threads /\ pc[t] = "notify" /\ NotifyOne(t, "leave", "asleep", "ready")
  BY ThreadFacts DEF NotifyPush
<1>2. \A u \in Threads : pc[u] = "asleep" => u \in workers
  BY ThreadFacts DEF PlaceInv
<1> QED
  BY <1>1, <1>2, NotifyEffect, ThreadFacts DEF NotifyPush, settings

LEMMA PopNotified ==
  ASSUME AsyncInv, PlaceInv, NEW w \in Workers, NotifyPop(w)
  PROVE  /\ UNCHANGED <<workers, q, count, refs, killer, told, holds, delivered, refused>>
         /\ pc[w] = "popped" /\ w \in workers
         /\ \/ pc' = [pc EXCEPT ![w] = "deliver"]
            \/ \E t \in Posters :
                 pc[t] = "blocked" /\ pc' = [pc EXCEPT ![w] = "deliver", ![t] = "post"]
<1>1. w \in Threads /\ pc[w] = "popped" /\ NotifyOne(w, "deliver", "blocked", "post")
  BY ThreadFacts DEF NotifyPop
<1>2. \A u \in Threads : pc[u] = "blocked" => u \in Posters
  BY ThreadFacts DEF PlaceInv, AtWork
<1>3. w \in workers
  BY <1>1 DEF PlaceInv
<1> QED
  BY <1>1, <1>2, <1>3, NotifyEffect DEF NotifyPop, settings

LEMMA PlaceKept ==
  ASSUME AsyncInv, PlaceInv, AsyncNext
  PROVE  PlaceInv'
<1> USE ThreadFacts
<1>1. ASSUME NEW s \in Senders, Post(s) PROVE PlaceInv'
  BY <1>1 DEF Post, Goes, PlaceInv, settings, AtWork
<1>2. ASSUME NEW t \in Posters, Enqueue(t) PROVE PlaceInv'
  BY <1>2, EnqueueEffect DEF PlaceInv, AtWork
<1>3. ASSUME NEW t \in Posters, NotifyPush(t) PROVE PlaceInv'
  BY <1>3, PushNotified DEF PlaceInv, AtWork
<1>4. ASSUME NEW t \in Posters, LeaveTerminate(t) \/ Join(t) PROVE PlaceInv'
  BY <1>4 DEF LeaveTerminate, Join, PlaceInv, settings, AtWork
<1>5. ASSUME NEW s \in Senders, Leave(s) PROVE PlaceInv'
  BY <1>5 DEF Leave, Release, PlaceInv, settings, AtWork
<1>6. ASSUME NEW w \in Workers, Dequeue(w) PROVE PlaceInv'
  <2>1. Size(q) >= 1 => Items[1] \in Messages
    BY QueuedFacts
  <2> QED
    BY <1>6, <2>1, DequeueEffect, MessageFacts DEF PlaceInv, AtWork, Pops
<1>7. ASSUME NEW w \in Workers, DequeueTimesOut(w) PROVE PlaceInv'
  BY <1>7 DEF DequeueTimesOut, Goes, PlaceInv, settings, AtWork
<1>8. ASSUME NEW w \in Workers, NotifyPop(w) PROVE PlaceInv'
  BY <1>8, PopNotified DEF PlaceInv, AtWork
<1>9. ASSUME NEW w \in Workers, Process(w) PROVE PlaceInv'
  BY <1>9 DEF Process, Goes, PlaceInv, settings, AtWork
<1>10. CASE Shutdown
  BY <1>10 DEF Shutdown, StopFlusher, ResetPool, Release, PlaceInv, settings, AtWork
<1> QED
  BY <1>1, <1>2, <1>3, <1>4, <1>5, <1>6, <1>7, <1>8, <1>9, <1>10
  DEF AsyncNext, SenderStep, MainStep, PostStep, WorkerStep, Posters

-----------------------------------------------------------------------------
(* Who holds the pool and who destroys it.                                 *)

\* Once the pool is being destroyed, nobody but its destroyer posts.
LEMMA OnlyKillerPosts ==
  ASSUME AsyncInv, killer # Nobody
  PROVE  /\ \A t \in Posters : pc[t] \in Posting => t = killer
         /\ refs = {} /\ killer \in Posters /\ pc[main] \notin {"idle", "drop"}
  BY ThreadFacts, Constants DEF AsyncInv, PostInv, Posters

LEMMA PoolFacts ==
  ASSUME AsyncInv
  PROVE  Cardinality(workers) \in Nat \ {0}
<1>1. IsFiniteSet(workers) /\ workers # {}
  BY ThreadFacts
<1>2. Cardinality(workers) \in Nat /\ Cardinality(workers) # 0
  BY <1>1, FS_CardinalityType, FS_EmptySet
<1> QED
  BY <1>2

\* A step that neither gives up the pool nor posts a terminate message: the threads
\* that post go on doing so, and no worker that has ended comes back.
LEMMA KillQuiet ==
  ASSUME AsyncInv, KillInv, UNCHANGED <<workers, refs, killer, told>>,
         \A t \in Posters : pc[t] \in Posting <=> pc'[t] \in Posting,
         \A t \in Posters : pc[t] = "join" => pc'[t] = "join",
         pc[main] \in {"idle", "drop"} => pc'[main] \in {"idle", "drop"},
         \A w \in Workers : pc[w] = "gone" => pc'[w] = "gone"
  PROVE  KillInv'
<1>1. refs \subseteq Senders \cup {registry}
  BY DEF AsyncInv, AsyncTypeOK
<1> QED
  BY <1>1, ThreadFacts DEF KillInv, Posters

LEMMA KillRelease ==
  ASSUME AsyncInv, KillInv, NEW t \in Posters, NEW owner \in refs, NEW to \in {"idle", "down"},
         Release(t, owner, to), UNCHANGED <<workers, told>>,
         (t \in Senders /\ owner = t /\ pc[t] = "leave") \/ (t = main /\ owner = registry)
  PROVE  KillInv'
<1>1. killer = Nobody /\ told = 0 /\ refs \subseteq Senders \cup {registry}
  BY DEF KillInv, AsyncInv, AsyncTypeOK
<1>2. Nobody \notin Posters /\ t \in Threads /\ main \notin Senders /\ registry \notin Senders
  BY ThreadFacts, Constants
<1>3. CASE refs \ {owner} = {}
  <2>1. refs' = {} /\ killer' = t /\ pc' = [pc EXCEPT ![t] = "post"]
    BY <1>3 DEF Release
  <2>2. pc'[t] = "post" /\ 0 < Cardinality(workers)
    BY <1>2, <2>1, PoolFacts, ThreadFacts
  <2> QED
    BY <1>1, <1>2, <2>1, <2>2, PoolFacts DEF KillInv, Posting
<1>4. CASE refs \ {owner} # {}
  <2>1. refs' = refs \ {owner} /\ killer' = Nobody /\ pc' = [pc EXCEPT ![t] = to]
    BY <1>1, <1>4 DEF Release
  <2>2. \A u \in Threads \ {t} : pc'[u] = pc[u]
    BY <2>1, ThreadFacts
  <2>3. \A s \in refs' \ {registry} : pc'[s] \in Posting
    BY <1>1, <1>2, <2>1, <2>2, ThreadFacts DEF KillInv
  <2>4. registry \in refs' => pc'[main] \in {"idle", "drop"}
    BY <1>1, <1>2, <2>1, <2>2, ThreadFacts DEF KillInv
  <2> QED
    BY <1>1, <1>4, <2>1, <2>3, <2>4, PoolFacts DEF KillInv
<1> QED
  BY <1>3, <1>4

LEMMA KillKept ==
  ASSUME AsyncInv, PlaceInv, KillInv, AsyncNext
  PROVE  KillInv'
<1> USE ThreadFacts
<1>p. ASSUME NEW s \in Senders, Post(s) PROVE KillInv'
  <2>1. UNCHANGED <<workers, killer, told>> /\ pc[s] = "idle"
    BY <1>p DEF Post, settings
  <2>2. CASE refs # {}
    <3>1. pc' = [pc EXCEPT ![s] = "post"] /\ refs' = refs \cup {s}
      BY <1>p, <2>2 DEF Post, Goes
    <3>2. killer = Nobody /\ refs' # {}
      BY <2>2, <3>1 DEF KillInv
    <3>3. s # main /\ registry # s /\ refs \subseteq Senders \cup {registry}
      BY Constants DEF AsyncInv, AsyncTypeOK
    <3> QED
      BY <2>1, <3>1, <3>2, <3>3 DEF KillInv, Posting
  <2>3. CASE refs = {}
    <3>1. pc' = pc /\ refs' = refs
      BY <1>p, <2>3 DEF Post
    <3> QED
      BY <2>1, <3>1, KillQuiet
  <2> QED
    BY <2>2, <2>3
<1>e. ASSUME NEW t \in Posters, Enqueue(t) PROVE KillInv'
  BY <1>e, EnqueueEffect, KillQuiet DEF Posting
<1>n. ASSUME NEW t \in Posters, NotifyPush(t) PROVE KillInv'
  BY <1>n, PushNotified, KillQuiet DEF Posting
<1>t. ASSUME NEW t \in Posters, LeaveTerminate(t) PROVE KillInv'
  <2>1. /\ UNCHANGED <<workers, refs, killer>> /\ t = killer /\ pc[t] = "leave" /\ told' = told + 1
        /\ pc' = [pc EXCEPT ![t] = IF told' < Cardinality(workers) THEN "post" ELSE "join"]
    BY <1>t DEF LeaveTerminate, settings
  <2>2. killer # Nobody /\ told < Cardinality(workers) /\ Cardinality(workers) \in Nat
    BY <2>1, PoolFacts DEF KillInv, Posting
  <2>3. refs = {} /\ told' <= Cardinality(workers)
    BY <2>1, <2>2, OnlyKillerPosts
  <2> QED
    BY <2>1, <2>2, <2>3 DEF KillInv, Posting
<1>j. ASSUME NEW t \in Posters, Join(t) PROVE KillInv'
  <2>1. /\ UNCHANGED <<workers, refs, killer, told>> /\ pc[t] = "join" /\ \A w \in workers : pc[w] = "gone"
        /\ pc' = [pc EXCEPT ![t] = IF t = main THEN "down" ELSE "idle"]
    BY <1>j DEF Join, settings
  <2>2. registry \in refs => t # main
    BY <2>1 DEF KillInv
  <2>3. \A s \in refs \ {registry} : s # t /\ s \in Threads
    BY <2>1 DEF KillInv, Posting, AsyncInv, AsyncTypeOK
  <2>4. \A w \in workers : pc'[w] = "gone"
    BY <2>1
  <2>5. \A u \in Threads \ {t} : pc'[u] = pc[u]
    BY <2>1
  <2>6. pc'[t] \notin Posting
    BY <2>1 DEF Posting
  <2> QED
    BY <2>1, <2>2, <2>3, <2>4, <2>5, <2>6 DEF KillInv
<1>l. ASSUME NEW s \in Senders, Leave(s) PROVE KillInv'
  <2>1. s \in refs /\ pc[s] = "leave"
    BY <1>l DEF Leave, AsyncInv, PostInv, Posting
  <2> QED
    BY <1>l, <2>1, KillRelease DEF Leave, settings
<1>d. ASSUME NEW w \in Workers, Dequeue(w) PROVE KillInv'
  BY <1>d, DequeueEffect, KillQuiet
<1>o. ASSUME NEW w \in Workers, DequeueTimesOut(w) PROVE KillInv'
  BY <1>o, KillQuiet DEF DequeueTimesOut, Goes, settings
<1>f. ASSUME NEW w \in Workers, NotifyPop(w) PROVE KillInv'
  BY <1>f, PopNotified, KillQuiet DEF Posting
<1>x. ASSUME NEW w \in Workers, Process(w) PROVE KillInv'
  BY <1>x, KillQuiet DEF Process, Goes, settings
<1>s. CASE StopFlusher
  BY <1>s, KillQuiet, Constants DEF StopFlusher, settings, Posting
<1>r. CASE ResetPool
  <2>1. registry \in refs /\ main \in Posters
    BY <1>r DEF ResetPool, AsyncInv, PostInv
  <2> QED
    BY <1>r, <2>1, KillRelease DEF ResetPool, settings
<1> QED
  BY <1>p, <1>e, <1>n, <1>t, <1>j, <1>l, <1>d, <1>o, <1>f, <1>x, <1>s, <1>r
  DEF AsyncNext, SenderStep, MainStep, Shutdown, PostStep, WorkerStep, Posters

-----------------------------------------------------------------------------
(* The terminate messages.                                                 *)

LEMMA EndedFinite ==
  ASSUME AsyncInv
  PROVE  IsFiniteSet(Ended) /\ Cardinality(Ended) \in Nat /\ (Ended = {} <=> Cardinality(Ended) = 0)
<1>1. IsFiniteSet(workers) /\ Ended \in SUBSET workers
  BY ThreadFacts DEF Ended
<1>2. IsFiniteSet(Ended)
  BY <1>1, FS_Subset
<1> QED
  BY <1>2, FS_CardinalityType, FS_EmptySet

LEMMA TerminateQuiet ==
  ASSUME AsyncInv, TerminateInv, UNCHANGED q, Ended' = Ended, told' = told, Pending' = Pending
  PROVE  TerminateInv'
  BY DEF TerminateInv, Items

\* While there is no destroyer, there are no terminate messages.
LEMMA NoneTerminated ==
  ASSUME AsyncInv, KillInv, TerminateInv, killer = Nobody
  PROVE  told = 0 /\ Pending = 0 /\ Ended = {} /\ \A k \in 1 .. Size(q) : Items[k] # Terminate
<1>1. told = 0 /\ Pending = 0
  BY DEF KillInv, Pending
<1>2. PICK u \in 0 .. Size(q) :
        /\ \A k \in 1 .. Size(q) : Items[k] = Terminate <=> k > Size(q) - u
        /\ u + Cardinality(Ended) = told + Pending
  BY DEF TerminateInv
<1>3. u = 0 /\ Cardinality(Ended) = 0
  BY <1>1, <1>2, EndedFinite
<1> QED
  BY <1>1, <1>2, <1>3, EndedFinite, QueuedFacts

\* A sender that posts puts in a message of its own.
LEMMA ItemLogged ==
  ASSUME AsyncInv, NEW t \in Posters, pc[t] = "post", t # killer
  PROVE  /\ t \in Senders /\ Item(t) = <<t, count[t]>> /\ Item(t) \in Logged /\ Item(t) # Terminate
         /\ Item(t) \in InHand /\ Item(t) \in Made
<1>1. t \in Senders /\ count[t] >= 1
  BY DEF AsyncInv, PostInv, Posting, Posters
<1>2. <<t, count[t]>> \in Made
  BY <1>1, MadeFacts
<1> QED
  BY <1>1, <1>2, MadeFacts, MessageFacts, InHandFacts DEF Item

LEMMA TerminateEnqueue ==
  ASSUME AsyncInv, PlaceInv, KillInv, TerminateInv, NEW t \in Posters, Enqueue(t)
  PROVE  TerminateInv'
<1> USE ThreadFacts
<1>0. /\ UNCHANGED <<workers, killer, told, holds>> /\ pc[t] = "post" /\ Size(q) \in Nat
      /\ \A u \in Threads \ {t} : pc'[u] = pc[u]
  BY EnqueueEffect, QueuedFacts
<1>1. Ended' = Ended
  BY <1>0 DEF Ended
<1>2. CASE pc' = [pc EXCEPT ![t] = "blocked"] /\ UNCHANGED q
  <2>1. Pending' = Pending
    BY <1>0, <1>2 DEF Pending
  <2> QED
    BY <1>0, <1>1, <1>2, <2>1, TerminateQuiet
<1>3. CASE pc' = [pc EXCEPT ![t] = "notify"] /\ Pushes(Item(t)) /\ t = killer
  <2>1. Pending = 0 /\ Pending' = 1 /\ Item(t) = Terminate
    BY <1>0, <1>3 DEF Pending, Item
  <2>2. PICK u \in 0 .. Size(q) :
          /\ \A k \in 1 .. Size(q) : Items[k] = Terminate <=> k > Size(q) - u
          /\ u + Cardinality(Ended) = told + Pending
          /\ Ended # {} => u = Size(q)
    BY DEF TerminateInv
  <2>3. \A k \in 1 .. Size(q') : Items'[k] = Terminate <=> k > Size(q') - (u + 1)
    BY <1>0, <1>3, <2>1, <2>2 DEF Pushes
  <2>4. u + 1 \in 0 .. Size(q') /\ (Ended' # {} => u + 1 = Size(q'))
    BY <1>0, <1>1, <1>3, <2>2 DEF Pushes
  <2>5. (u + 1) + Cardinality(Ended') = told' + Pending'
    BY <1>0, <1>1, <2>1, <2>2, EndedFinite
  <2> QED
    BY <2>3, <2>4, <2>5 DEF TerminateInv
<1>4. CASE pc' = [pc EXCEPT ![t] = "notify"] /\ (Pushes(Item(t)) \/ Overruns(Item(t))) /\ t # killer
  <2>1. killer = Nobody /\ Item(t) # Terminate
    BY <1>0, <1>4, OnlyKillerPosts, ItemLogged DEF Posting
  <2>2. told = 0 /\ Ended = {} /\ \A k \in 1 .. Size(q) : Items[k] # Terminate
    BY <2>1, NoneTerminated
  <2>3. Pending' = 0 /\ Cardinality(Ended') = 0 /\ Size(q') \in Nat
    BY <1>0, <1>1, <1>4, <2>1, <2>2, FS_EmptySet DEF Pending, Pushes, Overruns
  <2>4. \A k \in 1 .. Size(q') : Items'[k] # Terminate
    BY <1>0, <1>4, <2>1, <2>2 DEF Pushes, Overruns
  <2>5. \A k \in 1 .. Size(q') : Items'[k] = Terminate <=> k > Size(q') - 0
    BY <2>3, <2>4
  <2> QED
    BY <1>0, <1>1, <2>2, <2>3, <2>5 DEF TerminateInv
<1> QED
  BY <1>2, <1>3, <1>4, EnqueueEffect

LEMMA TerminateDequeue ==
  ASSUME AsyncInv, PlaceInv, KillInv, TerminateInv, NEW w \in Workers, Dequeue(w)
  PROVE  TerminateInv'
<1> USE ThreadFacts
<1>0. /\ UNCHANGED <<workers, killer, told>> /\ w \in workers /\ pc[w] = "ready" /\ w \in Threads
      /\ \A u \in Threads \ {w} : pc'[u] = pc[u]
      /\ Size(q) \in Nat /\ (killer # Nobody => w # killer) /\ holds[w] = Moved
  BY DequeueEffect, QueuedFacts DEF PlaceInv
<1>1. Pending' = Pending
  BY <1>0 DEF Pending
<1>2. CASE pc' = [pc EXCEPT ![w] = "asleep"] /\ UNCHANGED <<q, holds>>
  <2>1. Ended' = Ended
    BY <1>0, <1>2 DEF Ended
  <2> QED
    BY <1>0, <1>1, <1>2, <2>1, TerminateQuiet
<1>3. CASE pc' = [pc EXCEPT ![w] = "popped"] /\ Pops(w)
  <2>2. PICK u \in 0 .. Size(q) :
          /\ \A k \in 1 .. Size(q) : Items[k] = Terminate <=> k > Size(q) - u
          /\ u + Cardinality(Ended) = told + Pending
          /\ Ended # {} => u = Size(q)
    BY DEF TerminateInv
  <2>3. w \notin Ended /\ holds' = [holds EXCEPT ![w] = Items[1]] /\ Size(q') = Size(q) - 1
    BY <1>0, <1>3, MessageFacts DEF Ended, Pops
  <2>4. CASE Items[1] = Terminate
    <3>1. Ended' = Ended \cup {w}
      BY <1>0, <1>3, <2>3, <2>4 DEF Ended
    <3>2. u = Size(q) /\ Size(q) >= 1
      BY <1>0, <1>3, <2>2, <2>4 DEF Pops
    <3>3. Cardinality(Ended') = Cardinality(Ended) + 1
      BY <2>3, <3>1, EndedFinite, FS_AddElement
    <3>4. (u - 1) + Cardinality(Ended') = told' + Pending'
      BY <1>0, <1>1, <2>2, <3>3, EndedFinite
    <3>5. \A k \in 1 .. Size(q') : Items'[k] = Terminate <=> k > Size(q') - (u - 1)
      BY <1>0, <1>3, <2>2, <3>2 DEF Pops
    <3> QED
      BY <1>0, <2>3, <3>2, <3>4, <3>5 DEF TerminateInv
  <2>5. CASE Items[1] # Terminate
    <3>1. Ended' = Ended
      BY <1>0, <1>3, <2>3, <2>5 DEF Ended
    <3>2. u <= Size(q) - 1 /\ Ended = {}
      BY <1>0, <1>3, <2>2, <2>5 DEF Pops
    <3>5. \A k \in 1 .. Size(q') : Items'[k] = Terminate <=> k > Size(q') - u
      BY <1>0, <1>3, <2>2, <3>2 DEF Pops
    <3> QED
      BY <1>0, <1>1, <2>2, <2>3, <3>1, <3>2, <3>5 DEF TerminateInv
  <2> QED
    BY <2>4, <2>5
<1> QED
  BY <1>2, <1>3, DequeueEffect

LEMMA TerminateKept ==
  ASSUME AsyncInv, PlaceInv, KillInv, TerminateInv, AsyncNext
  PROVE  TerminateInv'
<1> USE ThreadFacts
<1>p. ASSUME NEW s \in Senders, Post(s) PROVE TerminateInv'
  <2>1. UNCHANGED <<q, workers, killer, told, holds>> /\ pc[s] = "idle"
    BY <1>p DEF Post, settings
  <2>2. pc' = pc \/ (killer = Nobody /\ pc' = [pc EXCEPT ![s] = "post"])
    BY <1>p DEF Post, Goes, KillInv
  <2>3. Ended' = Ended /\ Pending' = Pending
    BY <2>1, <2>2 DEF Ended, Pending
  <2> QED
    BY <2>1, <2>3, TerminateQuiet
<1>n. ASSUME NEW t \in Posters, NotifyPush(t) PROVE TerminateInv'
  <2>1. /\ UNCHANGED <<q, workers, killer, told, holds>>
        /\ \A w \in workers : pc[w] = "gone" <=> pc'[w] = "gone"
        /\ \A u \in Posters : pc[u] \in {"notify", "leave"} <=> pc'[u] \in {"notify", "leave"}
    BY <1>n, PushNotified
  <2>2. Ended' = Ended /\ Pending' = Pending
    BY <2>1 DEF Ended, Pending
  <2> QED
    BY <2>1, <2>2, TerminateQuiet
<1>t. ASSUME NEW t \in Posters, LeaveTerminate(t) PROVE TerminateInv'
  <2>1. /\ UNCHANGED <<q, holds, workers, killer>> /\ t = killer /\ pc[t] = "leave" /\ told' = told + 1
        /\ pc' = [pc EXCEPT ![t] = IF told' < Cardinality(workers) THEN "post" ELSE "join"]
    BY <1>t DEF LeaveTerminate, settings
  <2>2. Pending = 1 /\ Pending' = 0 /\ Ended' = Ended
    BY <2>1 DEF Pending, Ended
  <2>3. PICK u \in 0 .. Size(q) :
          /\ \A k \in 1 .. Size(q) : Items[k] = Terminate <=> k > Size(q) - u
          /\ u + Cardinality(Ended) = told + Pending
          /\ Ended # {} => u = Size(q)
    BY DEF TerminateInv
  <2>4. u + Cardinality(Ended') = told' + Pending'
    BY <2>1, <2>2, <2>3, EndedFinite
  <2> QED
    BY <2>1, <2>2, <2>3, <2>4 DEF TerminateInv, Items
<1>j. ASSUME NEW t \in Posters, Join(t) PROVE TerminateInv'
  <2>1. /\ UNCHANGED <<q, workers, killer, told, holds>> /\ pc[t] = "join"
        /\ pc' = [pc EXCEPT ![t] = IF t = main THEN "down" ELSE "idle"]
    BY <1>j DEF Join, settings
  <2>2. Ended' = Ended /\ Pending' = Pending
    BY <2>1 DEF Ended, Pending
  <2> QED
    BY <2>1, <2>2, TerminateQuiet
<1>l. ASSUME NEW t \in Posters, NEW owner \in refs, NEW to \in {"idle", "down"},
             Release(t, owner, to), UNCHANGED <<q, workers, told, holds>>
      PROVE  TerminateInv'
  <2>1. killer = Nobody
    BY DEF KillInv
  <2>2. Ended' = Ended
    BY <1>l DEF Release, Ended
  <2>3. Pending = 0 /\ Pending' = 0
    BY <1>l, <2>1 DEF Pending, Release
  <2> QED
    BY <1>l, <2>2, <2>3, TerminateQuiet
<1>o. ASSUME NEW w \in Workers, DequeueTimesOut(w) PROVE TerminateInv'
  <2>1. Ended' = Ended /\ Pending' = Pending
    BY <1>o DEF DequeueTimesOut, Goes, settings, Ended, Pending
  <2> QED
    BY <1>o, <2>1, TerminateQuiet DEF DequeueTimesOut
<1>f. ASSUME NEW w \in Workers, NotifyPop(w) PROVE TerminateInv'
  <2>1. /\ UNCHANGED <<q, workers, killer, told, holds>>
        /\ \A v \in workers : pc[v] = "gone" <=> pc'[v] = "gone"
        /\ \A u \in Posters : pc[u] \in {"notify", "leave"} <=> pc'[u] \in {"notify", "leave"}
    BY <1>f, PopNotified
  <2>2. Ended' = Ended /\ Pending' = Pending
    BY <2>1 DEF Ended, Pending
  <2> QED
    BY <2>1, <2>2, TerminateQuiet
<1>x. ASSUME NEW w \in Workers, Process(w) PROVE TerminateInv'
  <2>1. /\ UNCHANGED <<q, workers, killer, told>> /\ pc[w] = "deliver"
        /\ pc' = [pc EXCEPT ![w] = IF holds[w] = Terminate THEN "gone" ELSE "ready"]
        /\ holds' = [holds EXCEPT ![w] = Moved]
    BY <1>x DEF Process, Goes, settings
  <2>2. Ended' = Ended /\ Pending' = Pending
    BY <2>1, MessageFacts DEF Ended, Pending
  <2> QED
    BY <2>1, <2>2, TerminateQuiet
<1>s. CASE StopFlusher
  <2>1. pc[flusher] = "idle" /\ pc[main] = "idle" /\ flusher \notin Workers /\ main \notin Workers
    BY <1>s, Constants DEF StopFlusher
  <2>2. Ended' = Ended /\ Pending' = Pending
    BY <1>s, <2>1 DEF StopFlusher, settings, Ended, Pending
  <2> QED
    BY <1>s, <2>2, TerminateQuiet DEF StopFlusher
<1>r. ASSUME NEW s \in Senders, Leave(s) PROVE TerminateInv'
  <2>1. s \in refs
    BY <1>r DEF Leave, AsyncInv, PostInv, Posting
  <2> QED
    BY <1>r, <1>l, <2>1 DEF Leave, settings
<1>q. CASE ResetPool
  <2>1. registry \in refs
    BY <1>q DEF ResetPool, AsyncInv, PostInv
  <2> QED
    BY <1>q, <1>l, <2>1 DEF ResetPool, settings
<1> QED
  BY <1>p, <1>n, <1>t, <1>j, <1>o, <1>f, <1>x, <1>s, <1>r, <1>q, TerminateEnqueue, TerminateDequeue
  DEF AsyncNext, SenderStep, MainStep, Shutdown, PostStep, WorkerStep, Posters

-----------------------------------------------------------------------------
(* Where every message is.                                                 *)

LEMMA MadeMore ==
  ASSUME AsyncInv, NEW s \in Senders, count' = [count EXCEPT ![s] = @ + 1]
  PROVE  Made' = Made \cup {<<s, count[s] + 1>>} /\ <<s, count[s] + 1>> \notin Made
<1>1. count \in [Senders -> Nat]
  BY DEF AsyncInv, AsyncTypeOK
<1>2. \A r \in Senders : r # s => count'[r] = count[r]
  BY <1>1
<1>3. count'[s] = count[s] + 1 /\ count[s] \in Nat
  BY <1>1
<1>4. ASSUME NEW m \in Made' PROVE m \in Made \cup {<<s, count[s] + 1>>}
  <2>1. PICK r \in Senders : m \in {r} \X (1 .. count'[r])
    BY <1>4 DEF Made
  <2>2. m = <<r, m[2]>> /\ m[2] \in 1 .. count'[r]
    BY <2>1
  <2>3. CASE r # s
    BY <1>2, <2>1, <2>3 DEF Made
  <2>4. CASE r = s /\ m[2] # count[s] + 1
    <3>1. m[2] \in 1 .. count[s]
      BY <1>3, <2>2, <2>4
    <3> QED
      BY <2>2, <2>4, <3>1, MadeFacts
  <2> QED
    BY <2>2, <2>3, <2>4
<1>5. ASSUME NEW m \in Made \cup {<<s, count[s] + 1>>} PROVE m \in Made'
  <2>1. CASE m \in Made
    <3>1. PICK r \in Senders : m \in {r} \X (1 .. count[r])
      BY <2>1 DEF Made
    <3>2. m \in {r} \X (1 .. count'[r])
      BY <1>1, <1>2, <1>3, <3>1
    <3> QED
      BY <3>2 DEF Made
  <2>2. CASE m = <<s, count[s] + 1>>
    <3>1. m \in {s} \X (1 .. count'[s])
      BY <1>3, <2>2
    <3> QED
      BY <3>1 DEF Made
  <2> QED
    BY <1>5, <2>1, <2>2
<1>6. <<s, count[s] + 1>> \notin Made
  BY <1>3, MadeFacts
<1> QED
  BY <1>4, <1>5, <1>6

LEMMA AccountQuiet ==
  ASSUME AccountInv, UNCHANGED <<q, count, holds, delivered, refused>>, InHand' = InHand
  PROVE  AccountInv'
<1>1. Queued' = Queued /\ Held' = Held /\ Made' = Made
  BY DEF Queued, Held, Made
<1> QED
  BY <1>1 DEF AccountInv, Lost, Places5

\* The threads in the middle of a post stay there.
LEMMA InHandQuiet ==
  ASSUME UNCHANGED count,
         \A s \in Senders : (s # killer /\ pc[s] \in {"post", "blocked"}) <=>
                            (s # killer' /\ pc'[s] \in {"post", "blocked"})
  PROVE  InHand' = InHand
  BY DEF InHand

\* A message moves from one place to another.
LEMMA AccountMoves ==
  ASSUME AccountInv, UNCHANGED count, q'.overrun = q.overrun, Places5' = Places5,
         refused' \cap (delivered' \cup Queued' \cup Held' \cup InHand') = {},
         delivered' \cap (Queued' \cup Held' \cup InHand') = {},
         Queued' \cap (Held' \cup InHand') = {}, Held' \cap InHand' = {},
         \A v, w \in Workers : v # w /\ holds'[v] \in Logged => holds'[v] # holds'[w]
  PROVE  AccountInv'
<1>1. Made' = Made
  BY DEF Made
<1>2. Lost' = Lost
  BY <1>1 DEF Lost
<1> QED
  BY <1>1, <1>2 DEF AccountInv

LEMMA AccountPost ==
  ASSUME AsyncInv, PlaceInv, KillInv, AccountInv, NEW s \in Senders, Post(s)
  PROVE  AccountInv'
<1> DEFINE new == <<s, count[s] + 1>>
<1>1. /\ Made' = Made \cup {new} /\ new \notin Made
      /\ UNCHANGED <<q, holds, delivered>> /\ pc[s] = "idle" /\ killer' = killer
      /\ count' = [count EXCEPT ![s] = @ + 1]
  BY MadeMore DEF Post
<1>2. Queued' = Queued /\ Held' = Held
  BY <1>1 DEF Queued, Held
<1>3. \A r \in Senders : r # s => count'[r] = count[r]
  BY <1>1
<1>4. \/ refused' = refused /\ InHand' = InHand \cup {new}
      \/ refused' = refused \cup {new} /\ InHand' = InHand
  <2>1. CASE refs # {}
    <3>1. pc' = [pc EXCEPT ![s] = "post"] /\ refused' = refused
      BY <2>1 DEF Post, Goes
    <3>2. s # killer
      BY <2>1, Constants DEF KillInv
    <3>3. pc'[s] = "post" /\ \A r \in Senders : r # s => pc'[r] = pc[r]
      BY <3>1, ThreadFacts
    <3>4. count'[s] = count[s] + 1
      BY <1>1 DEF AsyncInv, AsyncTypeOK
    <3>5. ASSUME NEW m PROVE m \in InHand' <=> m \in InHand \cup {new}
      <4>1. m \in InHand' <=>
              \E r \in Senders : m = <<r, count'[r]>> /\ r # killer' /\ pc'[r] \in {"post", "blocked"}
        BY DEF InHand
      <4> QED
        BY <1>1, <1>3, <3>2, <3>3, <3>4, <4>1, InHandFacts
    <3> QED
      BY <3>1, <3>5
  <2>2. CASE refs = {}
    <3>1. pc' = pc /\ refused' = refused \cup {new}
      BY <2>2 DEF Post
    <3>2. InHand' = InHand
      BY <1>1, <1>3, <3>1 DEF InHand
    <3> QED
      BY <3>1, <3>2
  <2> QED
    BY <2>1, <2>2
<1>5. Lost' = Lost /\ Places5' \subseteq Made'
  <2> HIDE DEF new
  <2> QED
    BY <1>1, <1>2, <1>4 DEF AccountInv, Lost, Places5
<1>6. IsFiniteSet(Made')
  BY <1>1, FS_AddElement DEF AccountInv
<1> HIDE DEF new
<1>7. new \notin refused \cup delivered \cup Queued \cup Held \cup InHand
  BY <1>1 DEF AccountInv, Places5
<1> QED
  BY <1>1, <1>2, <1>4, <1>5, <1>6, <1>7 DEF AccountInv

\* What a sender has in hand is its latest message.
LEMMA InHandOf ==
  ASSUME AsyncInv, NEW t \in Posters, pc[t] = "post", pc' = [pc EXCEPT ![t] = "notify"],
         UNCHANGED <<count, killer>>
  PROVE  InHand' = InHand \ {Item(t)}
<1>1. \A s \in Senders : s # t => pc'[s] = pc[s]
  BY ThreadFacts
<1>2. pc'[t] = "notify"
  BY ThreadFacts
<1>3. CASE t = killer
  <2>1. InHand' = InHand
    BY <1>1, <1>3 DEF InHand
  <2>2. Item(t) = Terminate
    BY <1>3 DEF Item
  <2>3. Terminate \notin InHand
    <3>1. \A s \in Senders : pc[s] \in {"post", "blocked"} => count[s] >= 1
      BY DEF AsyncInv, PostInv, Posting
    <3> QED
      BY <3>1, InHandFacts DEF Terminate
  <2> QED
    BY <2>1, <2>2, <2>3
<1>4. CASE t # killer
  <2>1. t \in Senders /\ Item(t) = <<t, count[t]>>
    BY <1>4, ItemLogged
  <2>2. ASSUME NEW m PROVE m \in InHand' <=> m \in InHand \ {Item(t)}
    <3>1. m \in InHand' <=>
            \E s \in Senders : m = <<s, count[s]>> /\ s # killer /\ pc'[s] \in {"post", "blocked"}
      BY DEF InHand
    <3> QED
      BY <1>1, <1>2, <2>1, <3>1, InHandFacts
  <2> QED
    BY <2>2
<1> QED
  BY <1>3, <1>4

LEMMA PushedQueue ==
  ASSUME AsyncInv, NEW x, Pushes(x)
  PROVE  Queued' = Queued \cup ({x} \ {Terminate})
<1>1. ASSUME NEW m, m # Terminate
      PROVE  (\E k \in 1 .. Size(q') : Items'[k] = m) <=> m = x \/ \E k \in 1 .. Size(q) : Items[k] = m
  <2>1. Size(q) + 1 \in 1 .. Size(q') /\ \A k \in 1 .. Size(q) : k \in 1 .. Size(q')
    BY QueuedFacts DEF Pushes
  <2>2. \A k \in 1 .. Size(q') : k \in 1 .. Size(q) \/ k = Size(q) + 1
    BY QueuedFacts DEF Pushes
  <2> QED
    BY <2>1, <2>2 DEF Pushes
<1> QED
  BY <1>1 DEF Queued, Items

\* No message is in the queue twice.
Distinct ==
  \A j, k \in 1 .. Size(q) : Items[j] = Items[k] /\ Items[j] # Terminate => j = k

LEMMA OrderedDistinct ==
  ASSUME AsyncInv, OrderInv
  PROVE  Distinct
<1>1. SUFFICES ASSUME NEW j \in 1 .. Size(q), NEW k \in 1 .. Size(q), j < k,
                      Items[j] = Items[k], Items[j] # Terminate
               PROVE  FALSE
  BY QueuedFacts DEF Distinct
<1>2. Items[j] \in Logged
  BY <1>1, QueuedFacts, MessageFacts
<1>3. Before(Items[j], Items[k])
  BY <1>1 DEF OrderInv
<1> QED
  BY <1>1, <1>2, <1>3, MessageFacts DEF Before

LEMMA PoppedQueue ==
  ASSUME AsyncInv, Distinct, Size(q) >= 1, Size(q') = Size(q) - 1,
         \A k \in 1 .. Size(q) - 1 : Items'[k] = Items[k + 1]
  PROVE  Queued' = Queued \ {Items[1]} /\ (Items[1] # Terminate => Items[1] \in Queued)
<1>0. Size(q) \in Nat /\ 1 \in 1 .. Size(q)
  BY QueuedFacts
<1>1. ASSUME NEW m, m # Terminate
      PROVE  (\E k \in 1 .. Size(q') : Items'[k] = m)
             <=> m # Items[1] /\ \E k \in 1 .. Size(q) : Items[k] = m
  <2>1. ASSUME NEW k \in 1 .. Size(q'), Items'[k] = m
        PROVE  m # Items[1] /\ \E i \in 1 .. Size(q) : Items[i] = m
    <3>1. k + 1 \in 1 .. Size(q) /\ Items[k + 1] = m /\ k + 1 # 1
      BY <1>0, <2>1
    <3> QED
      BY <1>0, <1>1, <3>1 DEF Distinct
  <2>2. ASSUME m # Items[1], NEW k \in 1 .. Size(q), Items[k] = m
        PROVE  \E i \in 1 .. Size(q') : Items'[i] = m
    <3>1. k # 1
      BY <2>2
    <3>2. k - 1 \in 1 .. Size(q') /\ k - 1 \in 1 .. Size(q) - 1 /\ (k - 1) + 1 = k
      BY <1>0, <2>2, <3>1
    <3>3. Items'[k - 1] = m
      BY <2>2, <3>2
    <3> QED
      BY <3>2, <3>3
  <2> QED
    BY <2>1, <2>2
<1>2. ASSUME NEW m PROVE m \in Queued' <=> m \in Queued \ {Items[1]}
  BY <1>1 DEF Queued, Items
<1> QED
  BY <1>0, <1>2, QueuedFacts

LEMMA OverrunQueue ==
  ASSUME AsyncInv, Distinct, NEW x, Overruns(x), x # Terminate, x \notin Queued,
         Items[1] # Terminate
  PROVE  Queued' = (Queued \ {Items[1]}) \cup {x} /\ Items[1] \in Queued
<1>0. Size(q) \in Nat /\ 1 \in 1 .. Size(q) /\ Size(q') = Size(q) /\ Size(q) \in 1 .. Size(q)
  BY QueuedFacts DEF Overruns
<1>1. ASSUME NEW m, m # Terminate
      PROVE  (\E k \in 1 .. Size(q') : Items'[k] = m)
             <=> m = x \/ (m # Items[1] /\ \E k \in 1 .. Size(q) : Items[k] = m)
  <2>1. ASSUME NEW k \in 1 .. Size(q'), Items'[k] = m, m # x
        PROVE  m # Items[1] /\ \E i \in 1 .. Size(q) : Items[i] = m
    <3>1. k # Size(q)
      BY <1>0, <2>1 DEF Overruns
    <3>2. k \in 1 .. Size(q) - 1
      BY <1>0, <2>1, <3>1
    <3>3. k + 1 \in 1 .. Size(q) /\ Items[k + 1] = m /\ k + 1 # 1
      BY <1>0, <2>1, <3>2 DEF Overruns
    <3> QED
      BY <1>0, <1>1, <3>3 DEF Distinct
  <2>2. ASSUME m # Items[1], NEW k \in 1 .. Size(q), Items[k] = m
        PROVE  \E i \in 1 .. Size(q') : Items'[i] = m
    <3>1. k # 1
      BY <2>2
    <3>2. k - 1 \in 1 .. Size(q') /\ k - 1 \in 1 .. Size(q) - 1 /\ (k - 1) + 1 = k
      BY <1>0, <2>2, <3>1
    <3>3. Items'[k - 1] = m
      BY <2>2, <3>2 DEF Overruns
    <3> QED
      BY <3>2, <3>3
  <2>3. Items'[Size(q)] = x
    BY DEF Overruns
  <2> QED
    BY <1>0, <2>1, <2>2, <2>3
<1>2. ASSUME NEW m PROVE m \in Queued' <=> m \in (Queued \ {Items[1]}) \cup {x}
  <2>1. m \in Queued' <=> m # Terminate /\ \E k \in 1 .. Size(q') : Items'[k] = m
    BY DEF Queued, Items
  <2>2. m \in Queued <=> m # Terminate /\ \E k \in 1 .. Size(q) : Items[k] = m
    BY QueuedFacts
  <2> QED
    BY <1>1, <2>1, <2>2
<1> QED
  BY <1>0, <1>2, QueuedFacts

LEMMA PlacesLogged ==
  ASSUME AsyncInv, AccountInv
  PROVE  /\ Places5 \subseteq Logged /\ Terminate \notin Places5 /\ Moved \notin Places5
         /\ IsFiniteSet(Lost)
<1>1. Places5 \subseteq Logged
  BY MadeFacts DEF AccountInv
<1>2. IsFiniteSet(Lost)
  BY FS_Subset DEF AccountInv, Lost
<1> QED
  BY <1>1, <1>2, MessageFacts

LEMMA AccountEnqueue ==
  ASSUME AsyncInv, PlaceInv, KillInv, TerminateInv, AccountInv, OrderInv, NEW t \in Posters, Enqueue(t)
  PROVE  AccountInv'
<1> DEFINE x == Item(t)
<1>0. /\ UNCHANGED <<count, killer, holds, delivered, refused>> /\ pc[t] = "post" /\ x \in Messages
  BY EnqueueEffect
<1>h. Held' = Held /\ Made' = Made
  BY <1>0 DEF Held, Made
<1>1. CASE pc' = [pc EXCEPT ![t] = "blocked"] /\ UNCHANGED q
  <2>1. InHand' = InHand
    BY <1>0, <1>1, InHandQuiet, ThreadFacts
  <2> QED
    BY <1>0, <1>1, <2>1, AccountQuiet
<1>2. CASE pc' = [pc EXCEPT ![t] = "notify"] /\ Pushes(x)
  <2>1. InHand' = InHand \ {x} /\ Queued' = Queued \cup ({x} \ {Terminate}) /\ q'.overrun = q.overrun
    BY <1>0, <1>2, InHandOf, PushedQueue DEF Pushes
  <2>2. x = Terminate \/ (x \in InHand /\ x # Terminate)
    BY <1>0, ItemLogged DEF Item
  <2> HIDE DEF x
  <2>3. Places5' = Places5
    BY <1>0, <1>h, <2>1, <2>2, PlacesLogged DEF Places5
  <2>4. /\ refused' \cap (delivered' \cup Queued' \cup Held' \cup InHand') = {}
        /\ delivered' \cap (Queued' \cup Held' \cup InHand') = {}
        /\ Queued' \cap (Held' \cup InHand') = {} /\ Held' \cap InHand' = {}
    BY <1>0, <1>h, <2>1, <2>2 DEF AccountInv
  <2>5. \A v, w \in Workers : v # w /\ holds'[v] \in Logged => holds'[v] # holds'[w]
    BY <1>0 DEF AccountInv
  <2> QED
    BY <1>0, <2>1, <2>3, <2>4, <2>5, AccountMoves
<1>3. CASE pc' = [pc EXCEPT ![t] = "notify"] /\ Overruns(x) /\ t # killer
  <2> DEFINE old == Items[1]
  <2>1. x \in InHand /\ x # Terminate /\ killer = Nobody /\ Distinct
    BY <1>0, <1>3, ItemLogged, OnlyKillerPosts, OrderedDistinct DEF Posting
  <2>2. x \notin Queued /\ old # Terminate
    <3>1. 1 \in 1 .. Size(q)
      BY <1>3, QueuedFacts DEF Overruns
    <3> QED
      BY <2>1, <3>1, NoneTerminated DEF AccountInv
  <2>3. /\ InHand' = InHand \ {x} /\ Queued' = (Queued \ {old}) \cup {x} /\ old \in Queued
        /\ q'.overrun = q.overrun + 1
    BY <1>0, <1>3, <2>1, <2>2, InHandOf, OverrunQueue DEF Overruns
  <2> HIDE DEF x, old
  <2>4. Lost' = Lost \cup {old} /\ old \notin Lost /\ Places5' \subseteq Made'
    BY <1>0, <1>h, <2>1, <2>2, <2>3 DEF AccountInv, Lost, Places5
  <2>5. Cardinality(Lost') = q'.overrun
    BY <2>3, <2>4, PlacesLogged, FS_AddElement DEF AccountInv
  <2>6. /\ refused' \cap (delivered' \cup Queued' \cup Held' \cup InHand') = {}
        /\ delivered' \cap (Queued' \cup Held' \cup InHand') = {}
        /\ Queued' \cap (Held' \cup InHand') = {} /\ Held' \cap InHand' = {}
    BY <1>0, <1>h, <2>1, <2>2, <2>3 DEF AccountInv
  <2> QED
    BY <1>0, <1>h, <2>4, <2>5, <2>6 DEF AccountInv
<1> QED
  BY <1>1, <1>2, <1>3, EnqueueEffect

LEMMA PoppedHeld ==
  ASSUME AsyncInv, NEW w \in Workers, holds[w] = Moved, Pops(w)
  PROVE  Held' = Held \cup ({Items[1]} \ {Terminate})
<1> DEFINE x == Items[1]
<1>1. x \in Messages /\ x # Moved
  BY QueuedFacts, MessageFacts DEF Pops
<1>2. holds' = [holds EXCEPT ![w] = x] /\ holds \in [Workers -> Messages \cup {Moved}]
  BY ThreadFacts DEF Pops
<1>3. ASSUME NEW m PROVE m \in Held' <=> m \in Held \cup ({x} \ {Terminate})
  <2>1. m \in Held' <=> m \notin {Terminate, Moved} /\ \E v \in Workers : holds'[v] = m
    BY DEF Held
  <2> HIDE DEF x
  <2> QED
    BY <1>1, <1>2, <2>1, HeldFacts
<1> QED
  BY <1>3

LEMMA AccountDequeue ==
  ASSUME AsyncInv, PlaceInv, AccountInv, OrderInv, NEW w \in Workers, Dequeue(w)
  PROVE  AccountInv'
<1>0. UNCHANGED <<count, killer, delivered, refused>> /\ pc[w] = "ready" /\ holds[w] = Moved
  BY DequeueEffect DEF PlaceInv
<1>i. InHand' = InHand
  BY <1>0, InHandQuiet, ThreadFacts, DequeueEffect
<1>1. CASE UNCHANGED <<q, holds>>
  BY <1>0, <1>i, <1>1, AccountQuiet
<1>2. CASE Pops(w)
  <2> DEFINE x == Items[1]
  <2>1. Queued' = Queued \ {x} /\ (x # Terminate => x \in Queued) /\ q'.overrun = q.overrun
    BY <1>2, PoppedQueue, OrderedDistinct DEF Pops
  <2>2. x \in Messages /\ x # Moved
    BY <1>2, QueuedFacts, MessageFacts DEF Pops
  <2>3. holds' = [holds EXCEPT ![w] = x] /\ holds \in [Workers -> Messages \cup {Moved}]
    BY <1>2, ThreadFacts DEF Pops
  <2> HIDE DEF x
  <2>4. Held' = Held \cup ({x} \ {Terminate})
    BY <1>0, <1>2, PoppedHeld DEF x
  <2>5. \A v, u \in Workers : v # u /\ holds'[v] \in Logged => holds'[v] # holds'[u]
    <3>1. \A u \in Workers : x \in Logged => holds[u] # x
      BY <2>1, MessageFacts, HeldFacts DEF AccountInv
    <3> QED
      BY <2>3, <3>1 DEF AccountInv
  <2>6. Places5' = Places5
    BY <1>0, <1>i, <2>1, <2>4, PlacesLogged DEF Places5
  <2>7. /\ refused' \cap (delivered' \cup Queued' \cup Held' \cup InHand') = {}
        /\ delivered' \cap (Queued' \cup Held' \cup InHand') = {}
        /\ Queued' \cap (Held' \cup InHand') = {} /\ Held' \cap InHand' = {}
    BY <1>0, <1>i, <2>1, <2>4 DEF AccountInv
  <2> QED
    BY <1>0, <2>1, <2>5, <2>6, <2>7, AccountMoves
<1> QED
  BY <1>1, <1>2, DequeueEffect

LEMMA ProcessEffect ==
  ASSUME AsyncInv, PlaceInv, NEW w \in Workers, Process(w)
  PROVE  /\ UNCHANGED <<workers, q, count, refs, killer, told, refused>> /\ pc[w] = "deliver"
         /\ pc' = [pc EXCEPT ![w] = IF holds[w] = Terminate THEN "gone" ELSE "ready"]
         /\ holds[w] \in Messages /\ holds' = [holds EXCEPT ![w] = Moved]
         /\ delivered' = delivered \cup ({holds[w]} \ {Terminate})
  BY DEF Process, Goes, settings, AsyncInv, PostInv

LEMMA ProcessHeld ==
  ASSUME AsyncInv, PlaceInv, AccountInv, NEW w \in Workers, Process(w)
  PROVE  Held' = Held \ {holds[w]} /\ (holds[w] # Terminate => holds[w] \in Held)
<1> DEFINE x == holds[w]
<1>1. x \in Messages /\ x # Moved
  BY ProcessEffect, MessageFacts
<1>2. \A v \in Workers : holds'[v] = IF v = w THEN Moved ELSE holds[v]
  BY ProcessEffect, ThreadFacts
<1>3. \A v \in Workers : v # w /\ x # Terminate => holds[v] # x
  BY <1>1, MessageFacts DEF AccountInv
<1>4. ASSUME NEW m PROVE m \in Held' <=> m \in Held \ {x}
  <2>1. m \in Held' <=> m \notin {Terminate, Moved} /\ \E v \in Workers : holds'[v] = m
    BY DEF Held
  <2> HIDE DEF x
  <2> QED
    BY <1>2, <1>3, <2>1, HeldFacts DEF x
<1> QED
  BY <1>1, <1>4, HeldFacts

LEMMA AccountProcess ==
  ASSUME AsyncInv, PlaceInv, AccountInv, NEW w \in Workers, Process(w)
  PROVE  AccountInv'
<1> DEFINE x == holds[w]
<1>0. /\ UNCHANGED <<q, count, killer, refused>> /\ x \in Messages
      /\ delivered' = delivered \cup ({x} \ {Terminate}) /\ holds' = [holds EXCEPT ![w] = Moved]
  BY ProcessEffect
<1>1. Held' = Held \ {x} /\ (x # Terminate => x \in Held)
  BY ProcessHeld
<1>2. InHand' = InHand
  BY <1>0, InHandQuiet, ThreadFacts, ProcessEffect
<1>3. Queued' = Queued
  BY <1>0 DEF Queued
<1>5. \A v, u \in Workers : v # u /\ holds'[v] \in Logged => holds'[v] # holds'[u]
  BY <1>0, ThreadFacts, MessageFacts DEF AccountInv
<1> HIDE DEF x
<1>6. Places5' = Places5
  BY <1>0, <1>1, <1>2, <1>3, PlacesLogged DEF Places5
<1>7. /\ refused' \cap (delivered' \cup Queued' \cup Held' \cup InHand') = {}
      /\ delivered' \cap (Queued' \cup Held' \cup InHand') = {}
      /\ Queued' \cap (Held' \cup InHand') = {} /\ Held' \cap InHand' = {}
  BY <1>0, <1>1, <1>2, <1>3 DEF AccountInv
<1> QED
  BY <1>0, <1>5, <1>6, <1>7, AccountMoves

LEMMA AccountKept ==
  ASSUME AsyncInv, PlaceInv, KillInv, TerminateInv, AccountInv, OrderInv, AsyncNext
  PROVE  AccountInv'
<1> USE ThreadFacts
<1>n. ASSUME NEW t \in Posters, NotifyPush(t) PROVE AccountInv'
  <2>1. InHand' = InHand
    BY <1>n, PushNotified, InHandQuiet
  <2> QED
    BY <1>n, <2>1, PushNotified, AccountQuiet
<1>t. ASSUME NEW t \in Posters, LeaveTerminate(t) PROVE AccountInv'
  <2>1. InHand' = InHand
    BY <1>t, InHandQuiet DEF LeaveTerminate
  <2> QED
    BY <1>t, <2>1, AccountQuiet DEF LeaveTerminate
<1>j. ASSUME NEW t \in Posters, Join(t) PROVE AccountInv'
  <2>1. InHand' = InHand
    BY <1>j, InHandQuiet DEF Join
  <2> QED
    BY <1>j, <2>1, AccountQuiet DEF Join
<1>l. ASSUME NEW s \in Senders, Leave(s) PROVE AccountInv'
  <2>1. killer = Nobody
    BY <1>l, OnlyKillerPosts DEF Leave, Posting
  <2>2. InHand' = InHand
    BY <1>l, <2>1, InHandQuiet DEF Leave, Release
  <2> QED
    BY <1>l, <2>2, AccountQuiet DEF Leave
<1>o. ASSUME NEW w \in Workers, DequeueTimesOut(w) PROVE AccountInv'
  <2>1. InHand' = InHand
    BY <1>o, InHandQuiet DEF DequeueTimesOut, Goes
  <2> QED
    BY <1>o, <2>1, AccountQuiet DEF DequeueTimesOut
<1>f. ASSUME NEW w \in Workers, NotifyPop(w) PROVE AccountInv'
  <2>1. InHand' = InHand
    BY <1>f, PopNotified, InHandQuiet
  <2> QED
    BY <1>f, <2>1, PopNotified, AccountQuiet
<1>s. CASE StopFlusher
  <2>1. InHand' = InHand
    BY <1>s, InHandQuiet DEF StopFlusher
  <2> QED
    BY <1>s, <2>1, AccountQuiet DEF StopFlusher
<1>r. CASE ResetPool
  <2>1. killer = Nobody /\ main \notin Senders
    BY <1>r, OnlyKillerPosts, Constants DEF ResetPool
  <2>2. InHand' = InHand
    BY <1>r, <2>1, InHandQuiet DEF ResetPool, Release
  <2> QED
    BY <1>r, <2>2, AccountQuiet DEF ResetPool
<1> QED
  BY <1>n, <1>t, <1>j, <1>l, <1>o, <1>f, <1>s, <1>r,
     AccountPost, AccountEnqueue, AccountDequeue, AccountProcess
  DEF AsyncNext, SenderStep, MainStep, Shutdown, PostStep, WorkerStep, Posters

-----------------------------------------------------------------------------
(* The order of the messages.                                              *)

\* What a sender has in hand is later than all that it has made before.
LEMMA InHandIsLast ==
  ASSUME AsyncInv, AccountInv, NEW t \in Posters, pc[t] = "post", t # killer,
         NEW m \in delivered \cup Queued \cup Held
  PROVE  Before(m, Item(t))
<1>1. Item(t) = <<t, count[t]>> /\ Item(t) \in InHand /\ t \in Senders
  BY ItemLogged
<1>2. m \in Made /\ m # Item(t)
  BY <1>1 DEF AccountInv, Places5
<1>3. m = <<m[1], m[2]>>
  BY <1>2, MadeFacts, MessageFacts
<1>4. SUFFICES ASSUME m[1] = t PROVE m[2] < count[t]
  BY <1>1 DEF Before
<1>5. m[2] \in 1 .. count[t] /\ count[t] \in Nat
  BY <1>1, <1>2, <1>3, <1>4, MadeFacts
<1>6. m[2] # count[t]
  BY <1>1, <1>2, <1>3, <1>4
<1> QED
  BY <1>5, <1>6

\* A pool of one worker holds one message at most.
LEMMA OneWorker ==
  ASSUME AsyncInv, PlaceInv, Cardinality(workers) = 1, NEW w \in workers
  PROVE  \A v \in Workers : v # w => holds[v] = Moved
<1>1. \E x : workers = {x}
  BY ThreadFacts, FS_Singleton
<1> QED
  BY <1>1 DEF PlaceInv

LEMMA OrderQuiet ==
  ASSUME OrderInv, UNCHANGED <<workers, q, holds, delivered>>
  PROVE  OrderInv'
<1>1. Queued' = Queued /\ Held' = Held
  BY DEF Queued, Held
<1> QED
  BY <1>1 DEF OrderInv, Items

LEMMA OrderEnqueue ==
  ASSUME AsyncInv, PlaceInv, KillInv, TerminateInv, AccountInv, OrderInv, NEW t \in Posters, Enqueue(t)
  PROVE  OrderInv'
<1> DEFINE x == Item(t)
<1>0. /\ UNCHANGED <<workers, killer, holds, delivered>> /\ pc[t] = "post"
      /\ Size(q) \in Nat /\ Held' = Held
  BY EnqueueEffect, QueuedFacts DEF Held
<1>b. x = Terminate \/ \A m \in delivered \cup Queued \cup Held : Before(m, x)
  BY <1>0, InHandIsLast DEF Item
<1>1. CASE UNCHANGED q
  BY <1>0, <1>1, OrderQuiet
<1>2. CASE Pushes(x)
  <2>1. Queued' = Queued \cup ({x} \ {Terminate})
    BY <1>2, PushedQueue
  <2>2. ASSUME NEW j \in 1 .. Size(q'), NEW k \in 1 .. Size(q'), j < k,
               Items'[j] # Terminate, Items'[k] # Terminate
        PROVE  Before(Items'[j], Items'[k])
    <3>1. j \in 1 .. Size(q) /\ Items'[j] = Items[j]
      BY <1>0, <1>2, <2>2 DEF Pushes
    <3>2. CASE k \in 1 .. Size(q)
      BY <1>2, <2>2, <3>1, <3>2 DEF Pushes, OrderInv
    <3>3. CASE k = Size(q) + 1
      <4>1. Items[j] \in Queued /\ Items'[k] = x
        BY <1>2, <2>2, <3>1, <3>3, QueuedFacts DEF Pushes
      <4> QED
        BY <1>b, <2>2, <3>1, <4>1
    <3> QED
      BY <1>0, <1>2, <3>2, <3>3 DEF Pushes
  <2> HIDE DEF x
  <2> QED
    BY <1>0, <1>b, <2>1, <2>2 DEF OrderInv
<1>3. CASE Overruns(x) /\ t # killer
  <2>1. x \in InHand /\ x # Terminate /\ killer = Nobody /\ Distinct
    BY <1>0, <1>3, ItemLogged, OnlyKillerPosts, OrderedDistinct DEF Posting
  <2>2. x \notin Queued /\ Items[1] # Terminate
    <3>1. 1 \in 1 .. Size(q)
      BY <1>3, QueuedFacts DEF Overruns
    <3> QED
      BY <2>1, <3>1, NoneTerminated DEF AccountInv
  <2>3. Queued' \subseteq Queued \cup {x}
    BY <1>3, <2>1, <2>2, OverrunQueue
  <2>4. ASSUME NEW j \in 1 .. Size(q'), NEW k \in 1 .. Size(q'), j < k,
               Items'[j] # Terminate, Items'[k] # Terminate
        PROVE  Before(Items'[j], Items'[k])
    <3>1. j \in 1 .. Size(q) - 1 /\ j + 1 \in 1 .. Size(q) /\ Items'[j] = Items[j + 1]
      BY <1>0, <1>3, <2>4 DEF Overruns
    <3>2. CASE k # Size(q)
      <4>1. k \in 1 .. Size(q) - 1 /\ k + 1 \in 1 .. Size(q) /\ Items'[k] = Items[k + 1]
        BY <1>0, <1>3, <2>4, <3>2 DEF Overruns
      <4>2. j + 1 < k + 1
        BY <2>4
      <4> QED
        BY <2>4, <3>1, <4>1, <4>2 DEF OrderInv
    <3>3. CASE k = Size(q)
      <4>1. Items[j + 1] \in Queued /\ Items'[k] = x
        BY <1>3, <2>4, <3>1, <3>3, QueuedFacts DEF Overruns
      <4> QED
        BY <1>b, <2>1, <3>1, <4>1
    <3> QED
      BY <3>2, <3>3
  <2> HIDE DEF x
  <2> QED
    BY <1>0, <1>b, <2>1, <2>3, <2>4 DEF OrderInv
<1> QED
  BY <1>1, <1>2, <1>3, EnqueueEffect

LEMMA OrderDequeue ==
  ASSUME AsyncInv, PlaceInv, AccountInv, OrderInv, NEW w \in Workers, Dequeue(w)
  PROVE  OrderInv'
<1>0. UNCHANGED <<workers, delivered>> /\ pc[w] = "ready" /\ holds[w] = Moved /\ w \in workers
  BY DequeueEffect DEF PlaceInv
<1>1. CASE UNCHANGED <<q, holds>>
  BY <1>0, <1>1, OrderQuiet
<1>2. CASE Pops(w)
  <2> DEFINE x == Items[1]
  <2>1. Queued' = Queued \ {x} /\ (x # Terminate => x \in Queued) /\ Size(q') = Size(q) - 1
    BY <1>2, PoppedQueue, OrderedDistinct DEF Pops
  <2>2. Held' = Held \cup ({x} \ {Terminate})
    BY <1>0, <1>2, PoppedHeld
  <2>3. Size(q) \in Nat /\ 1 \in 1 .. Size(q)
    BY <1>2, QueuedFacts DEF Pops
  <2>4. ASSUME NEW j \in 1 .. Size(q'), NEW k \in 1 .. Size(q'), j < k,
               Items'[j] # Terminate, Items'[k] # Terminate
        PROVE  Before(Items'[j], Items'[k])
    <3>1. /\ j + 1 \in 1 .. Size(q) /\ Items'[j] = Items[j + 1]
          /\ k + 1 \in 1 .. Size(q) /\ Items'[k] = Items[k + 1] /\ j + 1 < k + 1
      BY <1>2, <2>1, <2>3, <2>4 DEF Pops
    <3> QED
      BY <2>4, <3>1 DEF OrderInv
  <2>5. ASSUME x # Terminate, NEW n \in Queued' PROVE Before(x, n)
    <3>1. PICK k \in 1 .. Size(q) : Items[k] = n /\ n # Terminate /\ n # x
      BY <2>1, <2>5, QueuedFacts
    <3>2. 1 < k
      BY <3>1
    <3> QED
      BY <2>3, <2>5, <3>1, <3>2 DEF OrderInv
  <2>6. ASSUME Cardinality(workers) = 1 PROVE Held = {}
    <3>1. \A v \in Workers : holds[v] = Moved
      BY <1>0, <2>6, OneWorker
    <3> QED
      BY <3>1, HeldFacts
  <2> HIDE DEF x
  <2>7. ASSUME Cardinality(workers) = 1
        PROVE  /\ \A m \in delivered' : \A n \in Queued' \cup Held' : Before(m, n)
               /\ \A m \in Held' : \A n \in Queued' : Before(m, n)
    BY <1>0, <2>1, <2>2, <2>5, <2>6, <2>7 DEF OrderInv
  <2> QED
    BY <1>0, <2>4, <2>7 DEF OrderInv
<1> QED
  BY <1>1, <1>2, DequeueEffect

LEMMA OrderProcess ==
  ASSUME AsyncInv, PlaceInv, AccountInv, OrderInv, NEW w \in Workers, Process(w)
  PROVE  OrderInv'
<1> DEFINE x == holds[w]
<1>0. /\ UNCHANGED <<workers, q>> /\ delivered' = delivered \cup ({x} \ {Terminate}) /\ w \in workers
      /\ holds' = [holds EXCEPT ![w] = Moved]
  BY ProcessEffect DEF PlaceInv
<1>1. Queued' = Queued /\ Items' = Items /\ Held' = Held \ {x} /\ (x # Terminate => x \in Held)
  BY <1>0, ProcessHeld DEF Queued, Items
<1>2. ASSUME Cardinality(workers) = 1 PROVE Held' = {}
  <2>1. \A v \in Workers : holds'[v] = Moved
    BY <1>0, <1>2, OneWorker, ThreadFacts
  <2> QED
    BY <2>1 DEF Held
<1> HIDE DEF x
<1>3. ASSUME Cardinality(workers) = 1
      PROVE  /\ \A m \in delivered' : \A n \in Queued' \cup Held' : Before(m, n)
             /\ \A m \in Held' : \A n \in Queued' : Before(m, n)
  BY <1>0, <1>1, <1>2, <1>3 DEF OrderInv
<1> QED
  BY <1>0, <1>1, <1>3 DEF OrderInv

LEMMA OrderKept ==
  ASSUME AsyncInv, PlaceInv, KillInv, TerminateInv, AccountInv, OrderInv, AsyncNext
  PROVE  OrderInv'
<1>1. ASSUME NEW t \in Posters, NotifyPush(t) \/ LeaveTerminate(t) \/ Join(t) PROVE OrderInv'
  BY <1>1, OrderQuiet DEF NotifyPush, LeaveTerminate, Join, settings
<1>2. ASSUME NEW s \in Senders, Post(s) \/ Leave(s) PROVE OrderInv'
  BY <1>2, OrderQuiet DEF Post, Leave, settings
<1>3. ASSUME NEW w \in Workers, DequeueTimesOut(w) \/ NotifyPop(w) PROVE OrderInv'
  BY <1>3, OrderQuiet DEF DequeueTimesOut, NotifyPop, settings
<1>4. CASE Shutdown
  BY <1>4, OrderQuiet DEF Shutdown, StopFlusher, ResetPool, settings
<1> QED
  BY <1>1, <1>2, <1>3, <1>4, OrderEnqueue, OrderDequeue, OrderProcess
  DEF AsyncNext, SenderStep, MainStep, PostStep, WorkerStep, Posters

-----------------------------------------------------------------------------
(* The workers that sleep.                                                 *)

LEMMA WakersFinite ==
  ASSUME AsyncInv
  PROVE  /\ IsFiniteSet(Ready) /\ IsFiniteSet(Notifying)
         /\ Cardinality(Ready) \in Nat /\ Cardinality(Notifying) \in Nat
<1>1. Ready \in SUBSET workers /\ Notifying \in SUBSET Posters
  BY DEF Ready, Notifying
<1>2. IsFiniteSet(Ready) /\ IsFiniteSet(Notifying)
  BY <1>1, ThreadFacts, FS_Subset
<1> QED
  BY <1>2, FS_CardinalityType

\* A step by which nobody falls asleep and no waker is lost.
LEMMA SleepQuiet ==
  ASSUME AsyncInv, AsyncInv', SleepInv, workers' = workers, Size(q') = Size(q),
         \A w \in workers : pc'[w] = "asleep" => pc[w] = "asleep",
         Ready \subseteq Ready', Notifying \subseteq Notifying'
  PROVE  SleepInv'
<1>1. IsFiniteSet(Ready') /\ IsFiniteSet(Notifying')
  <2>1. Ready' \in SUBSET workers /\ Notifying' \in SUBSET Posters
    BY DEF Ready, Notifying
  <2> QED
    BY <2>1, ThreadFacts, FS_Subset
<1>2. /\ Cardinality(Ready) <= Cardinality(Ready') /\ Cardinality(Notifying) <= Cardinality(Notifying')
      /\ Cardinality(Ready') \in Nat /\ Cardinality(Notifying') \in Nat
  BY <1>1, FS_Subset, FS_CardinalityType
<1> QED
  BY <1>2, WakersFinite, QueuedFacts DEF SleepInv

LEMMA SleepEnqueue ==
  ASSUME AsyncInv, AsyncInv', SleepInv, NEW t \in Posters, Enqueue(t)
  PROVE  SleepInv'
<1> USE ThreadFacts
<1>0. workers' = workers /\ pc[t] = "post" /\ \A u \in Threads \ {t} : pc'[u] = pc[u]
  BY EnqueueEffect
<1>1. Ready' = Ready /\ \A w \in workers : pc'[w] = "asleep" <=> pc[w] = "asleep"
  BY <1>0 DEF Ready
<1>2. CASE pc' = [pc EXCEPT ![t] = "blocked"] /\ UNCHANGED q
  <2>1. Notifying' = Notifying
    BY <1>0, <1>2 DEF Notifying
  <2> QED
    BY <1>0, <1>1, <1>2, <2>1, SleepQuiet
<1>3. CASE pc' = [pc EXCEPT ![t] = "notify"] /\ (Pushes(Item(t)) \/ Overruns(Item(t)))
  <2>1. Notifying' = Notifying \cup {t} /\ t \notin Notifying
    BY <1>0, <1>3 DEF Notifying
  <2>2. Cardinality(Notifying') = Cardinality(Notifying) + 1
    BY <2>1, WakersFinite, FS_AddElement
  <2>3. Size(q') <= Size(q) + 1 /\ Size(q') \in Nat /\ Size(q) \in Nat
    BY <1>3, QueuedFacts DEF Pushes, Overruns
  <2> QED
    BY <1>0, <1>1, <2>2, <2>3, WakersFinite DEF SleepInv
<1> QED
  BY <1>2, <1>3, EnqueueEffect

LEMMA SleepNotify ==
  ASSUME AsyncInv, AsyncInv', PlaceInv, SleepInv, NEW t \in Posters, NotifyPush(t)
  PROVE  SleepInv'
<1> USE ThreadFacts
<1>0. UNCHANGED <<workers, q>> /\ pc[t] = "notify"
  BY PushNotified
<1>1. CASE pc' = [pc EXCEPT ![t] = "leave"] /\ \A w \in workers : pc[w] # "asleep"
  BY <1>0, <1>1 DEF SleepInv
<1>2. ASSUME NEW w \in workers, pc[w] = "asleep", pc' = [pc EXCEPT ![t] = "leave", ![w] = "ready"]
      PROVE  SleepInv'
  <2>1. /\ Ready' = Ready \cup {w} /\ w \notin Ready
        /\ Notifying' = Notifying \ {t} /\ t \in Notifying
    BY <1>0, <1>2 DEF Ready, Notifying
  <2>2. /\ Cardinality(Ready') = Cardinality(Ready) + 1
        /\ Cardinality(Notifying') = Cardinality(Notifying) - 1
    BY <2>1, WakersFinite, FS_AddElement, FS_RemoveElement
  <2>3. Size(q) <= Cardinality(Ready) + Cardinality(Notifying)
    BY <1>2 DEF SleepInv
  <2> QED
    BY <1>0, <2>2, <2>3, WakersFinite DEF SleepInv
<1> QED
  BY <1>1, <1>2, PushNotified

LEMMA SleepDequeue ==
  ASSUME AsyncInv, AsyncInv', SleepInv, NEW w \in Workers, Dequeue(w)
  PROVE  SleepInv'
<1> USE ThreadFacts
<1>0. workers' = workers /\ w \in workers /\ pc[w] = "ready" /\ \A u \in Threads \ {w} : pc'[u] = pc[u]
  BY DequeueEffect
<1>1. CASE Size(q) = 0 /\ UNCHANGED q
  <2>1. Cardinality(Ready') \in Nat /\ Cardinality(Notifying') \in Nat
    <3>1. Ready' \in SUBSET workers /\ Notifying' \in SUBSET Posters
      BY <1>0 DEF Ready, Notifying
    <3> QED
      BY <3>1, FS_Subset, FS_CardinalityType
  <2> QED
    BY <1>1, <2>1 DEF SleepInv
<1>2. CASE pc' = [pc EXCEPT ![w] = "popped"] /\ Pops(w)
  <2>1. Ready' = Ready \ {w} /\ w \in Ready
    BY <1>0, <1>2 DEF Ready
  <2>2. Notifying' = Notifying
    BY <1>0, <1>2 DEF Notifying
  <2>3. Cardinality(Ready') = Cardinality(Ready) - 1
    BY <2>1, WakersFinite, FS_RemoveElement
  <2>4. \A v \in workers : pc'[v] = "asleep" => pc[v] = "asleep"
    BY <1>0, <1>2
  <2>5. Size(q') = Size(q) - 1 /\ Size(q) \in Nat
    BY <1>2, QueuedFacts DEF Pops
  <2> QED
    BY <1>0, <2>2, <2>3, <2>4, <2>5, WakersFinite DEF SleepInv
<1> QED
  BY <1>1, <1>2, DequeueEffect

LEMMA SleepKept ==
  ASSUME AsyncInv, AsyncInv', PlaceInv, SleepInv, AsyncNext
  PROVE  SleepInv'
<1> USE ThreadFacts
<1>p. ASSUME NEW s \in Senders, Post(s) PROVE SleepInv'
  BY <1>p, SleepQuiet DEF Post, Goes, settings, Ready, Notifying
<1>t. ASSUME NEW t \in Posters, LeaveTerminate(t) \/ Join(t) PROVE SleepInv'
  BY <1>t, SleepQuiet DEF LeaveTerminate, Join, settings, Ready, Notifying
<1>l. ASSUME NEW s \in Senders, Leave(s) PROVE SleepInv'
  BY <1>l, SleepQuiet DEF Leave, Release, settings, Ready, Notifying
<1>o. ASSUME NEW w \in Workers, DequeueTimesOut(w) PROVE SleepInv'
  BY <1>o, SleepQuiet DEF DequeueTimesOut, Goes, settings, Ready, Notifying
<1>f. ASSUME NEW w \in Workers, NotifyPop(w) PROVE SleepInv'
  <2>1. workers' = workers /\ q' = q /\ \A u \in Threads :
          pc'[u] = pc[u] \/ (pc[u] \in {"popped", "blocked"} /\ pc'[u] \in {"deliver", "post"})
    BY <1>f, PopNotified
  <2> QED
    BY <2>1, SleepQuiet DEF Ready, Notifying
<1>x. ASSUME NEW w \in Workers, Process(w) PROVE SleepInv'
  BY <1>x, SleepQuiet, ProcessEffect DEF Ready, Notifying
<1>s. CASE Shutdown
  BY <1>s, SleepQuiet DEF Shutdown, StopFlusher, ResetPool, Release, settings, Ready, Notifying
<1> QED
  BY <1>p, <1>t, <1>l, <1>o, <1>f, <1>x, <1>s, SleepEnqueue, SleepNotify, SleepDequeue
  DEF AsyncNext, SenderStep, MainStep, PostStep, WorkerStep, Posters

-----------------------------------------------------------------------------
(* The theorems.                                                           *)

LEMMA DeliveryStart ==
  ASSUME AsyncInit
  PROVE  DeliveryInv
<1>1. AsyncInv /\ Size(q) = 0 /\ q.overrun = 0
  <2>1. room \in Nat /\ q = NewQ(room)
    BY Constants DEF AsyncInit
  <2>2. Contents(q) = << >> /\ q.overrun = 0
    BY <2>1, NewRing
  <2>3. AsyncInv
    BY AsyncStart
  <2>4. IsRing(q, Messages)
    BY <2>3 DEF AsyncInv, AsyncTypeOK
  <2> QED
    BY <2>2, <2>3, <2>4, ContentsType
<1> USE <1>1, ThreadFacts
<1>2. PlaceInv
  BY DEF AsyncInit, PlaceInv, AtWork
<1>3. KillInv
  BY PoolFacts DEF AsyncInit, KillInv
<1>4. Ended = {} /\ Pending = 0
  BY MessageFacts DEF AsyncInit, Ended, Pending
<1>5. TerminateInv
  BY <1>4, FS_EmptySet DEF AsyncInit, TerminateInv
<1>6. Made = {}
  <2>1. \A s \in Senders : {s} \X (1 .. count[s]) = {}
    BY DEF AsyncInit
  <2> QED
    BY <2>1 DEF Made
<1>7. Queued = {} /\ Held = {} /\ InHand = {} /\ delivered = {} /\ refused = {}
  BY DEF AsyncInit, Queued, Held, InHand
<1>8. AccountInv
  <2>1. Places5 = {} /\ Lost = {}
    BY <1>6, <1>7 DEF Places5, Lost
  <2>2. \A w \in Workers : holds[w] \notin Logged
    BY MessageFacts DEF AsyncInit
  <2> QED
    BY <1>6, <1>7, <2>1, <2>2, FS_EmptySet DEF AccountInv
<1>9. OrderInv
  BY <1>7 DEF OrderInv
<1>10. SleepInv
  BY DEF AsyncInit, SleepInv
<1> QED
  BY <1>2, <1>3, <1>5, <1>8, <1>9, <1>10 DEF DeliveryInv

LEMMA DeliveryStep ==
  ASSUME DeliveryInv, AsyncNext
  PROVE  DeliveryInv'
  BY AsyncStep, PlaceKept, KillKept, TerminateKept, AccountKept, OrderKept, SleepKept DEF DeliveryInv

LEMMA DeliveryStutter ==
  ASSUME DeliveryInv, UNCHANGED asyncVars
  PROVE  DeliveryInv'
<1> USE DEF DeliveryInv
<1>0. UNCHANGED <<workers, q, pc, count, refs, killer, told, holds, delivered, refused>>
  BY DEF asyncVars, settings
<1>1. AsyncInv'
  BY AsyncStutter
<1>2. PlaceInv' /\ KillInv'
  BY <1>0 DEF PlaceInv, KillInv, Posting
<1>3. Ended' = Ended /\ Pending' = Pending /\ InHand' = InHand
  BY <1>0 DEF Ended, Pending, InHand
<1>4. TerminateInv' /\ AccountInv' /\ OrderInv'
  BY <1>0, <1>3, TerminateQuiet, AccountQuiet, OrderQuiet
<1>5. SleepInv'
  BY <1>0 DEF SleepInv, Ready, Notifying
<1> QED
  BY <1>1, <1>2, <1>4, <1>5

LEMMA DeliveryHolds == AsyncSpec => []DeliveryInv
<1>1. AsyncInit => DeliveryInv
  BY DeliveryStart
<1>2. DeliveryInv /\ [AsyncNext]_asyncVars => DeliveryInv'
  BY DeliveryStep, DeliveryStutter
<1> QED
  BY <1>1, <1>2, PTL DEF AsyncSpec

LEMMA DisjointUnion ==
  ASSUME NEW S, NEW T, IsFiniteSet(S), IsFiniteSet(T), S \cap T = {}
  PROVE  IsFiniteSet(S \cup T) /\ Cardinality(S \cup T) = Cardinality(S) + Cardinality(T)
<1>1. Cardinality(S \cap T) = 0 /\ Cardinality(S) \in Nat /\ Cardinality(T) \in Nat
  BY FS_EmptySet, FS_CardinalityType
<1>2. /\ IsFiniteSet(S \cup T)
      /\ Cardinality(S \cup T) = Cardinality(S) + Cardinality(T) - Cardinality(S \cap T)
  BY FS_Union
<1> QED
  BY <1>1, <1>2

LEMMA PlacesCounted ==
  ASSUME AccountInv
  PROVE  Cardinality(Made) = Cardinality(refused) + Cardinality(delivered) + Cardinality(Queued)
                             + Cardinality(Held) + Cardinality(InHand) + q.overrun
<1> DEFINE A == refused \cup delivered
           B == A \cup Queued
           C == B \cup Held
           D == C \cup InHand
<1>1. /\ IsFiniteSet(refused) /\ IsFiniteSet(delivered) /\ IsFiniteSet(Queued)
      /\ IsFiniteSet(Held) /\ IsFiniteSet(InHand) /\ IsFiniteSet(Lost)
  BY FS_Subset DEF AccountInv, Places5, Lost
<1>2. IsFiniteSet(A) /\ Cardinality(A) = Cardinality(refused) + Cardinality(delivered)
  BY <1>1, DisjointUnion DEF AccountInv
<1>3. IsFiniteSet(B) /\ Cardinality(B) = Cardinality(A) + Cardinality(Queued)
  BY <1>1, <1>2, DisjointUnion DEF AccountInv
<1>4. IsFiniteSet(C) /\ Cardinality(C) = Cardinality(B) + Cardinality(Held)
  BY <1>1, <1>3, DisjointUnion DEF AccountInv
<1>5. IsFiniteSet(D) /\ Cardinality(D) = Cardinality(C) + Cardinality(InHand)
  BY <1>1, <1>4, DisjointUnion DEF AccountInv
<1>6. Made = D \cup Lost /\ D \cap Lost = {}
  BY DEF AccountInv, Places5, Lost
<1>7. Cardinality(Made) = Cardinality(D) + Cardinality(Lost)
  BY <1>1, <1>5, <1>6, DisjointUnion
<1> HIDE DEF A, B, C, D
<1> QED
  BY <1>1, <1>2, <1>3, <1>4, <1>5, <1>7, FS_CardinalityType DEF AccountInv

LEMMA AccountedHolds ==
  ASSUME AccountInv
  PROVE  Accounted
<1> DEFINE places == <<refused, delivered, Queued, Held, InHand>>
           cards == [i \in 1 .. 5 |-> Cardinality(places[i])]
<1>0. /\ places[1] = refused /\ places[2] = delivered /\ places[3] = Queued
      /\ places[4] = Held /\ places[5] = InHand
  OBVIOUS
<1>1. \A i, j \in 1 .. 5 : i < j => places[i] \cap places[j] = {}
  <2> SUFFICES ASSUME NEW i \in 1 .. 5, NEW j \in 1 .. 5, i < j PROVE places[i] \cap places[j] = {}
    OBVIOUS
  <2>1. CASE i = 1
    <3>1. places[j] \subseteq delivered \cup Queued \cup Held \cup InHand
      BY <1>0, <2>1
    <3> QED
      BY <1>0, <2>1, <3>1 DEF AccountInv
  <2>2. CASE i = 2
    <3>1. places[j] \subseteq Queued \cup Held \cup InHand
      BY <1>0, <2>2
    <3> QED
      BY <1>0, <2>2, <3>1 DEF AccountInv
  <2>3. CASE i = 3
    <3>1. places[j] \subseteq Held \cup InHand
      BY <1>0, <2>3
    <3> QED
      BY <1>0, <2>3, <3>1 DEF AccountInv
  <2>4. CASE i = 4
    BY <1>0, <2>4 DEF AccountInv
  <2> QED
    BY <2>1, <2>2, <2>3, <2>4
<1>2. UNION {places[i] : i \in 1 .. 5} \subseteq Made
  <2>1. \A i \in 1 .. 5 : places[i] \subseteq Places5
    BY <1>0 DEF Places5
  <2> QED
    BY <2>1 DEF AccountInv
<1>3. Cardinality(Made) = cards[1] + cards[2] + cards[3] + cards[4] + cards[5] + q.overrun
  <2>1. /\ cards[1] = Cardinality(refused) /\ cards[2] = Cardinality(delivered)
        /\ cards[3] = Cardinality(Queued) /\ cards[4] = Cardinality(Held)
        /\ cards[5] = Cardinality(InHand)
    BY <1>0
  <2> HIDE DEF cards
  <2> QED
    BY <2>1, PlacesCounted
<1> QED
  BY <1>1, <1>2, <1>3 DEF Accounted

LEMMA InOrderHolds ==
  ASSUME DeliveryInv
  PROVE  InOrder
<1> SUFFICES ASSUME Cardinality(workers) = 1, NEW m \in delivered, NEW k \in 1 .. m[2] - 1,
                    <<m[1], k>> \in Queued \cup Held
             PROVE  FALSE
  BY DEF InOrder
<1>1. Before(m, <<m[1], k>>)
  BY DEF DeliveryInv, OrderInv
<1>2. m[2] \in Nat
  BY MessageFacts DEF DeliveryInv, AsyncInv, AsyncTypeOK
<1> QED
  BY <1>1, <1>2 DEF Before

LEMMA DrainHolds ==
  ASSUME DeliveryInv
  PROVE  ShutdownDrains
<1> SUFFICES ASSUME pc[main] = "down", \A s \in Senders : pc[s] \in {"idle", "gone"}
             PROVE  Queued \cup Held = {} /\ \A w \in workers : pc[w] = "gone"
  BY DEF ShutdownDrains
<1> USE DEF DeliveryInv
<1>1. \A t \in Posters : pc[t] \notin Posting \cup {"join"}
  BY DEF Posting, Posters
<1>2. refs = {}
  <2>1. registry \notin refs
    BY DEF KillInv
  <2>2. ASSUME NEW s \in refs PROVE FALSE
    BY <1>1, <2>1, ThreadFacts DEF KillInv, AsyncInv, AsyncTypeOK
  <2> QED
    BY <2>2
<1>3. killer # Nobody /\ killer \in Posters
  BY <1>2, OnlyKillerPosts DEF KillInv
<1>4. \A w \in workers : pc[w] = "gone"
  BY <1>1, <1>3 DEF KillInv
<1>5. \A w \in Workers : holds[w] = Moved
  BY <1>4 DEF PlaceInv
<1>6. Ended # {}
  BY <1>4, ThreadFacts DEF Ended
<1>7. \A k \in 1 .. Size(q) : Items[k] = Terminate
  BY <1>6, QueuedFacts DEF TerminateInv
<1> QED
  BY <1>4, <1>5, <1>7, QueuedFacts, HeldFacts

LEMMA AwakeHolds ==
  ASSUME DeliveryInv
  PROVE  SomebodyAwake
<1> SUFFICES ASSUME ~EmptyQ(q), \A w \in workers : pc[w] \in {"asleep", "gone"},
                    \A t \in Posters : pc[t] # "notify"
             PROVE  FALSE
  BY DEF SomebodyAwake, Posters
<1> USE DEF DeliveryInv
<1>1. Size(q) \in Nat \ {0}
  <2>1. IsRing(q, Messages)
    BY DEF AsyncInv, AsyncTypeOK
  <2>2. Positions(q)
    BY <2>1, RingFacts
  <2> QED
    BY <2>2 DEF Positions
<1>2. CASE \E w \in workers : pc[w] = "asleep"
  <2>1. Ready = {} /\ Notifying = {}
    BY DEF Ready, Notifying
  <2>2. Cardinality(Ready) = 0 /\ Cardinality(Notifying) = 0
    BY <2>1, FS_EmptySet
  <2> QED
    BY <1>1, <1>2, <2>2 DEF SleepInv
<1>3. CASE \A w \in workers : pc[w] = "gone"
  <2>1. Ended = workers
    BY <1>3 DEF Ended
  <2>2. PICK u \in 0 .. Size(q) : u + Cardinality(workers) = told + Pending /\ u = Size(q)
    BY <2>1, ThreadFacts DEF TerminateInv
  <2>3. told + Pending <= Cardinality(workers)
    BY ThreadFacts, PoolFacts DEF KillInv, Pending, Posting
  <2> QED
    BY <1>1, <2>2, <2>3, PoolFacts, ThreadFacts DEF Pending
<1> QED
  BY <1>2, <1>3

\* Every message that a thread logs is refused, on its way, in the queue, with a worker
\* or at the sinks, and in one of these places only, but for as many as overrun_counter
\* says; and a pool of one worker hands the messages of a thread on in their order
\* (async_logger-inl.h, thread_pool-inl.h, mpmc_blocking_q.h).
THEOREM EveryMessageAccounted == AsyncSpec => []Delivery
<1>1. DeliveryInv => Delivery
  BY AccountedHolds, InOrderHolds DEF Delivery, DeliveryInv, AsyncInv
<1> QED
  BY <1>1, DeliveryHolds, PTL

\* registry::shutdown, or whoever is the last to hold the pool, drains the queue: when
\* nobody posts any more, all accepted messages have reached the sinks and all workers
\* have ended (~thread_pool posts one terminate message per worker and joins them).
THEOREM QueueDrained == AsyncSpec => []ShutdownDrains
<1>1. DeliveryInv => ShutdownDrains
  BY DrainHolds
<1> QED
  BY <1>1, DeliveryHolds, PTL

\* notify_one after the mutex was released loses no wakeup: while a message is in the
\* queue, a worker is awake or somebody is about to wake one.
THEOREM NoLostWakeup == AsyncSpec => []SomebodyAwake
<1>1. DeliveryInv => SomebodyAwake
  BY AwakeHolds
<1> QED
  BY <1>1, DeliveryHolds, PTL
=============================================================================
