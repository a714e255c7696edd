------------------------------ MODULE MemoryBuffer --------------------------
(***************************************************************************)
(* basic_memory_buffer (fmt/bundled/format.h and core.h), in which every   *)
(* text is formatted and which carries a message through the queue of the  *)
(* thread pool: the inline array, its replacement by a block of the heap   *)
(* when a text outgrows it, and moving, after which the other buffer keeps *)
(* a size of which it has nothing.  An allocation that fails throws before *)
(* anything is changed.                                                    *)
(***************************************************************************)
EXTENDS Integers, Sequences

CONSTANTS
  Buffers,          \* the places a buffer may be made at
  Blocks,           \* what the allocator may hand out
  InlineSize,       \* SIZE
  Texts,            \* the texts that are appended
  Inline,           \* data(): the inline array store_
  MaxText           \* bound: the length of a text

ASSUME BufferAssumption ==
  /\ InlineSize \in Nat \ {0} /\ Texts \subseteq Seq(STRING) /\ Inline \notin Blocks /\ MaxText \in Nat

VARIABLES
  made,             \* the buffers that are constructed and not destroyed
  data, size, capacity,
  stored,           \* what was last written to the inline array
  heap,             \* of each block: the size it was allocated with, and what was written to it
  emptied,          \* the buffers whose block was moved to another: only to be cleared, assigned to or destroyed
  text              \* history: what was appended to a buffer's text since it was empty

bufferVars == <<made, data, size, capacity, stored, heap, emptied, text>>

Block == [size : Nat, bytes : Seq(STRING)]
Free == [size |-> 0, bytes |-> << >>]

\* What lies at data().
Bytes(b) == IF data[b] = Inline THEN stored[b] ELSE heap[data[b]].bytes
Content(b) == SubSeq(Bytes(b), 1, size[b])

BufferInit ==
  /\ made = {} /\ emptied = {}
  /\ data = [b \in Buffers |-> Inline] /\ size = [b \in Buffers |-> 0]
  /\ capacity = [b \in Buffers |-> InlineSize] /\ stored = [b \in Buffers |-> << >>]
  /\ heap = [k \in Blocks |-> Free]
  /\ text = [b \in Buffers |-> << >>]

\* The heap after deallocate of a buffer that has a block, given what it was before.
Without(blocks, b) == IF data[b] = Inline THEN blocks ELSE [blocks EXCEPT ![data[b]] = Free]

Construct(b) ==
  /\ b \notin made /\ made' = made \cup {b} /\ emptied' = emptied \ {b}
  /\ data' = [data EXCEPT ![b] = Inline] /\ capacity' = [capacity EXCEPT ![b] = InlineSize]
  /\ size' = [size EXCEPT ![b] = 0] /\ stored' = [stored EXCEPT ![b] = << >>]
  /\ text' = [text EXCEPT ![b] = << >>]
  /\ UNCHANGED heap

Destroy(b) ==
  /\ b \in made /\ made' = made \ {b}
  /\ heap' = Without(heap, b)
  /\ data' = [data EXCEPT ![b] = Inline] /\ size' = [size EXCEPT ![b] = 0]
  /\ capacity' = [capacity EXCEPT ![b] = InlineSize] /\ stored' = [stored EXCEPT ![b] = << >>]
  /\ text' = [text EXCEPT ![b] = << >>] /\ emptied' = emptied \ {b}

Longer(b, chunk) == Content(b) \o chunk
Extend(b, chunk) ==
  /\ b \in made \ emptied /\ size[b] + Len(chunk) <= MaxText
  /\ size' = [size EXCEPT ![b] = @ + Len(chunk)]
  /\ text' = [text EXCEPT ![b] = @ \o chunk]

\* append and push_back, and resize to more, whose new characters are anything.
Append_(b, chunk) ==
  /\ Extend(b, chunk)
  /\ size[b] + Len(chunk) <= capacity[b]
  /\ IF data[b] = Inline THEN stored' = [stored EXCEPT ![b] = Longer(b, chunk)] /\ UNCHANGED heap
     ELSE heap' = [heap EXCEPT ![data[b]].bytes = Longer(b, chunk)] /\ UNCHANGED stored
  /\ UNCHANGED <<made, data, capacity, emptied>>

\* The same when reserve has to grow: by half, or to what is needed.
GrownTo(b, needed) ==
  LET half == capacity[b] + (capacity[b] \div 2) IN IF needed > half THEN needed ELSE half

Grow(b, chunk, block) ==
  /\ Extend(b, chunk)
  /\ size[b] + Len(chunk) > capacity[b]
  /\ block \in Blocks /\ heap[block].size = 0
  /\ capacity' = [capacity EXCEPT ![b] = GrownTo(b, size[b] + Len(chunk))]
  /\ heap' = [Without(heap, b) EXCEPT
       ![block] = [size |-> GrownTo(b, size[b] + Len(chunk)), bytes |-> Longer(b, chunk)]]
  /\ data' = [data EXCEPT ![b] = block]
  /\ UNCHANGED <<made, stored, emptied>>

\* clear, and resize to less.
Shrink(b, n) ==
  /\ b \in made /\ n \in 0 .. size[b] /\ (b \in emptied => n = 0)
  /\ size' = [size EXCEPT ![b] = n]
  /\ emptied' = emptied \ {b}
  /\ text' = [text EXCEPT ![b] = IF n = 0 THEN << >> ELSE SubSeq(@, 1, n)]
  /\ UNCHANGED <<made, data, capacity, stored, heap>>

\* Mutant: the other buffer goes on pointing to the block.
TakeFromSharing(b, other) ==
  /\ size' = [size EXCEPT ![b] = size[other]]
  /\ text' = [text EXCEPT ![b] = text[other]]
  /\ capacity' = [capacity EXCEPT ![b] = capacity[other]] /\ data' = [data EXCEPT ![b] = data[other]]
  /\ IF data[other] = Inline THEN
       /\ stored' = [stored EXCEPT ![b] = Content(other)] /\ emptied' = emptied \ {b}
     ELSE UNCHANGED stored /\ emptied' = emptied \ {b}

\* move: an inline text is copied, a block changes hands.
TakeFrom(b, other) ==
  /\ size' = [size EXCEPT ![b] = size[other]]
  /\ text' = [text EXCEPT ![b] = text[other]]
  /\ IF data[other] = Inline THEN
       /\ data' = [data EXCEPT ![b] = Inline] /\ capacity' = [capacity EXCEPT ![b] = capacity[other]]
       /\ stored' = [stored EXCEPT ![b] = Content(other)] /\ emptied' = emptied \ {b}
     ELSE
       /\ data' = [data EXCEPT ![b] = data[other], ![other] = Inline]
       /\ capacity' = [capacity EXCEPT ![b] = capacity[other], ![other] = 0]
       /\ UNCHANGED stored /\ emptied' = (emptied \ {b}) \cup {other}

\* The assignment asserts that the two are not the same.
MoveAssign(b, other) ==
  /\ b \in made /\ other \in made \ emptied /\ b # other
  /\ heap' = Without(heap, b)
  /\ TakeFrom(b, other) /\ UNCHANGED made

MoveConstruct(b, other) ==
  /\ b \notin made /\ other \in made \ emptied
  /\ made' = made \cup {b} /\ UNCHANGED heap
  /\ TakeFrom(b, other)

BufferNext ==
  \E b \in Buffers :
    \/ Construct(b) \/ Destroy(b)
    \/ \E chunk \in Texts : Append_(b, chunk) \/ \E block \in Blocks : Grow(b, chunk, block)
    \/ \E n \in 0 .. MaxText : Shrink(b, n)
    \/ \E other \in Buffers : MoveAssign(b, other) \/ MoveConstruct(b, other)

BufferSpec == BufferInit /\ [][BufferNext]_bufferVars

-----------------------------------------------------------------------------
(* Properties.                                                             *)

BufferTypeOK ==
  /\ made \subseteq Buffers /\ emptied \subseteq Buffers
  /\ data \in [Buffers -> Blocks \cup {Inline}] /\ size \in [Buffers -> Nat] /\ capacity \in [Buffers -> Nat]
  /\ stored \in [Buffers -> Seq(STRING)] /\ heap \in [Blocks -> Block]
  /\ text \in [Buffers -> Seq(STRING)]

\* Every block in use has exactly one owner, and a buffer's block is in use, of the size
\* it will be given back with: none leaks, none is freed twice or used after it was.
BlocksOwned ==
  /\ \A b \in made : data[b] # Inline => capacity[b] > 0 /\ heap[data[b]].size = capacity[b]
  /\ \A b, c \in made : data[b] = data[c] /\ data[b] # Inline => b = c
  /\ \A block \in Blocks : heap[block].size > 0 => \E b \in made : data[b] = block

\* A text fits its buffer, and an inline one the inline array.
TextsFit ==
  \A b \in made :
    /\ b \notin emptied => size[b] <= capacity[b]
    /\ data[b] = Inline => capacity[b] <= InlineSize

\* However a text grows, shrinks and moves, the buffer holds what was appended to it.
TextsKept == \A b \in made \ emptied : Content(b) = text[b]

\* All of these.
BuffersSound == BufferTypeOK /\ BlocksOwned /\ TextsFit /\ TextsKept
=============================================================================
