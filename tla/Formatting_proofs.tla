--------------------------- MODULE Formatting_proofs ------------------------
(***************************************************************************)
(* Proofs about what turns messages into text: that every buffer holds     *)
(* what was appended to it, that patterns compile to what they were        *)
(* written from and fields are padded as asked for, that the coloured      *)
(* sinks show each message its own time, and that checking a format string *)
(* agrees with formatting it, for any number of buffers, blocks, sinks,    *)
(* messages and patterns, and any strings and arguments.                   *)
(***************************************************************************)
EXTENDS MCFormatting, FormatValue_proofs

-----------------------------------------------------------------------------
(* basic_memory_buffer.  BlocksOwned, TextsFit and TextsKept are inductive *)
(* together: that no two buffers have the same block is what keeps a text  *)
(* when another buffer is written to, freed or moved.                      *)

\* As much was written as the size says.
SizesWritten == \A b \in made \ emptied : size[b] <= Len(Bytes(b))

BufferInv == BufferTypeOK /\ BlocksOwned /\ TextsFit /\ TextsKept /\ SizesWritten

-----------------------------------------------------------------------------
(* Sequences.                                                              *)

LEMMA PrefixType ==
  ASSUME NEW s \in Seq(STRING), NEW n \in Nat, n <= Len(s)
  PROVE  SubSeq(s, 1, n) \in Seq(STRING) /\ Len(SubSeq(s, 1, n)) = n
  OBVIOUS

LEMMA WholeIsPrefix ==
  ASSUME NEW s \in Seq(STRING)
  PROVE  SubSeq(s, 1, Len(s)) = s
  OBVIOUS

LEMMA PrefixOfPrefix ==
  ASSUME NEW s \in Seq(STRING), NEW n \in Nat, NEW m \in Nat, n <= Len(s), m <= n
  PROVE  SubSeq(SubSeq(s, 1, n), 1, m) = SubSeq(s, 1, m)
  OBVIOUS

LEMMA Concatenated ==
  ASSUME NEW s \in Seq(STRING), NEW t \in Seq(STRING)
  PROVE  s \o t \in Seq(STRING) /\ Len(s \o t) = Len(s) + Len(t)
  OBVIOUS

LEMMA EmptyPrefix ==
  ASSUME NEW s
  PROVE  SubSeq(s, 1, 0) = << >>
  OBVIOUS

-----------------------------------------------------------------------------
(* What lies in buffers.                                                   *)

LEMMA BytesType ==
  ASSUME BufferTypeOK, NEW b \in Buffers
  PROVE  Bytes(b) \in Seq(STRING)
  BY BufferAssumption DEF BufferTypeOK, Bytes, Block

\* A buffer's text is a sequence as long as the size says.
LEMMA TextSize ==
  ASSUME BufferInv, NEW b \in made \ emptied
  PROVE  Content(b) = text[b] /\ text[b] \in Seq(STRING) /\ Len(text[b]) = size[b]
<1>1. b \in Buffers /\ size[b] \in Nat /\ size[b] <= Len(Bytes(b))
  BY DEF BufferInv, BufferTypeOK, SizesWritten
<1>2. Content(b) \in Seq(STRING) /\ Len(Content(b)) = size[b]
  BY <1>1, BytesType, PrefixType DEF Content, BufferInv
<1> QED
  BY <1>2 DEF BufferInv, TextsKept

\* The same of a buffer that lies elsewhere or nowhere else afterwards.
LEMMA KeptElsewhere ==
  ASSUME NEW b, Content(b) = text[b], size[b] <= Len(Bytes(b)),
         Bytes(b)' = Bytes(b), size'[b] = size[b], text'[b] = text[b]
  PROVE  Content(b)' = text'[b] /\ size'[b] <= Len(Bytes(b)')
  BY DEF Content

\* A block that is not a buffer's own may be written, freed and handed out.
LEMMA BytesElsewhere ==
  ASSUME BufferInv, NEW c \in made, data'[c] = data[c], stored'[c] = stored[c],
         data[c] # Inline => heap'[data[c]] = heap[data[c]]
  PROVE  Bytes(c)' = Bytes(c)
  BY DEF Bytes

-----------------------------------------------------------------------------

LEMMA BufferInitHolds == BufferInit => BufferInv
<1> SUFFICES ASSUME BufferInit PROVE BufferInv
  OBVIOUS
<1>1. BufferTypeOK
  BY BufferAssumption DEF BufferInit, BufferTypeOK, Block, Free
<1>2. BlocksOwned /\ TextsFit /\ TextsKept /\ SizesWritten
  BY DEF BufferInit, BlocksOwned, TextsFit, TextsKept, SizesWritten, Free
<1> QED
  BY <1>1, <1>2 DEF BufferInv

LEMMA ConstructKeeps ==
  ASSUME BufferInv, NEW b \in Buffers, Construct(b)
  PROVE  BufferInv'
<1> USE DEF Construct
<1>1. BufferTypeOK'
  BY BufferAssumption DEF BufferInv, BufferTypeOK
<1>2. BlocksOwned'
  BY BufferAssumption DEF BufferInv, BufferTypeOK, BlocksOwned
<1>3. TextsFit'
  BY BufferAssumption DEF BufferInv, BufferTypeOK, TextsFit
<1>4. ASSUME NEW c \in made' \ emptied' PROVE Content(c)' = text'[c] /\ size'[c] <= Len(Bytes(c)')
  <2>1. CASE c = b
    <3>1. size'[c] = 0 /\ text'[c] = << >> /\ Bytes(c)' = << >>
      BY <2>1 DEF BufferInv, BufferTypeOK, Bytes
    <3>2. Content(c)' = SubSeq(Bytes(c)', 1, size'[c])
      BY DEF Content
    <3>3. SubSeq(<< >>, 1, 0) = << >> /\ 0 <= Len(<< >>)
      BY EmptyPrefix
    <3> QED
      BY <3>1, <3>2, <3>3
  <2>2. CASE c # b
    <3>1. c \in made \ emptied /\ c \in Buffers
      BY <2>2, <1>4 DEF BufferInv, BufferTypeOK
    <3>2. Bytes(c)' = Bytes(c) /\ size'[c] = size[c] /\ text'[c] = text[c]
      BY <2>2, <3>1, BytesElsewhere DEF BufferInv, BufferTypeOK
    <3> QED
      BY <3>1, <3>2, KeptElsewhere DEF BufferInv, TextsKept, SizesWritten
  <2> QED
    BY <2>1, <2>2
<1> QED
  BY <1>1, <1>2, <1>3, <1>4 DEF BufferInv, TextsKept, SizesWritten

\* Freeing a buffer's own block touches no other buffer's.
LEMMA FreedElsewhere ==
  ASSUME BufferInv, NEW b \in made, NEW c \in made, c # b, data[c] # Inline
  PROVE  Without(heap, b)[data[c]] = heap[data[c]]
  BY DEF BufferInv, BufferTypeOK, BlocksOwned, Without

LEMMA FreedType ==
  ASSUME BufferInv, NEW b \in made
  PROVE  Without(heap, b) \in [Blocks -> Block]
<1>1. Free \in Block
  BY DEF Free, Block
<1> QED
  BY <1>1 DEF BufferInv, BufferTypeOK, Without

\* What is still in use has an owner that was not freed.
LEMMA FreedOwned ==
  ASSUME BufferInv, NEW b \in made, NEW block \in Blocks, Without(heap, b)[block].size > 0
  PROVE  heap[block].size > 0 /\ \E c \in made \ {b} : data[c] = block
<1>1. Free.size = 0
  BY DEF Free
<1>2. heap[block].size > 0 /\ (data[b] # Inline => block # data[b])
  BY <1>1 DEF Without, BufferInv, BufferTypeOK
<1>3. PICK c \in made : data[c] = block
  BY <1>2 DEF BufferInv, BlocksOwned
<1>4. c # b
  BY <1>2, <1>3, BufferAssumption
<1> QED
  BY <1>2, <1>3, <1>4

LEMMA DestroyKeeps ==
  ASSUME BufferInv, NEW b \in Buffers, Destroy(b)
  PROVE  BufferInv'
<1> USE DEF Destroy
<1>1. BufferTypeOK'
  BY BufferAssumption, FreedType DEF BufferInv, BufferTypeOK
<1>2. BlocksOwned'
  <2>1. ASSUME NEW c \in made', data'[c] # Inline
        PROVE  capacity'[c] > 0 /\ heap'[data'[c]].size = capacity'[c]
    BY <2>1, FreedElsewhere, ZenonT(60) DEF BufferInv, BufferTypeOK, BlocksOwned
  <2>2. ASSUME NEW c \in made', NEW d \in made', data'[c] = data'[d], data'[c] # Inline PROVE c = d
    BY <2>2 DEF BufferInv, BufferTypeOK, BlocksOwned
  <2>3. ASSUME NEW block \in Blocks, heap'[block].size > 0 PROVE \E c \in made' : data'[c] = block
    BY <2>3, FreedOwned DEF BufferInv, BufferTypeOK
  <2> QED
    BY <2>1, <2>2, <2>3 DEF BlocksOwned
<1>3. TextsFit'
  BY DEF BufferInv, BufferTypeOK, TextsFit
<1>4. ASSUME NEW c \in made' \ emptied' PROVE Content(c)' = text'[c] /\ size'[c] <= Len(Bytes(c)')
  <2>1. c \in made \ emptied /\ c # b /\ c \in Buffers
    BY <1>4 DEF BufferInv, BufferTypeOK
  <2>2. Bytes(c)' = Bytes(c) /\ size'[c] = size[c] /\ text'[c] = text[c]
    BY <2>1, FreedElsewhere, BytesElsewhere DEF BufferInv, BufferTypeOK
  <2> QED
    BY <2>1, <2>2, KeptElsewhere DEF BufferInv, TextsKept, SizesWritten
<1> QED
  BY <1>1, <1>2, <1>3, <1>4 DEF BufferInv, TextsKept, SizesWritten

-----------------------------------------------------------------------------
(* Growing texts.                                                          *)

LEMMA LongerText ==
  ASSUME BufferInv, NEW b \in made \ emptied, NEW chunk \in Texts
  PROVE  /\ Longer(b, chunk) \in Seq(STRING) /\ Len(Longer(b, chunk)) = size[b] + Len(chunk)
         /\ Longer(b, chunk) = text[b] \o chunk /\ Len(chunk) \in Nat
<1>1. chunk \in Seq(STRING) /\ Len(chunk) \in Nat
  BY BufferAssumption
<1>2. Content(b) = text[b] /\ text[b] \in Seq(STRING) /\ Len(text[b]) = size[b]
  BY TextSize
<1>3. text[b] \o chunk \in Seq(STRING) /\ Len(text[b] \o chunk) = Len(text[b]) + Len(chunk)
  BY <1>1, <1>2, Concatenated
<1> QED
  BY <1>1, <1>2, <1>3 DEF Longer

\* A buffer that has the longer text, and all of it, holds what it should.
LEMMA LongerKept ==
  ASSUME BufferInv, NEW b \in made \ emptied, NEW chunk \in Texts, Extend(b, chunk),
         Bytes(b)' = Longer(b, chunk)
  PROVE  Content(b)' = text'[b] /\ size'[b] <= Len(Bytes(b)')
<1>1. size'[b] = Len(Longer(b, chunk)) /\ text'[b] = Longer(b, chunk) /\ Longer(b, chunk) \in Seq(STRING)
  BY LongerText DEF Extend, BufferInv, BufferTypeOK
<1>2. SubSeq(Longer(b, chunk), 1, Len(Longer(b, chunk))) = Longer(b, chunk)
  BY <1>1, WholeIsPrefix
<1>3. Content(b)' = SubSeq(Bytes(b)', 1, size'[b])
  BY DEF Content
<1> QED
  BY <1>1, <1>2, <1>3

LEMMA ExtendType ==
  ASSUME BufferInv, NEW b \in made \ emptied, NEW chunk \in Texts, Extend(b, chunk)
  PROVE  size' \in [Buffers -> Nat] /\ text' \in [Buffers -> Seq(STRING)]
<1>1. text[b] \o chunk \in Seq(STRING) /\ Len(chunk) \in Nat
  BY LongerText
<1>2. size[b] + Len(chunk) \in Nat
  BY <1>1 DEF BufferInv, BufferTypeOK
<1> QED
  BY <1>1, <1>2 DEF Extend, BufferInv, BufferTypeOK

LEMMA AppendKeeps ==
  ASSUME BufferInv, NEW b \in Buffers, NEW chunk \in Texts, Append_(b, chunk)
  PROVE  BufferInv'
<1> USE DEF Append_
<1>0. b \in made \ emptied /\ Extend(b, chunk)
  BY DEF Extend
<1>1. BufferTypeOK'
  <2>1. Longer(b, chunk) \in Seq(STRING)
    BY <1>0, LongerText
  <2>2. stored' \in [Buffers -> Seq(STRING)]
    BY <2>1 DEF BufferInv, BufferTypeOK
  <2>3. heap' \in [Blocks -> Block]
    BY <2>1, ZenonT(60) DEF BufferInv, BufferTypeOK, Block
  <2> QED
    BY <1>0, <2>2, <2>3, ExtendType DEF BufferInv, BufferTypeOK
<1>2. BlocksOwned'
  <2>1. made' = made /\ data' = data /\ capacity' = capacity
    OBVIOUS
  <2>2. ASSUME NEW block \in Blocks PROVE heap'[block].size = heap[block].size
    <3>1. CASE data[b] = Inline
      BY <3>1
    <3>2. CASE data[b] # Inline
      <4>1. data[b] \in Blocks /\ heap \in [Blocks -> Block]
        BY <3>2 DEF BufferInv, BufferTypeOK
      <4>2. heap' = [heap EXCEPT ![data[b]].bytes = Longer(b, chunk)]
        BY <3>2
      <4> HIDE DEF Append_
      <4>3. heap[block] \in Block
        BY <4>1
      <4> QED
        BY <4>1, <4>2, <4>3 DEF Block
    <3> QED
      BY <3>1, <3>2
  <2>3. \A c \in made : data[c] # Inline => data[c] \in Blocks
    BY DEF BufferInv, BufferTypeOK
  <2> HIDE DEF Append_
  <2> QED
    BY <2>1, <2>2, <2>3 DEF BufferInv, BlocksOwned
<1>3. TextsFit'
  BY <1>0, LongerText DEF BufferInv, BufferTypeOK, TextsFit, Extend
<1>4. ASSUME NEW c \in made' \ emptied' PROVE Content(c)' = text'[c] /\ size'[c] <= Len(Bytes(c)')
  <2>1. c \in made \ emptied /\ c \in Buffers
    BY <1>4 DEF BufferInv, BufferTypeOK
  <2>2. CASE c = b
    <3>1. Bytes(b)' = Longer(b, chunk)
      BY <2>1, <2>2 DEF Bytes, BufferInv, BufferTypeOK, Block
    <3> QED
      BY <1>0, <2>2, <3>1, LongerKept
  <2>3. CASE c # b
    <3>1. Bytes(c)' = Bytes(c)
      <4>1. stored'[c] = stored[c] /\ data'[c] = data[c]
        BY <2>1, <2>3 DEF BufferInv, BufferTypeOK
      <4>2. data[c] # Inline => heap'[data[c]] = heap[data[c]]
        BY <1>0, <2>1, <2>3 DEF BufferInv, BufferTypeOK, BlocksOwned
      <4> QED
        BY <2>1, <4>1, <4>2, BytesElsewhere
    <3>2. size'[c] = size[c] /\ text'[c] = text[c]
      BY <1>0, <2>1, <2>3 DEF Extend, BufferInv, BufferTypeOK
    <3> QED
      BY <2>1, <3>1, <3>2, KeptElsewhere DEF BufferInv, TextsKept, SizesWritten
  <2> QED
    BY <2>2, <2>3
<1> QED
  BY <1>1, <1>2, <1>3, <1>4 DEF BufferInv, TextsKept, SizesWritten

LEMMA GrowKeeps ==
  ASSUME BufferInv, NEW b \in Buffers, NEW chunk \in Texts, NEW block \in Blocks, Grow(b, chunk, block)
  PROVE  BufferInv'
<1> DEFINE needed == size[b] + Len(chunk)
           grown == GrownTo(b, needed)
<1> USE DEF Grow
<1>0. b \in made \ emptied /\ Extend(b, chunk) /\ heap[block].size = 0
  BY DEF Extend
<1>1. grown \in Nat /\ grown > 0 /\ grown >= needed /\ block # Inline
  <2>1. needed \in Nat /\ capacity[b] \in Nat /\ needed > capacity[b]
    <3>1. Len(chunk) \in Nat
      BY <1>0, LongerText
    <3> QED
      BY <1>0, <3>1 DEF BufferInv, BufferTypeOK
  <2>2. block # Inline
    BY BufferAssumption
  <2> HIDE DEF needed
  <2> QED
    BY <2>1, <2>2 DEF GrownTo
<1>2. /\ data' = [data EXCEPT ![b] = block] /\ capacity' = [capacity EXCEPT ![b] = grown]
      /\ heap' = [Without(heap, b) EXCEPT ![block] = [size |-> grown, bytes |-> Longer(b, chunk)]]
      /\ made' = made /\ stored' = stored /\ emptied' = emptied
  OBVIOUS
<1>3. Without(heap, b) \in [Blocks -> Block]
  BY <1>0, FreedType
<1>4. \A c \in made : c # b => data[c] # block
  BY <1>0, <1>1 DEF BufferInv, BufferTypeOK, BlocksOwned
<1> HIDE DEF grown, Grow
<1>5. BufferTypeOK'
  <2>1. heap' \in [Blocks -> Block]
    BY <1>0, <1>1, <1>2, <1>3, LongerText DEF Block
  <2> QED
    BY <1>0, <1>1, <1>2, <2>1, ExtendType DEF BufferInv, BufferTypeOK
<1>6. ASSUME NEW c \in made, c # b, data[c] # Inline PROVE heap'[data[c]] = heap[data[c]]
  BY <1>0, <1>2, <1>3, <1>4, <1>6, FreedElsewhere DEF BufferInv, BufferTypeOK
<1>7. heap'[block] = [size |-> grown, bytes |-> Longer(b, chunk)]
  BY <1>2, <1>3
<1>8. BlocksOwned'
  <2>1. ASSUME NEW c \in made', data'[c] # Inline
        PROVE  capacity'[c] > 0 /\ heap'[data'[c]].size = capacity'[c]
    <3>1. CASE c = b
      BY <1>0, <1>1, <1>2, <1>7, <3>1 DEF BufferInv, BufferTypeOK
    <3>2. CASE c # b
      BY <1>2, <1>6, <2>1, <3>2 DEF BufferInv, BufferTypeOK, BlocksOwned
    <3> QED
      BY <3>1, <3>2
  <2>2. ASSUME NEW c \in made', NEW d \in made', data'[c] = data'[d], data'[c] # Inline PROVE c = d
    BY <1>2, <1>4, <2>2 DEF BufferInv, BufferTypeOK, BlocksOwned
  <2>3. ASSUME NEW k \in Blocks, heap'[k].size > 0 PROVE \E c \in made' : data'[c] = k
    <3>1. CASE k = block
      BY <1>0, <1>2, <3>1 DEF BufferInv, BufferTypeOK
    <3>2. CASE k # block
      <4>1. Without(heap, b)[k].size > 0
        BY <1>2, <1>3, <2>3, <3>2
      <4>2. PICK c \in made \ {b} : data[c] = k
        BY <1>0, <4>1, FreedOwned
      <4> QED
        BY <1>2, <4>2 DEF BufferInv, BufferTypeOK
    <3> QED
      BY <3>1, <3>2
  <2> QED
    BY <2>1, <2>2, <2>3 DEF BlocksOwned
<1>9. TextsFit'
  <2>1. size'[b] = needed /\ \A c \in made : c # b => size'[c] = size[c]
    BY <1>0 DEF Extend, BufferInv, BufferTypeOK
  <2> QED
    BY <1>0, <1>1, <1>2, <2>1 DEF BufferInv, BufferTypeOK, TextsFit
<1>10. ASSUME NEW c \in made' \ emptied' PROVE Content(c)' = text'[c] /\ size'[c] <= Len(Bytes(c)')
  <2>1. c \in made \ emptied /\ c \in Buffers
    BY <1>2, <1>10 DEF BufferInv, BufferTypeOK
  <2>2. CASE c = b
    <3>1. Bytes(b)' = Longer(b, chunk)
      BY <1>0, <1>1, <1>2, <1>7 DEF Bytes, BufferInv, BufferTypeOK
    <3> QED
      BY <1>0, <2>2, <3>1, LongerKept
  <2>3. CASE c # b
    <3>1. Bytes(c)' = Bytes(c)
      BY <1>2, <1>6, <2>1, <2>3, BytesElsewhere DEF BufferInv, BufferTypeOK
    <3>2. size'[c] = size[c] /\ text'[c] = text[c]
      BY <1>0, <2>1, <2>3 DEF Extend, BufferInv, BufferTypeOK
    <3> QED
      BY <2>1, <3>1, <3>2, KeptElsewhere DEF BufferInv, TextsKept, SizesWritten
  <2> QED
    BY <2>2, <2>3
<1> QED
  BY <1>5, <1>8, <1>9, <1>10 DEF BufferInv, TextsKept, SizesWritten

LEMMA ShrinkKeeps ==
  ASSUME BufferInv, NEW b \in Buffers, NEW n \in 0 .. MaxText, Shrink(b, n)
  PROVE  BufferInv'
<1> USE DEF Shrink
<1>0. b \in made /\ n \in Nat /\ n <= size[b]
  BY DEF BufferInv, BufferTypeOK
<1>1. BufferTypeOK'
  <2>1. (IF n = 0 THEN << >> ELSE SubSeq(text[b], 1, n)) \in Seq(STRING)
    <3>1. CASE n = 0
      BY <3>1
    <3>2. CASE n # 0
      <4>1. b \in made \ emptied
        BY <1>0, <3>2
      <4>2. text[b] \in Seq(STRING) /\ Len(text[b]) = size[b]
        BY <4>1, TextSize
      <4> QED
        BY <1>0, <3>2, <4>2, PrefixType
    <3> QED
      BY <3>1, <3>2
  <2> QED
    BY <1>0, <2>1 DEF BufferInv, BufferTypeOK
<1>2. BlocksOwned'
  BY DEF BufferInv, BufferTypeOK, BlocksOwned
<1>3. TextsFit'
  BY <1>0 DEF BufferInv, BufferTypeOK, TextsFit
<1>4. ASSUME NEW c \in made' \ emptied' PROVE Content(c)' = text'[c] /\ size'[c] <= Len(Bytes(c)')
  <2>1. c \in made /\ c \in Buffers /\ Bytes(c)' = Bytes(c) /\ Bytes(c) \in Seq(STRING)
    BY <1>4, BytesType DEF Bytes, BufferInv, BufferTypeOK
  <2>2. CASE c = b /\ n = 0
    <3>1. size'[c] = 0 /\ text'[c] = << >>
      BY <2>1, <2>2 DEF BufferInv, BufferTypeOK
    <3>2. Content(c)' = SubSeq(Bytes(c)', 1, size'[c])
      BY DEF Content
    <3>3. SubSeq(Bytes(c), 1, 0) = << >> /\ 0 <= Len(Bytes(c))
      BY <2>1, EmptyPrefix
    <3> QED
      BY <2>1, <3>1, <3>2, <3>3
  <2>3. CASE c = b /\ n # 0
    <3>1. c \in made \ emptied
      BY <1>0, <2>3
    <3>2. size[c] \in Nat /\ size[c] <= Len(Bytes(c)) /\ SubSeq(Bytes(c), 1, size[c]) = text[c]
      BY <2>1, <3>1 DEF BufferInv, BufferTypeOK, TextsKept, SizesWritten, Content
    <3>3. size'[c] = n /\ text'[c] = SubSeq(text[c], 1, n)
      BY <2>1, <2>3 DEF BufferInv, BufferTypeOK
    <3>4. SubSeq(SubSeq(Bytes(c), 1, size[c]), 1, n) = SubSeq(Bytes(c), 1, n)
      BY <1>0, <2>1, <2>3, <3>2, PrefixOfPrefix
    <3>5. Content(c)' = SubSeq(Bytes(c)', 1, size'[c]) /\ n <= Len(Bytes(c))
      BY <1>0, <2>1, <2>3, <3>2 DEF Content
    <3> QED
      BY <2>1, <3>2, <3>3, <3>4, <3>5
  <2>4. CASE c # b
    <3>1. c \in made \ emptied /\ size'[c] = size[c] /\ text'[c] = text[c]
      BY <1>4, <2>1, <2>4 DEF BufferInv, BufferTypeOK
    <3> QED
      BY <2>1, <3>1, KeptElsewhere DEF BufferInv, TextsKept, SizesWritten
  <2> QED
    BY <2>2, <2>3, <2>4
<1> QED
  BY <1>1, <1>2, <1>3, <1>4 DEF BufferInv, TextsKept, SizesWritten

-----------------------------------------------------------------------------
(* Moving, into a buffer that has given its block back or never had one.   *)

LEMMA TakeFromKeeps ==
  ASSUME BufferInv, NEW b \in Buffers, NEW other \in made \ emptied, b # other, TakeFrom(b, other),
         made' = made \cup {b}, heap' \in [Blocks -> Block],
         \A c \in made \ {b} : data[c] # Inline => heap'[data[c]] = heap[data[c]],
         \A k \in Blocks : heap'[k].size > 0 => \E c \in made \ {b} : data[c] = k
  PROVE  BufferInv'
<1> DEFINE inline == data[other] = Inline
<1>0. /\ other \in Buffers /\ data[other] \in Blocks \cup {Inline} /\ capacity[other] \in Nat
      /\ Content(other) = text[other] /\ text[other] \in Seq(STRING) /\ Len(text[other]) = size[other]
  BY TextSize DEF BufferInv, BufferTypeOK
<1>1. size' = [size EXCEPT ![b] = size[other]] /\ text' = [text EXCEPT ![b] = text[other]]
  BY DEF TakeFrom
<1>2. ASSUME inline
      PROVE  /\ data' = [data EXCEPT ![b] = Inline] /\ capacity' = [capacity EXCEPT ![b] = capacity[other]]
             /\ stored' = [stored EXCEPT ![b] = text[other]] /\ emptied' = emptied \ {b}
  BY <1>0, <1>2 DEF TakeFrom
<1>3. ASSUME ~inline
      PROVE  /\ data' = [data EXCEPT ![b] = data[other], ![other] = Inline]
             /\ capacity' = [capacity EXCEPT ![b] = capacity[other], ![other] = 0]
             /\ stored' = stored /\ emptied' = (emptied \ {b}) \cup {other}
  BY <1>3 DEF TakeFrom
<1>4. BufferTypeOK'
  <2>1. CASE inline
    BY <1>0, <1>1, <1>2, <2>1 DEF BufferInv, BufferTypeOK
  <2>2. CASE ~inline
    <3>1. data' \in [Buffers -> Blocks \cup {Inline}] /\ capacity' \in [Buffers -> Nat]
      <4> DEFINE D == [data EXCEPT ![b] = data[other]]
                 C == [capacity EXCEPT ![b] = capacity[other]]
      <4>1. D \in [Buffers -> Blocks \cup {Inline}] /\ C \in [Buffers -> Nat]
        BY <1>0 DEF BufferInv, BufferTypeOK
      <4>2. data' = [D EXCEPT ![other] = Inline] /\ capacity' = [C EXCEPT ![other] = 0]
        BY <1>3, <2>2
      <4> HIDE DEF D, C
      <4> QED
        BY <4>1, <4>2
    <3>2. size' \in [Buffers -> Nat] /\ text' \in [Buffers -> Seq(STRING)]
      BY <1>0, <1>1 DEF BufferInv, BufferTypeOK
    <3>3. made' \subseteq Buffers /\ emptied' \subseteq Buffers /\ stored' \in [Buffers -> Seq(STRING)]
      BY <1>0, <1>3, <2>2 DEF BufferInv, BufferTypeOK
    <3> QED
      BY <3>1, <3>2, <3>3 DEF BufferTypeOK
  <2> QED
    BY <2>1, <2>2
<1>5. BlocksOwned'
  <2>1. CASE inline
    <3>1. \A c \in made' : data'[c] # Inline => c \in made \ {b} /\ data'[c] = data[c] /\ capacity'[c] = capacity[c]
      BY <1>2, <2>1 DEF BufferInv, BufferTypeOK
    <3>2. ASSUME NEW k \in Blocks, heap'[k].size > 0 PROVE \E c \in made' : data'[c] = k
      BY <1>2, <2>1, <3>2 DEF BufferInv, BufferTypeOK
    <3> QED
      BY <3>1, <3>2 DEF BufferInv, BlocksOwned
  <2>2. CASE ~inline
    <3>1. data'[b] = data[other] /\ capacity'[b] = capacity[other] /\ data'[other] = Inline
      BY <1>0, <1>3, <2>2 DEF BufferInv, BufferTypeOK
    <3>2. \A c \in made' : data'[c] # Inline /\ c # b =>
             c \in made \ {b, other} /\ data'[c] = data[c] /\ capacity'[c] = capacity[c]
      BY <1>3, <2>2, <3>1 DEF BufferInv, BufferTypeOK
    <3>3. ASSUME NEW c \in made', data'[c] # Inline
          PROVE  capacity'[c] > 0 /\ heap'[data'[c]].size = capacity'[c]
      BY <2>2, <3>1, <3>2, <3>3 DEF BufferInv, BlocksOwned
    <3>4. ASSUME NEW c \in made', NEW d \in made', data'[c] = data'[d], data'[c] # Inline PROVE c = d
      BY <2>2, <3>1, <3>2, <3>4 DEF BufferInv, BlocksOwned
    <3>5. ASSUME NEW k \in Blocks, heap'[k].size > 0 PROVE \E c \in made' : data'[c] = k
      <4>1. PICK c \in made \ {b} : data[c] = k
        BY <3>5
      <4>2. CASE c = other
        BY <3>1, <4>1, <4>2
      <4>3. CASE c # other
        BY <1>3, <2>2, <4>1, <4>3 DEF BufferInv, BufferTypeOK
      <4> QED
        BY <4>2, <4>3
    <3> QED
      BY <3>3, <3>4, <3>5 DEF BlocksOwned
  <2> QED
    BY <2>1, <2>2
<1>6. TextsFit'
  <2>1. CASE inline
    BY <1>0, <1>1, <1>2, <2>1 DEF BufferInv, BufferTypeOK, TextsFit
  <2>2. CASE ~inline
    <3>1. ASSUME NEW c \in made', c = b PROVE c \notin emptied' => size'[c] <= capacity'[c]
      BY <1>0, <1>1, <1>3, <2>2, <3>1 DEF BufferInv, BufferTypeOK, TextsFit
    <3>2. data'[b] # Inline
      BY <1>0, <1>3, <2>2 DEF BufferInv, BufferTypeOK
    <3>3. other \in emptied' /\ capacity'[other] = 0 /\ 0 <= InlineSize
      BY <1>0, <1>3, <2>2, BufferAssumption DEF BufferInv, BufferTypeOK
    <3>4. ASSUME NEW c \in made', c # b, c # other
          PROVE  /\ c \notin emptied' => size'[c] <= capacity'[c]
                 /\ data'[c] = Inline => capacity'[c] <= InlineSize
      <4>1. /\ c \in made /\ size'[c] = size[c] /\ capacity'[c] = capacity[c] /\ data'[c] = data[c]
            /\ (c \notin emptied' => c \notin emptied)
        BY <1>1, <1>3, <2>2, <3>4 DEF BufferInv, BufferTypeOK
      <4> QED
        BY <4>1 DEF BufferInv, TextsFit
    <3> QED
      BY <3>1, <3>2, <3>3, <3>4 DEF TextsFit
  <2> QED
    BY <2>1, <2>2
<1>7. Content(b)' = text'[b] /\ size'[b] <= Len(Bytes(b)')
  <2>0. size'[b] = size[other] /\ text'[b] = text[other] /\ Content(b)' = SubSeq(Bytes(b)', 1, size'[b])
    BY <1>1 DEF Content, BufferInv, BufferTypeOK
  <2>1. CASE inline
    <3>1. Bytes(b)' = text[other]
      BY <1>2, <2>1 DEF Bytes, BufferInv, BufferTypeOK
    <3>2. SubSeq(text[other], 1, Len(text[other])) = text[other]
      BY <1>0, WholeIsPrefix
    <3> QED
      BY <1>0, <2>0, <3>1, <3>2 DEF BufferInv, BufferTypeOK
  <2>2. CASE ~inline
    <3>1. Bytes(b)' = Bytes(other)
      BY <1>0, <1>3, <2>2 DEF Bytes, BufferInv, BufferTypeOK
    <3>2. size[other] <= Len(Bytes(other)) /\ SubSeq(Bytes(other), 1, size[other]) = text[other]
      BY <1>0 DEF BufferInv, SizesWritten, Content
    <3> QED
      BY <2>0, <3>1, <3>2
  <2> QED
    BY <2>1, <2>2
<1>8. ASSUME NEW c \in made' \ emptied', c # b PROVE Content(c)' = text'[c] /\ size'[c] <= Len(Bytes(c)')
  <2>1. c \in made \ emptied /\ c \in made \ {b} /\ c \in Buffers /\ (~inline => c # other)
    BY <1>2, <1>3, <1>8 DEF BufferInv, BufferTypeOK
  <2>2. data'[c] = data[c] /\ stored'[c] = stored[c]
    BY <1>2, <1>3, <1>8, <2>1 DEF BufferInv, BufferTypeOK
  <2>3. Bytes(c)' = Bytes(c)
    BY <2>1, <2>2, BytesElsewhere
  <2>4. size'[c] = size[c] /\ text'[c] = text[c]
    BY <1>1, <1>8, <2>1 DEF BufferInv, BufferTypeOK
  <2> QED
    BY <2>1, <2>3, <2>4, KeptElsewhere DEF BufferInv, TextsKept, SizesWritten
<1> QED
  BY <1>4, <1>5, <1>6, <1>7, <1>8 DEF BufferInv, TextsKept, SizesWritten

LEMMA MoveAssignKeeps ==
  ASSUME BufferInv, NEW b \in Buffers, NEW other \in Buffers, MoveAssign(b, other)
  PROVE  BufferInv'
<1>1. /\ b \in made /\ other \in made \ emptied /\ b # other /\ TakeFrom(b, other)
      /\ heap' = Without(heap, b) /\ made' = made \cup {b}
  BY DEF MoveAssign
<1>2. heap' \in [Blocks -> Block]
  BY <1>1, FreedType
<1>3. \A c \in made \ {b} : data[c] # Inline => heap'[data[c]] = heap[data[c]]
  BY <1>1, FreedElsewhere
<1>4. \A k \in Blocks : heap'[k].size > 0 => \E c \in made \ {b} : data[c] = k
  BY <1>1, FreedOwned
<1> QED
  BY <1>1, <1>2, <1>3, <1>4, TakeFromKeeps

LEMMA MoveConstructKeeps ==
  ASSUME BufferInv, NEW b \in Buffers, NEW other \in Buffers, MoveConstruct(b, other)
  PROVE  BufferInv'
<1>1. /\ b \notin made /\ other \in made \ emptied /\ b # other /\ TakeFrom(b, other)
      /\ heap' = heap /\ made' = made \cup {b}
  BY DEF MoveConstruct
<1>2. heap' \in [Blocks -> Block] /\ \A c \in made \ {b} : data[c] # Inline => heap'[data[c]] = heap[data[c]]
  BY <1>1 DEF BufferInv, BufferTypeOK
<1>3. \A k \in Blocks : heap'[k].size > 0 => \E c \in made \ {b} : data[c] = k
  BY <1>1 DEF BufferInv, BlocksOwned
<1> QED
  BY <1>1, <1>2, <1>3, TakeFromKeeps

-----------------------------------------------------------------------------

LEMMA BufferInvNext == BufferInv /\ [BufferNext]_bufferVars => BufferInv'
<1> SUFFICES ASSUME BufferInv, [BufferNext]_bufferVars PROVE BufferInv'
  OBVIOUS
<1>1. CASE UNCHANGED bufferVars
  BY <1>1 DEF bufferVars, BufferInv, BufferTypeOK, BlocksOwned, TextsFit, TextsKept, SizesWritten, Content, Bytes
<1>2. ASSUME NEW b \in Buffers, Construct(b) PROVE BufferInv'
  BY <1>2, ConstructKeeps
<1>3. ASSUME NEW b \in Buffers, Destroy(b) PROVE BufferInv'
  BY <1>3, DestroyKeeps
<1>4. ASSUME NEW b \in Buffers, NEW chunk \in Texts, Append_(b, chunk) PROVE BufferInv'
  BY <1>4, AppendKeeps
<1>5. ASSUME NEW b \in Buffers, NEW chunk \in Texts, NEW block \in Blocks, Grow(b, chunk, block)
      PROVE  BufferInv'
  BY <1>5, GrowKeeps
<1>6. ASSUME NEW b \in Buffers, NEW n \in 0 .. MaxText, Shrink(b, n) PROVE BufferInv'
  BY <1>6, ShrinkKeeps
<1>7. ASSUME NEW b \in Buffers, NEW other \in Buffers, MoveAssign(b, other) PROVE BufferInv'
  BY <1>7, MoveAssignKeeps
<1>8. ASSUME NEW b \in Buffers, NEW other \in Buffers, MoveConstruct(b, other) PROVE BufferInv'
  BY <1>8, MoveConstructKeeps
<1> QED
  BY <1>1, <1>2, <1>3, <1>4, <1>5, <1>6, <1>7, <1>8 DEF BufferNext

LEMMA BufferInvariant == BufferSpec => []BufferInv
BY BufferInvNext, BufferInitHolds, PTL DEF BufferSpec

\* No block leaks, is freed twice or is used by two buffers or after it was freed, and
\* every buffer holds what was appended to it, within its capacity (basic_memory_buffer).
THEOREM BuffersAreSound == BufferSpec => []BuffersSound
<1>1. BufferInv => BuffersSound
  BY DEF BufferInv, BuffersSound
<1> QED
  BY <1>1, BufferInvariant, PTL

-----------------------------------------------------------------------------
(* Compiling a pattern.                                                    *)

Sides == {"left", "right", "center"}
ItemFlags == (KnownFlags \ {"%"}) \cup {"chars"}
AnyChar == STRING \cup {"%", "+", "-", "="} \cup KnownFlags \cup ToSet(DigitChars)
ItemSet == [flag : ItemFlags, side : Sides, width : Nat, text : Seq(AnyChar)]
ScanSet ==
  [items : Seq(ItemSet), text : Seq(AnyChar), at : {"text", "side", "width", "digits"}, side : Sides, width : Nat]

LEMMA DigitsAreNumbers ==
  ASSUME NEW c, IsDigit(c)
  PROVE  DigitValue(c) \in 0 .. 9
<1>1. PICK k \in DOMAIN DigitChars : c = DigitChars[k]
  BY DEF IsDigit, ToSet
<1>2. k \in 1 .. 10
  BY <1>1 DEF DigitChars
<1>3. k - 1 \in 0 .. 9 /\ DigitChars[(k - 1) + 1] = c
  BY <1>1, <1>2
<1> QED
  BY <1>3 DEF DigitValue

LEMMA SidesAreNoDigits ==
  ASSUME NEW c \in {"-", "="}
  PROVE  ~ IsDigit(c)
<1>1. \A k \in 1 .. 10 : DigitChars[k] # c
  BY DEF DigitChars
<1>2. DOMAIN DigitChars = 1 .. 10
  BY DEF DigitChars
<1> QED
  BY <1>1, <1>2 DEF IsDigit, ToSet

LEMMA CharsItem ==
  ASSUME NEW t \in Seq(AnyChar)
  PROVE  Chars(t) \in ItemSet
BY DEF Chars, Item, ItemSet, ItemFlags, Sides

LEMMA FlagItem ==
  ASSUME NEW c \in AnyChar, NEW side \in Sides, NEW width \in Nat
  PROVE  HandleFlag(c, side, width) \in ItemSet
<1>0. "%" \in AnyChar
  BY DEF AnyChar
<1>1. CASE c = "%"
  <2>1. <<"%">> \in Seq(AnyChar)
    BY <1>0
  <2> QED
    BY <1>1, <2>1, CharsItem DEF HandleFlag
<1>2. CASE c # "%" /\ c \in KnownFlags
  <2>1. << >> \in Seq(AnyChar) /\ c \in ItemFlags
    BY <1>2 DEF ItemFlags
  <2>2. HandleFlag(c, side, width) = [flag |-> c, side |-> side, width |-> width, text |-> << >>]
    BY <1>2 DEF HandleFlag, Item
  <2> QED
    BY <2>1, <2>2 DEF ItemSet
<1>3. CASE c # "%" /\ c \notin KnownFlags
  <2>1. <<"%", c>> \in Seq(AnyChar)
    BY <1>0
  <2> QED
    BY <1>3, <2>1, CharsItem DEF HandleFlag
<1> QED
  BY <1>1, <1>2, <1>3

LEMMA StartIsAScan == ScanStart \in ScanSet
BY DEF ScanStart, ScanSet, Sides

LEMMA PushedItems ==
  ASSUME NEW scan \in ScanSet
  PROVE  PushText(scan) \in Seq(ItemSet)
<1>1. scan.items \in Seq(ItemSet) /\ scan.text \in Seq(AnyChar)
  BY DEF ScanSet
<1>2. Append(scan.items, Chars(scan.text)) \in Seq(ItemSet)
  BY <1>1, CharsItem, AppendProperties
<1> QED
  BY <1>1, <1>2 DEF PushText

LEMMA EndedFlag ==
  ASSUME NEW scan \in ScanSet, NEW c \in AnyChar
  PROVE  EndFlag(scan, c) \in ScanSet
<1> DEFINE w == IF scan.width < MaxWidth THEN scan.width ELSE MaxWidth
           items == Append(scan.items, HandleFlag(c, scan.side, w))
<1>1. w \in Nat /\ scan.side \in Sides /\ scan.items \in Seq(ItemSet)
  BY DEF ScanSet, MaxWidth
<1>2. items \in Seq(ItemSet)
  BY <1>1, FlagItem, AppendProperties
<1>3. EndFlag(scan, c) = [ScanStart EXCEPT !.items = items]
  BY DEF EndFlag
<1> HIDE DEF items, w
<1> QED
  BY <1>2, <1>3, StartIsAScan DEF ScanSet

LEMMA CharScanned ==
  ASSUME NEW scan \in ScanSet, NEW c \in AnyChar
  PROVE  ScanChar(scan, c) \in ScanSet
<1>1. CASE scan.at = "text" /\ c = "%"
  <2>1. ScanChar(scan, c) = [ScanStart EXCEPT !.items = PushText(scan), !.at = "side"]
    BY <1>1 DEF ScanChar
  <2> QED
    BY <2>1, StartIsAScan, PushedItems DEF ScanSet
<1>2. CASE scan.at = "text" /\ c # "%"
  <2>1. ScanChar(scan, c) = [scan EXCEPT !.text = Append(scan.text, c)]
    BY <1>2 DEF ScanChar
  <2>2. Append(scan.text, c) \in Seq(AnyChar)
    BY AppendProperties DEF ScanSet
  <2> QED
    BY <2>1, <2>2 DEF ScanSet
<1>3. CASE scan.at = "side" /\ c \in {"-", "="}
  <2>0. (IF c = "-" THEN "right" ELSE "center") \in Sides
    BY DEF Sides
  <2>1. ScanChar(scan, c) = [scan EXCEPT !.at = "width", !.side = IF c = "-" THEN "right" ELSE "center"]
    BY <1>3, SidesAreNoDigits DEF ScanChar
  <2> QED
    BY <2>0, <2>1 DEF ScanSet
<1>4. CASE scan.at \in {"side", "width", "digits"} /\ IsDigit(c)
  <2> DEFINE w == (scan.width * 10 + DigitValue(c)) % SizeLimit
  <2>1. w \in Nat
    <3>1. scan.width \in Nat /\ DigitValue(c) \in Nat /\ SizeLimit \in Nat /\ SizeLimit > 0
      BY <1>4, DigitsAreNumbers, PatternAssumption DEF ScanSet
    <3> HIDE DEF IsDigit, DigitValue
    <3> QED
      BY <3>1
  <2>2. CASE scan.at = "side" /\ c \in {"-", "="}
    BY <1>3, <2>2
  <2>3. CASE ~ (scan.at = "side" /\ c \in {"-", "="})
    <3>1. ScanChar(scan, c) = [scan EXCEPT !.at = "digits", !.width = w]
      BY <1>4, <2>3 DEF ScanChar
    <3> HIDE DEF w
    <3> QED
      BY <2>1, <3>1 DEF ScanSet
  <2> QED
    BY <2>2, <2>3
<1>5. CASE ~ (scan.at = "text") /\ ~ (scan.at = "side" /\ c \in {"-", "="})
           /\ ~ (scan.at \in {"side", "width", "digits"} /\ IsDigit(c))
  <2>1. ScanChar(scan, c) = EndFlag(scan, c)
    BY <1>5 DEF ScanChar
  <2> QED
    BY <2>1, EndedFlag
<1> QED
  BY <1>1, <1>2, <1>3, <1>4, <1>5

\* f has the scans of the first n characters of a pattern, from the scan first.
ScansUpTo(f, first, pattern, n) ==
  f = [k \in 0 .. n |-> IF k = 0 THEN first ELSE ScanChar(f[k - 1], pattern[k])]

LEMMA ScansExist ==
  ASSUME NEW first, NEW pattern, NEW n \in Nat
  PROVE  \E f : ScansUpTo(f, first, pattern, n)
<1> DEFINE S == {m \in Nat : \E f : ScansUpTo(f, first, pattern, m)}
<1>1. 0 \in S
  <2>1. ScansUpTo([k \in 0 .. 0 |-> first], first, pattern, 0)
    BY DEF ScansUpTo
  <2> QED
    BY <2>1
<1>2. ASSUME NEW m \in S
      PROVE  m + 1 \in S
  <2>1. PICK f : ScansUpTo(f, first, pattern, m)
    BY <1>2
  <2> DEFINE g == [k \in 0 .. m + 1 |-> IF k = m + 1 THEN ScanChar(f[m], pattern[k]) ELSE f[k]]
  <2>2. ASSUME NEW k \in 0 .. m + 1
        PROVE  g[k] = IF k = 0 THEN first ELSE ScanChar(g[k - 1], pattern[k])
    <3>1. CASE k = m + 1
      <4>1. k # 0 /\ k - 1 = m /\ m \in 0 .. m + 1 /\ m # m + 1
        BY <3>1
      <4> QED
        BY <3>1, <4>1
    <3>2. CASE k # m + 1 /\ k # 0
      <4>1. k \in 0 .. m /\ k - 1 \in 0 .. m + 1 /\ k - 1 # m + 1
        BY <3>2
      <4> QED
        BY <2>1, <3>2, <4>1 DEF ScansUpTo
    <3>3. CASE k = 0
      <4>1. 0 \in 0 .. m /\ 0 # m + 1
        OBVIOUS
      <4> QED
        BY <2>1, <3>3, <4>1 DEF ScansUpTo
    <3> QED
      BY <3>1, <3>2, <3>3
  <2>3. ScansUpTo(g, first, pattern, m + 1)
    BY <2>2 DEF ScansUpTo
  <2> QED
    BY <2>3
<1> HIDE DEF S
<1>3. S = Nat
  <2>1. S \in SUBSET Nat
    BY DEF S
  <2> QED
    BY <1>1, <1>2, <2>1, SetInduction
<1> QED
  BY <1>3 DEF S

LEMMA ScansAre ==
  ASSUME NEW pattern, Len(pattern) \in Nat
  PROVE  ScansUpTo(Scans(pattern), ScanStart, pattern, Len(pattern))
<1>1. \E f : ScansUpTo(f, ScanStart, pattern, Len(pattern))
  BY ScansExist
<1>2. Scans(pattern) = CHOOSE f : ScansUpTo(f, ScanStart, pattern, Len(pattern))
  BY DEF Scans, ScansUpTo
<1> QED
  BY <1>1, <1>2

LEMMA ScansAreScans ==
  ASSUME NEW pattern \in Seq(AnyChar), NEW n \in 0 .. Len(pattern), NEW first \in ScanSet,
         NEW f, ScansUpTo(f, first, pattern, n)
  PROVE  \A k \in 0 .. n : f[k] \in ScanSet
<1> DEFINE S == {k \in Nat : k <= n => f[k] \in ScanSet}
<1>0. Len(pattern) \in Nat /\ n \in Nat
  BY LenProperties
<1>1. 0 \in S
  BY <1>0 DEF ScansUpTo
<1>2. ASSUME NEW k \in S
      PROVE  k + 1 \in S
  <2> SUFFICES ASSUME k + 1 <= n
               PROVE  f[k + 1] \in ScanSet
    OBVIOUS
  <2>1. k + 1 \in 0 .. n /\ k + 1 # 0 /\ (k + 1) - 1 = k /\ k + 1 \in 1 .. Len(pattern) /\ k <= n
    BY <1>0
  <2>2. f[k + 1] = ScanChar(f[k], pattern[k + 1])
    BY <2>1 DEF ScansUpTo
  <2>3. pattern[k + 1] \in AnyChar /\ f[k] \in ScanSet
    BY <1>2, <2>1, ElementOfSeq
  <2> QED
    BY <2>2, <2>3, CharScanned
<1> HIDE DEF S
<1>3. S = Nat
  <2>1. S \in SUBSET Nat
    BY DEF S
  <2> QED
    BY <1>1, <1>2, <2>1, SetInduction
<1> QED
  BY <1>0, <1>3 DEF S

\* Whatever a pattern is, it compiles to a sequence of items of known flags.
LEMMA CompiledItems ==
  ASSUME NEW pattern \in Seq(AnyChar)
  PROVE  Compile(pattern) \in Seq(ItemSet)
<1> DEFINE n == Len(pattern)
           scan == Scans(pattern)[n]
<1>1. n \in Nat /\ n \in 0 .. n
  BY LenProperties
<1>2. scan \in ScanSet
  BY <1>1, ScansAre, ScansAreScans, StartIsAScan
<1>3. scan.items \in Seq(ItemSet) /\ PushText(scan) \in Seq(ItemSet)
  BY <1>2, PushedItems DEF ScanSet
<1> HIDE DEF scan
<1>4. Compile(pattern) = IF scan.at = "text" THEN PushText(scan) ELSE scan.items
  BY DEF Compile, scan
<1> QED
  BY <1>3, <1>4

-----------------------------------------------------------------------------
(* Sequences put together.                                                 *)

LEMMA Two ==
  ASSUME NEW T, NEW c \in T, NEW d \in T
  PROVE  <<c>> \o <<d>> = <<c, d>>
<1> DEFINE p == <<c>> \o <<d>>
           q == <<c, d>>
<1>1. <<c>> \in Seq(T) /\ <<d>> \in Seq(T) /\ Len(<<c>>) = 1 /\ Len(<<d>>) = 1
  OBVIOUS
<1>2. p \in Seq(T) /\ Len(p) = 2 /\ p[1] = c /\ p[2] = d
  BY <1>1, ConcatProperties
<1>3. Len(q) = 2 /\ q[1] = c /\ q[2] = d /\ q \in Seq(T)
  OBVIOUS
<1> HIDE DEF p, q
<1>4. \A k \in 1 .. 2 : k = 1 \/ k = 2
  OBVIOUS
<1>5. \A k \in 1 .. Len(p) : p[k] = q[k]
  BY <1>2, <1>3, <1>4
<1>6. p = q
  BY <1>2, <1>3, <1>5, SeqEqual
<1> QED
  BY <1>6 DEF p, q

\* f has what the first 1, 2, ... up to n sequences of ss are together.
FlatUpTo(f, ss, n) == f = [i \in 1 .. n |-> IF i = 1 THEN ss[i] ELSE f[i - 1] \o ss[i]]

LEMMA FlatExists ==
  ASSUME NEW ss, NEW n \in Nat
  PROVE  \E f : FlatUpTo(f, ss, n)
<1> DEFINE S == {m \in Nat : \E f : FlatUpTo(f, ss, m)}
<1>1. 0 \in S
  <2> DEFINE g == [i \in 1 .. 0 |-> ss[i]]
  <2>1. g = [i \in 1 .. 0 |-> IF i = 1 THEN ss[i] ELSE g[i - 1] \o ss[i]]
    OBVIOUS
  <2>2. FlatUpTo(g, ss, 0)
    BY <2>1 DEF FlatUpTo
  <2> QED
    BY <2>2
<1>2. ASSUME NEW m \in S
      PROVE  m + 1 \in S
  <2>1. PICK f : FlatUpTo(f, ss, m)
    BY <1>2
  <2> DEFINE g == [i \in 1 .. m + 1 |-> IF i # m + 1 THEN f[i] ELSE IF i = 1 THEN ss[i] ELSE f[m] \o ss[i]]
  <2>2. ASSUME NEW i \in 1 .. m + 1
        PROVE  g[i] = IF i = 1 THEN ss[i] ELSE g[i - 1] \o ss[i]
    <3>1. CASE i = m + 1 /\ i = 1
      BY <3>1
    <3>2. CASE i = m + 1 /\ i # 1
      <4>1. i - 1 = m /\ m \in 1 .. m + 1 /\ m # m + 1
        BY <3>2
      <4> QED
        BY <3>2, <4>1
    <3>3. CASE i # m + 1
      <4>1. i \in 1 .. m /\ (i # 1 => i - 1 \in 1 .. m + 1 /\ i - 1 # m + 1)
        BY <3>3
      <4>2. f[i] = IF i = 1 THEN ss[i] ELSE f[i - 1] \o ss[i]
        BY <2>1, <4>1 DEF FlatUpTo
      <4> QED
        BY <3>3, <4>1, <4>2
    <3> QED
      BY <3>1, <3>2, <3>3
  <2>3. FlatUpTo(g, ss, m + 1)
    BY <2>2 DEF FlatUpTo
  <2> QED
    BY <2>3
<1> HIDE DEF S
<1>3. S = Nat
  <2>1. S \in SUBSET Nat
    BY DEF S
  <2> QED
    BY <1>1, <1>2, <2>1, SetInduction
<1> QED
  BY <1>3 DEF S

LEMMA FlatAgrees ==
  ASSUME NEW ss, NEW tt, NEW l \in Nat, NEW n \in Nat, l <= n, Agree(ss, tt, l),
         NEW f, NEW g, FlatUpTo(f, ss, l), FlatUpTo(g, tt, n)
  PROVE  \A i \in 1 .. l : f[i] = g[i]
<1> DEFINE S == {i \in Nat : i \in 1 .. l => f[i] = g[i]}
<1>1. 0 \in S
  OBVIOUS
<1>2. ASSUME NEW i \in S
      PROVE  i + 1 \in S
  <2> SUFFICES ASSUME i + 1 <= l
               PROVE  f[i + 1] = g[i + 1]
    OBVIOUS
  <2>1. i + 1 \in 1 .. l /\ i + 1 \in 1 .. n /\ (i + 1) - 1 = i /\ (i + 1 # 1 => i \in 1 .. l)
    OBVIOUS
  <2>2. f[i + 1] = (IF i + 1 = 1 THEN ss[i + 1] ELSE f[i] \o ss[i + 1])
        /\ g[i + 1] = (IF i + 1 = 1 THEN tt[i + 1] ELSE g[i] \o tt[i + 1])
    BY <2>1, ZenonT(60) DEF FlatUpTo
  <2> QED
    BY <1>2, <2>1, <2>2 DEF Agree
<1> HIDE DEF S
<1>3. S = Nat
  <2>1. S \in SUBSET Nat
    BY DEF S
  <2> QED
    BY <1>1, <1>2, <2>1, SetInduction
<1> QED
  BY <1>3 DEF S

LEMMA FlattenIs ==
  ASSUME NEW ss, Len(ss) \in Nat, Len(ss) # 0
  PROVE  \E f : FlatUpTo(f, ss, Len(ss)) /\ FlattenSeq(ss) = f[Len(ss)]
<1> DEFINE f == CHOOSE f : FlatUpTo(f, ss, Len(ss))
<1>1. FlatUpTo(f, ss, Len(ss))
  BY FlatExists
<1>2. FlattenSeq(ss) = f[Len(ss)]
  BY DEF FlattenSeq, FlatUpTo
<1> QED
  BY <1>1, <1>2

\* The first n sequences of ss together.
Flat(ss, n) == FlattenSeq([k \in 1 .. n |-> ss[k]])

LEMMA FlatNothing ==
  ASSUME NEW ss
  PROVE  Flat(ss, 0) = << >>
<1>1. [k \in 1 .. 0 |-> ss[k]] = << >>
  OBVIOUS
<1> QED
  BY <1>1 DEF Flat, FlattenSeq

LEMMA FlatType ==
  ASSUME NEW T, NEW ss, NEW n \in Nat, \A k \in 1 .. n : ss[k] \in Seq(T)
  PROVE  Flat(ss, n) \in Seq(T)
<1>1. CASE n = 0
  BY <1>1, FlatNothing, EmptySeq
<1>2. CASE n # 0
  <2> DEFINE tt == [k \in 1 .. n |-> ss[k]]
  <2>1. Len(tt) = n
    OBVIOUS
  <2> HIDE DEF tt
  <2>2. PICK f : FlatUpTo(f, tt, n) /\ FlattenSeq(tt) = f[n]
    BY <1>2, <2>1, FlattenIs
  <2> DEFINE S == {i \in Nat : i \in 1 .. n => f[i] \in Seq(T)}
  <2>3. 0 \in S
    OBVIOUS
  <2>4. ASSUME NEW i \in S
        PROVE  i + 1 \in S
    <3> SUFFICES ASSUME i + 1 <= n
                 PROVE  f[i + 1] \in Seq(T)
      OBVIOUS
    <3>1. i + 1 \in 1 .. n /\ (i + 1) - 1 = i /\ (i + 1 # 1 => i \in 1 .. n) /\ tt[i + 1] = ss[i + 1]
      BY DEF tt
    <3>2. f[i + 1] = IF i + 1 = 1 THEN tt[i + 1] ELSE f[i] \o tt[i + 1]
      BY <2>2, <3>1 DEF FlatUpTo
    <3> QED
      BY <2>4, <3>1, <3>2, ConcatProperties
  <2> HIDE DEF S
  <2>5. S = Nat
    <3>1. S \in SUBSET Nat
      BY DEF S
    <3> QED
      BY <2>3, <2>4, <3>1, SetInduction
  <2> QED
    BY <1>2, <2>2, <2>5 DEF S, Flat, tt
<1> QED
  BY <1>1, <1>2

LEMMA FlatNext ==
  ASSUME NEW T, NEW ss, NEW n \in Nat, \A k \in 1 .. n + 1 : ss[k] \in Seq(T)
  PROVE  Flat(ss, n + 1) = Flat(ss, n) \o ss[n + 1]
<1> DEFINE m == n + 1
           more == [k \in 1 .. m |-> ss[k]]
           less == [k \in 1 .. n |-> ss[k]]
<1>0. m \in Nat /\ n <= m /\ m # 0 /\ m \in 1 .. m /\ m - 1 = n
  OBVIOUS
<1>1. Len(more) = m /\ Len(less) = n /\ more[m] = ss[m] /\ Agree(less, more, n)
  BY DEF Agree
<1>2. ss[m] \in Seq(T)
  OBVIOUS
<1>3. Flat(ss, n + 1) = FlattenSeq(more) /\ Flat(ss, n) = FlattenSeq(less)
  BY DEF Flat
<1> HIDE DEF m, more, less
<1>4. PICK g : FlatUpTo(g, more, m) /\ FlattenSeq(more) = g[m]
  BY <1>0, <1>1, FlattenIs
<1>5. CASE n = 0
  <2>1. m = 1 /\ g[m] = ss[m]
    BY <1>0, <1>1, <1>4, <1>5 DEF FlatUpTo
  <2>2. << >> \o ss[m] = ss[m]
    BY <1>2, ConcatEmptySeq
  <2> QED
    BY <1>3, <1>4, <1>5, <2>1, <2>2, FlatNothing DEF m
<1>6. CASE n # 0
  <2>1. PICK f : FlatUpTo(f, less, n) /\ FlattenSeq(less) = f[n]
    BY <1>1, <1>6, FlattenIs
  <2>2. n \in 1 .. n /\ m # 1
    BY <1>0, <1>6
  <2>3. f[n] = g[n]
    BY <1>0, <1>1, <1>4, <2>1, <2>2, FlatAgrees
  <2>4. g[m] = g[n] \o more[m]
    BY <1>0, <1>4, <2>2 DEF FlatUpTo
  <2> QED
    BY <1>1, <1>3, <1>4, <2>1, <2>3, <2>4 DEF m
<1> QED
  BY <1>5, <1>6

-----------------------------------------------------------------------------
(* Reading a pattern that is written.                                      *)

\* What a scan becomes by a text.
ScanText(first, t) == (CHOOSE f : ScansUpTo(f, first, t, Len(t)))[Len(t)]

LEMMA ScansAgree ==
  ASSUME NEW first, NEW s, NEW t, NEW l \in Nat, NEW n \in Nat, l <= n, Agree(s, t, l),
         NEW f, NEW g, ScansUpTo(f, first, s, l), ScansUpTo(g, first, t, n)
  PROVE  \A k \in 0 .. l : f[k] = g[k]
<1> DEFINE S == {k \in Nat : k <= l => f[k] = g[k]}
<1>1. 0 \in S
  BY DEF ScansUpTo
<1>2. ASSUME NEW k \in S
      PROVE  k + 1 \in S
  <2> SUFFICES ASSUME k + 1 <= l
               PROVE  f[k + 1] = g[k + 1]
    OBVIOUS
  <2>1. k + 1 \in 0 .. l /\ k + 1 \in 0 .. n /\ k + 1 # 0 /\ (k + 1) - 1 = k /\ k + 1 \in 1 .. l
    OBVIOUS
  <2>2. f[k + 1] = ScanChar(f[k], s[k + 1]) /\ g[k + 1] = ScanChar(g[k], t[k + 1])
    BY <2>1 DEF ScansUpTo
  <2> QED
    BY <1>2, <2>1, <2>2 DEF Agree
<1> HIDE DEF S
<1>3. S = Nat
  <2>1. S \in SUBSET Nat
    BY DEF S
  <2> QED
    BY <1>1, <1>2, <2>1, SetInduction
<1> QED
  BY <1>3 DEF S

LEMMA ScanTextIs ==
  ASSUME NEW first, NEW t, Len(t) \in Nat
  PROVE  \E f : ScansUpTo(f, first, t, Len(t)) /\ ScanText(first, t) = f[Len(t)]
<1> DEFINE f == CHOOSE f : ScansUpTo(f, first, t, Len(t))
<1>1. ScansUpTo(f, first, t, Len(t))
  BY ScansExist
<1> QED
  BY <1>1 DEF ScanText

LEMMA NothingRead ==
  ASSUME NEW first
  PROVE  ScanText(first, << >>) = first
<1>1. Len(<< >>) = 0
  OBVIOUS
<1>2. PICK f : ScansUpTo(f, first, << >>, 0) /\ ScanText(first, << >>) = f[0]
  BY <1>1, ScanTextIs
<1> QED
  BY <1>2 DEF ScansUpTo

LEMMA CharRead ==
  ASSUME NEW first, NEW T, NEW t \in Seq(T), NEW c \in T
  PROVE  ScanText(first, Append(t, c)) = ScanChar(ScanText(first, t), c)
<1> DEFINE n == Len(t)
           more == Append(t, c)
           m == n + 1
<1>1. n \in Nat /\ m \in Nat /\ n <= m /\ m # 0 /\ m - 1 = n /\ m \in 0 .. m /\ n \in 0 .. n
  BY LenProperties
<1>2. Len(more) = m /\ more[m] = c /\ Agree(t, more, n)
  BY AppendProperties DEF Agree
<1> HIDE DEF n, m, more
<1>3. PICK f : ScansUpTo(f, first, t, n) /\ ScanText(first, t) = f[n]
  BY <1>1, ScanTextIs DEF n
<1>4. PICK g : ScansUpTo(g, first, more, m) /\ ScanText(first, more) = g[m]
  BY <1>1, <1>2, ScanTextIs
<1>5. f[n] = g[n]
  BY <1>1, <1>2, <1>3, <1>4, ScansAgree
<1>6. g[m] = ScanChar(g[n], more[m])
  BY <1>1, <1>4 DEF ScansUpTo
<1> QED
  BY <1>2, <1>3, <1>4, <1>5, <1>6 DEF more

LEMMA OneCharRead ==
  ASSUME NEW first, NEW c
  PROVE  ScanText(first, <<c>>) = ScanChar(first, c)
<1> DEFINE t == << >>
<1>1. t \in Seq({c}) /\ c \in {c} /\ Append(t, c) = <<c>>
  OBVIOUS
<1>2. ScanText(first, t) = first
  BY NothingRead
<1> HIDE DEF t
<1>3. ScanText(first, Append(t, c)) = ScanChar(ScanText(first, t), c)
  BY <1>1, CharRead, ZenonT(60)
<1> QED
  BY <1>1, <1>2, <1>3

\* A text and another are read one after the other.
LEMMA TextsRead ==
  ASSUME NEW first, NEW T, NEW s \in Seq(T), NEW t \in Seq(T)
  PROVE  ScanText(first, s \o t) = ScanText(ScanText(first, s), t)
<1> DEFINE upTo(k) == SubSeq(t, 1, k)
           read(k) == ScanText(first, s \o upTo(k)) = ScanText(ScanText(first, s), upTo(k))
           S == {k \in Nat : k <= Len(t) => read(k)}
<1>0. Len(t) \in Nat
  BY LenProperties
<1>1. 0 \in S
  <2>1. upTo(0) = << >> /\ s \o << >> = s
    BY ConcatEmptySeq
  <2> QED
    BY <2>1, NothingRead
<1>2. ASSUME NEW k \in S
      PROVE  k + 1 \in S
  <2> SUFFICES ASSUME k + 1 <= Len(t)
               PROVE  read(k + 1)
    OBVIOUS
  <2> DEFINE c == t[k + 1]
             v == upTo(k)
  <2>1. c \in T /\ v \in Seq(T) /\ upTo(k + 1) = Append(v, c)
    BY <1>0, ElementOfSeq
  <2> DEFINE w == s \o v
  <2>2. w \in Seq(T) /\ s \o Append(v, c) = Append(w, c)
    <3> HIDE DEF v, c
    <3> QED
      BY <2>1
  <2>3. ScanText(first, w) = ScanText(ScanText(first, s), v)
    BY <1>2
  <2> HIDE DEF v, c, w
  <2>4. ScanText(first, Append(w, c)) = ScanChar(ScanText(first, w), c)
    BY <2>1, <2>2, CharRead
  <2>5. ScanText(ScanText(first, s), Append(v, c)) = ScanChar(ScanText(ScanText(first, s), v), c)
    BY <2>1, CharRead
  <2> QED
    BY <2>1, <2>2, <2>3, <2>4, <2>5
<1> HIDE DEF S
<1>3. S = Nat
  <2>1. S \in SUBSET Nat
    BY DEF S
  <2> QED
    BY <1>1, <1>2, <2>1, SetInduction
<1>4. read(Len(t))
  <2>1. Len(t) \in S
    BY <1>0, <1>3
  <2> HIDE DEF read
  <2> QED
    BY <1>0, <2>1 DEF S
<1>5. upTo(Len(t)) = t
  BY <1>0
<1> QED
  BY <1>4, <1>5

LEMMA CompileReads ==
  ASSUME NEW pattern, Len(pattern) \in Nat
  PROVE  LET scan == ScanText(ScanStart, pattern)
         IN  Compile(pattern) = IF scan.at = "text" THEN PushText(scan) ELSE scan.items
<1>1. PICK f : ScansUpTo(f, ScanStart, pattern, Len(pattern)) /\ ScanText(ScanStart, pattern) = f[Len(pattern)]
  BY ScanTextIs
<1>2. ScansUpTo(Scans(pattern), ScanStart, pattern, Len(pattern))
  BY ScansAre
<1>3. Agree(pattern, pattern, Len(pattern)) /\ Len(pattern) \in 0 .. Len(pattern)
  BY DEF Agree
<1>4. f[Len(pattern)] = Scans(pattern)[Len(pattern)]
  BY <1>1, <1>2, <1>3, ScansAgree
<1> QED
  BY <1>1, <1>4 DEF Compile

-----------------------------------------------------------------------------
(* Numbers as one writes them.                                             *)

\* f has the digits of 0 .. n.
DigitsUpTo(f, n) ==
  f = [k \in 0 .. n |-> IF k < 10 THEN <<DigitChars[k + 1]>> ELSE Append(f[k \div 10], DigitChars[(k % 10) + 1])]

LEMMA DigitsExist ==
  ASSUME NEW n \in Nat
  PROVE  \E f : DigitsUpTo(f, n)
<1> DEFINE S == {m \in Nat : \E f : DigitsUpTo(f, m)}
           add(s, k) == Append(s, DigitChars[(k % 10) + 1])
<1>1. 0 \in S
  <2> DEFINE g == [k \in 0 .. 0 |-> <<DigitChars[k + 1]>>]
  <2>1. g = [k \in 0 .. 0 |-> IF k < 10 THEN <<DigitChars[k + 1]>> ELSE add(g[k \div 10], k)]
    OBVIOUS
  <2>2. DigitsUpTo(g, 0)
    BY <2>1 DEF DigitsUpTo
  <2> QED
    BY <2>2
<1>2. ASSUME NEW m \in S
      PROVE  m + 1 \in S
  <2>1. PICK f : DigitsUpTo(f, m)
    BY <1>2
  <2>2. f = [k \in 0 .. m |-> IF k < 10 THEN <<DigitChars[k + 1]>> ELSE add(f[k \div 10], k)]
    BY <2>1 DEF DigitsUpTo
  <2> HIDE DEF add
  <2> DEFINE g == [k \in 0 .. m + 1 |->
                     IF k # m + 1 THEN f[k] ELSE IF k < 10 THEN <<DigitChars[k + 1]>> ELSE add(f[k \div 10], k)]
  <2>3. ASSUME NEW k \in 0 .. m + 1
        PROVE  g[k] = IF k < 10 THEN <<DigitChars[k + 1]>> ELSE add(g[k \div 10], k)
    <3>1. k >= 10 => k \div 10 \in 0 .. m /\ k \div 10 \in 0 .. m + 1 /\ k \div 10 # m + 1
      BY Tenths
    <3>2. CASE k = m + 1
      BY <3>1, <3>2
    <3>3. CASE k # m + 1
      <4>1. k \in 0 .. m
        BY <3>3
      <4>2. f[k] = IF k < 10 THEN <<DigitChars[k + 1]>> ELSE add(f[k \div 10], k)
        BY <2>2, <4>1
      <4>3. g[k] = f[k]
        BY <3>3
      <4>4. k >= 10 => g[k \div 10] = f[k \div 10]
        BY <3>1
      <4> HIDE DEF g
      <4> QED
        BY <4>1, <4>2, <4>3, <4>4
    <3> QED
      BY <3>2, <3>3
  <2>4. DigitsUpTo(g, m + 1)
    BY <2>3 DEF DigitsUpTo, add
  <2> QED
    BY <2>4
<1> HIDE DEF S
<1>3. S = Nat
  <2>1. S \in SUBSET Nat
    BY DEF S
  <2> QED
    BY <1>1, <1>2, <2>1, SetInduction
<1> QED
  BY <1>3 DEF S

LEMMA DigitsAgree ==
  ASSUME NEW l \in Nat, NEW n \in Nat, l <= n, NEW f, NEW g, DigitsUpTo(f, l), DigitsUpTo(g, n)
  PROVE  \A k \in 0 .. l : f[k] = g[k]
<1> DEFINE S == {k \in Nat : k <= l => f[k] = g[k]}
<1>1. ASSUME NEW k \in Nat, \A m \in 0 .. k - 1 : m \in S
      PROVE  k \in S
  <2> SUFFICES ASSUME k <= l
               PROVE  f[k] = g[k]
    OBVIOUS
  <2>1. k \in 0 .. l /\ k \in 0 .. n /\ (k >= 10 => k \div 10 \in 0 .. k - 1 /\ k \div 10 <= l)
    BY Tenths
  <2>2. k >= 10 => f[k \div 10] = g[k \div 10]
    BY <1>1, <2>1
  <2>3. f[k] = (IF k < 10 THEN <<DigitChars[k + 1]>> ELSE Append(f[k \div 10], DigitChars[(k % 10) + 1]))
        /\ g[k] = (IF k < 10 THEN <<DigitChars[k + 1]>> ELSE Append(g[k \div 10], DigitChars[(k % 10) + 1]))
    BY <2>1 DEF DigitsUpTo
  <2> QED
    BY <2>1, <2>2, <2>3
<1> HIDE DEF S
<1>2. S = Nat
  <2>1. S \in SUBSET Nat
    BY DEF S
  <2> QED
    BY <1>1, <2>1, StrongInduction
<1> QED
  BY <1>2 DEF S

LEMMA DigitsAre ==
  ASSUME NEW n \in Nat
  PROVE  Digits[n] = IF n < 10 THEN <<DigitChars[n + 1]>> ELSE Append(Digits[n \div 10], DigitChars[(n % 10) + 1])
<1> DEFINE up(m) == CHOOSE f : DigitsUpTo(f, m)
           D == [m \in Nat |-> up(m)[m]]
           is(E) == E = [m \in Nat |-> IF m < 10 THEN <<DigitChars[m + 1]>>
                                        ELSE Append(E[m \div 10], DigitChars[(m % 10) + 1])]
<1>1. \A m \in Nat : DigitsUpTo(up(m), m)
  BY DigitsExist
<1> HIDE DEF up
<1>2. ASSUME NEW m \in Nat
      PROVE  D[m] = IF m < 10 THEN <<DigitChars[m + 1]>> ELSE Append(D[m \div 10], DigitChars[(m % 10) + 1])
  <2>1. m \in 0 .. m
    OBVIOUS
  <2>2. up(m)[m] = IF m < 10 THEN <<DigitChars[m + 1]>> ELSE Append(up(m)[m \div 10], DigitChars[(m % 10) + 1])
    BY <1>1, <2>1 DEF DigitsUpTo
  <2>3. m >= 10 => up(m)[m \div 10] = D[m \div 10]
    <3> SUFFICES ASSUME m >= 10
                 PROVE  up(m)[m \div 10] = D[m \div 10]
      OBVIOUS
    <3> DEFINE l == m \div 10
    <3>1. l \in Nat /\ l <= m /\ l \in 0 .. l
      BY Tenths
    <3>2. DigitsUpTo(up(m), m) /\ DigitsUpTo(up(l), l)
      BY <1>1, <3>1
    <3> HIDE DEF l
    <3>3. up(l)[l] = up(m)[l]
      BY <3>1, <3>2, DigitsAgree
    <3> QED
      BY <3>1, <3>3 DEF l
  <2>4. D[m] = up(m)[m]
    OBVIOUS
  <2> HIDE DEF D
  <2> QED
    BY <2>2, <2>3, <2>4
<1>3. is(D)
  <2>1. D = [m \in Nat |-> D[m]]
    OBVIOUS
  <2> HIDE DEF D
  <2> QED
    BY <1>2, <2>1
<1>4. Digits = CHOOSE E : is(E)
  BY DEF Digits
<1> HIDE DEF D
<1>5. is(Digits)
  <2> HIDE DEF is
  <2> QED
    BY <1>3, <1>4
<1> QED
  BY <1>5

LEMMA OneDigit ==
  ASSUME NEW n \in Nat, n < 10
  PROVE  Digits[n] = <<DigitChars[n + 1]>>
BY DigitsAre

LEMMA MoreDigits ==
  ASSUME NEW n \in Nat, n >= 10
  PROVE  Digits[n] = Append(Digits[n \div 10], DigitChars[(n % 10) + 1])
<1>1. ~ (n < 10)
  OBVIOUS
<1> QED
  BY <1>1, DigitsAre

DigitSet == ToSet(DigitChars)

LEMMA DigitCharsAre ==
  ASSUME NEW d \in 0 .. 9
  PROVE  DigitChars[d + 1] \in DigitSet /\ IsDigit(DigitChars[d + 1]) /\ DigitValue(DigitChars[d + 1]) = d
<1>1. DOMAIN DigitChars = 1 .. 10
  BY DEF DigitChars
<1>2. d + 1 \in 1 .. 10
  OBVIOUS
<1>3. \A j, k \in 1 .. 10 : DigitChars[j] = DigitChars[k] => j = k
  BY DEF DigitChars
<1>4. \A e \in 0 .. 9 : DigitChars[e + 1] = DigitChars[d + 1] => e = d
  BY <1>3
<1> QED
  BY <1>1, <1>2, <1>4 DEF DigitSet, ToSet, IsDigit, DigitValue

LEMMA DigitsType ==
  ASSUME NEW n \in Nat
  PROVE  Digits[n] \in Seq(DigitSet)
<1> DEFINE S == {k \in Nat : Digits[k] \in Seq(DigitSet)}
<1>1. ASSUME NEW k \in Nat, \A m \in 0 .. k - 1 : m \in S
      PROVE  k \in S
  <2>1. CASE k < 10
    <3>1. DigitChars[k + 1] \in DigitSet
      BY <2>1, DigitCharsAre
    <3> DEFINE c == DigitChars[k + 1]
    <3>2. Digits[k] = <<c>>
      BY <2>1, OneDigit
    <3>3. c \in DigitSet
      BY <3>1
    <3> HIDE DEF c
    <3>4. <<c>> \in Seq(DigitSet)
      BY <3>3
    <3> QED
      BY <3>2, <3>4
  <2>2. CASE k >= 10
    <3>1. k \div 10 \in 0 .. k - 1 /\ k % 10 \in 0 .. 9
      BY <2>2, Tenths
    <3>2. Digits[k \div 10] \in Seq(DigitSet) /\ DigitChars[(k % 10) + 1] \in DigitSet
      BY <1>1, <3>1, DigitCharsAre
    <3>3. Digits[k] = Append(Digits[k \div 10], DigitChars[(k % 10) + 1])
      BY <2>2, MoreDigits
    <3> DEFINE t == Digits[k \div 10]
               c == DigitChars[(k % 10) + 1]
    <3>4. t \in Seq(DigitSet) /\ c \in DigitSet /\ Digits[k] = Append(t, c)
      BY <3>2, <3>3
    <3> HIDE DEF t, c
    <3>5. Append(t, c) \in Seq(DigitSet)
      BY <3>4
    <3> QED
      BY <3>4, <3>5
  <2> QED
    BY <2>1, <2>2
<1> HIDE DEF S
<1>2. S = Nat
  <2>1. S \in SUBSET Nat
    BY DEF S
  <2> QED
    BY <1>1, <2>1, StrongInduction
<1> QED
  BY <1>2 DEF S

-----------------------------------------------------------------------------
(* Reading a number.                                                       *)

LEMMA Multiples ==
  ASSUME NEW L \in Nat, L > 0, NEW q \in Nat, NEW x \in Nat
  PROVE  (q * L + x) % L = x % L
<1> DEFINE p == x \div L
           r == x % L
<1>1. x = p * L + r /\ r \in 0 .. L - 1 /\ p \in Nat
  OBVIOUS
<1> HIDE DEF p, r
<1>2. q * L + x = (q + p) * L + r /\ q + p \in Nat
  BY <1>1
<1> DEFINE k == q + p
<1>3. k \in Nat
  BY <1>2
<1> HIDE DEF k
<1>4. (k * L + r) % L = r
  BY <1>1, <1>3
<1> QED
  BY <1>2, <1>4 DEF k, r

\* What a width w becomes below the limit L, by one more digit d.
NextWidth(L, w, d) == (w * 10 + d) % L

\* A number taken modulo a limit, digit by digit, is the number modulo the limit.
LEMMA DigitByDigit ==
  ASSUME NEW L \in Nat, L > 0, NEW a \in Nat, NEW d \in Nat, NEW w, w = a % L
  PROVE  NextWidth(L, w, d) = NextWidth(L, a, d)
<1> DEFINE p == a \div L
           r == a % L
<1>1. a = p * L + r /\ r \in Nat /\ p \in Nat
  OBVIOUS
<1> HIDE DEF p, r
<1> DEFINE q == p * 10
           x == r * 10 + d
<1>2. q \in Nat /\ x \in Nat
  BY <1>1
<1>3. a * 10 + d = q * L + x
  BY <1>1
<1> HIDE DEF q, x
<1>4. (q * L + x) % L = x % L
  BY <1>2, Multiples
<1>5. NextWidth(L, a, d) = (q * L + x) % L
  BY <1>3 DEF NextWidth
<1>6. NextWidth(L, w, d) = x % L
  BY DEF NextWidth, x, r
<1> QED
  BY <1>4, <1>5, <1>6

\* What is left of a width that is written.
LEMMA WidthRead ==
  ASSUME NEW first \in ScanSet, first.at \in {"side", "width"}, first.width = 0, NEW n \in Nat
  PROVE  ScanText(first, Digits[n]) = [first EXCEPT !.at = "digits", !.width = n % SizeLimit]
<1> DEFINE scanned(k) == [first EXCEPT !.at = "digits", !.width = k % SizeLimit]
           S == {k \in Nat : ScanText(first, Digits[k]) = scanned(k)}
<1>0. SizeLimit \in Nat /\ SizeLimit > 0
  BY PatternAssumption
<1>1. ASSUME NEW k \in Nat, \A m \in 0 .. k - 1 : m \in S
      PROVE  k \in S
  <2>1. CASE k < 10
    <3> DEFINE c == DigitChars[k + 1]
    <3>1. IsDigit(c) /\ DigitValue(c) = k
      BY <2>1, DigitCharsAre
    <3>2. Digits[k] = <<c>>
      BY <2>1, OneDigit
    <3> HIDE DEF c
    <3>3. ~ (first.at = "side" /\ c \in {"-", "="})
      BY <3>1, SidesAreNoDigits
    <3>4. ScanChar(first, c) = [first EXCEPT !.at = "digits", !.width = (first.width * 10 + DigitValue(c)) % SizeLimit]
      BY <3>1, <3>3 DEF ScanChar
    <3>5. first.width * 10 + DigitValue(c) = k
      BY <3>1
    <3>6. ScanText(first, Digits[k]) = ScanChar(first, c)
      BY <3>2, OneCharRead, Zenon
    <3>7. ScanChar(first, c) = scanned(k)
      BY <3>4, <3>5
    <3> QED
      BY <3>6, <3>7
  <2>2. CASE k >= 10
    <3> DEFINE c == DigitChars[(k % 10) + 1]
               t == k \div 10
               mid == scanned(t)
    <3>1. t \in 0 .. k - 1 /\ k % 10 \in 0 .. 9 /\ t \in Nat /\ k = t * 10 + (k % 10)
      BY <2>2, Tenths
    <3>2. IsDigit(c) /\ DigitValue(c) = k % 10 /\ c \in DigitSet
      BY <3>1, DigitCharsAre
    <3>3. Digits[k] = Append(Digits[t], c)
      BY <2>2, MoreDigits
    <3>4. Digits[t] \in Seq(DigitSet)
      BY <3>1, DigitsType
    <3>5. ScanText(first, Digits[t]) = mid
      BY <1>1, <3>1
    <3> HIDE DEF c, t
    <3>6. ScanText(first, Append(Digits[t], c)) = ScanChar(mid, c)
      <4> HIDE DEF mid
      <4>1. ScanText(first, Append(Digits[t], c)) = ScanChar(ScanText(first, Digits[t]), c)
        BY <3>2, <3>4, CharRead
      <4> QED
        BY <3>5, <4>1
    <3>7. mid.at = "digits" /\ mid.width = t % SizeLimit
      BY DEF ScanSet
    <3> DEFINE w == (mid.width * 10 + DigitValue(c)) % SizeLimit
    <3>8. ScanChar(mid, c) = [mid EXCEPT !.at = "digits", !.width = w]
      <4> HIDE DEF mid
      <4> QED
        BY <3>2, <3>7 DEF ScanChar
    <3>9. w = k % SizeLimit
      <4> DEFINE d == k % 10
      <4>1. d \in Nat /\ k = t * 10 + d /\ DigitValue(c) = d
        BY <3>1, <3>2
      <4> HIDE DEF d, mid
      <4> DEFINE r == mid.width
      <4>2. t \in Nat /\ r = t % SizeLimit
        BY <3>1, <3>7
      <4>3. w = NextWidth(SizeLimit, r, d) /\ k % SizeLimit = NextWidth(SizeLimit, t, d)
        BY <4>1 DEF NextWidth
      <4> HIDE DEF r, w
      <4>4. NextWidth(SizeLimit, r, d) = NextWidth(SizeLimit, t, d)
        BY <1>0, <4>1, <4>2, DigitByDigit
      <4> QED
        BY <4>3, <4>4
    <3> HIDE DEF w
    <3>10. [mid EXCEPT !.at = "digits", !.width = w] = scanned(k)
      BY <3>9 DEF ScanSet
    <3> QED
      BY <3>3, <3>6, <3>8, <3>10
  <2> QED
    BY <2>1, <2>2
<1> HIDE DEF S
<1>2. S = Nat
  <2>1. S \in SUBSET Nat
    BY DEF S
  <2> QED
    BY <1>1, <2>1, StrongInduction
<1> QED
  BY <1>2 DEF S

-----------------------------------------------------------------------------
(* Reading items.                                                          *)

ShownSet == AnyChar \cup ItemSet
ShownItem(item) == IF item.flag = "chars" THEN item.text ELSE <<[item EXCEPT !.text = << >>]>>

LEMMA ShownItemType ==
  ASSUME NEW item \in ItemSet
  PROVE  ShownItem(item) \in Seq(ShownSet)
<1>1. CASE item.flag = "chars"
  <2>1. item.text \in Seq(AnyChar) /\ AnyChar \subseteq ShownSet
    BY DEF ItemSet, ShownSet
  <2> QED
    BY <1>1, <2>1, SeqMonotonic DEF ShownItem
<1>2. CASE item.flag # "chars"
  <2> DEFINE bare == [item EXCEPT !.text = << >>]
  <2>1. bare \in ShownSet
    <3>1. << >> \in Seq(AnyChar)
      BY EmptySeq
    <3>2. bare \in ItemSet
      BY <3>1 DEF ItemSet
    <3> QED
      BY <3>2 DEF ShownSet
  <2>2. ShownItem(item) = <<bare>>
    BY <1>2 DEF ShownItem
  <2> HIDE DEF bare
  <2> QED
    BY <2>1, <2>2
<1> QED
  BY <1>1, <1>2

LEMMA ShownFlat ==
  ASSUME NEW items \in Seq(ItemSet)
  PROVE  \E ss : /\ ss = [k \in 1 .. Len(items) |-> ShownItem(items[k])]
                 /\ \A k \in 1 .. Len(items) : ss[k] \in Seq(ShownSet)
                 /\ Shown(items) = Flat(ss, Len(items))
<1> DEFINE ss == [k \in 1 .. Len(items) |-> ShownItem(items[k])]
<1>1. DOMAIN items = 1 .. Len(items) /\ Len(items) \in Nat
  BY LenProperties
<1>2. Shown(items) = FlattenSeq(ss)
  BY <1>1 DEF Shown, ShownItem
<1>3. ss = [k \in 1 .. Len(items) |-> ss[k]]
  OBVIOUS
<1>4. \A k \in 1 .. Len(items) : ss[k] \in Seq(ShownSet)
  BY ElementOfSeq, ShownItemType
<1> HIDE DEF ss
<1>5. Shown(items) = Flat(ss, Len(items))
  BY <1>2, <1>3 DEF Flat
<1> QED
  BY <1>4, <1>5 DEF ss

LEMMA ShownType ==
  ASSUME NEW items \in Seq(ItemSet)
  PROVE  Shown(items) \in Seq(ShownSet)
<1>1. PICK ss : (\A k \in 1 .. Len(items) : ss[k] \in Seq(ShownSet)) /\ Shown(items) = Flat(ss, Len(items))
  BY ShownFlat
<1> QED
  BY <1>1, FlatType, LenProperties

\* An item more is shown after the others.
LEMMA ShownMore ==
  ASSUME NEW items \in Seq(ItemSet), NEW item \in ItemSet
  PROVE  Shown(Append(items, item)) = Shown(items) \o ShownItem(item)
<1> DEFINE more == Append(items, item)
           n == Len(items)
           ss == [k \in 1 .. n |-> ShownItem(items[k])]
           tt == [k \in 1 .. n + 1 |-> ShownItem(more[k])]
<1>1. more \in Seq(ItemSet) /\ Len(more) = n + 1 /\ n \in Nat /\ more[n + 1] = item
      /\ \A k \in 1 .. n : more[k] = items[k]
  BY AppendProperties, LenProperties
<1>2. Shown(items) = Flat(ss, n)
  BY ShownFlat
<1> HIDE DEF more
<1>3. Shown(more) = Flat(tt, n + 1) /\ \A k \in 1 .. n + 1 : tt[k] \in Seq(ShownSet)
  <2>1. PICK uu : /\ uu = [k \in 1 .. Len(more) |-> ShownItem(more[k])]
                  /\ \A k \in 1 .. Len(more) : uu[k] \in Seq(ShownSet)
                  /\ Shown(more) = Flat(uu, Len(more))
    BY <1>1, ShownFlat
  <2> QED
    BY <1>1, <2>1
<1>4. tt[n + 1] = ShownItem(item) /\ [k \in 1 .. n |-> tt[k]] = [k \in 1 .. n |-> ss[k]]
  BY <1>1
<1> HIDE DEF tt, ss, n
<1>5. Flat(tt, n + 1) = Flat(tt, n) \o tt[n + 1]
  BY <1>1, <1>3, FlatNext
<1>6. Flat(tt, n) = Flat(ss, n)
  BY <1>4 DEF Flat
<1> QED
  BY <1>2, <1>3, <1>4, <1>5, <1>6 DEF more

LEMMA ShownNothing == Shown(<< >>) = << >>
BY DEF Shown, FlattenSeq

-----------------------------------------------------------------------------

\* A scan in the text, and what it has read so far.
AtText(scan) == scan \in ScanSet /\ scan.at = "text"
SoFar(scan) == Shown(scan.items) \o scan.text

LEMMA PushedShown ==
  ASSUME NEW scan, AtText(scan)
  PROVE  /\ PushText(scan) \in Seq(ItemSet) /\ Shown(PushText(scan)) = SoFar(scan)
         /\ SoFar(scan) \in Seq(ShownSet)
<1>1. scan.items \in Seq(ItemSet) /\ scan.text \in Seq(AnyChar) /\ scan \in ScanSet
  BY DEF AtText, ScanSet
<1>2. Shown(scan.items) \in Seq(ShownSet) /\ scan.text \in Seq(ShownSet)
  <2>1. AnyChar \subseteq ShownSet
    BY DEF ShownSet
  <2> QED
    BY <1>1, <2>1, ShownType, SeqMonotonic
<1>3. SoFar(scan) \in Seq(ShownSet)
  BY <1>2, ConcatProperties DEF SoFar
<1>4. CASE scan.text = << >>
  <2>1. SoFar(scan) = Shown(scan.items)
    BY <1>2, <1>4, ConcatEmptySeq DEF SoFar
  <2> QED
    BY <1>1, <1>3, <1>4, <2>1 DEF PushText
<1>5. CASE scan.text # << >>
  <2> DEFINE it == Chars(scan.text)
  <2>1. it \in ItemSet /\ ShownItem(it) = scan.text
    BY <1>1, CharsItem DEF ShownItem, Chars, Item
  <2>2. PushText(scan) = Append(scan.items, it)
    BY <1>5 DEF PushText
  <2> HIDE DEF it
  <2>3. Shown(Append(scan.items, it)) = Shown(scan.items) \o ShownItem(it)
    BY <1>1, <2>1, ShownMore
  <2> QED
    BY <1>1, <1>3, <2>1, <2>2, <2>3, PushedItems DEF SoFar
<1> QED
  BY <1>4, <1>5

LEMMA PlainCharRead ==
  ASSUME NEW scan, AtText(scan), NEW c \in AnyChar, c # "%"
  PROVE  AtText(ScanText(scan, <<c>>)) /\ SoFar(ScanText(scan, <<c>>)) = SoFar(scan) \o <<c>>
<1> DEFINE next == ScanChar(scan, c)
<1>1. scan \in ScanSet /\ scan.at = "text" /\ scan.items \in Seq(ItemSet) /\ scan.text \in Seq(AnyChar)
  BY DEF AtText, ScanSet
<1>2. next = [scan EXCEPT !.text = Append(scan.text, c)]
  BY <1>1 DEF ScanChar
<1>3. next \in ScanSet
  BY <1>1, CharScanned
<1> HIDE DEF next
<1>4. next.at = "text" /\ next.items = scan.items /\ next.text = Append(scan.text, c)
  BY <1>1, <1>2 DEF ScanSet
<1>5. Shown(scan.items) \o Append(scan.text, c) = (Shown(scan.items) \o scan.text) \o <<c>>
  <2> DEFINE u == Shown(scan.items)
             v == scan.text
  <2>1. u \in Seq(ShownSet) /\ v \in Seq(ShownSet) /\ c \in ShownSet
    <3>1. AnyChar \subseteq ShownSet
      BY DEF ShownSet
    <3> QED
      BY <1>1, <3>1, ShownType, SeqMonotonic
  <2> HIDE DEF u, v
  <2>2. Append(v, c) = v \o <<c>> /\ <<c>> \in Seq(ShownSet)
    BY <2>1
  <2>3. u \o (v \o <<c>>) = (u \o v) \o <<c>>
    BY <2>1, <2>2, ConcatAssociative
  <2> QED
    BY <2>2, <2>3 DEF u, v
<1> QED
  BY <1>3, <1>4, <1>5, OneCharRead DEF AtText, SoFar, next

\* The start of a flag.
LEMMA PercentRead ==
  ASSUME NEW scan, AtText(scan)
  PROVE  ScanText(scan, <<"%">>) = [ScanStart EXCEPT !.items = PushText(scan), !.at = "side"]
<1>1. ScanChar(scan, "%") = [ScanStart EXCEPT !.items = PushText(scan), !.at = "side"]
  BY DEF AtText, ScanChar
<1> QED
  BY <1>1, OneCharRead

\* The end of a flag.
LEMMA FlagEndRead ==
  ASSUME NEW scan \in ScanSet, scan.at # "text", NEW c \in AnyChar, c \notin {"-", "="}, ~ IsDigit(c),
         NEW shown, shown = ShownItem(HandleFlag(c, scan.side, IF scan.width < MaxWidth THEN scan.width ELSE MaxWidth))
  PROVE  AtText(ScanText(scan, <<c>>)) /\ SoFar(ScanText(scan, <<c>>)) = Shown(scan.items) \o shown
<1> DEFINE next == ScanChar(scan, c)
           w == IF scan.width < MaxWidth THEN scan.width ELSE MaxWidth
           it == HandleFlag(c, scan.side, w)
           items == Append(scan.items, it)
<1>1. next \in ScanSet
  BY CharScanned
<1>2. next = [ScanStart EXCEPT !.items = items]
  <2>1. next = EndFlag(scan, c)
    BY DEF ScanChar
  <2> QED
    BY <2>1 DEF EndFlag
<1>3. scan.items \in Seq(ItemSet) /\ scan.side \in Sides /\ w \in Nat
  BY DEF ScanSet, MaxWidth
<1>4. it \in ItemSet
  BY <1>3, FlagItem
<1>5. shown = ShownItem(it)
  OBVIOUS
<1> HIDE DEF next, it, w
<1>6. Shown(items) = Shown(scan.items) \o ShownItem(it)
  BY <1>3, <1>4, ShownMore
<1>7. Shown(items) \in Seq(ShownSet)
  BY <1>3, <1>4, ShownType, AppendProperties
<1> HIDE DEF items
<1>8. next.at = "text" /\ next.items = items /\ next.text = << >>
  BY <1>2 DEF ScanStart
<1>9. SoFar(next) = Shown(items)
  BY <1>7, <1>8, ConcatEmptySeq DEF SoFar
<1> QED
  BY <1>1, <1>5, <1>6, <1>8, <1>9, OneCharRead DEF AtText, next

\* "%%" is read as one.
LEMMA TwoPercentsRead ==
  ASSUME NEW scan, AtText(scan)
  PROVE  AtText(ScanText(scan, <<"%", "%">>)) /\ SoFar(ScanText(scan, <<"%", "%">>)) = SoFar(scan) \o <<"%">>
<1> DEFINE mid == [ScanStart EXCEPT !.items = PushText(scan), !.at = "side"]
<1>1. ScanText(scan, <<"%">>) = mid
  BY PercentRead
<1>2. mid \in ScanSet /\ mid.at = "side" /\ mid.items = PushText(scan)
  BY PushedShown, StartIsAScan DEF ScanSet, ScanStart
<1> HIDE DEF mid
<1>3. "%" \in AnyChar /\ ~ IsDigit("%") /\ "%" \notin {"-", "="}
  <2>1. \A k \in 1 .. 10 : DigitChars[k] # "%"
    BY DEF DigitChars
  <2>2. DOMAIN DigitChars = 1 .. 10
    BY DEF DigitChars
  <2> QED
    BY <2>1, <2>2 DEF AnyChar, IsDigit, ToSet
<1>4. \A side, width : ShownItem(HandleFlag("%", side, width)) = <<"%">>
  BY DEF HandleFlag, ShownItem, Chars, Item
<1>5. AtText(ScanText(mid, <<"%">>)) /\ SoFar(ScanText(mid, <<"%">>)) = Shown(mid.items) \o <<"%">>
  BY <1>2, <1>3, <1>4, FlagEndRead
<1> DEFINE c == "%"
           t == <<c>>
<1>6. t \in Seq(AnyChar) /\ t \o t = <<c, c>>
  <2>1. c \in AnyChar
    BY <1>3
  <2> HIDE DEF c
  <2> QED
    BY <2>1, Two
<1>7. AtText(ScanText(mid, t)) /\ SoFar(ScanText(mid, t)) = SoFar(scan) \o t /\ ScanText(scan, t) = mid
  BY <1>1, <1>2, <1>5, PushedShown
<1> HIDE DEF t
<1>8. ScanText(scan, t \o t) = ScanText(mid, t)
  <2>1. t \in Seq(AnyChar)
    BY <1>6
  <2>2. ScanText(scan, t \o t) = ScanText(ScanText(scan, t), t)
    BY <2>1, TextsRead
  <2> QED
    BY <1>7, <2>2
<1>9. AtText(ScanText(scan, <<c, c>>)) /\ SoFar(ScanText(scan, <<c, c>>)) = SoFar(scan) \o t
  BY <1>6, <1>7, <1>8
<1> QED
  BY <1>9 DEF t

\* What characters are written as: "%" twice.
WrittenChar(c) == IF c = "%" THEN <<"%", "%">> ELSE <<c>>

LEMMA WrittenCharType ==
  ASSUME NEW c \in AnyChar
  PROVE  WrittenChar(c) \in Seq(AnyChar)
<1>1. "%" \in AnyChar
  BY DEF AnyChar
<1>2. CASE c = "%"
  <2> DEFINE p == "%"
  <2>1. p \in AnyChar
    BY <1>1
  <2>2. WrittenChar(c) = <<p, p>>
    BY <1>2 DEF WrittenChar
  <2> HIDE DEF p
  <2> QED
    BY <2>1, <2>2
<1>3. CASE c # "%"
  <2>1. WrittenChar(c) = <<c>>
    BY <1>3 DEF WrittenChar
  <2> QED
    BY <2>1
<1> QED
  BY <1>2, <1>3

LEMMA WrittenCharRead ==
  ASSUME NEW scan, AtText(scan), NEW c \in AnyChar
  PROVE  AtText(ScanText(scan, WrittenChar(c))) /\ SoFar(ScanText(scan, WrittenChar(c))) = SoFar(scan) \o <<c>>
<1>1. CASE c = "%"
  BY <1>1, TwoPercentsRead DEF WrittenChar
<1>2. CASE c # "%"
  BY <1>2, PlainCharRead DEF WrittenChar
<1> QED
  BY <1>1, <1>2

\* Characters that are written are read, one by one.
LEMMA CharsRead ==
  ASSUME NEW scan, AtText(scan), NEW t \in Seq(AnyChar)
  PROVE  LET next == ScanText(scan, Written(Chars(t)))
         IN  AtText(next) /\ SoFar(next) = SoFar(scan) \o t /\ Written(Chars(t)) \in Seq(AnyChar)
<1> DEFINE ww == [k \in 1 .. Len(t) |-> WrittenChar(t[k])]
           read(k) == /\ AtText(ScanText(scan, Flat(ww, k)))
                      /\ SoFar(ScanText(scan, Flat(ww, k))) = SoFar(scan) \o SubSeq(t, 1, k)
           S == {k \in Nat : k <= Len(t) => read(k)}
<1>0. Len(t) \in Nat /\ DOMAIN t = 1 .. Len(t)
  BY LenProperties
<1>1. \A k \in 1 .. Len(t) : ww[k] \in Seq(AnyChar) /\ ww[k] = WrittenChar(t[k]) /\ t[k] \in AnyChar
  BY ElementOfSeq, WrittenCharType
<1>2. Written(Chars(t)) = Flat(ww, Len(t))
  <2>1. Written(Chars(t)) = FlattenSeq(ww)
    BY <1>0 DEF Written, Chars, Item, WrittenChar
  <2>2. ww = [k \in 1 .. Len(t) |-> ww[k]]
    OBVIOUS
  <2> HIDE DEF ww
  <2> QED
    BY <2>1, <2>2 DEF Flat
<1>3. SoFar(scan) \in Seq(ShownSet)
  BY PushedShown
<1> HIDE DEF ww
<1>4. 0 \in S
  <2>1. Flat(ww, 0) = << >> /\ SubSeq(t, 1, 0) = << >>
    BY FlatNothing
  <2> QED
    BY <1>3, <2>1, NothingRead, ConcatEmptySeq
<1>5. ASSUME NEW k \in S
      PROVE  k + 1 \in S
  <2> SUFFICES ASSUME k + 1 <= Len(t)
               PROVE  read(k + 1)
    OBVIOUS
  <2> DEFINE v == Flat(ww, k)
             c == t[k + 1]
             w == WrittenChar(c)
             mid == ScanText(scan, v)
             u == SubSeq(t, 1, k)
             so == SoFar(scan)
  <2>1. read(k) /\ k \in Nat
    BY <1>0
  <2>2. k + 1 \in 1 .. Len(t) /\ ww[k + 1] = w /\ w \in Seq(AnyChar) /\ c \in AnyChar
    BY <1>0, <1>1
  <2>3. v \in Seq(AnyChar)
    <3>1. \A j \in 1 .. k : ww[j] \in Seq(AnyChar)
      BY <1>0, <1>1, <2>2
    <3> QED
      BY <3>1, FlatType
  <2>4. Flat(ww, k + 1) = v \o w
    <3>1. \A j \in 1 .. k + 1 : ww[j] \in Seq(AnyChar)
      BY <1>0, <1>1, <2>2
    <3>2. Flat(ww, k + 1) = Flat(ww, k) \o ww[k + 1]
      BY <3>1, FlatNext
    <3> QED
      BY <2>2, <3>2
  <2>5. SubSeq(t, 1, k + 1) = Append(u, c) /\ u \in Seq(AnyChar)
    BY <1>0, <2>2
  <2>6. AtText(mid) /\ SoFar(mid) = so \o u
    BY <2>1
  <2> HIDE DEF v, c, w, mid, u, so
  <2>7. AtText(ScanText(mid, w)) /\ SoFar(ScanText(mid, w)) = SoFar(mid) \o <<c>>
    BY <2>2, <2>6, WrittenCharRead DEF w
  <2>8. ScanText(scan, v \o w) = ScanText(mid, w)
    BY <2>2, <2>3, TextsRead DEF mid
  <2>9. (so \o u) \o <<c>> = so \o Append(u, c)
    <3>1. AnyChar \subseteq ShownSet
      BY DEF ShownSet
    <3>2. u \in Seq(ShownSet) /\ <<c>> \in Seq(ShownSet) /\ so \in Seq(ShownSet)
      BY <1>3, <2>2, <2>5, <3>1, SeqMonotonic DEF so
    <3>3. Append(u, c) = u \o <<c>>
      BY <2>2, <2>5, AppendIsConcat
    <3>4. (so \o u) \o <<c>> = so \o (u \o <<c>>)
      BY <3>2, ConcatAssociative, SMTT(30)
    <3> QED
      BY <3>3, <3>4
  <2> QED
    BY <2>4, <2>5, <2>6, <2>7, <2>8, <2>9 DEF so
<1> HIDE DEF S
<1>6. S = Nat
  <2>1. S \in SUBSET Nat
    BY DEF S
  <2> QED
    BY <1>4, <1>5, <2>1, SetInduction
<1>7. read(Len(t))
  <2>1. Len(t) \in S
    BY <1>0, <1>6
  <2> HIDE DEF read
  <2> QED
    BY <1>0, <2>1 DEF S
<1>8. SubSeq(t, 1, Len(t)) = t
  BY <1>0
<1>9. Flat(ww, Len(t)) \in Seq(AnyChar)
  BY <1>0, <1>1, FlatType
<1> QED
  BY <1>2, <1>7, <1>8, <1>9

\* The items that can be written: characters, and known flags with a side and a width.
FlagItems == [flag : KnownFlags \ {"%"}, side : Sides, width : Nat, text : {<< >>}]
WritableItems == {Chars(t) : t \in Seq(AnyChar)} \cup FlagItems

\* The width that is left of the one written.
Limited(width) == IF width % SizeLimit < MaxWidth THEN width % SizeLimit ELSE MaxWidth
Kept(item) == [item EXCEPT !.width = Limited(item.width)]

LEMMA KeptItems ==
  ASSUME NEW item \in WritableItems
  PROVE  item \in ItemSet /\ Kept(item) \in ItemSet
<1>1. item \in ItemSet
  <2>1. CASE item \in {Chars(t) : t \in Seq(AnyChar)}
    BY <2>1, CharsItem
  <2>2. CASE item \in FlagItems
    <3>1. << >> \in Seq(AnyChar)
      BY EmptySeq
    <3> QED
      BY <2>2, <3>1 DEF FlagItems, ItemSet, ItemFlags
  <2> QED
    BY <2>1, <2>2 DEF WritableItems
<1>2. Limited(item.width) \in Nat
  <2>1. item.width \in Nat /\ SizeLimit \in Nat /\ SizeLimit > 0
    BY <1>1, PatternAssumption DEF ItemSet
  <2>2. item.width % SizeLimit \in Nat
    BY <2>1
  <2> QED
    BY <2>2 DEF Limited, MaxWidth
<1> QED
  BY <1>1, <1>2 DEF Kept, ItemSet

LEMMA FlagsAreChars ==
  ASSUME NEW c \in KnownFlags \ {"%"}
  PROVE  c \in AnyChar /\ c \notin {"-", "="} /\ ~ IsDigit(c) /\ c # "chars"
<1>1. \A k \in 1 .. 10 : DigitChars[k] # c
  BY DEF DigitChars, KnownFlags
<1>2. DOMAIN DigitChars = 1 .. 10
  BY DEF DigitChars
<1>3. c \notin {"-", "="} /\ c # "chars"
  BY DEF KnownFlags
<1> QED
  BY <1>1, <1>2, <1>3 DEF AnyChar, IsDigit, ToSet

SideText(side) == CASE side = "left" -> << >> [] side = "right" -> <<"-">> [] side = "center" -> <<"=">>
WidthText(width) == IF width = 0 THEN << >> ELSE Digits[width]

\* A flag that is written is read, with its side and what is left of its width.
LEMMA FlagRead ==
  ASSUME NEW scan, AtText(scan), NEW item \in FlagItems
  PROVE  LET next == ScanText(scan, Written(item))
         IN  AtText(next) /\ SoFar(next) = SoFar(scan) \o ShownItem(Kept(item)) /\ Written(item) \in Seq(AnyChar)
<1> DEFINE c == item.flag
           side == item.side
           width == item.width
           a == <<"%">>
           b == SideText(side)
           d == WidthText(width)
           e == <<c>>
           s1 == ScanText(scan, a)
           s2 == ScanText(s1, b)
           s3 == ScanText(s2, d)
           s4 == ScanText(s3, e)
<1>1. c \in KnownFlags \ {"%"} /\ side \in Sides /\ width \in Nat /\ item.text = << >>
  BY DEF FlagItems
<1>2. c \in AnyChar /\ c \notin {"-", "="} /\ ~ IsDigit(c) /\ c # "chars"
  BY <1>1, FlagsAreChars
<1>3. Written(item) = ((a \o b) \o d) \o e
  BY <1>2 DEF Written, SideText, WidthText
<1>4. a \in Seq(AnyChar) /\ b \in Seq(AnyChar) /\ d \in Seq(AnyChar) /\ e \in Seq(AnyChar)
  <2>1. \A x \in AnyChar : <<x>> \in Seq(AnyChar)
    OBVIOUS
  <2>2. "%" \in AnyChar /\ "-" \in AnyChar /\ "=" \in AnyChar /\ << >> \in Seq(AnyChar)
    BY EmptySeq DEF AnyChar
  <2>3. Digits[width] \in Seq(AnyChar)
    <3>1. DigitSet \subseteq AnyChar
      BY DEF DigitSet, AnyChar
    <3> QED
      BY <1>1, <3>1, DigitsType, SeqMonotonic
  <2>4. b \in {<< >>, <<"-">>, <<"=">>}
    BY <1>1 DEF SideText, Sides
  <2> QED
    BY <1>2, <2>1, <2>2, <2>3, <2>4 DEF WidthText
<1>5. s1 = [ScanStart EXCEPT !.items = PushText(scan), !.at = "side"]
  BY PercentRead
<1>6. s1 \in ScanSet /\ s1.at = "side" /\ s1.items = PushText(scan) /\ s1.side = "left" /\ s1.width = 0
  <2> DEFINE m == PushText(scan)
  <2>1. m \in Seq(ItemSet)
    BY PushedShown
  <2>2. s1 = [items |-> m, text |-> << >>, at |-> "side", side |-> "left", width |-> 0]
    BY <1>5 DEF ScanStart
  <2>3. << >> \in Seq(AnyChar)
    BY EmptySeq
  <2> HIDE DEF m, s1
  <2>4. s1 \in ScanSet
    BY <2>1, <2>2, <2>3 DEF ScanSet, Sides
  <2> QED
    BY <2>2, <2>4 DEF m
<1> HIDE DEF a, s1
<1>7. s2 \in ScanSet /\ s2.at \in {"side", "width"} /\ s2.items = s1.items /\ s2.side = side /\ s2.width = 0
  <2>1. CASE side = "left"
    <3>1. s2 = s1
      BY <2>1, NothingRead DEF SideText
    <3> QED
      BY <1>6, <2>1, <3>1
  <2>2. CASE side = "right"
    <3>1. s2 = ScanChar(s1, "-")
      BY <2>2, OneCharRead DEF SideText
    <3>2. ScanChar(s1, "-") = [s1 EXCEPT !.at = "width", !.side = "right"]
      BY <1>6, SidesAreNoDigits DEF ScanChar
    <3> QED
      BY <1>6, <2>2, <3>1, <3>2, ZenonT(60) DEF ScanSet, Sides
  <2>3. CASE side = "center"
    <3>1. s2 = ScanChar(s1, "=")
      BY <2>3, OneCharRead DEF SideText
    <3>2. ScanChar(s1, "=") = [s1 EXCEPT !.at = "width", !.side = "center"]
      BY <1>6, SidesAreNoDigits DEF ScanChar
    <3> QED
      BY <1>6, <2>3, <3>1, <3>2 DEF ScanSet, Sides
  <2> QED
    BY <1>1, <2>1, <2>2, <2>3 DEF Sides
<1> HIDE DEF b, s2
<1>8. s3 \in ScanSet /\ s3.at # "text" /\ s3.items = s1.items /\ s3.side = side /\ s3.width = width % SizeLimit
  <2>0. SizeLimit \in Nat /\ SizeLimit > 0
    BY PatternAssumption
  <2>1. width % SizeLimit \in Nat
    BY <1>1, <2>0
  <2>2. CASE width = 0
    <3>1. s3 = s2
      BY <2>2, NothingRead DEF WidthText
    <3>2. 0 % SizeLimit = 0
      BY <2>0
    <3> QED
      BY <1>7, <2>2, <3>1, <3>2
  <2>3. CASE width # 0
    <3>1. s3 = [s2 EXCEPT !.at = "digits", !.width = width % SizeLimit]
      BY <1>1, <1>7, <2>3, WidthRead DEF WidthText
    <3> QED
      BY <1>7, <2>1, <3>1 DEF ScanSet
  <2> QED
    BY <2>2, <2>3
<1> HIDE DEF d, s3
<1> DEFINE shown == ShownItem(Kept(item))
<1>9. shown = ShownItem(HandleFlag(c, s3.side, IF s3.width < MaxWidth THEN s3.width ELSE MaxWidth))
  <2>1. HandleFlag(c, side, Limited(width)) = [flag |-> c, side |-> side, width |-> Limited(width), text |-> << >>]
    BY <1>1 DEF HandleFlag, Item
  <2>2. Kept(item) = [flag |-> c, side |-> side, width |-> Limited(width), text |-> << >>]
    BY <1>1 DEF Kept, FlagItems
  <2> QED
    BY <1>8, <2>1, <2>2 DEF Limited
<1> HIDE DEF shown
<1>10. AtText(s4) /\ SoFar(s4) = Shown(s3.items) \o shown
  BY <1>2, <1>8, <1>9, FlagEndRead
<1> HIDE DEF e, s4
<1>11. ScanText(scan, ((a \o b) \o d) \o e) = s4
  <2>1. a \o b \in Seq(AnyChar) /\ (a \o b) \o d \in Seq(AnyChar)
    BY <1>4, ConcatProperties
  <2> DEFINE ab == a \o b
             abd == ab \o d
  <2>2. ab \in Seq(AnyChar) /\ abd \in Seq(AnyChar)
    BY <2>1
  <2>3. ScanText(scan, ab) = s2
    BY <1>4, TextsRead DEF s1, s2
  <2> HIDE DEF ab
  <2>4. ScanText(scan, abd) = s3
    BY <1>4, <2>2, <2>3, TextsRead DEF s3
  <2> HIDE DEF abd
  <2>5. ScanText(scan, abd \o e) = s4
    BY <1>4, <2>2, <2>4, TextsRead DEF s4
  <2> QED
    BY <2>5 DEF ab, abd
<1>12. ((a \o b) \o d) \o e \in Seq(AnyChar)
  BY <1>4, ConcatProperties
<1>13. Shown(s3.items) = SoFar(scan)
  BY <1>6, <1>8, PushedShown
<1> QED
  BY <1>3, <1>10, <1>11, <1>12, <1>13 DEF shown

LEMMA ItemRead ==
  ASSUME NEW scan, AtText(scan), NEW item \in WritableItems
  PROVE  LET next == ScanText(scan, Written(item))
         IN  AtText(next) /\ SoFar(next) = SoFar(scan) \o ShownItem(Kept(item)) /\ Written(item) \in Seq(AnyChar)
<1>1. CASE item \in FlagItems
  BY <1>1, FlagRead
<1>2. CASE item \in {Chars(t) : t \in Seq(AnyChar)}
  <2>1. PICK t \in Seq(AnyChar) : item = Chars(t)
    BY <1>2
  <2>2. ShownItem(Kept(item)) = t
    BY <2>1 DEF ShownItem, Kept, Chars, Item
  <2> QED
    BY <2>1, <2>2, CharsRead
<1> QED
  BY <1>1, <1>2 DEF WritableItems

\* What is written of the first n items, and what is kept of them.
WrittenUpTo(items, n) == Flat([k \in 1 .. Len(items) |-> Written(items[k])], n)
KeptUpTo(items, n) == [k \in 1 .. n |-> Kept(items[k])]

ReadUpTo(items, n) ==
  LET scan == ScanText(ScanStart, WrittenUpTo(items, n))
  IN  AtText(scan) /\ SoFar(scan) = Shown(KeptUpTo(items, n)) /\ WrittenUpTo(items, n) \in Seq(AnyChar)

LEMMA NothingWritten ==
  ASSUME NEW items
  PROVE  ReadUpTo(items, 0)
<1>1. WrittenUpTo(items, 0) = << >>
  BY FlatNothing DEF WrittenUpTo
<1>2. KeptUpTo(items, 0) = << >>
  BY DEF KeptUpTo
<1>3. AtText(ScanStart) /\ ScanStart.items = << >> /\ ScanStart.text = << >>
  BY StartIsAScan DEF AtText, ScanStart
<1>4. << >> \in Seq(AnyChar) /\ << >> \o << >> = << >>
  BY EmptySeq, ConcatEmptySeq
<1>5. SoFar(ScanStart) = << >>
  BY <1>3, <1>4, ShownNothing DEF SoFar
<1> QED
  BY <1>1, <1>2, <1>3, <1>4, <1>5, NothingRead, ShownNothing DEF ReadUpTo

LEMMA ItemReadNext ==
  ASSUME NEW items \in Seq(WritableItems), NEW n \in Nat, n + 1 <= Len(items), ReadUpTo(items, n)
  PROVE  ReadUpTo(items, n + 1)
<1> DEFINE ww == [k \in 1 .. Len(items) |-> Written(items[k])]
           item == items[n + 1]
           v == WrittenUpTo(items, n)
           w == Written(item)
           mid == ScanText(ScanStart, v)
           kept == KeptUpTo(items, n)
<1>0. Len(items) \in Nat /\ n + 1 \in 1 .. Len(items) /\ item \in WritableItems
  BY LenProperties, ElementOfSeq
<1>1. AtText(mid) /\ SoFar(mid) = Shown(kept) /\ v \in Seq(AnyChar)
  BY DEF ReadUpTo
<1>2. ASSUME NEW k \in 1 .. n + 1
      PROVE  k \in 1 .. Len(items) /\ items[k] \in WritableItems
  BY <1>0, ElementOfSeq
<1>3. \A k \in 1 .. n + 1 : ww[k] \in Seq(AnyChar)
  <2> SUFFICES ASSUME NEW k \in 1 .. n + 1
               PROVE  ww[k] \in Seq(AnyChar)
    OBVIOUS
  <2>1. Written(items[k]) \in Seq(AnyChar)
    BY <1>1, <1>2, ItemRead
  <2> QED
    BY <1>2, <2>1
<1>4. WrittenUpTo(items, n + 1) = v \o w
  <2>1. ww[n + 1] = w
    BY <1>0
  <2>2. WrittenUpTo(items, n + 1) = Flat(ww, n + 1) /\ v = Flat(ww, n)
    BY DEF WrittenUpTo
  <2> HIDE DEF ww, v, w
  <2>3. Flat(ww, n + 1) = Flat(ww, n) \o ww[n + 1]
    BY <1>3, FlatNext
  <2> QED
    BY <2>1, <2>2, <2>3
<1>5. KeptUpTo(items, n + 1) = Append(kept, Kept(item)) /\ kept \in Seq(ItemSet) /\ Kept(item) \in ItemSet
  <2>1. \A k \in 1 .. n + 1 : Kept(items[k]) \in ItemSet
    BY <1>2, KeptItems
  <2>2. n + 1 \in 1 .. n + 1 /\ \A k \in 1 .. n : k \in 1 .. n + 1
    OBVIOUS
  <2>3. kept \in Seq(ItemSet) /\ Len(kept) = n
    <3>1. \A k \in 1 .. n : Kept(items[k]) \in ItemSet
      BY <2>1, <2>2
    <3> QED
      BY <3>1 DEF KeptUpTo
  <2>4. KeptUpTo(items, n + 1) \in Seq(ItemSet) /\ Len(KeptUpTo(items, n + 1)) = n + 1
    BY <2>1 DEF KeptUpTo
  <2>5. \A k \in 1 .. n + 1 : KeptUpTo(items, n + 1)[k] = Append(kept, Kept(item))[k]
    <3> SUFFICES ASSUME NEW k \in 1 .. n + 1
                 PROVE  KeptUpTo(items, n + 1)[k] = Append(kept, Kept(item))[k]
      OBVIOUS
    <3>1. CASE k = n + 1
      <4>1. Append(kept, Kept(item))[k] = Kept(item)
        BY <2>3, <3>1, AppendProperties
      <4> QED
        BY <3>1, <4>1 DEF KeptUpTo
    <3>2. CASE k # n + 1
      <4>1. k \in 1 .. n
        BY <3>2
      <4> HIDE DEF kept
      <4>2. Append(kept, Kept(item))[k] = kept[k]
        BY <2>3, <4>1, AppendProperties
      <4> QED
        BY <4>1, <4>2 DEF kept, KeptUpTo
    <3> QED
      BY <3>1, <3>2
  <2>6. Kept(item) \in ItemSet
    BY <2>1, <2>2
  <2>7. Append(kept, Kept(item)) \in Seq(ItemSet) /\ Len(Append(kept, Kept(item))) = n + 1
    BY <2>3, <2>6, AppendProperties
  <2> HIDE DEF kept
  <2> QED
    BY <2>3, <2>4, <2>5, <2>6, <2>7, SeqEqual
<1> HIDE DEF v, w, mid, kept, item
<1>6. /\ AtText(ScanText(mid, w)) /\ SoFar(ScanText(mid, w)) = SoFar(mid) \o ShownItem(Kept(item))
      /\ w \in Seq(AnyChar)
  BY <1>0, <1>1, ItemRead DEF w
<1>7. ScanText(ScanStart, v \o w) = ScanText(mid, w)
  BY <1>1, <1>6, TextsRead DEF mid
<1>8. Shown(Append(kept, Kept(item))) = Shown(kept) \o ShownItem(Kept(item))
  BY <1>5, ShownMore
<1>9. v \o w \in Seq(AnyChar)
  BY <1>1, <1>6, ConcatProperties
<1> QED
  BY <1>1, <1>4, <1>5, <1>6, <1>7, <1>8, <1>9 DEF ReadUpTo

(***************************************************************************)
(* Pattern::CompilesTo, for every sequence of items that can be written: a *)
(* pattern compiles to what it was written from, however its characters    *)
(* and flags are put next to each other, with the widths that are left     *)
(* (pattern_formatter::compile_pattern_ with handle_padspec_ and           *)
(* handle_flag_).  The scan is after every item in the text again, with    *)
(* that item added to what it has read.                                    *)
(***************************************************************************)
THEOREM PatternsAreRead ==
  ASSUME NEW items \in Seq(WritableItems)
  PROVE  CompilesTo(items)
<1> DEFINE n == Len(items)
           S == {k \in Nat : k <= n => ReadUpTo(items, k)}
           pattern == WrittenUpTo(items, n)
           scan == ScanText(ScanStart, pattern)
<1>0. n \in Nat /\ DOMAIN items = 1 .. n
  BY LenProperties
<1>1. 0 \in S
  BY NothingWritten
<1>2. ASSUME NEW k \in S
      PROVE  k + 1 \in S
  BY <1>0, <1>2, ItemReadNext
<1> HIDE DEF S
<1>3. S = Nat
  <2>1. S \in SUBSET Nat
    BY DEF S
  <2> QED
    BY <1>1, <1>2, <2>1, SetInduction
<1>4. AtText(scan) /\ SoFar(scan) = Shown(KeptUpTo(items, n)) /\ pattern \in Seq(AnyChar)
  <2>1. ReadUpTo(items, n)
    <3>1. n \in S
      BY <1>0, <1>3
    <3> QED
      BY <1>0, <3>1 DEF S
  <2> QED
    BY <2>1 DEF ReadUpTo
<1>5. FlattenSeq([k \in DOMAIN items |-> Written(items[k])]) = pattern
  <2> DEFINE ww == [k \in 1 .. n |-> Written(items[k])]
  <2>1. ww = [k \in 1 .. n |-> ww[k]] /\ [k \in DOMAIN items |-> Written(items[k])] = ww
    BY <1>0
  <2>2. pattern = Flat(ww, n)
    BY DEF WrittenUpTo
  <2> HIDE DEF ww
  <2> QED
    BY <2>1, <2>2 DEF Flat
<1>6. [k \in DOMAIN items |-> [items[k] EXCEPT !.width = IF @ % SizeLimit < MaxWidth THEN @ % SizeLimit ELSE MaxWidth]]
        = KeptUpTo(items, n)
  BY <1>0 DEF KeptUpTo, Kept, Limited
<1> HIDE DEF scan, pattern
<1>7. Compile(pattern) = PushText(scan)
  <2>1. Len(pattern) \in Nat
    BY <1>4, LenProperties
  <2> QED
    BY <1>4, <2>1, CompileReads DEF AtText, scan
<1>8. Shown(PushText(scan)) = SoFar(scan)
  BY <1>4, PushedShown
<1> QED
  BY <1>4, <1>5, <1>6, <1>7, <1>8 DEF CompilesTo

-----------------------------------------------------------------------------
(* Padding, and the sizes that fields tell the padder.                     *)

\* Whatever its side and width, a field that tells its size is padded to the width
\* asked for, or to its own, with the spaces where they belong (scoped_padder).
THEOREM FieldsArePadded ==
  ASSUME NEW side \in Sides, NEW width \in Nat, NEW n \in Nat
  PROVE  PadsTo(side, width, n)
<1> DEFINE total == IF width <= n THEN 0 ELSE width - n
           pads == Pad(side, width, n)
<1>1. pads = CASE side = "left" -> <<total, 0>> [] side = "right" -> <<0, total>>
               [] side = "center" -> <<total \div 2, (total \div 2) + (total % 2)>>
  BY DEF Pad
<1>2. total \in Nat /\ total + n = (IF n < width THEN width ELSE n)
  OBVIOUS
<1> HIDE DEF total
<1>3. total \div 2 \in Nat /\ total % 2 \in {0, 1} /\ (total \div 2) + (total \div 2) + (total % 2) = total
  BY <1>2
<1> DEFINE wide == IF n < width THEN width ELSE n
           half == total \div 2
           odd == total % 2
<1>4. wide = total + n /\ half \in Nat /\ odd \in {0, 1} /\ half + half + odd = total
  BY <1>2, <1>3
<1> SUFFICES /\ pads[1] + n + pads[2] = wide
             /\ side = "left" => pads[2] = 0
             /\ side = "right" => pads[1] = 0
             /\ side = "center" => pads[2] - pads[1] \in {0, 1}
  BY DEF PadsTo
<1> HIDE DEF pads, wide, half, odd
<1>5. CASE side = "left"
  BY <1>1, <1>2, <1>4, <1>5
<1>6. CASE side = "right"
  BY <1>1, <1>2, <1>4, <1>6
<1>7. CASE side = "center"
  <2>1. pads = <<half, half + odd>>
    BY <1>1, <1>7 DEF half, odd
  <2>2. pads[1] = half /\ pads[2] = half + odd
    BY <2>1
  <2>3. half + n + (half + odd) = total + n /\ (half + odd) - half = odd
    BY <1>2, <1>4
  <2> QED
    BY <1>4, <1>7, <2>2, <2>3
<1> QED
  BY <1>5, <1>6, <1>7 DEF Sides

\* A field that tells its size, or is one of those known not to.
Told(flag, field) ==
  field.said = field.size \/ flag \in {"c", "D", "x"} \/ (field.kind = "elapsed" /\ field.value < 0)
AllTold(table) == \A flag \in DOMAIN table : Told(flag, table[flag])

\* Every field tells its size but for those known: of every message, for every second
\* broken down, and whatever the time since the last one.
THEOREM SizesAreTold ==
  ASSUME NEW msg, msg.time \in Int, NEW tm, NEW since \in Int
  PROVE  SizesTold(msg, tm, since)
<1> DEFINE second == msg.time \div TicksPerSecond
           delta == msg.time - since
           tables == {LoggerFields(msg), MessageFields(msg), NamedDayFields(tm), DateFields(tm),
                      ClockFields(tm, second), HourFields(tm), ElapsedFields(delta), SourceFields(msg)}
<1>1. AllTold(LoggerFields(msg)) /\ AllTold(MessageFields(msg)) /\ AllTold(SourceFields(msg))
  <2>1. \A n, flag : Told(flag, Name(n))
    BY DEF Told, Name, Field
  <2>2. \A flag \in {"n", "l", "L"} : \E n : LoggerFields(msg)[flag] = Name(n)
    BY DEF LoggerFields
  <2>3. \A flag \in {"t", "P", "v"} : \E n : MessageFields(msg)[flag] = Name(n)
    BY DEF MessageFields
  <2>4. \A flag \in SourceFlags : \E n : SourceFields(msg)[flag] = Name(n)
    BY DEF SourceFields
  <2>5. DOMAIN LoggerFields(msg) = {"n", "l", "L"} /\ DOMAIN MessageFields(msg) = {"t", "P", "v"}
        /\ DOMAIN SourceFields(msg) = SourceFlags
    BY DEF LoggerFields, MessageFields, SourceFields
  <2> QED
    BY <2>1, <2>2, <2>3, <2>4, <2>5 DEF AllTold
<1>2. AllTold(NamedDayFields(tm)) /\ AllTold(HourFields(tm))
  BY DEF AllTold, Told, NamedDayFields, HourFields, Shows, Field
<1>3. AllTold(DateFields(tm))
  <2> SUFFICES ASSUME NEW flag \in {"c", "C", "m", "d", "D", "x", "Y"}
               PROVE  Told(flag, DateFields(tm)[flag])
    BY DEF AllTold, DateFields
  <2>1. flag \notin {"c", "D", "x"} => \E n : DateFields(tm)[flag] = Field(n, n, "second", tm)
    BY DEF DateFields, Shows
  <2>2. CASE flag \in {"c", "D", "x"}
    BY <2>2 DEF Told
  <2>3. CASE flag \notin {"c", "D", "x"}
    <3>1. PICK n : DateFields(tm)[flag] = Field(n, n, "second", tm)
      BY <2>1, <2>3
    <3>2. DateFields(tm)[flag].said = DateFields(tm)[flag].size
      BY <3>1 DEF Field
    <3> QED
      BY <3>2 DEF Told
  <2> QED
    BY <2>2, <2>3
<1>4. AllTold(ClockFields(tm, second))
  BY DEF AllTold, Told, ClockFields, Shows, Field
<1>5. AllTold(ElapsedFields(delta))
  <2>1. delta \in Int /\ TicksPerSecond \in Nat \ {0}
    BY PatternAssumption
  <2> HIDE DEF delta
  <2> SUFFICES ASSUME NEW flag \in {"u", "i", "o", "O"}
               PROVE  Told(flag, ElapsedFields(delta)[flag])
    BY DEF AllTold, ElapsedFields
  <2> DEFINE unit == IF flag = "O" THEN TicksPerSecond ELSE 1
  <2>2. ElapsedFields(delta)[flag] = Field(6, IF -delta >= unit THEN 20 ELSE 6, "elapsed", delta)
    BY DEF ElapsedFields
  <2>3. unit \in Nat \ {0}
    BY <2>1
  <2> HIDE DEF unit
  <2>4. -delta >= unit => delta < 0
    BY <2>1, <2>3
  <2> QED
    BY <2>2, <2>4 DEF Told, Field
<1>6. Fields(msg, tm, since) =
        [flag \in UNION {DOMAIN table : table \in tables} |-> (CHOOSE table \in tables : flag \in DOMAIN table)[flag]]
  BY DEF Fields
<1>7. \A table \in tables : AllTold(table)
  BY <1>1, <1>2, <1>3, <1>4, <1>5
<1> HIDE DEF tables
<1>8. ASSUME NEW flag \in UNION {DOMAIN table : table \in tables}
      PROVE  Told(flag, Fields(msg, tm, since)[flag])
  <2> DEFINE table == CHOOSE table \in tables : flag \in DOMAIN table
  <2>1. table \in tables /\ flag \in DOMAIN table
    OBVIOUS
  <2>2. Fields(msg, tm, since)[flag] = table[flag]
    BY <1>6
  <2> HIDE DEF table
  <2> QED
    BY <1>7, <2>1, <2>2 DEF AllTold
<1> QED
  BY <1>6, <1>8 DEF SizesTold, Told

-----------------------------------------------------------------------------
(* What flags append.                                                      *)

\* A message whose parts have sizes, and a second that can be broken down.
MsgSet ==
  [name : Nat, level : Nat, payload : Nat, thread : Nat, pid : Nat, file : Nat, base : Nat, line : Nat,
   func : Nat, time : Int]
Dated(tm) == LocalTime(tm) \in [wday : 0 .. 6, mon : 0 .. 11, mday : Nat]

\* A field that has sizes, and shows of a second and an elapsed time only those given.
RightField(field, tm, second, delta) ==
  /\ field \in [said : Nat, size : Nat, kind : {"name", "second", "elapsed"}, value : Int]
  /\ field.kind = "second" => field.value \in {tm, second}
  /\ field.kind = "elapsed" => field.value = delta

RightFields(fields, flags, tm, second, delta) ==
  DOMAIN fields = flags /\ \A flag \in flags : RightField(fields[flag], tm, second, delta)

LEMMA NameIsRight ==
  ASSUME NEW n \in Nat, NEW tm, NEW second, NEW delta
  PROVE  RightField(Name(n), tm, second, delta)
BY DEF RightField, Name, Field

LEMMA SecondIsRight ==
  ASSUME NEW said \in Nat, NEW n \in Nat, NEW tm \in Int, NEW second \in Int, NEW delta, NEW value \in {tm, second}
  PROVE  RightField(Field(said, n, "second", value), tm, second, delta)
BY DEF RightField, Field

LEMMA ElapsedIsRight ==
  ASSUME NEW said \in Nat, NEW n \in Nat, NEW tm, NEW second, NEW delta \in Int
  PROVE  RightField(Field(said, n, "elapsed", delta), tm, second, delta)
BY DEF RightField, Field

\* The sizes of the names of days and months.
LEMMA NameSizes ==
  ASSUME NEW tm, Dated(tm)
  PROVE  /\ FullDays[LocalTime(tm).wday + 1] \in Nat /\ ShortMonths[LocalTime(tm).mon + 1] \in Nat
         /\ FullMonths[LocalTime(tm).mon + 1] \in Nat /\ SmallSize(LocalTime(tm).mday) \in Nat
<1>1. LocalTime(tm).wday \in 0 .. 6 /\ LocalTime(tm).mon \in 0 .. 11
  BY DEF Dated
<1>2. \A k \in 0 .. 6 : FullDays[k + 1] \in Nat
  <2>1. \A k \in 1 .. 7 : FullDays[k] \in Nat
    BY DEF FullDays
  <2> HIDE DEF FullDays
  <2> QED
    BY <2>1
<1>3. \A k \in 0 .. 11 : ShortMonths[k + 1] \in Nat /\ FullMonths[k + 1] \in Nat
  <2>1. \A k \in 1 .. 12 : ShortMonths[k] \in Nat
    BY DEF ShortMonths
  <2>2. \A k \in 1 .. 12 : FullMonths[k] \in Nat
    BY DEF FullMonths
  <2> QED
    BY <2>1, <2>2
<1> QED
  BY <1>1, <1>2, <1>3 DEF SmallSize

LEMMA LoggerFieldsRight ==
  ASSUME NEW msg \in MsgSet, NEW tm, NEW second, NEW delta
  PROVE  RightFields(LoggerFields(msg), {"n", "l", "L"}, tm, second, delta)
<1>1. ASSUME NEW flag \in {"n", "l", "L"}
      PROVE  RightField(LoggerFields(msg)[flag], tm, second, delta)
  <2>1. PICK n \in Nat : LoggerFields(msg)[flag] = Name(n)
    BY DEF LoggerFields, MsgSet
  <2> QED
    BY <2>1, NameIsRight
<1> QED
  BY <1>1 DEF RightFields, LoggerFields

LEMMA MessageFieldsRight ==
  ASSUME NEW msg \in MsgSet, NEW tm, NEW second, NEW delta
  PROVE  RightFields(MessageFields(msg), {"t", "P", "v"}, tm, second, delta)
<1>1. ASSUME NEW flag \in {"t", "P", "v"}
      PROVE  RightField(MessageFields(msg)[flag], tm, second, delta)
  <2>1. PICK n \in Nat : MessageFields(msg)[flag] = Name(n)
    BY DEF MessageFields, MsgSet
  <2> QED
    BY <2>1, NameIsRight
<1> QED
  BY <1>1 DEF RightFields, MessageFields

LEMMA NamedDayFieldsRight ==
  ASSUME NEW tm \in Int, Dated(tm), NEW second \in Int, NEW delta
  PROVE  RightFields(NamedDayFields(tm), {"a", "A", "b", "h", "B"}, tm, second, delta)
<1>1. ASSUME NEW flag \in {"a", "A", "b", "h", "B"}
      PROVE  RightField(NamedDayFields(tm)[flag], tm, second, delta)
  <2>1. PICK n \in Nat : NamedDayFields(tm)[flag] = Field(n, n, "second", tm)
    BY NameSizes DEF NamedDayFields, Shows
  <2> QED
    BY <2>1, SecondIsRight
<1> QED
  BY <1>1 DEF RightFields, NamedDayFields

LEMMA DateFieldsRight ==
  ASSUME NEW tm \in Int, Dated(tm), NEW second \in Int, NEW delta
  PROVE  RightFields(DateFields(tm), {"c", "C", "m", "d", "D", "x", "Y"}, tm, second, delta)
<1> DEFINE c == 3 + 1 + ShortMonths[LocalTime(tm).mon + 1] + 1 + SmallSize(LocalTime(tm).mday) + 1 + 8 + 1 + 4
<1>1. c \in Nat
  <2>1. ShortMonths[LocalTime(tm).mon + 1] \in Nat /\ SmallSize(LocalTime(tm).mday) \in Nat
    BY NameSizes
  <2> QED
    BY <2>1
<1>2. DateFields(tm) = [flag \in {"c", "C", "m", "d", "D", "x", "Y"} |->
         CASE flag = "c" -> Field(24, c, "second", tm) [] flag \in {"C", "m", "d"} -> Shows(2, tm)
           [] flag \in {"D", "x"} -> Field(10, 8, "second", tm) [] flag = "Y" -> Shows(4, tm)]
  BY DEF DateFields
<1> HIDE DEF c
<1>3. ASSUME NEW flag \in {"c", "C", "m", "d", "D", "x", "Y"}
      PROVE  RightField(DateFields(tm)[flag], tm, second, delta)
  <2>1. PICK said \in Nat, n \in Nat : DateFields(tm)[flag] = Field(said, n, "second", tm)
    BY <1>1, <1>2 DEF Shows
  <2> QED
    BY <2>1, SecondIsRight
<1> QED
  BY <1>2, <1>3 DEF RightFields

LEMMA ClockFieldsRight ==
  ASSUME NEW tm \in Int, NEW second \in Int, NEW delta
  PROVE  RightFields(ClockFields(tm, second), {"H", "I", "M", "S", "e", "f", "F", "E"}, tm, second, delta)
<1>1. ASSUME NEW flag \in {"H", "I", "M", "S", "e", "f", "F", "E"}
      PROVE  RightField(ClockFields(tm, second)[flag], tm, second, delta)
  <2>1. PICK n \in Nat, value \in {tm, second} :
          ClockFields(tm, second)[flag] = Field(n, n, "second", value)
    BY DEF ClockFields, Shows
  <2> QED
    BY <2>1, SecondIsRight
<1> QED
  BY <1>1 DEF RightFields, ClockFields

LEMMA HourFieldsRight ==
  ASSUME NEW tm \in Int, NEW second \in Int, NEW delta
  PROVE  RightFields(HourFields(tm), {"p", "r", "R", "T", "X", "z"}, tm, second, delta)
<1>1. ASSUME NEW flag \in {"p", "r", "R", "T", "X", "z"}
      PROVE  RightField(HourFields(tm)[flag], tm, second, delta)
  <2>1. PICK n \in Nat : HourFields(tm)[flag] = Field(n, n, "second", tm)
    BY DEF HourFields, Shows
  <2> QED
    BY <2>1, SecondIsRight
<1> QED
  BY <1>1 DEF RightFields, HourFields

LEMMA ElapsedFieldsRight ==
  ASSUME NEW tm, NEW second, NEW delta \in Int
  PROVE  RightFields(ElapsedFields(delta), {"u", "i", "o", "O"}, tm, second, delta)
<1>1. ASSUME NEW flag \in {"u", "i", "o", "O"}
      PROVE  RightField(ElapsedFields(delta)[flag], tm, second, delta)
  <2>1. PICK n \in {6, 20} : ElapsedFields(delta)[flag] = Field(6, n, "elapsed", delta)
    BY DEF ElapsedFields
  <2>2. n \in Nat
    OBVIOUS
  <2> QED
    BY <2>1, <2>2, ElapsedIsRight
<1> QED
  BY <1>1 DEF RightFields, ElapsedFields

LEMMA SourceFieldsRight ==
  ASSUME NEW msg \in MsgSet, NEW tm, NEW second, NEW delta
  PROVE  RightFields(SourceFields(msg), SourceFlags, tm, second, delta)
<1>1. ASSUME NEW flag \in SourceFlags
      PROVE  RightField(SourceFields(msg)[flag], tm, second, delta)
  <2>1. PICK n \in Nat : SourceFields(msg)[flag] = Name(n)
    BY DEF SourceFields, SourceFlags, MsgSet
  <2> QED
    BY <2>1, NameIsRight
<1> QED
  BY <1>1 DEF RightFields, SourceFields

FieldFlags == ItemFlags \ {"chars", "^", "$", "+"}

\* Every flag but those that are no fields has a field, which shows the second
\* broken down, that of the message, or the time since the last one.
LEMMA FieldsRight ==
  ASSUME NEW msg \in MsgSet, NEW tm \in Int, Dated(tm), NEW since \in Int
  PROVE  RightFields(Fields(msg, tm, since), FieldFlags, tm, msg.time \div TicksPerSecond, msg.time - since)
<1> DEFINE second == msg.time \div TicksPerSecond
           delta == msg.time - since
           tables == {LoggerFields(msg), MessageFields(msg), NamedDayFields(tm), DateFields(tm),
                      ClockFields(tm, second), HourFields(tm), ElapsedFields(delta), SourceFields(msg)}
           flags == {{"n", "l", "L"}, {"t", "P", "v"}, {"a", "A", "b", "h", "B"},
                     {"c", "C", "m", "d", "D", "x", "Y"}, {"H", "I", "M", "S", "e", "f", "F", "E"},
                     {"p", "r", "R", "T", "X", "z"}, {"u", "i", "o", "O"}, SourceFlags}
           right(table, set) == RightFields(table, set, tm, second, delta)
<1>1. second \in Int /\ delta \in Int
  BY PatternAssumption DEF MsgSet
<1>2. Fields(msg, tm, since) =
        [flag \in UNION {DOMAIN table : table \in tables} |-> (CHOOSE table \in tables : flag \in DOMAIN table)[flag]]
  BY DEF Fields
<1> HIDE DEF second, delta
<1>3. /\ right(LoggerFields(msg), {"n", "l", "L"}) /\ right(MessageFields(msg), {"t", "P", "v"})
      /\ right(NamedDayFields(tm), {"a", "A", "b", "h", "B"})
      /\ right(DateFields(tm), {"c", "C", "m", "d", "D", "x", "Y"})
      /\ right(ClockFields(tm, second), {"H", "I", "M", "S", "e", "f", "F", "E"})
      /\ right(HourFields(tm), {"p", "r", "R", "T", "X", "z"})
      /\ right(ElapsedFields(delta), {"u", "i", "o", "O"}) /\ right(SourceFields(msg), SourceFlags)
  BY <1>1, LoggerFieldsRight, MessageFieldsRight, NamedDayFieldsRight, DateFieldsRight, ClockFieldsRight,
     HourFieldsRight, ElapsedFieldsRight, SourceFieldsRight
<1> HIDE DEF right
<1>4. \A table \in tables : \E set \in flags : right(table, set)
  BY <1>3
<1>5. \A set \in flags : \E table \in tables : right(table, set)
  BY <1>3
<1>6. UNION flags = FieldFlags
  BY DEF FieldFlags, ItemFlags, KnownFlags, SourceFlags
<1> HIDE DEF tables, flags
<1>7. \A table \in tables : DOMAIN table \in flags
  BY <1>4 DEF right, RightFields
<1>8. \A set \in flags : \E table \in tables : DOMAIN table = set
  BY <1>5 DEF right, RightFields
<1>9. UNION {DOMAIN table : table \in tables} = FieldFlags
  BY <1>6, <1>7, <1>8
<1>10. ASSUME NEW flag \in FieldFlags
       PROVE  RightField(Fields(msg, tm, since)[flag], tm, second, delta)
  <2> DEFINE table == CHOOSE table \in tables : flag \in DOMAIN table
  <2>1. table \in tables /\ flag \in DOMAIN table
    BY <1>9
  <2>2. Fields(msg, tm, since)[flag] = table[flag]
    BY <1>2, <1>9
  <2> HIDE DEF table
  <2> QED
    BY <1>4, <2>1, <2>2 DEF right, RightFields
<1>11. DOMAIN Fields(msg, tm, since) = FieldFlags
  BY <1>2, <1>9
<1> QED
  BY <1>10, <1>11 DEF RightFields, second, delta

LEMMA PadsAreNumbers ==
  ASSUME NEW side \in Sides, NEW width \in Nat, NEW n \in Nat
  PROVE  Pad(side, width, n)[1] \in Nat /\ Pad(side, width, n)[2] \in Nat
<1> DEFINE total == IF width <= n THEN 0 ELSE width - n
<1>1. total \in Nat
  OBVIOUS
<1>2. Pad(side, width, n) = CASE side = "left" -> <<total, 0>> [] side = "right" -> <<0, total>>
                              [] side = "center" -> <<total \div 2, (total \div 2) + (total % 2)>>
  BY DEF Pad
<1> HIDE DEF total
<1>3. total \div 2 \in Nat /\ total % 2 \in Nat
  BY <1>1
<1>4. CASE side = "left"
  BY <1>1, <1>2, <1>4
<1>5. CASE side = "right"
  BY <1>1, <1>2, <1>5
<1>6. CASE side = "center"
  BY <1>2, <1>3, <1>6
<1> QED
  BY <1>4, <1>5, <1>6 DEF Sides

-----------------------------------------------------------------------------
(* Formatting a line.                                                      *)

OutSet == [size : Nat, shows : SUBSET Int, elapsed : SUBSET Int, start : Nat, end : Nat]

\* A text that shows no other second and elapsed time than those given.
RightOut(out, second, delta) == out \in OutSet /\ out.shows \subseteq {second} /\ out.elapsed \subseteq {delta}

\* A text grows, and its colour range ends in it once an item has marked its end.
Continues(out, more, item) == item.flag \in {"$", "+"} \/ out.end <= out.size => more.end <= more.size

LEMMA SizeAdded ==
  ASSUME NEW second, NEW delta, NEW out, RightOut(out, second, delta), NEW n \in Nat, NEW item,
         item.flag \notin {"$", "+"}
  PROVE  RightOut([out EXCEPT !.size = @ + n], second, delta) /\ Continues(out, [out EXCEPT !.size = @ + n], item)
<1> DEFINE more == [out EXCEPT !.size = out.size + n]
<1>1. out \in OutSet /\ out.size \in Nat /\ out.end \in Nat
  BY DEF RightOut, OutSet
<1>2. out.size + n \in Nat /\ (out.end <= out.size => out.end <= out.size + n)
  BY <1>1
<1>3. more \in OutSet /\ more.shows = out.shows /\ more.elapsed = out.elapsed /\ more.end = out.end
      /\ more.size = out.size + n
  BY <1>1, <1>2 DEF OutSet
<1> QED
  BY <1>2, <1>3 DEF RightOut, Continues

LEMMA FieldAppended ==
  ASSUME NEW msg \in MsgSet, NEW tm \in Int, Dated(tm), NEW since \in Int, NEW cached,
         NEW item \in ItemSet, item.flag \in FieldFlags, ~ (item.flag \in SourceFlags /\ msg.line = 0),
         tm = msg.time \div TicksPerSecond,
         NEW out, RightOut(out, tm, msg.time - since)
  PROVE  /\ RightOut(AppendItem(out, item, msg, tm, since, cached), tm, msg.time - since)
         /\ Continues(out, AppendItem(out, item, msg, tm, since, cached), item)
<1> DEFINE delta == msg.time - since
           field == Fields(msg, tm, since)[item.flag]
           n == field.size + Spaces(item, field)
           longer == [out EXCEPT !.size = @ + n]
           more == AppendItem(out, item, msg, tm, since, cached)
<1>1. RightField(field, tm, tm, delta)
  BY FieldsRight DEF RightFields
<1>2. item.flag \notin {"chars", "^", "$", "+"}
  BY DEF FieldFlags
<1>3. more = CASE field.kind = "second" -> [longer EXCEPT !.shows = longer.shows \cup {field.value}]
               [] field.kind = "elapsed" -> [longer EXCEPT !.elapsed = longer.elapsed \cup {field.value}]
               [] OTHER -> longer
  BY <1>2 DEF AppendItem
<1>4. n \in Nat
  <2>1. field.said \in Nat /\ field.size \in Nat
    BY <1>1 DEF RightField
  <2>2. item.side \in Sides /\ item.width \in Nat
    BY DEF ItemSet
  <2>3. Spaces(item, field) \in Nat
    BY <2>1, <2>2, PadsAreNumbers, SMTT(30) DEF Spaces
  <2> HIDE DEF field
  <2> QED
    BY <2>1, <2>3
<1>5. RightOut(out, tm, delta)
  OBVIOUS
<1> HIDE DEF n, field, more, delta
<1>6. RightOut(longer, tm, delta) /\ Continues(out, longer, item)
  BY <1>2, <1>4, <1>5, SizeAdded
<1> HIDE DEF longer
<1>7. RightOut(more, tm, delta) /\ more.size = longer.size /\ more.end = longer.end
  <2>1. CASE field.kind = "second"
    <3>1. more = [longer EXCEPT !.shows = longer.shows \cup {field.value}]
      BY <1>3, <2>1
    <3>2. field.value = tm
      BY <1>1, <2>1 DEF RightField
    <3> QED
      BY <1>6, <3>1, <3>2 DEF RightOut, OutSet
  <2>2. CASE field.kind = "elapsed"
    <3>1. more = [longer EXCEPT !.elapsed = longer.elapsed \cup {field.value}]
      BY <1>3, <2>2
    <3>2. field.value = delta /\ delta \in Int
      BY <1>1, <2>2 DEF RightField, delta, MsgSet
    <3> QED
      BY <1>6, <3>1, <3>2 DEF RightOut, OutSet
  <2>3. CASE field.kind \notin {"second", "elapsed"}
    BY <1>3, <1>6, <2>3
  <2> QED
    BY <2>1, <2>2, <2>3
<1> QED
  BY <1>6, <1>7 DEF Continues, more, delta

LEMMA FullAppended ==
  ASSUME NEW msg \in MsgSet, NEW tm \in Int, NEW since, NEW item, item.flag = "+",
         tm = msg.time \div TicksPerSecond, NEW delta,
         NEW out, RightOut(out, tm, delta)
  PROVE  /\ RightOut(AppendItem(out, item, msg, tm, since, tm), tm, delta)
         /\ Continues(out, AppendItem(out, item, msg, tm, since, tm), item)
<1> DEFINE before == 26 + (IF msg.name > 0 THEN msg.name + 3 ELSE 0) + 1
           source == IF msg.line = 0 THEN 0 ELSE msg.base + 1 + msg.line + 3
           start == out.size + before
           end == out.size + before + msg.level
           total == out.size + before + msg.level + 2 + source + msg.payload
           shown == out.shows \cup {tm, msg.time \div TicksPerSecond}
           more == AppendItem(out, item, msg, tm, since, tm)
<1>1. more = [out EXCEPT !.start = start, !.end = end, !.size = total, !.shows = shown]
  <2>1. item.flag \notin {"chars", "^", "$"} /\ item.flag \notin SourceFlags
    BY DEF SourceFlags
  <2> QED
    BY <2>1 DEF AppendItem
<1>2. msg.name \in Nat /\ msg.line \in Nat /\ msg.base \in Nat /\ msg.level \in Nat /\ msg.payload \in Nat
  BY DEF MsgSet
<1>3. before \in Nat /\ source \in Nat
  BY <1>2
<1>4. out \in OutSet /\ out.size \in Nat
  BY DEF RightOut, OutSet
<1>5. shown \subseteq {tm} /\ shown \in SUBSET Int
  BY DEF RightOut
<1> HIDE DEF before, source, shown, more
<1>6. start \in Nat /\ end \in Nat /\ total \in Nat /\ end <= total
  BY <1>2, <1>3, <1>4
<1> HIDE DEF start, end, total
<1>8. more \in OutSet /\ more.shows = shown /\ more.elapsed = out.elapsed /\ more.end = end /\ more.size = total
  BY <1>1, <1>4, <1>5, <1>6 DEF OutSet
<1> QED
  BY <1>5, <1>6, <1>8 DEF RightOut, Continues, more

\* Every item keeps to the second and the elapsed time of the message.
LEMMA ItemAppended ==
  ASSUME NEW msg \in MsgSet, NEW tm \in Int, Dated(tm), NEW since \in Int, NEW cached,
         NEW item \in ItemSet, tm = msg.time \div TicksPerSecond, item.flag = "+" => cached = tm,
         NEW out, RightOut(out, tm, msg.time - since)
  PROVE  /\ RightOut(AppendItem(out, item, msg, tm, since, cached), tm, msg.time - since)
         /\ Continues(out, AppendItem(out, item, msg, tm, since, cached), item)
<1> DEFINE delta == msg.time - since
           more == AppendItem(out, item, msg, tm, since, cached)
<1>0. RightOut(out, tm, delta)
  OBVIOUS
<1> HIDE DEF delta
<1>1. CASE item.flag = "chars"
  <2>1. Len(item.text) \in Nat
    BY LenProperties DEF ItemSet
  <2>2. more = [out EXCEPT !.size = @ + Len(item.text)]
    BY <1>1 DEF AppendItem, SourceFlags
  <2>3. item.flag \notin {"$", "+"}
    BY <1>1
  <2> DEFINE n == Len(item.text)
             longer == [out EXCEPT !.size = @ + n]
  <2>4. more = longer
    BY <2>2
  <2>5. n \in Nat
    BY <2>1
  <2> HIDE DEF more, n
  <2>6. RightOut(longer, tm, delta) /\ Continues(out, longer, item)
    BY <1>0, <2>3, <2>5, SizeAdded
  <2> HIDE DEF longer
  <2> QED
    BY <2>4, <2>6 DEF more, delta
<1>2. CASE item.flag = "^"
  <2>1. more = [out EXCEPT !.start = out.size]
    BY <1>2 DEF AppendItem, SourceFlags
  <2> HIDE DEF more
  <2> QED
    BY <1>0, <1>2, <2>1 DEF RightOut, OutSet, Continues, more, delta
<1>3. CASE item.flag = "$"
  <2>1. more = [out EXCEPT !.end = out.size]
    BY <1>3 DEF AppendItem, SourceFlags
  <2> HIDE DEF more
  <2> QED
    BY <1>0, <1>3, <2>1 DEF RightOut, OutSet, Continues, more, delta
<1>4. CASE item.flag = "+"
  BY <1>0, <1>4, FullAppended DEF delta
<1>5. CASE item.flag \in SourceFlags /\ msg.line = 0
  <2>1. item.flag \notin {"chars", "^", "$", "+"}
    BY <1>5 DEF SourceFlags
  <2>2. more = out
    BY <1>5, <2>1 DEF AppendItem
  <2> HIDE DEF more
  <2> QED
    BY <1>0, <2>1, <2>2 DEF Continues, more, delta
<1>6. CASE item.flag \notin {"chars", "^", "$", "+"} /\ ~ (item.flag \in SourceFlags /\ msg.line = 0)
  <2>1. item.flag \in FieldFlags
    BY <1>6 DEF FieldFlags, ItemSet
  <2> QED
    BY <1>6, <2>1, FieldAppended
<1> QED
  BY <1>1, <1>2, <1>3, <1>4, <1>5, <1>6

\* f has the texts after the first n items.
OutputsUpTo(f, items, msg, tm, since, cached, range, n) ==
  f = [k \in 0 .. n |->
         IF k = 0 THEN [size |-> 0, shows |-> {}, elapsed |-> {}, start |-> range[1], end |-> range[2]]
         ELSE AppendItem(f[k - 1], items[k], msg, tm, since, cached)]

LEMMA OutputsExist ==
  ASSUME NEW items, NEW msg, NEW tm, NEW since, NEW cached, NEW range, NEW n \in Nat
  PROVE  \E f : OutputsUpTo(f, items, msg, tm, since, cached, range, n)
<1> DEFINE upTo(f, m) == OutputsUpTo(f, items, msg, tm, since, cached, range, m)
           first == [size |-> 0, shows |-> {}, elapsed |-> {}, start |-> range[1], end |-> range[2]]
           add(out, k) == AppendItem(out, items[k], msg, tm, since, cached)
           S == {m \in Nat : \E f : upTo(f, m)}
<1>0. \A f, m : upTo(f, m) <=> f = [k \in 0 .. m |-> IF k = 0 THEN first ELSE add(f[k - 1], k)]
  BY DEF OutputsUpTo
<1> HIDE DEF upTo, first, add
<1>1. 0 \in S
  <2> DEFINE g == [k \in 0 .. 0 |-> first]
  <2>1. g = [k \in 0 .. 0 |-> IF k = 0 THEN first ELSE add(g[k - 1], k)]
    OBVIOUS
  <2>2. upTo(g, 0)
    BY <1>0, <2>1
  <2> QED
    BY <2>2
<1>2. ASSUME NEW m \in S
      PROVE  m + 1 \in S
  <2>1. PICK f : upTo(f, m)
    BY <1>2
  <2> DEFINE g == [k \in 0 .. m + 1 |-> IF k = m + 1 THEN add(f[m], k) ELSE f[k]]
  <2>2. ASSUME NEW k \in 0 .. m + 1
        PROVE  g[k] = IF k = 0 THEN first ELSE add(g[k - 1], k)
    <3>1. CASE k = m + 1
      <4>1. k # 0 /\ k - 1 = m /\ m \in 0 .. m + 1 /\ m # m + 1
        BY <3>1
      <4> QED
        BY <3>1, <4>1
    <3>2. CASE k # m + 1 /\ k # 0
      <4>1. k \in 0 .. m /\ k - 1 \in 0 .. m + 1 /\ k - 1 # m + 1
        BY <3>2
      <4> QED
        BY <1>0, <2>1, <3>2, <4>1
    <3>3. CASE k = 0
      <4>1. 0 \in 0 .. m /\ 0 # m + 1
        OBVIOUS
      <4> QED
        BY <1>0, <2>1, <3>3, <4>1
    <3> QED
      BY <3>1, <3>2, <3>3
  <2>3. upTo(g, m + 1)
    BY <1>0, <2>2
  <2> QED
    BY <2>3
<1> HIDE DEF S
<1>3. S = Nat
  <2>1. S \in SUBSET Nat
    BY DEF S
  <2> QED
    BY <1>1, <1>2, <2>1, SetInduction
<1> QED
  BY <1>3 DEF S, upTo

LEMMA OutputsAre ==
  ASSUME NEW items, NEW msg, NEW tm, NEW since, NEW cached, NEW range, Len(items) \in Nat
  PROVE  OutputsUpTo(Outputs(items, msg, tm, since, cached, range), items, msg, tm, since, cached, range, Len(items))
<1>1. \E f : OutputsUpTo(f, items, msg, tm, since, cached, range, Len(items))
  BY OutputsExist
<1>2. Outputs(items, msg, tm, since, cached, range) =
        CHOOSE f : OutputsUpTo(f, items, msg, tm, since, cached, range, Len(items))
  BY DEF Outputs, OutputsUpTo
<1> QED
  BY <1>1, <1>2

\* The text of a message shows its second and the time since the last one, and has
\* its colour range in it if its pattern marks the end of one.
LEMMA LineIsRight ==
  ASSUME NEW items \in Seq(ItemSet), NEW msg \in MsgSet, NEW tm \in Int, Dated(tm), NEW since \in Int, NEW cached,
         NEW range \in Nat \X Nat, tm = msg.time \div TicksPerSecond,
         (\E k \in DOMAIN items : items[k].flag = "+") => cached = tm
  PROVE  LET out == Format(items, msg, tm, since, cached, range)
         IN  /\ RightOut(out, tm, msg.time - since)
             /\ (\E k \in DOMAIN items : items[k].flag \in {"$", "+"}) => out.end <= out.size
<1> DEFINE n == Len(items)
           out == Outputs(items, msg, tm, since, cached, range)
           delta == msg.time - since
           marked(k) == \E j \in 1 .. k : items[j].flag \in {"$", "+"}
           S == {k \in Nat : k <= n => RightOut(out[k], tm, delta) /\ (marked(k) => out[k].end <= out[k].size)}
<1>0. n \in Nat /\ DOMAIN items = 1 .. n
  BY LenProperties
<1>1. OutputsUpTo(out, items, msg, tm, since, cached, range, n)
  BY <1>0, OutputsAre
<1> HIDE DEF out
<1>2. 0 \in S
  <2>1. 0 \in 0 .. n
    BY <1>0
  <2>2. out[0] = [size |-> 0, shows |-> {}, elapsed |-> {}, start |-> range[1], end |-> range[2]]
    BY <1>1, <2>1 DEF OutputsUpTo
  <2>3. RightOut(out[0], tm, delta)
    BY <2>2 DEF RightOut, OutSet
  <2>4. ~ marked(0)
    OBVIOUS
  <2> QED
    BY <2>3, <2>4
<1>3. ASSUME NEW k \in S
      PROVE  k + 1 \in S
  <2> SUFFICES ASSUME k + 1 <= n
               PROVE  RightOut(out[k + 1], tm, delta) /\ (marked(k + 1) => out[k + 1].end <= out[k + 1].size)
    OBVIOUS
  <2>1. k + 1 \in 0 .. n /\ k + 1 # 0 /\ (k + 1) - 1 = k /\ k + 1 \in 1 .. n /\ k <= n
    BY <1>0
  <2> DEFINE item == items[k + 1]
  <2>2. out[k + 1] = AppendItem(out[k], item, msg, tm, since, cached)
    BY <1>1, <2>1 DEF OutputsUpTo
  <2>3. item \in ItemSet /\ (item.flag = "+" => cached = tm)
    BY <1>0, <2>1, ElementOfSeq
  <2>4. RightOut(out[k], tm, delta) /\ (marked(k) => out[k].end <= out[k].size)
    BY <1>3, <2>1
  <2>5. marked(k + 1) => marked(k) \/ item.flag \in {"$", "+"}
    <3>1. \A j \in 1 .. k + 1 : j \in 1 .. k \/ j = k + 1
      OBVIOUS
    <3> QED
      BY <3>1
  <2> HIDE DEF item, marked
  <2>6. RightOut(out[k + 1], tm, delta) /\ Continues(out[k], out[k + 1], item)
    BY <2>2, <2>3, <2>4, ItemAppended
  <2> QED
    BY <2>4, <2>5, <2>6 DEF Continues
<1> HIDE DEF S
<1>4. S = Nat
  <2>1. S \in SUBSET Nat
    BY DEF S
  <2> QED
    BY <1>2, <1>3, <2>1, SetInduction
<1>5. RightOut(out[n], tm, delta) /\ (marked(n) => out[n].end <= out[n].size)
  BY <1>0, <1>4 DEF S
<1>6. Format(items, msg, tm, since, cached, range) = out[n]
  BY DEF Format, out
<1>7. (\E k \in DOMAIN items : items[k].flag \in {"$", "+"}) => marked(n)
  BY <1>0
<1> QED
  BY <1>5, <1>6, <1>7

-----------------------------------------------------------------------------
(* The coloured sinks.                                                     *)

SomeSecond == 0 .. LastTime \div TicksPerSecond
SomeTime == 0 .. LastTime

FormatterSet ==
  [items : Seq(ItemSet), number : Nat, made : SomeTime, last : SomeSecond, tm : SomeSecond, cached : SomeSecond, since : SomeTime]
LineSet ==
  [id : Nat, size : Nat, shows : SUBSET Int, elapsed : SUBSET Int, number : Nat, marks : SUBSET {"^", "$", "+"},
   range : Nat \X Nat]

ColourTypeOK ==
  /\ time \in SomeTime /\ patternsSet \in Nat
  /\ formatter \in [Terminal -> FormatterSet] /\ coloured \in [Terminal -> BOOLEAN]
  /\ messages \in Seq([sizes : MsgSizes, time : SomeTime, range : Nat \X Nat])
  /\ turn \in Seq(1 .. Terminals + 1) /\ Len(turn) = Len(messages)
  /\ prints \in [Terminal -> Seq(LineSet)]

\* What is broken down is the second remembered; no formatter is newer than the last one made.
FormattersSound ==
  \A s \in Terminal : formatter[s].tm = formatter[s].last /\ formatter[s].number <= patternsSet

LinesSound ==
  \A s \in Terminal : \A k \in DOMAIN prints[s] : prints[s][k].id \in DOMAIN messages /\ prints[s][k].number <= patternsSet

\* The lines that a sink's formatter of now has made.
Made(s) == {k \in DOMAIN prints[s] : prints[s][k].number = formatter[s].number}

\* A formatter remembers the time of the last message it formatted, which is the sink's
\* last line, or when it was made.
SinceLast ==
  \A s \in Terminal :
    IF Made(s) = {} THEN formatter[s].since = formatter[s].made
    ELSE Len(prints[s]) \in Made(s) /\ formatter[s].since = messages[prints[s][Len(prints[s])].id].time

ElapsedSoFar ==
  \A s \in Terminal :
    (\A k \in Made(s) : prints[s][k].elapsed # {}) => TotalOf(Elapsed(s)) = formatter[s].since - formatter[s].made

ColourInv ==
  /\ ColourTypeOK /\ FormattersSound /\ LinesSound /\ SinceLast /\ ElapsedSoFar /\ TimesTrue /\ OwnRangeFits

LEMMA ClockFacts ==
  /\ TicksPerSecond \in Nat \ {0} /\ LastTime \in Nat /\ TicksPerSecond \in SomeTime
  /\ \A at \in SomeTime : at \div TicksPerSecond \in SomeSecond
  /\ \A second \in SomeSecond : second \in Int /\ Dated(second)
  /\ 0 \in SomeSecond /\ SomeTime \subseteq Int /\ SomeSecond \subseteq Int
<1>1. TicksPerSecond \in Nat \ {0} /\ LastTime \in Nat /\ LastTime >= TicksPerSecond
  BY PatternAssumption, ColourSinksAssumption
<1>2. ASSUME NEW at \in 0 .. LastTime
      PROVE  at \div TicksPerSecond \in 0 .. LastTime \div TicksPerSecond
  BY <1>1
<1>3. 0 \in 0 .. LastTime \div TicksPerSecond /\ LastTime \div TicksPerSecond \in Int
  BY <1>1
<1> QED
  BY <1>1, <1>2, <1>3, ColourSinksAssumption DEF SomeSecond, SomeTime, Dated

LEMMA NewFormatterType ==
  ASSUME time \in SomeTime, NEW pattern \in Seq(AnyChar), NEW number \in Nat
  PROVE  /\ NewFormatter(pattern, number) \in FormatterSet
         /\ NewFormatter(pattern, number).tm = NewFormatter(pattern, number).last
         /\ NewFormatter(pattern, number).number = number
         /\ NewFormatter(pattern, number).made = time
         /\ NewFormatter(pattern, number).since = time
<1>1. Compile(pattern) \in Seq(ItemSet) /\ 0 \in SomeSecond
  BY CompiledItems, ClockFacts
<1> QED
  BY <1>1 DEF NewFormatter, FormatterSet

\* What the formatter of a number shows as elapsed in lines.
ShownIn(line, number) == IF line.number = number THEN CHOOSE e \in line.elapsed : TRUE ELSE 0
ShownBy(lines, number) == [k \in 1 .. Len(lines) |-> ShownIn(lines[k], number)]

\* Every line of the formatter of that number shows an elapsed time.
ElapsedTold(lines, number) == \A k \in DOMAIN lines : lines[k].number = number => lines[k].elapsed # {}

LEMMA ShownByType ==
  ASSUME NEW lines \in Seq(LineSet), NEW number, ElapsedTold(lines, number)
  PROVE  ShownBy(lines, number) \in Seq(Int) /\ Len(ShownBy(lines, number)) = Len(lines)
<1>1. Len(lines) \in Nat /\ DOMAIN lines = 1 .. Len(lines)
  BY LenProperties
<1>2. ASSUME NEW k \in 1 .. Len(lines)
      PROVE  ShownBy(lines, number)[k] \in Int
  <2>1. lines[k] \in LineSet
    BY ElementOfSeq
  <2>2. lines[k].number = number => (CHOOSE e \in lines[k].elapsed : TRUE) \in Int
    <3>1. lines[k].elapsed \in SUBSET Int
      BY <2>1 DEF LineSet
    <3>2. lines[k].number = number => lines[k].elapsed # {}
      BY <1>1 DEF ElapsedTold
    <3> QED
      BY <3>1, <3>2
  <2> QED
    BY <1>1, <2>2 DEF ShownBy, ShownIn
<1>3. ShownBy(lines, number) \in [1 .. Len(lines) -> Int]
  BY <1>2 DEF ShownBy
<1> QED
  BY <1>1, <1>3, SeqDef, LenProperties

LEMMA ShownByMore ==
  ASSUME NEW lines \in Seq(LineSet), NEW more \in Seq(LineSet), NEW number, Len(more) = Len(lines) + 1,
         \A k \in 1 .. Len(lines) : more[k] = lines[k]
  PROVE  \A k \in 1 .. Len(lines) : ShownBy(more, number)[k] = ShownBy(lines, number)[k]
<1> SUFFICES ASSUME NEW k \in 1 .. Len(lines)
             PROVE  ShownBy(more, number)[k] = ShownBy(lines, number)[k]
  OBVIOUS
<1>1. k \in 1 .. Len(more) /\ more[k] = lines[k]
  BY LenProperties
<1> QED
  BY <1>1 DEF ShownBy

LEMMA ElapsedShown ==
  ASSUME NEW s
  PROVE  Elapsed(s) = ShownBy(prints[s], formatter[s].number)
BY DEF Elapsed, ShownBy, ShownIn

LEMMA ElapsedTyped ==
  ASSUME ColourTypeOK, NEW s \in Terminal, \A k \in Made(s) : prints[s][k].elapsed # {}
  PROVE  Elapsed(s) \in Seq(Int) /\ Len(Elapsed(s)) = Len(prints[s])
<1>1. prints[s] \in Seq(LineSet)
  BY DEF ColourTypeOK
<1>2. ElapsedTold(prints[s], formatter[s].number)
  BY DEF Made, ElapsedTold
<1>3. Elapsed(s) = ShownBy(prints[s], formatter[s].number)
  BY ElapsedShown
<1> DEFINE lines == prints[s]
           number == formatter[s].number
<1>4. lines \in Seq(LineSet) /\ ElapsedTold(lines, number) /\ Elapsed(s) = ShownBy(lines, number)
  BY <1>1, <1>2, <1>3
<1> HIDE DEF lines, number
<1>5. ShownBy(lines, number) \in Seq(Int) /\ Len(ShownBy(lines, number)) = Len(lines)
  BY <1>4, ShownByType
<1> QED
  BY <1>4, <1>5 DEF lines

LEMMA ColourInvInit == ColourInit => ColourInv
<1> SUFFICES ASSUME ColourInit
             PROVE  ColourInv
  OBVIOUS
<1>1. time \in SomeTime
  BY ClockFacts DEF ColourInit
<1> DEFINE f == NewFormatter(<<"%", "+">>, 0)
<1>2. f \in FormatterSet /\ f.tm = f.last /\ f.number = 0 /\ f.made = time /\ f.since = time
  <2>1. <<"%", "+">> \in Seq(AnyChar)
    BY DEF AnyChar
  <2> QED
    BY <1>1, <2>1, NewFormatterType
<1>3. formatter = [s \in Terminal |-> f] /\ prints = [s \in Terminal |-> << >>] /\ patternsSet = 0
      /\ messages = << >> /\ turn = << >> /\ coloured \in [Terminal -> BOOLEAN]
  BY DEF ColourInit
<1> HIDE DEF f
<1>4. ColourTypeOK
  BY <1>1, <1>2, <1>3 DEF ColourTypeOK
<1>5. FormattersSound /\ LinesSound /\ TimesTrue /\ OwnRangeFits
  BY <1>2, <1>3 DEF FormattersSound, LinesSound, TimesTrue, OwnRangeFits
<1>6. SinceLast
  BY <1>2, <1>3 DEF SinceLast, Made
<1>7. ElapsedSoFar
  <2> SUFFICES ASSUME NEW s \in Terminal, \A k \in Made(s) : prints[s][k].elapsed # {}
               PROVE  TotalOf(Elapsed(s)) = formatter[s].since - formatter[s].made
    BY DEF ElapsedSoFar
  <2>1. Elapsed(s) \in Seq(Int) /\ Len(Elapsed(s)) = Len(prints[s]) /\ Len(prints[s]) = 0
    BY <1>3, <1>4, ElapsedTyped
  <2>2. Elapsed(s) \in Seq(Nat)
    BY <2>1, EmptySeq
  <2>3. TotalOf(Elapsed(s)) = 0
    BY <2>1, <2>2, TotalOfNumbers
  <2>4. formatter[s].since = formatter[s].made /\ formatter[s].since \in Int
    BY <1>1, <1>2, <1>3, ClockFacts
  <2> QED
    BY <2>3, <2>4
<1> QED
  BY <1>4, <1>5, <1>6, <1>7 DEF ColourInv

-----------------------------------------------------------------------------

LEMMA PassTimeKeepsColours ==
  ASSUME ColourInv, PassTime
  PROVE  ColourInv'
<1>1. ColourTypeOK'
  <2>1. time' \in SomeTime
    BY ColourSinksAssumption DEF PassTime, ColourInv, ColourTypeOK, SomeTime
  <2> QED
    BY <2>1 DEF PassTime, ColourInv, ColourTypeOK
<1>2. UNCHANGED <<formatter, messages, prints, patternsSet>>
  BY DEF PassTime
<1>3. \A s \in Terminal : Made(s)' = Made(s) /\ Elapsed(s)' = Elapsed(s)
  BY <1>2 DEF Made, Elapsed
<1>4. FormattersSound' /\ LinesSound' /\ TimesTrue' /\ OwnRangeFits'
  BY <1>2 DEF ColourInv, FormattersSound, LinesSound, TimesTrue, OwnRangeFits
<1>5. SinceLast' /\ ElapsedSoFar'
  BY <1>2, <1>3 DEF ColourInv, SinceLast, ElapsedSoFar
<1> QED
  BY <1>1, <1>4, <1>5 DEF ColourInv

\* What is added to the messages leaves the ones before it as they were.
LEMMA NewMessageKeepsColours ==
  ASSUME ColourInv, NEW sizes \in MsgSizes, NewMessage(sizes)
  PROVE  ColourInv'
<1> DEFINE msg == [sizes |-> sizes, time |-> time, range |-> <<0, 0>>]
<1>1. ColourTypeOK
  BY DEF ColourInv
<1>2. messages' = Append(messages, msg) /\ turn' = Append(turn, 1) /\ UNCHANGED <<time, formatter, coloured, prints, patternsSet>>
  BY DEF NewMessage
<1>3. msg \in [sizes : MsgSizes, time : SomeTime, range : Nat \X Nat]
  BY <1>1 DEF ColourTypeOK
<1> HIDE DEF msg
<1>4. /\ messages' \in Seq([sizes : MsgSizes, time : SomeTime, range : Nat \X Nat])
      /\ \A k \in DOMAIN messages : k \in DOMAIN messages' /\ messages'[k] = messages[k]
      /\ Len(messages') = Len(messages) + 1
  BY <1>1, <1>2, <1>3, AppendProperties, LenProperties DEF ColourTypeOK
<1>5. turn' \in Seq(1 .. Terminals + 1) /\ Len(turn') = Len(turn) + 1
  <2>1. 1 \in 1 .. Terminals + 1 /\ turn \in Seq(1 .. Terminals + 1)
    BY <1>1, ColourSinksAssumption DEF ColourTypeOK
  <2> QED
    BY <1>2, <2>1, AppendProperties
<1>6. ColourTypeOK'
  BY <1>1, <1>2, <1>4, <1>5 DEF ColourTypeOK
<1>7. FormattersSound' /\ OwnRangeFits' /\ ElapsedSoFar'
  <2>1. \A s \in Terminal : Made(s)' = Made(s) /\ Elapsed(s)' = Elapsed(s)
    BY <1>2 DEF Made, Elapsed
  <2> QED
    BY <1>2, <2>1 DEF ColourInv, FormattersSound, OwnRangeFits, ElapsedSoFar
<1>8. LinesSound' /\ TimesTrue'
  BY <1>2, <1>4 DEF ColourInv, LinesSound, TimesTrue
<1>9. SinceLast'
  <2> SUFFICES ASSUME NEW s \in Terminal
               PROVE  IF Made(s) = {} THEN formatter[s].since = formatter[s].made
                      ELSE Len(prints[s]) \in Made(s) /\ formatter[s].since = messages'[prints[s][Len(prints[s])].id].time
    BY <1>2 DEF SinceLast, Made
  <2>1. Len(prints[s]) \in Made(s) => prints[s][Len(prints[s])].id \in DOMAIN messages
    BY DEF ColourInv, LinesSound, Made
  <2> QED
    BY <1>4, <2>1 DEF ColourInv, SinceLast
<1> QED
  BY <1>6, <1>7, <1>8, <1>9 DEF ColourInv

\* A new formatter has made no line yet.
LEMMA SetPatternKeepsColours ==
  ASSUME ColourInv, NEW s \in Terminal, NEW pattern \in Patterns, SetPattern(s, pattern)
  PROVE  ColourInv'
<1> DEFINE f == NewFormatter(pattern, patternsSet + 1)
<1>1. ColourTypeOK /\ time \in SomeTime /\ patternsSet \in Nat
  BY DEF ColourInv, ColourTypeOK
<1>2. formatter' = [formatter EXCEPT ![s] = f] /\ patternsSet' = patternsSet + 1
      /\ UNCHANGED <<time, coloured, messages, turn, prints>>
  BY DEF SetPattern
<1>3. f \in FormatterSet /\ f.tm = f.last /\ f.number = patternsSet + 1 /\ f.made = time /\ f.since = time
  <2>1. pattern \in Seq(AnyChar)
    BY ColourSinksAssumption DEF AnyChar
  <2>2. patternsSet + 1 \in Nat
    BY <1>1
  <2> QED
    BY <1>1, <2>1, <2>2, NewFormatterType
<1> HIDE DEF f
<1>4. ColourTypeOK'
  <2>1. formatter' \in [Terminal -> FormatterSet] /\ patternsSet' \in Nat
    BY <1>1, <1>2, <1>3 DEF ColourTypeOK
  <2> QED
    BY <1>1, <1>2, <2>1 DEF ColourTypeOK
<1>5. \A o \in Terminal : o # s => formatter'[o] = formatter[o]
  BY <1>1, <1>2 DEF ColourTypeOK
<1>6. formatter'[s] = f
  BY <1>1, <1>2 DEF ColourTypeOK
<1>7. \A o \in Terminal : formatter[o].number \in Nat
  BY <1>1 DEF ColourTypeOK, FormatterSet
<1>8. FormattersSound'
  <2> SUFFICES ASSUME NEW o \in Terminal
               PROVE  formatter'[o].tm = formatter'[o].last /\ formatter'[o].number <= patternsSet'
    BY DEF FormattersSound
  <2>1. CASE o = s
    BY <1>1, <1>2, <1>3, <1>6, <2>1
  <2>2. CASE o # s
    BY <1>1, <1>2, <1>5, <1>7, <2>2 DEF ColourInv, FormattersSound
  <2> QED
    BY <2>1, <2>2
<1>9. \A o \in Terminal : \A k \in DOMAIN prints[o] : prints[o][k].number \in Nat
  <2> SUFFICES ASSUME NEW o \in Terminal, NEW k \in DOMAIN prints[o]
               PROVE  prints[o][k].number \in Nat
    OBVIOUS
  <2>1. prints[o] \in Seq(LineSet) /\ DOMAIN prints[o] = 1 .. Len(prints[o])
    BY <1>1, LenProperties DEF ColourTypeOK
  <2>2. prints[o][k] \in LineSet
    BY <2>1, ElementOfSeq
  <2> QED
    BY <2>2 DEF LineSet
<1>10. LinesSound'
  BY <1>1, <1>2, <1>9 DEF ColourInv, LinesSound
<1>11. TimesTrue' /\ OwnRangeFits'
  BY <1>2 DEF ColourInv, TimesTrue, OwnRangeFits
<1>12. Made(s)' = {}
  <2>1. \A k \in DOMAIN prints[s] : prints[s][k].number # f.number
    BY <1>1, <1>3, <1>9 DEF ColourInv, LinesSound
  <2> QED
    BY <1>2, <1>6, <2>1 DEF Made
<1>13. \A o \in Terminal : o # s => Made(o)' = Made(o) /\ Elapsed(o)' = Elapsed(o)
  BY <1>2, <1>5 DEF Made, Elapsed
<1>14. SinceLast'
  <2> SUFFICES ASSUME NEW o \in Terminal
               PROVE  IF Made(o)' = {} THEN formatter'[o].since = formatter'[o].made
                      ELSE Len(prints[o]) \in Made(o)' /\ formatter'[o].since = messages[prints[o][Len(prints[o])].id].time
    BY <1>2 DEF SinceLast
  <2>1. CASE o = s
    BY <1>3, <1>6, <1>12, <2>1
  <2>2. CASE o # s
    BY <1>5, <1>13, <2>2 DEF ColourInv, SinceLast
  <2> QED
    BY <2>1, <2>2
<1>15. ElapsedSoFar'
  <2> SUFFICES ASSUME NEW o \in Terminal, \A k \in Made(o)' : prints[o][k].elapsed # {}
               PROVE  TotalOf(Elapsed(o)') = formatter'[o].since - formatter'[o].made
    BY <1>2 DEF ElapsedSoFar
  <2>1. CASE o = s
    <3>1. Len(prints[s]) \in Nat /\ DOMAIN prints[s] = 1 .. Len(prints[s])
      BY <1>1, LenProperties DEF ColourTypeOK
    <3>2. Elapsed(s)' = [k \in 1 .. Len(prints[s]) |-> 0]
      BY <1>2, <1>12, <3>1 DEF Elapsed, Made
    <3>3. TotalOf(Elapsed(s)') = 0
      BY <3>1, <3>2, TotalOfNothing
    <3>4. time \in Int
      BY <1>1, ClockFacts
    <3> QED
      BY <1>3, <1>6, <2>1, <3>3, <3>4
  <2>2. CASE o # s
    BY <1>5, <1>13, <2>2 DEF ColourInv, ElapsedSoFar
  <2> QED
    BY <2>1, <2>2
<1> QED
  BY <1>4, <1>8, <1>10, <1>11, <1>14, <1>15 DEF ColourInv

\* What a sink has when it has formatted a message: its formatter f and one more line,
\* and the message has a colour range.
Formats(id, s, f, line, range) ==
  /\ s = turn[id]
  /\ formatter' = [formatter EXCEPT ![s] = f] /\ prints' = [prints EXCEPT ![s] = Append(@, line)]
  /\ messages' = [messages EXCEPT ![id].range = range]
  /\ f.tm = f.last /\ f.number = formatter[s].number /\ f.made = formatter[s].made
  /\ f.since = messages[id].time
  /\ line.id = id /\ line.number = f.number
  /\ line.shows \subseteq {messages[id].time \div TicksPerSecond}
  /\ line.elapsed \subseteq {messages[id].time - formatter[s].since}
  /\ "+" \in line.marks \/ {"^", "$"} \subseteq line.marks =>
       line.range[1] <= line.range[2] /\ line.range[2] <= line.size

LEMMA MessageFormatted ==
  ASSUME ColourInv, NEW id \in DOMAIN messages, turn[id] <= Terminals, PrintLine(id)
  PROVE  \E s \in Terminal, f \in FormatterSet, line \in LineSet, range \in Nat \X Nat : Formats(id, s, f, line, range)
<1> DEFINE s == turn[id]
           msg == messages[id]
           second == msg.time \div TicksPerSecond
           r == Refresh(formatter[s], second)
           f == Recache(r, second)
           fields == [name |-> msg.sizes.name, level |-> msg.sizes.level, payload |-> msg.sizes.payload,
                      thread |-> 5, pid |-> 4, file |-> 6, base |-> 4, line |-> msg.sizes.line,
                      func |-> 4, time |-> msg.time]
           out == Format(f.items, fields, f.tm, f.since, f.cached, msg.range)
           g == [f EXCEPT !.since = msg.time]
           range == IF coloured[s] /\ out.end > out.start THEN <<out.start, out.end>> ELSE <<0, 0>>
           marks == {f.items[k].flag : k \in DOMAIN f.items} \cap {"^", "$", "+"}
           line == [id |-> id, size |-> out.size, shows |-> out.shows, elapsed |-> out.elapsed,
                    number |-> f.number, marks |-> marks, range |-> range]
           delta == msg.time - formatter[s].since
<1>1. formatter' = [formatter EXCEPT ![s] = g] /\ prints' = [prints EXCEPT ![s] = Append(@, line)]
      /\ messages' = [messages EXCEPT ![id].range = <<out.start, out.end>>]
  BY Zenon DEF PrintLine
<1>2. s \in Terminal /\ id \in Nat
  <2>1. id \in 1 .. Len(messages) /\ Len(messages) \in Nat /\ Len(turn) = Len(messages) /\ turn \in Seq(1 .. Terminals + 1)
    BY LenProperties DEF ColourInv, ColourTypeOK
  <2>2. s \in 1 .. Terminals + 1
    BY <2>1, ElementOfSeq
  <2> QED
    BY <2>1, <2>2, ColourSinksAssumption DEF Terminal
<1>3. msg \in [sizes : MsgSizes, time : SomeTime, range : Nat \X Nat]
  <2>1. messages \in Seq([sizes : MsgSizes, time : SomeTime, range : Nat \X Nat]) /\ id \in 1 .. Len(messages)
    BY LenProperties DEF ColourInv, ColourTypeOK
  <2> QED
    BY <2>1, ElementOfSeq
<1>4. formatter[s] \in FormatterSet /\ formatter[s].tm = formatter[s].last
  BY <1>2 DEF ColourInv, ColourTypeOK, FormattersSound
<1>5. second \in SomeSecond /\ second \in Int /\ Dated(second) /\ msg.time \in Int
  BY <1>3, ClockFacts
<1>6. fields \in MsgSet
  <2>1. msg.sizes \in [name : Nat, level : Nat, payload : Nat, line : Nat]
    BY <1>3, ColourSinksAssumption
  <2> QED
    BY <2>1, <1>5 DEF MsgSet
<1>7. fields.time \div TicksPerSecond = second /\ fields.time = msg.time
  OBVIOUS
<1> HIDE DEF s, msg, second, fields
<1>8. r \in FormatterSet /\ r.last = second /\ r.tm = second /\ r.number = formatter[s].number
      /\ r.made = formatter[s].made /\ r.since = formatter[s].since
  <2>1. CASE second # formatter[s].last
    <3>1. r = [formatter[s] EXCEPT !.last = second, !.tm = second]
      BY <2>1 DEF Refresh
    <3> QED
      BY <3>1, <1>4, <1>5 DEF FormatterSet
  <2>2. CASE second = formatter[s].last
    BY <2>2, <1>4 DEF Refresh
  <2> QED
    BY <2>1, <2>2
<1> HIDE DEF r
<1>9. /\ f \in FormatterSet /\ f.last = second /\ f.tm = second /\ f.number = formatter[s].number
      /\ f.made = formatter[s].made /\ f.since = formatter[s].since /\ f.items = r.items
      /\ (\E k \in DOMAIN f.items : f.items[k].flag = "+") => f.cached = second
  <2>1. CASE (\E k \in DOMAIN r.items : r.items[k].flag = "+") /\ r.cached # second
    <3>1. f = [r EXCEPT !.cached = r.tm]
      BY <2>1 DEF Recache
    <3> QED
      BY <3>1, <1>8 DEF FormatterSet
  <2>2. CASE ~ ((\E k \in DOMAIN r.items : r.items[k].flag = "+") /\ r.cached # second)
    <3>1. f = r
      BY <2>2 DEF Recache
    <3> QED
      BY <3>1, <2>2, <1>8
  <2> QED
    BY <2>1, <2>2
<1> HIDE DEF f
<1>10. RightOut(out, second, delta)
       /\ ((\E k \in DOMAIN f.items : f.items[k].flag \in {"$", "+"}) => out.end <= out.size)
  <2>1. f.items \in Seq(ItemSet) /\ f.since \in Int /\ msg.range \in Nat \X Nat
    BY <1>3, <1>9, ClockFacts DEF FormatterSet
  <2> QED
    BY <1>5, <1>6, <1>7, <1>9, <2>1, LineIsRight
<1> HIDE DEF out
<1>11. out.size \in Nat /\ out.shows \in SUBSET Int /\ out.elapsed \in SUBSET Int /\ out.start \in Nat /\ out.end \in Nat
       /\ out.shows \subseteq {second} /\ out.elapsed \subseteq {delta}
  BY <1>10 DEF RightOut, OutSet
<1>12. g \in FormatterSet /\ g.tm = g.last /\ g.number = formatter[s].number /\ g.made = formatter[s].made
       /\ g.since = msg.time
  BY <1>3, <1>9 DEF FormatterSet
<1>13. range \in Nat \X Nat /\ range[1] <= range[2] /\ (out.end <= out.size => range[2] <= out.size)
  BY <1>11
<1>14. marks \in SUBSET {"^", "$", "+"}
       /\ ("+" \in marks \/ {"^", "$"} \subseteq marks => \E k \in DOMAIN f.items : f.items[k].flag \in {"$", "+"})
  OBVIOUS
<1>15. f.number \in Nat
  BY <1>9 DEF FormatterSet
<1> HIDE DEF range, marks, g
<1>16. line \in LineSet /\ line.id = id /\ line.number = f.number /\ line.shows \subseteq {second}
       /\ line.elapsed \subseteq {delta} /\ line.marks = marks /\ line.range = range /\ line.size = out.size
  BY <1>2, <1>11, <1>13, <1>14, <1>15 DEF LineSet
<1>17. "+" \in line.marks \/ {"^", "$"} \subseteq line.marks => line.range[1] <= line.range[2] /\ line.range[2] <= line.size
  BY <1>10, <1>13, <1>14, <1>16
<1>18. <<out.start, out.end>> \in Nat \X Nat
  BY <1>11
<1>19. /\ s \in Terminal
       /\ formatter' = [formatter EXCEPT ![s] = g] /\ prints' = [prints EXCEPT ![s] = Append(@, line)]
       /\ messages' = [messages EXCEPT ![id].range = <<out.start, out.end>>]
       /\ g.tm = g.last /\ g.number = formatter[s].number /\ g.made = formatter[s].made
       /\ g.since = msg.time
       /\ line.id = id /\ line.number = g.number
       /\ line.shows \subseteq {second} /\ line.elapsed \subseteq {delta}
  BY <1>1, <1>2, <1>9, <1>12, <1>16
<1> HIDE DEF line, delta
<1>20. Formats(id, s, g, line, <<out.start, out.end>>)
  BY <1>17, <1>19 DEF Formats, s, msg, second, delta
<1> QED
  BY <1>12, <1>16, <1>18, <1>19, <1>20, Zenon

\* The line of a message is its sink's last one, and the elapsed time it shows is
\* what is missing in the sum of those before.
LEMMA PrintLineKeepsColours ==
  ASSUME ColourInv, NEW id \in DOMAIN messages, PrintLine(id)
  PROVE  ColourInv'
<1>0. turn[id] <= Terminals /\ turn' = [turn EXCEPT ![id] = @ + 1] /\ UNCHANGED <<time, coloured, patternsSet>>
  BY Zenon DEF PrintLine
<1>00. PICK s \in Terminal, f \in FormatterSet, line \in LineSet, range \in Nat \X Nat : Formats(id, s, f, line, range)
  BY <1>0, MessageFormatted
<1> DEFINE old == formatter[s]
           n == Len(prints[s])
           second == messages[id].time \div TicksPerSecond
           delta == messages[id].time - old.since
<1>1. /\ s = turn[id]
      /\ formatter' = [formatter EXCEPT ![s] = f] /\ prints' = [prints EXCEPT ![s] = Append(@, line)]
      /\ messages' = [messages EXCEPT ![id].range = range]
      /\ f.tm = f.last /\ f.number = old.number /\ f.made = old.made /\ f.since = messages[id].time
      /\ line.id = id /\ line.number = f.number
      /\ line.shows \subseteq {second} /\ line.elapsed \subseteq {delta}
      /\ "+" \in line.marks \/ {"^", "$"} \subseteq line.marks =>
           line.range[1] <= line.range[2] /\ line.range[2] <= line.size
  BY <1>00 DEF Formats
<1>2. ColourTypeOK
  BY DEF ColourInv
<1>3. prints[s] \in Seq(LineSet) /\ n \in Nat /\ DOMAIN prints[s] = 1 .. n
  BY <1>1, <1>2, LenProperties DEF ColourTypeOK
<1>4. old \in FormatterSet /\ old.number <= patternsSet
  BY <1>1 DEF ColourInv, ColourTypeOK, FormattersSound
<1>5. \A o \in Terminal : o # s => formatter'[o] = formatter[o] /\ prints'[o] = prints[o]
  BY <1>1, <1>2 DEF ColourTypeOK
<1>6. formatter'[s] = f /\ prints'[s] = Append(prints[s], line)
  BY <1>1, <1>2 DEF ColourTypeOK
<1> HIDE DEF old, n, second, delta
<1>7. /\ prints'[s] \in Seq(LineSet) /\ Len(prints'[s]) = n + 1 /\ DOMAIN prints'[s] = 1 .. n + 1
      /\ \A k \in 1 .. n : prints'[s][k] = prints[s][k]
      /\ prints'[s][n + 1] = line
  BY <1>3, <1>6, AppendProperties, LenProperties DEF n
<1>8. /\ messages' \in Seq([sizes : MsgSizes, time : SomeTime, range : Nat \X Nat])
      /\ DOMAIN messages' = DOMAIN messages /\ Len(messages') = Len(messages)
      /\ \A k \in DOMAIN messages : messages'[k].time = messages[k].time
  <2> DEFINE M == [sizes : MsgSizes, time : SomeTime, range : Nat \X Nat]
  <2>1. messages \in Seq(M) /\ DOMAIN messages = 1 .. Len(messages) /\ Len(messages) \in Nat
    BY <1>2, LenProperties DEF ColourTypeOK
  <2> HIDE DEF M
  <2>2. messages \in [1 .. Len(messages) -> M]
    BY <2>1, LenProperties
  <2> USE DEF M
  <2>3. ASSUME NEW k \in 1 .. Len(messages)
        PROVE  messages'[k] \in M /\ messages'[k].time = messages[k].time
    <3>1. messages[k] \in M
      BY <2>2
    <3>2. CASE k = id
      <4>1. messages'[k] = [messages[k] EXCEPT !.range = range]
        BY <1>1, <2>1, <3>2
      <4> QED
        BY <3>1, <4>1
    <3>3. CASE k # id
      BY <1>1, <2>1, <3>1, <3>3
    <3> QED
      BY <3>2, <3>3
  <2>4. DOMAIN messages' = 1 .. Len(messages)
    BY <1>1, <2>1
  <2>5. messages' = [k \in DOMAIN messages' |-> messages'[k]]
    BY <1>1
  <2> HIDE DEF M
  <2>6. messages' \in [1 .. Len(messages) -> M]
    BY <2>3, <2>4, <2>5
  <2>7. messages' \in Seq(M)
    BY <2>1, <2>6, SeqDef
  <2>8. Len(messages') = Len(messages)
    BY <2>1, <2>4, <2>7, LenProperties
  <2> QED
    BY <2>1, <2>3, <2>4, <2>7, <2>8 DEF M
<1>9. turn' \in Seq(1 .. Terminals + 1) /\ Len(turn') = Len(turn)
  <2>1. turn \in Seq(1 .. Terminals + 1) /\ DOMAIN turn = 1 .. Len(turn) /\ Len(turn) \in Nat
    BY <1>2, LenProperties DEF ColourTypeOK
  <2>2. turn[id] + 1 \in 1 .. Terminals + 1
    BY <1>0, <1>1, ColourSinksAssumption DEF Terminal
  <2>3. turn \in [1 .. Len(turn) -> 1 .. Terminals + 1]
    BY <2>1, LenProperties
  <2> DEFINE l == Len(turn)
             T == 1 .. Terminals + 1
             next == turn[id] + 1
  <2>4. turn' = [turn EXCEPT ![id] = next] /\ turn \in [1 .. l -> T] /\ next \in T /\ l \in Nat
    BY <1>0, <2>1, <2>2, <2>3
  <2> HIDE DEF l, T, next
  <2>5. turn' \in [1 .. l -> T]
    BY <2>4
  <2>6. turn' \in Seq(T)
    BY <2>4, <2>5, SeqDef
  <2>7. Len(turn') = l
    BY <2>4, <2>5, <2>6, LenProperties
  <2> QED
    BY <2>6, <2>7 DEF l, T
<1>10. ColourTypeOK'
  <2>1. formatter' \in [Terminal -> FormatterSet]
    BY <1>1, <1>2 DEF ColourTypeOK
  <2>2. prints' \in [Terminal -> Seq(LineSet)]
    <3>1. Append(prints[s], line) \in Seq(LineSet)
      BY <1>6, <1>7
    <3> QED
      BY <1>1, <1>2, <3>1 DEF ColourTypeOK
  <2>3. Len(turn') = Len(messages')
    BY <1>2, <1>8, <1>9 DEF ColourTypeOK
  <2> QED
    BY <1>0, <1>2, <1>8, <1>9, <2>1, <2>2, <2>3 DEF ColourTypeOK
<1>11. FormattersSound'
  <2> SUFFICES ASSUME NEW o \in Terminal
               PROVE  formatter'[o].tm = formatter'[o].last /\ formatter'[o].number <= patternsSet
    BY <1>0 DEF FormattersSound
  <2>1. CASE o = s
    BY <1>1, <1>4, <1>6, <2>1
  <2>2. CASE o # s
    BY <1>5, <2>2 DEF ColourInv, FormattersSound
  <2> QED
    BY <2>1, <2>2
<1>12. \A k \in 1 .. n + 1 : k \in 1 .. n \/ k = n + 1
  BY <1>3
<1>13. LinesSound'
  <2> SUFFICES ASSUME NEW o \in Terminal, NEW k \in DOMAIN prints'[o]
               PROVE  prints'[o][k].id \in DOMAIN messages /\ prints'[o][k].number <= patternsSet
    BY <1>0, <1>8 DEF LinesSound
  <2>1. CASE o = s /\ k \in 1 .. n
    BY <1>3, <1>7, <2>1 DEF ColourInv, LinesSound
  <2>2. CASE o = s /\ k = n + 1
    BY <1>1, <1>4, <1>7, <2>2
  <2>3. CASE o # s
    BY <1>5, <2>3 DEF ColourInv, LinesSound
  <2> QED
    BY <1>7, <1>12, <2>1, <2>2, <2>3
<1>14. TimesTrue'
  <2> SUFFICES ASSUME NEW o \in Terminal, NEW k \in DOMAIN prints'[o]
               PROVE  prints'[o][k].shows \subseteq {messages'[prints'[o][k].id].time \div TicksPerSecond}
    BY ZenonT(60) DEF TimesTrue
  <2>1. CASE o = s /\ k \in 1 .. n
    <3>1. prints'[o][k] = prints[s][k] /\ prints[s][k].id \in DOMAIN messages
      BY <1>3, <1>7, <2>1, <1>1 DEF ColourInv, LinesSound
    <3>2. messages'[prints[s][k].id].time = messages[prints[s][k].id].time
      BY <1>8, <3>1, ZenonT(60)
    <3> QED
      BY <1>1, <1>3, <2>1, <3>1, <3>2, SMTT(30) DEF ColourInv, TimesTrue
  <2>2. CASE o = s /\ k = n + 1
    BY <1>1, <1>7, <1>8, <2>2 DEF second
  <2>3. CASE o # s
    <3>1. prints'[o] = prints[o] /\ k \in DOMAIN prints[o] /\ prints[o][k].id \in DOMAIN messages
      BY <1>5, <2>3 DEF ColourInv, LinesSound
    <3> QED
      BY <1>8, <3>1 DEF ColourInv, TimesTrue
  <2> QED
    BY <1>7, <1>12, <2>1, <2>2, <2>3
<1>15. OwnRangeFits'
  <2> DEFINE fits(p) == "+" \in p.marks \/ {"^", "$"} \subseteq p.marks => p.range[1] <= p.range[2] /\ p.range[2] <= p.size
  <2>0. \A o \in Terminal : \A k \in DOMAIN prints[o] : fits(prints[o][k])
    BY DEF ColourInv, OwnRangeFits
  <2>1. fits(line)
    BY <1>1
  <2> SUFFICES ASSUME NEW o \in Terminal, NEW k \in DOMAIN prints'[o]
               PROVE  fits(prints'[o][k])
    BY DEF OwnRangeFits
  <2> HIDE DEF fits
  <2>2. CASE o = s /\ k \in 1 .. n
    BY <1>1, <1>3, <1>7, <2>0, <2>2
  <2>3. CASE o = s /\ k = n + 1
    BY <1>7, <2>1, <2>3
  <2>4. CASE o # s
    BY <1>5, <2>0, <2>4
  <2> QED
    BY <1>7, <1>12, <2>2, <2>3, <2>4
<1>16. \A o \in Terminal : o # s => Made(o)' = Made(o) /\ Elapsed(o)' = Elapsed(o)
  <2> SUFFICES ASSUME NEW o \in Terminal, o # s
               PROVE  Made(o)' = Made(o) /\ Elapsed(o)' = Elapsed(o)
    OBVIOUS
  <2>1. prints'[o] = prints[o] /\ formatter'[o] = formatter[o]
    BY <1>5
  <2>2. Elapsed(o) = ShownBy(prints[o], formatter[o].number)
    BY ElapsedShown
  <2>3. Elapsed(o)' = ShownBy(prints'[o], formatter'[o].number)
    BY DEF Elapsed, ShownBy, ShownIn
  <2> QED
    BY <2>1, <2>2, <2>3 DEF Made
<1>17. Made(s)' = Made(s) \cup {n + 1}
  <2>1. \A k \in 1 .. n : k \in Made(s)' <=> k \in Made(s)
    BY <1>1, <1>3, <1>6, <1>7 DEF Made, old
  <2>2. n + 1 \in Made(s)'
    BY <1>1, <1>3, <1>6, <1>7 DEF Made
  <2>3. Made(s) \subseteq 1 .. n /\ Made(s)' \subseteq 1 .. n + 1
    BY <1>3, <1>7 DEF Made
  <2> QED
    BY <1>12, <2>1, <2>2, <2>3
<1>18. SinceLast'
  <2> SUFFICES ASSUME NEW o \in Terminal
               PROVE  IF Made(o)' = {} THEN formatter'[o].since = formatter'[o].made
                      ELSE Len(prints'[o]) \in Made(o)' /\ formatter'[o].since = messages'[prints'[o][Len(prints'[o])].id].time
    BY DEF SinceLast
  <2>1. CASE o = s
    BY <1>1, <1>6, <1>7, <1>8, <1>17, <2>1, SMTT(30)
  <2>2. CASE o # s
    <3>1. prints'[o] = prints[o] /\ formatter'[o] = formatter[o] /\ Made(o)' = Made(o)
      BY <1>5, <1>16, <2>2
    <3>2. Len(prints[o]) \in Made(o) => prints[o][Len(prints[o])].id \in DOMAIN messages
      BY DEF ColourInv, LinesSound, Made
    <3>3. IF Made(o) = {} THEN formatter[o].since = formatter[o].made
          ELSE Len(prints[o]) \in Made(o) /\ formatter[o].since = messages[prints[o][Len(prints[o])].id].time
      BY DEF ColourInv, SinceLast
    <3> QED
      BY <1>8, <3>1, <3>2, <3>3
  <2> QED
    BY <2>1, <2>2
<1>19. ElapsedSoFar'
  <2> SUFFICES ASSUME NEW o \in Terminal, \A k \in Made(o)' : prints'[o][k].elapsed # {}
               PROVE  TotalOf(Elapsed(o)') = formatter'[o].since - formatter'[o].made
    BY DEF ElapsedSoFar
  <2>1. CASE o = s
    <3>1. \A k \in Made(s) : prints[s][k].elapsed # {}
      BY <1>3, <1>7, <1>17, <2>1 DEF Made
    <3> DEFINE lines == prints[s]
               more == prints'[s]
               number == old.number
    <3>20. Elapsed(s) = ShownBy(lines, number)
      BY ElapsedShown DEF old
    <3>21. Elapsed(s)' = ShownBy(more, number)
      <4>1. Elapsed(s)' = ShownBy(prints'[s], formatter'[s].number)
        BY DEF Elapsed, ShownBy, ShownIn
      <4> QED
        BY <1>1, <1>6, <4>1 DEF old
    <3>22. ElapsedTold(more, number)
      <4>1. formatter'[s].number = number
        BY <1>1, <1>6 DEF old
      <4>2. \A k \in Made(s)' : more[k].elapsed # {}
        BY <2>1
      <4> QED
        BY <4>1, <4>2 DEF Made, ElapsedTold
    <3>23. lines \in Seq(LineSet) /\ more \in Seq(LineSet) /\ Len(lines) = n /\ Len(more) = n + 1
          /\ \A k \in 1 .. n : more[k] = lines[k]
      BY <1>3, <1>7 DEF n
    <3> HIDE DEF lines, more, number
    <3>2. Elapsed(s) \in Seq(Int) /\ Len(Elapsed(s)) = n
      BY <1>2, <3>1, ElapsedTyped DEF n
    <3>3. Elapsed(s)' \in Seq(Int) /\ Len(Elapsed(s)') = n + 1
      BY <3>21, <3>22, <3>23, ShownByType
    <3>4. \A k \in 1 .. n : Elapsed(s)'[k] = Elapsed(s)[k]
      BY <3>20, <3>21, <3>23, ShownByMore
    <3>5. Elapsed(s)'[n + 1] = delta
      <4>1. line.elapsed = {delta}
        BY <1>1, <1>7, <1>17, <2>1
      <4>2. n + 1 \in 1 .. n + 1 /\ prints'[s][n + 1] = line /\ line.number = formatter'[s].number
        BY <1>1, <1>3, <1>6, <1>7
      <4>3. Elapsed(s)'[n + 1] = CHOOSE e \in line.elapsed : TRUE
        BY <1>7, <4>2 DEF Elapsed
      <4> QED
        BY <4>1, <4>3
    <3>6. TotalOf(Elapsed(s)') = TotalOf(Elapsed(s)) + delta
      BY <3>2, <3>3, <3>4, <3>5, TotalOfMore, SMTT(30)
    <3>7. TotalOf(Elapsed(s)) = old.since - old.made
      BY <1>1, <3>1 DEF ColourInv, ElapsedSoFar, old
    <3>8. old.since \in Int /\ old.made \in Int /\ f.since \in Int
      BY <1>4, ClockFacts DEF FormatterSet
    <3>9. delta = f.since - old.since
      BY <1>1 DEF delta
    <3> QED
      BY <1>1, <1>6, <2>1, <3>6, <3>7, <3>8, <3>9
  <2>2. CASE o # s
    BY <1>5, <1>16, <2>2 DEF ColourInv, ElapsedSoFar
  <2> QED
    BY <2>1, <2>2
<1> QED
  BY <1>10, <1>11, <1>13, <1>14, <1>15, <1>18, <1>19, Zenon DEF ColourInv

LEMMA ColourInvNext == ColourInv /\ [ColourNext]_colourVars => ColourInv'
<1> SUFFICES ASSUME ColourInv, [ColourNext]_colourVars
             PROVE  ColourInv'
  OBVIOUS
<1>1. CASE PassTime
  BY <1>1, PassTimeKeepsColours
<1>2. CASE \E s \in Terminal, pattern \in Patterns : SetPattern(s, pattern)
  BY <1>2, SetPatternKeepsColours
<1>3. CASE \E sizes \in MsgSizes : NewMessage(sizes)
  BY <1>3, NewMessageKeepsColours
<1>4. CASE \E id \in DOMAIN messages : PrintLine(id)
  BY <1>4, PrintLineKeepsColours
<1>5. CASE UNCHANGED colourVars
  <2>1. UNCHANGED <<time, formatter, coloured, messages, turn, prints, patternsSet>>
    BY <1>5 DEF colourVars
  <2>2. \A s \in Terminal : Made(s)' = Made(s) /\ Elapsed(s)' = Elapsed(s)
    BY <2>1 DEF Made, Elapsed
  <2>3. ColourTypeOK' /\ FormattersSound' /\ LinesSound' /\ TimesTrue' /\ OwnRangeFits'
    BY <2>1 DEF ColourInv, ColourTypeOK, FormattersSound, LinesSound, TimesTrue, OwnRangeFits
  <2>4. SinceLast' /\ ElapsedSoFar'
    BY <2>1, <2>2 DEF ColourInv, SinceLast, ElapsedSoFar
  <2> QED
    BY <2>3, <2>4 DEF ColourInv
<1> QED
  BY <1>1, <1>2, <1>3, <1>4, <1>5 DEF ColourNext

\* The sum up to the last line is what ElapsedAddUp speaks of.
LEMMA ColoursAddUp == ColourInv => ElapsedAddUp
<1> SUFFICES ASSUME ColourInv, NEW s \in Terminal, Len(prints[s]) \in Made(s), \A k \in Made(s) : prints[s][k].elapsed # {}
             PROVE  TotalOf(Elapsed(s)) = messages[Last(prints[s]).id].time - formatter[s].made
  BY DEF ElapsedAddUp, Made
<1>1. TotalOf(Elapsed(s)) = formatter[s].since - formatter[s].made
  BY DEF ColourInv, ElapsedSoFar
<1>2. formatter[s].since = messages[prints[s][Len(prints[s])].id].time
  BY DEF ColourInv, SinceLast
<1> QED
  BY <1>1, <1>2 DEF Last

\* The inductive invariant of the coloured sinks (sinks/ansicolor_sink-inl.h,
\* details/pattern_formatter-inl.h).
THEOREM ColoursInvariant == ColourSpec => []ColourInv
BY ColourInvInit, ColourInvNext, PTL DEF ColourSpec

\* Every line that a sink prints shows the second of its own message and no other,
\* whatever the order of messages and however patterns are set.
THEOREM TimesAreTrue == ColourSpec => []TimesTrue
<1>1. ColourInv => TimesTrue
  BY DEF ColourInv
<1> QED
  BY ColoursInvariant, <1>1, PTL

\* The elapsed times that a formatter shows add up.
THEOREM ElapsedTimesAddUp == ColourSpec => []ElapsedAddUp
BY ColoursInvariant, ColoursAddUp, PTL

\* The colour range that a sink's own pattern marks lies in its line.
THEOREM OwnRangesFit == ColourSpec => []OwnRangeFits
<1>1. ColourInv => OwnRangeFits
  BY DEF ColourInv
<1> QED
  BY ColoursInvariant, <1>1, PTL

-----------------------------------------------------------------------------
(* Parsing a format string, with the values and without them.              *)

\* The states of the parser, of a string s.
SpecsShape(specs) ==
  specs = [fill |-> specs.fill, align |-> specs.align, flags |-> specs.flags, width |-> specs.width,
           precision |-> specs.precision, type |-> specs.type]
Shape(p) ==
  /\ p = [s |-> p.s, at |-> p.at, next |-> p.next, error |-> p.error, out |-> p.out, id |-> p.id, name |-> p.name,
          value |-> p.value, specs |-> p.specs]
  /\ SpecsShape(p.specs)

\* q is what became of p: an error, once there is one, remains.
Onward(p, q) == Shape(q) /\ q.s = p.s /\ (p.error # "" => q.error = p.error)

\* What is the same with the values and without them, as long as there is no error:
\* all but the values, the widths and the precisions.
Same(c, f) ==
  /\ c.error = "" /\ f.error = ""
  /\ c.s = f.s /\ c.at = f.at /\ c.next = f.next /\ c.id = f.id /\ c.name = << >> /\ f.name = << >>
  /\ c.specs.align = f.specs.align /\ c.specs.flags = f.specs.flags /\ c.specs.type = f.specs.type
  /\ f.at \in Nat \ {0} /\ f.id \in Nat /\ f.next \in Int

\* c is checked and f formatted.
Agreeing(c, f) == Same(c, f) \/ (c.error # "" /\ f.error # "") \/ f.error \in DynamicErrors
Pair(c, f) == Shape(c) /\ Shape(f) /\ c.s = f.s /\ Agreeing(c, f)

LEMMA SamePair ==
  ASSUME NEW c, NEW f, Shape(c), Shape(f), Same(c, f)
  PROVE  Pair(c, f)
  BY DEF Pair, Same, Agreeing

LEMMA OnwardOn ==
  ASSUME NEW p, NEW q, NEW r, Onward(p, q), Onward(q, r)
  PROVE  Onward(p, r)
  BY DEF Onward

LEMMA OnwardSelf ==
  ASSUME NEW p, Shape(p)
  PROVE  Onward(p, p)
  BY DEF Onward

\* It is enough to see to what is the same.
LEMMA PairOn ==
  ASSUME NEW c, NEW f, NEW d, NEW g, Pair(c, f), Onward(c, d), Onward(f, g), Same(c, f) => Pair(d, g)
  PROVE  Pair(d, g)
<1>1. Shape(d) /\ Shape(g) /\ d.s = g.s
  BY DEF Pair, Onward
<1>2. CASE Same(c, f)
  BY <1>2
<1>3. CASE c.error # "" /\ f.error # ""
  BY <1>1, <1>3 DEF Pair, Onward, Agreeing
<1>4. CASE f.error \in DynamicErrors
  <2>1. f.error # ""
    BY <1>4 DEF DynamicErrors
  <2> QED
    BY <1>1, <1>4, <2>1 DEF Pair, Onward, Agreeing
<1> QED
  BY <1>2, <1>3, <1>4 DEF Pair, Agreeing

LEMMA FailOn ==
  ASSUME NEW p, Shape(p), NEW error
  PROVE  Onward(p, Fail(p, error)) /\ (error # "" => Fail(p, error).error # "") /\ Fail(p, error).specs = p.specs
  BY DEF Shape, Onward, Fail

LEMMA RequireOn ==
  ASSUME NEW p, Shape(p), NEW ok, NEW error
  PROVE  Onward(p, Require(p, ok, error)) /\ Require(p, ok, error).specs = p.specs
  BY FailOn, OnwardSelf DEF Require

LEMMA SkipOn ==
  ASSUME NEW p, Shape(p), NEW n
  PROVE  Onward(p, Skip(p, n)) /\ Skip(p, n).specs = p.specs
  BY DEF Shape, Onward, Skip

LEMMA EndsHereOn ==
  ASSUME NEW p, Shape(p), NEW error
  PROVE  Onward(p, EndsHere(p, error)) /\ EndsHere(p, error).specs = p.specs
  BY FailOn, OnwardSelf DEF EndsHere, Require

\* Both fail, or neither, for a reason of neither's own.
LEMMA FailPair ==
  ASSUME NEW c, NEW f, Pair(c, f), NEW error, error # ""
  PROVE  Pair(Fail(c, error), Fail(f, error))
<1>1. Onward(c, Fail(c, error)) /\ Onward(f, Fail(f, error))
  BY FailOn DEF Pair
<1>2. Fail(c, error).error # "" /\ Fail(f, error).error # ""
  BY FailOn DEF Pair
<1> QED
  BY <1>1, <1>2 DEF Pair, Onward, Agreeing

LEMMA RequirePair ==
  ASSUME NEW c, NEW f, Pair(c, f), NEW ok, NEW fine, NEW error, error # "", Same(c, f) => (ok <=> fine)
  PROVE  Pair(Require(c, ok, error), Require(f, fine, error))
<1>1. Onward(c, Require(c, ok, error)) /\ Onward(f, Require(f, fine, error))
  BY RequireOn DEF Pair
<1>2. Same(c, f) => Pair(Require(c, ok, error), Require(f, fine, error))
  BY FailPair DEF Require
<1> QED
  BY <1>1, <1>2, PairOn

\* q differs from p only in its specifiers, values and what was read.
Beside(p, q) ==
  /\ Shape(q) /\ q.s = p.s /\ q.at = p.at /\ q.next = p.next /\ q.error = p.error /\ q.id = p.id /\ q.name = p.name

LEMMA BesidePair ==
  ASSUME NEW c, NEW f, NEW d, NEW g, Pair(c, f), Beside(c, d), Beside(f, g),
         d.specs.align = g.specs.align \/ (d.specs.align = c.specs.align /\ g.specs.align = f.specs.align),
         d.specs.flags = g.specs.flags \/ (d.specs.flags = c.specs.flags /\ g.specs.flags = f.specs.flags),
         d.specs.type = g.specs.type \/ (d.specs.type = c.specs.type /\ g.specs.type = f.specs.type)
  PROVE  Pair(d, g)
<1>1. Shape(d) /\ Shape(g) /\ d.s = g.s
  BY DEF Pair, Beside
<1>2. Same(c, f) => Same(d, g)
  BY DEF Beside, Same
<1> QED
  BY <1>1, <1>2 DEF Pair, Beside, Agreeing

LEMMA SkipPair ==
  ASSUME NEW c, NEW f, Pair(c, f), NEW n \in Nat
  PROVE  Pair(Skip(c, n), Skip(f, n))
<1>1. Onward(c, Skip(c, n)) /\ Onward(f, Skip(f, n))
  BY SkipOn DEF Pair
<1>2. ASSUME NEW p, Shape(p)
      PROVE  /\ Skip(p, n).s = p.s /\ Skip(p, n).at = p.at + n /\ Skip(p, n).next = p.next /\ Skip(p, n).error = p.error
             /\ Skip(p, n).id = p.id /\ Skip(p, n).name = p.name /\ Skip(p, n).specs = p.specs
  BY <1>2 DEF Shape, Skip
<1>3. Same(c, f) => Same(Skip(c, n), Skip(f, n))
  <2> DEFINE d == Skip(c, n)
             g == Skip(f, n)
  <2>1. /\ d.s = c.s /\ d.at = c.at + n /\ d.next = c.next /\ d.error = c.error
        /\ d.id = c.id /\ d.name = c.name /\ d.specs = c.specs
    BY <1>2 DEF Pair
  <2>2. /\ g.s = f.s /\ g.at = f.at + n /\ g.next = f.next /\ g.error = f.error
        /\ g.id = f.id /\ g.name = f.name /\ g.specs = f.specs
    BY <1>2 DEF Pair
  <2> HIDE DEF d, g
  <2>3. ASSUME Same(c, f)
        PROVE  Same(d, g)
    <3>1. f.at + n \in Nat \ {0}
      <4> DEFINE at == f.at
      <4>1. at \in Nat \ {0}
        BY <2>3 DEF Same
      <4> HIDE DEF at
      <4>2. at + n \in Nat \ {0}
        BY <4>1
      <4> QED
        BY <4>2 DEF at
    <3> QED
      BY <2>1, <2>2, <2>3, <3>1 DEF Same
  <2> QED
    BY <2>3 DEF d, g
<1> QED
  BY <1>1, <1>3, PairOn, SamePair DEF Onward

\* What stands here is the same.
LEMMA HereSame ==
  ASSUME NEW c, NEW f, Same(c, f)
  PROVE  Here(c) = Here(f) /\ CharAt(c.s, c.at + 1) = CharAt(f.s, f.at + 1)
  BY DEF Same, Here

LEMMA EndsHerePair ==
  ASSUME NEW c, NEW f, Pair(c, f), NEW error, error # ""
  PROVE  Pair(EndsHere(c, error), EndsHere(f, error))
  BY RequirePair, HereSame, ZenonT(60) DEF EndsHere

\* Specifiers may be set, one by one.
LEMMA SetSpecs ==
  ASSUME NEW p, Shape(p), NEW x
  PROVE  /\ LET q == [p EXCEPT !.specs.align = x]
            IN  Beside(p, q) /\ q.specs.align = x /\ q.specs.flags = p.specs.flags /\ q.specs.type = p.specs.type
         /\ LET q == [p EXCEPT !.specs.flags = x]
            IN  Beside(p, q) /\ q.specs.flags = x /\ q.specs.align = p.specs.align /\ q.specs.type = p.specs.type
         /\ LET q == [p EXCEPT !.specs.type = x]
            IN  Beside(p, q) /\ q.specs.type = x /\ q.specs.align = p.specs.align /\ q.specs.flags = p.specs.flags
<1> USE DEF Shape, SpecsShape, Beside
<1>1. LET q == [p EXCEPT !.specs.align = x]
      IN  Beside(p, q) /\ q.specs.align = x /\ q.specs.flags = p.specs.flags /\ q.specs.type = p.specs.type
  OBVIOUS
<1>2. LET q == [p EXCEPT !.specs.flags = x]
      IN  Beside(p, q) /\ q.specs.flags = x /\ q.specs.align = p.specs.align /\ q.specs.type = p.specs.type
  OBVIOUS
<1>3. LET q == [p EXCEPT !.specs.type = x]
      IN  Beside(p, q) /\ q.specs.type = x /\ q.specs.align = p.specs.align /\ q.specs.flags = p.specs.flags
  OBVIOUS
<1> QED
  BY <1>1, <1>2, <1>3

\* q has the alignment, flags and type of p.
Alike(p, q) == q.specs.align = p.specs.align /\ q.specs.flags = p.specs.flags /\ q.specs.type = p.specs.type

LEMMA SetOthers ==
  ASSUME NEW p, Shape(p), NEW x
  PROVE  /\ LET q == [p EXCEPT !.specs.fill = x] IN Beside(p, q) /\ Alike(p, q)
         /\ LET q == [p EXCEPT !.specs.width = x] IN Beside(p, q) /\ Alike(p, q)
         /\ LET q == [p EXCEPT !.specs.precision = x] IN Beside(p, q) /\ Alike(p, q)
         /\ LET q == [p EXCEPT !.value = x] IN Beside(p, q) /\ Alike(p, q)
         /\ LET q == [p EXCEPT !.out = x] IN Beside(p, q) /\ Alike(p, q)
<1> USE DEF Shape, SpecsShape, Beside, Alike
<1>1. LET q == [p EXCEPT !.specs.fill = x] IN Beside(p, q) /\ Alike(p, q)
  OBVIOUS
<1>2. LET q == [p EXCEPT !.specs.width = x] IN Beside(p, q) /\ Alike(p, q)
  OBVIOUS
<1>3. LET q == [p EXCEPT !.specs.precision = x] IN Beside(p, q) /\ Alike(p, q)
  OBVIOUS
<1>4. LET q == [p EXCEPT !.value = x] IN Beside(p, q) /\ Alike(p, q)
  OBVIOUS
<1>5. LET q == [p EXCEPT !.out = x] IN Beside(p, q) /\ Alike(p, q)
  OBVIOUS
<1> QED
  BY <1>1, <1>2, <1>3, <1>4, <1>5

LEMMA BesideOn ==
  ASSUME NEW p, NEW q, Beside(p, q)
  PROVE  Onward(p, q)
  BY DEF Beside, Onward

\* What differs in nothing but values.
LEMMA AlikePair ==
  ASSUME NEW c, NEW f, NEW d, NEW g, Pair(c, f), Beside(c, d), Beside(f, g), Alike(c, d), Alike(f, g)
  PROVE  Pair(d, g)
  BY BesidePair DEF Alike

LEMMA BesideSelf ==
  ASSUME NEW p, Shape(p)
  PROVE  Beside(p, p) /\ Alike(p, p)
  BY DEF Beside, Alike

-----------------------------------------------------------------------------
(* Numbers.                                                                *)

\* The end of a run of characters, when "end" is none of them.
EndsAt(p, from, e, chars) ==
  e \in from .. Len(p.s) + 1 /\ (\A k \in from .. e - 1 : p.s[k] \in chars) /\ CharAt(p.s, e) \notin chars

LEMMA RunEndBefore ==
  ASSUME NEW T, NEW p, p.s \in Seq(T), NEW chars, NEW b \in 1 .. Len(p.s), NEW e, EndsAt(p, b + 1, e, chars)
  PROVE  \E a : EndsAt(p, b, a, chars)
<1>0. Len(p.s) \in Nat /\ DOMAIN p.s = 1 .. Len(p.s)
  BY LenProperties
<1>1. CASE p.s[b] \in chars
  <2>1. \A k \in b .. e - 1 : k = b \/ k \in b + 1 .. e - 1
    BY <1>0 DEF EndsAt
  <2>2. EndsAt(p, b, e, chars)
    BY <1>0, <1>1, <2>1 DEF EndsAt
  <2> QED
    BY <2>2
<1>2. CASE p.s[b] \notin chars
  <2>1. EndsAt(p, b, b, chars)
    BY <1>0, <1>2 DEF EndsAt, CharAt
  <2> QED
    BY <2>1
<1> QED
  BY <1>1, <1>2

LEMMA RunEnds ==
  ASSUME NEW T, NEW p, p.s \in Seq(T), NEW from \in 1 .. Len(p.s) + 1, NEW chars, "end" \notin chars
  PROVE  EndsAt(p, from, RunEnd(p, from, chars), chars)
<1> DEFINE n == Len(p.s)
           S == {m \in Nat : m <= n => \E e : EndsAt(p, n + 1 - m, e, chars)}
<1>0. n \in Nat /\ DOMAIN p.s = 1 .. n
  BY LenProperties
<1>1. CharAt(p.s, n + 1) \notin chars
  BY <1>0 DEF CharAt
<1>2. 0 \in S
  <2>1. EndsAt(p, n + 1, n + 1, chars) /\ n + 1 - 0 = n + 1
    BY <1>0, <1>1 DEF EndsAt
  <2> QED
    BY <1>0, <2>1
<1> HIDE DEF n
<1>3. ASSUME NEW m \in S
      PROVE  m + 1 \in S
  <2> SUFFICES ASSUME m + 1 <= n
               PROVE  \E e : EndsAt(p, n + 1 - (m + 1), e, chars)
    OBVIOUS
  <2> DEFINE b == n + 1 - (m + 1)
  <2>1. b \in 1 .. n /\ b + 1 = n + 1 - m /\ m \in Nat /\ m <= n
    BY <1>0
  <2>2. PICK e : EndsAt(p, b + 1, e, chars)
    BY <2>1
  <2> HIDE DEF b
  <2>3. \E a : EndsAt(p, b, a, chars)
    BY <2>1, <2>2, RunEndBefore DEF n
  <2> QED
    BY <2>3 DEF b
<1> HIDE DEF S
<1>4. S = Nat
  <2>1. S \in SUBSET Nat
    BY DEF S
  <2> QED
    BY <1>2, <1>3, <2>1, SetInduction
<1>5. \E e : EndsAt(p, from, e, chars)
  <2> DEFINE m == n + 1 - from
  <2>1. m \in Nat /\ m <= n /\ n + 1 - m = from
    BY <1>0 DEF n
  <2>2. m \in S
    BY <1>4, <2>1
  <2>3. \E e : EndsAt(p, n + 1 - m, e, chars)
    BY <2>1, <2>2 DEF S
  <2> HIDE DEF m
  <2> QED
    BY <2>1, <2>3
<1> QED
  BY <1>5 DEF RunEnd, EndsAt

LEMMA SameRunEnd ==
  ASSUME NEW c, NEW f, c.s = f.s, NEW from, NEW chars
  PROVE  RunEnd(c, from, chars) = RunEnd(f, from, chars)
  BY DEF RunEnd

\* f has the numbers that the first digits are, up to n of them.
NumbersUpTo(f, digits, n) ==
  f = [k \in 0 .. n |-> IF k = 0 THEN 0
                        ELSE IF f[k - 1] > MaxInt \div 10 THEN MaxInt + 1 ELSE f[k - 1] * 10 + DigitValue(digits[k])]

LEMMA NumbersExist ==
  ASSUME NEW digits, NEW n \in Nat
  PROVE  \E f : NumbersUpTo(f, digits, n)
<1> DEFINE next(v, k) == IF v > MaxInt \div 10 THEN MaxInt + 1 ELSE v * 10 + DigitValue(digits[k])
           S == {m \in Nat : \E f : NumbersUpTo(f, digits, m)}
<1> HIDE DEF next
<1>0. \A f, m : NumbersUpTo(f, digits, m) <=> f = [k \in 0 .. m |-> IF k = 0 THEN 0 ELSE next(f[k - 1], k)]
  BY DEF NumbersUpTo, next
<1>1. 0 \in S
  <2> DEFINE g == [k \in 0 .. 0 |-> 0]
  <2>1. g = [k \in 0 .. 0 |-> IF k = 0 THEN 0 ELSE next(g[k - 1], k)]
    OBVIOUS
  <2> HIDE DEF g
  <2> QED
    BY <1>0, <2>1
<1>2. ASSUME NEW m \in S
      PROVE  m + 1 \in S
  <2>1. PICK f : f = [k \in 0 .. m |-> IF k = 0 THEN 0 ELSE next(f[k - 1], k)]
    BY <1>0, <1>2
  <2> DEFINE g == [k \in 0 .. m + 1 |-> IF k = m + 1 THEN next(f[m], k) ELSE f[k]]
  <2>2. ASSUME NEW k \in 0 .. m + 1
        PROVE  g[k] = IF k = 0 THEN 0 ELSE next(g[k - 1], k)
    <3>1. CASE k = m + 1
      <4>1. k # 0 /\ k - 1 = m /\ m \in 0 .. m + 1 /\ m # m + 1
        BY <3>1
      <4> QED
        BY <3>1, <4>1
    <3>2. CASE k # m + 1
      <4>1. k \in 0 .. m /\ (k # 0 => k - 1 \in 0 .. m + 1 /\ k - 1 # m + 1 /\ k - 1 \in 0 .. m)
        BY <3>2
      <4>2. f[k] = IF k = 0 THEN 0 ELSE next(f[k - 1], k)
        BY <2>1, <4>1
      <4> QED
        BY <3>2, <4>1, <4>2
    <3> QED
      BY <3>1, <3>2
  <2>3. g = [k \in 0 .. m + 1 |-> IF k = 0 THEN 0 ELSE next(g[k - 1], k)]
    BY <2>2
  <2> HIDE DEF g
  <2> QED
    BY <1>0, <2>3, SMTT(30)
<1> HIDE DEF S
<1>3. S = Nat
  <2>1. S \in SUBSET Nat
    BY DEF S
  <2> QED
    BY <1>1, <1>2, <2>1, SetInduction
<1> QED
  BY <1>3 DEF S

LEMMA IntOfType ==
  ASSUME NEW digits, Len(digits) \in Nat, \A k \in 1 .. Len(digits) : IsDigit(digits[k])
  PROVE  IntOf(digits) \in Nat
<1> DEFINE n == Len(digits)
           f == CHOOSE f : NumbersUpTo(f, digits, n)
           S == {m \in Nat : m <= n => f[m] \in Nat}
<1>1. NumbersUpTo(f, digits, n)
  BY NumbersExist
<1>2. IntOf(digits) = f[n]
  BY DEF IntOf, NumbersUpTo
<1> HIDE DEF f
<1>3. 0 \in S
  BY <1>1 DEF NumbersUpTo
<1>4. ASSUME NEW m \in S
      PROVE  m + 1 \in S
  <2> SUFFICES ASSUME m + 1 <= n
               PROVE  f[m + 1] \in Nat
    OBVIOUS
  <2>1. m + 1 \in 0 .. n /\ m + 1 # 0 /\ (m + 1) - 1 = m /\ m + 1 \in 1 .. n /\ f[m] \in Nat
    BY <1>4
  <2>2. DigitValue(digits[m + 1]) \in Nat
    <3>1. DigitValue(digits[m + 1]) \in 0 .. 9
      BY <2>1, DigitsAreNumbers
    <3> QED
      BY <3>1
  <2>3. f[m + 1] = IF f[m] > MaxInt \div 10 THEN MaxInt + 1 ELSE f[m] * 10 + DigitValue(digits[m + 1])
    BY <1>1, <2>1 DEF NumbersUpTo
  <2> QED
    BY <2>1, <2>2, <2>3, FormatStringAssumption
<1> HIDE DEF S
<1>5. S = Nat
  <2>1. S \in SUBSET Nat
    BY DEF S
  <2> QED
    BY <1>3, <1>4, <2>1, SetInduction
<1> QED
  BY <1>2, <1>5 DEF S

LEMMA EndIsNoDigit == "end" \notin ToSet(DigitChars)
<1>1. \A k \in 1 .. 10 : DigitChars[k] # "end"
  BY DEF DigitChars
<1>2. DOMAIN DigitChars = 1 .. 10
  BY DEF DigitChars
<1> QED
  BY <1>1, <1>2 DEF ToSet

\* Where the parser is, and the value read, may be set.
LEMMA SetValue ==
  ASSUME NEW p, Shape(p), NEW v
  PROVE  LET q == [p EXCEPT !.value = v]
         IN  Shape(q) /\ q.value = v /\ q.specs = p.specs /\ q.s = p.s /\ q.at = p.at /\ q.next = p.next
             /\ q.error = p.error /\ q.id = p.id /\ q.name = p.name
<1>1. [p EXCEPT !.value = v].specs = p.specs
  BY DEF Shape
<1> QED
  BY <1>1 DEF Shape

LEMMA SetAt ==
  ASSUME NEW p, Shape(p), NEW e
  PROVE  LET q == [p EXCEPT !.at = e]
         IN  Shape(q) /\ q.value = p.value /\ q.specs = p.specs /\ q.s = p.s /\ q.at = e /\ q.next = p.next
             /\ q.error = p.error /\ q.id = p.id /\ q.name = p.name
<1>1. [p EXCEPT !.at = e].specs = p.specs
  BY DEF Shape
<1> QED
  BY <1>1 DEF Shape

AtValue(p, e, v) == [p EXCEPT !.at = e, !.value = v]

LEMMA SetAtValue ==
  ASSUME NEW p, Shape(p), NEW e, NEW v
  PROVE  LET q == AtValue(p, e, v)
         IN  Shape(q) /\ q.value = v /\ q.specs = p.specs /\ q.s = p.s /\ q.at = e /\ q.next = p.next
             /\ q.error = p.error /\ q.id = p.id /\ q.name = p.name
<1> DEFINE a == [p EXCEPT !.at = e]
<1>1. AtValue(p, e, v) = [a EXCEPT !.value = v]
  BY DEF AtValue
<1>2. /\ Shape(a) /\ a.specs = p.specs /\ a.s = p.s /\ a.at = e /\ a.next = p.next
      /\ a.error = p.error /\ a.id = p.id /\ a.name = p.name
  BY SetAt
<1> HIDE DEF a
<1> QED
  BY <1>1, <1>2, SetValue

\* parse_nonnegative_int reads the same number, or fails for the same reason.
LEMMA ParseIntOn ==
  ASSUME NEW p, Shape(p)
  PROVE  Onward(p, ParseInt(p)) /\ ParseInt(p).specs = p.specs
<1>1. CASE Here(p) = "0"
  <2> DEFINE q == Skip(p, 1)
  <2>1. Onward(p, q) /\ q.specs = p.specs
    BY SkipOn
  <2>2. ParseInt(p) = [q EXCEPT !.value = 0]
    BY <1>1 DEF ParseInt
  <2> HIDE DEF q
  <2>3. Onward(q, [q EXCEPT !.value = 0]) /\ [q EXCEPT !.value = 0].specs = q.specs
    BY <2>1, SetValue, ZenonT(60) DEF Onward
  <2> QED
    BY <2>1, <2>2, <2>3, OnwardOn
<1>2. CASE Here(p) # "0"
  <2> DEFINE e == RunEnd(p, p.at, ToSet(DigitChars))
             v == IntOf(SubSeq(p.s, p.at, e - 1))
             q == AtValue(p, e, v)
  <2>1. Onward(p, q) /\ q.specs = p.specs
    <3> HIDE DEF e, v
    <3>1. Shape(q) /\ q.s = p.s /\ q.error = p.error /\ q.specs = p.specs
      BY SetAtValue
    <3> QED
      BY <3>1 DEF Onward
  <2>2. ParseInt(p) = Require(q, v <= MaxInt, "number is too big")
    BY <1>2 DEF ParseInt, AtValue
  <2> DEFINE ok == v <= MaxInt
  <2> HIDE DEF q, ok
  <2>3. Onward(q, Require(q, ok, "number is too big")) /\ Require(q, ok, "number is too big").specs = q.specs
    BY <2>1, RequireOn, ZenonT(60) DEF Onward
  <2> QED
    BY <2>1, <2>2, <2>3, OnwardOn DEF ok
<1> QED
  BY <1>1, <1>2

LEMMA ParseIntPair ==
  ASSUME NEW T, NEW c, NEW f, f.s \in Seq(T), Pair(c, f), Same(c, f), IsDigit(Here(f))
  PROVE  /\ Pair(ParseInt(c), ParseInt(f))
         /\ ParseInt(c).value = ParseInt(f).value /\ ParseInt(f).value \in Nat
<1>0. Here(c) = Here(f) /\ Shape(c) /\ Shape(f)
  BY HereSame DEF Pair
<1>1. CASE Here(f) = "0"
  <2>1. Pair(Skip(c, 1), Skip(f, 1)) /\ Shape(Skip(c, 1)) /\ Shape(Skip(f, 1))
    BY SkipPair DEF Pair
  <2>2. ParseInt(c) = [Skip(c, 1) EXCEPT !.value = 0] /\ ParseInt(f) = [Skip(f, 1) EXCEPT !.value = 0]
    BY <1>0, <1>1 DEF ParseInt
  <2>3. ASSUME NEW p, Shape(p)
        PROVE  LET q == [p EXCEPT !.value = 0] IN Beside(p, q) /\ Alike(p, q) /\ q.value = 0
    <3>1. [p EXCEPT !.value = 0].value = 0
      BY <2>3 DEF Shape
    <3> QED
      BY <2>3, <3>1, SetOthers
  <2> DEFINE a == Skip(c, 1)
             b == Skip(f, 1)
  <2>4. LET q == [a EXCEPT !.value = 0] IN Beside(a, q) /\ Alike(a, q) /\ q.value = 0
    BY <2>1, <2>3
  <2>5. LET q == [b EXCEPT !.value = 0] IN Beside(b, q) /\ Alike(b, q) /\ q.value = 0
    BY <2>1, <2>3
  <2> HIDE DEF a, b
  <2>6. Pair(a, b)
    BY <2>1 DEF a, b
  <2>7. Pair([a EXCEPT !.value = 0], [b EXCEPT !.value = 0])
    BY <2>4, <2>5, <2>6, AlikePair
  <2> QED
    BY <2>2, <2>4, <2>5, <2>7 DEF a, b
<1>2. CASE Here(f) # "0"
  <2> DEFINE e == RunEnd(f, f.at, ToSet(DigitChars))
             digits == SubSeq(f.s, f.at, e - 1)
             v == IntOf(digits)
             ok == v <= MaxInt
             d == AtValue(c, e, v)
             g == AtValue(f, e, v)
  <2>1. c.at = f.at /\ c.s = f.s /\ f.at \in Nat \ {0}
    BY DEF Same
  <2>2. RunEnd(c, c.at, ToSet(DigitChars)) = e
    BY <2>1, SameRunEnd
  <2>3. Len(f.s) \in Nat /\ DOMAIN f.s = 1 .. Len(f.s)
    BY LenProperties
  <2>4. f.at \in 1 .. Len(f.s)
    <3>1. CharAt(f.s, f.at) # "end"
      BY EndIsNoDigit DEF Here, IsDigit
    <3> QED
      BY <2>3, <3>1 DEF CharAt
  <2>5. EndsAt(f, f.at, e, ToSet(DigitChars))
    <3>1. f.at \in 1 .. Len(f.s) + 1
      BY <2>3, <2>4
    <3> QED
      BY <3>1, RunEnds, EndIsNoDigit
  <2> HIDE DEF e
  <2>6. e \in Nat \ {0} /\ e >= f.at /\ e <= Len(f.s) + 1
    BY <2>3, <2>4, <2>5 DEF EndsAt
  <2>7. v \in Nat
    <3>1. Len(digits) = e - f.at /\ \A k \in 1 .. e - f.at : digits[k] = f.s[f.at + k - 1]
      BY <2>3, <2>4, <2>6
    <3>2. \A k \in 1 .. e - f.at : f.at + k - 1 \in f.at .. e - 1
      BY <2>1, <2>6
    <3>3. \A k \in 1 .. Len(digits) : IsDigit(digits[k])
      BY <2>5, <3>1, <3>2 DEF EndsAt, IsDigit
    <3>4. Len(digits) \in Nat
      BY <2>4, <2>6, <3>1
    <3> HIDE DEF digits
    <3> QED
      BY <3>3, <3>4, IntOfType
  <2>8. /\ ParseInt(c) = Require(d, ok, "number is too big")
        /\ ParseInt(f) = Require(g, ok, "number is too big")
    BY <1>0, <1>2, <2>1, <2>2 DEF ParseInt, AtValue, e
  <2> HIDE DEF v, ok
  <2>20. /\ Shape(d) /\ d.value = v /\ d.specs = c.specs /\ d.s = c.s /\ d.at = e /\ d.next = c.next
         /\ d.error = c.error /\ d.id = c.id /\ d.name = c.name
    BY <1>0, SetAtValue
  <2>21. /\ Shape(g) /\ g.value = v /\ g.specs = f.specs /\ g.s = f.s /\ g.at = e /\ g.next = f.next
         /\ g.error = f.error /\ g.id = f.id /\ g.name = f.name
    BY <1>0, SetAtValue
  <2> HIDE DEF d, g
  <2>9. Shape(d) /\ Shape(g) /\ Same(d, g) /\ d.value = v /\ g.value = v
    BY <2>6, <2>20, <2>21 DEF Same
  <2>10. Pair(d, g)
    BY <2>9, SamePair
  <2>11. Pair(Require(d, ok, "number is too big"), Require(g, ok, "number is too big"))
    BY <2>10, RequirePair
  <2>12. Require(d, ok, "number is too big").value = v /\ Require(g, ok, "number is too big").value = v
    BY <2>9 DEF Require, Fail, Shape
  <2> QED
    BY <2>7, <2>8, <2>11, <2>12
<1> QED
  BY <1>1, <1>2

-----------------------------------------------------------------------------
(* Argument ids.                                                           *)

\* What next_arg_id and check_arg_id set.
Numbered(p, n, id) == [p EXCEPT !.next = n, !.id = id, !.name = << >>]

LEMMA NumberedFields ==
  ASSUME NEW p, Shape(p), NEW n, NEW id
  PROVE  LET q == Numbered(p, n, id)
         IN  Shape(q) /\ q.s = p.s /\ q.at = p.at /\ q.next = n /\ q.error = p.error /\ q.id = id
             /\ q.name = << >> /\ q.specs = p.specs
<1> DEFINE a == [p EXCEPT !.next = n]
           b == [a EXCEPT !.id = id]
           q == [b EXCEPT !.name = << >>]
<1>1. /\ Shape(a) /\ a.s = p.s /\ a.at = p.at /\ a.next = n /\ a.error = p.error /\ a.specs = p.specs
  BY DEF Shape
<1> HIDE DEF a
<1>2. /\ Shape(b) /\ b.s = a.s /\ b.at = a.at /\ b.next = a.next /\ b.error = a.error /\ b.id = id
      /\ b.specs = a.specs
  BY <1>1 DEF Shape
<1> HIDE DEF b
<1>3. /\ Shape(q) /\ q.s = b.s /\ q.at = b.at /\ q.next = b.next /\ q.error = b.error /\ q.id = b.id
      /\ q.name = << >> /\ q.specs = b.specs
  BY <1>2 DEF Shape
<1>4. Numbered(p, n, id) = q
  BY DEF Numbered, a, b
<1> HIDE DEF q
<1> QED
  BY <1>1, <1>2, <1>3, <1>4

LEMMA NumberedPair ==
  ASSUME NEW c, NEW f, Pair(c, f), Same(c, f), NEW n \in Int, NEW id \in Nat
  PROVE  Pair(Numbered(c, n, id), Numbered(f, n, id))
<1> DEFINE d == Numbered(c, n, id)
           g == Numbered(f, n, id)
<1>1. /\ Shape(d) /\ d.s = c.s /\ d.at = c.at /\ d.next = n /\ d.error = c.error /\ d.id = id
      /\ d.name = << >> /\ d.specs = c.specs
  BY NumberedFields DEF Pair
<1>2. /\ Shape(g) /\ g.s = f.s /\ g.at = f.at /\ g.next = n /\ g.error = f.error /\ g.id = id
      /\ g.name = << >> /\ g.specs = f.specs
  BY NumberedFields DEF Pair
<1> HIDE DEF d, g
<1>3. Same(d, g)
  BY <1>1, <1>2 DEF Same
<1> QED
  BY <1>1, <1>2, <1>3, SamePair DEF d, g

LEMMA NextArgIdOn ==
  ASSUME NEW p, Shape(p)
  PROVE  Onward(p, NextArgId(p)) /\ NextArgId(p).specs = p.specs
<1>1. CASE p.next >= 0
  <2>1. NextArgId(p) = Numbered(p, p.next + 1, p.next)
    BY <1>1 DEF NextArgId, Numbered
  <2> DEFINE q == Numbered(p, p.next + 1, p.next)
  <2>2. Shape(q) /\ q.s = p.s /\ q.error = p.error /\ q.specs = p.specs
    BY NumberedFields
  <2> QED
    BY <2>1, <2>2 DEF Onward
<1>2. CASE ~(p.next >= 0)
  BY <1>2, FailOn DEF NextArgId
<1> QED
  BY <1>1, <1>2

LEMMA NextArgIdPair ==
  ASSUME NEW c, NEW f, Pair(c, f), Same(c, f)
  PROVE  Pair(NextArgId(c), NextArgId(f))
<1>0. c.next = f.next /\ f.next \in Int
  BY DEF Same
<1>1. CASE f.next >= 0
  <2>1. /\ NextArgId(c) = Numbered(c, c.next + 1, c.next)
        /\ NextArgId(f) = Numbered(f, f.next + 1, f.next)
    BY <1>0, <1>1 DEF NextArgId, Numbered
  <2>2. f.next + 1 \in Int /\ f.next \in Nat
    <3> DEFINE n == f.next
    <3>1. n \in Int /\ n >= 0
      BY <1>0, <1>1
    <3> HIDE DEF n
    <3>2. n + 1 \in Int /\ n \in Nat
      BY <3>1
    <3> QED
      BY <3>2 DEF n
  <2> QED
    BY <1>0, <2>1, <2>2, NumberedPair
<1>2. CASE ~(f.next >= 0)
  BY <1>0, <1>2, FailPair DEF NextArgId
<1> QED
  BY <1>1, <1>2

LEMMA CheckArgIdOn ==
  ASSUME NEW p, Shape(p), NEW id
  PROVE  Onward(p, CheckArgId(p, id)) /\ CheckArgId(p, id).specs = p.specs
<1>1. CASE p.next > 0
  BY <1>1, FailOn DEF CheckArgId
<1>2. CASE ~(p.next > 0)
  <2> DEFINE q == Numbered(p, -1, id)
  <2>1. CheckArgId(p, id) = q
    BY <1>2 DEF CheckArgId, Numbered
  <2>2. Shape(q) /\ q.s = p.s /\ q.error = p.error /\ q.specs = p.specs
    BY NumberedFields
  <2> QED
    BY <2>1, <2>2 DEF Onward
<1> QED
  BY <1>1, <1>2

LEMMA CheckArgIdPair ==
  ASSUME NEW c, NEW f, Pair(c, f), Same(c, f), NEW id \in Nat
  PROVE  Pair(CheckArgId(c, id), CheckArgId(f, id))
<1>0. c.next = f.next /\ f.next \in Int
  BY DEF Same
<1>1. CASE f.next > 0
  BY <1>0, <1>1, FailPair DEF CheckArgId
<1>2. CASE ~(f.next > 0)
  <2>1. CheckArgId(c, id) = Numbered(c, -1, id) /\ CheckArgId(f, id) = Numbered(f, -1, id)
    BY <1>0, <1>2 DEF CheckArgId, Numbered
  <2>2. -1 \in Int
    OBVIOUS
  <2> QED
    BY <2>1, <2>2, NumberedPair
<1> QED
  BY <1>1, <1>2

\* The id after its digits.
NumberId(q) == IF Here(q) \in {"}", ":"} THEN CheckArgId(q, q.value) ELSE Fail(q, "invalid format string")

LEMMA NumberIdOn ==
  ASSUME NEW p, Shape(p)
  PROVE  Onward(p, NumberId(p)) /\ NumberId(p).specs = p.specs
BY CheckArgIdOn, FailOn DEF NumberId

LEMMA NumberIdPair ==
  ASSUME NEW c, NEW f, Pair(c, f), c.value = f.value, f.value \in Nat
  PROVE  Pair(NumberId(c), NumberId(f))
<1>1. Onward(c, NumberId(c)) /\ Onward(f, NumberId(f))
  BY NumberIdOn DEF Pair
<1>2. ASSUME Same(c, f)
      PROVE  Pair(NumberId(c), NumberId(f))
  <2>1. Here(c) = Here(f)
    BY <1>2, HereSame
  <2>2. CASE Here(f) \in {"}", ":"}
    BY <1>2, <2>1, <2>2, CheckArgIdPair DEF NumberId
  <2>3. CASE Here(f) \notin {"}", ":"}
    BY <2>1, <2>3, FailPair DEF NumberId
  <2> QED
    BY <2>2, <2>3
<1> QED
  BY <1>1, <1>2, PairOn

NameAt(p, e, n) == [p EXCEPT !.at = e, !.name = n]

LEMMA NameAtOn ==
  ASSUME NEW p, Shape(p), NEW e, NEW n
  PROVE  Onward(p, NameAt(p, e, n)) /\ NameAt(p, e, n).specs = p.specs
<1> DEFINE a == [p EXCEPT !.at = e]
           q == [a EXCEPT !.name = n]
<1>1. Shape(a) /\ a.s = p.s /\ a.error = p.error /\ a.specs = p.specs
  BY DEF Shape
<1> HIDE DEF a
<1>2. Shape(q) /\ q.s = a.s /\ q.error = a.error /\ q.specs = a.specs
  BY <1>1 DEF Shape
<1>3. NameAt(p, e, n) = q
  BY DEF NameAt, a
<1> HIDE DEF q
<1> QED
  BY <1>1, <1>2, <1>3 DEF Onward

LEMMA ParseArgIdOn ==
  ASSUME NEW p, Shape(p)
  PROVE  Onward(p, ParseArgId(p)) /\ ParseArgId(p).specs = p.specs
<1> DEFINE e == RunEnd(p, p.at, NameStarts \cup ToSet(DigitChars))
           n == SubSeq(p.s, p.at, e - 1)
<1>1. ParseArgId(p) \in {NextArgId(p), NumberId(ParseInt(p)), NameAt(p, e, n), Fail(p, "invalid format string")}
  BY DEF ParseArgId, NumberId, NameAt
<1> HIDE DEF e, n
<1>2. Onward(p, NextArgId(p)) /\ NextArgId(p).specs = p.specs
  BY NextArgIdOn
<1>3. Onward(p, NumberId(ParseInt(p))) /\ NumberId(ParseInt(p)).specs = p.specs
  <2> DEFINE q == ParseInt(p)
  <2>1. Onward(p, q) /\ q.specs = p.specs
    BY ParseIntOn
  <2> HIDE DEF q
  <2>2. Onward(q, NumberId(q)) /\ NumberId(q).specs = q.specs
    BY <2>1, NumberIdOn DEF Onward
  <2> QED
    BY <2>1, <2>2, OnwardOn DEF q
<1>4. Onward(p, NameAt(p, e, n)) /\ NameAt(p, e, n).specs = p.specs
  BY NameAtOn
<1>5. Onward(p, Fail(p, "invalid format string")) /\ Fail(p, "invalid format string").specs = p.specs
  BY FailOn
<1> QED
  BY <1>1, <1>2, <1>3, <1>4, <1>5

LEMMA EndsAreNoDigits == ~IsDigit("}") /\ ~IsDigit(":")
<1> DEFINE digits == {"0", "1", "2", "3", "4", "5", "6", "7", "8", "9"}
<1>1. \A k \in 1 .. 10 : DigitChars[k] \in digits
  BY DEF DigitChars
<1>2. "}" \notin digits /\ ":" \notin digits
  BY Zenon
<1>3. DOMAIN DigitChars = 1 .. 10
  BY DEF DigitChars
<1> QED
  BY <1>1, <1>2, <1>3 DEF IsDigit, ToSet

\* parse_arg_id, where no name begins.
LEMMA ParseArgIdPair ==
  ASSUME NEW T, NEW c, NEW f, f.s \in Seq(T), Pair(c, f), Same(c, f) => Here(f) \notin NameStarts
  PROVE  Pair(ParseArgId(c), ParseArgId(f))
<1>1. Onward(c, ParseArgId(c)) /\ Onward(f, ParseArgId(f))
  BY ParseArgIdOn DEF Pair
<1>2. ASSUME Same(c, f)
      PROVE  Pair(ParseArgId(c), ParseArgId(f))
  <2>1. Here(c) = Here(f) /\ Here(f) \notin NameStarts
    BY <1>2, HereSame
  <2>2. CASE Here(f) \in {"}", ":"}
    <3>1. ~IsDigit("}") /\ ~IsDigit(":")
      BY EndsAreNoDigits
    <3>2. ParseArgId(c) = NextArgId(c) /\ ParseArgId(f) = NextArgId(f)
      BY <2>1, <2>2, <3>1 DEF ParseArgId
    <3> QED
      BY <1>2, <3>2, NextArgIdPair
  <2>3. CASE Here(f) \notin {"}", ":"} /\ IsDigit(Here(f))
    <3>1. ParseArgId(c) = NumberId(ParseInt(c)) /\ ParseArgId(f) = NumberId(ParseInt(f))
      BY <2>1, <2>3 DEF ParseArgId, NumberId
    <3>2. Pair(ParseInt(c), ParseInt(f)) /\ ParseInt(c).value = ParseInt(f).value /\ ParseInt(f).value \in Nat
      BY <1>2, <2>3, ParseIntPair
    <3> QED
      BY <3>1, <3>2, NumberIdPair
  <2>4. CASE Here(f) \notin {"}", ":"} /\ ~IsDigit(Here(f))
    <3>1. /\ ParseArgId(c) = Fail(c, "invalid format string")
          /\ ParseArgId(f) = Fail(f, "invalid format string")
      BY <2>1, <2>4 DEF ParseArgId
    <3> QED
      BY <3>1, FailPair
  <2> QED
    BY <2>2, <2>3, <2>4
<1> QED
  BY <1>1, <1>2, PairOn

-----------------------------------------------------------------------------
(* Widths and precisions that are arguments.                               *)

\* set_dynamic_spec fails for a reason that checking does not see.
LEMMA ValueOn ==
  ASSUME NEW p, Shape(p), NEW v
  PROVE  Beside(p, [p EXCEPT !.value = v]) /\ [p EXCEPT !.value = v].specs = p.specs
<1>1. [p EXCEPT !.value = v].specs = p.specs
  BY DEF Shape
<1> QED
  BY <1>1, SetOthers

\* The errors of a Require that adds one of the dynamic ones.
Softly(p, q) == Onward(p, q) /\ (p.error = "" => q.error = "" \/ q.error \in DynamicErrors)

LEMMA SoftlyOn ==
  ASSUME NEW p, NEW q, NEW r, Softly(p, q), Softly(q, r)
  PROVE  Softly(p, r)
<1>1. Onward(p, r)
  BY OnwardOn DEF Softly
<1>2. CASE q.error = ""
  BY <1>1, <1>2 DEF Softly
<1>3. CASE q.error # ""
  BY <1>1, <1>3 DEF Softly, Onward
<1> QED
  BY <1>2, <1>3

LEMMA SoftRequire ==
  ASSUME NEW p, Shape(p), NEW ok, NEW error \in DynamicErrors
  PROVE  Softly(p, Require(p, ok, error)) /\ Require(p, ok, error).specs = p.specs
<1>1. Onward(p, Require(p, ok, error)) /\ Require(p, ok, error).specs = p.specs
  BY RequireOn
<1>2. p.error = "" => Require(p, ok, error).error \in {"", error}
  BY DEF Require, Fail, Shape
<1> QED
  BY <1>1, <1>2 DEF Softly

\* A Require keeps everything but the error.
LEMMA RequireKeeps ==
  ASSUME NEW p, Shape(p), NEW ok, NEW error, Require(p, ok, error).error = "", error # ""
  PROVE  Require(p, ok, error) = p
BY DEF Require, Fail, Shape

\* The dynamic errors of a consumer.
DynamicOf(errors) == errors.other \in DynamicErrors /\ errors.negative \in DynamicErrors

LEMMA DynamicValueOn ==
  ASSUME NEW p, Shape(p), NEW args, NEW errors, ById(p) /\ DynamicOf(errors)
  PROVE  /\ Softly(p, DynamicValue(p, args, errors)) /\ DynamicValue(p, args, errors).specs = p.specs
         /\ DynamicValue(p, args, errors).error = "" => Beside(p, DynamicValue(p, args, errors))
<1> DEFINE arg == GetArg(p, args)
           a == Found(p, args)
           b == [a EXCEPT !.value = arg.value]
           x == arg.type \in IntTypes
           y == arg.value >= 0
           z == arg.value <= MaxInt
           d == Require(b, x, errors.other)
           e == Require(d, y, errors.negative)
           r == Require(e, z, "number is too big")
<1>0. /\ "argument index out of range" \in DynamicErrors /\ "number is too big" \in DynamicErrors
      /\ "" \notin DynamicErrors
  BY DEF DynamicErrors
<1>1. DynamicValue(p, args, errors) = r
  BY DEF DynamicValue
<1>2. Softly(p, a) /\ a.specs = p.specs /\ (a.error = "" => a = p)
  <2>1. a = Require(p, GetArg(p, args).type # "none", "argument index out of range")
    BY DEF Found
  <2> HIDE DEF a
  <2> DEFINE there == GetArg(p, args).type # "none"
  <2> HIDE DEF there
  <2>2. a = Require(p, there, "argument index out of range")
    BY <2>1 DEF there
  <2> QED
    BY <2>2, <1>0, SoftRequire, RequireKeeps
<1> HIDE DEF a, arg
<1>3. Softly(a, b) /\ b.specs = a.specs /\ Beside(a, b)
  <2>1. Shape(a)
    BY <1>2 DEF Softly, Onward
  <2>2. Beside(a, b) /\ b.specs = a.specs
    BY <2>1, ValueOn
  <2>3. Onward(a, b) /\ b.error = a.error
    BY <2>2, BesideOn DEF Beside
  <2> QED
    BY <2>2, <2>3 DEF Softly
<1> HIDE DEF b, x, y, z
<1>4. Softly(b, d) /\ d.specs = b.specs /\ (d.error = "" => d = b)
  <2>1. Shape(b)
    BY <1>3 DEF Softly, Onward
  <2>2. errors.other \in DynamicErrors /\ errors.other # ""
    BY <1>0 DEF DynamicOf
  <2> QED
    BY <2>1, <2>2, SoftRequire, RequireKeeps
<1> HIDE DEF d
<1>5. Softly(d, e) /\ e.specs = d.specs /\ (e.error = "" => e = d)
  <2>1. Shape(d)
    BY <1>4 DEF Softly, Onward
  <2>2. errors.negative \in DynamicErrors /\ errors.negative # ""
    BY <1>0 DEF DynamicOf
  <2> QED
    BY <2>1, <2>2, SoftRequire, RequireKeeps
<1> HIDE DEF e
<1>6. Softly(e, r) /\ r.specs = e.specs /\ (r.error = "" => r = e)
  <2>1. Shape(e)
    BY <1>5 DEF Softly, Onward
  <2>2. "number is too big" \in DynamicErrors /\ "number is too big" # ""
    BY <1>0 DEF DynamicOf
  <2> QED
    BY <2>1, <2>2, SoftRequire, RequireKeeps
<1> HIDE DEF r
<1>7. Softly(p, r) /\ r.specs = p.specs
  <2>1. Softly(p, b)
    BY <1>2, <1>3, SoftlyOn
  <2>2. Softly(p, d)
    BY <2>1, <1>4, SoftlyOn
  <2>3. Softly(p, e)
    BY <2>2, <1>5, SoftlyOn
  <2> QED
    BY <2>3, <1>6, SoftlyOn, <1>2, <1>3, <1>4, <1>5, <1>6
<1>8. ASSUME r.error = ""
      PROVE  Beside(p, r)
  <2>1. r = b
    BY <1>4, <1>5, <1>6, <1>8
  <2>2. a.error = ""
    BY <1>3, <1>8, <2>1 DEF Beside
  <2> QED
    BY <1>2, <1>3, <2>1, <2>2
<1> QED
  BY <1>1, <1>7, <1>8

LEMMA DynamicValueOnward ==
  ASSUME NEW p, Shape(p), NEW args, NEW errors
  PROVE  Onward(p, DynamicValue(p, args, errors)) /\ DynamicValue(p, args, errors).specs = p.specs
<1> DEFINE arg == GetArg(p, args)
           error == IF ById(p) THEN "argument index out of range" ELSE "argument not found"
           u == arg.type # "none"
           x == arg.type \in IntTypes
           y == arg.value >= 0
           z == arg.value <= MaxInt
           a == Require(p, u, error)
           b == [a EXCEPT !.value = arg.value]
           d == Require(b, x, errors.other)
           e == Require(d, y, errors.negative)
           r == Require(e, z, "number is too big")
<1>1. DynamicValue(p, args, errors) = r
  BY DEF DynamicValue, Found
<1> HIDE DEF arg, u, x, y, z, error
<1>2. Onward(p, a) /\ a.specs = p.specs
  BY RequireOn
<1> HIDE DEF a
<1>3. Onward(a, b) /\ b.specs = a.specs
  BY <1>2, ValueOn, BesideOn DEF Onward
<1> HIDE DEF b
<1>4. Onward(b, d) /\ d.specs = b.specs
  <2>1. Shape(b)
    BY <1>3 DEF Onward
  <2> QED
    BY <2>1, RequireOn
<1> HIDE DEF d
<1>5. Onward(d, e) /\ e.specs = d.specs
  <2>1. Shape(d)
    BY <1>4 DEF Onward
  <2> QED
    BY <2>1, RequireOn
<1> HIDE DEF e
<1>6. Onward(e, r) /\ r.specs = e.specs
  <2>1. Shape(e)
    BY <1>5 DEF Onward
  <2> QED
    BY <2>1, RequireOn
<1> HIDE DEF r
<1> QED
  BY <1>1, <1>2, <1>3, <1>4, <1>5, <1>6, OnwardOn

\* An argument id after '{', with the argument looked up or not.
Looked(p, args, checking, errors) ==
  IF Here(p) = "end" THEN p
  ELSE LET q == ParseArgId(p) IN IF checking \/ q.error # "" THEN q ELSE DynamicValue(q, args, errors)

LEMMA LookedOn ==
  ASSUME NEW p, Shape(p), NEW args, NEW checking, NEW errors
  PROVE  Onward(p, Looked(p, args, checking, errors)) /\ Looked(p, args, checking, errors).specs = p.specs
<1> DEFINE q == ParseArgId(p)
<1>1. Onward(p, q) /\ q.specs = p.specs
  BY ParseArgIdOn
<1>2. Looked(p, args, checking, errors) \in {p, q, DynamicValue(q, args, errors)}
  BY DEF Looked
<1> HIDE DEF q
<1>3. Onward(q, DynamicValue(q, args, errors)) /\ DynamicValue(q, args, errors).specs = q.specs
  BY <1>1, DynamicValueOnward, ZenonT(60) DEF Onward
<1>4. Onward(p, DynamicValue(q, args, errors)) /\ DynamicValue(q, args, errors).specs = p.specs
  BY <1>1, <1>3, OnwardOn
<1> QED
  BY <1>1, <1>2, <1>4, OnwardSelf

LEMMA LookedPair ==
  ASSUME NEW T, NEW c, NEW f, f.s \in Seq(T), Pair(c, f), Same(c, f) => Here(f) \notin NameStarts,
         NEW args, NEW errors, DynamicOf(errors)
  PROVE  Pair(Looked(c, args, TRUE, errors), Looked(f, args, FALSE, errors))
<1>1. Onward(c, Looked(c, args, TRUE, errors)) /\ Onward(f, Looked(f, args, FALSE, errors))
  BY LookedOn DEF Pair
<1>2. ASSUME Same(c, f)
      PROVE  Pair(Looked(c, args, TRUE, errors), Looked(f, args, FALSE, errors))
  <2>1. Here(c) = Here(f)
    BY <1>2, HereSame
  <2>2. CASE Here(f) = "end"
    BY <2>1, <2>2 DEF Looked
  <2>3. CASE Here(f) # "end"
    <3> DEFINE a == ParseArgId(c)
               b == ParseArgId(f)
    <3>1. Pair(a, b)
      BY ParseArgIdPair
    <3>2. /\ Looked(c, args, TRUE, errors) = a
          /\ Looked(f, args, FALSE, errors) = IF b.error # "" THEN b ELSE DynamicValue(b, args, errors)
      BY <2>1, <2>3 DEF Looked
    <3> HIDE DEF a, b
    <3>3. CASE b.error # ""
      BY <3>1, <3>2, <3>3
    <3>4. CASE b.error = ""
      <4> DEFINE g == DynamicValue(b, args, errors)
      <4>1. Same(a, b)
        BY <3>1, <3>4 DEF Pair, Agreeing, DynamicErrors
      <4>2. Shape(a) /\ Shape(b) /\ ById(b)
        BY <3>1, <4>1 DEF Pair, Same, ById
      <4>3. Softly(b, g) /\ g.specs = b.specs /\ (g.error = "" => Beside(b, g))
        BY <4>2, DynamicValueOn
      <4> HIDE DEF g
      <4>4. CASE g.error = ""
        <5>1. Beside(b, g) /\ Alike(b, g)
          BY <4>3, <4>4 DEF Alike
        <5>2. Beside(a, a) /\ Alike(a, a)
          BY <4>2, BesideSelf
        <5>3. Pair(a, g)
          BY <3>1, <5>1, <5>2, AlikePair
        <5> QED
          BY <3>2, <3>4, <5>3 DEF g
      <4>5. CASE g.error # ""
        <5>1. g.error \in DynamicErrors /\ Shape(g) /\ g.s = b.s
          BY <3>4, <4>3, <4>5 DEF Softly, Onward
        <5>2. Pair(a, g)
          BY <3>1, <5>1 DEF Pair, Agreeing
        <5> QED
          BY <3>2, <3>4, <5>2 DEF g
      <4> QED
        BY <4>4, <4>5
    <3> QED
      BY <3>3, <3>4
  <2> QED
    BY <2>2, <2>3
<1> QED
  BY <1>1, <1>2, PairOn

LEMMA DynamicIs ==
  ASSUME NEW p, NEW args, NEW checking, NEW errors
  PROVE  Dynamic(p, args, checking, errors) =
           Skip(EndsHere(Looked(p, args, checking, errors), "invalid format string"), 1)
BY DEF Dynamic, Looked

LEMMA DynamicOn ==
  ASSUME NEW p, Shape(p), NEW args, NEW checking, NEW errors
  PROVE  Onward(p, Dynamic(p, args, checking, errors)) /\ Dynamic(p, args, checking, errors).specs = p.specs
<1> DEFINE a == Looked(p, args, checking, errors)
           b == EndsHere(a, "invalid format string")
<1>1. Onward(p, a) /\ a.specs = p.specs
  BY LookedOn
<1>2. Dynamic(p, args, checking, errors) = Skip(b, 1)
  BY DynamicIs
<1> HIDE DEF a
<1>3. Onward(a, b) /\ b.specs = a.specs
  BY <1>1, EndsHereOn DEF Onward
<1> HIDE DEF b
<1>4. Onward(b, Skip(b, 1)) /\ Skip(b, 1).specs = b.specs
  BY <1>3, SkipOn DEF Onward
<1> QED
  BY <1>1, <1>2, <1>3, <1>4, OnwardOn

\* on_dynamic_width and on_dynamic_precision.
LEMMA DynamicPair ==
  ASSUME NEW T, NEW c, NEW f, f.s \in Seq(T), Pair(c, f), Same(c, f) => Here(f) \notin NameStarts,
         NEW args, NEW errors, DynamicOf(errors)
  PROVE  Pair(Dynamic(c, args, TRUE, errors), Dynamic(f, args, FALSE, errors))
<1> DEFINE a == Looked(c, args, TRUE, errors)
           b == Looked(f, args, FALSE, errors)
<1>1. Pair(a, b)
  BY LookedPair
<1>2. /\ Dynamic(c, args, TRUE, errors) = Skip(EndsHere(a, "invalid format string"), 1)
      /\ Dynamic(f, args, FALSE, errors) = Skip(EndsHere(b, "invalid format string"), 1)
  BY DynamicIs
<1> HIDE DEF a, b
<1>3. Pair(EndsHere(a, "invalid format string"), EndsHere(b, "invalid format string"))
  BY <1>1, EndsHerePair
<1> QED
  BY <1>2, <1>3, SkipPair

-----------------------------------------------------------------------------
(* Format specifiers.                                                      *)

LEMMA SameOf ==
  ASSUME NEW c, NEW f, Pair(c, f), f.error = ""
  PROVE  Same(c, f)
BY DEF Pair, Agreeing, DynamicErrors

LEMMA SkipSame ==
  ASSUME NEW c, NEW f, Pair(c, f), Same(c, f), NEW n \in Nat
  PROVE  /\ Pair(Skip(c, n), Skip(f, n)) /\ Same(Skip(c, n), Skip(f, n))
         /\ Here(Skip(f, n)) = CharAt(f.s, f.at + n) /\ Skip(f, n).s = f.s
<1>1. Pair(Skip(c, n), Skip(f, n))
  BY SkipPair
<1>2. Skip(f, n).error = f.error /\ Skip(f, n).s = f.s /\ Skip(f, n).at = f.at + n
  BY DEF Skip, Pair, Shape
<1>3. Same(Skip(c, n), Skip(f, n))
  BY <1>1, <1>2, SameOf DEF Same
<1> QED
  BY <1>1, <1>2, <1>3 DEF Here

LEMMA RequireNumericOn ==
  ASSUME NEW p, Shape(p), NEW type
  PROVE  Onward(p, RequireNumeric(p, type))
BY RequireOn DEF RequireNumeric

LEMMA RequireNumericPair ==
  ASSUME NEW c, NEW f, Pair(c, f), NEW type
  PROVE  Pair(RequireNumeric(c, type), RequireNumeric(f, type))
BY RequirePair DEF RequireNumeric

LEMMA NumericSkipOn ==
  ASSUME NEW p, Shape(p), NEW type, NEW n
  PROVE  Onward(p, Skip(RequireNumeric(p, type), n))
<1> DEFINE q == RequireNumeric(p, type)
<1>1. Onward(p, q)
  BY RequireNumericOn
<1> HIDE DEF q
<1>2. Onward(q, Skip(q, n))
  BY <1>1, SkipOn DEF Onward
<1> QED
  BY <1>1, <1>2, OnwardOn DEF q

LEMMA NumericSkipPair ==
  ASSUME NEW c, NEW f, Pair(c, f), NEW type, NEW n \in Nat
  PROVE  Pair(Skip(RequireNumeric(c, type), n), Skip(RequireNumeric(f, type), n))
BY RequireNumericPair, SkipPair

WithAlign(q, align) == [q EXCEPT !.specs.align = align]
WithFlags(q, flags) == [q EXCEPT !.specs.flags = flags]
WithType(q, type) == [q EXCEPT !.specs.type = type]
WithFill(q, fill) == [q EXCEPT !.specs.fill = fill]
WithWidth(q, width) == [q EXCEPT !.specs.width = width]
WithPrecision(q, precision) == [q EXCEPT !.specs.precision = precision]

LEMMA WithOn ==
  ASSUME NEW p, Shape(p), NEW x
  PROVE  /\ Onward(p, WithAlign(p, x)) /\ Onward(p, WithFlags(p, x)) /\ Onward(p, WithType(p, x))
         /\ Onward(p, WithFill(p, x)) /\ Onward(p, WithWidth(p, x)) /\ Onward(p, WithPrecision(p, x))
<1>1. Onward(p, WithAlign(p, x))
  BY SetSpecs, BesideOn DEF WithAlign
<1>2. Onward(p, WithFlags(p, x))
  BY SetSpecs, BesideOn DEF WithFlags
<1>3. Onward(p, WithType(p, x))
  BY SetSpecs, BesideOn DEF WithType
<1>4. Onward(p, WithFill(p, x))
  BY SetOthers, BesideOn DEF WithFill
<1>5. Onward(p, WithWidth(p, x))
  BY SetOthers, BesideOn DEF WithWidth
<1>6. Onward(p, WithPrecision(p, x))
  BY SetOthers, BesideOn DEF WithPrecision
<1> QED
  BY <1>1, <1>2, <1>3, <1>4, <1>5, <1>6

LEMMA WithAlignPair ==
  ASSUME NEW c, NEW f, Pair(c, f), NEW x
  PROVE  Pair(WithAlign(c, x), WithAlign(f, x))
<1> DEFINE d == WithAlign(c, x)
           g == WithAlign(f, x)
<1>1. Beside(c, d) /\ d.specs.align = x /\ d.specs.flags = c.specs.flags /\ d.specs.type = c.specs.type
  BY SetSpecs, ZenonT(60) DEF Pair, WithAlign
<1>2. Beside(f, g) /\ g.specs.align = x /\ g.specs.flags = f.specs.flags /\ g.specs.type = f.specs.type
  BY SetSpecs, ZenonT(60) DEF Pair, WithAlign
<1> HIDE DEF d, g
<1>3. Pair(d, g)
  BY <1>1, <1>2, BesidePair
<1> QED
  BY <1>3 DEF d, g

LEMMA WithFlagsPair ==
  ASSUME NEW c, NEW f, Pair(c, f), NEW x
  PROVE  Pair(WithFlags(c, x), WithFlags(f, x))
<1> DEFINE d == WithFlags(c, x)
           g == WithFlags(f, x)
<1>1. Beside(c, d) /\ d.specs.flags = x /\ d.specs.align = c.specs.align /\ d.specs.type = c.specs.type
  BY SetSpecs, ZenonT(60) DEF Pair, WithFlags
<1>2. Beside(f, g) /\ g.specs.flags = x /\ g.specs.align = f.specs.align /\ g.specs.type = f.specs.type
  BY SetSpecs, ZenonT(60) DEF Pair, WithFlags
<1> HIDE DEF d, g
<1>3. Pair(d, g)
  BY <1>1, <1>2, BesidePair
<1> QED
  BY <1>3 DEF d, g

LEMMA WithTypePair ==
  ASSUME NEW c, NEW f, Pair(c, f), NEW x
  PROVE  Pair(WithType(c, x), WithType(f, x))
<1> DEFINE d == WithType(c, x)
           g == WithType(f, x)
<1>1. Beside(c, d) /\ d.specs.type = x /\ d.specs.align = c.specs.align /\ d.specs.flags = c.specs.flags
  BY SetSpecs, ZenonT(60) DEF Pair, WithType
<1>2. Beside(f, g) /\ g.specs.type = x /\ g.specs.align = f.specs.align /\ g.specs.flags = f.specs.flags
  BY SetSpecs, ZenonT(60) DEF Pair, WithType
<1> HIDE DEF d, g
<1>3. Pair(d, g)
  BY <1>1, <1>2, BesidePair
<1> QED
  BY <1>3 DEF d, g

LEMMA WithFillPair ==
  ASSUME NEW c, NEW f, Pair(c, f), NEW x, NEW y
  PROVE  Pair(WithFill(c, x), WithFill(f, y))
<1>1. Beside(c, WithFill(c, x)) /\ Alike(c, WithFill(c, x))
  BY SetOthers DEF Pair, WithFill
<1>2. Beside(f, WithFill(f, y)) /\ Alike(f, WithFill(f, y))
  BY SetOthers DEF Pair, WithFill
<1> QED
  BY <1>1, <1>2, AlikePair

\* A width or a precision that only formatting knows.
LEMMA WithValuePair ==
  ASSUME NEW c, NEW f, Pair(c, f), NEW x, NEW y
  PROVE  /\ Pair(WithWidth(c, x), WithWidth(f, y)) /\ Pair(c, WithWidth(f, y))
         /\ Pair(WithPrecision(c, x), WithPrecision(f, y)) /\ Pair(c, WithPrecision(f, y))
<1>1. Beside(c, WithWidth(c, x)) /\ Alike(c, WithWidth(c, x)) /\ Beside(c, WithPrecision(c, x))
      /\ Alike(c, WithPrecision(c, x))
  BY SetOthers DEF Pair, WithWidth, WithPrecision
<1>2. Beside(f, WithWidth(f, y)) /\ Alike(f, WithWidth(f, y)) /\ Beside(f, WithPrecision(f, y))
      /\ Alike(f, WithPrecision(f, y))
  BY SetOthers DEF Pair, WithWidth, WithPrecision
<1>3. Beside(c, c) /\ Alike(c, c)
  BY BesideSelf DEF Pair
<1> QED
  BY <1>1, <1>2, <1>3, AlikePair

\* An alignment is set.
Aligned(q, align, type) == WithAlign(IF align = "numeric" THEN RequireNumeric(q, type) ELSE q, align)

LEMMA AlignedOn ==
  ASSUME NEW p, Shape(p), NEW align, NEW type
  PROVE  Onward(p, Aligned(p, align, type))
<1> DEFINE q == IF align = "numeric" THEN RequireNumeric(p, type) ELSE p
<1>1. Onward(p, q)
  BY RequireNumericOn, OnwardSelf
<1> HIDE DEF q
<1>2. Onward(q, WithAlign(q, align))
  BY <1>1, WithOn DEF Onward
<1> QED
  BY <1>1, <1>2, OnwardOn DEF Aligned, q

LEMMA AlignedPair ==
  ASSUME NEW c, NEW f, Pair(c, f), NEW align, NEW type
  PROVE  Pair(Aligned(c, align, type), Aligned(f, align, type))
BY RequireNumericPair, WithAlignPair DEF Aligned

LEMMA ParseAlignIs ==
  ASSUME NEW p, NEW type
  PROVE  ParseAlign(p, type) =
           LET second == CharAt(p.s, p.at + 1)
           IN  IF second \in DOMAIN AlignOf
               THEN IF Here(p) = "{" THEN Fail(p, "invalid fill character '{'")
                    ELSE Aligned(WithFill(Skip(p, 2), Here(p)), AlignOf[second], type)
               ELSE IF Here(p) \in DOMAIN AlignOf THEN Aligned(Skip(p, 1), AlignOf[Here(p)], type)
               ELSE p
BY DEF ParseAlign, Aligned, WithAlign, WithFill

LEMMA ParseAlignOn ==
  ASSUME NEW p, Shape(p), NEW type
  PROVE  Onward(p, ParseAlign(p, type))
<1> DEFINE second == CharAt(p.s, p.at + 1)
           q == Skip(p, 2)
           w == WithFill(q, Here(p))
           v == Skip(p, 1)
<1>1. ParseAlign(p, type) \in {Fail(p, "invalid fill character '{'"), Aligned(w, AlignOf[second], type),
                               Aligned(v, AlignOf[Here(p)], type), p}
  BY ParseAlignIs
<1> HIDE DEF second
<1>2. Onward(p, q) /\ Onward(p, v)
  BY SkipOn
<1> HIDE DEF q, v
<1>3. Onward(q, w)
  BY <1>2, WithOn DEF Onward
<1>4. Onward(p, w)
  BY <1>2, <1>3, OnwardOn
<1> HIDE DEF w
<1>5. Onward(p, Aligned(w, AlignOf[second], type))
  <2>1. Onward(w, Aligned(w, AlignOf[second], type))
    BY <1>4, AlignedOn DEF Onward
  <2> QED
    BY <1>4, <2>1, OnwardOn
<1>6. Onward(p, Aligned(v, AlignOf[Here(p)], type))
  <2>1. Onward(v, Aligned(v, AlignOf[Here(p)], type))
    BY <1>2, AlignedOn, ZenonT(60) DEF Onward
  <2> QED
    BY <1>2, <2>1, OnwardOn
<1>7. Onward(p, Fail(p, "invalid fill character '{'"))
  BY FailOn
<1> QED
  BY <1>1, <1>5, <1>6, <1>7, OnwardSelf

LEMMA ParseAlignPair ==
  ASSUME NEW c, NEW f, Pair(c, f), NEW type
  PROVE  Pair(ParseAlign(c, type), ParseAlign(f, type))
<1>1. Onward(c, ParseAlign(c, type)) /\ Onward(f, ParseAlign(f, type))
  BY ParseAlignOn DEF Pair
<1>2. ASSUME Same(c, f)
      PROVE  Pair(ParseAlign(c, type), ParseAlign(f, type))
  <2> DEFINE second == CharAt(f.s, f.at + 1)
             first == Here(f)
  <2>1. Here(c) = first /\ CharAt(c.s, c.at + 1) = second
    BY <1>2, HereSame
  <2> HIDE DEF first, second
  <2>2. CASE second \in DOMAIN AlignOf /\ first = "{"
    <3>1. /\ ParseAlign(c, type) = Fail(c, "invalid fill character '{'")
          /\ ParseAlign(f, type) = Fail(f, "invalid fill character '{'")
      BY <2>1, <2>2, ParseAlignIs DEF first, second
    <3> QED
      BY <3>1, FailPair
  <2>3. CASE second \in DOMAIN AlignOf /\ first # "{"
    <3>1. /\ ParseAlign(c, type) = Aligned(WithFill(Skip(c, 2), first), AlignOf[second], type)
          /\ ParseAlign(f, type) = Aligned(WithFill(Skip(f, 2), first), AlignOf[second], type)
      BY <2>1, <2>3, ParseAlignIs DEF first, second
    <3>2. Pair(WithFill(Skip(c, 2), first), WithFill(Skip(f, 2), first))
      BY SkipPair, WithFillPair
    <3> QED
      BY <3>1, <3>2, AlignedPair
  <2>4. CASE second \notin DOMAIN AlignOf /\ first \in DOMAIN AlignOf
    <3>1. /\ ParseAlign(c, type) = Aligned(Skip(c, 1), AlignOf[first], type)
          /\ ParseAlign(f, type) = Aligned(Skip(f, 1), AlignOf[first], type)
      BY <2>1, <2>4, ParseAlignIs DEF first, second
    <3> QED
      BY <3>1, SkipPair, AlignedPair
  <2>5. CASE second \notin DOMAIN AlignOf /\ first \notin DOMAIN AlignOf
    <3>1. ParseAlign(c, type) = c /\ ParseAlign(f, type) = f
      BY <2>1, <2>5, ParseAlignIs DEF first, second
    <3> QED
      BY <3>1
  <2> QED
    BY <2>2, <2>3, <2>4, <2>5
<1> QED
  BY <1>1, <1>2, PairOn

\* The sign that an argument's type allows.
Signed(type) == Integral(type) => type \in {"int", "long_long", "char"}

LEMMA ParseSignIs ==
  ASSUME NEW p, NEW type
  PROVE  ParseSign(p, type) =
           IF Here(p) \in DOMAIN FlagsOf
           THEN Require(WithFlags(Skip(RequireNumeric(p, type), 1), FlagsOf[Here(p)]), Signed(type),
                        "format specifier requires signed argument")
           ELSE p
BY DEF ParseSign, WithFlags, Signed

LEMMA ParseSignOn ==
  ASSUME NEW p, Shape(p), NEW type
  PROVE  Onward(p, ParseSign(p, type))
<1> DEFINE q == Skip(RequireNumeric(p, type), 1)
           w == WithFlags(q, FlagsOf[Here(p)])
           r == Require(w, Signed(type), "format specifier requires signed argument")
<1>1. Onward(p, q)
  BY NumericSkipOn
<1>2. ParseSign(p, type) \in {r, p}
  BY ParseSignIs
<1> HIDE DEF q
<1>3. Onward(q, w)
  BY <1>1, WithOn DEF Onward
<1> HIDE DEF w
<1>4. Onward(w, r)
  BY <1>3, RequireOn, ZenonT(60) DEF Onward
<1> HIDE DEF r
<1>5. Onward(p, r)
  BY <1>1, <1>3, <1>4, OnwardOn
<1> QED
  BY <1>2, <1>5, OnwardSelf

LEMMA ParseSignPair ==
  ASSUME NEW c, NEW f, Pair(c, f), NEW type
  PROVE  Pair(ParseSign(c, type), ParseSign(f, type))
<1>1. Onward(c, ParseSign(c, type)) /\ Onward(f, ParseSign(f, type))
  BY ParseSignOn DEF Pair
<1>2. ASSUME Same(c, f)
      PROVE  Pair(ParseSign(c, type), ParseSign(f, type))
  <2> DEFINE first == Here(f)
             d == WithFlags(Skip(RequireNumeric(c, type), 1), FlagsOf[first])
             g == WithFlags(Skip(RequireNumeric(f, type), 1), FlagsOf[first])
  <2>1. Here(c) = first
    BY <1>2, HereSame
  <2>2. Pair(d, g)
    BY NumericSkipPair, WithFlagsPair
  <2>3. CASE first \in DOMAIN FlagsOf
    <3>1. /\ ParseSign(c, type) = Require(d, Signed(type), "format specifier requires signed argument")
          /\ ParseSign(f, type) = Require(g, Signed(type), "format specifier requires signed argument")
      BY <2>1, <2>3, ParseSignIs
    <3> HIDE DEF d, g
    <3> QED
      BY <2>2, <3>1, RequirePair
  <2>4. CASE first \notin DOMAIN FlagsOf
    BY <2>1, <2>4, ParseSignIs
  <2> QED
    BY <2>3, <2>4
<1> QED
  BY <1>1, <1>2, PairOn

LEMMA ParseHashIs ==
  ASSUME NEW p, NEW type
  PROVE  ParseHash(p, type) =
           LET q == Skip(RequireNumeric(p, type), 1)
           IN  IF Here(p) = "#" THEN WithFlags(q, q.specs.flags \cup {"HASH"}) ELSE p
BY DEF ParseHash, WithFlags

LEMMA ParseHashOn ==
  ASSUME NEW p, Shape(p), NEW type
  PROVE  Onward(p, ParseHash(p, type))
<1> DEFINE q == Skip(RequireNumeric(p, type), 1)
           w == WithFlags(q, q.specs.flags \cup {"HASH"})
<1>1. Onward(p, q)
  BY NumericSkipOn
<1>2. ParseHash(p, type) \in {w, p}
  BY ParseHashIs
<1> HIDE DEF q
<1>3. Onward(q, w)
  BY <1>1, WithOn DEF Onward
<1> HIDE DEF w
<1> QED
  BY <1>1, <1>2, <1>3, OnwardOn, OnwardSelf

LEMMA ParseHashPair ==
  ASSUME NEW c, NEW f, Pair(c, f), NEW type
  PROVE  Pair(ParseHash(c, type), ParseHash(f, type))
<1>1. Onward(c, ParseHash(c, type)) /\ Onward(f, ParseHash(f, type))
  BY ParseHashOn DEF Pair
<1>2. ASSUME Same(c, f)
      PROVE  Pair(ParseHash(c, type), ParseHash(f, type))
  <2> DEFINE a == Skip(RequireNumeric(c, type), 1)
             b == Skip(RequireNumeric(f, type), 1)
             d == WithFlags(a, a.specs.flags \cup {"HASH"})
             g == WithFlags(b, b.specs.flags \cup {"HASH"})
  <2>1. Here(c) = Here(f)
    BY <1>2, HereSame
  <2>2. Pair(a, b)
    BY NumericSkipPair
  <2>3. ParseHash(c, type) = IF Here(f) = "#" THEN d ELSE c
    BY <2>1, ParseHashIs
  <2>4. ParseHash(f, type) = IF Here(f) = "#" THEN g ELSE f
    BY ParseHashIs
  <2> HIDE DEF a, b
  <2>5. Onward(a, d) /\ Onward(b, g)
    BY <2>2, WithOn DEF Pair
  <2>6. ASSUME Same(a, b)
        PROVE  Pair(d, g)
    <3>1. a.specs.flags = b.specs.flags
      BY <2>6 DEF Same
    <3> QED
      BY <2>2, <3>1, WithFlagsPair
  <2>7. Pair(d, g)
    BY <2>2, <2>5, <2>6, PairOn
  <2> QED
    BY <2>3, <2>4, <2>7
<1> QED
  BY <1>1, <1>2, PairOn

LEMMA ParseZeroIs ==
  ASSUME NEW p, NEW type
  PROVE  ParseZero(p, type) =
           IF Here(p) = "0" THEN WithFill(WithAlign(Skip(RequireNumeric(p, type), 1), "numeric"), "0") ELSE p
BY DEF ParseZero, WithAlign, WithFill

LEMMA ParseZeroOn ==
  ASSUME NEW p, Shape(p), NEW type
  PROVE  Onward(p, ParseZero(p, type))
<1> DEFINE q == Skip(RequireNumeric(p, type), 1)
           v == WithAlign(q, "numeric")
           w == WithFill(v, "0")
<1>1. Onward(p, q)
  BY NumericSkipOn
<1>2. ParseZero(p, type) \in {w, p}
  BY ParseZeroIs
<1> HIDE DEF q
<1>3. Onward(q, v)
  BY <1>1, WithOn DEF Onward
<1> HIDE DEF v
<1>4. Onward(v, w)
  BY <1>3, WithOn DEF Onward
<1> HIDE DEF w
<1> QED
  BY <1>1, <1>2, <1>3, <1>4, OnwardOn, OnwardSelf

LEMMA ParseZeroPair ==
  ASSUME NEW c, NEW f, Pair(c, f), NEW type
  PROVE  Pair(ParseZero(c, type), ParseZero(f, type))
<1>1. Onward(c, ParseZero(c, type)) /\ Onward(f, ParseZero(f, type))
  BY ParseZeroOn DEF Pair
<1>2. ASSUME Same(c, f)
      PROVE  Pair(ParseZero(c, type), ParseZero(f, type))
  <2> DEFINE d == WithFill(WithAlign(Skip(RequireNumeric(c, type), 1), "numeric"), "0")
             g == WithFill(WithAlign(Skip(RequireNumeric(f, type), 1), "numeric"), "0")
  <2>1. Here(c) = Here(f)
    BY <1>2, HereSame
  <2>2. Pair(d, g)
    BY NumericSkipPair, WithAlignPair, WithFillPair
  <2>3. ParseZero(c, type) = IF Here(f) = "0" THEN d ELSE c
    BY <2>1, ParseZeroIs
  <2>4. ParseZero(f, type) = IF Here(f) = "0" THEN g ELSE f
    BY ParseZeroIs
  <2> HIDE DEF d, g
  <2> QED
    BY <2>2, <2>3, <2>4
<1> QED
  BY <1>1, <1>2, PairOn

\* No name stands after a '{'.
NoNames(s) == \A k \in 1 .. Len(s) - 1 : s[k] = "{" => s[k + 1] \notin NameStarts

LEMMA EndIsNoName == "end" \notin NameStarts
BY Zenon DEF NameStarts

LEMMA NotLast ==
  ASSUME NEW n \in Nat, NEW k \in Nat \ {0}, k + 1 \in 1 .. n
  PROVE  k \in 1 .. n - 1 /\ k \in 1 .. n
OBVIOUS

LEMMA NoNameAfter ==
  ASSUME NEW T, NEW s \in Seq(T), NoNames(s), NEW k \in Nat \ {0}, CharAt(s, k) = "{"
  PROVE  CharAt(s, k + 1) \notin NameStarts
<1>1. Len(s) \in Nat /\ DOMAIN s = 1 .. Len(s)
  BY LenProperties
<1>2. CASE k + 1 \in DOMAIN s
  <2>1. k \in 1 .. Len(s) - 1 /\ k \in DOMAIN s
    <3> DEFINE n == Len(s)
    <3>1. n \in Nat /\ k + 1 \in 1 .. n
      BY <1>1, <1>2
    <3> HIDE DEF n
    <3>2. k \in 1 .. n - 1 /\ k \in 1 .. n
      BY <3>1, NotLast
    <3> QED
      BY <1>1, <3>2 DEF n
  <2>2. s[k] = "{"
    BY <2>1 DEF CharAt
  <2> QED
    BY <1>2, <2>1, <2>2 DEF NoNames, CharAt
<1>3. CASE k + 1 \notin DOMAIN s
  BY <1>3, EndIsNoName DEF CharAt
<1> QED
  BY <1>2, <1>3

LEMMA BothDynamic == DynamicOf(WidthErrors) /\ DynamicOf(PrecisionErrors)
BY DEF DynamicOf, WidthErrors, PrecisionErrors, DynamicErrors

LEMMA BraceIsNoDigit == ~IsDigit("{")
<1> DEFINE digits == {"0", "1", "2", "3", "4", "5", "6", "7", "8", "9"}
<1>1. \A k \in 1 .. 10 : DigitChars[k] \in digits
  BY DEF DigitChars
<1>2. "{" \notin digits
  BY Zenon
<1>3. DOMAIN DigitChars = 1 .. 10
  BY DEF DigitChars
<1> QED
  BY <1>1, <1>2, <1>3 DEF IsDigit, ToSet

\* An argument in braces after n characters more, the last of which is the brace.
LEMMA DynamicAfter ==
  ASSUME NEW T, NEW c, NEW f, f.s \in Seq(T), NoNames(f.s), Pair(c, f), Same(c, f), NEW n \in Nat,
         NEW k \in Nat \ {0}, k + 1 = f.at + n, CharAt(f.s, k) = "{", NEW args, NEW errors, DynamicOf(errors)
  PROVE  Pair(Dynamic(Skip(c, n), args, TRUE, errors), Dynamic(Skip(f, n), args, FALSE, errors))
<1>1. /\ Pair(Skip(c, n), Skip(f, n)) /\ Here(Skip(f, n)) = CharAt(f.s, f.at + n) /\ Skip(f, n).s = f.s
  BY SkipSame
<1>2. CharAt(f.s, f.at + n) \notin NameStarts
  <2>1. CharAt(f.s, k + 1) \notin NameStarts
    BY NoNameAfter
  <2> QED
    BY <2>1
<1> DEFINE d == Skip(c, n)
           g == Skip(f, n)
<1>3. g.s \in Seq(T) /\ Here(g) \notin NameStarts /\ Pair(d, g)
  BY <1>1, <1>2
<1> HIDE DEF d, g
<1>4. Pair(Dynamic(d, args, TRUE, errors), Dynamic(g, args, FALSE, errors))
  BY <1>3, DynamicPair
<1> QED
  BY <1>4 DEF d, g

LEMMA ParseWidthIs ==
  ASSUME NEW p, NEW args, NEW checking
  PROVE  LET number == ParseInt(p)
             dynamic == Dynamic(Skip(p, 1), args, checking, WidthErrors)
         IN  /\ ParseWidth(p, args, checking) \in
                  {WithWidth(number, number.value), dynamic, WithWidth(dynamic, dynamic.value), p}
             /\ IsDigit(Here(p)) => ParseWidth(p, args, checking) = WithWidth(number, number.value)
             /\ Here(p) = "{" => ParseWidth(p, args, checking) =
                                   IF checking THEN dynamic ELSE WithWidth(dynamic, dynamic.value)
             /\ ~IsDigit(Here(p)) /\ Here(p) # "{" => ParseWidth(p, args, checking) = p
BY BraceIsNoDigit DEF ParseWidth, WithWidth

LEMMA ParseWidthOn ==
  ASSUME NEW p, Shape(p), NEW args, NEW checking
  PROVE  Onward(p, ParseWidth(p, args, checking))
<1> DEFINE a == ParseInt(p)
           q == Skip(p, 1)
           b == Dynamic(q, args, checking, WidthErrors)
<1>1. ParseWidth(p, args, checking) \in {WithWidth(a, a.value), b, WithWidth(b, b.value), p}
  BY ParseWidthIs
<1>2. Onward(p, a)
  BY ParseIntOn
<1>3. Onward(p, q)
  BY SkipOn
<1> HIDE DEF a, q
<1>4. Onward(q, b)
  <2>1. Shape(q)
    BY <1>3 DEF Onward
  <2> QED
    BY <2>1, DynamicOn
<1> HIDE DEF b
<1>5. Onward(p, b)
  BY <1>3, <1>4, OnwardOn
<1>6. Onward(a, WithWidth(a, a.value)) /\ Onward(b, WithWidth(b, b.value))
  BY <1>2, <1>5, WithOn DEF Onward
<1> QED
  BY <1>1, <1>2, <1>5, <1>6, OnwardOn, OnwardSelf

LEMMA ParseWidthPair ==
  ASSUME NEW T, NEW c, NEW f, f.s \in Seq(T), NoNames(f.s), Pair(c, f), NEW args
  PROVE  Pair(ParseWidth(c, args, TRUE), ParseWidth(f, args, FALSE))
<1>1. Onward(c, ParseWidth(c, args, TRUE)) /\ Onward(f, ParseWidth(f, args, FALSE))
  BY ParseWidthOn DEF Pair
<1>2. ASSUME Same(c, f)
      PROVE  Pair(ParseWidth(c, args, TRUE), ParseWidth(f, args, FALSE))
  <2>1. Here(c) = Here(f)
    BY <1>2, HereSame
  <2>2. CASE IsDigit(Here(f))
    <3>1. Pair(ParseInt(c), ParseInt(f))
      BY <1>2, <2>2, ParseIntPair
    <3>2. /\ ParseWidth(c, args, TRUE) = WithWidth(ParseInt(c), ParseInt(c).value)
          /\ ParseWidth(f, args, FALSE) = WithWidth(ParseInt(f), ParseInt(f).value)
      BY <2>1, <2>2, ParseWidthIs
    <3> QED
      BY <3>1, <3>2, WithValuePair
  <2>3. CASE Here(f) = "{"
    <3> DEFINE a == Dynamic(Skip(c, 1), args, TRUE, WidthErrors)
               b == Dynamic(Skip(f, 1), args, FALSE, WidthErrors)
    <3>1. Pair(a, b)
      <4>1. f.at \in Nat \ {0} /\ CharAt(f.s, f.at) = "{"
        BY <1>2, <2>3 DEF Same, Here
      <4>2. 1 \in Nat /\ DynamicOf(WidthErrors)
        BY BothDynamic
      <4> QED
        BY <1>2, <4>1, <4>2, DynamicAfter
    <3>2. ParseWidth(c, args, TRUE) = a /\ ParseWidth(f, args, FALSE) = WithWidth(b, b.value)
      BY <2>1, <2>3, ParseWidthIs
    <3> HIDE DEF a, b
    <3> QED
      BY <3>1, <3>2, WithValuePair
  <2>4. CASE ~IsDigit(Here(f)) /\ Here(f) # "{"
    <3>1. ParseWidth(c, args, TRUE) = c
      <4>1. ~IsDigit(Here(c)) /\ Here(c) # "{"
        BY <2>1, <2>4
      <4> QED
        BY <4>1, ParseWidthIs
    <3>2. ParseWidth(f, args, FALSE) = f
      BY <2>4, ParseWidthIs
    <3> QED
      BY <3>1, <3>2
  <2> QED
    BY <2>2, <2>3, <2>4
<1> QED
  BY <1>1, <1>2, PairOn

\* What follows the '.' of a precision.
PrecisionRead(p, args, checking) ==
  LET c == CharAt(p.s, p.at + 1)
      number == ParseInt(Skip(p, 1))
      dynamic == Dynamic(Skip(p, 2), args, checking, PrecisionErrors)
  IN  CASE IsDigit(c) -> WithPrecision(number, number.value)
        [] c = "{" -> IF checking THEN dynamic ELSE WithPrecision(dynamic, dynamic.value)
        [] OTHER -> Fail(p, "missing precision specifier")

LEMMA PrecisionReadIs ==
  ASSUME NEW p, NEW args, NEW checking
  PROVE  LET c == CharAt(p.s, p.at + 1)
             number == ParseInt(Skip(p, 1))
             dynamic == Dynamic(Skip(p, 2), args, checking, PrecisionErrors)
             failed == Fail(p, "missing precision specifier")
         IN  /\ PrecisionRead(p, args, checking) \in
                  {WithPrecision(number, number.value), dynamic, WithPrecision(dynamic, dynamic.value), failed}
             /\ IsDigit(c) => PrecisionRead(p, args, checking) = WithPrecision(number, number.value)
             /\ c = "{" => PrecisionRead(p, args, checking) =
                             IF checking THEN dynamic ELSE WithPrecision(dynamic, dynamic.value)
             /\ ~IsDigit(c) /\ c # "{" => PrecisionRead(p, args, checking) = failed
BY BraceIsNoDigit DEF PrecisionRead

LEMMA PrecisionReadOn ==
  ASSUME NEW p, Shape(p), NEW args, NEW checking
  PROVE  Onward(p, PrecisionRead(p, args, checking))
<1> DEFINE v == Skip(p, 1)
           a == ParseInt(v)
           q == Skip(p, 2)
           b == Dynamic(q, args, checking, PrecisionErrors)
<1>1. PrecisionRead(p, args, checking) \in
        {WithPrecision(a, a.value), b, WithPrecision(b, b.value), Fail(p, "missing precision specifier")}
  BY PrecisionReadIs
<1>2. Onward(p, v) /\ Onward(p, q)
  BY SkipOn
<1> HIDE DEF v, q
<1>3. Onward(v, a) /\ Onward(q, b)
  <2>1. Shape(v) /\ Shape(q)
    BY <1>2 DEF Onward
  <2>2. Onward(v, a)
    BY <2>1, ParseIntOn
  <2>3. Onward(q, b)
    BY <2>1, DynamicOn
  <2> QED
    BY <2>2, <2>3
<1> HIDE DEF a, b
<1>4. Onward(p, a) /\ Onward(p, b)
  BY <1>2, <1>3, OnwardOn
<1>5. Onward(a, WithPrecision(a, a.value)) /\ Onward(b, WithPrecision(b, b.value))
  BY <1>4, WithOn DEF Onward
<1>6. Onward(p, Fail(p, "missing precision specifier"))
  BY FailOn
<1>7. Onward(p, WithPrecision(a, a.value)) /\ Onward(p, WithPrecision(b, b.value))
  BY <1>4, <1>5, OnwardOn
<1> QED
  BY <1>1, <1>4, <1>6, <1>7

LEMMA PrecisionReadPair ==
  ASSUME NEW T, NEW c, NEW f, f.s \in Seq(T), NoNames(f.s), Pair(c, f), NEW args
  PROVE  Pair(PrecisionRead(c, args, TRUE), PrecisionRead(f, args, FALSE))
<1>1. Onward(c, PrecisionRead(c, args, TRUE)) /\ Onward(f, PrecisionRead(f, args, FALSE))
  BY PrecisionReadOn DEF Pair
<1>2. ASSUME Same(c, f)
      PROVE  Pair(PrecisionRead(c, args, TRUE), PrecisionRead(f, args, FALSE))
  <2> DEFINE x == CharAt(f.s, f.at + 1)
  <2>1. CharAt(c.s, c.at + 1) = x
    BY <1>2, HereSame
  <2>2. CASE IsDigit(x)
    <3> DEFINE d == Skip(c, 1)
               g == Skip(f, 1)
    <3>1. Pair(d, g) /\ Same(d, g) /\ Here(g) = x /\ g.s = f.s
      BY <1>2, SkipSame
    <3>2. /\ PrecisionRead(c, args, TRUE) = WithPrecision(ParseInt(d), ParseInt(d).value)
          /\ PrecisionRead(f, args, FALSE) = WithPrecision(ParseInt(g), ParseInt(g).value)
      BY <2>1, <2>2, PrecisionReadIs
    <3> HIDE DEF d, g, x
    <3>3. Pair(ParseInt(d), ParseInt(g))
      BY <2>2, <3>1, ParseIntPair
    <3> QED
      BY <3>2, <3>3, WithValuePair
  <2>3. CASE x = "{"
    <3> DEFINE a == Dynamic(Skip(c, 2), args, TRUE, PrecisionErrors)
               b == Dynamic(Skip(f, 2), args, FALSE, PrecisionErrors)
    <3>1. Pair(a, b)
      <4> DEFINE k == f.at + 1
      <4>1. k \in Nat \ {0} /\ k + 1 = f.at + 2
        <5> DEFINE at == f.at
        <5>1. at \in Nat \ {0}
          BY <1>2 DEF Same
        <5> HIDE DEF at
        <5>2. at + 1 \in Nat \ {0} /\ (at + 1) + 1 = at + 2
          BY <5>1
        <5> QED
          BY <5>2 DEF at
      <4>2. CharAt(f.s, k) = "{"
        BY <2>3
      <4>3. 2 \in Nat /\ DynamicOf(PrecisionErrors)
        BY BothDynamic
      <4> HIDE DEF k
      <4> QED
        BY <1>2, <4>1, <4>2, <4>3, DynamicAfter
    <3>2. PrecisionRead(c, args, TRUE) = a /\ PrecisionRead(f, args, FALSE) = WithPrecision(b, b.value)
      BY <2>1, <2>3, PrecisionReadIs
    <3> HIDE DEF a, b
    <3> QED
      BY <3>1, <3>2, WithValuePair
  <2>4. CASE ~IsDigit(x) /\ x # "{"
    <3>1. /\ PrecisionRead(c, args, TRUE) = Fail(c, "missing precision specifier")
          /\ PrecisionRead(f, args, FALSE) = Fail(f, "missing precision specifier")
      BY <2>1, <2>4, PrecisionReadIs
    <3> QED
      BY <3>1, FailPair
  <2> QED
    BY <2>2, <2>3, <2>4
<1> QED
  BY <1>1, <1>2, PairOn

\* Only floating-point numbers and strings have a precision.
Precise(type) == ~Integral(type) /\ type # "pointer"

LEMMA ParsePrecisionIs ==
  ASSUME NEW p, NEW type, NEW args, NEW checking
  PROVE  ParsePrecision(p, type, args, checking) =
           IF Here(p) # "." THEN p
           ELSE Require(PrecisionRead(p, args, checking), Precise(type),
                        "precision not allowed for this argument type")
BY DEF ParsePrecision, PrecisionRead, WithPrecision, Precise

LEMMA ParsePrecisionOn ==
  ASSUME NEW p, Shape(p), NEW type, NEW args, NEW checking
  PROVE  Onward(p, ParsePrecision(p, type, args, checking))
<1> DEFINE q == PrecisionRead(p, args, checking)
           r == Require(q, Precise(type), "precision not allowed for this argument type")
<1>1. ParsePrecision(p, type, args, checking) \in {p, r}
  BY ParsePrecisionIs
<1>2. Onward(p, q)
  BY PrecisionReadOn
<1> HIDE DEF q
<1>3. Onward(q, r)
  BY <1>2, RequireOn, ZenonT(60) DEF Onward
<1> HIDE DEF r
<1> QED
  BY <1>1, <1>2, <1>3, OnwardOn, OnwardSelf

LEMMA ParsePrecisionPair ==
  ASSUME NEW T, NEW c, NEW f, f.s \in Seq(T), NoNames(f.s), Pair(c, f), NEW type, NEW args
  PROVE  Pair(ParsePrecision(c, type, args, TRUE), ParsePrecision(f, type, args, FALSE))
<1>1. /\ Onward(c, ParsePrecision(c, type, args, TRUE))
      /\ Onward(f, ParsePrecision(f, type, args, FALSE))
  BY ParsePrecisionOn DEF Pair
<1>2. ASSUME Same(c, f)
      PROVE  Pair(ParsePrecision(c, type, args, TRUE), ParsePrecision(f, type, args, FALSE))
  <2> DEFINE a == PrecisionRead(c, args, TRUE)
             b == PrecisionRead(f, args, FALSE)
             error == "precision not allowed for this argument type"
             fine == Precise(type)
             d == ParsePrecision(c, type, args, TRUE)
             g == ParsePrecision(f, type, args, FALSE)
  <2>1. Here(c) = Here(f)
    BY <1>2, HereSame
  <2>2. Pair(a, b)
    BY PrecisionReadPair
  <2>3. d = IF Here(f) # "." THEN c ELSE Require(a, fine, error)
    BY <2>1, ParsePrecisionIs
  <2>4. g = IF Here(f) # "." THEN f ELSE Require(b, fine, error)
    BY ParsePrecisionIs
  <2>5. error # ""
    OBVIOUS
  <2> HIDE DEF a, b, error, d, g
  <2>6. Pair(Require(a, fine, error), Require(b, fine, error))
    BY <2>2, <2>5, RequirePair
  <2>7. Pair(d, g)
    BY <2>3, <2>4, <2>6
  <2> QED
    BY <2>7 DEF d, g
<1> QED
  BY <1>1, <1>2, PairOn

LEMMA ParseTypeIs ==
  ASSUME NEW p
  PROVE  ParseType(p) = IF Here(p) \in {"}", "end"} THEN p ELSE WithType(Skip(p, 1), Here(p))
BY DEF ParseType, WithType

LEMMA ParseTypeOn ==
  ASSUME NEW p, Shape(p)
  PROVE  Onward(p, ParseType(p))
<1> DEFINE q == Skip(p, 1)
           w == WithType(q, Here(p))
<1>1. ParseType(p) \in {p, w}
  BY ParseTypeIs
<1>2. Onward(p, q)
  BY SkipOn
<1> HIDE DEF q
<1>3. Onward(q, w)
  BY <1>2, WithOn DEF Onward
<1> HIDE DEF w
<1> QED
  BY <1>1, <1>2, <1>3, OnwardOn, OnwardSelf

LEMMA ParseTypePair ==
  ASSUME NEW c, NEW f, Pair(c, f)
  PROVE  Pair(ParseType(c), ParseType(f))
<1>1. Onward(c, ParseType(c)) /\ Onward(f, ParseType(f))
  BY ParseTypeOn DEF Pair
<1>2. ASSUME Same(c, f)
      PROVE  Pair(ParseType(c), ParseType(f))
  <2> DEFINE first == Here(f)
  <2>1. Here(c) = first
    BY <1>2, HereSame
  <2>2. Pair(WithType(Skip(c, 1), first), WithType(Skip(f, 1), first))
    BY SkipPair, WithTypePair
  <2>3. ParseType(c) = IF first \in {"}", "end"} THEN c ELSE WithType(Skip(c, 1), first)
    BY <2>1, ParseTypeIs
  <2>4. ParseType(f) = IF first \in {"}", "end"} THEN f ELSE WithType(Skip(f, 1), first)
    BY ParseTypeIs
  <2> HIDE DEF first
  <2> QED
    BY <2>2, <2>3, <2>4
<1> QED
  BY <1>1, <1>2, PairOn

LEMMA ParseSpecsOn ==
  ASSUME NEW p, Shape(p), NEW type, NEW args, NEW checking
  PROVE  Onward(p, ParseSpecs(p, type, args, checking))
<1> DEFINE p1 == ParseAlign(p, type)
           p2 == ParseSign(p1, type)
           p3 == ParseHash(p2, type)
           p4 == ParseZero(p3, type)
           p5 == ParseWidth(p4, args, checking)
           p6 == ParsePrecision(p5, type, args, checking)
           p7 == ParseType(p6)
<1>0. ParseSpecs(p, type, args, checking) \in {p, p7}
  BY DEF ParseSpecs
<1>1. Onward(p, p1)
  BY ParseAlignOn
<1> HIDE DEF p1
<1>2. Onward(p, p2)
  <2>1. Onward(p1, p2)
    BY <1>1, ParseSignOn DEF Onward
  <2> QED
    BY <1>1, <2>1, OnwardOn
<1> HIDE DEF p2
<1>3. Onward(p, p3)
  <2>1. Onward(p2, p3)
    BY <1>2, ParseHashOn DEF Onward
  <2> QED
    BY <1>2, <2>1, OnwardOn
<1> HIDE DEF p3
<1>4. Onward(p, p4)
  <2>1. Onward(p3, p4)
    BY <1>3, ParseZeroOn DEF Onward
  <2> QED
    BY <1>3, <2>1, OnwardOn
<1> HIDE DEF p4
<1>5. Onward(p, p5)
  <2>1. Shape(p4)
    BY <1>4 DEF Onward
  <2>2. Onward(p4, p5)
    BY <2>1, ParseWidthOn
  <2> QED
    BY <1>4, <2>2, OnwardOn
<1> HIDE DEF p5
<1>6. Onward(p, p6)
  <2>1. Shape(p5)
    BY <1>5 DEF Onward
  <2>2. Onward(p5, p6)
    BY <2>1, ParsePrecisionOn
  <2> QED
    BY <1>5, <2>2, OnwardOn
<1> HIDE DEF p6
<1>7. Onward(p, p7)
  <2>1. Onward(p6, p7)
    BY <1>6, ParseTypeOn DEF Onward
  <2> QED
    BY <1>6, <2>1, OnwardOn
<1> QED
  BY <1>0, <1>7, OnwardSelf

\* parse_format_specs, for an argument of the same type.
LEMMA ParseSpecsPair ==
  ASSUME NEW T, NEW c, NEW f, f.s \in Seq(T), NoNames(f.s), Pair(c, f), NEW type, NEW args
  PROVE  Pair(ParseSpecs(c, type, args, TRUE), ParseSpecs(f, type, args, FALSE))
<1>1. Onward(c, ParseSpecs(c, type, args, TRUE)) /\ Onward(f, ParseSpecs(f, type, args, FALSE))
  BY ParseSpecsOn DEF Pair
<1>2. ASSUME Same(c, f)
      PROVE  Pair(ParseSpecs(c, type, args, TRUE), ParseSpecs(f, type, args, FALSE))
  <2> DEFINE c4 == ParseZero(ParseHash(ParseSign(ParseAlign(c, type), type), type), type)
             f4 == ParseZero(ParseHash(ParseSign(ParseAlign(f, type), type), type), type)
             c5 == ParseWidth(c4, args, TRUE)
             f5 == ParseWidth(f4, args, FALSE)
             c6 == ParsePrecision(c5, type, args, TRUE)
             f6 == ParsePrecision(f5, type, args, FALSE)
  <2>1. Here(c) = Here(f)
    BY <1>2, HereSame
  <2>2. /\ ParseSpecs(c, type, args, TRUE) = IF Here(f) = "}" THEN c ELSE ParseType(c6)
        /\ ParseSpecs(f, type, args, FALSE) = IF Here(f) = "}" THEN f ELSE ParseType(f6)
    BY <2>1 DEF ParseSpecs
  <2>3. Pair(c4, f4)
    BY ParseAlignPair, ParseSignPair, ParseHashPair, ParseZeroPair
  <2>4. f4.s = f.s
    <3>1. Onward(f, ParseAlign(f, type))
      BY ParseAlignOn DEF Pair
    <3>2. Onward(ParseAlign(f, type), ParseSign(ParseAlign(f, type), type))
      BY <3>1, ParseSignOn DEF Onward
    <3> DEFINE f2 == ParseSign(ParseAlign(f, type), type)
    <3> HIDE DEF f2
    <3>3. Shape(f2) /\ f2.s = f.s
      BY <3>1, <3>2 DEF f2, Onward
    <3>4. Onward(f2, ParseHash(f2, type))
      BY <3>3, ParseHashOn
    <3> DEFINE f3 == ParseHash(f2, type)
    <3> HIDE DEF f3
    <3>5. Shape(f3) /\ f3.s = f.s
      BY <3>3, <3>4 DEF f3, Onward
    <3>6. Onward(f3, ParseZero(f3, type))
      BY <3>5, ParseZeroOn
    <3> QED
      BY <3>5, <3>6 DEF f3, f2, Onward
  <2> HIDE DEF c4, f4
  <2>5. Pair(c5, f5) /\ f5.s = f.s
    <3>1. Pair(c5, f5)
      BY <2>3, <2>4, ParseWidthPair
    <3>2. Onward(f4, f5)
      BY <2>3, ParseWidthOn DEF Pair
    <3> QED
      BY <2>4, <3>1, <3>2 DEF Onward
  <2> HIDE DEF c5, f5
  <2>6. Pair(c6, f6)
    BY <2>5, ParsePrecisionPair
  <2> HIDE DEF c6, f6
  <2> QED
    BY <2>2, <2>6, ParseTypePair
<1> QED
  BY <1>1, <1>2, PairOn

-----------------------------------------------------------------------------
(* Replacement fields.                                                     *)

\* The types of arguments.
ArgTypes ==
  IntTypes \cup {"bool", "char", "double", "long_double", "cstring", "string", "pointer"}
Typed(args) == Len(args) \in Nat /\ \A k \in 1 .. Len(args) : args[k].type \in ArgTypes

\* The argument of an index.
ArgOf(args, id) == IF id \in 0 .. Len(args) - 1 THEN args[id + 1] ELSE NoArg

LEMMA ArgSame ==
  ASSUME NEW args, Typed(args), NEW c, NEW f, Same(c, f)
  PROVE  /\ ById(c) /\ ById(f) /\ c.id = f.id
         /\ GetArg(f, args) = ArgOf(args, f.id)
         /\ (f.id < Len(args) <=> GetArg(f, args).type # "none")
         /\ GetArg(f, args).type \in ArgTypes \cup {"none"}
<1> DEFINE id == f.id
           n == Len(args)
<1>1. ById(c) /\ ById(f) /\ c.id = id /\ id \in Nat /\ n \in Nat
  BY DEF Same, ById, Typed
<1>2. GetArg(f, args) = IF id < n THEN args[id + 1] ELSE NoArg
  BY <1>1 DEF GetArg
<1> HIDE DEF id, n
<1>3. id < n <=> id \in 0 .. n - 1
  BY <1>1
<1>4. id < n => id + 1 \in 1 .. n
  BY <1>1
<1>5. "none" \notin ArgTypes
  BY DEF ArgTypes, IntTypes
<1>6. NoArg.type = "none"
  BY DEF NoArg
<1>7. CASE id < n
  <2>1. GetArg(f, args) = args[id + 1] /\ args[id + 1].type \in ArgTypes
    BY <1>2, <1>4, <1>7 DEF Typed, n
  <2> QED
    BY <1>1, <1>3, <1>5, <1>7, <2>1 DEF ArgOf, id, n
<1>8. CASE ~(id < n)
  BY <1>1, <1>2, <1>3, <1>6, <1>8 DEF ArgOf, id, n
<1> QED
  BY <1>7, <1>8

LEMMA OnArgIdOn ==
  ASSUME NEW p, Shape(p), NEW args, NEW checking
  PROVE  Onward(p, OnArgId(p, args, checking)) /\ OnArgId(p, args, checking).specs = p.specs
<1> DEFINE here == p.id < Len(args)
           there == GetArg(p, args).type # "none"
           error == IF ById(p) THEN "argument index out of range" ELSE "argument not found"
<1>1. OnArgId(p, args, checking) \in {p, Require(p, here, "argument index out of range"), Require(p, there, error)}
  BY DEF OnArgId, Found
<1> HIDE DEF here, there, error
<1> QED
  BY <1>1, RequireOn, OnwardSelf, ZenonT(60)

LEMMA OnArgIdPair ==
  ASSUME NEW c, NEW f, Pair(c, f), NEW args, Typed(args)
  PROVE  Pair(OnArgId(c, args, TRUE), OnArgId(f, args, FALSE))
<1>1. Onward(c, OnArgId(c, args, TRUE)) /\ Onward(f, OnArgId(f, args, FALSE))
  BY OnArgIdOn DEF Pair
<1>2. ASSUME Same(c, f)
      PROVE  Pair(OnArgId(c, args, TRUE), OnArgId(f, args, FALSE))
  <2> DEFINE here == c.id < Len(args)
             there == GetArg(f, args).type # "none"
             error == "argument index out of range"
  <2>1. ById(c) /\ ById(f) /\ (here <=> there)
    BY <1>2, ArgSame
  <2>2. OnArgId(c, args, TRUE) = Require(c, here, error)
    BY <2>1 DEF OnArgId
  <2>3. OnArgId(f, args, FALSE) = Require(f, there, error)
    BY <2>1 DEF OnArgId, Found
  <2>4. error # ""
    OBVIOUS
  <2> HIDE DEF here, there, error
  <2> QED
    BY <2>1, <2>2, <2>3, <2>4, RequirePair
<1> QED
  BY <1>1, <1>2, PairOn

Fresh(p) == [p EXCEPT !.specs = DefaultSpecs]

LEMMA FreshOn ==
  ASSUME NEW p, Shape(p)
  PROVE  Beside(p, Fresh(p)) /\ Onward(p, Fresh(p)) /\ Fresh(p).specs = DefaultSpecs
<1>1. Fresh(p).specs = DefaultSpecs
  BY DEF Fresh, Shape
<1>2. SpecsShape(DefaultSpecs)
  BY DEF SpecsShape, DefaultSpecs
<1>3. Beside(p, Fresh(p))
  BY <1>1, <1>2 DEF Fresh, Shape, Beside
<1> QED
  BY <1>1, <1>3, BesideOn

LEMMA FreshPair ==
  ASSUME NEW c, NEW f, Pair(c, f)
  PROVE  Pair(Fresh(c), Fresh(f))
<1> DEFINE d == Fresh(c)
           g == Fresh(f)
<1>1. Beside(c, d) /\ Beside(f, g) /\ d.specs = g.specs
  BY FreshOn DEF Pair
<1> HIDE DEF d, g
<1>2. Pair(d, g)
  BY <1>1, BesidePair
<1> QED
  BY <1>2 DEF d, g

\* parse_format_specs up to '}'.
SpecsRead(p, type, args, checking) ==
  EndsHere(ParseSpecs(Fresh(p), type, args, checking), "missing '}' in format string")

LEMMA SpecsReadOn ==
  ASSUME NEW p, Shape(p), NEW type, NEW args, NEW checking
  PROVE  Onward(p, SpecsRead(p, type, args, checking))
<1> DEFINE a == Fresh(p)
           b == ParseSpecs(a, type, args, checking)
           d == EndsHere(b, "missing '}' in format string")
<1>1. Onward(p, a)
  BY FreshOn
<1> HIDE DEF a
<1>2. Onward(a, b)
  <2>1. Shape(a)
    BY <1>1 DEF Onward
  <2> QED
    BY <2>1, ParseSpecsOn
<1> HIDE DEF b
<1>3. Onward(b, d)
  BY <1>2, EndsHereOn DEF Onward
<1> HIDE DEF d
<1>4. Onward(p, d)
  BY <1>1, <1>2, <1>3, OnwardOn
<1> QED
  BY <1>4 DEF SpecsRead, d, b, a

LEMMA SpecsReadPair ==
  ASSUME NEW T, NEW c, NEW f, f.s \in Seq(T), NoNames(f.s), Pair(c, f), NEW type, NEW args
  PROVE  Pair(SpecsRead(c, type, args, TRUE), SpecsRead(f, type, args, FALSE))
<1> DEFINE d == Fresh(c)
           g == Fresh(f)
<1>1. Pair(d, g)
  BY FreshPair
<1>2. g.s = f.s
  BY FreshOn DEF Pair, Onward
<1> HIDE DEF d, g
<1>3. Pair(ParseSpecs(d, type, args, TRUE), ParseSpecs(g, type, args, FALSE))
  BY <1>1, <1>2, ParseSpecsPair
<1>4. Pair(EndsHere(ParseSpecs(d, type, args, TRUE), "missing '}' in format string"),
           EndsHere(ParseSpecs(g, type, args, FALSE), "missing '}' in format string"))
  BY <1>3, EndsHerePair
<1> QED
  BY <1>4 DEF SpecsRead, d, g

LEMMA OnFormatSpecsOn ==
  ASSUME NEW p, Shape(p), NEW args, NEW checking, NEW known
  PROVE  Onward(p, OnFormatSpecs(p, args, checking, known))
<1> DEFINE arg == IF checking THEN IF known \in 0 .. Len(args) - 1 THEN args[known + 1] ELSE NoArg
                  ELSE GetArg(p, args)
<1>1. OnFormatSpecs(p, args, checking, known) =
        IF p.error # "" \/ arg.type = "none" THEN p ELSE SpecsRead(p, arg.type, args, checking)
  BY DEF OnFormatSpecs, SpecsRead, Fresh
<1> HIDE DEF arg
<1>2. Onward(p, SpecsRead(p, arg.type, args, checking))
  BY SpecsReadOn
<1> QED
  BY <1>1, <1>2, OnwardSelf

\* on_format_specs, when the checker knows the argument's index.
LEMMA OnFormatSpecsPair ==
  ASSUME NEW T, NEW c, NEW f, f.s \in Seq(T), NoNames(f.s), Pair(c, f), NEW args, Typed(args),
         NEW known, NEW other, Same(c, f) => known = c.id
  PROVE  Pair(OnFormatSpecs(c, args, TRUE, known), OnFormatSpecs(f, args, FALSE, other))
<1>1. Onward(c, OnFormatSpecs(c, args, TRUE, known)) /\ Onward(f, OnFormatSpecs(f, args, FALSE, other))
  BY OnFormatSpecsOn DEF Pair
<1>2. ASSUME Same(c, f)
      PROVE  Pair(OnFormatSpecs(c, args, TRUE, known), OnFormatSpecs(f, args, FALSE, other))
  <2> DEFINE arg == GetArg(f, args)
             type == arg.type
  <2>1. arg = ArgOf(args, known) /\ c.error = "" /\ f.error = ""
    <3>1. known = f.id
      BY <1>2, ArgSame
    <3>2. arg = ArgOf(args, f.id)
      BY <1>2, ArgSame
    <3> QED
      BY <1>2, <3>1, <3>2 DEF Same
  <2>2. OnFormatSpecs(c, args, TRUE, known) = IF type = "none" THEN c ELSE SpecsRead(c, type, args, TRUE)
    BY <2>1 DEF OnFormatSpecs, SpecsRead, Fresh, ArgOf
  <2>3. OnFormatSpecs(f, args, FALSE, other) = IF type = "none" THEN f ELSE SpecsRead(f, type, args, FALSE)
    BY <2>1 DEF OnFormatSpecs, SpecsRead, Fresh
  <2> HIDE DEF arg, type
  <2>4. Pair(SpecsRead(c, type, args, TRUE), SpecsRead(f, type, args, FALSE))
    BY SpecsReadPair
  <2> QED
    BY <2>2, <2>3, <2>4
<1> QED
  BY <1>1, <1>2, PairOn

\* What was parsed is added to.
WithOut(p, out) == [p EXCEPT !.out = out]

LEMMA WithOutOn ==
  ASSUME NEW p, Shape(p), NEW x
  PROVE  Onward(p, WithOut(p, x)) /\ WithOut(p, x).specs = p.specs /\ WithOut(p, x).error = p.error
<1>1. WithOut(p, x).specs = p.specs
  BY DEF Shape, WithOut
<1>2. Beside(p, WithOut(p, x))
  BY SetOthers DEF WithOut
<1> QED
  BY <1>1, <1>2, BesideOn DEF Beside

LEMMA WithOutPair ==
  ASSUME NEW c, NEW f, Pair(c, f), NEW x, NEW y
  PROVE  Pair(WithOut(c, x), WithOut(f, y))
<1>1. Beside(c, WithOut(c, x)) /\ Alike(c, WithOut(c, x))
  BY SetOthers DEF Pair, WithOut
<1>2. Beside(f, WithOut(f, y)) /\ Alike(f, WithOut(f, y))
  BY SetOthers DEF Pair, WithOut
<1> QED
  BY <1>1, <1>2, AlikePair

\* A field ends, whose specifiers fit or not.
Ended(p, out, fits) == IF p.error # "" THEN p ELSE Require(Skip(WithOut(p, out), 1), fits, "invalid type specifier")

LEMMA EndedOn ==
  ASSUME NEW p, Shape(p), NEW out, NEW fits
  PROVE  Onward(p, Ended(p, out, fits))
<1> DEFINE a == WithOut(p, out)
           b == Skip(a, 1)
           d == Require(b, fits, "invalid type specifier")
<1>0. Ended(p, out, fits) \in {p, d}
  BY DEF Ended
<1>1. Onward(p, a)
  BY WithOutOn
<1> HIDE DEF a
<1>2. Onward(a, b)
  BY <1>1, SkipOn DEF Onward
<1> HIDE DEF b
<1>3. Onward(b, d)
  BY <1>2, RequireOn, ZenonT(60) DEF Onward
<1> HIDE DEF d
<1> QED
  BY <1>0, <1>1, <1>2, <1>3, OnwardOn, OnwardSelf

LEMMA EndedPair ==
  ASSUME NEW c, NEW f, Pair(c, f), NEW x, NEW y, NEW ok, NEW fine, Same(c, f) => (ok <=> fine)
  PROVE  Pair(Ended(c, x, ok), Ended(f, y, fine))
<1>1. Onward(c, Ended(c, x, ok)) /\ Onward(f, Ended(f, y, fine))
  BY EndedOn DEF Pair
<1>2. ASSUME Same(c, f)
      PROVE  Pair(Ended(c, x, ok), Ended(f, y, fine))
  <2> DEFINE a == Skip(WithOut(c, x), 1)
             b == Skip(WithOut(f, y), 1)
             error == "invalid type specifier"
  <2>1. Pair(a, b)
    BY WithOutPair, SkipPair
  <2>2. Ended(c, x, ok) = Require(a, ok, error) /\ Ended(f, y, fine) = Require(b, fine, error)
    BY <1>2 DEF Ended, Same
  <2>3. error # ""
    OBVIOUS
  <2> HIDE DEF a, b, error
  <2> QED
    BY <1>2, <2>1, <2>2, <2>3, RequirePair
<1> QED
  BY <1>1, <1>2, PairOn

\* What an argument's type has to say about specifiers.
Fits(arg, p) == arg.type = "none" \/ TypeFits(arg.type, p.specs)

LEMMA FitsSame ==
  ASSUME NEW arg, arg.type \in ArgTypes \cup {"none"}, NEW c, NEW f, Same(c, f)
  PROVE  Fits(arg, c) <=> Fits(arg, f)
BY DEF Fits, Same, TypeFits

LEMMA FitsDefault ==
  ASSUME NEW arg, arg.type \in ArgTypes \cup {"none"}, NEW p, p.specs = DefaultSpecs
  PROVE  Fits(arg, p)
<1> DEFINE type == arg.type
           specs == p.specs
<1>1. specs.type = "none" /\ specs.align = "default" /\ specs.flags = {}
  <2>1. DefaultSpecs.type = "none" /\ DefaultSpecs.align = "default" /\ DefaultSpecs.flags = {}
    BY DEF DefaultSpecs
  <2> QED
    BY <2>1
<1> HIDE DEF type, specs
<1>2. "default" # "numeric" /\ "none" \in IntSpecs
  BY DEF IntSpecs
<1>3. CASE type = "none"
  BY <1>3 DEF Fits, type
<1>4. CASE type \in IntTypes \cup {"bool"}
  <2>1. TypeFits(type, specs)
    BY <1>1, <1>2, <1>4 DEF TypeFits, IntTypes
  <2> QED
    BY <2>1 DEF Fits, type, specs
<1>5. CASE type = "char"
  <2>1. TypeFits(type, specs)
    BY <1>1, <1>2, <1>5 DEF TypeFits, IntTypes
  <2> QED
    BY <2>1 DEF Fits, type, specs
<1>6. CASE type \in {"double", "long_double"}
  <2>1. TypeFits(type, specs)
    BY <1>1, <1>6 DEF TypeFits, IntTypes
  <2> QED
    BY <2>1 DEF Fits, type, specs
<1>7. CASE type \in {"cstring", "string", "pointer"}
  <2>1. TypeFits(type, specs)
    BY <1>1, <1>7 DEF TypeFits, IntTypes
  <2> QED
    BY <2>1 DEF Fits, type, specs
<1> QED
  BY <1>3, <1>4, <1>5, <1>6, <1>7 DEF ArgTypes, type

\* A field after its argument id.
FieldRest(q, args, checking, now) ==
  CASE Here(q) = "}" -> q
    [] Here(q) = ":" -> OnFormatSpecs(Skip(q, 1), args, checking, now)
    [] OTHER -> Fail(q, "missing '}' in format string")
FieldArg(q, args, checking, now) ==
  IF ~checking THEN GetArg(q, args) ELSE IF Here(q) = ":" THEN ArgOf(args, now) ELSE NoArg
FieldEnd(q, args, checking, now) ==
  LET r == EndsHere(FieldRest(q, args, checking, now), "unknown format specifier")
  IN  Ended(r, Append(r.out, FieldFor(q.id, q.name, r.specs)), Fits(FieldArg(q, args, checking, now), r))

LEMMA FieldRestOn ==
  ASSUME NEW q, Shape(q), NEW args, NEW checking, NEW now
  PROVE  Onward(q, FieldRest(q, args, checking, now))
<1> DEFINE a == Skip(q, 1)
           b == OnFormatSpecs(a, args, checking, now)
<1>1. FieldRest(q, args, checking, now) \in {q, b, Fail(q, "missing '}' in format string")}
  BY DEF FieldRest
<1>2. Onward(q, a)
  BY SkipOn
<1> HIDE DEF a
<1>3. Onward(a, b)
  <2>1. Shape(a)
    BY <1>2 DEF Onward
  <2> QED
    BY <2>1, OnFormatSpecsOn
<1> HIDE DEF b
<1>4. Onward(q, Fail(q, "missing '}' in format string"))
  BY FailOn
<1>5. Onward(q, b)
  BY <1>2, <1>3, OnwardOn
<1> QED
  BY <1>1, <1>4, <1>5, OnwardSelf

LEMMA FieldEndOn ==
  ASSUME NEW q, Shape(q), NEW args, NEW checking, NEW now
  PROVE  Onward(q, FieldEnd(q, args, checking, now))
<1> DEFINE a == FieldRest(q, args, checking, now)
           r == EndsHere(a, "unknown format specifier")
           out == Append(r.out, FieldFor(q.id, q.name, r.specs))
           fits == Fits(FieldArg(q, args, checking, now), r)
           d == Ended(r, out, fits)
<1>1. FieldEnd(q, args, checking, now) = d
  BY DEF FieldEnd
<1>2. Onward(q, a)
  BY FieldRestOn
<1> HIDE DEF a
<1>3. Onward(a, r)
  BY <1>2, EndsHereOn DEF Onward
<1> HIDE DEF r, out, fits
<1>4. Onward(r, d)
  <2>1. Shape(r)
    BY <1>3 DEF Onward
  <2> QED
    BY <2>1, EndedOn
<1> HIDE DEF d
<1> QED
  BY <1>1, <1>2, <1>3, <1>4, OnwardOn

LEMMA FieldEndPair ==
  ASSUME NEW T, NEW c, NEW f, f.s \in Seq(T), NoNames(f.s), Pair(c, f), NEW args, Typed(args),
         NEW known, NEW other, Same(c, f) => known = c.id, f.specs = DefaultSpecs
  PROVE  Pair(FieldEnd(c, args, TRUE, known), FieldEnd(f, args, FALSE, other))
<1>1. Onward(c, FieldEnd(c, args, TRUE, known)) /\ Onward(f, FieldEnd(f, args, FALSE, other))
  BY FieldEndOn DEF Pair
<1>2. ASSUME Same(c, f)
      PROVE  Pair(FieldEnd(c, args, TRUE, known), FieldEnd(f, args, FALSE, other))
  <2> DEFINE a == FieldRest(c, args, TRUE, known)
             b == FieldRest(f, args, FALSE, other)
             d == EndsHere(a, "unknown format specifier")
             g == EndsHere(b, "unknown format specifier")
             ok == Fits(FieldArg(c, args, TRUE, known), d)
             fine == Fits(FieldArg(f, args, FALSE, other), g)
             x == Append(d.out, FieldFor(c.id, c.name, d.specs))
             y == Append(g.out, FieldFor(f.id, f.name, g.specs))
             arg == GetArg(f, args)
  <2>1. Here(c) = Here(f)
    BY <1>2, HereSame
  <2>2. /\ c.id = f.id /\ known = f.id /\ arg = ArgOf(args, known) /\ arg.type \in ArgTypes \cup {"none"}
    <3>1. c.id = f.id /\ arg = ArgOf(args, f.id) /\ arg.type \in ArgTypes \cup {"none"}
      BY <1>2, ArgSame
    <3> QED
      BY <1>2, <3>1
  <2>3. FieldEnd(c, args, TRUE, known) = Ended(d, x, ok) /\ FieldEnd(f, args, FALSE, other) = Ended(g, y, fine)
    BY DEF FieldEnd
  <2>4. Pair(d, g) /\ (Same(d, g) => (ok <=> fine))
    <3>1. CASE Here(f) = "}"
      <4>1. a = c /\ b = f
        BY <2>1, <3>1 DEF FieldRest
      <4>2. Pair(d, g)
        BY <4>1, EndsHerePair
      <4>3. g.specs = DefaultSpecs
        BY <4>1, EndsHereOn DEF Pair
      <4>4. fine
        BY <2>2, <4>3, FitsDefault DEF FieldArg
      <4>5. ok
        <5>1. FieldArg(c, args, TRUE, known) = NoArg
          BY <2>1, <3>1 DEF FieldArg
        <5>2. NoArg.type = "none"
          BY DEF NoArg
        <5>3. Fits(NoArg, d)
          BY <5>2 DEF Fits
        <5> QED
          BY <5>1, <5>3
      <4> QED
        BY <4>2, <4>4, <4>5
    <3>2. CASE Here(f) = ":"
      <4>1. a = OnFormatSpecs(Skip(c, 1), args, TRUE, known) /\ b = OnFormatSpecs(Skip(f, 1), args, FALSE, other)
        BY <2>1, <3>2 DEF FieldRest
      <4>2. Pair(a, b)
        <5> DEFINE v == Skip(c, 1)
                   w == Skip(f, 1)
        <5>1. Pair(v, w) /\ w.s = f.s
          BY <1>2, SkipSame
        <5>2. v.id = c.id
          BY DEF Pair, Shape, Skip
        <5>3. Same(v, w) => known = v.id
          BY <2>2, <5>2
        <5>4. w.s \in Seq(T) /\ NoNames(w.s)
          BY <5>1
        <5> HIDE DEF v, w
        <5>5. Pair(OnFormatSpecs(v, args, TRUE, known), OnFormatSpecs(w, args, FALSE, other))
          BY <5>1, <5>3, <5>4, OnFormatSpecsPair
        <5> QED
          BY <4>1, <5>5 DEF v, w
      <4> HIDE DEF a, b
      <4>3. Pair(d, g)
        BY <4>2, EndsHerePair
      <4>4. FieldArg(c, args, TRUE, known) = arg /\ FieldArg(f, args, FALSE, other) = arg
        BY <2>1, <2>2, <3>2 DEF FieldArg
      <4> HIDE DEF d, g, arg
      <4>5. Same(d, g) => (Fits(arg, d) <=> Fits(arg, g))
        BY <2>2, FitsSame
      <4> QED
        BY <4>3, <4>4, <4>5
    <3>3. CASE Here(f) # "}" /\ Here(f) # ":"
      <4>1. a = Fail(c, "missing '}' in format string") /\ b = Fail(f, "missing '}' in format string")
        BY <2>1, <3>3 DEF FieldRest
      <4>2. Pair(a, b)
        BY <4>1, FailPair
      <4>5. a.error # ""
        BY <4>1, FailOn DEF Pair
      <4> HIDE DEF a, b
      <4>3. Pair(d, g)
        BY <4>2, EndsHerePair
      <4>4. d.error # ""
        BY <4>2, <4>5, EndsHereOn DEF Pair, Onward
      <4> QED
        BY <4>3, <4>4 DEF Same
    <3> QED
      BY <3>1, <3>2, <3>3
  <2> HIDE DEF d, g, x, y, ok, fine
  <2>5. Pair(Ended(d, x, ok), Ended(g, y, fine))
    BY <2>4, EndedPair
  <2> QED
    BY <2>3, <2>5
<1> QED
  BY <1>1, <1>2, PairOn

LEMMA ParseFieldIs ==
  ASSUME NEW p, NEW args, NEW checking, NEW known
  PROVE  LET q == OnArgId(ParseArgId(Fresh(p)), args, checking)
             now == IF ById(q) THEN q.id ELSE known
         IN  ParseField(p, args, checking, known) = [parsed |-> FieldEnd(q, args, checking, now), known |-> now]
<1> DEFINE q == OnArgId(ParseArgId(Fresh(p)), args, checking)
           now == IF ById(q) THEN q.id ELSE known
           arg == IF ~checking THEN GetArg(q, args)
                  ELSE IF Here(q) = ":" /\ now \in 0 .. Len(args) - 1 THEN args[now + 1] ELSE NoArg
           r == EndsHere(FieldRest(q, args, checking, now), "unknown format specifier")
<1>1. ParseField(p, args, checking, known) = [parsed |-> OnField(r, q, arg), known |-> now]
  BY DEF ParseField, FieldRest, Fresh
<1>2. arg = FieldArg(q, args, checking, now)
  BY DEF FieldArg, ArgOf
<1> HIDE DEF arg, now
<1>3. OnField(r, q, arg) = Ended(r, Append(r.out, FieldFor(q.id, q.name, r.specs)), Fits(arg, r))
  <2> HIDE DEF r
  <2> QED
    BY DEF OnField, Ended, Fits, WithOut
<1>4. OnField(r, q, arg) = FieldEnd(q, args, checking, now)
  BY <1>2, <1>3 DEF FieldEnd
<1> HIDE DEF r
<1> QED
  BY <1>1, <1>4 DEF now

\* The field's argument is known after this.
AtArg(p, args, checking) == OnArgId(ParseArgId(Fresh(p)), args, checking)

LEMMA AtArgOn ==
  ASSUME NEW p, Shape(p), NEW args, NEW checking
  PROVE  Onward(p, AtArg(p, args, checking)) /\ AtArg(p, args, checking).specs = DefaultSpecs
<1> DEFINE a == Fresh(p)
           b == ParseArgId(a)
           d == OnArgId(b, args, checking)
<1>1. Onward(p, a) /\ a.specs = DefaultSpecs
  BY FreshOn
<1> HIDE DEF a
<1>2. Onward(a, b) /\ b.specs = a.specs
  BY <1>1, ParseArgIdOn DEF Onward
<1> HIDE DEF b
<1>3. Onward(b, d) /\ d.specs = b.specs
  <2>1. Shape(b)
    BY <1>2 DEF Onward
  <2> QED
    BY <2>1, OnArgIdOn
<1> HIDE DEF d
<1>4. Onward(p, d) /\ d.specs = DefaultSpecs
  BY <1>1, <1>2, <1>3, OnwardOn
<1> QED
  BY <1>4 DEF AtArg, a, b, d

LEMMA AtArgPair ==
  ASSUME NEW T, NEW c, NEW f, f.s \in Seq(T), Pair(c, f), Same(c, f) => Here(f) \notin NameStarts,
         NEW args, Typed(args)
  PROVE  Pair(AtArg(c, args, TRUE), AtArg(f, args, FALSE))
<1>1. Onward(c, AtArg(c, args, TRUE)) /\ Onward(f, AtArg(f, args, FALSE))
  BY AtArgOn DEF Pair
<1>2. ASSUME Same(c, f)
      PROVE  Pair(AtArg(c, args, TRUE), AtArg(f, args, FALSE))
  <2> DEFINE a == Fresh(c)
             b == Fresh(f)
  <2>1. Pair(a, b)
    BY FreshPair
  <2>2. b.s = f.s /\ b.at = f.at
    BY FreshOn DEF Pair, Beside
  <2>3. Here(b) \notin NameStarts /\ b.s \in Seq(T)
    BY <1>2, <2>2 DEF Here
  <2> HIDE DEF a, b
  <2>4. Pair(ParseArgId(a), ParseArgId(b))
    BY <2>1, <2>3, ParseArgIdPair
  <2>5. Pair(OnArgId(ParseArgId(a), args, TRUE), OnArgId(ParseArgId(b), args, FALSE))
    BY <2>4, OnArgIdPair
  <2> QED
    BY <2>5 DEF AtArg, a, b
<1> QED
  BY <1>1, <1>2, PairOn

LEMMA ParseFieldOn ==
  ASSUME NEW p, Shape(p), NEW args, NEW checking, NEW known
  PROVE  LET r == ParseField(p, args, checking, known)
         IN  Onward(p, r.parsed) /\ r = [parsed |-> r.parsed, known |-> r.known]
<1> DEFINE q == AtArg(p, args, checking)
           now == IF ById(q) THEN q.id ELSE known
           d == FieldEnd(q, args, checking, now)
<1>1. ParseField(p, args, checking, known) = [parsed |-> d, known |-> now]
  BY ParseFieldIs DEF AtArg
<1>2. Onward(p, q)
  BY AtArgOn
<1> HIDE DEF q, now
<1>3. Onward(q, d)
  <2>1. Shape(q)
    BY <1>2 DEF Onward
  <2> QED
    BY <2>1, FieldEndOn
<1> HIDE DEF d
<1>4. Onward(p, d)
  BY <1>2, <1>3, OnwardOn
<1> QED
  BY <1>1, <1>4

\* A replacement field.
LEMMA ParseFieldPair ==
  ASSUME NEW T, NEW c, NEW f, f.s \in Seq(T), NoNames(f.s), Pair(c, f), Same(c, f) => Here(f) \notin NameStarts,
         NEW args, Typed(args), NEW known, NEW other
  PROVE  Pair(ParseField(c, args, TRUE, known).parsed, ParseField(f, args, FALSE, other).parsed)
<1> DEFINE a == AtArg(c, args, TRUE)
           b == AtArg(f, args, FALSE)
           now == IF ById(a) THEN a.id ELSE known
           then == IF ById(b) THEN b.id ELSE other
<1>1. Pair(a, b)
  BY AtArgPair
<1>2. b.specs = DefaultSpecs /\ b.s = f.s
  BY AtArgOn DEF Pair, Onward
<1>3. /\ ParseField(c, args, TRUE, known).parsed = FieldEnd(a, args, TRUE, now)
      /\ ParseField(f, args, FALSE, other).parsed = FieldEnd(b, args, FALSE, then)
  <2> DEFINE x == FieldEnd(a, args, TRUE, now)
             y == FieldEnd(b, args, FALSE, then)
             v == ParseField(c, args, TRUE, known)
             w == ParseField(f, args, FALSE, other)
  <2>1. v = [parsed |-> x, known |-> now]
    BY ParseFieldIs DEF AtArg
  <2>2. w = [parsed |-> y, known |-> then]
    BY ParseFieldIs DEF AtArg
  <2> HIDE DEF a, b, now, then, x, y, v, w
  <2>3. v.parsed = x /\ w.parsed = y
    BY <2>1, <2>2
  <2> QED
    BY <2>3 DEF x, y, v, w
<1> HIDE DEF a, b
<1>4. Same(a, b) => now = a.id
  BY DEF Same, ById
<1> HIDE DEF now, then
<1>5. Pair(FieldEnd(a, args, TRUE, now), FieldEnd(b, args, FALSE, then))
  BY <1>1, <1>2, <1>4, FieldEndPair
<1> QED
  BY <1>3, <1>5

-----------------------------------------------------------------------------
(* The string.                                                             *)

LEMMA AtOn ==
  ASSUME NEW p, Shape(p), NEW e
  PROVE  LET q == [p EXCEPT !.at = e] IN Onward(p, q) /\ q.s = p.s /\ q.at = e
BY SetAt DEF Onward

LEMMA AtPair ==
  ASSUME NEW c, NEW f, Pair(c, f), NEW e \in Nat \ {0}
  PROVE  Pair([c EXCEPT !.at = e], [f EXCEPT !.at = e])
<1> DEFINE d == [c EXCEPT !.at = e]
           g == [f EXCEPT !.at = e]
<1>1. /\ Shape(d) /\ d.specs = c.specs /\ d.s = c.s /\ d.at = e /\ d.next = c.next
      /\ d.error = c.error /\ d.id = c.id /\ d.name = c.name
  BY SetAt DEF Pair
<1>2. /\ Shape(g) /\ g.specs = f.specs /\ g.s = f.s /\ g.at = e /\ g.next = f.next
      /\ g.error = f.error /\ g.id = f.id /\ g.name = f.name
  BY SetAt DEF Pair
<1> HIDE DEF d, g
<1>3. Same(c, f) => Same(d, g)
  BY <1>1, <1>2 DEF Same
<1>4. Pair(d, g)
  BY <1>1, <1>2, <1>3 DEF Pair, Agreeing
<1> QED
  BY <1>4 DEF d, g

LEMMA CopyTextIs ==
  ASSUME NEW p, NEW t
  PROVE  CopyText(p, t) = Require(WithOut(p, p.out \o Copied(t).text), ~Copied(t).open /\ ~Copied(t).bad,
                                  "unmatched '}' in format string")
BY DEF CopyText, WithOut

LEMMA CopyTextOn ==
  ASSUME NEW p, Shape(p), NEW t
  PROVE  Onward(p, CopyText(p, t))
<1> DEFINE q == WithOut(p, p.out \o Copied(t).text)
           ok == ~Copied(t).open /\ ~Copied(t).bad
           r == Require(q, ok, "unmatched '}' in format string")
<1>1. CopyText(p, t) = r
  BY CopyTextIs
<1>2. Onward(p, q)
  BY WithOutOn
<1> HIDE DEF q, ok
<1>3. Onward(q, r)
  BY <1>2, RequireOn, ZenonT(60) DEF Onward
<1> HIDE DEF r
<1> QED
  BY <1>1, <1>2, <1>3, OnwardOn

LEMMA CopyTextPair ==
  ASSUME NEW c, NEW f, Pair(c, f), NEW t
  PROVE  Pair(CopyText(c, t), CopyText(f, t))
<1> DEFINE d == WithOut(c, c.out \o Copied(t).text)
           g == WithOut(f, f.out \o Copied(t).text)
           ok == ~Copied(t).open /\ ~Copied(t).bad
           error == "unmatched '}' in format string"
<1>1. CopyText(c, t) = Require(d, ok, error) /\ CopyText(f, t) = Require(g, ok, error)
  BY CopyTextIs
<1>2. Pair(d, g)
  BY WithOutPair
<1>3. error # ""
  OBVIOUS
<1> HIDE DEF d, g, ok, error
<1> QED
  BY <1>1, <1>2, <1>3, RequirePair

\* The next '{', and the parser behind it once the text before it is copied.
Brace(p) == RunEnd(p, p.at, ToSet(p.s) \ {"{"})
Behind(p) == [CopyText(p, SubSeq(p.s, p.at, Brace(p) - 1)) EXCEPT !.at = Brace(p) + 1]

LEMMA BehindOn ==
  ASSUME NEW p, Shape(p)
  PROVE  Onward(p, Behind(p)) /\ Behind(p).at = Brace(p) + 1
<1> DEFINE q == CopyText(p, SubSeq(p.s, p.at, Brace(p) - 1))
           e == Brace(p) + 1
<1>1. Onward(p, q)
  BY CopyTextOn
<1>2. Behind(p) = [q EXCEPT !.at = e]
  BY DEF Behind
<1> HIDE DEF q, e
<1>3. Onward(q, [q EXCEPT !.at = e]) /\ [q EXCEPT !.at = e].at = e
  BY <1>1, AtOn DEF Onward
<1>4. Onward(p, Behind(p)) /\ Behind(p).at = e
  BY <1>1, <1>2, <1>3, OnwardOn
<1> QED
  BY <1>4 DEF e

\* A turn of the loop, at its text.
Turn(run, args, checking) ==
  LET p == run.parsed
      e == Brace(p)
      q == Behind(p)
  IN  CASE e > Len(p.s) -> [run EXCEPT !.parsed = [q EXCEPT !.at = e]]
        [] e = Len(p.s) -> [run EXCEPT !.parsed = Fail(q, "invalid format string")]
        [] e < Len(p.s) /\ Here(q) = "{" ->
             [run EXCEPT !.parsed = Skip(WithOut(q, Append(q.out, CopyOf("{"))), 1)]
        [] OTHER -> ParseField(q, args, checking, run.known)

Running(run) == run = [parsed |-> run.parsed, known |-> run.known] /\ Shape(run.parsed)

LEMMA ParseNextIs ==
  ASSUME NEW run, NEW args, NEW checking
  PROVE  ParseNext(run, args, checking) =
           IF run.parsed.error # "" \/ run.parsed.at > Len(run.parsed.s) THEN run ELSE Turn(run, args, checking)
BY DEF ParseNext, Turn, Brace, Behind, WithOut

LEMMA Onto ==
  ASSUME NEW run, Running(run), NEW r, Shape(r)
  PROVE  Running([run EXCEPT !.parsed = r]) /\ [run EXCEPT !.parsed = r].parsed = r
BY DEF Running

LEMMA TurnOn ==
  ASSUME NEW run, Running(run), NEW args, NEW checking
  PROVE  Running(Turn(run, args, checking)) /\ Onward(run.parsed, Turn(run, args, checking).parsed)
<1> DEFINE p == run.parsed
           q == Behind(p)
           x == [q EXCEPT !.at = Brace(p)]
           y == Fail(q, "invalid format string")
           v == WithOut(q, Append(q.out, CopyOf("{")))
           z == Skip(v, 1)
           d == ParseField(q, args, checking, run.known)
           t == Turn(run, args, checking)
<1>1. t \in {[run EXCEPT !.parsed = x], [run EXCEPT !.parsed = y], [run EXCEPT !.parsed = z], d}
  BY DEF Turn
<1>2. Shape(p) /\ Onward(p, q)
  BY BehindOn DEF Running
<1> HIDE DEF t, p, q
<1>3. Onward(p, x)
  <2> DEFINE e == Brace(p)
  <2> HIDE DEF e
  <2>1. Shape(q)
    BY <1>2 DEF Onward
  <2>2. Onward(q, [q EXCEPT !.at = e])
    BY <2>1, AtOn
  <2> QED
    BY <1>2, <2>2, OnwardOn DEF e
<1>4. Onward(p, y)
  <2>1. Onward(q, y)
    BY <1>2, FailOn DEF Onward
  <2> QED
    BY <1>2, <2>1, OnwardOn
<1>5. Onward(p, z)
  <2>1. Onward(q, v)
    <3>1. Shape(q)
      BY <1>2 DEF Onward
    <3> DEFINE out == Append(q.out, CopyOf("{"))
    <3> HIDE DEF out
    <3>2. Onward(q, WithOut(q, out))
      BY <3>1, WithOutOn
    <3> QED
      BY <3>2 DEF out
  <2> HIDE DEF v
  <2>2. Onward(v, z)
    BY <2>1, SkipOn DEF Onward
  <2> QED
    BY <1>2, <2>1, <2>2, OnwardOn
<1>6. Onward(p, d.parsed) /\ d = [parsed |-> d.parsed, known |-> d.known]
  <2> DEFINE known == run.known
  <2> HIDE DEF known
  <2>1. Shape(q)
    BY <1>2 DEF Onward
  <2> DEFINE r == ParseField(q, args, checking, known)
  <2>2. Onward(q, r.parsed) /\ r = [parsed |-> r.parsed, known |-> r.known]
    BY <2>1, ParseFieldOn
  <2> HIDE DEF r
  <2>3. Onward(p, r.parsed)
    BY <1>2, <2>2, OnwardOn
  <2> QED
    BY <2>2, <2>3 DEF r, known
<1> HIDE DEF x, y, z, d
<1>7. ASSUME NEW r, Onward(p, r), t = [run EXCEPT !.parsed = r]
      PROVE  Running(t) /\ Onward(p, t.parsed)
  BY <1>7, Onto DEF Onward
<1>8. ASSUME t = d
      PROVE  Running(t) /\ Onward(p, t.parsed)
  BY <1>6, <1>8 DEF Running, Onward
<1> QED
  BY <1>1, <1>3, <1>4, <1>5, <1>7, <1>8 DEF t, p

LEMMA ParseNextOn ==
  ASSUME NEW run, Running(run), NEW args, NEW checking
  PROVE  Running(ParseNext(run, args, checking)) /\ Onward(run.parsed, ParseNext(run, args, checking).parsed)
<1> DEFINE p == run.parsed
           t == Turn(run, args, checking)
           r == ParseNext(run, args, checking)
<1>0. Running(t) /\ Onward(p, t.parsed)
  BY TurnOn
<1>1. Running(run) /\ Onward(p, run.parsed)
  BY OnwardSelf DEF Running
<1>2. r \in {run, t}
  BY ParseNextIs
<1> HIDE DEF t, r
<1> QED
  BY <1>0, <1>1, <1>2 DEF r

LEMMA NoEndInIt ==
  ASSUME NEW T, "end" \notin T, NEW s \in Seq(T)
  PROVE  /\ "end" \notin ToSet(s) \ {"{"}
         /\ \A k \in 1 .. Len(s) : CharAt(s, k) \notin ToSet(s) \ {"{"} => CharAt(s, k) = "{"
<1>1. DOMAIN s = 1 .. Len(s) /\ \A k \in 1 .. Len(s) : s[k] \in T
  BY LenProperties
<1>2. \A x \in ToSet(s) : x \in T
  BY <1>1 DEF ToSet
<1>3. \A k \in 1 .. Len(s) : CharAt(s, k) = s[k] /\ s[k] \in ToSet(s)
  BY <1>1 DEF CharAt, ToSet
<1> QED
  BY <1>2, <1>3

LEMMA Around ==
  ASSUME NEW n \in Nat, NEW b \in Nat \ {0}, NEW e \in b .. n + 1
  PROVE  e \in Nat \ {0} /\ e + 1 \in Nat \ {0} /\ e <= n + 1 /\ (e <= n => e \in 1 .. n)
OBVIOUS

\* What follows a '{' that is not the last character.
AtBrace(run, q, args, checking) ==
  IF Here(q) = "{" THEN Skip(WithOut(q, Append(q.out, CopyOf("{"))), 1)
  ELSE ParseField(q, args, checking, run.known).parsed

LEMMA AtBraceOn ==
  ASSUME NEW run, NEW q, Shape(q), NEW args, NEW checking
  PROVE  Onward(q, AtBrace(run, q, args, checking))
<1> DEFINE out == Append(q.out, CopyOf("{"))
           v == WithOut(q, out)
           z == Skip(v, 1)
           known == run.known
           r == ParseField(q, args, checking, known)
<1>1. AtBrace(run, q, args, checking) \in {z, r.parsed}
  BY DEF AtBrace
<1> HIDE DEF out, known
<1>2. Onward(q, v)
  BY WithOutOn
<1>3. Onward(q, r.parsed)
  BY ParseFieldOn
<1> HIDE DEF v, r
<1>4. Onward(v, z)
  BY <1>2, SkipOn DEF Onward
<1> QED
  BY <1>1, <1>2, <1>3, <1>4, OnwardOn

LEMMA AtBracePair ==
  ASSUME NEW rc, NEW rf, NEW T, NEW a, NEW b, b.s \in Seq(T), NoNames(b.s), Pair(a, b),
         Here(b) \notin NameStarts, NEW args, Typed(args)
  PROVE  Pair(AtBrace(rc, a, args, TRUE), AtBrace(rf, b, args, FALSE))
<1>1. Onward(a, AtBrace(rc, a, args, TRUE)) /\ Onward(b, AtBrace(rf, b, args, FALSE))
  BY AtBraceOn DEF Pair
<1>2. ASSUME Same(a, b)
      PROVE  Pair(AtBrace(rc, a, args, TRUE), AtBrace(rf, b, args, FALSE))
  <2>1. Here(a) = Here(b)
    BY <1>2, HereSame
  <2>2. CASE Here(b) = "{"
    <3> DEFINE d == Skip(WithOut(a, Append(a.out, CopyOf("{"))), 1)
               g == Skip(WithOut(b, Append(b.out, CopyOf("{"))), 1)
    <3>1. Pair(d, g)
      BY WithOutPair, SkipPair
    <3>2. AtBrace(rc, a, args, TRUE) = d /\ AtBrace(rf, b, args, FALSE) = g
      BY <2>1, <2>2 DEF AtBrace
    <3> HIDE DEF d, g
    <3> QED
      BY <3>1, <3>2
  <2>3. CASE Here(b) # "{"
    <3> DEFINE d == ParseField(a, args, TRUE, rc.known).parsed
               g == ParseField(b, args, FALSE, rf.known).parsed
    <3>1. Pair(d, g)
      BY ParseFieldPair
    <3>2. AtBrace(rc, a, args, TRUE) = d /\ AtBrace(rf, b, args, FALSE) = g
      BY <2>1, <2>3 DEF AtBrace
    <3> HIDE DEF d, g
    <3> QED
      BY <3>1, <3>2
  <2> QED
    BY <2>2, <2>3
<1> QED
  BY <1>1, <1>2, PairOn

\* What a turn t comes to, in a string of n characters with the next '{' at e.
TurnsTo(run, p, e, n, args, checking, t) ==
  /\ e > n => t.parsed = [Behind(p) EXCEPT !.at = e]
  /\ e = n => t.parsed = Fail(Behind(p), "invalid format string")
  /\ e < n => t.parsed = AtBrace(run, Behind(p), args, checking)

LEMMA TurnIs ==
  ASSUME NEW run, Running(run), NEW p, p = run.parsed, NEW e \in Nat, e = Brace(p), NEW n \in Nat, n = Len(p.s),
         NEW args, NEW checking, NEW t, t = Turn(run, args, checking)
  PROVE  TurnsTo(run, p, e, n, args, checking, t)
<1> DEFINE q == Behind(p)
           x == [q EXCEPT !.at = e]
           y == Fail(q, "invalid format string")
           z == Skip(WithOut(q, Append(q.out, CopyOf("{"))), 1)
           d == ParseField(q, args, checking, run.known)
<1>1. t = CASE e > n -> [run EXCEPT !.parsed = x]
            [] e = n -> [run EXCEPT !.parsed = y]
            [] e < n /\ Here(q) = "{" -> [run EXCEPT !.parsed = z]
            [] OTHER -> d
  BY DEF Turn
<1>2. ASSUME NEW r
      PROVE  [run EXCEPT !.parsed = r].parsed = r
  BY DEF Running
<1>3. AtBrace(run, q, args, checking) = IF Here(q) = "{" THEN z ELSE d.parsed
  BY DEF AtBrace
<1> HIDE DEF x, y, z, d
<1>10. e > n \/ e = n \/ e < n
  OBVIOUS
<1>11. ~(e > n /\ e = n) /\ ~(e > n /\ e < n) /\ ~(e = n /\ e < n)
  OBVIOUS
<1> DEFINE more == e > n
           last == e = n
           less == e < n
           here == Here(q) = "{"
           rx == [run EXCEPT !.parsed = x]
           ry == [run EXCEPT !.parsed = y]
           rz == [run EXCEPT !.parsed = z]
<1>12. rx.parsed = x /\ ry.parsed = y /\ rz.parsed = z
  BY <1>2
<1>13. t = CASE more -> rx [] last -> ry [] less /\ here -> rz [] OTHER -> d
  BY <1>1
<1>14. AtBrace(run, q, args, checking) = IF here THEN z ELSE d.parsed
  BY <1>3
<1>15. ~(more /\ last) /\ ~(more /\ less) /\ ~(last /\ less)
  BY <1>11
<1> HIDE DEF more, last, less, here, rx, ry, rz
<1>4. more => t.parsed = x
  BY <1>12, <1>13, <1>15
<1>5. last => t.parsed = y
  BY <1>12, <1>13, <1>15
<1>6. less => t.parsed = AtBrace(run, q, args, checking)
  BY <1>12, <1>13, <1>14, <1>15
<1> QED
  BY <1>4, <1>5, <1>6 DEF x, y, more, last, less, TurnsTo

\* A turn of the loop: the same text, the same '{' and the same field, or the same failure.
LEMMA TurnPair ==
  ASSUME NEW T, "end" \notin T, NEW rc, NEW rf, Running(rc), Running(rf), Pair(rc.parsed, rf.parsed),
         Same(rc.parsed, rf.parsed), rf.parsed.s \in Seq(T), NoNames(rf.parsed.s),
         ~(rf.parsed.at > Len(rf.parsed.s)), NEW args, Typed(args)
  PROVE  Pair(Turn(rc, args, TRUE).parsed, Turn(rf, args, FALSE).parsed)
<1> DEFINE c == rc.parsed
           f == rf.parsed
           s == f.s
           e == Brace(f)
           a == Behind(c)
           b == Behind(f)
           tc == Turn(rc, args, TRUE)
           tf == Turn(rf, args, FALSE)
<1>0. c.s = s /\ c.at = f.at /\ f.at \in Nat \ {0} /\ Pair(c, f) /\ s \in Seq(T) /\ Len(s) \in Nat
  BY LenProperties DEF Same
<1>1. Brace(c) = e
  <2> DEFINE chars == ToSet(s) \ {"{"}
  <2>1. Brace(c) = RunEnd(c, f.at, chars) /\ e = RunEnd(f, f.at, chars)
    BY <1>0 DEF Brace
  <2> HIDE DEF chars, e
  <2>2. RunEnd(c, f.at, chars) = RunEnd(f, f.at, chars)
    BY <1>0, SameRunEnd
  <2> QED
    BY <2>1, <2>2
<1>2. e \in Nat \ {0} /\ e + 1 \in Nat \ {0} /\ e <= Len(s) + 1 /\ (e <= Len(s) => CharAt(s, e) = "{")
  <2>1. f.at \in 1 .. Len(s) + 1
    BY <1>0
  <2> DEFINE chars == ToSet(s) \ {"{"}
  <2>2. "end" \notin chars /\ \A k \in 1 .. Len(s) : CharAt(s, k) \notin chars => CharAt(s, k) = "{"
    BY <1>0, NoEndInIt
  <2> HIDE DEF chars
  <2>3. EndsAt(f, f.at, RunEnd(f, f.at, chars), chars)
    BY <1>0, <2>1, <2>2, RunEnds
  <2>4. e = RunEnd(f, f.at, chars)
    BY DEF Brace, chars
  <2> HIDE DEF e
  <2>5. e \in f.at .. Len(s) + 1 /\ CharAt(s, e) \notin chars
    BY <2>3, <2>4 DEF EndsAt
  <2>6. e \in Nat \ {0} /\ e + 1 \in Nat \ {0} /\ e <= Len(s) + 1 /\ (e <= Len(s) => e \in 1 .. Len(s))
    BY <1>0, <2>5, Around
  <2> QED
    BY <2>2, <2>5, <2>6
<1>3. Pair(a, b) /\ b.at = e + 1 /\ b.s = s
  <2> DEFINE t == SubSeq(s, f.at, e - 1)
             d == CopyText(c, t)
             g == CopyText(f, t)
  <2>1. a = [d EXCEPT !.at = e + 1] /\ b = [g EXCEPT !.at = e + 1]
    BY <1>0, <1>1 DEF Behind
  <2> HIDE DEF t, e
  <2>2. Pair(d, g)
    BY <1>0, CopyTextPair
  <2> HIDE DEF d, g
  <2>4. Pair([d EXCEPT !.at = e + 1], [g EXCEPT !.at = e + 1])
    BY <1>2, <2>2, AtPair
  <2>5. Onward(f, b) /\ b.at = e + 1
    BY BehindOn DEF Running, e
  <2> QED
    BY <2>1, <2>4, <2>5 DEF Onward
<1> DEFINE n == Len(s)
<1>8. n = Len(c.s) /\ n = Len(f.s) /\ n \in Nat /\ e \in Nat
  BY <1>0, <1>2
<1>9. /\ e > n => tc.parsed = [a EXCEPT !.at = e]
      /\ e = n => tc.parsed = Fail(a, "invalid format string")
      /\ e < n => tc.parsed = AtBrace(rc, a, args, TRUE)
  <2> DEFINE checking == TRUE
  <2>1. c = rc.parsed /\ tc = Turn(rc, args, checking) /\ a = Behind(c)
    OBVIOUS
  <2>2. e = Brace(c) /\ n = Len(c.s) /\ n \in Nat /\ e \in Nat
    BY <1>1, <1>8
  <2> HIDE DEF e, n, tc, a, c, checking
  <2>3. TurnsTo(rc, c, e, n, args, checking, tc)
    BY <2>1, <2>2, TurnIs
  <2> QED
    BY <2>1, <2>3 DEF checking, TurnsTo
<1>10. /\ e > n => tf.parsed = [b EXCEPT !.at = e]
       /\ e = n => tf.parsed = Fail(b, "invalid format string")
       /\ e < n => tf.parsed = AtBrace(rf, b, args, FALSE)
  <2> DEFINE checking == FALSE
  <2>1. f = rf.parsed /\ tf = Turn(rf, args, checking) /\ b = Behind(f)
    OBVIOUS
  <2>2. e = Brace(f) /\ n = Len(f.s) /\ n \in Nat /\ e \in Nat
    BY <1>8
  <2> HIDE DEF e, n, tf, b, f, checking
  <2>3. TurnsTo(rf, f, e, n, args, checking, tf)
    BY <2>1, <2>2, TurnIs
  <2> QED
    BY <2>1, <2>3 DEF checking, TurnsTo
<1>11. e \in Nat \ {0} /\ (e < n => CharAt(s, e) = "{" /\ CharAt(s, e + 1) \notin NameStarts)
  <2>1. e \in Nat \ {0} /\ e <= n + 1 /\ (e <= n => CharAt(s, e) = "{")
    BY <1>2
  <2> HIDE DEF e, n
  <2>2. e < n => e <= n
    BY <1>8
  <2> QED
    BY <1>0, <2>1, <2>2, NoNameAfter
<1>12. b.s = s /\ b.at = e + 1
  BY <1>3
<1> HIDE DEF a, b, e, n, tc, tf
<1>4. CASE e > n
  <2>1. Pair([a EXCEPT !.at = e], [b EXCEPT !.at = e])
    BY <1>3, <1>11, AtPair
  <2> QED
    BY <1>4, <1>9, <1>10, <2>1 DEF tc, tf
<1>5. CASE e = n
  <2>1. Pair(Fail(a, "invalid format string"), Fail(b, "invalid format string"))
    BY <1>3, FailPair
  <2> QED
    BY <1>5, <1>9, <1>10, <2>1 DEF tc, tf
<1>6. CASE e < n
  <2>1. Here(b) \notin NameStarts /\ b.s \in Seq(T) /\ NoNames(b.s)
    BY <1>0, <1>6, <1>11, <1>12 DEF Here
  <2>2. Pair(AtBrace(rc, a, args, TRUE), AtBrace(rf, b, args, FALSE))
    BY <1>3, <2>1, AtBracePair
  <2> QED
    BY <1>6, <1>9, <1>10, <2>2 DEF tc, tf
<1>7. e > n \/ e = n \/ e < n
  BY <1>8
<1> QED
  BY <1>4, <1>5, <1>6, <1>7

LEMMA ParseNextPair ==
  ASSUME NEW T, "end" \notin T, NEW rc, NEW rf, Running(rc), Running(rf), Pair(rc.parsed, rf.parsed),
         rf.parsed.s \in Seq(T), NoNames(rf.parsed.s), NEW args, Typed(args)
  PROVE  Pair(ParseNext(rc, args, TRUE).parsed, ParseNext(rf, args, FALSE).parsed)
<1> DEFINE c == rc.parsed
           f == rf.parsed
           d == ParseNext(rc, args, TRUE)
           g == ParseNext(rf, args, FALSE)
           tc == Turn(rc, args, TRUE)
           tf == Turn(rf, args, FALSE)
<1>1. Onward(c, d.parsed) /\ Onward(f, g.parsed)
  BY ParseNextOn
<1>2. ASSUME Same(c, f)
      PROVE  Pair(d.parsed, g.parsed)
  <2> DEFINE over == f.at > Len(f.s)
  <2>1. c.s = f.s /\ c.at = f.at /\ c.error = "" /\ f.error = ""
    BY <1>2 DEF Same
  <2>2. d = IF over THEN rc ELSE tc
    BY <2>1, ParseNextIs
  <2>3. g = IF over THEN rf ELSE tf
    BY <2>1, ParseNextIs
  <2> HIDE DEF d, g
  <2>4. CASE over
    <3>1. d = rc /\ g = rf
      BY <2>2, <2>3, <2>4
    <3> QED
      BY <3>1
  <2>5. CASE ~over
    <3>1. Pair(tc.parsed, tf.parsed)
      BY <1>2, <2>5, TurnPair
    <3>2. d = tc /\ g = tf
      BY <2>2, <2>3, <2>5
    <3> HIDE DEF tc, tf
    <3> QED
      BY <3>1, <3>2
  <2> QED
    BY <2>4, <2>5
<1> HIDE DEF d, g, c, f
<1>3. Pair(d.parsed, g.parsed)
  BY <1>1, <1>2, PairOn DEF c, f
<1> QED
  BY <1>3 DEF d, g

\* r has the first n turns.
RunsUpTo(r, s, args, checking, n) ==
  r = [k \in 0 .. n |-> IF k = 0 THEN [parsed |-> Parsing(s), known |-> -1] ELSE ParseNext(r[k - 1], args, checking)]

LEMMA RunsExist ==
  ASSUME NEW s, NEW args, NEW checking, NEW n \in Nat
  PROVE  \E r : RunsUpTo(r, s, args, checking, n)
<1> DEFINE first == [parsed |-> Parsing(s), known |-> -1]
           next(run) == ParseNext(run, args, checking)
           S == {m \in Nat : \E r : RunsUpTo(r, s, args, checking, m)}
<1> HIDE DEF next, first
<1>0. \A r, m : RunsUpTo(r, s, args, checking, m) <=>
                  r = [k \in 0 .. m |-> IF k = 0 THEN first ELSE next(r[k - 1])]
  BY DEF RunsUpTo, next, first
<1>1. 0 \in S
  <2> DEFINE g == [k \in 0 .. 0 |-> first]
  <2>1. g = [k \in 0 .. 0 |-> IF k = 0 THEN first ELSE next(g[k - 1])]
    OBVIOUS
  <2> HIDE DEF g
  <2> QED
    BY <1>0, <2>1
<1>2. ASSUME NEW m \in S
      PROVE  m + 1 \in S
  <2>1. PICK r : r = [k \in 0 .. m |-> IF k = 0 THEN first ELSE next(r[k - 1])]
    BY <1>0, <1>2
  <2> DEFINE g == [k \in 0 .. m + 1 |-> IF k = m + 1 THEN next(r[m]) ELSE r[k]]
  <2>2. ASSUME NEW k \in 0 .. m + 1
        PROVE  g[k] = IF k = 0 THEN first ELSE next(g[k - 1])
    <3>1. CASE k = m + 1
      <4>1. k # 0 /\ k - 1 = m /\ m \in 0 .. m + 1 /\ m # m + 1
        BY <3>1
      <4> QED
        BY <3>1, <4>1
    <3>2. CASE k # m + 1
      <4>1. k \in 0 .. m /\ (k # 0 => k - 1 \in 0 .. m + 1 /\ k - 1 # m + 1 /\ k - 1 \in 0 .. m)
        BY <3>2
      <4>2. r[k] = IF k = 0 THEN first ELSE next(r[k - 1])
        BY <2>1, <4>1
      <4> QED
        BY <3>2, <4>1, <4>2
    <3> QED
      BY <3>1, <3>2
  <2>3. g = [k \in 0 .. m + 1 |-> IF k = 0 THEN first ELSE next(g[k - 1])]
    BY <2>2
  <2> HIDE DEF g
  <2>4. RunsUpTo(g, s, args, checking, m + 1)
    BY <1>0, <2>3
  <2> QED
    BY <2>4
<1> HIDE DEF S
<1>3. S = Nat
  <2>1. S \in SUBSET Nat
    BY DEF S
  <2> QED
    BY <1>1, <1>2, <2>1, SetInduction
<1> QED
  BY <1>3 DEF S

LEMMA RunsAre ==
  ASSUME NEW s, Len(s) \in Nat, NEW args, NEW checking
  PROVE  RunsUpTo(Runs(s, args, checking), s, args, checking, Len(s))
<1> DEFINE r == CHOOSE r : RunsUpTo(r, s, args, checking, Len(s))
<1>1. RunsUpTo(r, s, args, checking, Len(s))
  BY RunsExist
<1>2. Runs(s, args, checking) = r
  BY DEF Runs, RunsUpTo
<1> QED
  BY <1>1, <1>2

LEMMA StartPair ==
  ASSUME NEW s
  PROVE  /\ Running([parsed |-> Parsing(s), known |-> -1]) /\ Parsing(s).s = s
         /\ Pair(Parsing(s), Parsing(s))
<1> DEFINE p == Parsing(s)
<1>1. p.specs = DefaultSpecs /\ p.s = s /\ p.at = 1 /\ p.next = 0 /\ p.error = "" /\ p.id = 0 /\ p.name = << >>
  BY DEF Parsing
<1>2. SpecsShape(DefaultSpecs)
  BY DEF SpecsShape, DefaultSpecs
<1>3. Shape(p)
  BY <1>1, <1>2 DEF Parsing, Shape
<1> HIDE DEF p
<1>4. Same(p, p)
  <2>1. p.at \in Nat \ {0}
    <3>1. p.at = 1
      BY <1>1
    <3> QED
      BY <3>1
  <2>2. p.id \in Nat /\ p.next \in Int
    <3>1. p.id = 0 /\ p.next = 0
      BY <1>1
    <3> QED
      BY <3>1
  <2> QED
    BY <1>1, <2>1, <2>2 DEF Same
<1> QED
  BY <1>1, <1>3, <1>4, SamePair DEF Running, p

\* Every format string without named arguments that is refused when it is checked at
\* compile time (check_format_string) is refused when it is formatted (vformat_to), with
\* whatever values; and one that is not refused fails only for what checking cannot see: a
\* width or a precision that is an argument.  A turn of the loop for both.
THEOREM CheckingAgrees ==
  ASSUME NEW T, "end" \notin T, NEW s \in Seq(T), NEW args, Typed(args)
  PROVE  CheckAgrees(s, args)
<1> SUFFICES ASSUME NoNames(s)
             PROVE  /\ Checked(s, args).error # "" => Formatted(s, args).error # ""
                    /\ Checked(s, args).error = "" => Formatted(s, args).error \in DynamicErrors \cup {""}
  BY DEF CheckAgrees, ErrorsAgree, NoNames
<1> DEFINE n == Len(s)
           rc == Runs(s, args, TRUE)
           rf == Runs(s, args, FALSE)
           S == {m \in Nat : m <= n => /\ Running(rc[m]) /\ Running(rf[m]) /\ rf[m].parsed.s = s
                                       /\ Pair(rc[m].parsed, rf[m].parsed)}
<1>0. n \in Nat
  BY LenProperties
<1>1. RunsUpTo(rc, s, args, TRUE, n) /\ RunsUpTo(rf, s, args, FALSE, n)
  BY <1>0, RunsAre
<1> HIDE DEF rc, rf
<1>2. 0 \in S
  <2> DEFINE first == [parsed |-> Parsing(s), known |-> -1]
  <2>1. rc[0] = first /\ rf[0] = first
    <3> HIDE DEF n
    <3> QED
      BY <1>0, <1>1 DEF RunsUpTo
  <2>2. first.parsed = Parsing(s)
    OBVIOUS
  <2> HIDE DEF first
  <2>3. Running(first) /\ first.parsed.s = s /\ Pair(first.parsed, first.parsed)
    BY <2>2, StartPair DEF first
  <2> QED
    BY <2>1, <2>3
<1>3. ASSUME NEW m \in S
      PROVE  m + 1 \in S
  <2> SUFFICES ASSUME m + 1 <= n
               PROVE  /\ Running(rc[m + 1]) /\ Running(rf[m + 1]) /\ rf[m + 1].parsed.s = s
                      /\ Pair(rc[m + 1].parsed, rf[m + 1].parsed)
    OBVIOUS
  <2> HIDE DEF n
  <2>1. m + 1 \in 0 .. n /\ m + 1 # 0 /\ (m + 1) - 1 = m /\ m \in Nat /\ m <= n
    BY <1>0
  <2> DEFINE c == rc[m]
             f == rf[m]
  <2>2. Running(c) /\ Running(f) /\ f.parsed.s = s /\ Pair(c.parsed, f.parsed)
    BY <2>1
  <2>3. rc[m + 1] = ParseNext(c, args, TRUE)
    BY <1>1, <2>1 DEF RunsUpTo
  <2>4. rf[m + 1] = ParseNext(f, args, FALSE)
    BY <1>1, <2>1 DEF RunsUpTo
  <2> HIDE DEF c, f
  <2>5. Running(ParseNext(c, args, TRUE))
    BY <2>2, ParseNextOn
  <2>6. Running(ParseNext(f, args, FALSE)) /\ ParseNext(f, args, FALSE).parsed.s = s
    BY <2>2, ParseNextOn, ZenonT(60) DEF Onward
  <2>7. Pair(ParseNext(c, args, TRUE).parsed, ParseNext(f, args, FALSE).parsed)
    BY <2>2, ParseNextPair
  <2> QED
    BY <2>3, <2>4, <2>5, <2>6, <2>7
<1> HIDE DEF S
<1>4. S = Nat
  <2>1. S \in SUBSET Nat
    BY DEF S
  <2> QED
    BY <1>2, <1>3, <2>1, SetInduction
<1>5. Pair(rc[n].parsed, rf[n].parsed)
  BY <1>0, <1>4 DEF S
<1>6. Checked(s, args) = rc[n].parsed /\ Formatted(s, args) = rf[n].parsed
  BY DEF Checked, Formatted, ParseString, rc, rf
<1> DEFINE d == rc[n].parsed
           g == rf[n].parsed
<1> HIDE DEF d, g
<1>7. Agreeing(d, g)
  BY <1>5 DEF Pair, d, g
<1>8. (d.error # "" => g.error # "") /\ (d.error = "" => g.error \in DynamicErrors \cup {""})
  BY <1>7 DEF Agreeing, Same, DynamicErrors
<1> QED
  BY <1>6, <1>8 DEF d, g

-----------------------------------------------------------------------------
(* The formatting run: sinks, buffers and one input side by side.          *)

\* What is read of an input, for each kind that a property of patterns is about.
InputOK ==
  /\ input.kind = "items" => input.items \in Seq(WritableItems)
  /\ input.kind = "padding" => input.side \in Sides /\ input.width \in Nat /\ input.size \in Nat
  /\ input.kind = "fields" => input.time \in Int /\ input.since \in Int

LEMMA WrittenItemsWritable == WrittenItems \subseteq WritableItems
<1> SUFFICES ASSUME NEW item \in MCItems, item.flag \notin {"%", "q"}
             PROVE  item \in WritableItems
  BY DEF WrittenItems
<1>1. CASE item \in {Chars(<<"a">>), Chars(<<"%">>), Chars(<<"b", "%", "%">>)}
  <2>1. "a" \in AnyChar /\ "b" \in AnyChar /\ "%" \in AnyChar
    BY DEF AnyChar, KnownFlags
  <2>2. <<"a">> \in Seq(AnyChar) /\ <<"%">> \in Seq(AnyChar) /\ <<"b", "%", "%">> \in Seq(AnyChar)
    <3> DEFINE p == "%"
               a == "a"
               b == "b"
    <3>1. a \in AnyChar /\ b \in AnyChar /\ p \in AnyChar
      BY <2>1
    <3> HIDE DEF p, a, b
    <3>2. <<a>> \in Seq(AnyChar) /\ <<p>> \in Seq(AnyChar) /\ <<b, p, p>> \in Seq(AnyChar)
      BY <3>1
    <3> QED
      BY <3>2 DEF p, a, b
  <2> QED
    BY <1>1, <2>2 DEF WritableItems
<1>2. CASE item \notin {Chars(<<"a">>), Chars(<<"%">>), Chars(<<"b", "%", "%">>)}
  <2>1. PICK flag \in {"l", "%", "q"}, side \in {"left", "center"}, width \in {0, 8, 70, 1003} :
           item = Item(flag, side, width, << >>)
    BY <1>2 DEF MCItems
  <2>2. item = [flag |-> flag, side |-> side, width |-> width, text |-> << >>]
    BY <2>1 DEF Item
  <2>3. flag = "l" /\ flag \in KnownFlags \ {"%"}
    BY <2>2 DEF KnownFlags
  <2>4. side \in Sides /\ width \in Nat
    BY DEF Sides
  <2> QED
    BY <2>2, <2>3, <2>4 DEF WritableItems, FlagItems
<1> QED
  BY <1>1, <1>2

LEMMA TextInputsRead ==
  ASSUME ReadText
  PROVE  InputOK'
<1>0. input' \in TextInputs
  BY DEF ReadText
<1>1. CASE input' \in [kind : {"items"}, items : Upto(3, WrittenItems)]
  <2>1. input'.kind = "items" /\ input'.items \in Upto(3, WrittenItems)
    BY <1>1
  <2>2. PICK k \in 0 .. 3 : input'.items \in [1 .. k -> WrittenItems]
    BY <2>1 DEF Upto
  <2>3. input'.items \in Seq(WritableItems)
    BY <2>2, WrittenItemsWritable, SeqDef
  <2> QED
    BY <2>1, <2>3 DEF InputOK
<1>2. CASE input' \in [kind : {"padding"}, side : {"left", "center", "right"}, width : 0 .. 6, size : 0 .. 6]
  <2>1. input'.kind = "padding" /\ input'.side \in Sides /\ input'.width \in Nat /\ input'.size \in Nat
    BY <1>2 DEF Sides
  <2> QED
    BY <2>1 DEF InputOK
<1>3. CASE input' \in [kind : {"fields"}, tm : 0 .. 2, since : 0 .. 4, time : 0 .. 4]
  <2>1. input'.kind = "fields" /\ input'.time \in Int /\ input'.since \in Int
    BY <1>3
  <2> QED
    BY <2>1 DEF InputOK
<1>4. CASE /\ input' \notin [kind : {"items"}, items : Upto(3, WrittenItems)]
           /\ input' \notin [kind : {"padding"}, side : {"left", "center", "right"}, width : 0 .. 6, size : 0 .. 6]
           /\ input' \notin [kind : {"fields"}, tm : 0 .. 2, since : 0 .. 4, time : 0 .. 4]
  <2>1. ASSUME NEW i \in ParserInputs
        PROVE  i.kind \in {"pieces", "string", "duration"}
    BY DEF ParserInputs
  <2>2. input' \in ParserInputs
    BY <1>0, <1>4 DEF TextInputs
  <2> QED
    BY <2>1, <2>2 DEF InputOK
<1> QED
  BY <1>1, <1>2, <1>3, <1>4

LEMMA ValueInputsRead ==
  ASSUME WriteValue
  PROVE  InputOK'
<1>1. input' \in ValueInputs
  BY DEF WriteValue
<1>2. input'.kind \in {"int", "padded", "conversion", "time"}
  BY <1>1 DEF ValueInputs
<1> QED
  BY <1>2 DEF InputOK

\* The run's invariant: those of the parts, which do not touch one another.
FormattingInv == ColourInv /\ BufferInv /\ InputOK

LEMMA FormattingInvNext == FormattingInv /\ [FormattingNext]_<<Others, colourVars, bufferVars>> => FormattingInv'
<1> SUFFICES ASSUME FormattingInv, [FormattingNext]_<<Others, colourVars, bufferVars>>
             PROVE  FormattingInv'
  OBVIOUS
<1>1. [ColourNext]_colourVars /\ [BufferNext]_bufferVars
  BY DEF FormattingNext
<1>2. ColourInv' /\ BufferInv'
  BY <1>1, ColourInvNext, BufferInvNext DEF FormattingInv
<1>3. UNCHANGED Others => InputOK'
  BY DEF FormattingInv, InputOK, Others
<1>4. ReadText \/ WriteValue => InputOK'
  BY TextInputsRead, ValueInputsRead
<1>5. InputOK'
  BY <1>3, <1>4 DEF FormattingNext
<1> QED
  BY <1>2, <1>5 DEF FormattingInv

LEMMA FormattingInvariant == FormattingSpec => []FormattingInv
<1>1. FormattingInit => FormattingInv
  <2> SUFFICES ASSUME FormattingInit
               PROVE  FormattingInv
    OBVIOUS
  <2>1. ColourInv /\ BufferInv
    BY ColourInvInit, BufferInitHolds DEF FormattingInit
  <2>2. InputOK
    BY DEF FormattingInit, InputOK
  <2> QED
    BY <2>1, <2>2 DEF FormattingInv
<1> QED
  BY <1>1, FormattingInvNext, PTL DEF FormattingSpec

\* Every line is what its pattern says: what a pattern compiles to, what fields tell the
\* padder and how they are padded, and the times, elapsed times and colour ranges of the
\* lines that the sinks print (pattern_formatter, ansicolor_sink).
THEOREM LinesAreTrue == FormattingSpec => []LinesTrue
<1>1. FormattingInv => LinesTrue
  <2> SUFFICES ASSUME FormattingInv
               PROVE  LinesTrue
    OBVIOUS
  <2>1. TimesTrue /\ ElapsedAddUp /\ OwnRangeFits
    BY ColoursAddUp DEF FormattingInv, ColourInv
  <2>2. input.kind = "items" => CompilesTo(input.items)
    BY PatternsAreRead DEF FormattingInv, InputOK
  <2>3. input.kind = "padding" => PadsTo(input.side, input.width, input.size)
    BY FieldsArePadded DEF FormattingInv, InputOK
  <2>4. ASSUME input.kind = "fields"
        PROVE  SizesTold(MCMessage(input.time), input.tm, input.since)
    <3>1. MCMessage(input.time).time = input.time
      BY DEF MCMessage
    <3> QED
      BY <2>4, <3>1, SizesAreTold DEF FormattingInv, InputOK
  <2> QED
    BY <2>1, <2>2, <2>3, <2>4 DEF LinesTrue
<1> QED
  BY <1>1, FormattingInvariant, PTL

-----------------------------------------------------------------------------
(* The values of the run.                                                  *)

InputGiven == input = [kind |-> "none"] \/ input \in TextInputs \/ input \in ValueInputs

LEMMA InputsGiven == FormattingSpec => []InputGiven
<1>1. FormattingInit => InputGiven
  BY DEF FormattingInit, InputGiven
<1>2. InputGiven /\ [FormattingNext]_<<Others, colourVars, bufferVars>> => InputGiven'
  BY SMTT(30) DEF InputGiven, FormattingNext, ReadText, WriteValue, Others
<1> QED
  BY <1>1, <1>2, PTL DEF FormattingSpec

\* An instance whose words have at least 12 bits.
LEMMA WideWords ==
  ASSUME WordBits >= 12
  PROVE  -2048 .. 2047 \subseteq WordValues
<1>1. WordBits \in Nat /\ WordBits - 1 \in Nat /\ 11 \in 0 .. WordBits - 1
  BY FormatValueAssumption
<1>2. TwoTo[11] = 2048
  <2>1. TwoTo[4] = 16
    BY SmallPowers
  <2>2. /\ TwoTo[5] = 2 * TwoTo[4] /\ TwoTo[6] = 2 * TwoTo[5] /\ TwoTo[7] = 2 * TwoTo[6] /\ TwoTo[8] = 2 * TwoTo[7]
        /\ TwoTo[9] = 2 * TwoTo[8] /\ TwoTo[10] = 2 * TwoTo[9] /\ TwoTo[11] = 2 * TwoTo[10]
    BY PowersAre
  <2> QED
    BY <2>1, <2>2
<1>3. TwoTo[11] <= TwoTo[WordBits - 1]
  BY <1>1, PowersGrow
<1> DEFINE half == TwoTo[WordBits - 1]
<1>4. half \in Nat /\ 2048 <= half /\ Word = 2 * half
  BY <1>2, <1>3, WordIs
<1>5. WordValues = (0 - half) .. (Word - 1)
  BY DEF WordValues
<1> HIDE DEF half
<1> QED
  BY <1>4, <1>5

PaddedChars == {"a", "b", "c", "1", ".", "5"}

LEMMA PaddedArgs ==
  ASSUME WordBits >= 12, NEW arg \in MCPadded
  PROVE  ArgOK(arg, PaddedChars)
<1>1. -42 \in WordValues /\ 255 \in WordValues /\ 5 \in WordValues
  BY WideWords
<1>2. CASE arg \in {Arg("int", -42), Arg("pointer", 255)}
  BY <1>1, <1>2 DEF ArgOK, IntTypes, Arg
<1>3. CASE arg = [type |-> "char", value |-> 5, char |-> "c"]
  BY <1>1, <1>3 DEF ArgOK, IntTypes, PaddedChars
<1>4. CASE arg = [type |-> "string", text |-> <<"a", "b", "c">>]
  <2>1. <<"a", "b", "c">> \in Seq(PaddedChars)
    BY DEF PaddedChars
  <2> QED
    BY <1>4, <2>1 DEF ArgOK, IntTypes
<1>5. CASE arg \in [type : {"double"}, negative : BOOLEAN, finite : BOOLEAN, text : {<<"1", ".", "5">>}]
  <2>1. <<"1", ".", "5">> \in Seq(PaddedChars)
    BY DEF PaddedChars
  <2>2. arg.type = "double" /\ arg.negative \in BOOLEAN /\ arg.finite \in BOOLEAN /\ arg.text = <<"1", ".", "5">>
    BY <1>5
  <2> QED
    BY <2>1, <2>2 DEF ArgOK, IntTypes
<1> QED
  BY <1>2, <1>3, <1>4, <1>5 DEF MCPadded

\* Every value of the run is written so that it can be read back, its digits grouped,
\* and padded as asked for (basic_writer), in words of 12 bits or more.
THEOREM ValuesAreWritten == ASSUME WordBits >= 12 PROVE FormattingSpec => []ValuesWritten
<1>1. InputGiven => ValuesWritten
  <2> SUFFICES ASSUME InputGiven
               PROVE  ValuesWritten
    OBVIOUS
  <2>1. ASSUME input.kind = "int"
        PROVE  ReadsBack(input.value, input.specs) /\ Grouped(input.value)
    <3>1. input \in [kind : {"int"}, value : MCValues, specs : MCSpecs]
      BY <2>1 DEF InputGiven, TextInputs, ParserInputs, ValueInputs
    <3>2. input.value \in MCValues /\ input.specs \in MCSpecs
      BY <3>1
    <3>3. input.value \in WordValues
      BY <3>2, WideWords DEF MCValues
    <3> DEFINE fills == {" ", "0"}
    <3>4. MCSpecs = [fill : fills, align : {"default", "center", "numeric"},
                     flags : {{}, {"SIGN"}, {"SIGN", "PLUS"}, {"HASH"}},
                     width : {0, 9}, precision : {-1, 3, 6}, type : {"none", "d", "x", "X", "b", "o", "n"}]
      BY Zenon DEF MCSpecs
    <3> HIDE DEF fills
    <3>5. input.specs \in WriteSpecs(fills)
      BY <3>2, <3>4 DEF WriteSpecs, Alignments, Flags, IntSpecs
    <3> QED
      BY <3>3, <3>5, IntegersReadBack, GroupedInThrees
  <2>2. ASSUME input.kind = "padded"
        PROVE  PadsOnly(input.arg, input.specs)
    <3> DEFINE Specs == [fill : {"*"}, align : {"default", "left", "right", "center"}, flags : {{}, {"SIGN"}},
                         width : 0 .. 6, precision : {-1, 2}, type : {"none"}]
    <3>1. input \in [kind : {"padded"}, arg : MCPadded, specs : Specs]
      BY <2>2 DEF InputGiven, TextInputs, ParserInputs, ValueInputs
    <3>2. input.arg \in MCPadded /\ input.specs \in Specs
      BY <3>1
    <3>3. input.specs \in PadSpecs({"*"}, {"none"}) /\ input.specs.type = "none"
      BY <3>2 DEF PadSpecs, Alignments, Flags
    <3>4. ArgOK(input.arg, PaddedChars)
      BY <3>2, PaddedArgs
    <3>5. ArgFits(input.arg, input.specs)
      BY <3>3 DEF ArgFits, IntSpecs
    <3> QED
      BY <3>3, <3>4, <3>5, ArgsArePadded
  <2> QED
    BY <2>1, <2>2, Zenon DEF ValuesWritten
<1> QED
  BY <1>1, InputsGiven, PTL
=============================================================================
