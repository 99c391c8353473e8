---------------------------- MODULE FfiMemoryProofs ----------------------------
(***************************************************************************)
(* What the operators of FfiMemory return, preserve and need, for heaps    *)
(* of any size: the lemmas that the proofs about the programs rest on,     *)
(* GoBufferProofs, AbiClientProofs and BridgeProofs.                       *)
(*                                                                         *)
(* The contract of a value is BufferFits or StringFits: its fields         *)
(* describe the block it points to, or it points to none.  What allocates  *)
(* a value Allocates it fits afterwards; what is given a value that fits   *)
(* may read it, and Frees exactly its block.                               *)
(***************************************************************************)
EXTENDS FfiMemory, TLAPS

-----------------------------------------------------------------------------
(***************************************************************************)
(* Byte strings.                                                           *)
(***************************************************************************)

\* Byte strings are sequences of at most MaxSize bytes, and conversely.
LEMMA StringFacts ==
  ASSUME MemoryAssumption, NEW s \in Strings
  PROVE  s \in Seq(Bytes) /\ Len(s) \in 0 .. MaxSize /\ DOMAIN s = 1 .. Len(s)
<1>1. PICK n \in 0 .. MaxSize : s \in [1 .. n -> Bytes]
  BY DEF Strings
<1> QED BY <1>1, MemoryAssumption DEF MemoryAssumption

\* Conversely, a sequence of at most MaxSize bytes is one.
LEMMA SeqIsString ==
  ASSUME MemoryAssumption, NEW s \in Seq(Bytes), Len(s) <= MaxSize
  PROVE  s \in Strings
<1>1. Len(s) \in 0 .. MaxSize /\ s \in [1 .. Len(s) -> Bytes]
  BY MemoryAssumption DEF MemoryAssumption
<1> QED BY <1>1 DEF Strings

\* The two constant strings of the model.
LEMMA ShortStrings ==
  ASSUME MemoryAssumption
  PROVE  /\ <<>> \in Strings /\ Len(<<>>) = 0
         /\ <<"text">> \in Strings /\ Len(<<"text">>) = 1 /\ <<"text">> # <<>>
         /\ IsUtf8(<<>>) /\ IsUtf8(<<"text">>)
<1>1. <<>> \in Seq(Bytes) /\ <<"text">> \in Seq(Bytes)
  BY DEF Bytes
<1>2. Len(<<>>) <= MaxSize /\ Len(<<"text">>) <= MaxSize
  BY MemoryAssumption DEF MemoryAssumption
<1>3. <<>> \in Strings /\ <<"text">> \in Strings
  BY <1>1, <1>2, SeqIsString, MemoryAssumption
<1>4. Len(<<>>) = 0 /\ Len(<<"text">>) = 1 /\ <<"text">> # <<>>
  OBVIOUS
<1>5. IsUtf8(<<>>) /\ IsUtf8(<<"text">>)
  BY DEF IsUtf8
<1> QED BY <1>3, <1>4, <1>5

\* Only the empty string has length 0.
LEMMA EmptyString ==
  ASSUME MemoryAssumption, NEW s \in Strings
  PROVE  Len(s) = 0 <=> s = <<>>
BY StringFacts, MemoryAssumption

\* A prefix of a string is a string, of its text text, and the longest prefix
\* is the string itself.
LEMMA PrefixFacts ==
  ASSUME MemoryAssumption, NEW s \in Strings, NEW n \in Nat, n <= Len(s)
  PROVE  /\ SubSeq(s, 1, n) \in Strings
         /\ Len(SubSeq(s, 1, n)) = n
         /\ IsUtf8(s) => IsUtf8(SubSeq(s, 1, n))
         /\ n = Len(s) => SubSeq(s, 1, n) = s
<1>1. s \in Seq(Bytes) /\ Len(s) \in 0 .. MaxSize /\ DOMAIN s = 1 .. Len(s)
  BY StringFacts, MemoryAssumption
<1>2. /\ SubSeq(s, 1, n) \in Seq(Bytes)
      /\ Len(SubSeq(s, 1, n)) = n
      /\ \A i \in 1 .. n : SubSeq(s, 1, n)[i] = s[i]
  BY <1>1, MemoryAssumption DEF MemoryAssumption
<1>3. SubSeq(s, 1, n) \in Strings
  <2>1. Len(SubSeq(s, 1, n)) <= MaxSize
    BY <1>1, <1>2, MemoryAssumption DEF MemoryAssumption
  <2> QED BY <1>2, <2>1, SeqIsString, MemoryAssumption
<1>4. IsUtf8(s) => IsUtf8(SubSeq(s, 1, n))
  <2>1. DOMAIN SubSeq(s, 1, n) = 1 .. n
    BY <1>2
  <2>2. 1 .. n \subseteq 1 .. Len(s)
    BY <1>1, MemoryAssumption DEF MemoryAssumption
  <2> QED BY <1>1, <1>2, <2>1, <2>2 DEF IsUtf8
<1>5. n = Len(s) => SubSeq(s, 1, n) = s
  BY <1>1
<1> QED BY <1>2, <1>3, <1>4, <1>5

\* What is read through a bad pointer still is some string.
LEMMA RawIsString ==
  ASSUME MemoryAssumption, NEW n \in 0 .. MaxSize
  PROVE  [i \in 1 .. n |-> "raw"] \in Strings
BY DEF Strings, Bytes

-----------------------------------------------------------------------------
(***************************************************************************)
(* Heaps and the values that point into them.                              *)
(***************************************************************************)
Heaps == [Blocks -> [live : BOOLEAN, size : 0 .. MaxSize, bytes : Strings]]

Addresses == Blocks \cup {Null, Dangling}

BufferType == [data : Addresses, len : 0 .. MaxSize, capacity : 0 .. MaxSize]

StringType == [data : Addresses, len : 0 .. MaxSize]

\* The fields describe the block, or there is none.
BufferFits(h, buf) ==
  \/ buf.data \notin Blocks /\ buf.len = 0 /\ buf.capacity = 0
  \/ /\ buf.data \in Blocks
     /\ h[buf.data].live /\ h[buf.data].size = buf.capacity
     /\ buf.capacity # 0 /\ buf.len <= Len(h[buf.data].bytes)

StringFits(h, str) ==
  \/ str = NullString
  \/ /\ str.data \in Blocks
     /\ h[str.data].live /\ h[str.data].size = str.len
     /\ str.len # 0 /\ str.len <= Len(h[str.data].bytes)
     /\ IsUtf8(h[str.data].bytes)

\* An allocation of ptr, which is block b if anything was allocated.
Allocates(h, b, new, ptr) ==
  /\ new \in Heaps
  /\ \A x \in Blocks : x # b => new[x] = h[x]
  /\ ptr \in Blocks => ptr = b /\ new[b].live
  /\ ptr \notin Blocks => new = h

\* A deallocation of ptr, if it is a block.
Frees(h, new, ptr) ==
  /\ new \in Heaps
  /\ \A x \in Blocks : x # ptr => new[x] = h[x]
  /\ ptr \in Blocks => new[ptr] = Unallocated

\* The empty heap.
LEMMA EmptyHeap ==
  ASSUME MemoryAssumption
  PROVE  Unallocated \in [live : BOOLEAN, size : 0 .. MaxSize, bytes : Strings]
BY ShortStrings, MemoryAssumption DEF Unallocated, MemoryAssumption

\* An allocation changes its block alone.
LEMMA AllocateFacts ==
  ASSUME NEW h \in Heaps, NEW b \in Blocks, NEW size \in 0 .. MaxSize,
         NEW bytes \in Strings
  PROVE  /\ Allocate(h, b, size, bytes) \in Heaps
         /\ Allocate(h, b, size, bytes)[b]
              = [live |-> TRUE, size |-> size, bytes |-> bytes]
         /\ \A x \in Blocks : x # b => Allocate(h, b, size, bytes)[x] = h[x]
BY DEF Heaps, Allocate

\* AsSlice case by case.
LEMMA AsSliceCases ==
  ASSUME NEW h, NEW buf
  PROVE  /\ buf.data = Null \/ buf.len = 0 => AsSlice(h, buf) = <<>>
         /\ ~(buf.data = Null \/ buf.len = 0) /\ ~Readable(h, buf)
              => AsSlice(h, buf) = [i \in 1 .. buf.len |-> "raw"]
         /\ ~(buf.data = Null \/ buf.len = 0) /\ Readable(h, buf)
              => AsSlice(h, buf) = SubSeq(h[buf.data].bytes, 1, buf.len)
<1> DEFINE Empty == buf.data = Null \/ buf.len = 0
<1> HIDE DEF Empty
<1>1. AsSlice(h, buf) = CASE Empty -> <<>>
                          [] ~Readable(h, buf) -> [i \in 1 .. buf.len |-> "raw"]
                          [] OTHER -> SubSeq(h[buf.data].bytes, 1, buf.len)
  BY DEF AsSlice, Empty
<1>2. Empty => Readable(h, buf)
  BY DEF Empty, Readable
<1> QED BY <1>1, <1>2, Zenon DEF Empty

\* Writing to a block changes its bytes alone.
LEMMA Overwrite ==
  ASSUME NEW h \in Heaps, NEW b \in Blocks, NEW bytes
  PROVE  [h EXCEPT ![b].bytes = bytes]
           = [h EXCEPT ![b] = [live |-> h[b].live, size |-> h[b].size, bytes |-> bytes]]
<1> DEFINE block == [live |-> h[b].live, size |-> h[b].size, bytes |-> bytes]
<1>1. [h[b] EXCEPT !.bytes = bytes] = block
  BY DEF Heaps
<1>2. [h EXCEPT ![b].bytes = bytes] = [h EXCEPT ![b] = [h[b] EXCEPT !.bytes = bytes]]
  BY DEF Heaps
<1> HIDE DEF block
<1> QED BY <1>1, <1>2 DEF block

\* The pointers that are not blocks.
LEMMA NoBlock ==
  ASSUME MemoryAssumption
  PROVE  /\ Null \notin Blocks /\ Dangling \notin Blocks /\ Null # Dangling
         /\ NullBuffer \in BufferType /\ NullString \in StringType
         /\ \A h : BufferFits(h, NullBuffer) /\ StringFits(h, NullString)
BY DEF MemoryAssumption, NullBuffer, NullString, BufferType, StringType,
   Addresses, BufferFits, StringFits

-----------------------------------------------------------------------------
(***************************************************************************)
(* Allocation.                                                             *)
(***************************************************************************)

\* FfiBuffer::new gives a buffer that fits, and none for capacity 0.
LEMMA BufferNewFacts ==
  ASSUME MemoryAssumption, NEW h \in Heaps, NEW b \in Blocks,
         NEW capacity \in 0 .. MaxSize
  PROVE  LET out == BufferNew(h, b, capacity) IN
         /\ Allocates(h, b, out.heap, out.val.data)
         /\ out.val \in BufferType
         /\ BufferFits(out.heap, out.val)
<1>1. CASE capacity = 0
  BY <1>1, NoBlock DEF BufferNew, Allocates, NullBuffer
<1>2. CASE capacity # 0
  <2> DEFINE out == BufferNew(h, b, capacity)
  <2>1. /\ out.heap = Allocate(h, b, capacity, <<>>)
        /\ out.val = [data |-> b, len |-> 0, capacity |-> capacity]
    BY <1>2 DEF BufferNew
  <2>2. /\ out.heap \in Heaps
        /\ out.heap[b] = [live |-> TRUE, size |-> capacity, bytes |-> <<>>]
        /\ \A x \in Blocks : x # b => out.heap[x] = h[x]
    BY <2>1, ShortStrings, AllocateFacts, MemoryAssumption
  <2> HIDE DEF out
  <2>3. /\ Allocates(h, b, out.heap, out.val.data)
        /\ out.val \in BufferType
        /\ BufferFits(out.heap, out.val)
    BY <1>2, <2>1, <2>2, ShortStrings, MemoryAssumption
    DEF Allocates, BufferType, Addresses, BufferFits, MemoryAssumption
  <2> QED BY <2>3 DEF out
<1> QED BY <1>1, <1>2

\* from_vec keeps the bytes, and every capacity that shrink_to_fit may leave
\* has room for them.
LEMMA BufferFromVecFacts ==
  ASSUME MemoryAssumption, NEW h \in Heaps, NEW b \in Blocks,
         NEW bytes \in Strings, NEW capacity \in Shrunk(bytes)
  PROVE  LET out == BufferFromVec(h, b, bytes, capacity) IN
         /\ Allocates(h, b, out.heap, out.val.data)
         /\ out.val \in BufferType
         /\ BufferFits(out.heap, out.val)
         /\ AsSlice(out.heap, out.val) = bytes
<1>1. CASE bytes = <<>>
  BY <1>1, NoBlock, AsSliceCases, MemoryAssumption
  DEF BufferFromVec, Allocates, BufferType, Addresses, BufferFits, MemoryAssumption
<1>2. CASE bytes # <<>>
  <2>1. Len(bytes) \in 1 .. MaxSize /\ capacity \in 1 .. MaxSize
    BY <1>2, StringFacts, EmptyString, MemoryAssumption DEF Shrunk, MemoryAssumption
  <2>2. SubSeq(bytes, 1, Len(bytes)) = bytes
    BY StringFacts, PrefixFacts, MemoryAssumption
  <2> QED
    <3> DEFINE out == BufferFromVec(h, b, bytes, capacity)
    <3>1. /\ out.heap = Allocate(h, b, capacity, bytes)
          /\ out.val = [data |-> b, len |-> Len(bytes), capacity |-> capacity]
      BY <1>2 DEF BufferFromVec
    <3>2. /\ out.heap \in Heaps
          /\ out.heap[b] = [live |-> TRUE, size |-> capacity, bytes |-> bytes]
          /\ \A x \in Blocks : x # b => out.heap[x] = h[x]
      BY <2>1, <3>1, AllocateFacts, MemoryAssumption DEF MemoryAssumption
    <3> HIDE DEF out
    <3>3. /\ Allocates(h, b, out.heap, out.val.data)
          /\ out.val \in BufferType
          /\ BufferFits(out.heap, out.val)
      BY <2>1, <3>1, <3>2, MemoryAssumption
      DEF Allocates, BufferType, Addresses, BufferFits, MemoryAssumption
    <3>4. AsSlice(out.heap, out.val) = bytes
      <4>1. ~(out.val.data = Null \/ out.val.len = 0) /\ Readable(out.heap, out.val)
        BY <2>1, <3>1, <3>2, NoBlock, MemoryAssumption DEF Readable
      <4> QED BY <2>2, <3>1, <3>2, <4>1, AsSliceCases
    <3> QED BY <3>3, <3>4 DEF out
<1> QED BY <1>1, <1>2

\* FfiString::new gives a string that fits, and none for no bytes.
LEMMA StringNewFacts ==
  ASSUME MemoryAssumption, NEW h \in Heaps, NEW b \in Blocks,
         NEW bytes \in Strings, IsUtf8(bytes)
  PROVE  LET out == StringNew(h, b, bytes) IN
         /\ Allocates(h, b, out.heap, out.val.data)
         /\ out.val \in StringType
         /\ StringFits(out.heap, out.val)
<1>1. CASE bytes = <<>>
  BY <1>1, NoBlock DEF StringNew, Allocates, NullString
<1>2. CASE bytes # <<>>
  <2>1. Len(bytes) \in 1 .. MaxSize
    BY <1>2, StringFacts, EmptyString, MemoryAssumption DEF MemoryAssumption
  <2> QED
    <3> DEFINE out == StringNew(h, b, bytes)
    <3>1. /\ out.heap = Allocate(h, b, Len(bytes), bytes)
          /\ out.val = [data |-> b, len |-> Len(bytes)]
      BY <1>2 DEF StringNew
    <3>2. /\ out.heap \in Heaps
          /\ out.heap[b] = [live |-> TRUE, size |-> Len(bytes), bytes |-> bytes]
          /\ \A x \in Blocks : x # b => out.heap[x] = h[x]
      BY <2>1, <3>1, AllocateFacts, MemoryAssumption DEF MemoryAssumption
    <3> HIDE DEF out
    <3>3. /\ Allocates(h, b, out.heap, out.val.data)
          /\ out.val \in StringType
          /\ StringFits(out.heap, out.val)
      BY <2>1, <3>1, <3>2, MemoryAssumption
      DEF Allocates, StringType, Addresses, StringFits, MemoryAssumption
    <3> QED BY <3>3 DEF out
<1> QED BY <1>1, <1>2

\* An error result always has a message, in a block of its own.
LEMMA ResultErrFacts ==
  ASSUME MemoryAssumption, NEW h \in Heaps, NEW b \in Blocks, NEW error
  PROVE  LET out == ResultErr(h, b, error) IN
         /\ Allocates(h, b, out.heap, out.val.error_message.data)
         /\ out.val.error_message.data = b
         /\ out.val.error_message \in StringType
         /\ StringFits(out.heap, out.val.error_message)
         /\ out.val = [error_code    |-> Code(error),
                       error_message |-> out.val.error_message,
                       payload       |-> NullBuffer]
<1>1. Message \in Strings /\ IsUtf8(Message) /\ Message # <<>>
  BY ShortStrings, MemoryAssumption DEF Message
<1> QED BY <1>1, StringNewFacts, MemoryAssumption DEF ResultErr, StringNew

\* FromBytes makes a Buffer of just the bytes; of none, the null buffer.
LEMMA FromBytesFacts ==
  ASSUME MemoryAssumption, NEW h \in Heaps, NEW b \in Blocks,
         NEW data \in Strings
  PROVE  LET out == FromBytes(h, b, data) IN
         /\ Allocates(h, b, out.heap, out.val.data)
         /\ out.val \in BufferType
         /\ BufferFits(out.heap, out.val)
         /\ AsSlice(out.heap, out.val) = data
         /\ IF data = <<>> THEN out.val = NullBuffer
            ELSE /\ out.val = [data |-> b, len |-> Len(data), capacity |-> Len(data)]
                 /\ out.heap[b] = [live |-> TRUE, size |-> Len(data), bytes |-> data]
<1>1. CASE data = <<>>
  BY <1>1, ShortStrings, NoBlock, AsSliceCases, MemoryAssumption
  DEF FromBytes, BufferNew, Allocates, NullBuffer
<1>2. CASE data # <<>>
  <2> DEFINE out == FromBytes(h, b, data)
  <2>1. Len(data) \in 1 .. MaxSize
    BY <1>2, StringFacts, EmptyString, MemoryAssumption DEF MemoryAssumption
  <2>2. SubSeq(data, 1, Len(data)) = data
    BY StringFacts, PrefixFacts, MemoryAssumption
  <2>3. out.val = [data |-> b, len |-> Len(data), capacity |-> Len(data)]
    BY <1>2, <2>1 DEF FromBytes, BufferNew
  <2>4. /\ out.heap \in Heaps
        /\ out.heap[b] = [live |-> TRUE, size |-> Len(data), bytes |-> data]
        /\ \A x \in Blocks : x # b => out.heap[x] = h[x]
    <3> DEFINE new == Allocate(h, b, Len(data), <<>>)
    <3>1. /\ new \in Heaps
          /\ new[b] = [live |-> TRUE, size |-> Len(data), bytes |-> <<>>]
          /\ \A x \in Blocks : x # b => new[x] = h[x]
      BY <2>1, ShortStrings, AllocateFacts, MemoryAssumption DEF MemoryAssumption
    <3>2. out.heap = [new EXCEPT ![b].bytes = data]
      BY <1>2, <2>1 DEF FromBytes, BufferNew
    <3> DEFINE block == [live |-> TRUE, size |-> Len(data), bytes |-> data]
    <3> HIDE DEF out, new
    <3>3. block \in [live : BOOLEAN, size : 0 .. MaxSize, bytes : Strings]
      BY <2>1, MemoryAssumption DEF MemoryAssumption
    <3>4. new[b].live = TRUE /\ new[b].size = Len(data)
      BY <3>1
    <3>5. out.heap = [new EXCEPT ![b] = block]
      BY <3>1, <3>2, <3>4, Overwrite
    <3> HIDE DEF block
    <3>6. out.heap \in Heaps /\ out.heap[b] = block
      BY <3>1, <3>3, <3>5 DEF Heaps
    <3>7. \A x \in Blocks : x # b => out.heap[x] = h[x]
      BY <3>1, <3>5 DEF Heaps
    <3> QED BY <3>6, <3>7 DEF block
  <2> HIDE DEF out
  <2>5. /\ Allocates(h, b, out.heap, out.val.data)
        /\ out.val \in BufferType
        /\ BufferFits(out.heap, out.val)
    BY <2>1, <2>3, <2>4, MemoryAssumption
    DEF Allocates, BufferType, Addresses, BufferFits, MemoryAssumption
  <2>6. AsSlice(out.heap, out.val) = data
    <3>1. ~(out.val.data = Null \/ out.val.len = 0) /\ Readable(out.heap, out.val)
      BY <2>1, <2>3, <2>4, NoBlock, MemoryAssumption DEF Readable
    <3> QED BY <2>2, <2>3, <2>4, <3>1, AsSliceCases
  <2> QED BY <1>2, <2>3, <2>4, <2>5, <2>6 DEF out
<1> QED BY <1>1, <1>2

-----------------------------------------------------------------------------
(***************************************************************************)
(* Reading.                                                                *)
(***************************************************************************)

\* A buffer that fits is read within its block.
LEMMA FitsIsReadable ==
  ASSUME NEW h, NEW buf, BufferFits(h, buf)
  PROVE  Readable(h, buf)
BY DEF BufferFits, Readable

\* The same for a string.
LEMMA FitsIsReadableString ==
  ASSUME NEW h, NEW str, StringFits(h, str)
  PROVE  Readable(h, AsStr(str))
BY DEF StringFits, Readable, AsStr, NullString

\* What a slice covers is a string, whatever it points to.
LEMMA AsSliceType ==
  ASSUME MemoryAssumption, NEW h \in Heaps, NEW buf, buf.len \in 0 .. MaxSize
  PROVE  AsSlice(h, buf) \in Strings
<1>1. CASE buf.data = Null \/ buf.len = 0
  BY <1>1, ShortStrings, AsSliceCases, MemoryAssumption
<1>2. CASE ~(buf.data = Null \/ buf.len = 0) /\ ~Readable(h, buf)
  BY <1>2, RawIsString, AsSliceCases, MemoryAssumption
<1>3. CASE ~(buf.data = Null \/ buf.len = 0) /\ Readable(h, buf)
  <2>1. h[buf.data].bytes \in Strings /\ buf.len <= Len(h[buf.data].bytes)
    BY <1>3 DEF Readable, Heaps
  <2>2. SubSeq(h[buf.data].bytes, 1, buf.len) \in Strings
    BY <2>1, PrefixFacts, MemoryAssumption DEF MemoryAssumption
  <2> QED BY <1>3, <2>2, AsSliceCases
<1> QED BY <1>1, <1>2, <1>3

\* A string that fits is text: FfiString::as_str may skip the check.
LEMMA FitsIsText ==
  ASSUME MemoryAssumption, NEW h \in Heaps, NEW str \in StringType,
         StringFits(h, str)
  PROVE  IsUtf8(AsSlice(h, AsStr(str)))
<1>1. CASE str = NullString
  BY <1>1, ShortStrings, AsSliceCases, MemoryAssumption DEF AsStr, NullString
<1>2. CASE str # NullString
  <2>1. /\ h[str.data].bytes \in Strings /\ IsUtf8(h[str.data].bytes)
        /\ str.len \in Nat /\ str.len <= Len(h[str.data].bytes)
    BY <1>2, MemoryAssumption DEF StringFits, Heaps, StringType, MemoryAssumption
  <2>2. AsSlice(h, AsStr(str)) = SubSeq(h[str.data].bytes, 1, str.len)
    BY <1>2, NoBlock, AsSliceCases, MemoryAssumption DEF AsStr, Readable, StringFits
  <2> QED BY <2>1, <2>2, PrefixFacts, MemoryAssumption
<1> QED BY <1>1, <1>2

\* The bytes behind a slice that may be read depend on its block only.
LEMMA AsSliceOfBlock ==
  ASSUME NEW h, NEW new, NEW buf,
         buf.data \in Blocks => new[buf.data] = h[buf.data]
  PROVE  /\ Readable(new, buf) = Readable(h, buf)
         /\ AsSlice(new, buf) = AsSlice(h, buf)
         /\ BufferFits(new, buf) = BufferFits(h, buf)
BY DEF Readable, AsSlice, BufferFits

-----------------------------------------------------------------------------
(***************************************************************************)
(* Deallocation.                                                           *)
(***************************************************************************)

\* FfiBuffer::dealloc frees exactly the block of a buffer that fits.
LEMMA BufferDeallocFacts ==
  ASSUME MemoryAssumption, NEW h \in Heaps, NEW buf, BufferFits(h, buf)
  PROVE  LET out == BufferDealloc(h, buf) IN
         out.ok /\ Frees(h, out.heap, buf.data)
<1>1. CASE buf.data \notin Blocks
  BY <1>1 DEF BufferFits, BufferDealloc, Untouched, Frees
<1>2. CASE buf.data \in Blocks
  BY <1>2, NoBlock, EmptyHeap
  DEF BufferFits, BufferDealloc, Deallocate, Frees, Heaps
<1> QED BY <1>1, <1>2

\* FfiString::dealloc frees exactly the block of a string that fits.
LEMMA StringDeallocFacts ==
  ASSUME MemoryAssumption, NEW h \in Heaps, NEW str, StringFits(h, str)
  PROVE  LET out == StringDealloc(h, str) IN
         out.ok /\ Frees(h, out.heap, str.data)
<1>1. CASE str = NullString
  BY <1>1, NoBlock DEF StringDealloc, Untouched, Frees, NullString
<1>2. CASE str # NullString
  BY <1>2, NoBlock, EmptyHeap
  DEF StringFits, StringDealloc, Deallocate, Frees, Heaps
<1> QED BY <1>1, <1>2

\* Whatever it is given, a deallocation leaves a heap.
LEMMA DeallocType ==
  ASSUME MemoryAssumption, NEW h \in Heaps, NEW buf
  PROVE  BufferDealloc(h, buf).heap \in Heaps /\ BufferDealloc(h, buf).ok \in BOOLEAN
BY EmptyHeap DEF BufferDealloc, Untouched, Deallocate, Heaps
=============================================================================
