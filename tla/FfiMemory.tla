------------------------------ MODULE FfiMemory ------------------------------
(***************************************************************************)
(* The heap values that cross the boundary: FfiBuffer and FfiString of     *)
(* rust/src/memory.rs and FfiResult of rust/src/errors.rs, over a model of *)
(* Rust's global allocator.  None of the three has a Drop: whoever holds   *)
(* one must free it, once, and what is freed is described by the fields of *)
(* the value, not by the allocation.                                       *)
(*                                                                         *)
(* Operators only.  A heap h is a value; the operations that allocate take *)
(* the block they are given, and return the new heap with their value.     *)
(***************************************************************************)
EXTENDS FfiErrors, Sequences, FiniteSets

CONSTANTS
  Blocks,    \* the allocations that can be live at the same time
  MaxSize,   \* the largest allocation, in bytes
  Null,      \* the null pointer
  Dangling   \* NonNull::dangling(), the pointer of a Vec without allocation

ASSUME MemoryAssumption ==
  /\ MaxSize \in Nat \ {0}
  /\ Null \notin Blocks
  /\ Dangling \notin Blocks \cup {Null}

\* Byte strings, made of bytes that are UTF-8 text and bytes that are not.
Bytes == {"text", "raw"}

Strings == UNION {[1 .. n -> Bytes] : n \in 0 .. MaxSize}

IsUtf8(bytes) == \A i \in DOMAIN bytes : bytes[i] = "text"

\* What serde_json and encoding/json can decode, for some type: text, of at
\* least one byte; and what they encode.
Decodes(bytes) == bytes # <<>> /\ IsUtf8(bytes)

Encodings == {bytes \in Strings : Decodes(bytes)}

-----------------------------------------------------------------------------
(***************************************************************************)
(* The allocator: a block has the size of its layout, and its initialized  *)
(* prefix.                                                                 *)
(***************************************************************************)
Unallocated == [live |-> FALSE, size |-> 0, bytes |-> <<>>]

Available(h) == {b \in Blocks : ~h[b].live}

Allocate(h, b, size, bytes) ==
  [h EXCEPT ![b] = [live |-> TRUE, size |-> size, bytes |-> bytes]]

\* dealloc(ptr, layout) is defined only for a live block and its own layout;
\* `ok` says that the call was.
Deallocate(h, p, size) ==
  LET ok == p \in Blocks /\ h[p].live /\ h[p].size = size
  IN  [heap |-> IF ok THEN [h EXCEPT ![p] = Unallocated] ELSE h, ok |-> ok]

Untouched(h) == [heap |-> h, ok |-> TRUE]

-----------------------------------------------------------------------------
(***************************************************************************)
(* FfiBuffer.                                                              *)
(***************************************************************************)
NullBuffer == [data |-> Null, len |-> 0, capacity |-> 0]

\* FfiBuffer::new(capacity).
BufferNew(h, b, capacity) ==
  IF capacity = 0
    THEN [heap |-> h, val |-> NullBuffer]
    ELSE [heap |-> Allocate(h, b, capacity, <<>>),
          val  |-> [data |-> b, len |-> 0, capacity |-> capacity]]

\* Variation: from_vec reports the length as the capacity.
BufferFromVecByLen(h, b, bytes, capacity) ==
  IF bytes = <<>>
    THEN [heap |-> h, val |-> [data |-> Dangling, len |-> 0, capacity |-> 0]]
    ELSE [heap |-> Allocate(h, b, capacity, bytes),
          val  |-> [data |-> b, len |-> Len(bytes), capacity |-> Len(bytes)]]

\* FfiBuffer::from_vec.  shrink_to_fit may leave spare capacity, and leaves an
\* empty Vec without allocation.
BufferFromVec(h, b, bytes, capacity) ==
  IF bytes = <<>>
    THEN [heap |-> h, val |-> [data |-> Dangling, len |-> 0, capacity |-> 0]]
    ELSE [heap |-> Allocate(h, b, capacity, bytes),
          val  |-> [data |-> b, len |-> Len(bytes), capacity |-> capacity]]

\* The capacities shrink_to_fit may leave.
Shrunk(bytes) == Len(bytes) .. MaxSize

\* FfiBuffer::as_slice: whether it may read the bytes it covers, and what it
\* sees there; anything, if it may not.
Readable(h, buf) ==
  \/ buf.data = Null \/ buf.len = 0
  \/ /\ buf.data \in Blocks
     /\ h[buf.data].live
     /\ buf.len <= Len(h[buf.data].bytes)

AsSlice(h, buf) ==
  CASE buf.data = Null \/ buf.len = 0 -> <<>>
    [] ~Readable(h, buf)             -> [i \in 1 .. buf.len |-> "raw"]
    [] OTHER -> SubSeq(h[buf.data].bytes, 1, buf.len)

\* Variation: the layout is taken from the initialized length.
BufferDeallocByLen(h, buf) ==
  IF buf.data = Null \/ buf.len = 0
    THEN Untouched(h)
    ELSE Deallocate(h, buf.data, buf.len)

\* FfiBuffer::dealloc.
BufferDealloc(h, buf) ==
  IF buf.data = Null \/ buf.capacity = 0
    THEN Untouched(h)
    ELSE Deallocate(h, buf.data, buf.capacity)

-----------------------------------------------------------------------------
(***************************************************************************)
(* FfiString.                                                              *)
(***************************************************************************)
NullString == [data |-> Null, len |-> 0]

\* FfiString::new.
StringNew(h, b, bytes) ==
  IF bytes = <<>>
    THEN [heap |-> h, val |-> NullString]
    ELSE [heap |-> Allocate(h, b, Len(bytes), bytes),
          val  |-> [data |-> b, len |-> Len(bytes)]]

\* What FfiString::as_str reads, as a slice.
AsStr(str) == [data |-> str.data, len |-> str.len, capacity |-> 0]

\* FfiString::dealloc.
StringDealloc(h, str) ==
  IF str.data = Null \/ str.len = 0
    THEN Untouched(h)
    ELSE Deallocate(h, str.data, str.len)

-----------------------------------------------------------------------------
(***************************************************************************)
(* FfiResult.                                                              *)
(***************************************************************************)

\* FfiError::message: never empty, always text.
Message == <<"text">>

\* FfiResult::ok(payload).
ResultOk(payload) ==
  [error_code |-> FfiErrorCode.Ok, error_message |-> NullString,
   payload |-> payload]

\* FfiResult::err(error).
ResultErr(h, b, error) ==
  LET msg == StringNew(h, b, Message)
  IN  [heap |-> msg.heap,
       val  |-> [error_code |-> Code(error), error_message |-> msg.val,
                 payload |-> NullBuffer]]

\* Variation: the message of an error result is not freed.
ResultFreePayload(h, r) == BufferDealloc(h, r.payload)

\* ffi_result_free.
ResultFree(h, r) ==
  LET msg     == StringDealloc(h, r.error_message)
      payload == BufferDealloc(msg.heap, r.payload)
  IN  [heap |-> payload.heap, ok |-> msg.ok /\ payload.ok]

-----------------------------------------------------------------------------
(***************************************************************************)
(* FromBytes(data) of go/bridge.go: a buffer from ffi_buffer_alloc, filled *)
(* by memcpy.                                                              *)
(***************************************************************************)
FromBytes(h, b, data) ==
  LET out == BufferNew(h, b, Len(data))
  IN  IF data = <<>> THEN out
      ELSE [heap |-> [out.heap EXCEPT ![b].bytes = data],
            val  |-> [out.val EXCEPT !.len = Len(data)]]
=============================================================================
