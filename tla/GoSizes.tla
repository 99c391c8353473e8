-------------------------------- MODULE GoSizes --------------------------------
(***************************************************************************)
(* The sizes that cross the boundary, and the integer types they pass: int *)
(* and C.int in Go, size_t in C, usize in Rust.  Of a Buffer only the      *)
(* length and the capacity are left here, of bytes only how many they are. *)
(* The program makes a Buffer, reads it, and sends it to callbacks, whose  *)
(* answers CheckResult copies into the next Buffer.                        *)
(***************************************************************************)
EXTENDS Integers

CONSTANTS
  SizeMod,  \* 2^64: how many values size_t, usize and int have
  CIntMod,  \* 2^32: how many values C.int has
  Memory    \* the largest block that the allocator can give out

ASSUME SizeAssumption ==
  /\ CIntMod \in Nat \ {0} /\ CIntMod % 2 = 0
  /\ SizeMod \in Nat /\ SizeMod % 2 = 0 /\ CIntMod <= SizeMod
  /\ Memory \in 0 .. SizeMod \div 2 - 1

VARIABLES
  pc,      \* what the program holds, or how it ended
  asked,   \* the capacity that the current Buffer was made for
  buffer,  \* the current Buffer
  source,  \* history: how many bytes what it is a copy of has in Rust or Go
  copy     \* how many bytes the program has got out of it

vars == <<pc, asked, buffer, source, copy>>

-----------------------------------------------------------------------------
(***************************************************************************)
(* Conversions.                                                            *)
(***************************************************************************)
IntMax == SizeMod \div 2 - 1
GoInts == -IntMax - 1 .. IntMax
CIntMax == CIntMod \div 2 - 1

\* C.size_t(n) of an int.
SizeT(n) == IF n >= 0 THEN n ELSE n + SizeMod

\* int(n) of a size_t.
GoInt(n) == IF n <= IntMax THEN n ELSE n - SizeMod

\* Variation: C.int has one value less.
CIntNarrow(n) ==
  IF n % CIntMod < CIntMax THEN n % CIntMod ELSE (n % CIntMod) - CIntMod

\* C.int(n) of a size_t.
CInt(n) ==
  IF n % CIntMod <= CIntMax THEN n % CIntMod ELSE (n % CIntMod) - CIntMod

-----------------------------------------------------------------------------
(***************************************************************************)
(* Making a Buffer.                                                        *)
(***************************************************************************)

\* Variation: a failed allocation yields a zeroed buffer, as ffi.h says.
AllocatedOrZero(capacity) ==
  {c \in {capacity, 0} : c <= Memory}

\* The capacity of the buffer FfiBuffer::new returns.  No Layout is larger
\* than isize::MAX, and no block larger than the memory; then it returns
\* nothing, but panics, and ffi_buffer_alloc lets no panic out.
Allocated(capacity) ==
  {c \in {capacity} : c <= IntMax /\ c <= Memory}

\* newBuffer(C.ffi_buffer_alloc(C.size_t(n))) and, in FromBytes, the memcpy of
\* as many bytes, `len`.  An allocation can always fail.
Make(n, len) ==
  /\ asked' = n
  /\ \/ /\ \E c \in Allocated(SizeT(n)) : buffer' = [len |-> len, capacity |-> c]
        /\ pc' = "buffer"
     \/ SizeT(n) # 0 /\ pc' = "aborted" /\ UNCHANGED buffer

NewBuffer ==
  /\ pc = "start"
  /\ \E capacity \in GoInts : Make(capacity, 0)
  /\ UNCHANGED <<source, copy>>

FromBytes ==
  /\ pc = "start"
  /\ \E n \in 0 .. IntMax : Make(n, SizeT(n)) /\ source' = n
  /\ UNCHANGED copy

-----------------------------------------------------------------------------
(***************************************************************************)
(* Reading.                                                                *)
(***************************************************************************)

\* Variation: a negative length is not refused.
AlwaysCopyable(n) == TRUE

\* C.GoBytes(p, C.int(n)) and C.GoStringN panic for a negative length.
Copyable(n) == CInt(n) >= 0

Panic ==
  /\ pc' = "panicked"
  /\ UNCHANGED <<asked, buffer, copy>>

\* Bytes.
GetBytes ==
  /\ pc = "buffer"
  /\ \/ /\ Copyable(buffer.len)
        /\ pc' = "done" /\ copy' = CInt(buffer.len)
        /\ UNCHANGED <<asked, buffer>>
     \/ ~Copyable(buffer.len) /\ Panic
  /\ UNCHANGED source

\* Len.
GetLen ==
  /\ pc = "buffer"
  /\ pc' = "done" /\ copy' = GoInt(buffer.len)
  /\ UNCHANGED <<asked, buffer, source>>

\* ffi_invoke_callback returns a payload or a message of any length.
Invoke ==
  /\ pc = "buffer"
  /\ pc' \in {"payload", "message"}
  /\ source' \in 0 .. Memory
  /\ UNCHANGED <<asked, buffer, copy>>

\* CheckResult of an error: GoStringFromFfiString.
CheckError ==
  /\ pc = "message"
  /\ \/ /\ Copyable(source)
        /\ pc' = "done" /\ copy' = CInt(source)
        /\ UNCHANGED <<asked, buffer>>
     \/ ~Copyable(source) /\ Panic
  /\ UNCHANGED source

\* CheckResult of a success: copyBuffer, which makes a Buffer of what
\* C.GoBytes has copied.
CopyPayload ==
  /\ pc = "payload"
  /\ \/ Copyable(source) /\ Make(CInt(source), CInt(source)) /\ UNCHANGED copy
     \/ ~Copyable(source) /\ Panic
  /\ UNCHANGED source

Init ==
  /\ pc = "start"
  /\ asked = 0
  /\ buffer = [len |-> 0, capacity |-> 0]
  /\ source = 0
  /\ copy = 0

Next ==
  \/ FromBytes \/ NewBuffer \/ GetBytes \/ GetLen
  \/ Invoke \/ CheckError \/ CopyPayload

Spec == Init /\ [][Next]_vars

-----------------------------------------------------------------------------
(***************************************************************************)
(* Properties.                                                             *)
(***************************************************************************)
Sizes == 0 .. SizeMod - 1

\* The type invariant: no length becomes negative.
TypeOK ==
  /\ pc \in {"start", "buffer", "payload", "message", "done", "aborted",
             "panicked"}
  /\ asked \in GoInts
  /\ buffer \in [len : Sizes, capacity : Sizes]
  /\ source \in Sizes
  /\ copy \in 0 .. IntMax

\* A Buffer has the capacity it was made for: a negative capacity, one that no
\* layout or no memory is enough for, never gives a Buffer, and the memcpy of
\* FromBytes, which looks at no capacity, stays inside the block.
BufferIsAsAsked ==
  pc = "buffer" => buffer.capacity = asked /\ buffer.len <= buffer.capacity

\* What is shorter than 2^31 bytes arrives whole, whatever it passes on the
\* way: FromBytes, the callback, CheckResult and Bytes.
ShortIsExact ==
  source <= CIntMax => pc # "panicked" /\ (pc = "done" => copy = source)
=============================================================================
