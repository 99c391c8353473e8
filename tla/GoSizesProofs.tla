----------------------------- MODULE GoSizesProofs -----------------------------
(***************************************************************************)
(* Theorems about GoSizes, for every width of the integer types and every  *)
(* amount of memory, in particular for 64 and 32 bits.                     *)
(***************************************************************************)
EXTENDS GoSizes, TLAPS

-----------------------------------------------------------------------------
(***************************************************************************)
(* The conversions.                                                        *)
(***************************************************************************)

\* The widths of C.int, C.size_t and Go's int, as numbers.
LEMMA Widths ==
  /\ CIntMod \in Nat /\ SizeMod \in Nat
  /\ CIntMax \in Nat /\ IntMax \in Nat /\ Memory \in Nat
  /\ CIntMod = 2 * CIntMax + 2 /\ SizeMod = 2 * IntMax + 2
  /\ CIntMax <= IntMax /\ Memory <= IntMax
BY SizeAssumption DEF CIntMax, IntMax

\* A remainder lies below the modulus, and is the number itself if that does.
LEMMA Remainder ==
  ASSUME NEW n \in Nat
  PROVE  /\ n % CIntMod \in Nat /\ n % CIntMod < CIntMod /\ n % CIntMod <= n
         /\ n < CIntMod => n % CIntMod = n
BY SizeAssumption

\* What C.int(n) makes of a length: the remainder, if it is not negative; and
\* the length itself, if that fits.
LEMMA CIntOfLength ==
  ASSUME NEW n \in Nat
  PROVE  /\ CInt(n) \in Int
         /\ Copyable(n) => CInt(n) = n % CIntMod /\ CInt(n) \in 0 .. CIntMax
         /\ n <= CIntMax => Copyable(n) /\ CInt(n) = n
<1>1. /\ n % CIntMod \in Nat /\ n % CIntMod < CIntMod
      /\ n < CIntMod => n % CIntMod = n
  BY Remainder
<1>2. CIntMax < CIntMod
  BY Widths
<1>. QED
  BY <1>1, <1>2, Widths DEF CInt, Copyable

\* A buffer that was allocated for an int has that capacity.
LEMMA AllocatedAsAsked ==
  ASSUME NEW n \in GoInts, NEW c \in Allocated(SizeT(n))
  PROVE  c = n /\ c \in 0 .. IntMax
<1>1. c = SizeT(n) /\ c <= IntMax
  BY DEF Allocated
<1>. QED
  BY <1>1, Widths DEF SizeT, GoInts

\* Making a Buffer for n: it has the capacity n, or the process is gone.
LEMMA MakeEffect ==
  ASSUME NEW n \in GoInts, NEW len, Make(n, len)
  PROVE  /\ asked' = n
         /\ \/ pc' = "aborted" /\ buffer' = buffer
            \/ /\ pc' = "buffer" /\ n \in 0 .. IntMax
               /\ buffer' = [len |-> len, capacity |-> n]
<1>1. CASE \E c \in Allocated(SizeT(n)) : buffer' = [len |-> len, capacity |-> c]
           /\ pc' = "buffer"
  BY <1>1, AllocatedAsAsked DEF Make
<1>2. CASE pc' = "aborted" /\ UNCHANGED buffer
  BY <1>2 DEF Make
<1>. QED
  BY <1>1, <1>2 DEF Make

-----------------------------------------------------------------------------
(***************************************************************************)
(* The inductive invariant.  A length is cut at most once: what C.int has  *)
(* made of it fits C.int from then on, so that the Buffer in hand is as    *)
(* long as its source or as the remainder of that.                         *)
(***************************************************************************)
Lengths ==
  /\ pc = "start" => source = 0
  /\ pc = "buffer" => /\ buffer.len <= IntMax
                      /\ buffer.len \in {source, source % CIntMod}

SizesInvariant ==
  TypeOK /\ BufferIsAsAsked /\ Lengths /\ ShortIsExact

\* A copy of a length that is the source's, or its remainder, is the remainder,
\* and for a short source the source.
LEMMA CopyOfLength ==
  ASSUME NEW n \in Nat, NEW len \in {n, n % CIntMod}
  PROVE  /\ Copyable(len) => CInt(len) = n % CIntMod /\ CInt(len) \in 0 .. CIntMax
         /\ n <= CIntMax => Copyable(len) /\ CInt(len) = n
<1>1. /\ n % CIntMod \in Nat /\ n % CIntMod < CIntMod
      /\ n < CIntMod => n % CIntMod = n
  BY Remainder
<1>2. (n % CIntMod) % CIntMod = n % CIntMod
  BY <1>1, Remainder
<1>3. n <= CIntMax => n % CIntMod = n
  BY <1>1, Widths
<1>. QED
  BY <1>1, <1>2, <1>3, CIntOfLength

\* The invariant holds at the start,
LEMMA InitSizes == Init => SizesInvariant
BY Widths, Remainder
   DEF Init, SizesInvariant, TypeOK, BufferIsAsAsked, Lengths, ShortIsExact, Sizes, GoInts

\* and after every step.
LEMMA NextSizes == SizesInvariant /\ [Next]_vars => SizesInvariant'
<1>. SUFFICES ASSUME SizesInvariant, [Next]_vars
              PROVE  SizesInvariant'
  OBVIOUS
<1>. USE DEF SizesInvariant
<1>1. source \in Nat /\ buffer.len \in Nat
  BY Widths DEF TypeOK, Sizes
<1>2. CASE NewBuffer
  <2>1. PICK capacity \in GoInts : Make(capacity, 0)
    BY <1>2 DEF NewBuffer
  <2>2. source = 0 /\ source' = 0 /\ copy' = copy
    BY <1>2 DEF NewBuffer, Lengths
  <2>. QED
    BY <2>1, <2>2, MakeEffect, Widths
       DEF TypeOK, BufferIsAsAsked, Lengths, ShortIsExact,
           Sizes, GoInts
<1>3. CASE FromBytes
  <2>1. PICK n \in 0 .. IntMax : Make(n, SizeT(n)) /\ source' = n
    BY <1>3 DEF FromBytes
  <2>2. n \in GoInts /\ SizeT(n) = n /\ copy' = copy
    BY <1>3, Widths DEF GoInts, SizeT, FromBytes
  <2>. QED
    BY <2>1, <2>2, MakeEffect, Widths
       DEF TypeOK, BufferIsAsAsked, Lengths, ShortIsExact,
           Sizes, GoInts
<1>4. CASE GetBytes
  <2>1. /\ pc = "buffer" /\ buffer.len \in {source, source % CIntMod}
        /\ source' = source /\ asked' = asked /\ buffer' = buffer
    BY <1>4 DEF GetBytes, Panic, Lengths
  <2>2. /\ Copyable(buffer.len) => CInt(buffer.len) = source % CIntMod
                                   /\ CInt(buffer.len) \in 0 .. CIntMax
        /\ source <= CIntMax => Copyable(buffer.len) /\ CInt(buffer.len) = source
    BY <1>1, <2>1, CopyOfLength
  <2>3. CASE Copyable(buffer.len) /\ pc' = "done" /\ copy' = CInt(buffer.len)
    BY <2>1, <2>2, <2>3, Widths
       DEF TypeOK, BufferIsAsAsked, Lengths, ShortIsExact
  <2>4. CASE ~Copyable(buffer.len) /\ pc' = "panicked" /\ copy' = copy
    BY <2>1, <2>2, <2>4, <1>1, Widths
       DEF TypeOK, BufferIsAsAsked, Lengths, ShortIsExact
  <2>. QED
    BY <1>4, <2>3, <2>4 DEF GetBytes, Panic
<1>5. CASE GetLen
  <2>1. /\ pc = "buffer" /\ buffer.len <= IntMax
        /\ buffer.len \in {source, source % CIntMod}
        /\ pc' = "done" /\ copy' = buffer.len
        /\ source' = source /\ asked' = asked /\ buffer' = buffer
    BY <1>5, <1>1, Widths DEF GetLen, Lengths, GoInt
  <2>2. source <= CIntMax => source % CIntMod = source
    BY <1>1, Remainder, Widths
  <2>. QED
    BY <2>1, <2>2, <1>1, Widths
       DEF TypeOK, BufferIsAsAsked, Lengths, ShortIsExact
<1>6. CASE Invoke
  <2>1. /\ pc' \in {"payload", "message"}
        /\ asked' = asked /\ buffer' = buffer /\ copy' = copy
    BY <1>6 DEF Invoke
  <2>2. source' \in Sizes
    BY <1>6, Widths DEF Invoke, Sizes
  <2>3. TypeOK'
    BY <2>1, <2>2 DEF TypeOK
  <2>. QED
    BY <2>1, <2>3 DEF BufferIsAsAsked, Lengths, ShortIsExact
<1>7. CASE CheckError
  <2>1. pc = "message" /\ source' = source /\ asked' = asked /\ buffer' = buffer
    BY <1>7 DEF CheckError, Panic
  <2>2. /\ Copyable(source) => CInt(source) = source % CIntMod
                              /\ CInt(source) \in 0 .. CIntMax
        /\ source <= CIntMax => Copyable(source) /\ CInt(source) = source
    BY <1>1, CopyOfLength
  <2>3. CASE Copyable(source) /\ pc' = "done" /\ copy' = CInt(source)
    BY <2>1, <2>2, <2>3, Widths
       DEF TypeOK, BufferIsAsAsked, Lengths, ShortIsExact
  <2>4. CASE ~Copyable(source) /\ pc' = "panicked" /\ copy' = copy
    BY <2>1, <2>2, <2>4, <1>1, Widths
       DEF TypeOK, BufferIsAsAsked, Lengths, ShortIsExact
  <2>. QED
    BY <1>7, <2>3, <2>4 DEF CheckError, Panic
<1>8. CASE CopyPayload
  <2>1. pc = "payload" /\ source' = source /\ copy' = copy
    BY <1>8 DEF CopyPayload, Panic
  <2>2. /\ Copyable(source) => CInt(source) = source % CIntMod
                              /\ CInt(source) \in 0 .. CIntMax
        /\ source <= CIntMax => Copyable(source) /\ CInt(source) = source
    BY <1>1, CopyOfLength
  <2>3. CASE Copyable(source) /\ Make(CInt(source), CInt(source))
    <3>1. CInt(source) \in GoInts
      BY <2>2, <2>3, Widths DEF GoInts
    <3>. QED
      BY <2>1, <2>2, <2>3, <3>1, MakeEffect, Widths
         DEF TypeOK, BufferIsAsAsked, Lengths, ShortIsExact, Sizes
  <2>4. CASE ~Copyable(source) /\ Panic
    BY <2>1, <2>2, <2>4, <1>1, Widths
       DEF Panic, TypeOK, BufferIsAsAsked, Lengths, ShortIsExact
  <2>. QED
    BY <1>8, <2>3, <2>4 DEF CopyPayload
<1>9. CASE UNCHANGED vars
  BY <1>9
     DEF vars, TypeOK, BufferIsAsAsked, Lengths, ShortIsExact
<1>. QED
  BY <1>2, <1>3, <1>4, <1>5, <1>6, <1>7, <1>8, <1>9 DEF Next

\* The inductive invariant holds in every reachable state.
THEOREM SizesCorrect == Spec => []SizesInvariant
BY InitSizes, NextSizes, PTL DEF Spec

-----------------------------------------------------------------------------
\* No conversion, of Bytes, Len or CheckResult, yields a negative length, and
\* none leaves the type of the field it is stored in.
THEOREM TypeCorrect == Spec => []TypeOK
BY SizesCorrect, PTL DEF SizesInvariant

\* NewBuffer and FromBytes return a Buffer of the capacity they were called
\* with, or none: a negative capacity, one that is too large, and memory that
\* has run out never lead to a smaller one that the memcpy would run over.
THEOREM CapacityCorrect == Spec => []BufferIsAsAsked
BY SizesCorrect, PTL DEF SizesInvariant

\* Whatever is shorter than 2^31 bytes arrives whole, however often it is
\* converted between FromBytes and Bytes or CheckResult.
THEOREM ShortArrivesWhole == Spec => []ShortIsExact
BY SizesCorrect, PTL DEF SizesInvariant
=============================================================================
