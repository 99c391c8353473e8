---------------------------- MODULE AbiClientProofs ----------------------------
(***************************************************************************)
(* Proofs about AbiClient for any number of blocks and slots, any size,    *)
(* any callbacks, and an allocator that may or may not fail, for programs  *)
(* that keep the three rules.                                              *)
(*                                                                         *)
(* The inductive invariant is Ownership: every holding is well formed and  *)
(* describes the blocks it points to (HoldingOK), no two have a block in   *)
(* common, and each live block is in a holding or among the dropped ones.  *)
(* The heart of it is OwnershipOf, about any heap and holdings, since a    *)
(* call passes through several: the callback frees its input, a message    *)
(* is lost, an answer is made.  HoldingChanges is about one slot and the   *)
(* blocks it gives up and takes (Replaces), HoldingMoves about two.        *)
(***************************************************************************)
EXTENDS AbiClient, FfiMemoryProofs

-----------------------------------------------------------------------------
(***************************************************************************)
(* The inductive invariant.                                                *)
(***************************************************************************)
Kinds == {"none", "buffer", "value", "string", "result"}

Holdings == [kind : Kinds, value : Values]

\* The blocks a holding points to.
BlocksOf(x) ==
  Blocks \cap {x.value.error_message.data, x.value.payload.data}

\* What each kind of value leaves empty.
KindOK(x) ==
  /\ x.kind = "none" => x = Nothing
  /\ x.kind \in {"buffer", "value"} => x.value.error_message = NullString
  /\ x.kind = "string" => x.value.payload = NullBuffer
  /\ x.kind = "result" => IF x.value.error_code = FfiErrorCode.Ok
                            THEN x.value.error_message = NullString
                            ELSE x.value.payload = NullBuffer

HoldingOK(h, x) ==
  /\ x \in Holdings
  /\ KindOK(x)
  /\ StringFits(h, x.value.error_message)
  /\ BufferFits(h, x.value.payload)
  /\ x.kind = "value" => Decodes(AsSlice(h, x.value.payload))

OwnershipOf(h, hd, d) ==
  /\ h \in Heaps
  /\ d \subseteq Blocks
  /\ hd \in [Slots -> Holdings]
  /\ \A s \in Slots : HoldingOK(h, hd[s])
  /\ \A s, t \in Slots : s # t => BlocksOf(hd[s]) \cap BlocksOf(hd[t]) = {}
  /\ \A b \in Blocks :
       h[b].live => b \in d \/ \E s \in Slots : b \in BlocksOf(hd[s])

Ownership ==
  /\ Rules = RuleNames
  /\ ~corrupted
  /\ alive \in BOOLEAN
  /\ OwnershipOf(heap, held, dropped)

-----------------------------------------------------------------------------
(***************************************************************************)
(* Holdings.                                                               *)
(***************************************************************************)

\* An error variant has a code other than Ok, and it is one of the codes.
LEMMA ErrorCodes ==
  /\ FfiErrorCode.Ok = 0
  /\ \A e \in ErrorVariants : Code(e) # 0
  /\ {"NullPointer", "InvalidUtf8", "NotFound", "LockPoisoned", "Panic",
      "Serialization", "Unknown"} \subseteq ErrorVariants
BY DEF FfiErrorCode, ErrorVariants, Code

\* The types of the model and those of the heap lemmas are the same.
LEMMA TypesAgree ==
  /\ Pointers = Addresses
  /\ Values = [error_code : {FfiErrorCode.Ok} \cup {Code(e) : e \in ErrorVariants},
               error_message : StringType, payload : BufferType]
BY DEF Pointers, Addresses, Values, StringType, BufferType, Sizes

\* The empty holding is well formed in every heap, and points to no block.
LEMMA NothingFacts ==
  ASSUME MemoryAssumption
  PROVE  /\ \A h : HoldingOK(h, Nothing)
         /\ BlocksOf(Nothing) = {}
<1>1. ResultOk(NullBuffer) \in Values
  BY NoBlock, TypesAgree, MemoryAssumption DEF ResultOk
<1>2. Nothing \in Holdings /\ KindOK(Nothing)
  BY <1>1 DEF Nothing, Holding, Holdings, Kinds, KindOK, ResultOk
<1>3. \A h : StringFits(h, Nothing.value.error_message)
             /\ BufferFits(h, Nothing.value.payload)
  BY NoBlock, MemoryAssumption DEF Nothing, Holding, ResultOk
<1>4. BlocksOf(Nothing) = {}
  BY NoBlock, MemoryAssumption
  DEF BlocksOf, Nothing, Holding, ResultOk, NullBuffer, NullString
<1>5. Nothing.kind # "value"
  BY DEF Nothing, Holding
<1> QED BY <1>2, <1>3, <1>4, <1>5 DEF HoldingOK

\* A holding depends on its own blocks only.
LEMMA HoldingFrame ==
  ASSUME NEW h, NEW new, NEW x, HoldingOK(h, x),
         \A b \in BlocksOf(x) : new[b] = h[b]
  PROVE  HoldingOK(new, x)
<1>1. x.value.payload.data \in Blocks => new[x.value.payload.data] = h[x.value.payload.data]
  BY DEF BlocksOf
<1>2. /\ BufferFits(new, x.value.payload)
      /\ AsSlice(new, x.value.payload) = AsSlice(h, x.value.payload)
  BY <1>1, AsSliceOfBlock DEF HoldingOK
<1>3. StringFits(new, x.value.error_message)
  BY DEF HoldingOK, StringFits, BlocksOf
<1> QED BY <1>2, <1>3 DEF HoldingOK

\* A holding's blocks are live.
LEMMA HeldIsLive ==
  ASSUME MemoryAssumption, NEW h, NEW x, HoldingOK(h, x), NEW b \in BlocksOf(x)
  PROVE  h[b].live
BY NoBlock DEF HoldingOK, BlocksOf, StringFits, BufferFits, NullString

\* The four kinds of new holdings.
LEMMA PayloadHolding ==
  ASSUME MemoryAssumption, NEW h, NEW kind \in {"buffer", "value", "result"},
         NEW buf \in BufferType, BufferFits(h, buf),
         kind = "value" => Decodes(AsSlice(h, buf))
  PROVE  /\ HoldingOK(h, Holding(kind, ResultOk(buf)))
         /\ BlocksOf(Holding(kind, ResultOk(buf))) = Blocks \cap {buf.data}
<1> DEFINE x == Holding(kind, ResultOk(buf))
<1>1. /\ x.kind = kind /\ x.value.error_message = NullString /\ x.value.payload = buf
      /\ x.value.error_code = FfiErrorCode.Ok
  BY DEF Holding, ResultOk
<1>2. x \in Holdings
  BY NoBlock, TypesAgree, MemoryAssumption DEF Holding, ResultOk, Holdings, Kinds
<1> HIDE DEF x
<1>3. KindOK(x)
  BY <1>1 DEF KindOK
<1>4. StringFits(h, x.value.error_message)
  BY <1>1, NoBlock, MemoryAssumption
<1>5. BlocksOf(x) = Blocks \cap {buf.data}
  BY <1>1, MemoryAssumption DEF BlocksOf, NullString, MemoryAssumption
<1> QED BY <1>1, <1>2, <1>3, <1>4, <1>5 DEF HoldingOK, x

\* A string fits, so the program may hold it.
LEMMA StringHolding ==
  ASSUME MemoryAssumption, NEW h, NEW str \in StringType, StringFits(h, str)
  PROVE  /\ HoldingOK(h, AsString(str))
         /\ BlocksOf(AsString(str)) = Blocks \cap {str.data}
<1> DEFINE x == AsString(str)
<1>1. /\ x.kind = "string" /\ x.value.error_message = str
      /\ x.value.payload = NullBuffer
  BY DEF AsString, Holding, ResultOk
<1>2. x \in Holdings
  BY NoBlock, TypesAgree, MemoryAssumption DEF AsString, Holding, ResultOk, Holdings, Kinds
<1> HIDE DEF x
<1>3. BufferFits(h, x.value.payload)
  BY <1>1, NoBlock, MemoryAssumption
<1>4. BlocksOf(x) = Blocks \cap {str.data}
  BY <1>1, MemoryAssumption DEF BlocksOf, NullBuffer, MemoryAssumption
<1> QED BY <1>1, <1>2, <1>3, <1>4 DEF HoldingOK, KindOK, x

\* So does an error result, whose one block is its message.
LEMMA ErrorHolding ==
  ASSUME MemoryAssumption, NEW h, NEW res, NEW error \in ErrorVariants,
         res = [error_code |-> Code(error), error_message |-> res.error_message,
                payload |-> NullBuffer],
         res.error_message \in StringType, StringFits(h, res.error_message)
  PROVE  /\ HoldingOK(h, AsResult(res))
         /\ BlocksOf(AsResult(res)) = Blocks \cap {res.error_message.data}
<1> DEFINE x == AsResult(res)
<1>1. x.kind = "result" /\ x.value = res
  BY DEF AsResult, Holding
<1>2. x \in Holdings
  BY NoBlock, TypesAgree, MemoryAssumption DEF AsResult, Holding, Holdings, Kinds
<1> HIDE DEF x
<1>3. x.value.payload = NullBuffer /\ x.value.error_code # FfiErrorCode.Ok
  BY <1>1, ErrorCodes
<1>4. BufferFits(h, x.value.payload)
  BY <1>3, NoBlock, MemoryAssumption
<1>5. BlocksOf(x) = Blocks \cap {res.error_message.data}
  BY <1>1, <1>3, MemoryAssumption DEF BlocksOf, NullBuffer, MemoryAssumption
<1> QED BY <1>1, <1>2, <1>3, <1>4, <1>5 DEF HoldingOK, KindOK, x

-----------------------------------------------------------------------------
(***************************************************************************)
(* Changes of the heap and the holdings.                                   *)
(***************************************************************************)

\* Slot s gives up its blocks, and x takes some of them, or free ones.  What
\* neither has is as it was, or is lost.
Replaces(h, hd, d, s, x, h2, hd2, d2) ==
  /\ hd2 = [hd EXCEPT ![s] = x]
  /\ h2 \in Heaps
  /\ d \subseteq d2 /\ d2 \subseteq Blocks
  /\ HoldingOK(h2, x)
  /\ \A b \in Blocks : h2[b] # h[b] => b \in BlocksOf(hd[s]) \/ ~h[b].live
  /\ \A b \in BlocksOf(x) : b \in BlocksOf(hd[s]) \/ ~h[b].live
  /\ \A b \in Blocks : h2[b].live =>
       \/ b \in BlocksOf(x) \/ b \in d2
       \/ h[b].live /\ b \notin BlocksOf(hd[s])

\* Such a change is sound.
LEMMA HoldingChanges ==
  ASSUME MemoryAssumption, NEW h, NEW hd, NEW d, OwnershipOf(h, hd, d),
         NEW s \in Slots, NEW x, NEW h2, NEW hd2, NEW d2,
         Replaces(h, hd, d, s, x, h2, hd2, d2)
  PROVE  OwnershipOf(h2, hd2, d2)
<1>0. /\ hd2 = [hd EXCEPT ![s] = x]
      /\ h2 \in Heaps /\ d \subseteq d2 /\ d2 \subseteq Blocks
      /\ HoldingOK(h2, x)
      /\ \A b \in Blocks : h2[b] # h[b] => b \in BlocksOf(hd[s]) \/ ~h[b].live
      /\ \A b \in BlocksOf(x) : b \in BlocksOf(hd[s]) \/ ~h[b].live
      /\ \A b \in Blocks : h2[b].live =>
           \/ b \in BlocksOf(x) \/ b \in d2
           \/ h[b].live /\ b \notin BlocksOf(hd[s])
  BY DEF Replaces
<1>1. /\ hd2[s] = x /\ hd2 \in [Slots -> Holdings]
      /\ \A t \in Slots : t # s => hd2[t] = hd[t]
  BY <1>0 DEF OwnershipOf, HoldingOK
<1>2. \A t \in Slots : t # s => \A b \in BlocksOf(hd[t]) :
         b \in Blocks /\ h[b].live /\ b \notin BlocksOf(hd[s])
  BY HeldIsLive DEF OwnershipOf, BlocksOf
<1>3. \A t \in Slots : HoldingOK(h2, hd2[t])
  <2> TAKE t \in Slots
  <2>1. CASE t = s
    BY <1>0, <1>1, <2>1
  <2>2. CASE t # s
    <3>1. \A b \in BlocksOf(hd[t]) : h2[b] = h[b]
      BY <1>0, <1>2, <2>2
    <3> QED BY <1>1, <2>2, <3>1, HoldingFrame DEF OwnershipOf
  <2> QED BY <2>1, <2>2
<1>4. \A t, u \in Slots : t # u => BlocksOf(hd2[t]) \cap BlocksOf(hd2[u]) = {}
  <2>1. \A t \in Slots : t # s => BlocksOf(x) \cap BlocksOf(hd[t]) = {}
    BY <1>0, <1>2
  <2> QED BY <1>1, <2>1 DEF OwnershipOf
<1>5. \A b \in Blocks : h2[b].live =>
        b \in d2 \/ \E t \in Slots : b \in BlocksOf(hd2[t])
  <2> SUFFICES ASSUME NEW b \in Blocks, h[b].live, b \notin BlocksOf(hd[s]),
                      b \notin d2
               PROVE  \E t \in Slots : b \in BlocksOf(hd2[t])
    BY <1>0, <1>1
  <2>1. b \in d => b \in d2
    BY <1>0
  <2>2. PICK t \in Slots : b \in BlocksOf(hd[t])
    BY <2>1 DEF OwnershipOf
  <2> QED BY <1>1, <2>2
<1> QED BY <1>0, <1>1, <1>3, <1>4, <1>5 DEF OwnershipOf

\* One slot hands over some or all of its blocks to an empty one.
LEMMA HoldingMoves ==
  ASSUME MemoryAssumption, NEW h, NEW hd, NEW d, OwnershipOf(h, hd, d),
         NEW s \in Slots, NEW t \in Slots, s # t, hd[t] = Nothing,
         NEW x, NEW y, NEW hd2,
         hd2 = [[hd EXCEPT ![s] = x] EXCEPT ![t] = y],
         HoldingOK(h, x), HoldingOK(h, y),
         BlocksOf(x) \cup BlocksOf(y) = BlocksOf(hd[s]),
         BlocksOf(x) \cap BlocksOf(y) = {}
  PROVE  OwnershipOf(h, hd2, d)
<1>1. /\ hd2 \in [Slots -> Holdings]
      /\ hd2[s] = x /\ hd2[t] = y
      /\ \A u \in Slots \ {s, t} : hd2[u] = hd[u]
  BY DEF OwnershipOf, HoldingOK
<1>2. BlocksOf(hd[t]) = {}
  BY NothingFacts
<1>3. \A u \in Slots : HoldingOK(h, hd2[u])
  BY <1>1 DEF OwnershipOf
<1>4. \A u, v \in Slots : u # v => BlocksOf(hd2[u]) \cap BlocksOf(hd2[v]) = {}
  <2>1. \A u \in Slots \ {s, t} : /\ BlocksOf(hd[u]) \cap BlocksOf(x) = {}
                                  /\ BlocksOf(hd[u]) \cap BlocksOf(y) = {}
    BY DEF OwnershipOf
  <2>2. \A u, v \in Slots \ {s, t} : u # v => BlocksOf(hd[u]) \cap BlocksOf(hd[v]) = {}
    BY DEF OwnershipOf
  <2> QED BY <1>1, <2>1, <2>2
<1>5. \A b \in Blocks : h[b].live => b \in d \/ \E u \in Slots : b \in BlocksOf(hd2[u])
  <2> SUFFICES ASSUME NEW b \in Blocks, h[b].live, b \notin d
               PROVE  \E u \in Slots : b \in BlocksOf(hd2[u])
    OBVIOUS
  <2>1. PICK u \in Slots : b \in BlocksOf(hd[u])
    BY DEF OwnershipOf
  <2> QED BY <1>1, <1>2, <2>1
<1> QED BY <1>1, <1>3, <1>4, <1>5 DEF OwnershipOf

\* What is allocated and lost touches no holding.
LEMMA BlocksDropped ==
  ASSUME MemoryAssumption, NEW h, NEW hd, NEW d, OwnershipOf(h, hd, d),
         NEW h2 \in Heaps, NEW d2, d \subseteq d2, d2 \subseteq Blocks,
         \A b \in Blocks : h2[b] # h[b] => ~h[b].live /\ b \in d2
  PROVE  OwnershipOf(h2, hd, d2)
<1>1. \A s \in Slots : \A b \in BlocksOf(hd[s]) : h2[b] = h[b]
  BY HeldIsLive DEF OwnershipOf, BlocksOf
<1>2. \A s \in Slots : HoldingOK(h2, hd[s])
  BY <1>1, HoldingFrame DEF OwnershipOf
<1> QED BY <1>2 DEF OwnershipOf

\* At most one block is allocated, for the slot that is filled.
LEMMA SlotFilled ==
  ASSUME MemoryAssumption, NEW h, NEW hd, NEW d, OwnershipOf(h, hd, d),
         NEW t \in Slots, hd[t] = Nothing, NEW b \in Available(h),
         NEW h2, NEW x, NEW ptr, NEW hd2, hd2 = [hd EXCEPT ![t] = x],
         Allocates(h, b, h2, ptr), HoldingOK(h2, x), BlocksOf(x) = Blocks \cap {ptr}
  PROVE  OwnershipOf(h2, hd2, d)
<1>1. BlocksOf(hd[t]) = {}
  BY NothingFacts
<1>2. b \in Blocks /\ ~h[b].live
  BY DEF Available
<1>3. /\ h2 \in Heaps
      /\ \A c \in Blocks : c # b => h2[c] = h[c]
      /\ ptr \in Blocks => ptr = b
      /\ ptr \notin Blocks => h2 = h
  BY DEF Allocates
<1>4. \A c \in Blocks : h2[c] # h[c] => ~h[c].live
  BY <1>2, <1>3
<1>5. \A c \in BlocksOf(x) : ~h[c].live
  BY <1>2, <1>3
<1>6. \A c \in Blocks : h2[c].live => c \in BlocksOf(x) \/ h[c].live
  <2>1. CASE ptr \in Blocks
    BY <1>3, <2>1
  <2>2. CASE ptr \notin Blocks
    BY <1>3, <2>2
  <2> QED BY <2>1, <2>2
<1>7. d \subseteq Blocks
  BY DEF OwnershipOf
<1>8. Replaces(h, hd, d, t, x, h2, hd2, d)
  BY <1>1, <1>3, <1>4, <1>5, <1>6, <1>7 DEF Replaces
<1> QED BY <1>8, HoldingChanges

\* A slot is emptied, and its blocks are freed.
Empties(h, hd, s, h2, hd2) ==
  /\ hd2 = [hd EXCEPT ![s] = Nothing]
  /\ h2 \in Heaps
  /\ \A b \in Blocks : h2[b] = IF b \in BlocksOf(hd[s]) THEN Unallocated ELSE h[b]

\* Such a change is sound, too.
LEMMA SlotFreed ==
  ASSUME MemoryAssumption, NEW h, NEW hd, NEW d, OwnershipOf(h, hd, d),
         NEW s \in Slots, NEW h2, NEW hd2, Empties(h, hd, s, h2, hd2)
  PROVE  OwnershipOf(h2, hd2, d)
<1>0. /\ hd2 = [hd EXCEPT ![s] = Nothing] /\ h2 \in Heaps
      /\ \A b \in Blocks :
           h2[b] = IF b \in BlocksOf(hd[s]) THEN Unallocated ELSE h[b]
  BY DEF Empties
<1>1. HoldingOK(h2, Nothing) /\ BlocksOf(Nothing) = {}
  BY NothingFacts
<1>2. ~Unallocated.live
  BY DEF Unallocated
<1>3. d \subseteq Blocks
  BY DEF OwnershipOf
<1>4. Replaces(h, hd, d, s, Nothing, h2, hd2, d)
  BY <1>0, <1>1, <1>2, <1>3 DEF Replaces
<1> QED BY <1>4, HoldingChanges

\* Ownership of the next state from that of its heap and holdings.
LEMMA OwnershipNext ==
  ASSUME Ownership, ~corrupted', alive' \in BOOLEAN,
         OwnershipOf(heap', held', dropped')
  PROVE  Ownership'
<1>1. OwnershipOf(heap, held, dropped)' = OwnershipOf(heap', held', dropped')
  BY DEF OwnershipOf
<1> QED BY <1>1 DEF Ownership

\* A call on a buffer that is held reads within its block.
LEMMA InputReadable ==
  ASSUME Ownership, NEW s \in Slots
  PROVE  Readable(heap, Input(s))
BY FitsIsReadable DEF Ownership, OwnershipOf, HoldingOK, Input

-----------------------------------------------------------------------------
(***************************************************************************)
(* Results of calls, made in a heap that the call has left.                *)
(***************************************************************************)

\* A result with an answer that was made for it fills the slot.
LEMMA AnswerStep ==
  ASSUME MemoryAssumption, NEW h, NEW hd, NEW d, OwnershipOf(h, hd, d),
         NEW t \in Slots, AnswerNextTo(hd, t, h)
  PROVE  OwnershipOf(heap', held', d) /\ alive' = alive
<1>0. h \in Heaps
  BY DEF OwnershipOf
<1>1. PICK b \in Available(h) :
        \/ \E capacity \in 0 .. MaxSize :
             LET out == BufferNew(h, b, capacity)
             IN  ReceiveNextTo(hd, t, out.heap, AsResult(ResultOk(out.val)))
        \/ \E bytes \in Strings : \E capacity \in Shrunk(bytes) :
             LET out == BufferFromVec(h, b, bytes, capacity)
             IN  ReceiveNextTo(hd, t, out.heap, AsResult(ResultOk(out.val)))
  BY DEF AnswerNextTo
<1>2. ASSUME NEW h2, NEW buf \in BufferType, Allocates(h, b, h2, buf.data),
             BufferFits(h2, buf), ReceiveNextTo(hd, t, h2, AsResult(ResultOk(buf)))
      PROVE  OwnershipOf(heap', held', d) /\ alive' = alive
  <2> DEFINE x == AsResult(ResultOk(buf))
  <2>1. /\ heap' = h2 /\ held' = [hd EXCEPT ![t] = x]
        /\ alive' = alive /\ hd[t] = Nothing
    BY <1>2 DEF ReceiveNextTo
  <2>2. HoldingOK(h2, x) /\ BlocksOf(x) = Blocks \cap {buf.data}
    BY <1>2, PayloadHolding DEF AsResult
  <2> HIDE DEF x
  <2>3. OwnershipOf(h2, held', d)
    BY <1>2, <2>1, <2>2, SlotFilled
  <2> QED BY <2>1, <2>3
<1>3. ASSUME NEW capacity \in 0 .. MaxSize,
             LET out == BufferNew(h, b, capacity)
             IN  ReceiveNextTo(hd, t, out.heap, AsResult(ResultOk(out.val)))
      PROVE  OwnershipOf(heap', held', d) /\ alive' = alive
  <2> DEFINE out == BufferNew(h, b, capacity)
  <2>1. /\ Allocates(h, b, out.heap, out.val.data)
        /\ out.val \in BufferType /\ BufferFits(out.heap, out.val)
    BY <1>0, BufferNewFacts DEF Available
  <2>2. ReceiveNextTo(hd, t, out.heap, AsResult(ResultOk(out.val)))
    BY <1>3
  <2> HIDE DEF out
  <2> QED BY <1>2, <2>1, <2>2
<1>4. ASSUME NEW bytes \in Strings, NEW capacity \in Shrunk(bytes),
             LET out == BufferFromVec(h, b, bytes, capacity)
             IN  ReceiveNextTo(hd, t, out.heap, AsResult(ResultOk(out.val)))
      PROVE  OwnershipOf(heap', held', d) /\ alive' = alive
  <2> DEFINE out == BufferFromVec(h, b, bytes, capacity)
  <2>1. /\ Allocates(h, b, out.heap, out.val.data)
        /\ out.val \in BufferType /\ BufferFits(out.heap, out.val)
    BY <1>0, BufferFromVecFacts DEF Available
  <2>2. ReceiveNextTo(hd, t, out.heap, AsResult(ResultOk(out.val)))
    BY <1>4
  <2> HIDE DEF out
  <2> QED BY <1>2, <2>1, <2>2
<1> QED BY <1>1, <1>3, <1>4

\* So does an error result, with its message.
LEMMA FailStep ==
  ASSUME MemoryAssumption, NEW h, NEW hd, NEW d, OwnershipOf(h, hd, d),
         NEW t \in Slots, NEW error \in ErrorVariants, FailNextTo(hd, t, h, error)
  PROVE  OwnershipOf(heap', held', d) /\ alive' = alive
<1>1. PICK b \in Available(h) :
        LET out == ResultErr(h, b, error)
        IN  ReceiveNextTo(hd, t, out.heap, AsResult(out.val))
  BY DEF FailNextTo
<1> DEFINE out == ResultErr(h, b, error)
           x == AsResult(out.val)
<1>2. b \in Blocks /\ h \in Heaps
  BY DEF Available, OwnershipOf
<1>3. /\ Allocates(h, b, out.heap, out.val.error_message.data)
      /\ out.val.error_message.data = b
      /\ out.val.error_message \in StringType
      /\ StringFits(out.heap, out.val.error_message)
      /\ out.val = [error_code    |-> Code(error),
                    error_message |-> out.val.error_message,
                    payload       |-> NullBuffer]
  BY <1>2, ResultErrFacts
<1>4. ReceiveNextTo(hd, t, out.heap, x)
  BY <1>1
<1> HIDE DEF out
<1>5. HoldingOK(out.heap, x) /\ BlocksOf(x) = Blocks \cap {out.val.error_message.data}
  BY <1>3, ErrorHolding
<1> HIDE DEF x
<1>6. /\ held' = [hd EXCEPT ![t] = x] /\ heap' = out.heap /\ alive' = alive
      /\ hd[t] = Nothing
  BY <1>4 DEF ReceiveNextTo
<1>7. OwnershipOf(out.heap, held', d)
  BY <1>3, <1>5, <1>6, SlotFilled
<1> QED BY <1>6, <1>7

\* A step that allocates at most one block, for the slot it fills.
LEMMA ReceiveStep ==
  ASSUME MemoryAssumption, Ownership, NEW t \in Slots, NEW b \in Available(heap),
         NEW h, NEW x, NEW ptr, Receive(t, h, x),
         Allocates(heap, b, h, ptr), HoldingOK(h, x), BlocksOf(x) = Blocks \cap {ptr},
         ~corrupted', dropped' = dropped
  PROVE  Ownership'
<1>1. /\ held' = [held EXCEPT ![t] = x] /\ heap' = h /\ alive' = alive
      /\ held[t] = Nothing
  BY DEF Receive, ReceiveNextTo
<1>2. OwnershipOf(h, held', dropped)
  BY <1>1, SlotFilled DEF Ownership
<1>3. OwnershipOf(heap', held', dropped')
  BY <1>1, <1>2
<1> QED BY <1>1, <1>3, OwnershipNext DEF Ownership

\* A call that answers with bytes fills a free slot with a buffer of them.
LEMMA FromVecStep ==
  ASSUME MemoryAssumption, Ownership, NEW t \in Slots,
         NEW kind \in {"buffer", "value", "result"}, NEW bytes \in Strings,
         kind = "value" => Decodes(bytes),
         FromVec(t, kind, bytes), ~corrupted', dropped' = dropped
  PROVE  Ownership'
<1>1. PICK b \in Available(heap), capacity \in Shrunk(bytes) :
        LET out == BufferFromVec(heap, b, bytes, capacity)
        IN  Receive(t, out.heap, Holding(kind, ResultOk(out.val)))
  BY DEF FromVec
<1> DEFINE out == BufferFromVec(heap, b, bytes, capacity)
           x == Holding(kind, ResultOk(out.val))
<1>2. /\ Allocates(heap, b, out.heap, out.val.data)
      /\ out.val \in BufferType
      /\ BufferFits(out.heap, out.val)
      /\ AsSlice(out.heap, out.val) = bytes
  BY BufferFromVecFacts DEF Available, Ownership, OwnershipOf
<1>3. Receive(t, out.heap, x)
  BY <1>1
<1> HIDE DEF out
<1>4. HoldingOK(out.heap, x) /\ BlocksOf(x) = Blocks \cap {out.val.data}
  BY <1>2, PayloadHolding
<1> HIDE DEF x
<1> QED BY <1>2, <1>3, <1>4, ReceiveStep

\* Whether the program frees its buffer or a callback does: the block is freed
\* with its own layout, and the program is left without it.
LEMMA BufferFreed ==
  ASSUME MemoryAssumption, Ownership, NEW s \in Slots, held[s].kind = "buffer"
  PROVE  LET out == BufferDealloc(heap, Input(s)) IN
         out.ok /\ OwnershipOf(out.heap, Without(s), dropped)
<1> DEFINE out == BufferDealloc(heap, Input(s))
           has == Without(s)
<1>1. heap \in Heaps /\ HoldingOK(heap, held[s])
  BY DEF Ownership, OwnershipOf
<1>2. out.ok /\ Frees(heap, out.heap, Input(s).data)
  BY <1>1, BufferDeallocFacts DEF HoldingOK, Input
<1>3. BlocksOf(held[s]) = Blocks \cap {Input(s).data}
  BY <1>1, NoBlock DEF HoldingOK, KindOK, BlocksOf, Input, NullString
<1>4. has = [held EXCEPT ![s] = Nothing]
  BY DEF Without
<1> HIDE DEF out, has
<1>5. Empties(heap, held, s, out.heap, has)
  BY <1>2, <1>3, <1>4 DEF Frees, Empties
<1>6. OwnershipOf(heap, held, dropped)
  BY DEF Ownership
<1>7. OwnershipOf(out.heap, has, dropped)
  BY <1>5, <1>6, SlotFreed
<1> QED BY <1>2, <1>7 DEF out, has

\* A program that keeps the rules knows what it has of a buffer.
LEMMA RulesKept ==
  ASSUME Ownership, NEW s \in Slots
  PROVE  /\ Left(s) = {held}
         /\ Taken(s) = {Without(s)}
         /\ Freed(s) = {Without(s)}
         /\ Passes(s) => held[s].kind = "buffer"
<1>1. {"keep_left"} \ Rules = {} /\ {"give_up_taken"} \ Rules = {} /\ {"free_last"} \ Rules = {}
  BY DEF Ownership, RuleNames
<1>2. held[s].kind # "freed"
  BY DEF Ownership, OwnershipOf, Holdings, Kinds
<1> QED BY <1>1, <1>2 DEF Left, Taken, Freed, Passes

\* However the callback treats its input, the rest of the call starts from a
\* sound heap.
LEMMA TreatmentFacts ==
  ASSUME MemoryAssumption, Ownership, NEW s \in Slots, NEW in \in Treatments(s),
         Runs(s, in)
  PROVE  ~corrupted' /\ OwnershipOf(in.heap, in.has, dropped)
<1>1. held[s].kind = "buffer" /\ Left(s) = {held} /\ Taken(s) = {Without(s)}
  BY RulesKept DEF Runs
<1> DEFINE out   == BufferDealloc(heap, Input(s))
           left  == [heap |-> heap, ok |-> TRUE, has |-> held]
           freed == [heap |-> out.heap, ok |-> out.ok, has |-> Without(s)]
<1>2. in = left \/ in = freed
  BY <1>1 DEF Treatments
<1>3. OwnershipOf(left.heap, left.has, dropped) /\ left.ok
  BY DEF Ownership
<1>4. OwnershipOf(freed.heap, freed.has, dropped) /\ freed.ok
  BY <1>1, BufferFreed
<1> HIDE DEF left, freed
<1>5. in.ok /\ OwnershipOf(in.heap, in.has, dropped)
  BY <1>2, <1>3, <1>4
<1> QED BY <1>5, InputReadable DEF Runs, Ownership

\* The message of a successful callback is allocated, and lost.
LEMMA MessageFacts ==
  ASSUME MemoryAssumption, NEW h, NEW hd, NEW d, OwnershipOf(h, hd, d),
         NEW msg \in Messages(h), NEW d2,
         d2 = d \cup (Blocks \cap {msg.val.data})
  PROVE  OwnershipOf(msg.heap, hd, d2)
<1>1. h \in Heaps /\ d \subseteq d2 /\ d2 \subseteq Blocks
  BY DEF OwnershipOf
<1>2. CASE msg = [heap |-> h, val |-> NullString]
  BY <1>1, <1>2, BlocksDropped
<1>3. ASSUME NEW m \in Available(h), msg = StringNew(h, m, Message)
      PROVE  OwnershipOf(msg.heap, hd, d2)
  <2>1. m \in Blocks /\ ~h[m].live
    BY DEF Available
  <2>2. Message \in Strings /\ IsUtf8(Message)
    BY ShortStrings, MemoryAssumption DEF Message
  <2>3. Allocates(h, m, msg.heap, msg.val.data)
    BY <1>1, <1>3, <2>1, <2>2, StringNewFacts
  <2>4. \A b \in Blocks : msg.heap[b] # h[b] => b = m /\ msg.val.data = m
    BY <2>3 DEF Allocates
  <2>5. msg.heap \in Heaps
    BY <2>3 DEF Allocates
  <2> QED BY <1>1, <2>1, <2>4, <2>5, BlocksDropped
<1> QED BY <1>2, <1>3 DEF Messages

\* An error result allocates its block for the message.
LEMMA ErrAllocates ==
  ASSUME MemoryAssumption, NEW h \in Heaps, NEW m \in Blocks, NEW error
  PROVE  LET out == ResultErr(h, m, error) IN
         Allocates(h, m, out.heap, m) /\ out.val.error_message.data = m
<1> DEFINE out == ResultErr(h, m, error)
<1>1. /\ Allocates(h, m, out.heap, out.val.error_message.data)
      /\ out.val.error_message.data = m
      /\ out.val.error_message \in StringType
      /\ StringFits(out.heap, out.val.error_message)
      /\ out.val = [error_code    |-> Code(error),
                    error_message |-> out.val.error_message,
                    payload       |-> NullBuffer]
  BY ResultErrFacts
<1> HIDE DEF out
<1>2. Allocates(h, m, out.heap, m) /\ out.val.error_message.data = m
  BY <1>1
<1> QED BY <1>2 DEF out

\* The result of a callback that failed: it has allocated free blocks, and
\* its own result is all that points to them.
LEMMA CallbackResultFacts ==
  ASSUME MemoryAssumption, NEW h \in Heaps, NEW res \in CallbackResults(h)
  PROVE  /\ res.heap \in Heaps
         /\ \A b \in Blocks : res.heap[b] # h[b] =>
              /\ ~h[b].live
              /\ b \in {res.val.error_message.data, res.val.payload.data}
<1> DEFINE Made(h2, v) ==
             /\ h2 \in Heaps
             /\ \A b \in Blocks : h2[b] # h[b] =>
                  ~h[b].live /\ b \in {v.error_message.data, v.payload.data}
           error == "Serialization"
<1>3. \/ \E m \in Available(h) : res = ResultErr(h, m, error)
      \/ \E p \in Available(h), m \in Available(h) :
           /\ p # m
           /\ LET payload == BufferNew(h, p, 1)
              IN  res = [ResultErr(payload.heap, m, error) EXCEPT !.val.payload = payload.val]
  BY DEF CallbackResults
<1> HIDE DEF error
<1>1. ASSUME NEW m \in Available(h), res = ResultErr(h, m, error)
      PROVE  Made(res.heap, res.val)
  <2>1. m \in Blocks /\ ~h[m].live
    BY DEF Available
  <2>2. /\ Allocates(h, m, res.heap, res.val.error_message.data)
        /\ res.val.error_message.data = m
    BY <1>1, <2>1, ErrAllocates
  <2> QED BY <2>1, <2>2 DEF Allocates
<1>2. ASSUME NEW p \in Available(h), NEW m \in Available(h), p # m,
             LET payload == BufferNew(h, p, 1)
             IN  res = [ResultErr(payload.heap, m, error) EXCEPT !.val.payload = payload.val]
      PROVE  Made(res.heap, res.val)
  <2> DEFINE payload == BufferNew(h, p, 1)
             failed  == ResultErr(payload.heap, m, error)
  <2>1. /\ p \in Blocks /\ ~h[p].live /\ m \in Blocks /\ ~h[m].live
    BY DEF Available
  <2>2. Allocates(h, p, payload.heap, payload.val.data) /\ payload.val.data = p
    <3>1. 1 \in 0 .. MaxSize
      BY MemoryAssumption DEF MemoryAssumption
    <3>2. payload.val.data = p
      BY DEF BufferNew
    <3> QED BY <2>1, <3>1, <3>2, BufferNewFacts
  <2> HIDE DEF payload
  <2>3. payload.heap \in Heaps
    BY <2>2 DEF Allocates
  <2>4. /\ Allocates(payload.heap, m, failed.heap, failed.val.error_message.data)
        /\ failed.val.error_message.data = m
    BY <2>1, <2>3, ErrAllocates
  <2>5. /\ res.heap = failed.heap
        /\ res.val.error_message.data = m /\ res.val.payload.data = p
    <3>1. res = [failed EXCEPT !.val.payload = payload.val]
      BY <1>2 DEF payload
    <3>2. failed = [heap |-> failed.heap, val |-> failed.val]
      BY DEF ResultErr
    <3>3. failed.val = [error_code    |-> Code(error),
                        error_message |-> failed.val.error_message,
                        payload       |-> NullBuffer]
      BY DEF ResultErr
    <3> HIDE DEF failed
    <3> QED BY <2>2, <2>4, <3>1, <3>2, <3>3
  <2> HIDE DEF failed
  <2>6. \A b \in Blocks : res.heap[b] # h[b] => b \in {p, m}
    BY <2>2, <2>4, <2>5 DEF Allocates
  <2>7. failed.heap \in Heaps
    BY <2>1, <2>4 DEF Allocates
  <2> QED BY <2>1, <2>5, <2>6, <2>7
<1> QED BY <1>1, <1>2, <1>3

-----------------------------------------------------------------------------
(***************************************************************************)
(* The steps.                                                              *)
(***************************************************************************)

\* The exported functions that make a value keep Ownership.
LEMMA CreateStep ==
  ASSUME MemoryAssumption, Ownership, NEW t \in Slots, Create(t), dropped' = dropped
  PROVE  Ownership'
<1>0. heap \in Heaps /\ \A b \in Available(heap) : b \in Blocks
  BY DEF Ownership, OwnershipOf, Available
<1>1. CASE BufferAlloc(t)
  <2>1. PICK capacity \in 0 .. MaxSize, b \in Available(heap) :
          LET out == BufferNew(heap, b, capacity)
          IN  Receive(t, out.heap, AsBuffer(out.val)) /\ UNCHANGED corrupted
    BY <1>1 DEF BufferAlloc
  <2> DEFINE out == BufferNew(heap, b, capacity)
  <2>2. /\ Allocates(heap, b, out.heap, out.val.data)
        /\ out.val \in BufferType /\ BufferFits(out.heap, out.val)
    BY <1>0, BufferNewFacts
  <2>3. Receive(t, out.heap, AsBuffer(out.val)) /\ ~corrupted'
    BY <2>1 DEF Ownership
  <2> HIDE DEF out
  <2>4. /\ HoldingOK(out.heap, AsBuffer(out.val))
        /\ BlocksOf(AsBuffer(out.val)) = Blocks \cap {out.val.data}
    BY <2>2, PayloadHolding DEF AsBuffer
  <2> QED BY <2>2, <2>3, <2>4, ReceiveStep
<1>2. CASE StringAlloc(t)
  <2>1. PICK bytes \in Strings, b \in Available(heap) :
          LET out == IF IsUtf8(bytes) THEN StringNew(heap, b, bytes)
                                      ELSE [heap |-> heap, val |-> NullString]
          IN  Receive(t, out.heap, AsString(out.val)) /\ UNCHANGED corrupted
    BY <1>2 DEF StringAlloc
  <2> DEFINE out == IF IsUtf8(bytes) THEN StringNew(heap, b, bytes)
                                     ELSE [heap |-> heap, val |-> NullString]
  <2>2. /\ Allocates(heap, b, out.heap, out.val.data)
        /\ out.val \in StringType /\ StringFits(out.heap, out.val)
    <3>1. CASE IsUtf8(bytes)
      BY <1>0, <3>1, StringNewFacts
    <3>2. CASE ~IsUtf8(bytes)
      BY <1>0, <3>2, NoBlock DEF Allocates, NullString
    <3> QED BY <3>1, <3>2
  <2>3. Receive(t, out.heap, AsString(out.val)) /\ ~corrupted'
    BY <2>1 DEF Ownership
  <2> HIDE DEF out
  <2>4. /\ HoldingOK(out.heap, AsString(out.val))
        /\ BlocksOf(AsString(out.val)) = Blocks \cap {out.val.data}
    BY <2>2, StringHolding
  <2> QED BY <2>2, <2>3, <2>4, ReceiveStep
<1>3. CASE Version(t)
  <2>1. Message \in Strings
    BY ShortStrings DEF Message
  <2> QED BY <1>3, <2>1, FromVecStep DEF Version, Ownership
<1>4. ASSUME NEW kind \in {"buffer", "value"}, FromJson(t, kind)
      PROVE  Ownership'
  <2>1. PICK bytes \in Encodings : FromVec(t, kind, bytes)
    BY <1>4 DEF FromJson
  <2>2. bytes \in Strings /\ Decodes(bytes)
    BY DEF Encodings
  <2>3. ~corrupted'
    BY <1>4 DEF FromJson, Ownership
  <2>4. kind \in {"buffer", "value", "result"}
    BY <1>4
  <2> QED BY <2>1, <2>2, <2>3, <2>4, FromVecStep
<1> QED BY <1>1, <1>2, <1>3, <1>4 DEF Create

\* So do the calls on a held buffer that answer with bytes or an error of their
\* own, and the callback that panics.
LEMMA CallStep ==
  ASSUME MemoryAssumption, Ownership, NEW s \in Slots, NEW t \in Slots,
         Call(s, t), ~TakePayload(s, t), dropped' = dropped
  PROVE  Ownership'
<1>0. OwnershipOf(heap, held, dropped) /\ ~corrupted /\ alive \in BOOLEAN
  BY DEF Ownership
<1>1. Reads(s) => ~corrupted'
  BY <1>0, InputReadable DEF Reads
<1>2. ASSUME NEW error \in ErrorVariants, Fail(t, error), ~corrupted'
      PROVE  Ownership'
  <2>1. OwnershipOf(heap', held', dropped) /\ alive' = alive
    BY <1>0, <1>2, FailStep DEF Fail
  <2> QED BY <1>0, <1>2, <2>1, OwnershipNext
<1>3. ASSUME NEW bytes \in Strings, Succeed(t, bytes), ~corrupted'
      PROVE  Ownership'
  BY <1>3, FromVecStep DEF Succeed
<1>4. CASE Echo(s, t)
  <2>1. held[s].value.payload.len \in 0 .. MaxSize
    BY TypesAgree DEF Ownership, OwnershipOf, Holdings, BufferType
  <2>2. AsSlice(heap, Input(s)) \in Strings
    BY <2>1, AsSliceType DEF Ownership, OwnershipOf, Input
  <2> QED BY <1>1, <1>3, <1>4, <2>2 DEF Echo
<1>5. CASE BridgeCallRun(s, t)
  <2>1. CASE AnswerNextTo(held, t, heap)
    <3>1. OwnershipOf(heap', held', dropped) /\ alive' = alive
      BY <1>0, <2>1, AnswerStep
    <3> QED BY <1>0, <1>1, <1>5, <3>1, OwnershipNext DEF BridgeCallRun
  <2> QED BY <1>1, <1>2, <1>5, <2>1 DEF BridgeCallRun
<1>6. CASE BridgeCallRunJson(s, t)
  <2>1. Encodings \subseteq Strings
    BY DEF Encodings
  <2> QED BY <1>1, <1>2, <1>3, <1>6, <2>1, ErrorCodes DEF BridgeCallRunJson
<1>7. CASE InvokeRefused(s, t)
  <2>1. PICK error \in {"NullPointer", "InvalidUtf8", "NotFound", "LockPoisoned"} :
          \E has \in Left(s) : FailNextTo(has, t, heap, error)
    BY <1>7 DEF InvokeRefused
  <2>2. Fail(t, error)
    BY <2>1, RulesKept DEF Fail
  <2> QED BY <1>0, <1>2, <1>7, <2>2, ErrorCodes DEF InvokeRefused
<1>8. CASE InvokePanics(s, t)
  <2>1. PICK in \in Treatments(s) :
          Runs(s, in) /\ FailNextTo(in.has, t, in.heap, "Panic")
    BY <1>8 DEF InvokePanics
  <2>2. ~corrupted' /\ OwnershipOf(in.heap, in.has, dropped)
    BY <2>1, TreatmentFacts
  <2>3. OwnershipOf(heap', held', dropped) /\ alive' = alive
    BY <2>1, <2>2, ErrorCodes, FailStep
  <2> QED BY <1>0, <2>2, <2>3, OwnershipNext
<1> QED BY <1>4, <1>5, <1>6, <1>7, <1>8 DEF Call

\* A callback that succeeds has its answer moved out, and its message lost.
LEMMA InvokeSucceedsStep ==
  ASSUME MemoryAssumption, Ownership, NEW s \in Slots, NEW t \in Slots,
         InvokeSucceeds(s, t)
  PROVE  Ownership'
<1>1. PICK in \in Treatments(s) :
        /\ Runs(s, in)
        /\ \E msg \in Messages(in.heap) :
             /\ AnswerNextTo(in.has, t, msg.heap)
             /\ dropped' = dropped \cup (Blocks \cap {msg.val.data})
  BY DEF InvokeSucceeds
<1>2. ~corrupted' /\ OwnershipOf(in.heap, in.has, dropped)
  BY <1>1, TreatmentFacts
<1>3. PICK msg \in Messages(in.heap) :
        /\ AnswerNextTo(in.has, t, msg.heap)
        /\ dropped' = dropped \cup (Blocks \cap {msg.val.data})
  BY <1>1
<1>4. OwnershipOf(msg.heap, in.has, dropped')
  BY <1>2, <1>3, MessageFacts
<1>5. OwnershipOf(heap', held', dropped') /\ alive' = alive
  BY <1>3, <1>4, AnswerStep
<1> QED BY <1>2, <1>5, OwnershipNext DEF Ownership

\* One that answers with its input: the program, which gives up what it has
\* passed, receives the same buffer again.
LEMMA InvokeReturnsInputStep ==
  ASSUME MemoryAssumption, Ownership, NEW s \in Slots, NEW t \in Slots, s # t,
         InvokeReturnsInput(s, t)
  PROVE  Ownership'
<1> DEFINE y == AsResult(ResultOk(Input(s)))
<1>1. PICK has \in Taken(s), msg \in Messages(heap) :
        /\ ReceiveNextTo(has, t, msg.heap, y)
        /\ dropped' = dropped \cup (Blocks \cap {msg.val.data})
  BY DEF InvokeReturnsInput
<1>2. has = Without(s) /\ held[s].kind = "buffer"
  BY RulesKept DEF InvokeReturnsInput, Runs
<1>3. ~corrupted'
  BY InputReadable DEF InvokeReturnsInput, Runs, Untouched, Ownership
<1>4. OwnershipOf(msg.heap, held, dropped')
  BY <1>1, MessageFacts DEF Ownership
<1>5. /\ HoldingOK(msg.heap, held[s]) /\ held[s] \in Holdings
      /\ held \in [Slots -> Holdings]
  BY <1>4 DEF OwnershipOf
<1>6. Input(s) \in BufferType /\ BufferFits(msg.heap, Input(s))
  BY <1>5, TypesAgree DEF HoldingOK, Holdings, Input
<1>7. HoldingOK(msg.heap, y) /\ BlocksOf(y) = Blocks \cap {Input(s).data}
  BY <1>6, PayloadHolding DEF AsResult
<1> HIDE DEF y
<1>8. BlocksOf(held[s]) = BlocksOf(y)
  BY <1>2, <1>5, <1>7, NoBlock DEF HoldingOK, KindOK, BlocksOf, Input, NullString
<1>9. HoldingOK(msg.heap, Nothing) /\ BlocksOf(Nothing) = {}
  BY NothingFacts
<1>10. /\ heap' = msg.heap /\ alive' = alive
       /\ held' = [[held EXCEPT ![s] = Nothing] EXCEPT ![t] = y]
  BY <1>1, <1>2 DEF ReceiveNextTo, Without
<1>11. held[t] = Nothing
  BY <1>1, <1>2, <1>5 DEF ReceiveNextTo, Without
<1>12. OwnershipOf(msg.heap, held', dropped')
  BY <1>4, <1>7, <1>8, <1>9, <1>10, <1>11, HoldingMoves
<1>13. OwnershipOf(heap', held', dropped')
  BY <1>10, <1>12
<1> QED BY <1>3, <1>10, <1>13, OwnershipNext DEF Ownership

\* A failed callback's message is lost, and its payload too if it left one;
\* the caller gets a message of its own.
LEMMA InvokeFailsStep ==
  ASSUME MemoryAssumption, Ownership, NEW s \in Slots, NEW t \in Slots,
         InvokeFails(s, t)
  PROVE  Ownership'
<1>1. PICK in \in Treatments(s) :
        /\ Runs(s, in)
        /\ \E res \in CallbackResults(in.heap) :
             /\ FailNextTo(in.has, t, res.heap, "Unknown")
             /\ dropped' = dropped \cup
                  (Blocks \cap {res.val.error_message.data, res.val.payload.data})
  BY DEF InvokeFails
<1>2. ~corrupted' /\ OwnershipOf(in.heap, in.has, dropped) /\ in.heap \in Heaps
  BY <1>1, TreatmentFacts DEF OwnershipOf
<1>3. PICK res \in CallbackResults(in.heap) :
        /\ FailNextTo(in.has, t, res.heap, "Unknown")
        /\ dropped' = dropped \cup
             (Blocks \cap {res.val.error_message.data, res.val.payload.data})
  BY <1>1
<1>4. /\ res.heap \in Heaps
      /\ \A b \in Blocks : res.heap[b] # in.heap[b] => ~in.heap[b].live /\ b \in dropped'
  BY <1>2, <1>3, CallbackResultFacts
<1>5. dropped \subseteq dropped' /\ dropped' \subseteq Blocks
  BY <1>3 DEF Ownership, OwnershipOf
<1>6. OwnershipOf(res.heap, in.has, dropped')
  BY <1>2, <1>4, <1>5, BlocksDropped
<1>7. OwnershipOf(heap', held', dropped') /\ alive' = alive
  BY <1>3, <1>6, ErrorCodes, FailStep
<1> QED BY <1>2, <1>7, OwnershipNext DEF Ownership

\* Write keeps within the block, whose layout it does not touch.
LEMMA WriteStep ==
  ASSUME MemoryAssumption, Ownership, NEW s \in Slots, Write(s), dropped' = dropped
  PROVE  Ownership'
<1> DEFINE buf == Input(s)
<1>1. PICK bytes \in Strings :
        /\ Len(bytes) <= buf.capacity
        /\ heap' = [heap EXCEPT ![buf.data].bytes = bytes]
        /\ held' = [held EXCEPT ![s].value.payload.len = Len(bytes)]
  BY DEF Write
<1>2. /\ heap \in Heaps /\ HoldingOK(heap, held[s]) /\ held[s] \in Holdings
      /\ held[s].kind = "buffer" /\ buf.data \in Blocks
      /\ held[s].value.error_message = NullString
      /\ buf \in BufferType /\ BufferFits(heap, buf)
  BY TypesAgree DEF Ownership, OwnershipOf, HoldingOK, KindOK, Write, Input, Holdings
<1>3. Len(bytes) \in 0 .. MaxSize
  BY StringFacts
<1> DEFINE newbuf == [data |-> buf.data, len |-> Len(bytes), capacity |-> buf.capacity]
           value  == [held[s].value EXCEPT !.payload = newbuf]
           x      == [kind |-> "buffer", value |-> value]
           block  == [live |-> heap[buf.data].live, size |-> heap[buf.data].size,
                      bytes |-> bytes]
<1>4. held' = [held EXCEPT ![s] = x]
  <2>1. newbuf = [buf EXCEPT !.len = Len(bytes)]
    BY <1>2 DEF BufferType
  <2>2. held[s] = [kind |-> "buffer", value |-> held[s].value]
    BY <1>2 DEF Holdings
  <2>3. held[s].value = [error_code |-> held[s].value.error_code,
                         error_message |-> held[s].value.error_message,
                         payload |-> buf]
    BY <1>2, TypesAgree DEF Holdings, Input
  <2>4. [held EXCEPT ![s].value.payload.len = Len(bytes)]
          = [held EXCEPT ![s] = [held[s] EXCEPT !.value.payload.len = Len(bytes)]]
    BY DEF Ownership, OwnershipOf
  <2>5. [held[s] EXCEPT !.value.payload.len = Len(bytes)]
          = [kind |-> "buffer", value |-> [held[s].value EXCEPT !.payload.len = Len(bytes)]]
    BY <2>2
  <2>6. [held[s].value EXCEPT !.payload.len = Len(bytes)]
          = [held[s].value EXCEPT !.payload = [buf EXCEPT !.len = Len(bytes)]]
    BY <2>3
  <2> HIDE DEF newbuf, buf
  <2> QED BY <1>1, <2>1, <2>4, <2>5, <2>6
<1>5. /\ heap' \in Heaps /\ heap'[buf.data] = block
      /\ \A b \in Blocks : b # buf.data => heap'[b] = heap[b]
  <2>1. heap' = [heap EXCEPT ![buf.data] = block]
    <3>1. [heap EXCEPT ![buf.data].bytes = bytes]
            = [heap EXCEPT ![buf.data] = [heap[buf.data] EXCEPT !.bytes = bytes]]
      BY <1>2 DEF Heaps
    <3>2. [heap[buf.data] EXCEPT !.bytes = bytes] = block
      BY <1>2 DEF Heaps
    <3> HIDE DEF buf, block
    <3> QED BY <1>1, <3>1, <3>2
  <2>2. block \in [live : BOOLEAN, size : 0 .. MaxSize, bytes : Strings]
    BY <1>2 DEF Heaps
  <2> HIDE DEF block
  <2> QED BY <1>2, <2>1, <2>2 DEF Heaps
<1>6. value \in Values /\ value.payload = newbuf /\ value.error_message = NullString
  <2>1. newbuf \in BufferType
    BY <1>2, <1>3 DEF BufferType
  <2>2. held[s].value \in Values
    BY <1>2 DEF Holdings
  <2> HIDE DEF newbuf
  <2> QED BY <1>2, <2>1, <2>2, TypesAgree
<1>7. BufferFits(heap', newbuf)
  BY <1>1, <1>2, <1>3, <1>5 DEF BufferFits, BufferType
<1>8. newbuf.data = buf.data
  OBVIOUS
<1> HIDE DEF newbuf, value, block
<1>9. HoldingOK(heap', x)
  BY <1>6, <1>7, NoBlock DEF HoldingOK, KindOK, Holdings, Kinds
<1>10. BlocksOf(x) = {buf.data} /\ BlocksOf(held[s]) = {buf.data}
  BY <1>2, <1>6, <1>8, NoBlock DEF BlocksOf, Input, NullString
<1> HIDE DEF x
<1>11. /\ ~corrupted' /\ alive' \in BOOLEAN
       /\ dropped \subseteq dropped' /\ dropped' \subseteq Blocks
  BY DEF Write, Ownership, OwnershipOf
<1>12. \A b \in Blocks : heap'[b] # heap[b] => b \in BlocksOf(held[s])
  BY <1>5, <1>10
<1>13. \A b \in Blocks : heap'[b].live =>
         b \in BlocksOf(x) \/ (heap[b].live /\ b \notin BlocksOf(held[s]))
  BY <1>5, <1>10
<1>14. \A b \in BlocksOf(x) : b \in BlocksOf(held[s])
  BY <1>10
<1> HIDE DEF buf
<1>15. Replaces(heap, held, dropped, s, x, heap', held', dropped')
  BY <1>4, <1>5, <1>9, <1>11, <1>12, <1>13, <1>14 DEF Replaces
<1>16. OwnershipOf(heap', held', dropped')
  BY <1>15, HoldingChanges DEF Ownership
<1> QED BY <1>11, <1>16, OwnershipNext

\* ffi_string_free and ffi_result_free empty the slot, and free its blocks.
LEMMA ReleaseStep ==
  ASSUME MemoryAssumption, Ownership, NEW s \in Slots, NEW kind, NEW out,
         Release(s, kind, out, Without(s)), dropped' = dropped,
         out.ok, out.heap \in Heaps,
         \A b \in Blocks : out.heap[b] = IF b \in BlocksOf(held[s]) THEN Unallocated
                                                                   ELSE heap[b]
  PROVE  Ownership'
<1>1. /\ heap' = out.heap /\ held' = [held EXCEPT ![s] = Nothing]
      /\ ~corrupted' /\ alive' \in BOOLEAN
  BY DEF Release, Without, Ownership
<1>2. OwnershipOf(out.heap, held', dropped)
  <2>1. OwnershipOf(heap, held, dropped)
    BY DEF Ownership
  <2>2. Empties(heap, held, s, out.heap, held')
    BY <1>1 DEF Empties
  <2> QED BY <2>1, <2>2, SlotFreed
<1>3. OwnershipOf(heap', held', dropped')
  BY <1>1, <1>2
<1> QED BY <1>1, <1>3, OwnershipNext

\* What a handle frees is what it holds.
LEMMA UseStep ==
  ASSUME MemoryAssumption, Ownership, NEW s \in Slots, Use(s), dropped' = dropped
  PROVE  Ownership'
<1>0. /\ heap \in Heaps /\ HoldingOK(heap, held[s])
      /\ NullBuffer.data \notin Blocks /\ NullString.data \notin Blocks
  BY NoBlock DEF Ownership, OwnershipOf, NullBuffer, NullString
<1>1. CASE Write(s)
  BY <1>1, WriteStep
<1>2. CASE Read(s)
  <2>1. ~corrupted'
    BY <1>0, <1>2, FitsIsReadable, FitsIsReadableString DEF Read, HoldingOK, Ownership
  <2>2. heap' = heap /\ held' = held /\ alive' = alive
    BY <1>2 DEF Read
  <2>3. OwnershipOf(heap', held', dropped')
    BY <2>2 DEF Ownership
  <2> QED BY <2>1, <2>2, <2>3, OwnershipNext DEF Ownership
<1>3. CASE BufferFree(s)
  <2> DEFINE out == BufferDealloc(heap, Input(s))
  <2>1. Release(s, "buffer", out, Without(s)) /\ held[s].kind = "buffer"
    BY <1>3, RulesKept DEF BufferFree, Release
  <2>2. out.ok /\ OwnershipOf(out.heap, Without(s), dropped)
    BY <2>1, BufferFreed
  <2> HIDE DEF out
  <2>3. ~corrupted' /\ alive' \in BOOLEAN
    BY <2>1, <2>2 DEF Release, Ownership
  <2>4. OwnershipOf(heap', held', dropped')
    BY <2>1, <2>2 DEF Release
  <2> QED BY <2>3, <2>4, OwnershipNext
<1>4. CASE StringFree(s)
  <2> DEFINE str == held[s].value.error_message
             out == StringDealloc(heap, str)
  <2>1. Release(s, "string", out, Without(s)) /\ held[s].kind = "string"
    BY <1>4 DEF StringFree, Release
  <2>2. out.ok /\ Frees(heap, out.heap, str.data)
    BY <1>0, StringDeallocFacts DEF HoldingOK
  <2>3. BlocksOf(held[s]) = Blocks \cap {str.data}
    BY <1>0, <2>1 DEF HoldingOK, KindOK, BlocksOf
  <2> HIDE DEF out, str
  <2> QED BY <2>1, <2>2, <2>3, ReleaseStep DEF Frees
<1>5. CASE FreeResult(s)
  <2> DEFINE str == held[s].value.error_message
             buf == held[s].value.payload
             msg == StringDealloc(heap, str)
             all == BufferDealloc(msg.heap, buf)
             out == ResultFree(heap, held[s].value)
  <2>1. Release(s, "result", out, Without(s)) /\ held[s].kind = "result"
    BY <1>5 DEF FreeResult, Release
  <2>2. msg.ok /\ Frees(heap, msg.heap, str.data)
    BY <1>0, StringDeallocFacts DEF HoldingOK
  <2>3. out.ok = (msg.ok /\ all.ok) /\ out.heap = all.heap
    BY DEF ResultFree
  <2>4. /\ BlocksOf(held[s]) = Blocks \cap {str.data, buf.data}
        /\ str = NullString \/ buf = NullBuffer
        /\ BufferFits(heap, buf)
    BY <1>0, <2>1 DEF HoldingOK, KindOK, BlocksOf
  <2>5. msg.heap \in Heaps /\ BufferFits(msg.heap, buf)
    <3> HIDE DEF msg
    <3>1. CASE buf = NullBuffer
      BY <2>2, <3>1, NoBlock DEF Frees
    <3>2. CASE str = NullString
      <4>1. buf.data \in Blocks => msg.heap[buf.data] = heap[buf.data]
        BY <1>0, <2>2, <3>2 DEF Frees
      <4> QED BY <2>2, <2>4, <4>1, AsSliceOfBlock DEF Frees
    <3> QED BY <2>4, <3>1, <3>2
  <2> HIDE DEF msg
  <2>6. all.ok /\ Frees(msg.heap, all.heap, buf.data)
    BY <2>5, BufferDeallocFacts
  <2> HIDE DEF all, out, str, buf
  <2>7. /\ out.ok /\ out.heap \in Heaps
        /\ \A b \in Blocks : out.heap[b] = IF b \in BlocksOf(held[s]) THEN Unallocated
                                                                    ELSE heap[b]
    BY <2>2, <2>3, <2>4, <2>6 DEF Frees
  <2> QED BY <2>1, <2>7, ReleaseStep
<1> QED BY <1>1, <1>2, <1>3, <1>4, <1>5 DEF Use

\* A BridgeValue becomes its buffer, or is lost with it.
LEMMA ValueStep ==
  ASSUME MemoryAssumption, Ownership, NEW s \in Slots,
         IntoBuffer(s) \/ DropValue(s)
  PROVE  Ownership'
<1> DEFINE buf == Input(s)
<1>1. /\ heap \in Heaps /\ heap' = heap /\ ~corrupted' /\ alive' \in BOOLEAN
      /\ HoldingOK(heap, held[s]) /\ held[s].kind = "value"
  BY DEF Ownership, OwnershipOf, IntoBuffer, DropValue
<1>2. /\ buf \in BufferType /\ BufferFits(heap, buf) /\ Decodes(AsSlice(heap, buf))
      /\ held[s].value.error_message = NullString
      /\ held[s].value \in Values
  BY <1>1, TypesAgree DEF HoldingOK, KindOK, Holdings, Input
<1>3. buf.data \in Blocks
  <2>1. ~(buf.data = Null \/ buf.len = 0)
    BY <1>2, AsSliceCases DEF Decodes
  <2> QED BY <1>2, <2>1 DEF BufferFits
<1>4. BlocksOf(held[s]) = {buf.data}
  BY <1>2, <1>3, NoBlock DEF BlocksOf, Input, NullString
<1>5. CASE IntoBuffer(s)
  <2> DEFINE x == [held[s] EXCEPT !.kind = "buffer"]
  <2>1. held' = [held EXCEPT ![s] = x] /\ dropped' = dropped
    BY <1>5 DEF IntoBuffer
  <2>2. x = [kind |-> "buffer", value |-> held[s].value]
    BY <1>1 DEF HoldingOK, Holdings
  <2> HIDE DEF x
  <2>3. HoldingOK(heap', x) /\ BlocksOf(x) = BlocksOf(held[s])
    BY <1>1, <1>2, <2>2 DEF HoldingOK, KindOK, Holdings, Kinds, BlocksOf
  <2>4. dropped' \subseteq Blocks
    BY <2>1 DEF Ownership, OwnershipOf
  <2>5. Replaces(heap, held, dropped, s, x, heap', held', dropped')
    BY <1>1, <2>1, <2>3, <2>4 DEF Replaces
  <2>6. OwnershipOf(heap', held', dropped')
    BY <2>5, HoldingChanges DEF Ownership
  <2> QED BY <1>1, <2>6, OwnershipNext
<1>6. CASE DropValue(s)
  <2>1. held' = [held EXCEPT ![s] = Nothing] /\ dropped' = dropped \cup {buf.data}
    BY <1>6 DEF DropValue
  <2>2. HoldingOK(heap', Nothing) /\ BlocksOf(Nothing) = {}
    BY NothingFacts
  <2>3. dropped \subseteq dropped' /\ dropped' \subseteq Blocks
    BY <1>3, <2>1 DEF Ownership, OwnershipOf
  <2>4. \A b \in Blocks : heap'[b].live =>
          \/ b \in BlocksOf(Nothing) \/ b \in dropped'
          \/ heap[b].live /\ b \notin BlocksOf(held[s])
    BY <1>1, <1>4, <2>1
  <2>5. /\ heap' \in Heaps
        /\ \A b \in Blocks : heap'[b] # heap[b] =>
              b \in BlocksOf(held[s]) \/ ~heap[b].live
        /\ \A b \in BlocksOf(Nothing) : b \in BlocksOf(held[s]) \/ ~heap[b].live
    BY <1>1, <2>2
  <2>6. held' = [held EXCEPT ![s] = Nothing]
    BY <2>1
  <2>7. ~corrupted' /\ alive' \in BOOLEAN
    BY <1>1
  <2>8. Replaces(heap, held, dropped, s, Nothing, heap', held', dropped')
    BY <2>2, <2>3, <2>4, <2>5, <2>6 DEF Replaces
  <2>9. OwnershipOf(heap', held', dropped')
    BY <2>8, HoldingChanges DEF Ownership
  <2> QED BY <2>7, <2>9, OwnershipNext
<1> QED BY <1>5, <1>6

\* The payload moves from one slot to the other.
LEMMA TakeStep ==
  ASSUME MemoryAssumption, Ownership, NEW s \in Slots, NEW t \in Slots, s # t,
         TakePayload(s, t), dropped' = dropped
  PROVE  Ownership'
<1> DEFINE buf  == Input(s)
           rest == [held[s] EXCEPT !.value.payload = NullBuffer]
           x    == AsBuffer(buf)
<1>1. /\ heap' = heap /\ ~corrupted' /\ alive' \in BOOLEAN
      /\ HoldingOK(heap, held[s]) /\ held[s].kind = "result" /\ held[t] = Nothing
  BY DEF Ownership, OwnershipOf, TakePayload
<1>2. /\ held[s] = [kind |-> "result", value |-> held[s].value]
      /\ held[s].value = [error_code    |-> held[s].value.error_code,
                          error_message |-> held[s].value.error_message,
                          payload       |-> buf]
      /\ held[s].value \in Values
      /\ buf \in BufferType /\ BufferFits(heap, buf)
  BY <1>1, TypesAgree DEF HoldingOK, Holdings, Input
<1>3. held' = [[held EXCEPT ![s] = rest] EXCEPT ![t] = x]
  <2>1. held' = [held EXCEPT ![s].value.payload = NullBuffer, ![t] = x]
    BY DEF TakePayload
  <2>2. [held EXCEPT ![s].value.payload = NullBuffer] = [held EXCEPT ![s] = rest]
    BY DEF Ownership, OwnershipOf
  <2> QED BY <2>1, <2>2
<1>4. rest.kind = "result" /\ rest.value = [held[s].value EXCEPT !.payload = NullBuffer]
  BY <1>2
<1>5. /\ rest.value.payload = NullBuffer
      /\ rest.value.error_message = held[s].value.error_message
      /\ rest.value.error_code = held[s].value.error_code
      /\ rest \in Holdings
  <2>1. NullBuffer \in BufferType
    BY NoBlock
  <2>2. rest = [kind |-> "result",
                value |-> [error_code    |-> held[s].value.error_code,
                           error_message |-> held[s].value.error_message,
                           payload       |-> NullBuffer]]
    BY <1>2
  <2> HIDE DEF rest
  <2> QED BY <1>2, <2>1, <2>2, TypesAgree DEF Holdings, Kinds
<1>6. HoldingOK(heap, x) /\ BlocksOf(x) = Blocks \cap {buf.data}
  BY <1>2, PayloadHolding DEF AsBuffer
<1> HIDE DEF rest, x, buf
<1>7. HoldingOK(heap, rest)
  BY <1>1, <1>4, <1>5, NoBlock DEF HoldingOK, KindOK
<1>8. BlocksOf(rest) \cup BlocksOf(x) = BlocksOf(held[s])
  BY <1>5, <1>6, NoBlock DEF BlocksOf, NullBuffer, buf, Input
<1>9. BlocksOf(rest) \cap BlocksOf(x) = {}
  BY <1>1, <1>5, <1>6, NoBlock DEF HoldingOK, KindOK, BlocksOf, NullBuffer, NullString,
     buf, Input
<1>10. OwnershipOf(heap, held', dropped)
  BY <1>1, <1>3, <1>6, <1>7, <1>8, <1>9, HoldingMoves DEF Ownership
<1>11. OwnershipOf(heap', held', dropped')
  BY <1>1, <1>10
<1> QED BY <1>1, <1>11, OwnershipNext

\* At first there is nothing to own, and so there is after an abort.
LEMMA EmptyStep ==
  ASSUME MemoryAssumption
  PROVE  /\ Rules = RuleNames /\ Init => Ownership
         /\ Ownership /\ OutOfMemory => Ownership'
<1> DEFINE empty == [b \in Blocks |-> Unallocated]
           none  == [s \in Slots |-> Nothing]
<1>1. empty \in Heaps /\ \A b \in Blocks : ~empty[b].live
  BY EmptyHeap DEF Heaps, Unallocated
<1>2. /\ none \in [Slots -> Holdings]
      /\ \A s \in Slots : none[s] = Nothing
      /\ \A h : HoldingOK(h, Nothing)
      /\ BlocksOf(Nothing) = {}
  BY NothingFacts DEF HoldingOK
<1>3. Init => heap = empty /\ held = none /\ corrupted = FALSE /\ alive = TRUE /\ dropped = {}
  BY DEF Init
<1>4. OutOfMemory => /\ heap' = empty /\ held' = none /\ corrupted' = corrupted
                     /\ alive' = FALSE /\ dropped' = {}
  BY DEF OutOfMemory
<1> HIDE DEF empty, none
<1>5. OwnershipOf(empty, none, {})
  BY <1>1, <1>2 DEF OwnershipOf
<1>6. Rules = RuleNames /\ Init => Ownership
  BY <1>3, <1>5 DEF Ownership
<1>7. ASSUME Ownership, OutOfMemory PROVE Ownership'
  <2>1. /\ heap' = empty /\ held' = none /\ dropped' = {}
        /\ alive' \in BOOLEAN /\ corrupted' = corrupted
    BY <1>4, <1>7
  <2>2. OwnershipOf(heap', held', dropped')
    BY <1>5, <2>1
  <2>3. ~corrupted'
    BY <1>7, <2>1 DEF Ownership
  <2> QED BY <1>7, <2>1, <2>2, <2>3, OwnershipNext
<1> QED BY <1>6, <1>7

\* Ownership is inductive.
LEMMA OwnershipStep ==
  ASSUME MemoryAssumption, Ownership, [Next]_vars
  PROVE  Ownership'
<1>1. CASE OutOfMemory
  BY <1>1, EmptyStep
<1>2. ASSUME NEW s \in Slots, Create(s) \/ Use(s), dropped' = dropped
      PROVE  Ownership'
  BY <1>2, CreateStep, UseStep
<1>3. ASSUME NEW s \in Slots, IntoBuffer(s) \/ DropValue(s)
      PROVE  Ownership'
  BY <1>3, ValueStep
<1>4. ASSUME NEW s \in Slots, NEW t \in Slots, s # t, Call(s, t), dropped' = dropped
      PROVE  Ownership'
  BY <1>4, CallStep, TakeStep
<1>5. ASSUME NEW s \in Slots, NEW t \in Slots, s # t, Answered(s, t)
      PROVE  Ownership'
  BY <1>5, InvokeSucceedsStep, InvokeReturnsInputStep, InvokeFailsStep DEF Answered
<1>6. CASE UNCHANGED vars
  <2>1. OwnershipOf(heap', held', dropped') /\ ~corrupted' /\ alive' \in BOOLEAN
    BY <1>6 DEF vars, Ownership
  <2> QED BY <2>1, OwnershipNext
<1> QED BY <1>1, <1>2, <1>3, <1>4, <1>5, <1>6 DEF Next

\* Every reachable state satisfies it, if the program keeps the rules.
LEMMA InvariantHolds == Rules = RuleNames /\ Spec => []Ownership
<1>1. Rules = RuleNames /\ Init => Ownership
  BY EmptyStep, MemoryAssumption
<1>2. Ownership /\ [Next]_vars => Ownership'
  BY OwnershipStep, MemoryAssumption
<1> QED BY <1>1, <1>2, PTL DEF Spec

\* The history flag is a Boolean, which Ownership does not say.
LEMMA FlagHolds == Spec => [](corrupted \in BOOLEAN)
<1>1. Init => corrupted \in BOOLEAN
  BY DEF Init
<1>2. corrupted \in BOOLEAN /\ [Next]_vars => (corrupted \in BOOLEAN)'
  <2> SUFFICES ASSUME corrupted \in BOOLEAN, [Next]_vars
               PROVE  corrupted' \in BOOLEAN
    OBVIOUS
  <2>1. CASE OutOfMemory \/ UNCHANGED vars
    BY <2>1 DEF OutOfMemory, vars
  <2>2. ASSUME NEW s \in Slots, Create(s) \/ Use(s)
        PROVE  corrupted' \in BOOLEAN
    BY <2>2 DEF Create, Use, BufferAlloc, StringAlloc, Version, FromJson, Write, Read,
         BufferFree, StringFree, FreeResult, Release
  <2>3. ASSUME NEW s \in Slots, IntoBuffer(s) \/ DropValue(s)
        PROVE  corrupted' \in BOOLEAN
    BY <2>3 DEF IntoBuffer, DropValue
  <2>4. ASSUME NEW s \in Slots, NEW t \in Slots, Call(s, t)
        PROVE  corrupted' \in BOOLEAN
    BY <2>4 DEF Call, Echo, BridgeCallRun, BridgeCallRunJson, InvokeRefused,
         InvokePanics, TakePayload, Reads, Runs
  <2>5. ASSUME NEW s \in Slots, NEW t \in Slots, Answered(s, t)
        PROVE  corrupted' \in BOOLEAN
    BY <2>5 DEF Answered, InvokeSucceeds, InvokeReturnsInput, InvokeFails, Runs
  <2> QED BY <2>1, <2>2, <2>3, <2>4, <2>5 DEF Next
<1> QED BY <1>1, <1>2, PTL DEF Spec

-----------------------------------------------------------------------------
(***************************************************************************)
(* Theorems.                                                               *)
(***************************************************************************)

\* The type invariant holds; in particular the bytes of every FfiString are
\* UTF-8, on which FfiString::as_str relies without a check.
THEOREM TypeCorrect == Rules = RuleNames /\ Spec => []TypeOK
<1>1. Ownership /\ corrupted \in BOOLEAN => TypeOK
  <2> SUFFICES ASSUME Ownership, corrupted \in BOOLEAN PROVE TypeOK
    OBVIOUS
  <2>1. \A s \in Slots : IsUtf8(AsSlice(heap, AsStr(held[s].value.error_message)))
    <3> TAKE s \in Slots
    <3>1. /\ held[s].value.error_message \in StringType
          /\ StringFits(heap, held[s].value.error_message)
          /\ heap \in Heaps
      BY TypesAgree DEF Ownership, OwnershipOf, HoldingOK, Holdings
    <3> QED BY <3>1, FitsIsText, MemoryAssumption
  <2> QED BY <2>1 DEF Ownership, OwnershipOf, TypeOK, Heaps, Holdings, Kinds, Sizes
<1> QED BY <1>1, InvariantHolds, FlagHolds, PTL

\* A program that keeps the three rules never frees a block twice or with the
\* wrong layout, and never reads what is not there, whatever its callbacks do
\* with their input: leave it, answer with it, or free it.
THEOREM NeverCorrupts == Rules = RuleNames /\ Spec => []HeapSound
<1>1. Ownership => HeapSound
  BY DEF Ownership, HeapSound
<1> QED BY <1>1, InvariantHolds, PTL

\* Every live block is held, or is one of the two known leaks: what a
\* callback put in its own result apart from the payload of a success, and a
\* BridgeValue that went out of scope.
THEOREM LeaksAreKnown == Rules = RuleNames /\ Spec => []OnlyKnownLeaks
<1>1. Ownership => OnlyKnownLeaks
  <2> SUFFICES ASSUME Ownership, NEW b \in Blocks, heap[b].live, b \notin dropped
               PROVE  Owners(b) # {}
    BY DEF OnlyKnownLeaks
  <2>1. PICK s \in Slots : b \in BlocksOf(held[s])
    BY DEF Ownership, OwnershipOf
  <2>2. <<s, "error_message">> \in Owners(b) \/ <<s, "payload">> \in Owners(b)
    BY <2>1 DEF BlocksOf, Owners
  <2> QED BY <2>2
<1> QED BY <1>1, InvariantHolds, PTL

\* No two values share a block, and what is held is not freed yet, also after a
\* callback has answered with its input.
THEOREM ValuesAreSeparate == Rules = RuleNames /\ Spec => []NoAlias
<1>1. Ownership => NoAlias
  <2> SUFFICES ASSUME Ownership, NEW b \in Blocks
               PROVE  /\ \A o, p \in Owners(b) : o = p
                      /\ Owners(b) # {} => heap[b].live
    BY DEF NoAlias
  <2>1. \A o \in Owners(b) : \E s \in Slots, f \in {"error_message", "payload"} :
          /\ o = <<s, f>>
          /\ b \in BlocksOf(held[s])
          /\ IF f = "payload" THEN held[s].value.payload.data = b
                              ELSE held[s].value.error_message.data = b
    BY DEF Owners, BlocksOf
  <2>2. \A s \in Slots : ~ /\ held[s].value.payload.data = b
                           /\ held[s].value.error_message.data = b
    BY NoBlock, MemoryAssumption
    DEF Ownership, OwnershipOf, HoldingOK, KindOK, NullBuffer, NullString, Holdings, Kinds,
        Nothing, Holding, ResultOk
  <2>3. \A s, t \in Slots :
          b \in BlocksOf(held[s]) /\ b \in BlocksOf(held[t]) => s = t
    BY DEF Ownership, OwnershipOf
  <2>4. \A s \in Slots : b \in BlocksOf(held[s]) => heap[b].live
    BY HeldIsLive, MemoryAssumption DEF Ownership, OwnershipOf
  <2>5. ASSUME NEW o \in Owners(b), NEW p \in Owners(b)
        PROVE  o = p
    <3>1. PICK s \in Slots, f \in {"error_message", "payload"} :
            /\ o = <<s, f>>
            /\ b \in BlocksOf(held[s])
            /\ IF f = "payload" THEN held[s].value.payload.data = b
                                ELSE held[s].value.error_message.data = b
      BY <2>1
    <3>2. PICK t \in Slots, g \in {"error_message", "payload"} :
            /\ p = <<t, g>>
            /\ b \in BlocksOf(held[t])
            /\ IF g = "payload" THEN held[t].value.payload.data = b
                                ELSE held[t].value.error_message.data = b
      BY <2>1
    <3>3. s = t
      BY <2>3, <3>1, <3>2
    <3>4. f = g
      BY <2>2, <3>1, <3>2, <3>3
    <3> QED BY <3>1, <3>2, <3>3, <3>4
  <2>6. ASSUME NEW o \in Owners(b) PROVE heap[b].live
    BY <2>1, <2>4
  <2> QED BY <2>5, <2>6
<1> QED BY <1>1, InvariantHolds, PTL

\* The fields of a value reproduce the layout with which its block was
\* allocated, so freeing any value that is held is defined, in any state.
THEOREM HandlesAreAccurate == Rules = RuleNames /\ Spec => []HandlesDescribeHeap
<1>1. Ownership => HandlesDescribeHeap
  BY StringDeallocFacts, BufferDeallocFacts, FitsIsReadable, MemoryAssumption
  DEF Ownership, OwnershipOf, HoldingOK, HandlesDescribeHeap
<1> QED BY <1>1, InvariantHolds, PTL

\* A result has a message or a payload, as its code says.
THEOREM ResultsAreEither == Rules = RuleNames /\ Spec => []ResultShape
<1>1. Ownership => ResultShape
  BY DEF Ownership, OwnershipOf, HoldingOK, KindOK, ResultShape
<1> QED BY <1>1, InvariantHolds, PTL

\* A BridgeValue decodes as long as it lives.
THEOREM ValuesDecode == Rules = RuleNames /\ Spec => []ValueDecodes
<1>1. Ownership => ValueDecodes
  BY FitsIsReadable DEF Ownership, OwnershipOf, HoldingOK, ValueDecodes, Input
<1> QED BY <1>1, InvariantHolds, PTL
=============================================================================
