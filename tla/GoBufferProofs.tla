----------------------------- MODULE GoBufferProofs -----------------------------
(***************************************************************************)
(* Proofs about GoBuffer for any number of goroutines, and for a program   *)
(* that keeps any of the three rules, all or none.                         *)
(*                                                                         *)
(* The inductive invariant is BufferInvariant: the type, the shape of the  *)
(* object and of the calls, and, as long as no rule is broken, Exclusion.  *)
(* Exclusion is what the rules buy: whoever is in Free is in the object    *)
(* alone, the finalizer included, so that `freed` tells the truth about    *)
(* the block except to the one that is between the two statements of Free  *)
(* that free the memory and say so.                                        *)
(***************************************************************************)
EXTENDS GoBuffer, FfiMemoryProofs

-----------------------------------------------------------------------------
(***************************************************************************)
(* The inductive invariant.                                                *)
(***************************************************************************)

\* Each method has its own statements.
CallStates ==
  {Idle} \cup [op : {"Bytes", "raw"}, pc : {"check", "use"}]
         \cup [op : {"Free"}, pc : {"check", "free", "mark", "clear"}]

Objects == [inner : BufferType, freed : BOOLEAN, finalizer : BOOLEAN]

\* FromBytes has made the inner buffer, and nothing ever changes it.
InnerOK ==
  \/ contents = <<>> /\ buffer.inner = NullBuffer
  \/ /\ contents = <<"text">>
     /\ \E b \in Blocks :
          buffer.inner = [data |-> b, len |-> 1, capacity |-> 1]

Shape ==
  /\ buffer \in Objects
  /\ InnerOK
  /\ \A a \in Callers : call[a] \in CallStates
  /\ call[Collector].op \in {"none", "Free"}

\* The block as FromBytes left it.
Whole == [live |-> TRUE, size |-> 1, bytes |-> contents]

Freeing(a) == call[a].op = "Free"

\* The method has seen that the Buffer is not freed, or was promised it.
Trusts(a) ==
  \/ call[a].pc \in {"free", "mark"}
  \/ call[a].op = "raw"
  \/ call[a].op = "Bytes" /\ call[a].pc = "use"

Exclusion ==
  /\ ~corrupted
  /\ \A g \in Goroutines : call[g] # Idle => g \in refs
  /\ call[Collector] # Idle => refs = {}
  /\ \A g, h \in Goroutines : Freeing(g) /\ call[h] # Idle => g = h
  /\ \A a \in Callers : Trusts(a) => ~buffer.freed
  /\ \A a \in Callers : At(a, "Bytes", "use") => contents # <<>>
  /\ buffer.inner.data \in Blocks /\ ~buffer.freed
       /\ (\A a \in Callers : call[a].pc # "mark")
         => heap[buffer.inner.data] = Whole

BufferInvariant == TypeOK /\ Shape /\ (broken = {} => Exclusion)

-----------------------------------------------------------------------------
(***************************************************************************)
(* Consequences of the invariant.                                          *)
(***************************************************************************)

\* Whoever is in Free is alone.
LEMMA FreeIsAlone ==
  ASSUME BufferAssumption, Shape, Exclusion,
         NEW a \in Callers, Freeing(a), NEW b \in Callers, b # a
  PROVE  call[b] = Idle
<1>1. CASE a \in Goroutines /\ b \in Goroutines
  BY <1>1 DEF Exclusion
<1>2. CASE a \in Goroutines /\ b = Collector
  <2>1. a \in refs
    BY <1>2 DEF Exclusion, Freeing, Idle
  <2> QED BY <1>2, <2>1 DEF Exclusion
<1>3. CASE a = Collector /\ b \in Goroutines
  <2>1. refs = {}
    BY <1>3 DEF Exclusion, Freeing, Idle
  <2> QED BY <1>3, <2>1 DEF Exclusion
<1> QED BY <1>1, <1>2, <1>3 DEF Callers

\* As long as the block is whole, the inner buffer describes it.
LEMMA WholeFits ==
  ASSUME MemoryAssumption, TypeOK, Shape,
         buffer.inner.data \in Blocks => heap[buffer.inner.data] = Whole
  PROVE  /\ BufferFits(heap, buffer.inner)
         /\ AsSlice(heap, buffer.inner) = contents
<1>1. CASE contents = <<>> /\ buffer.inner = NullBuffer
  BY <1>1, NoBlock, AsSliceCases, MemoryAssumption DEF NullBuffer
<1>2. CASE contents = <<"text">>
  <2>1. PICK b \in Blocks : buffer.inner = [data |-> b, len |-> 1, capacity |-> 1]
    BY <1>2 DEF Shape, InnerOK
  <2>2. heap[b].live /\ heap[b].size = 1 /\ heap[b].bytes = contents
    BY <2>1 DEF Whole
  <2>3. Len(contents) = 1 /\ contents \in Strings
    BY <1>2, ShortStrings, MemoryAssumption
  <2>4. BufferFits(heap, buffer.inner)
    BY <2>3, <2>1, <2>2 DEF BufferFits
  <2>5. AsSlice(heap, buffer.inner) = SubSeq(contents, 1, 1)
    <3>1. ~(buffer.inner.data = Null \/ buffer.inner.len = 0)
      BY <2>1, MemoryAssumption DEF MemoryAssumption
    <3>2. Readable(heap, buffer.inner)
      BY <2>4, FitsIsReadable
    <3>3. AsSlice(heap, buffer.inner)
            = SubSeq(heap[buffer.inner.data].bytes, 1, buffer.inner.len)
      BY <3>1, <3>2, AsSliceCases
    <3> QED BY <2>1, <2>2, <3>3
  <2>6. SubSeq(contents, 1, 1) = contents
    BY <2>3, PrefixFacts, MemoryAssumption
  <2> QED BY <2>4, <2>5, <2>6
<1> QED BY <1>1, <1>2 DEF Shape, InnerOK

\* What the object trusts is there, except after BufferFree.
LEMMA TrustIsJustified ==
  ASSUME MemoryAssumption, BufferAssumption, TypeOK, Shape, Exclusion,
         NEW a \in Callers, Trusts(a), call[a].pc # "mark"
  PROVE  /\ BufferFits(heap, buffer.inner)
         /\ AsSlice(heap, buffer.inner) = contents
<1>1. ~buffer.freed
  BY DEF Exclusion
<1>2. \A b \in Callers : call[b].pc # "mark"
  <2> SUFFICES ASSUME NEW b \in Callers, call[b].pc = "mark" PROVE FALSE
    OBVIOUS
  <2>1. Freeing(b) /\ call[a] # Idle
    BY DEF Shape, CallStates, Freeing, Idle, Trusts
  <2> QED BY <2>1, FreeIsAlone
<1> QED BY <1>1, <1>2, WholeFits DEF Exclusion

-----------------------------------------------------------------------------
(***************************************************************************)
(* The type invariant and the shape.                                       *)
(***************************************************************************)

\* The invariant holds at the start.
LEMMA InitInvariant ==
  ASSUME MemoryAssumption, BufferAssumption, Init
  PROVE  BufferInvariant
<1> DEFINE empty == [x \in Blocks |-> Unallocated]
<1>1. PICK b \in Blocks :
        LET out == FromBytes(empty, b, contents)
        IN  heap = out.heap /\ buffer = NewBuffer(out.val)
  BY DEF Init
<1>2. empty \in Heaps
  BY EmptyHeap, MemoryAssumption DEF Heaps
<1> HIDE DEF empty
<1>3. contents \in {<<>>, <<"text">>} /\ contents \in Strings
  BY ShortStrings, MemoryAssumption DEF Init
<1> DEFINE out == FromBytes(empty, b, contents)
<1>4. /\ out.heap \in Heaps /\ out.val \in BufferType
      /\ IF contents = <<>> THEN out.val = NullBuffer
         ELSE /\ out.val = [data |-> b, len |-> Len(contents), capacity |-> Len(contents)]
              /\ out.heap[b] = [live |-> TRUE, size |-> Len(contents), bytes |-> contents]
  BY <1>2, <1>3, FromBytesFacts, MemoryAssumption DEF Allocates
<1>5. heap = out.heap /\ buffer = NewBuffer(out.val)
  BY <1>1
<1> HIDE DEF out
<1>6. TypeOK
  BY <1>3, <1>4, <1>5, ShortStrings, MemoryAssumption
  DEF Init, TypeOK, Heaps, NewBuffer, Idle, Callers
<1>7. Shape
  <2>1. buffer \in Objects /\ InnerOK
    BY <1>3, <1>4, <1>5, ShortStrings, MemoryAssumption DEF NewBuffer, Objects, InnerOK
  <2>2. \A a \in Callers : call[a] = Idle
    BY DEF Init
  <2>3. Collector \in Callers
    BY DEF Callers
  <2> QED BY <2>1, <2>2, <2>3 DEF Shape, CallStates, Idle
<1>8. Exclusion
  <2>1. \A a \in Callers : call[a] = Idle
    BY DEF Init
  <2>2. buffer.inner.data \in Blocks => heap[buffer.inner.data] = Whole
    <3>1. CASE contents = <<>>
      BY <1>4, <1>5, <3>1, NoBlock, MemoryAssumption DEF NewBuffer, NullBuffer
    <3>2. CASE contents = <<"text">>
      <4>1. Len(contents) = 1 /\ contents # <<>>
        BY <3>2, ShortStrings, MemoryAssumption
      <4> QED BY <1>4, <1>5, <4>1 DEF NewBuffer, Whole
    <3> QED BY <1>3, <3>1, <3>2
  <2> QED BY <2>1, <2>2 DEF Init, Exclusion, Callers, Freeing, Trusts, At, Idle
<1> QED BY <1>6, <1>7, <1>8 DEF BufferInvariant

\* How a step moves its goroutine on.
LEMMA Moves ==
  ASSUME TypeOK, NEW a \in Callers
  PROVE  /\ \A pc : GoTo(a, pc)
              => call' = [call EXCEPT ![a] = [op |-> call[a].op, pc |-> pc]]
         /\ Return(a) => call' = [call EXCEPT ![a] = Idle]
         /\ \A state : call' = [call EXCEPT ![a] = state]
              => /\ call'[a] = state
                 /\ \A b \in Callers : b # a => call'[b] = call[b]
BY DEF TypeOK, GoTo, Return

\* The part of TypeOK and Shape about calls.
CallsOK ==
  /\ call \in [Callers -> [op : Methods \cup {"none"},
                 pc : {"none", "check", "use", "free", "mark", "clear"}]]
  /\ \A g \in Goroutines : call[g].pc \in {"check", "free", "mark", "clear"}
                             => g \in refs
  /\ \A a \in Callers : call[a] \in CallStates
  /\ call[Collector].op \in {"none", "Free"}

\* The calls in progress are among those the methods make.
LEMMA CallStateTypes ==
  CallStates \subseteq [op : Methods \cup {"none"},
                 pc : {"none", "check", "use", "free", "mark", "clear"}]
BY DEF CallStates, Idle, Methods

\* A goroutine that has the Buffer, or is past the fields, moves on.
LEMMA CallsStep ==
  ASSUME CallsOK, NEW a \in Callers, NEW state \in CallStates,
         call' = [call EXCEPT ![a] = state], refs' = refs,
         a \in Goroutines /\ state.pc \in {"check", "free", "mark", "clear"}
           => a \in refs,
         a = Collector => state.op \in {"none", "Free"}
  PROVE  CallsOK'
BY CallStateTypes DEF CallsOK, Callers

\* Types and the shapes of calls are preserved by every step.
LEMMA ShapeStep ==
  ASSUME TypeOK, Shape, [Next]_vars
  PROVE  TypeOK' /\ Shape'
<1>0. CallsOK
  BY DEF TypeOK, Shape, CallsOK
<1> DEFINE Typed ==
      /\ CallsOK'
      /\ heap' \in Heaps /\ corrupted' \in BOOLEAN /\ buffer' \in Objects
      /\ buffer'.inner = buffer.inner /\ contents' = contents
      /\ refs' \subseteq Goroutines /\ got' \in [Goroutines -> Strings]
      /\ broken' \subseteq RuleNames
<1>1. SUFFICES Typed
  BY DEF TypeOK, Shape, CallsOK, Heaps, Objects, InnerOK
<1>2. ASSUME NEW g \in Goroutines, NEW op \in Methods, Enter(g, op)
      PROVE  Typed
  <2> DEFINE state == [op |-> op, pc |-> "check"]
  <2>1. state \in CallStates /\ g \in Callers /\ g # Collector
    BY BufferAssumption DEF CallStates, Methods, Callers, BufferAssumption
  <2>2. CallsOK'
    BY <1>0, <1>2, <2>1, CallsStep DEF Enter
  <2>3. broken' \subseteq RuleNames
    BY <1>2 DEF Enter, Breaks, TypeOK
  <2> QED BY <1>2, <2>2, <2>3 DEF Enter, TypeOK, Shape, Heaps
<1>3. ASSUME NEW g \in Goroutines, Forget(g)
      PROVE  Typed
  <2>1. CallsOK'
    BY <1>0, <1>3 DEF Forget, CallsOK
  <2>2. broken' \subseteq RuleNames
    BY <1>3 DEF Forget, TypeOK, RuleNames
  <2> QED BY <1>3, <2>1, <2>2 DEF Forget, TypeOK, Shape, Heaps
<1>4. ASSUME NEW a \in Callers, ReadFields(a)
      PROVE  Typed
  <2>1. a # Collector /\ a \in Goroutines
    BY <1>4 DEF Shape, ReadFields, Callers
  <2>2. CASE Return(a)
    <3>1. CallsOK'
      BY <1>0, <1>4, <2>1, <2>2, CallsStep DEF ReadFields, Return, CallStates, Idle
    <3>2. got' \in [Goroutines -> Strings]
      BY <1>4, ShortStrings, MemoryAssumption DEF ReadFields, TypeOK
    <3> QED BY <1>4, <3>1, <3>2 DEF ReadFields, TypeOK, Shape, Heaps
  <2>3. CASE GoTo(a, "use")
    <3>1. [op |-> call[a].op, pc |-> "use"] \in CallStates
      BY <1>4 DEF ReadFields, CallStates
    <3>2. call' = [call EXCEPT ![a] = [op |-> call[a].op, pc |-> "use"]]
      BY <2>3, Moves
    <3>3. CallsOK'
      BY <1>0, <1>4, <2>1, <3>1, <3>2, CallsStep DEF ReadFields
    <3>4. got' \in [Goroutines -> Strings]
      BY <1>4, ShortStrings, MemoryAssumption DEF ReadFields, TypeOK
    <3> QED BY <1>4, <3>3, <3>4 DEF ReadFields, TypeOK, Shape, Heaps
  <2> QED BY <1>4, <2>2, <2>3 DEF ReadFields
<1>5. ASSUME NEW a \in Callers, UsePointer(a)
      PROVE  Typed
  <2>1. a # Collector /\ a \in Goroutines
    BY <1>5 DEF Shape, UsePointer, Callers
  <2>2. CallsOK'
    BY <1>0, <1>5, <2>1, CallsStep DEF UsePointer, Return, CallStates, Idle
  <2>3. AsSlice(heap, buffer.inner) \in Strings
    BY AsSliceType, MemoryAssumption DEF TypeOK, Shape, Heaps, Objects, BufferType
  <2> QED BY <1>5, <2>2, <2>3 DEF UsePointer, TypeOK, Shape, Heaps
<1>6. ASSUME NEW a \in Callers, Free(a)
      PROVE  Typed
  <2>1. Freeing(a) /\ call[a].pc \in {"check", "free", "mark", "clear"}
    BY <1>6 DEF Free, CheckFreed, BufferFree, MarkFreed, ClearFinalizer, At, Freeing
  <2>2. a \in Goroutines => a \in refs
    BY <2>1 DEF TypeOK
  <2>3. PICK state \in {Idle} \cup [op : {"Free"}, pc : {"free", "mark", "clear"}] :
          call' = [call EXCEPT ![a] = state]
    <3>1. Return(a) \/ \E pc \in {"free", "mark", "clear"} : GoTo(a, pc)
      BY <1>6 DEF Free, CheckFreed, BufferFree, MarkFreed, ClearFinalizer
    <3> QED BY <2>1, <3>1, Moves DEF Freeing
  <2>4. CallsOK'
    <3>1. state \in CallStates /\ state.op \in {"none", "Free"}
      BY DEF CallStates, Idle
    <3>2. refs' = refs
      BY <1>6 DEF Free, CheckFreed, BufferFree, MarkFreed, ClearFinalizer
    <3> QED BY <1>0, <2>2, <2>3, <3>1, <3>2, CallsStep
  <2>5. heap' \in Heaps /\ corrupted' \in BOOLEAN
    <3>1. heap \in Heaps
      BY DEF TypeOK, Heaps
    <3>2. BufferDealloc(heap, buffer.inner).heap \in Heaps
      BY <3>1, DeallocType, MemoryAssumption
    <3> QED BY <1>6, <3>1, <3>2 DEF Free, CheckFreed, BufferFree, MarkFreed, ClearFinalizer, TypeOK
  <2>6. buffer' \in Objects /\ buffer'.inner = buffer.inner
    BY <1>6 DEF Free, CheckFreed, BufferFree, MarkFreed, ClearFinalizer, Shape, Objects
  <2> QED
    BY <1>6, <2>4, <2>5, <2>6
    DEF Free, CheckFreed, BufferFree, MarkFreed, ClearFinalizer, TypeOK
<1>7. CASE Finalize
  <2> DEFINE state == [op |-> "Free", pc |-> "check"]
  <2>1. state \in CallStates /\ Collector \in Callers /\ Collector \notin Goroutines
    BY BufferAssumption DEF CallStates, Callers, BufferAssumption
  <2>2. CallsOK'
    BY <1>0, <1>7, <2>1, CallsStep DEF Finalize
  <2>3. buffer' \in Objects /\ buffer'.inner = buffer.inner
    BY <1>7 DEF Finalize, Shape, Objects
  <2> QED BY <1>7, <2>2, <2>3 DEF Finalize, TypeOK, Heaps
<1>8. CASE UNCHANGED vars
  BY <1>0, <1>8 DEF vars, CallsOK, TypeOK, Shape, Heaps
<1> QED BY <1>2, <1>3, <1>4, <1>5, <1>6, <1>7, <1>8 DEF Next, Steps

-----------------------------------------------------------------------------
(***************************************************************************)
(* Exclusion.                                                              *)
(***************************************************************************)

\* A step that breaks no rule keeps the goroutines apart.
LEMMA ExclusionStep ==
  ASSUME TypeOK, Shape, broken = {} => Exclusion, [Next]_vars, broken' = {}
  PROVE  Exclusion'
<1>1. broken = {} /\ Exclusion
  <2>1. broken \subseteq broken'
    BY DEF Next, vars, Enter, Forget, Steps, ReadFields, UsePointer, Free,
       CheckFreed, BufferFree, MarkFreed, ClearFinalizer, Finalize
  <2> QED BY <2>1
<1>2. ASSUME NEW g \in Goroutines, NEW op \in Methods, Enter(g, op)
      PROVE  Exclusion'
  <2>1. Breaks(g, op) = {} /\ g \in refs /\ call[g] = Idle
    BY <1>2 DEF Enter
  <2>2. /\ \A h \in Goroutines \ {g} : call[h] # Idle => op # "Free" /\ call[h].op # "Free"
        /\ op = "raw" => ~buffer.freed
    BY <2>1 DEF Breaks, RuleNames
  <2>3. call' = [call EXCEPT ![g] = [op |-> op, pc |-> "check"]]
    BY <1>2 DEF Enter
  <2>4. /\ call'[g] = [op |-> op, pc |-> "check"]
        /\ \A b \in Callers : b # g => call'[b] = call[b]
        /\ g \in Callers /\ Collector \in Callers /\ g # Collector
    <3>1. g \in Callers /\ Collector \in Callers /\ g # Collector
      BY BufferAssumption DEF Callers, BufferAssumption
    <3> QED BY <2>3, <3>1 DEF TypeOK
  <2>5. UNCHANGED <<heap, corrupted, buffer, contents, refs>>
    BY <1>2 DEF Enter
  <2>6. \A h, k \in Goroutines : Freeing(h)' /\ call'[k] # Idle => h = k
    <3> SUFFICES ASSUME NEW h \in Goroutines, NEW k \in Goroutines,
                        Freeing(h)', call'[k] # Idle, h # k
                 PROVE  FALSE
      OBVIOUS
    <3>1. CASE h = g
      BY <2>2, <2>4, <3>1 DEF Freeing, Callers
    <3>2. CASE k = g
      BY <2>2, <2>4, <3>2 DEF Freeing, Callers, Idle
    <3>3. CASE h # g /\ k # g
      BY <1>1, <2>4, <3>3 DEF Exclusion, Freeing, Callers
    <3> QED BY <3>1, <3>2, <3>3
  <2>7. \A a \in Callers : Trusts(a)' => ~buffer.freed
    <3>1. Trusts(g)' => ~buffer.freed
      BY <2>2, <2>4 DEF Trusts
    <3>2. \A a \in Callers : a # g /\ Trusts(a)' => Trusts(a)
      BY <2>4 DEF Trusts
    <3> QED BY <1>1, <3>1, <3>2 DEF Exclusion
  <2>8. (\A a \in Callers : call'[a].pc # "mark") => \A a \in Callers : call[a].pc # "mark"
    BY <2>1, <2>4 DEF Idle
  <2>9. \A a \in Callers : At(a, "Bytes", "use")' => contents # <<>>
    <3>1. ~At(g, "Bytes", "use")'
      BY <2>4 DEF At
    <3>2. \A a \in Callers : a # g /\ At(a, "Bytes", "use")' => At(a, "Bytes", "use")
      BY <2>4 DEF At
    <3> QED BY <1>1, <3>1, <3>2 DEF Exclusion
  <2>10. /\ \A h \in Goroutines : call'[h] # Idle => h \in refs
         /\ call'[Collector] # Idle => refs = {}
    BY <1>1, <2>1, <2>4 DEF Exclusion, Callers
  <2> QED BY <1>1, <2>5, <2>6, <2>7, <2>8, <2>9, <2>10 DEF Exclusion, Whole
<1>3. ASSUME NEW g \in Goroutines, Forget(g)
      PROVE  Exclusion'
  <2>1. call[g] = Idle
    BY <1>1, <1>3 DEF Forget
  <2> QED BY <1>1, <1>3, <2>1 DEF Forget, Exclusion, Freeing, Trusts, At, Whole
<1>4. ASSUME NEW a \in Callers, ReadFields(a)
      PROVE  Exclusion'
  <2>1. a # Collector /\ a \in Goroutines
    BY <1>4 DEF Shape, ReadFields, Callers
  <2>2. UNCHANGED <<heap, corrupted, buffer, contents, refs>>
    BY <1>4 DEF ReadFields
  <2>3. call[a].op \in {"Bytes", "raw"} /\ call[a].pc = "check" /\ call[a] # Idle
    BY <1>4 DEF ReadFields, Idle
  <2>4. CASE Return(a)
    <3>1. call'[a] = Idle /\ \A b \in Callers : b # a => call'[b] = call[b]
      BY <2>4, Moves
    <3> QED
      BY <1>1, <2>2, <2>3, <3>1, BufferAssumption
      DEF Exclusion, Freeing, Trusts, At, Whole, Idle, Callers
  <2>5. CASE GoTo(a, "use")
    <3>1. /\ call'[a] = [op |-> call[a].op, pc |-> "use"]
          /\ \A b \in Callers : b # a => call'[b] = call[b]
      BY <2>5, Moves
    <3>2. call[a].op = "Bytes" => ~buffer.freed /\ contents # <<>>
      <4>1. SUFFICES ASSUME call[a].op = "Bytes" PROVE ~buffer.freed /\ contents # <<>>
        OBVIOUS
      <4>2. ~(buffer.freed \/ buffer.inner.data = Null \/ buffer.inner.len = 0)
        <5>1. call'[a] # Idle
          BY <3>1 DEF Idle
        <5>2. ~Return(a)
          BY <5>1, Moves
        <5> QED BY <1>4, <4>1, <5>2 DEF ReadFields
      <4> QED BY <4>2 DEF Shape, InnerOK, NullBuffer
    <3>3. call[a].op = "raw" => ~buffer.freed
      BY <1>1 DEF Exclusion, Trusts
    <3> QED
      BY <1>1, <2>1, <2>2, <2>3, <3>1, <3>2, <3>3
      DEF Exclusion, Freeing, Trusts, At, Whole, Idle, Callers
  <2> QED BY <1>4, <2>4, <2>5 DEF ReadFields
<1>5. ASSUME NEW a \in Callers, UsePointer(a)
      PROVE  Exclusion'
  <2>1. Trusts(a) /\ call[a].pc # "mark" /\ call[a] # Idle
    BY <1>5 DEF UsePointer, Trusts, Idle
  <2>2. Readable(heap, buffer.inner)
    BY <1>1, <2>1, TrustIsJustified, FitsIsReadable, MemoryAssumption, BufferAssumption
  <2>3. call'[a] = Idle /\ \A b \in Callers : b # a => call'[b] = call[b]
    BY <1>5, Moves DEF UsePointer
  <2>4. UNCHANGED <<heap, buffer, contents, refs>> /\ ~corrupted'
    BY <1>1, <1>5, <2>2 DEF UsePointer, Exclusion
  <2> QED
    BY <1>1, <2>1, <2>3, <2>4
    DEF Exclusion, Freeing, Trusts, At, Whole, Idle, Callers
<1>6. ASSUME NEW a \in Callers, Free(a)
      PROVE  Exclusion'
  <2>1. Freeing(a)
    BY <1>6 DEF Free, CheckFreed, BufferFree, MarkFreed, ClearFinalizer, At, Freeing
  <2>2. \A b \in Callers : b # a => call[b] = Idle
    BY <1>1, <2>1, FreeIsAlone, BufferAssumption
  <2>3. \A b \in Callers : b # a => call'[b] = Idle
    <3>1. Return(a) \/ \E pc \in {"free", "mark", "clear"} : GoTo(a, pc)
      BY <1>6 DEF Free, CheckFreed, BufferFree, MarkFreed, ClearFinalizer
    <3> QED BY <2>2, <3>1, Moves
  <2>4. /\ \A g \in Goroutines : call'[g] # Idle => g \in refs
        /\ call'[Collector] # Idle => refs = {}
        /\ \A g, h \in Goroutines : Freeing(g)' /\ call'[h] # Idle => g = h
        /\ \A b \in Callers : At(b, "Bytes", "use")' => contents # <<>>
    <3>1. a \in Goroutines => a \in refs
      BY <1>1, <2>1 DEF Exclusion, Freeing, Idle
    <3>2. a = Collector => refs = {}
      BY <1>1, <2>1 DEF Exclusion, Freeing, Idle
    <3>3. call'[a].op = "Free" \/ call'[a] = Idle
      <4>1. Return(a) \/ \E pc \in {"free", "mark", "clear"} : GoTo(a, pc)
        BY <1>6 DEF Free, CheckFreed, BufferFree, MarkFreed, ClearFinalizer
      <4> QED BY <2>1, <4>1, Moves DEF Freeing
    <3> QED BY <2>3, <3>1, <3>2, <3>3 DEF Freeing, At, Idle, Callers
  <2>5. UNCHANGED <<contents, refs>> /\ buffer'.inner = buffer.inner
    BY <1>6 DEF Free, CheckFreed, BufferFree, MarkFreed, ClearFinalizer, Shape, Objects
  <2>6. SUFFICES /\ ~corrupted'
                 /\ Trusts(a)' => ~buffer'.freed
                 /\ buffer.inner.data \in Blocks /\ ~buffer'.freed /\ call'[a].pc # "mark"
                      => heap'[buffer.inner.data] = Whole
    BY <2>3, <2>4, <2>5 DEF Exclusion, Trusts, Idle, Whole
  <2>7. CASE CheckFreed(a)
    <3>1. UNCHANGED <<heap, corrupted, buffer>> /\ call[a].pc = "check"
      BY <2>7 DEF CheckFreed, At
    <3>2. \A b \in Callers : call[b].pc # "mark"
      BY <2>2, <3>1 DEF Idle
    <3>3. Trusts(a)' => ~buffer.freed
      <4>1. CASE buffer.freed
        <5>1. call'[a] = Idle
          BY <2>7, <4>1, Moves DEF CheckFreed
        <5> QED BY <5>1 DEF Trusts, Idle
      <4> QED BY <4>1
    <3> QED BY <1>1, <3>1, <3>2, <3>3 DEF Exclusion
  <2>8. CASE BufferFree(a)
    <3>1. call[a].pc = "free" /\ Trusts(a) /\ ~buffer.freed
      BY <1>1, <2>8 DEF BufferFree, At, Trusts, Exclusion
    <3>2. BufferFits(heap, buffer.inner)
      BY <1>1, <3>1, TrustIsJustified, MemoryAssumption, BufferAssumption
    <3>3. BufferDealloc(heap, buffer.inner).ok
      BY <3>2, BufferDeallocFacts, MemoryAssumption DEF TypeOK, Heaps
    <3>4. call'[a].pc = "mark"
      BY <2>8, Moves DEF BufferFree
    <3> QED BY <1>1, <2>8, <3>1, <3>3, <3>4 DEF BufferFree, Exclusion
  <2>9. CASE MarkFreed(a)
    <3>1. buffer'.freed /\ UNCHANGED <<heap, corrupted>>
      BY <2>9 DEF MarkFreed, Shape, Objects
    <3>2. call'[a] = [op |-> "Free", pc |-> "clear"]
      BY <2>1, <2>9, Moves DEF MarkFreed, Freeing
    <3> QED BY <1>1, <3>1, <3>2 DEF Exclusion, Trusts
  <2>10. CASE ClearFinalizer(a)
    <3>1. buffer'.freed = buffer.freed /\ UNCHANGED <<heap, corrupted>>
      BY <2>10 DEF ClearFinalizer, Shape, Objects
    <3>2. call'[a] = Idle /\ call[a].pc = "clear"
      BY <2>10, Moves DEF ClearFinalizer, At
    <3>3. \A b \in Callers : call[b].pc # "mark"
      BY <2>2, <3>2 DEF Idle
    <3> QED BY <1>1, <3>1, <3>2, <3>3 DEF Exclusion, Trusts, Idle
  <2> QED BY <1>6, <2>7, <2>8, <2>9, <2>10 DEF Free
<1>7. CASE Finalize
  <2>1. /\ refs = {} /\ call[Collector] = Idle
        /\ Collector \in Callers /\ Collector \notin Goroutines
    BY <1>7, BufferAssumption DEF Finalize, Callers, BufferAssumption
  <2>2. \A b \in Callers : call[b] = Idle
    BY <1>1, <2>1 DEF Exclusion, Callers
  <2>3. /\ call'[Collector] = [op |-> "Free", pc |-> "check"]
        /\ \A g \in Goroutines : call'[g] = Idle
    BY <1>7, <2>1, <2>2, Moves DEF Finalize, Callers
  <2>4. /\ buffer'.freed = buffer.freed /\ buffer'.inner = buffer.inner
        /\ UNCHANGED <<heap, corrupted, contents, refs>>
    BY <1>7 DEF Finalize, Shape, Objects
  <2> QED
    BY <1>1, <2>1, <2>2, <2>3, <2>4
    DEF Exclusion, Freeing, Trusts, At, Whole, Idle, Callers
<1>8. CASE UNCHANGED vars
  BY <1>1, <1>8 DEF vars, Exclusion, Freeing, Trusts, At, Whole
<1> QED BY <1>2, <1>3, <1>4, <1>5, <1>6, <1>7, <1>8 DEF Next, Steps

-----------------------------------------------------------------------------
(***************************************************************************)
(* Theorems.                                                               *)
(***************************************************************************)

\* The invariant always holds.
LEMMA InvariantHolds == Spec => []BufferInvariant
<1>1. Init => BufferInvariant
  BY InitInvariant, MemoryAssumption, BufferAssumption
<1>2. BufferInvariant /\ [Next]_vars => BufferInvariant'
  BY ShapeStep, ExclusionStep DEF BufferInvariant
<1> QED BY <1>1, <1>2, PTL DEF Spec

\* The type invariant: a goroutine that still has statements on the fields to
\* do still has the pointer, so the finalizer waits for it.
THEOREM TypeCorrect == Spec => []TypeOK
<1>1. BufferInvariant => TypeOK
  BY DEF BufferInvariant
<1> QED BY <1>1, InvariantHolds, PTL

\* The three rules are enough for any number of goroutines: only a program
\* that breaks one can free the memory twice or use it after it was freed.
THEOREM RulesSuffice == Spec => []OnlyBrokenRulesCorrupt
<1>1. BufferInvariant => OnlyBrokenRulesCorrupt
  BY DEF BufferInvariant, Exclusion, OnlyBrokenRulesCorrupt
<1> QED BY <1>1, InvariantHolds, PTL

\* A program that keeps all three rules never corrupts the heap.
THEOREM KeepingRulesIsSafe ==
  ASSUME Rules = RuleNames
  PROVE  Spec => []HeapSound
<1> DEFINE Kept == broken = {}
<1>1. Init => Kept
  BY DEF Init
<1>2. BufferInvariant /\ Kept /\ [Next]_vars => Kept'
  <2> SUFFICES ASSUME BufferInvariant, Kept, [Next]_vars PROVE broken' = {}
    OBVIOUS
  <2>1. ASSUME NEW g \in Goroutines, NEW op \in Methods, Enter(g, op)
        PROVE  broken' = {}
    <3>1. Breaks(g, op) \cap RuleNames = {}
      BY <2>1 DEF Enter
    <3>2. Breaks(g, op) \subseteq RuleNames
      BY DEF Breaks
    <3> QED BY <2>1, <3>1, <3>2 DEF Enter
  <2>2. ASSUME NEW g \in Goroutines, Forget(g) PROVE broken' = {}
    BY <2>2 DEF Forget, RuleNames
  <2>3. ASSUME NEW a \in Callers, Steps(a) PROVE broken' = {}
    BY <2>3 DEF Steps, ReadFields, UsePointer, Free, CheckFreed, BufferFree,
       MarkFreed, ClearFinalizer
  <2>4. CASE Finalize \/ UNCHANGED vars
    BY <2>4 DEF Finalize, vars
  <2> QED BY <2>1, <2>2, <2>3, <2>4 DEF Next
<1>3. BufferInvariant /\ Kept => HeapSound
  BY DEF BufferInvariant, Exclusion, HeapSound
<1> HIDE DEF Kept
<1> QED BY <1>1, <1>2, <1>3, InvariantHolds, PTL DEF Spec

\* While the rules are kept, Bytes returns the contents until the Buffer is
\* freed and nil from then on, whoever else is in a method.
THEOREM BytesCorrect == Spec => BytesUntilFreed
<1>1. ASSUME BufferInvariant, [Next]_vars, NEW g \in Goroutines,
             call[g].op = "Bytes", call'[g] = Idle, broken = {}, vars' # vars
      PROVE  got'[g] = IF buffer.freed THEN <<>> ELSE contents
  <2>0. g \in Callers /\ TypeOK /\ Shape /\ Exclusion
    BY <1>1 DEF BufferInvariant, Callers
  <2>1. PICK a \in Callers : ReadFields(a) \/ UsePointer(a)
    <3>1. call'[g] # call[g]
      BY <1>1 DEF Idle
    <3>2. ASSUME NEW a \in Callers, a # g, Return(a) \/ \E pc : GoTo(a, pc)
          PROVE  FALSE
      BY <2>0, <3>1, <3>2, Moves
    <3>3. ASSUME NEW a \in Callers, Free(a) PROVE FALSE
      <4>1. a # g
        BY <1>1, <3>3 DEF Free, CheckFreed, BufferFree, MarkFreed, ClearFinalizer, At
      <4>2. Return(a) \/ \E pc : GoTo(a, pc)
        BY <3>3 DEF Free, CheckFreed, BufferFree, MarkFreed, ClearFinalizer
      <4> QED BY <3>2, <4>1, <4>2
    <3>4. ASSUME NEW h \in Goroutines, NEW op \in Methods, Enter(h, op) PROVE FALSE
      <4>1. h # g
        BY <1>1, <3>4 DEF Enter, Idle
      <4> QED BY <2>0, <3>1, <3>4, <4>1 DEF Enter, TypeOK
    <3>5. ~Finalize
      BY <2>0, <3>1, BufferAssumption DEF Finalize, TypeOK, BufferAssumption
    <3>6. \A h \in Goroutines : ~Forget(h)
      BY <3>1 DEF Forget
    <3> QED BY <1>1, <3>3, <3>4, <3>5, <3>6 DEF Next, Steps
  <2>2. a = g
    <3>1. Return(a) \/ GoTo(a, "use")
      BY <2>1 DEF ReadFields, UsePointer
    <3>2. call'[g] # call[g]
      BY <1>1 DEF Idle
    <3> QED BY <2>0, <3>1, <3>2, Moves
  <2>3. CASE ReadFields(g)
    <3>1. ~GoTo(g, "use")
      BY <1>1, <2>0, Moves DEF Idle
    <3>2. /\ got' = [got EXCEPT ![g] = <<>>]
          /\ buffer.freed \/ buffer.inner.data = Null \/ buffer.inner.len = 0
      BY <2>3, <3>1 DEF ReadFields
    <3>3. got'[g] = <<>>
      BY <2>0, <3>2 DEF TypeOK
    <3>4. ~buffer.freed => contents = <<>>
      <4> SUFFICES ASSUME ~buffer.freed, contents # <<>> PROVE FALSE
        OBVIOUS
      <4>1. PICK b \in Blocks : buffer.inner = [data |-> b, len |-> 1, capacity |-> 1]
        BY <2>0 DEF Shape, InnerOK
      <4>2. buffer.inner.data \in Blocks /\ buffer.inner.len = 1
        BY <4>1
      <4> QED BY <3>2, <4>2, MemoryAssumption DEF MemoryAssumption
    <3> QED BY <3>3, <3>4
  <2>4. CASE UsePointer(g)
    <3>1. Trusts(g) /\ call[g].pc # "mark"
      BY <1>1, <2>4 DEF UsePointer, Trusts
    <3>2. ~buffer.freed
      BY <2>0, <3>1 DEF Exclusion
    <3>3. AsSlice(heap, buffer.inner) = contents
      BY <2>0, <3>1, TrustIsJustified, MemoryAssumption, BufferAssumption
    <3>4. got' = [got EXCEPT ![g] = AsSlice(heap, buffer.inner)]
      BY <1>1, <2>4 DEF UsePointer
    <3> QED BY <2>0, <3>2, <3>3, <3>4 DEF TypeOK
  <2> QED BY <2>1, <2>2, <2>3, <2>4
<1>2. BufferInvariant /\ [Next]_vars
        => [\A g \in Goroutines :
              call[g].op = "Bytes" /\ call'[g] = Idle /\ broken = {}
                => got'[g] = IF buffer.freed THEN <<>> ELSE contents]_vars
  BY <1>1
<1> QED BY <1>2, InvariantHolds, PTL DEF Spec, BytesUntilFreed
=============================================================================
