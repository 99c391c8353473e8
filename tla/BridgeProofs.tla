------------------------------ MODULE BridgeProofs ------------------------------
(***************************************************************************)
(* Proofs about the whole system, for any number of goroutines, Rust       *)
(* threads, names, callbacks, blocks and calls.                            *)
(*                                                                         *)
(* The registry inside the system behaves as the registry alone            *)
(* (RegistryInside), so that its theorems hold here too.  The invariant of *)
(* the rest has two parts.  Memory: each call's values fit the heap, no    *)
(* two of them share a block, except for an answer that is its own         *)
(* request, and each live block is in a call or abandoned.  Linked: where  *)
(* a call is in Go says where its activation is in the registry.           *)
(***************************************************************************)
EXTENDS Bridge, FfiMemoryProofs

\* The registry's own theorems, read in this system.
RP == INSTANCE RegistryRefinementProofs WITH MaxDepth <- 1, ReentrantCalls <- FALSE

-----------------------------------------------------------------------------
(***************************************************************************)
(* The registry inside the system.                                         *)
(***************************************************************************)

\* The registry the theorems are about is the registry of Bridge.
LEMMA SameRegistry ==
  /\ RP!Init <=> R!Init
  /\ RP!Next <=> R!Next
  /\ RP!TypeOK <=> R!TypeOK
  /\ RP!RegistryAssumption <=> R!RegistryAssumption
  /\ \A a : RP!StepOf(a) <=> (R!Calls(a) \/ R!RegistrySteps(a) \/ R!UserSteps(a))
<1> USE DEF RP!FfiErrorCode, R!FfiErrorCode, RP!ErrorVariants, R!ErrorVariants,
      RP!Code, R!Code, RP!RegisterOps, R!RegisterOps,
      RP!UnregisterOps, R!UnregisterOps, RP!FfiOps, R!FfiOps, RP!Ops, R!Ops,
      RP!BadNameKinds, R!BadNameKinds, RP!Results, R!Results, RP!Result, R!Result,
      RP!NoResult, R!NoResult, RP!Unwound, R!Unwound, RP!Done, R!Done,
      RP!Absent, R!Absent, RP!PoisonReported, R!PoisonReported,
      RP!Rejected, R!Rejected, RP!Invoked, R!Invoked,
      RP!CallbackCodes, R!CallbackCodes, RP!Callbacks, R!Callbacks,
      RP!Activations, R!Activations, RP!Frame, R!Frame, RP!Idle, R!Idle,
      RP!InUserCode, R!InUserCode, RP!OnTop, R!OnTop, RP!MayCall, R!MayCall,
      RP!Fresh, R!Fresh, RP!Enter, R!Enter, RP!Return, R!Return,
      RP!DropThenReturn, R!DropThenReturn, RP!HasDestructor, R!HasDestructor,
      RP!ReleaseGuard, R!ReleaseGuard, RP!TakeGuard, R!TakeGuard,
      RP!ReportPoison, R!ReportPoison, RP!MayLock, R!MayLock,
      RP!Registered, R!Registered, RP!UnwindGuard, R!UnwindGuard, RP!Abort, R!Abort
<1>1. \A S : RP!Cardinality(S) = R!Cardinality(S) /\ RP!IsFiniteSet(S) = R!IsFiniteSet(S)
  BY Zenon DEF RP!Cardinality, R!Cardinality, RP!IsFiniteSet, R!IsFiniteSet
<1>2. \A a : RP!Calls(a) <=> R!Calls(a)
  BY DEF RP!Calls, R!Calls, RP!RegisterCallback, R!RegisterCallback,
     RP!FfiRegisterCallback, R!FfiRegisterCallback,
     RP!UnregisterCallback, R!UnregisterCallback,
     RP!FfiUnregisterCallback, R!FfiUnregisterCallback,
     RP!FfiInvokeCallback, R!FfiInvokeCallback, RP!CallbackCount, R!CallbackCount
<1>3. \A a : RP!RegistrySteps(a) <=> R!RegistrySteps(a)
  <2>1. \A a : RP!Lock(a) <=> R!Lock(a)
    BY DEF RP!Lock, R!Lock
  <2>2. \A a : RP!Insert(a) <=> R!Insert(a)
    BY DEF RP!Insert, R!Insert
  <2>3. \A a : RP!Remove(a) <=> R!Remove(a)
    BY DEF RP!Remove, R!Remove
  <2>4. \A a : RP!Count(a) <=> R!Count(a)
    BY <1>1 DEF RP!Count, R!Count
  <2>5. \A a : RP!Lookup(a) <=> R!Lookup(a)
    BY DEF RP!Lookup, R!Lookup
  <2>6. \A a : RP!Consume(a) <=> R!Consume(a)
    BY DEF RP!Consume, R!Consume
  <2> QED BY <2>1, <2>2, <2>3, <2>4, <2>5, <2>6, Zenon DEF RP!RegistrySteps, R!RegistrySteps
<1>4. \A a : RP!UserSteps(a) <=> R!UserSteps(a)
  <2>1. \A a : RP!CallbackReturns(a) <=> R!CallbackReturns(a)
    BY DEF RP!CallbackReturns, R!CallbackReturns
  <2>2. \A a : RP!DropReturns(a) <=> R!DropReturns(a)
    BY DEF RP!DropReturns, R!DropReturns
  <2>3. \A a : RP!CallbackPanics(a) <=> R!CallbackPanics(a)
    BY DEF RP!CallbackPanics, R!CallbackPanics
  <2>4. \A a : RP!DropPanics(a) <=> R!DropPanics(a)
    BY DEF RP!DropPanics, R!DropPanics
  <2> QED BY <2>1, <2>2, <2>3, <2>4, Zenon DEF RP!UserSteps, R!UserSteps
<1>5. RP!Activations = R!Activations
  OBVIOUS
<1>6. RP!Next <=> R!Next
  BY <1>2, <1>3, <1>4, <1>5, Zenon DEF RP!Next, R!Next
<1>7. RP!Init <=> R!Init
  BY DEF RP!Init, R!Init
<1>8. RP!TypeOK <=> R!TypeOK
  BY DEF RP!TypeOK, R!TypeOK, RP!FrameOK, R!FrameOK, RP!ArgumentsOK, R!ArgumentsOK
<1>9. RP!RegistryAssumption <=> R!RegistryAssumption
  BY <1>1 DEF RP!RegistryAssumption, R!RegistryAssumption
<1>10. \A a : RP!StepOf(a) <=> (R!Calls(a) \/ R!RegistrySteps(a) \/ R!UserSteps(a))
  BY <1>2, <1>3, <1>4, Zenon DEF RP!StepOf
<1> QED BY <1>6, <1>7, <1>8, <1>9, <1>10

\* The activations are those of the threads, one each.
LEMMA ActivationFacts ==
  /\ \A t \in Threads : Act(t) \in R!Activations
  /\ \A a \in R!Activations : \E t \in Threads : a = Act(t)
  /\ \A t, u \in Threads : Act(t) = Act(u) => t = u
BY DEF R!Activations, Act

\* Every step of the system is a step of the registry, or leaves it alone.
LEMMA RegistryStep ==
  [Next]_vars => [R!Next \/ R!Terminated]_registryVars
<1> SUFFICES ASSUME [Next]_vars
             PROVE  R!Next \/ UNCHANGED registryVars
  OBVIOUS
<1>1. ASSUME NEW g \in Goroutines, Begins(g) \/ Proceeds(g)
      PROVE  R!Next \/ UNCHANGED registryVars
  <2>1. Act(g) \in R!Activations
    BY ActivationFacts DEF Threads
  <2>2. CASE Begins(g)
    BY <2>2 DEF Begins
  <2>3. CASE Enters(g)
    BY <2>1, <2>3 DEF Enters, R!Next, R!Calls
  <2>4. CASE Locks(g)
    BY <2>1, <2>4 DEF Locks, R!Next, R!RegistrySteps, R!UserSteps
  <2>5. CASE AnswersCopy(g) \/ AnswersAlias(g) \/ AnswersUndecodable(g) \/ AnswersError(g)
    <3>1. R!CallbackReturns(Act(g))
      BY <2>5 DEF AnswersCopy, AnswersAlias, AnswersUndecodable, AnswersError, Succeeds, Returns
    <3> QED BY <2>1, <3>1 DEF R!Next, R!UserSteps
  <2>6. CASE ReturnsToGo(g)
    BY <2>1, <2>6 DEF ReturnsToGo, R!Next, R!RegistrySteps
  <2>7. CASE GoSteps(g) /\ UNCHANGED <<registryVars, budget>>
    BY <2>7
  <2> QED BY <1>1, <2>2, <2>3, <2>4, <2>5, <2>6, <2>7 DEF Proceeds
<1>2. ASSUME NEW t \in RustThreads, Administers(t) \/ Continues(t)
      PROVE  R!Next
  <2>1. Act(t) \in R!Activations
    BY ActivationFacts DEF Threads
  <2>2. CASE Administers(t)
    BY <2>1, <2>2 DEF Administers, R!Next, R!Calls
  <2>3. CASE Continues(t)
    BY <2>1, <2>3 DEF Continues, R!Next
  <2> QED BY <1>2, <2>2, <2>3
<1>3. CASE Finished
  BY <1>3 DEF Finished, vars
<1>4. CASE UNCHANGED vars
  BY <1>4 DEF vars
<1> QED BY <1>1, <1>2, <1>3, <1>4 DEF Next

\* The calls of goroutines are calls like any others: what the system does to
\* the registry (CALLBACKS of callback.rs), the registry alone can do.
THEOREM RegistryInside == Spec => R!Spec
<1>1. Init => R!Init
  BY DEF Init
<1>2. [Next]_vars => [R!Next \/ R!Terminated]_R!vars
  BY RegistryStep DEF registryVars, R!vars
<1> QED BY <1>1, <1>2, PTL DEF Spec, R!Spec

\* So the theorems about it hold here.
LEMMA RegistryProofs == Spec => RP!Spec
<1>1. RP!Init <=> R!Init
  BY SameRegistry
<1>2. [R!Next \/ R!Terminated]_R!vars => [RP!Next \/ RP!Terminated]_RP!vars
  BY SameRegistry DEF R!vars, RP!vars, R!Terminated, RP!Terminated
<1>3. R!Spec => RP!Spec
  BY <1>1, <1>2, PTL DEF R!Spec, RP!Spec
<1> QED BY <1>3, RegistryInside, PTL

\* Its types are right.
LEMMA RegistryTypes == Spec => []R!TypeOK
<1>1. RP!RegistryAssumption
  BY RegistryConstants, SameRegistry
<1>2. RP!Spec => []RP!TypeOK
  BY <1>1, RP!TypeCorrect
<1>3. RP!TypeOK <=> R!TypeOK
  BY SameRegistry
<1> QED BY <1>2, <1>3, RegistryProofs, PTL

-----------------------------------------------------------------------------
(***************************************************************************)
(* The inductive invariant.                                                *)
(***************************************************************************)
GoPc == {"rest", "invoke", "callback", "check", "free_res", "bytes",
         "free_result", "free_buf", "done"}

Codes == {FfiErrorCode.Ok} \cup {Code(e) : e \in ErrorVariants}

ResultType ==
  [error_code : Codes, error_message : StringType, payload : BufferType]

OutcomeType ==
  [response : Strings,
   error : DOMAIN ErrorCode \cup {"nil", "empty response", "deserialize response"}]

CallRecords ==
  [pc : GoPc, request : Strings, buf : BufferType, res : ResultType,
   result : BufferType, outcome : OutcomeType, answer : Strings]

\* The blocks a call points to.
BlocksOf(f) ==
  Blocks \cap {f.buf.data, f.result.data, f.res.error_message.data,
               f.res.payload.data}

\* What a call has in hand at each point.
HasAt(f) ==
  /\ f.pc = "rest" => f = Resting
  /\ f.pc \notin {"callback", "check", "free_res"} => f.res = Resting.res
  /\ f.pc \notin {"free_res", "bytes", "free_result"} => f.result = NullBuffer
  /\ f.pc = "done" => f.buf = NullBuffer
  /\ IF f.res.error_code = FfiErrorCode.Ok
       THEN f.res.error_message = NullString
       ELSE f.res.payload = NullBuffer

\* Only the payload and the request may be one block.
Apart(f) ==
  /\ f.result.data \in Blocks =>
       f.result.data \notin {f.buf.data, f.res.payload.data, f.res.error_message.data}
  /\ f.res.error_message.data \in Blocks =>
       f.res.error_message.data \notin {f.buf.data, f.res.payload.data}

CallOK(h, f) ==
  /\ f \in CallRecords
  /\ HasAt(f)
  /\ Apart(f)
  /\ IsUtf8(f.outcome.response)
  /\ BufferFits(h, f.buf) /\ BufferFits(h, f.result) /\ BufferFits(h, f.res.payload)
  /\ StringFits(h, f.res.error_message)

Memory ==
  /\ heap \in Heaps
  /\ ~corrupted
  /\ abandoned \subseteq Blocks
  /\ go \in [Goroutines -> CallRecords]
  /\ \A g \in Goroutines : CallOK(heap, go[g])
  /\ \A g, k \in Goroutines : g # k => BlocksOf(go[g]) \cap BlocksOf(go[k]) = {}
  /\ \A b \in Blocks :
       heap[b].live => b \in abandoned \/ \E g \in Goroutines : b \in BlocksOf(go[g])

\* A goroutine is in C while its activation is in the registry; and it has a
\* result only when ffi_invoke_callback is about to return a success.
LinkOK(f, r) ==
  /\ f.pc = "callback" <=> r.pc # "idle"
  /\ f.pc = "callback" /\ f.res # Resting.res =>
       r.pc = "returned" /\ r.res.val = FfiErrorCode.Ok

Linked == \A g \in Goroutines : LinkOK(go[g], frame[Act(g)])

Budgets ==
  /\ budget \in [Threads -> Nat]
  /\ \A t \in Threads : budget[t] \in 0 .. MaxCalls[t]

BridgeInvariant == Memory /\ Linked /\ Budgets

-----------------------------------------------------------------------------
(***************************************************************************)
(* Calls and their blocks.                                                 *)
(***************************************************************************)

\* Go has a name for each code that a result can carry.
LEMMA ErrorNames ==
  /\ FfiErrorCode.Ok = 0
  /\ \A e \in ErrorVariants : Code(e) # 0
  /\ \A code \in Codes \ {0} : ErrorNamed(code) \in DOMAIN ErrorCode
  /\ "Unknown" \in ErrorVariants
<1>1. /\ FfiErrorCode.Ok = 0
      /\ \A e \in ErrorVariants : Code(e) # 0
      /\ "Unknown" \in ErrorVariants
  BY DEF FfiErrorCode, ErrorVariants, Code
<1>2. \A code \in Codes \ {0} : \E e \in DOMAIN ErrorCode : ErrorCode[e] = code
  BY <1>1 DEF Codes, Code, ErrorVariants, FfiErrorCode, ErrorCode
<1> QED BY <1>1, <1>2 DEF ErrorNamed

\* A goroutine at rest has nothing in hand.
LEMMA RestingFacts ==
  /\ Resting \in CallRecords /\ Resting.pc = "rest" /\ Resting.request = <<>>
  /\ Resting.buf = NullBuffer /\ Resting.result = NullBuffer
  /\ Resting.res = ResultOk(NullBuffer)
  /\ Resting.res.error_code = FfiErrorCode.Ok
  /\ Resting.res.error_message = NullString /\ Resting.res.payload = NullBuffer
  /\ IsUtf8(Resting.outcome.response)
  /\ NullBuffer.data = Null /\ NullString.data = Null
<1>1. ResultOk(NullBuffer) \in ResultType
  BY NoBlock, MemoryAssumption DEF ResultOk, ResultType, Codes
<1>2. Returned(<<>>, "nil") \in OutcomeType
  BY ShortStrings, MemoryAssumption DEF Returned, OutcomeType
<1>3. Resting \in CallRecords
  BY <1>1, <1>2, NoBlock, ShortStrings, MemoryAssumption DEF Resting, CallRecords, GoPc
<1>4. IsUtf8(Resting.outcome.response)
  BY ShortStrings, MemoryAssumption DEF Resting, Returned
<1> QED BY <1>3, <1>4 DEF Resting, ResultOk, NullBuffer, NullString

\* It is well formed in every heap, and points to no block.
LEMMA RestingOK ==
  /\ \A h : CallOK(h, Resting)
  /\ BlocksOf(Resting) = {}
BY RestingFacts, NoBlock, MemoryAssumption DEF CallOK, HasAt, Apart, BlocksOf

\* A call depends on its own blocks only.
LEMMA CallFrame ==
  ASSUME NEW h, NEW new, NEW f, CallOK(h, f), \A b \in BlocksOf(f) : new[b] = h[b]
  PROVE  CallOK(new, f)
<1>1. /\ f.buf.data \in Blocks => new[f.buf.data] = h[f.buf.data]
      /\ f.result.data \in Blocks => new[f.result.data] = h[f.result.data]
      /\ f.res.payload.data \in Blocks => new[f.res.payload.data] = h[f.res.payload.data]
  BY DEF BlocksOf
<1>2. BufferFits(new, f.buf) /\ BufferFits(new, f.result) /\ BufferFits(new, f.res.payload)
  BY <1>1, AsSliceOfBlock DEF CallOK
<1>3. StringFits(new, f.res.error_message)
  BY DEF CallOK, StringFits, BlocksOf
<1> QED BY <1>2, <1>3 DEF CallOK

\* The blocks of a call are live.
LEMMA CallIsLive ==
  ASSUME NEW h, NEW f, CallOK(h, f), NEW b \in BlocksOf(f)
  PROVE  h[b].live
<1>1. \A buf : BufferFits(h, buf) /\ buf.data = b => h[b].live
  BY DEF BufferFits, BlocksOf
<1>2. \A str : StringFits(h, str) /\ str.data = b => h[b].live
  BY NoBlock, MemoryAssumption DEF StringFits, NullString, BlocksOf
<1>3. b \in {f.buf.data, f.result.data, f.res.error_message.data, f.res.payload.data}
  BY DEF BlocksOf
<1> QED BY <1>1, <1>2, <1>3 DEF CallOK

\* The other calls, and their blocks, are as they were.
Spares(g) ==
  \A k \in Goroutines :
    k # g => go'[k] = go[k] /\ \A b \in BlocksOf(go[k]) : heap'[b] = heap[b]

\* A call gives up blocks and takes free ones, and its other blocks, and
\* those of the other calls, are as they were.
LEMMA CallChanges ==
  ASSUME Memory, NEW g \in Goroutines, NEW f,
         go' = [go EXCEPT ![g] = f],
         heap' \in Heaps, ~corrupted',
         abandoned \subseteq abandoned', abandoned' \subseteq Blocks,
         CallOK(heap', f),
         \A b \in Blocks : heap'[b] # heap[b] => b \in BlocksOf(go[g]) \/ ~heap[b].live,
         \A b \in BlocksOf(f) : b \in BlocksOf(go[g]) \/ ~heap[b].live,
         \A b \in Blocks : heap'[b].live =>
           \/ b \in BlocksOf(f) \/ b \in abandoned'
           \/ heap[b].live /\ b \notin BlocksOf(go[g])
  PROVE  Memory' /\ Spares(g)
<1>1. /\ go'[g] = f /\ go' \in [Goroutines -> CallRecords]
      /\ \A k \in Goroutines : k # g => go'[k] = go[k]
  BY DEF Memory, CallOK
<1>2. \A k \in Goroutines : k # g => \A b \in BlocksOf(go[k]) :
         b \in Blocks /\ heap[b].live /\ b \notin BlocksOf(go[g])
  BY CallIsLive DEF Memory, BlocksOf
<1>3. \A k \in Goroutines : CallOK(heap', go'[k])
  <2> TAKE k \in Goroutines
  <2>1. CASE k = g
    BY <1>1, <2>1
  <2>2. CASE k # g
    <3>1. \A b \in BlocksOf(go[k]) : heap'[b] = heap[b]
      BY <1>2, <2>2
    <3> QED BY <1>1, <2>2, <3>1, CallFrame DEF Memory
  <2> QED BY <2>1, <2>2
<1>4. \A k, m \in Goroutines : k # m => BlocksOf(go'[k]) \cap BlocksOf(go'[m]) = {}
  <2>1. \A k \in Goroutines : k # g => BlocksOf(f) \cap BlocksOf(go[k]) = {}
    BY <1>2
  <2> QED BY <1>1, <2>1 DEF Memory
<1>5. \A b \in Blocks : heap'[b].live =>
        b \in abandoned' \/ \E k \in Goroutines : b \in BlocksOf(go'[k])
  <2> SUFFICES ASSUME NEW b \in Blocks, heap[b].live, b \notin BlocksOf(go[g]),
                      b \notin abandoned'
               PROVE  \E k \in Goroutines : b \in BlocksOf(go'[k])
    BY <1>1
  <2>1. PICK k \in Goroutines : b \in BlocksOf(go[k])
    BY DEF Memory
  <2> QED BY <1>1, <2>1
<1>6. Spares(g)
  BY <1>1, <1>2 DEF Spares
<1> QED BY <1>1, <1>3, <1>4, <1>5, <1>6 DEF Memory

\* A step that changes what a call has in hand, on the same heap.
LEMMA KeepStep ==
  ASSUME Memory, NEW g \in Goroutines, NEW f, go' = [go EXCEPT ![g] = f],
         heap' = heap, ~corrupted', abandoned' = abandoned,
         CallOK(heap, f), BlocksOf(f) = BlocksOf(go[g])
  PROVE  Memory' /\ Spares(g)
BY CallChanges DEF Memory

\* A step that allocates at most one block, for the call.
LEMMA AllocStep ==
  ASSUME Memory, NEW g \in Goroutines, NEW f, go' = [go EXCEPT ![g] = f],
         NEW b \in Available(heap), NEW ptr, Allocates(heap, b, heap', ptr),
         ~corrupted', abandoned' = abandoned,
         CallOK(heap', f), BlocksOf(f) = BlocksOf(go[g]) \cup (Blocks \cap {ptr})
  PROVE  Memory' /\ Spares(g)
<1>1. b \in Blocks /\ ~heap[b].live
  BY DEF Available
<1>2. /\ heap' \in Heaps
      /\ \A c \in Blocks : c # b => heap'[c] = heap[c]
      /\ ptr \in Blocks => ptr = b
      /\ ptr \notin Blocks => heap' = heap
  BY DEF Allocates
<1>3. \A c \in Blocks : heap'[c] # heap[c] => ~heap[c].live
  BY <1>1, <1>2
<1>4. \A c \in BlocksOf(f) : c \in BlocksOf(go[g]) \/ ~heap[c].live
  BY <1>1, <1>2
<1>5. \A c \in Blocks : heap'[c].live =>
        c \in BlocksOf(f) \/ (heap[c].live /\ c \notin BlocksOf(go[g]))
  <2>1. CASE ptr \in Blocks
    BY <1>2, <2>1
  <2>2. CASE ptr \notin Blocks
    BY <1>2, <2>2
  <2> QED BY <2>1, <2>2
<1>6. abandoned' \subseteq Blocks
  BY DEF Memory
<1> QED BY <1>2, <1>3, <1>4, <1>5, <1>6, CallChanges

\* What a call had in hand before an allocation is as it was.
LEMMA StillOK ==
  ASSUME Memory, NEW g \in Goroutines, NEW b \in Available(heap), NEW new, NEW ptr,
         Allocates(heap, b, new, ptr)
  PROVE  CallOK(new, go[g]) /\ ptr \notin BlocksOf(go[g])
<1>1. \A c \in BlocksOf(go[g]) : heap[c].live
  BY CallIsLive DEF Memory
<1>2. BlocksOf(go[g]) \subseteq Blocks
  BY DEF BlocksOf
<1>3. \A c \in BlocksOf(go[g]) : new[c] = heap[c] /\ c # ptr
  BY <1>1, <1>2 DEF Allocates, Available
<1> QED BY <1>3, CallFrame DEF Memory

\* A step that frees one of the call's blocks.
LEMMA FreeStep ==
  ASSUME Memory, NEW g \in Goroutines, NEW f, go' = [go EXCEPT ![g] = f],
         NEW ptr, Frees(heap, heap', ptr), ptr \in Blocks => ptr \in BlocksOf(go[g]),
         ~corrupted', abandoned' = abandoned,
         CallOK(heap', f), BlocksOf(f) = BlocksOf(go[g]) \ {ptr}
  PROVE  Memory' /\ Spares(g)
<1>1. /\ heap' \in Heaps
      /\ \A c \in Blocks : c # ptr => heap'[c] = heap[c]
      /\ ptr \in Blocks => ~heap'[ptr].live
  BY DEF Frees, Unallocated
<1>2. \A c \in Blocks : heap'[c] # heap[c] => c \in BlocksOf(go[g])
  BY <1>1
<1>3. \A c \in Blocks : heap'[c].live =>
        c \in BlocksOf(f) \/ (heap[c].live /\ c \notin BlocksOf(go[g]))
  <2> SUFFICES ASSUME NEW c \in Blocks, heap'[c].live, c \notin BlocksOf(f)
               PROVE  heap[c].live /\ c \notin BlocksOf(go[g])
    OBVIOUS
  <2>1. c # ptr
    BY <1>1
  <2> QED BY <1>1, <2>1
<1>4. abandoned' \subseteq Blocks
  BY DEF Memory
<1> QED BY <1>1, <1>2, <1>3, <1>4, CallChanges

-----------------------------------------------------------------------------
(***************************************************************************)
(* The steps of a call preserve Memory.                                    *)
(***************************************************************************)

\* Reading what a call has in hand is defined, and gives a string.
LEMMA Reading ==
  ASSUME Memory, NEW g \in Goroutines
  PROVE  /\ Readable(heap, go[g].buf) /\ AsSlice(heap, go[g].buf) \in Strings
         /\ Readable(heap, go[g].res.payload)
         /\ AsSlice(heap, go[g].res.payload) \in Strings
         /\ Readable(heap, go[g].result) /\ AsSlice(heap, go[g].result) \in Strings
         /\ Readable(heap, AsStr(go[g].res.error_message))
<1>1. /\ heap \in Heaps
      /\ BufferFits(heap, go[g].buf) /\ BufferFits(heap, go[g].result)
      /\ BufferFits(heap, go[g].res.payload) /\ StringFits(heap, go[g].res.error_message)
      /\ go[g].buf \in BufferType /\ go[g].result \in BufferType
      /\ go[g].res.payload \in BufferType
  BY DEF Memory, CallOK, CallRecords, ResultType
<1>2. \A x \in BufferType : x.len \in 0 .. MaxSize
  BY DEF BufferType
<1> QED BY <1>1, <1>2, FitsIsReadable, FitsIsReadableString, AsSliceType, MemoryAssumption

\* FromJSON makes a Buffer of the request.
LEMMA BeginMemory ==
  ASSUME Memory, NEW g \in Goroutines, Begin(g)
  PROVE  Memory' /\ Spares(g)
<1>1. PICK request \in Requests, b \in Available(heap) :
        LET out == FromBytes(heap, b, request) IN
        /\ heap' = out.heap
        /\ Step(g, "rest", [Resting EXCEPT !.pc = "invoke", !.request = request,
                                           !.buf = out.val])
        /\ UNCHANGED <<corrupted, abandoned>>
  BY DEF Begin
<1> DEFINE out == FromBytes(heap, b, request)
           f == [Resting EXCEPT !.pc = "invoke", !.request = request, !.buf = out.val]
<1>2. /\ heap' = out.heap /\ corrupted' = corrupted /\ abandoned' = abandoned
      /\ go[g].pc = "rest" /\ go' = [go EXCEPT ![g] = f]
  BY <1>1 DEF Step
<1>3. /\ Allocates(heap, b, out.heap, out.val.data)
      /\ out.val \in BufferType /\ BufferFits(out.heap, out.val)
      /\ request \in Strings
  <2>1. request \in Strings /\ b \in Blocks /\ heap \in Heaps
    BY GoAssumption DEF GoAssumption, Available, Memory
  <2> QED BY <2>1, FromBytesFacts, MemoryAssumption
<1> HIDE DEF out
<1>4. /\ f \in CallRecords
      /\ f.pc = "invoke" /\ f.buf = out.val /\ f.res = Resting.res
      /\ f.result = Resting.result /\ f.outcome = Resting.outcome
  BY <1>3, RestingFacts DEF CallRecords, GoPc
<1> HIDE DEF f
<1>5. CallOK(out.heap, f)
  BY <1>3, <1>4, RestingFacts, NoBlock, MemoryAssumption DEF CallOK, HasAt, Apart
<1>6. BlocksOf(go[g]) = {} /\ BlocksOf(f) = Blocks \cap {out.val.data}
  BY <1>2, <1>4, RestingFacts, RestingOK, NoBlock, MemoryAssumption
  DEF BlocksOf, Memory, CallOK, HasAt
<1>7. ~corrupted'
  BY <1>2 DEF Memory
<1> QED BY <1>2, <1>3, <1>5, <1>6, <1>7, AllocStep

\* Entering C gives nothing away.
LEMMA EnterMemory ==
  ASSUME Memory, NEW g \in Goroutines, EnterC(g)
  PROVE  Memory' /\ Spares(g)
<1> DEFINE f == [go[g] EXCEPT !.pc = "callback"]
<1>1. /\ go[g].pc = "invoke" /\ go' = [go EXCEPT ![g] = f]
      /\ heap' = heap /\ corrupted' = corrupted /\ abandoned' = abandoned
  BY DEF EnterC, Step
<1>2. go[g] \in CallRecords /\ CallOK(heap, go[g])
  BY DEF Memory, CallOK
<1>3. /\ f \in CallRecords
      /\ f.pc = "callback" /\ f.buf = go[g].buf /\ f.res = go[g].res
      /\ f.result = go[g].result /\ f.outcome = go[g].outcome
  BY <1>2 DEF CallRecords, GoPc
<1> HIDE DEF f
<1>4. CallOK(heap, f) /\ BlocksOf(f) = BlocksOf(go[g])
  BY <1>1, <1>2, <1>3 DEF CallOK, HasAt, Apart, BlocksOf
<1>5. ~corrupted'
  BY <1>1 DEF Memory
<1> QED BY <1>1, <1>4, <1>5, KeepStep

\* The answer of a callback becomes the payload: a buffer of its own, or one
\* made of the request's bytes, or the request itself.
LEMMA AnswerMemory ==
  ASSUME Memory, NEW g \in Goroutines, NEW bytes \in Strings, NEW buf \in BufferType,
         go[g].pc = "callback", go[g].res = Resting.res,
         go' = [go EXCEPT ![g].res = ResultOk(buf), ![g].answer = bytes],
         ~corrupted', abandoned' = abandoned,
         \/ \E b \in Available(heap) :
              Allocates(heap, b, heap', buf.data) /\ BufferFits(heap', buf)
         \/ heap' = heap /\ buf = go[g].buf
  PROVE  Memory' /\ Spares(g)
<1> DEFINE f == [go[g] EXCEPT !.res = ResultOk(buf), !.answer = bytes]
<1>1. go' = [go EXCEPT ![g] = f]
  BY DEF Memory
<1>2. go[g] \in CallRecords /\ CallOK(heap, go[g])
  BY DEF Memory, CallOK
<1>3. /\ f \in CallRecords
      /\ f.pc = "callback" /\ f.buf = go[g].buf /\ f.res = ResultOk(buf)
      /\ f.result = go[g].result /\ f.outcome = go[g].outcome
  <2>1. ResultOk(buf) \in ResultType
    BY NoBlock, MemoryAssumption DEF ResultOk, ResultType, Codes
  <2> QED BY <1>2, <2>1 DEF CallRecords
<1>4. /\ f.res.payload = buf /\ f.res.error_message = NullString
      /\ f.res.error_code = FfiErrorCode.Ok
      /\ go[g].res.payload = NullBuffer /\ go[g].res.error_message = NullString
      /\ go[g].result = NullBuffer
  BY <1>2, <1>3, RestingFacts DEF ResultOk, CallOK, HasAt
<1> HIDE DEF f
<1>5. HasAt(f) /\ Apart(f)
  BY <1>2, <1>3, <1>4, RestingFacts, NoBlock, MemoryAssumption DEF HasAt, Apart, CallOK
<1>6. BlocksOf(f) = BlocksOf(go[g]) \cup (Blocks \cap {buf.data})
  BY <1>3, <1>4, RestingFacts, NoBlock, MemoryAssumption DEF BlocksOf
<1>7. CASE heap' = heap /\ buf = go[g].buf
  <2>1. CallOK(heap, f)
    BY <1>2, <1>3, <1>4, <1>5, <1>7 DEF CallOK
  <2>2. BlocksOf(f) = BlocksOf(go[g])
    BY <1>6, <1>7 DEF BlocksOf
  <2> QED BY <1>1, <1>7, <2>1, <2>2, KeepStep
<1>8. ASSUME NEW b \in Available(heap), Allocates(heap, b, heap', buf.data),
             BufferFits(heap', buf)
      PROVE  Memory' /\ Spares(g)
  <2>1. CallOK(heap', go[g])
    BY <1>8, StillOK
  <2>2. CallOK(heap', f)
    BY <1>3, <1>4, <1>5, <1>8, <2>1 DEF CallOK
  <2> QED BY <1>1, <1>6, <1>8, <2>2, AllocStep
<1> QED BY <1>7, <1>8

\* The message of a callback's own error is made, and lost at once.
LEMMA LostMemory ==
  ASSUME Memory, NEW b \in Available(heap), go' = go, ~corrupted',
         heap' = ResultErr(heap, b, "Unknown").heap,
         abandoned' = abandoned \cup {b}
  PROVE  Memory' /\ \A g \in Goroutines : Spares(g)
<1>1. b \in Blocks /\ ~heap[b].live /\ heap \in Heaps
  BY DEF Available, Memory
<1>2. /\ heap' \in Heaps /\ abandoned' \subseteq Blocks
      /\ \A c \in Blocks : c # b => heap'[c] = heap[c]
  <2>1. /\ heap' \in Heaps
        /\ \A c \in Blocks : c # b => heap'[c] = heap[c]
    <3> DEFINE out == ResultErr(heap, b, "Unknown")
    <3>1. Allocates(heap, b, out.heap, out.val.error_message.data)
      BY <1>1, ResultErrFacts, MemoryAssumption
    <3> HIDE DEF out
    <3>2. out.heap \in Heaps /\ \A c \in Blocks : c # b => out.heap[c] = heap[c]
      BY <3>1 DEF Allocates
    <3> QED BY <3>2 DEF out
  <2>2. abandoned' \subseteq Blocks
    BY <1>1 DEF Memory
  <2> QED BY <2>1, <2>2
<1>3. \A g \in Goroutines :
        CallOK(heap', go'[g]) /\ \A c \in BlocksOf(go[g]) : heap'[c] = heap[c]
  <2> TAKE g \in Goroutines
  <2>1. \A c \in BlocksOf(go[g]) : heap[c].live
    BY CallIsLive DEF Memory
  <2>2. \A c \in BlocksOf(go[g]) : heap'[c] = heap[c]
    BY <1>1, <1>2, <2>1 DEF BlocksOf
  <2> QED BY <2>2, CallFrame DEF Memory
<1>4. \A c \in Blocks :
        heap'[c].live => c \in abandoned' \/ \E g \in Goroutines : c \in BlocksOf(go'[g])
  BY <1>2 DEF Memory
<1> QED BY <1>2, <1>3, <1>4 DEF Memory, Spares

\* ffi_invoke_callback returns an error: its message is the call's own.
LEMMA FailureMemory ==
  ASSUME Memory, NEW g \in Goroutines, NEW b \in Available(heap), NEW error \in ErrorVariants,
         go[g].pc = "callback", go[g].res = Resting.res,
         heap' = ResultErr(heap, b, error).heap,
         go' = [go EXCEPT ![g] = [go[g] EXCEPT !.pc = "check",
                                              !.res = ResultErr(heap, b, error).val]],
         ~corrupted', abandoned' = abandoned
  PROVE  Memory' /\ Spares(g)
<1> DEFINE out == ResultErr(heap, b, error)
           f == [go[g] EXCEPT !.pc = "check", !.res = out.val]
<1>1. heap' = out.heap /\ go' = [go EXCEPT ![g] = f]
  OBVIOUS
<1>2. /\ Allocates(heap, b, out.heap, out.val.error_message.data)
      /\ out.val.error_message.data = b /\ b \in Blocks /\ ~heap[b].live
      /\ out.val.error_message \in StringType
      /\ StringFits(out.heap, out.val.error_message)
      /\ out.val = [error_code |-> Code(error), error_message |-> out.val.error_message,
                    payload |-> NullBuffer]
  <2>1. b \in Blocks /\ ~heap[b].live /\ heap \in Heaps
    BY DEF Available, Memory
  <2> QED BY <2>1, ResultErrFacts, MemoryAssumption
<1> HIDE DEF out
<1>3. /\ out.val.error_code # FfiErrorCode.Ok /\ out.val.payload = NullBuffer
      /\ out.val \in ResultType
  BY <1>2, ErrorNames, NoBlock, MemoryAssumption DEF ResultType, Codes
<1>4. go[g] \in CallRecords /\ CallOK(heap, go[g])
  BY DEF Memory, CallOK
<1>5. /\ f \in CallRecords
      /\ f.pc = "check" /\ f.buf = go[g].buf /\ f.res = out.val
      /\ f.result = go[g].result /\ f.outcome = go[g].outcome
  BY <1>3, <1>4 DEF CallRecords, GoPc
<1> HIDE DEF f
<1>6. CallOK(out.heap, go[g]) /\ b \notin BlocksOf(go[g])
  BY <1>2, StillOK
<1>7. go[g].result = NullBuffer /\ go[g].buf.data # b
  BY <1>2, <1>4, <1>6 DEF CallOK, HasAt, BlocksOf
<1>8. CallOK(out.heap, f)
  BY <1>2, <1>3, <1>5, <1>6, <1>7, RestingFacts, NoBlock, MemoryAssumption
  DEF CallOK, HasAt, Apart
<1>9. BlocksOf(f) = BlocksOf(go[g]) \cup (Blocks \cap {out.val.error_message.data})
  BY <1>3, <1>5, RestingFacts, NoBlock, MemoryAssumption DEF BlocksOf
<1>10. CallOK(heap', f) /\ Allocates(heap, b, heap', out.val.error_message.data)
  BY <1>1, <1>2, <1>8
<1> QED BY <1>1, <1>9, <1>10, AllocStep

\* ffi_invoke_callback returns the callback's success.
LEMMA SuccessMemory ==
  ASSUME Memory, NEW g \in Goroutines, go[g].pc = "callback",
         go' = [go EXCEPT ![g] = [go[g] EXCEPT !.pc = "check"]],
         heap' = heap, ~corrupted', abandoned' = abandoned
  PROVE  Memory' /\ Spares(g)
<1> DEFINE f == [go[g] EXCEPT !.pc = "check"]
<1>1. go' = [go EXCEPT ![g] = f]
  OBVIOUS
<1>2. go[g] \in CallRecords /\ CallOK(heap, go[g])
  BY DEF Memory, CallOK
<1>3. /\ f \in CallRecords
      /\ f.pc = "check" /\ f.buf = go[g].buf /\ f.res = go[g].res
      /\ f.result = go[g].result /\ f.outcome = go[g].outcome
  BY <1>2 DEF CallRecords, GoPc
<1> HIDE DEF f
<1>4. CallOK(heap, f) /\ BlocksOf(f) = BlocksOf(go[g])
  BY <1>2, <1>3 DEF CallOK, HasAt, Apart, BlocksOf
<1> QED BY <1>1, <1>4, KeepStep

\* Freeing a result without a payload frees its message.
LEMMA FreeMessage ==
  ASSUME NEW h \in Heaps, NEW res, res.payload = NullBuffer,
         StringFits(h, res.error_message)
  PROVE  ResultFree(h, res).ok /\ Frees(h, ResultFree(h, res).heap, res.error_message.data)
<1> DEFINE msg == StringDealloc(h, res.error_message)
<1>1. msg.ok /\ Frees(h, msg.heap, res.error_message.data)
  BY StringDeallocFacts, MemoryAssumption
<1>2. BufferDealloc(msg.heap, NullBuffer) = [heap |-> msg.heap, ok |-> TRUE]
  BY DEF BufferDealloc, NullBuffer, Untouched
<1>3. ResultFree(h, res).heap = msg.heap /\ ResultFree(h, res).ok = (msg.ok /\ TRUE)
  BY <1>2 DEF ResultFree
<1> HIDE DEF msg
<1>4. ResultFree(h, res).ok
  BY <1>1, <1>3
<1> QED BY <1>1, <1>3, <1>4

\* CheckResult on an error reads the message, and frees it.
LEMMA CheckErrorMemory ==
  ASSUME Memory, NEW g \in Goroutines, CheckError(g)
  PROVE  Memory' /\ Spares(g)
<1> DEFINE res == go[g].res
           outcome == Returned(<<>>, ErrorNamed(res.error_code))
           f == [go[g] EXCEPT !.pc = "free_buf", !.res = Resting.res, !.outcome = outcome]
<1>1. /\ go[g].pc = "check" /\ res.error_code # FfiErrorCode.Ok
      /\ go' = [go EXCEPT ![g] = f]
      /\ heap' = ResultFree(heap, res).heap
      /\ corrupted' = (corrupted \/ ~Readable(heap, AsStr(res.error_message))
                                  \/ ~ResultFree(heap, res).ok)
      /\ abandoned' = abandoned
  BY DEF CheckError, Step
<1>2. go[g] \in CallRecords /\ CallOK(heap, go[g])
  BY DEF Memory, CallOK
<1>3. res.payload = NullBuffer /\ go[g].result = NullBuffer
  BY <1>1, <1>2 DEF CallOK, HasAt
<1>4. StringFits(heap, res.error_message) /\ heap \in Heaps
  BY <1>2 DEF CallOK, Memory
<1>5. ResultFree(heap, res).ok /\ Frees(heap, heap', res.error_message.data)
  BY <1>1, <1>3, <1>4, FreeMessage
<1>6. ~corrupted'
  BY <1>1, <1>5, Reading DEF Memory
<1>7. /\ f \in CallRecords
      /\ f.pc = "free_buf" /\ f.buf = go[g].buf /\ f.res = Resting.res
      /\ f.result = go[g].result /\ IsUtf8(f.outcome.response)
  <2>1. outcome \in OutcomeType /\ IsUtf8(outcome.response)
    BY <1>1, <1>2, ErrorNames, ShortStrings, MemoryAssumption
    DEF Returned, OutcomeType, CallRecords, ResultType
  <2> HIDE DEF outcome
  <2> QED BY <1>2, <2>1, RestingFacts DEF CallRecords, GoPc
<1> HIDE DEF f, res, outcome
<1>8. BufferFits(heap', go[g].buf)
  <2>1. go[g].buf.data \in Blocks => heap'[go[g].buf.data] = heap[go[g].buf.data]
    BY <1>2, <1>5 DEF CallOK, Apart, Frees, res
  <2> QED BY <1>2, <2>1, AsSliceOfBlock DEF CallOK
<1>9. CallOK(heap', f)
  BY <1>3, <1>7, <1>8, RestingFacts, NoBlock, MemoryAssumption DEF CallOK, HasAt, Apart
<1>10. BlocksOf(f) = BlocksOf(go[g]) \ {res.error_message.data}
  BY <1>2, <1>3, <1>7, RestingFacts, NoBlock, MemoryAssumption DEF BlocksOf, CallOK, Apart, res
<1>11. res.error_message.data \in Blocks => res.error_message.data \in BlocksOf(go[g])
  BY DEF BlocksOf, res
<1> QED BY <1>1, <1>5, <1>6, <1>9, <1>10, <1>11, FreeStep

\* CheckResult on a success copies the payload.
LEMMA CopyMemory ==
  ASSUME Memory, NEW g \in Goroutines, CopyPayload(g)
  PROVE  Memory' /\ Spares(g)
<1> DEFINE bytes == AsSlice(heap, go[g].res.payload)
<1>1. PICK b \in Available(heap) :
        LET out == FromBytes(heap, b, bytes) IN
        /\ heap' = out.heap
        /\ Step(g, "check", [go[g] EXCEPT !.pc = "free_res", !.result = out.val])
  BY DEF CopyPayload
<1> DEFINE out == FromBytes(heap, b, bytes)
           f == [go[g] EXCEPT !.pc = "free_res", !.result = out.val]
<1>2. /\ heap' = out.heap /\ go[g].pc = "check" /\ go' = [go EXCEPT ![g] = f]
      /\ abandoned' = abandoned /\ go[g].res.error_code = FfiErrorCode.Ok
      /\ corrupted' = (corrupted \/ ~Readable(heap, go[g].res.payload))
  BY <1>1 DEF CopyPayload, Step
<1>3. ~corrupted'
  BY <1>2, Reading DEF Memory
<1>4. go[g] \in CallRecords /\ CallOK(heap, go[g])
  BY DEF Memory, CallOK
<1>5. /\ Allocates(heap, b, out.heap, out.val.data)
      /\ out.val \in BufferType /\ BufferFits(out.heap, out.val)
  <2>1. bytes \in Strings /\ b \in Blocks /\ heap \in Heaps
    BY Reading DEF Available, Memory
  <2> HIDE DEF bytes
  <2> QED BY <2>1, FromBytesFacts, MemoryAssumption
<1> HIDE DEF out, bytes
<1>6. /\ f \in CallRecords
      /\ f.pc = "free_res" /\ f.buf = go[g].buf /\ f.res = go[g].res
      /\ f.result = out.val /\ f.outcome = go[g].outcome
  BY <1>4, <1>5 DEF CallRecords, GoPc
<1> HIDE DEF f
<1>7. CallOK(out.heap, go[g]) /\ out.val.data \notin BlocksOf(go[g])
  BY <1>5, StillOK
<1>8. go[g].result = NullBuffer
  BY <1>2, <1>4 DEF CallOK, HasAt
<1>9. CallOK(out.heap, f)
  <2>1. Apart(f)
    BY <1>4, <1>6, <1>7 DEF Apart, BlocksOf, CallOK
  <2>2. HasAt(f)
    BY <1>2, <1>4, <1>6 DEF HasAt, CallOK
  <2> QED BY <1>5, <1>6, <1>7, <2>1, <2>2 DEF CallOK
<1>10. BlocksOf(f) = BlocksOf(go[g]) \cup (Blocks \cap {out.val.data})
  BY <1>6, <1>8, RestingFacts, NoBlock, MemoryAssumption DEF BlocksOf
<1>11. CallOK(heap', f) /\ Allocates(heap, b, heap', out.val.data)
  BY <1>2, <1>5, <1>9
<1> QED BY <1>2, <1>3, <1>10, <1>11, AllocStep

\* CheckResult frees the result without its payload, which is abandoned
\* unless it is the request.
LEMMA FreeResultMemory ==
  ASSUME Memory, NEW g \in Goroutines, FreeResult(g)
  PROVE  Memory' /\ Spares(g)
<1> DEFINE res == go[g].res
           zeroed == [res EXCEPT !.payload = NullBuffer]
           f == [go[g] EXCEPT !.pc = "bytes", !.res = Resting.res]
<1>1. /\ go[g].pc = "free_res" /\ go' = [go EXCEPT ![g] = f]
      /\ heap' = ResultFree(heap, zeroed).heap
      /\ corrupted' = (corrupted \/ ~ResultFree(heap, zeroed).ok)
      /\ abandoned' = abandoned \cup ((Blocks \cap {res.payload.data}) \ {go[g].buf.data})
  BY DEF FreeResult, Step
<1>2. go[g] \in CallRecords /\ CallOK(heap, go[g]) /\ heap \in Heaps
  BY DEF Memory, CallOK
<1>3. zeroed.payload = NullBuffer /\ zeroed.error_message = res.error_message
  BY <1>2 DEF CallRecords, ResultType
<1> HIDE DEF zeroed
<1>4. ResultFree(heap, zeroed).ok /\ Frees(heap, heap', res.error_message.data)
  BY <1>1, <1>2, <1>3, FreeMessage DEF CallOK
<1>5. ~corrupted'
  BY <1>1, <1>4 DEF Memory
<1>6. /\ f \in CallRecords
      /\ f.pc = "bytes" /\ f.buf = go[g].buf /\ f.res = Resting.res
      /\ f.result = go[g].result /\ f.outcome = go[g].outcome
  BY <1>2, RestingFacts DEF CallRecords, GoPc
<1> HIDE DEF f
<1>7. /\ go[g].buf.data \in Blocks => heap'[go[g].buf.data] = heap[go[g].buf.data]
      /\ go[g].result.data \in Blocks => heap'[go[g].result.data] = heap[go[g].result.data]
  BY <1>2, <1>4 DEF CallOK, Apart, Frees
<1>8. BufferFits(heap', go[g].buf) /\ BufferFits(heap', go[g].result)
  BY <1>2, <1>7, AsSliceOfBlock DEF CallOK
<1>9. CallOK(heap', f)
  <2>1. Apart(f)
    BY <1>2, <1>6, RestingFacts, NoBlock, MemoryAssumption DEF Apart, CallOK
  <2>2. HasAt(f)
    BY <1>1, <1>2, <1>6, RestingFacts DEF HasAt, CallOK
  <2>3. BufferFits(heap', f.res.payload) /\ StringFits(heap', f.res.error_message)
    BY <1>6, RestingFacts, NoBlock, MemoryAssumption
  <2>4. IsUtf8(f.outcome.response)
    BY <1>2, <1>6 DEF CallOK
  <2> QED BY <1>6, <1>8, <2>1, <2>2, <2>3, <2>4 DEF CallOK
<1>10. BlocksOf(f) = Blocks \cap {go[g].buf.data, go[g].result.data}
  BY <1>6, RestingFacts, NoBlock, MemoryAssumption DEF BlocksOf
<1>11. BlocksOf(go[g]) = Blocks \cap {go[g].buf.data, go[g].result.data,
                                     res.error_message.data, res.payload.data}
  BY DEF BlocksOf
<1>12. /\ heap' \in Heaps
       /\ \A b \in Blocks : b # res.error_message.data => heap'[b] = heap[b]
       /\ res.error_message.data \in Blocks => ~heap'[res.error_message.data].live
  BY <1>4 DEF Frees, Unallocated
<1> HIDE DEF res
<1>13. \A b \in Blocks : heap'[b] # heap[b] => b \in BlocksOf(go[g])
  BY <1>11, <1>12
<1>14. \A b \in BlocksOf(f) : b \in BlocksOf(go[g])
  BY <1>10, <1>11
<1>15. abandoned' \subseteq Blocks /\ abandoned \subseteq abandoned'
  BY <1>1 DEF Memory
<1>16. \A b \in Blocks : heap'[b].live =>
         \/ b \in BlocksOf(f) \/ b \in abandoned'
         \/ heap[b].live /\ b \notin BlocksOf(go[g])
  BY <1>1, <1>10, <1>11, <1>12
<1> QED BY <1>1, <1>5, <1>9, <1>12, <1>13, <1>14, <1>15, <1>16, CallChanges

\* The response is read from the copy; only text is handed on.
LEMMA DecodeMemory ==
  ASSUME Memory, NEW g \in Goroutines, Decode(g)
  PROVE  Memory' /\ Spares(g)
<1> DEFINE bytes == AsSlice(heap, go[g].result)
           outcome == Decoded(bytes)
           f == [go[g] EXCEPT !.pc = "free_result", !.outcome = outcome]
<1>1. /\ go[g].pc = "bytes" /\ go' = [go EXCEPT ![g] = f]
      /\ corrupted' = (corrupted \/ ~Readable(heap, go[g].result))
      /\ heap' = heap /\ abandoned' = abandoned
  BY DEF Decode, Step
<1>2. go[g] \in CallRecords /\ CallOK(heap, go[g])
  BY DEF Memory, CallOK
<1>3. ~corrupted'
  BY <1>1, Reading DEF Memory
<1>4. outcome \in OutcomeType /\ IsUtf8(outcome.response)
  <2>1. bytes \in Strings
    BY Reading
  <2> HIDE DEF bytes
  <2> QED BY <2>1, ShortStrings, MemoryAssumption
          DEF Decoded, Decodes, Returned, OutcomeType
<1> HIDE DEF outcome
<1>5. /\ f \in CallRecords
      /\ f.pc = "free_result" /\ f.buf = go[g].buf /\ f.res = go[g].res
      /\ f.result = go[g].result /\ f.outcome = outcome
  BY <1>2, <1>4 DEF CallRecords, GoPc
<1> HIDE DEF f
<1>6. CallOK(heap, f) /\ BlocksOf(f) = BlocksOf(go[g])
  BY <1>1, <1>2, <1>4, <1>5 DEF CallOK, HasAt, Apart, BlocksOf
<1> QED BY <1>1, <1>3, <1>6, KeepStep

\* The deferred calls of Free: first of the copy,
LEMMA FreeOutputMemory ==
  ASSUME Memory, NEW g \in Goroutines, FreeOutput(g)
  PROVE  Memory' /\ Spares(g)
<1> DEFINE buf == go[g].result
           f == [go[g] EXCEPT !.pc = "free_buf", !.result = NullBuffer]
<1>1. /\ go[g].pc = "free_result" /\ go' = [go EXCEPT ![g] = f]
      /\ heap' = BufferDealloc(heap, buf).heap
      /\ corrupted' = (corrupted \/ ~BufferDealloc(heap, buf).ok)
      /\ abandoned' = abandoned
  BY DEF FreeOutput, Step, Free
<1>2. go[g] \in CallRecords /\ CallOK(heap, go[g]) /\ heap \in Heaps
  BY DEF Memory, CallOK
<1>3. BufferDealloc(heap, buf).ok /\ Frees(heap, heap', buf.data)
  BY <1>1, <1>2, BufferDeallocFacts, MemoryAssumption DEF CallOK
<1>4. ~corrupted'
  BY <1>1, <1>3 DEF Memory
<1>5. /\ f \in CallRecords
      /\ f.pc = "free_buf" /\ f.buf = go[g].buf /\ f.res = go[g].res
      /\ f.result = NullBuffer /\ f.outcome = go[g].outcome
  BY <1>2, NoBlock, MemoryAssumption DEF CallRecords, GoPc
<1> HIDE DEF f
<1>6. f.res = Resting.res
  BY <1>1, <1>2, <1>5 DEF CallOK, HasAt
<1>7. BufferFits(heap', go[g].buf)
  <2>1. go[g].buf.data \in Blocks => heap'[go[g].buf.data] = heap[go[g].buf.data]
    BY <1>2, <1>3 DEF CallOK, Apart, Frees
  <2> QED BY <1>2, <2>1, AsSliceOfBlock DEF CallOK
<1>8. CallOK(heap', f)
  BY <1>2, <1>5, <1>6, <1>7, RestingFacts, NoBlock, MemoryAssumption DEF CallOK, HasAt, Apart
<1>9. BlocksOf(f) = BlocksOf(go[g]) \ {buf.data}
  BY <1>2, <1>5, <1>6, RestingFacts, NoBlock, MemoryAssumption DEF BlocksOf, CallOK, Apart
<1>10. buf.data \in Blocks => buf.data \in BlocksOf(go[g])
  BY DEF BlocksOf
<1> QED BY <1>1, <1>3, <1>4, <1>8, <1>9, <1>10, FreeStep

\* then of the request.
LEMMA FreeInputMemory ==
  ASSUME Memory, NEW g \in Goroutines, FreeInput(g)
  PROVE  Memory' /\ Spares(g)
<1> DEFINE buf == go[g].buf
           f == [go[g] EXCEPT !.pc = "done", !.buf = NullBuffer]
<1>1. /\ go[g].pc = "free_buf" /\ go' = [go EXCEPT ![g] = f]
      /\ heap' = BufferDealloc(heap, buf).heap
      /\ corrupted' = (corrupted \/ ~BufferDealloc(heap, buf).ok)
      /\ abandoned' = abandoned
  BY DEF FreeInput, Step, Free
<1>2. go[g] \in CallRecords /\ CallOK(heap, go[g]) /\ heap \in Heaps
  BY DEF Memory, CallOK
<1>3. BufferDealloc(heap, buf).ok /\ Frees(heap, heap', buf.data)
  BY <1>1, <1>2, BufferDeallocFacts, MemoryAssumption DEF CallOK
<1>4. ~corrupted'
  BY <1>1, <1>3 DEF Memory
<1>5. /\ f \in CallRecords
      /\ f.pc = "done" /\ f.buf = NullBuffer /\ f.res = go[g].res
      /\ f.result = go[g].result /\ f.outcome = go[g].outcome
  BY <1>2, NoBlock, MemoryAssumption DEF CallRecords, GoPc
<1> HIDE DEF f
<1>6. f.res = Resting.res /\ f.result = NullBuffer
  BY <1>1, <1>2, <1>5 DEF CallOK, HasAt
<1>7. CallOK(heap', f)
  BY <1>2, <1>5, <1>6, RestingFacts, NoBlock, MemoryAssumption DEF CallOK, HasAt, Apart
<1>8. BlocksOf(f) = BlocksOf(go[g]) \ {buf.data}
  BY <1>2, <1>5, <1>6, RestingFacts, NoBlock, MemoryAssumption DEF BlocksOf, CallOK, Apart
<1>9. buf.data \in Blocks => buf.data \in BlocksOf(go[g])
  BY DEF BlocksOf
<1> QED BY <1>1, <1>3, <1>4, <1>7, <1>8, <1>9, FreeStep

\* At the end of a call nothing is left in hand.
LEMMA RestMemory ==
  ASSUME Memory, NEW g \in Goroutines, Rest(g)
  PROVE  Memory' /\ Spares(g)
<1>1. /\ go[g].pc = "done" /\ go' = [go EXCEPT ![g] = Resting]
      /\ heap' = heap /\ corrupted' = corrupted /\ abandoned' = abandoned
  BY DEF Rest, Step
<1>2. go[g].buf = NullBuffer /\ go[g].result = NullBuffer /\ go[g].res = Resting.res
  BY <1>1 DEF Memory, CallOK, HasAt
<1>3. BlocksOf(go[g]) = {}
  BY <1>2, RestingFacts, NoBlock, MemoryAssumption DEF BlocksOf
<1>4. ~corrupted'
  BY <1>1 DEF Memory
<1> QED BY <1>1, <1>3, <1>4, RestingOK, KeepStep

-----------------------------------------------------------------------------
(***************************************************************************)
(* The steps of the registry, as seen from an activation.                  *)
(***************************************************************************)

\* A step of one activation leaves the others where they are.
LEMMA OneActivation ==
  ASSUME R!TypeOK, NEW a \in R!Activations, NEW b \in R!Activations, a # b,
         R!Calls(a) \/ R!RegistrySteps(a) \/ R!UserSteps(a)
  PROVE  frame'[b] = frame[b]
<1>0. frame \in [R!Activations -> R!Frame]
  BY DEF R!TypeOK
<1>1. CASE R!Calls(a)
  BY <1>0, <1>1 DEF R!Calls, R!RegisterCallback, R!FfiRegisterCallback,
     R!UnregisterCallback, R!FfiUnregisterCallback, R!FfiInvokeCallback,
     R!CallbackCount, R!Enter
<1>2. CASE R!RegistrySteps(a)
  BY <1>0, <1>2 DEF R!RegistrySteps, R!Lock, R!TakeGuard, R!ReportPoison, R!Insert,
     R!Remove, R!Count, R!Lookup, R!Consume, R!DropThenReturn, R!Return
<1>3. CASE R!UserSteps(a)
  BY <1>0, <1>3 DEF R!UserSteps, R!CallbackReturns, R!DropReturns, R!CallbackPanics,
     R!DropPanics, R!Abort, R!Return
<1> QED BY <1>1, <1>2, <1>3

\* What an invocation does to its activation.
LEMMA InvocationSteps ==
  ASSUME R!TypeOK, NEW a \in R!Activations
  PROVE  /\ R!FfiInvokeCallback(a) => frame'[a].pc # "idle"
         /\ R!Lock(a) \/ R!Lookup(a) \/ R!CallbackPanics(a) =>
              frame[a].pc \notin {"idle", "returned"} /\ frame'[a].pc # "idle"
         /\ R!CallbackReturns(a) => frame[a].pc = "run" /\ frame'[a].pc = "returned"
         /\ R!Consume(a) => frame[a].pc = "returned" /\ frame'[a].pc = "idle"
<1>0. frame \in [R!Activations -> R!Frame] /\ frame[a] \in R!Frame
  BY DEF R!TypeOK
<1>1. R!FfiInvokeCallback(a) => frame'[a].pc # "idle"
  BY <1>0 DEF R!FfiInvokeCallback, R!Enter
<1>2. R!Lock(a) => frame[a].pc = "lock" /\ frame'[a].pc # "idle"
  BY <1>0 DEF R!Lock, R!MayLock, R!TakeGuard, R!ReportPoison, R!DropThenReturn,
     R!Return, R!Frame
<1>3. R!Lookup(a) => frame[a].pc = "locked" /\ frame'[a].pc # "idle"
  BY <1>0 DEF R!Lookup, R!Return, R!Frame
<1>4. R!CallbackPanics(a) => frame[a].pc = "run" /\ frame'[a].pc # "idle"
  <2>1. ASSUME R!CallbackPanics(a)
        PROVE  /\ frame[a].pc = "run"
               /\ R!Abort \/ R!Return(a, R!Result("FfiResult", R!Code("Panic")))
    BY <2>1 DEF R!CallbackPanics
  <2>2. ASSUME NEW res, R!Return(a, res)
        PROVE  frame'[a].pc = "returned"
    BY <1>0, <2>2 DEF R!Return, R!Frame
  <2> QED BY <2>1, <2>2 DEF R!Abort
<1>5. R!CallbackReturns(a) => frame[a].pc = "run" /\ frame'[a].pc = "returned"
  BY <1>0 DEF R!CallbackReturns, R!Return, R!Frame
<1>6. R!Consume(a) => frame[a].pc = "returned" /\ frame'[a].pc = "idle"
  BY <1>0 DEF R!Consume, R!Idle
<1> QED BY <1>1, <1>2, <1>3, <1>4, <1>5, <1>6

\* The codes are the same numbers on both sides.
LEMMA InvokedOk ==
  R!Invoked(FfiErrorCode.Ok).val = FfiErrorCode.Ok
BY DEF R!Invoked, R!Result, R!FfiErrorCode, FfiErrorCode

-----------------------------------------------------------------------------
(***************************************************************************)
(* Every step preserves the invariant.                                     *)
(***************************************************************************)

\* A step of one goroutine, in Go or in C.
LEMMA LinkStep ==
  ASSUME R!TypeOK, Linked, NEW g \in Goroutines,
         go \in [Goroutines -> CallRecords],
         \A k \in Goroutines : k # g => go'[k] = go[k],
         \/ frame' = frame
         \/ LET a == Act(g) IN R!Calls(a) \/ R!RegistrySteps(a) \/ R!UserSteps(a),
         LinkOK(go'[g], frame'[Act(g)])
  PROVE  Linked'
<1> SUFFICES ASSUME NEW k \in Goroutines, k # g
             PROVE  LinkOK(go'[k], frame'[Act(k)])
  BY DEF Linked, Act
<1>1. Act(g) \in R!Activations /\ Act(k) \in R!Activations /\ Act(k) # Act(g)
  BY ActivationFacts DEF Threads
<1>2. frame'[Act(k)] = frame[Act(k)]
  BY <1>1, OneActivation
<1> QED BY <1>2 DEF Linked

\* A call in Go.
LEMMA GoStep ==
  ASSUME R!TypeOK, Memory, Linked, NEW g \in Goroutines, Begin(g) \/ GoSteps(g),
         frame' = frame
  PROVE  Memory' /\ Linked' /\ Spares(g)
<1>1. Memory' /\ Spares(g)
  BY BeginMemory, CheckErrorMemory, CopyMemory, FreeResultMemory, DecodeMemory,
     FreeOutputMemory, FreeInputMemory, RestMemory DEF GoSteps
<1>2. go \in [Goroutines -> CallRecords]
  BY DEF Memory
<1>3. /\ go[g].pc # "callback" /\ go'[g].pc # "callback"
      /\ \A k \in Goroutines : k # g => go'[k] = go[k]
  <2>1. go[g] \in CallRecords
    BY <1>2
  <2>2. CASE Begin(g)
    <3>1. PICK request, val :
            /\ go[g].pc = "rest"
            /\ go' = [go EXCEPT ![g] = [Resting EXCEPT !.pc = "invoke",
                                         !.request = request, !.buf = val]]
      BY <2>2 DEF Begin, Step
    <3>2. [Resting EXCEPT !.pc = "invoke", !.request = request, !.buf = val].pc = "invoke"
      BY DEF Resting
    <3> QED BY <1>2, <3>1, <3>2
  <2>3. CASE CheckError(g)
    BY <1>2, <2>1, <2>3 DEF CheckError, Step, CallRecords
  <2>4. CASE CopyPayload(g)
    <3>1. PICK val :
            /\ go[g].pc = "check"
            /\ go' = [go EXCEPT ![g] = [go[g] EXCEPT !.pc = "free_res", !.result = val]]
      BY <2>4 DEF CopyPayload, Step
    <3> QED BY <1>2, <2>1, <3>1 DEF CallRecords
  <2>5. CASE FreeResult(g)
    BY <1>2, <2>1, <2>5 DEF FreeResult, Step, CallRecords
  <2>6. CASE Decode(g)
    BY <1>2, <2>1, <2>6 DEF Decode, Step, CallRecords
  <2>7. CASE FreeOutput(g)
    BY <1>2, <2>1, <2>7 DEF FreeOutput, Step, CallRecords
  <2>8. CASE FreeInput(g)
    BY <1>2, <2>1, <2>8 DEF FreeInput, Step, CallRecords
  <2>9. CASE Rest(g)
    BY <1>2, <2>9, RestingFacts DEF Rest, Step
  <2> QED BY <2>2, <2>3, <2>4, <2>5, <2>6, <2>7, <2>8, <2>9 DEF GoSteps
<1>4. LinkOK(go'[g], frame'[Act(g)])
  BY <1>3 DEF Linked, LinkOK
<1>5. Linked'
  BY <1>2, <1>3, <1>4, LinkStep
<1> QED BY <1>1, <1>5

\* A call in C: entering, waiting for the lock, finding the callback.
LEMMA EnterStep ==
  ASSUME R!TypeOK, Memory, Linked, NEW g \in Goroutines, Enters(g)
  PROVE  Memory' /\ Linked' /\ Spares(g)
<1> DEFINE f == [go[g] EXCEPT !.pc = "callback"]
<1>1. /\ EnterC(g) /\ R!FfiInvokeCallback(Act(g))
      /\ go[g].pc = "invoke" /\ go' = [go EXCEPT ![g] = f]
  BY DEF Enters, EnterC, Step
<1>2. Memory' /\ Spares(g)
  BY <1>1, EnterMemory
<1>3. go \in [Goroutines -> CallRecords] /\ go[g].res = Resting.res
  BY <1>1 DEF Memory, CallOK, HasAt
<1>4. f.pc = "callback" /\ f.res = go[g].res
  BY <1>3 DEF CallRecords
<1> HIDE DEF f
<1>5. go'[g] = f /\ \A k \in Goroutines : k # g => go'[k] = go[k]
  BY <1>1, <1>3
<1>6. Act(g) \in R!Activations
  BY ActivationFacts DEF Threads
<1>7. frame'[Act(g)].pc # "idle"
  BY <1>1, <1>6, InvocationSteps
<1>8. LinkOK(go'[g], frame'[Act(g)])
  BY <1>3, <1>4, <1>5, <1>7 DEF LinkOK
<1>9. Linked'
  BY <1>1, <1>3, <1>5, <1>8, LinkStep DEF R!Calls
<1> QED BY <1>2, <1>9

\* Waiting for the lock and finding the callback touch no memory.
LEMMA LockStep ==
  ASSUME R!TypeOK, Memory, Linked, NEW g \in Goroutines, Locks(g)
  PROVE  Memory' /\ Linked' /\ Spares(g)
<1>1. /\ R!Lock(Act(g)) \/ R!Lookup(Act(g)) \/ R!CallbackPanics(Act(g))
      /\ heap' = heap /\ corrupted' = corrupted /\ go' = go /\ abandoned' = abandoned
  BY DEF Locks, goVars
<1>2. Memory' /\ Spares(g)
  BY <1>1 DEF Memory, Spares
<1>3. Act(g) \in R!Activations
  BY ActivationFacts DEF Threads
<1>4. frame[Act(g)].pc \notin {"idle", "returned"} /\ frame'[Act(g)].pc # "idle"
  BY <1>1, <1>3, InvocationSteps
<1>5. LinkOK(go'[g], frame'[Act(g)])
  BY <1>1, <1>4 DEF LinkOK, Linked
<1>6. go \in [Goroutines -> CallRecords]
  BY DEF Memory
<1>7. Linked'
  BY <1>1, <1>5, <1>6, LinkStep DEF R!RegistrySteps, R!UserSteps
<1> QED BY <1>2, <1>7

\* The callback has read the request, and answers.
LEMMA AnswerFacts ==
  ASSUME R!TypeOK, Memory, Linked, NEW g \in Goroutines, NEW code, Returns(g, code)
  PROVE  /\ R!UserSteps(Act(g)) /\ ~corrupted'
         /\ go[g].pc = "callback" /\ go[g].res = Resting.res
         /\ frame'[Act(g)].pc = "returned" /\ frame'[Act(g)].res = R!Invoked(code)
<1>1. /\ R!CallbackReturns(Act(g)) /\ frame'[Act(g)].res = R!Invoked(code)
      /\ corrupted' = (corrupted \/ ~Readable(heap, go[g].buf))
  BY DEF Returns
<1>2. ~corrupted'
  BY <1>1, Reading DEF Memory
<1>3. Act(g) \in R!Activations
  BY ActivationFacts DEF Threads
<1>4. frame[Act(g)].pc = "run" /\ frame'[Act(g)].pc = "returned"
  BY <1>1, <1>3, InvocationSteps
<1>5. go[g].pc = "callback" /\ go[g].res = Resting.res
  BY <1>4 DEF Linked, LinkOK
<1> QED BY <1>1, <1>2, <1>4, <1>5 DEF R!UserSteps

\* A success reaches the call before the registry has returned.
LEMMA SucceedStep ==
  ASSUME R!TypeOK, Memory, Linked, NEW g \in Goroutines, NEW bytes \in Strings, NEW out,
         Succeeds(g, bytes, out), out.val \in BufferType,
         \/ \E b \in Available(heap) :
              Allocates(heap, b, out.heap, out.val.data) /\ BufferFits(out.heap, out.val)
         \/ out.heap = heap /\ out.val = go[g].buf
  PROVE  Memory' /\ Linked' /\ Spares(g)
<1>1. /\ Returns(g, FfiErrorCode.Ok) /\ heap' = out.heap /\ abandoned' = abandoned
      /\ go' = [go EXCEPT ![g].res = ResultOk(out.val), ![g].answer = bytes]
  BY DEF Succeeds
<1>2. /\ R!UserSteps(Act(g)) /\ ~corrupted'
      /\ go[g].pc = "callback" /\ go[g].res = Resting.res
      /\ frame'[Act(g)].pc = "returned"
      /\ frame'[Act(g)].res.val = FfiErrorCode.Ok
  BY <1>1, AnswerFacts, InvokedOk
<1>3. Memory' /\ Spares(g)
  BY <1>1, <1>2, AnswerMemory
<1>4. go \in [Goroutines -> CallRecords]
  BY DEF Memory
<1>5. go'[g].pc = "callback" /\ \A k \in Goroutines : k # g => go'[k] = go[k]
  BY <1>1, <1>2, <1>4 DEF CallRecords
<1>6. LinkOK(go'[g], frame'[Act(g)])
  BY <1>2, <1>5 DEF LinkOK
<1>7. Linked'
  BY <1>2, <1>4, <1>5, <1>6, LinkStep
<1> QED BY <1>3, <1>7

\* The three ways of answering.
LEMMA AnswerStep ==
  ASSUME R!TypeOK, Memory, Linked, NEW g \in Goroutines,
         AnswersCopy(g) \/ AnswersAlias(g) \/ AnswersUndecodable(g)
  PROVE  Memory' /\ Linked' /\ Spares(g)
<1>1. heap \in Heaps /\ \A b \in Available(heap) : b \in Blocks
  BY DEF Memory, Available
<1>2. /\ AsSlice(heap, go[g].buf) \in Strings /\ go[g].buf \in BufferType
      /\ Undecodable \subseteq Strings
  <2>1. <<"raw">> \in Seq(Bytes) /\ Len(<<"raw">>) = 1
    BY DEF Bytes
  <2>2. <<"raw">> \in Strings
    <3>1. Len(<<"raw">>) <= MaxSize
      BY <2>1, MemoryAssumption DEF MemoryAssumption
    <3> QED BY <2>1, <3>1, SeqIsString, MemoryAssumption
  <2>3. Undecodable \subseteq Strings
    BY <2>2, ShortStrings, MemoryAssumption DEF Undecodable
  <2>4. go[g].buf \in BufferType
    BY DEF Memory, CallRecords
  <2> QED BY <2>3, <2>4, Reading
<1>3. ASSUME NEW bytes \in Strings, NEW b \in Available(heap),
             Succeeds(g, bytes, BufferFromVec(heap, b, bytes, Len(bytes)))
      PROVE  Memory' /\ Linked' /\ Spares(g)
  <2> DEFINE out == BufferFromVec(heap, b, bytes, Len(bytes))
  <2>1. Len(bytes) \in Shrunk(bytes)
    BY StringFacts, MemoryAssumption DEF Shrunk, MemoryAssumption
  <2>2. /\ Allocates(heap, b, out.heap, out.val.data)
        /\ out.val \in BufferType /\ BufferFits(out.heap, out.val)
    BY <1>1, <2>1, BufferFromVecFacts, MemoryAssumption
  <2>3. Succeeds(g, bytes, out)
    BY <1>3
  <2> HIDE DEF out
  <2> QED BY <2>2, <2>3, SucceedStep
<1>4. CASE AnswersCopy(g)
  BY <1>2, <1>3, <1>4 DEF AnswersCopy
<1>5. CASE AnswersUndecodable(g)
  BY <1>2, <1>3, <1>5 DEF AnswersUndecodable
<1>6. CASE AnswersAlias(g)
  <2> DEFINE out == [heap |-> heap, val |-> go[g].buf]
  <2>1. Succeeds(g, AsSlice(heap, go[g].buf), out)
    BY <1>6 DEF AnswersAlias
  <2>2. out.heap = heap /\ out.val = go[g].buf
    OBVIOUS
  <2> HIDE DEF out
  <2> QED BY <1>2, <2>1, <2>2, SucceedStep
<1> QED BY <1>4, <1>5, <1>6

\* A callback's own error leaves the call without a result.
LEMMA ErrorStep ==
  ASSUME R!TypeOK, Memory, Linked, NEW g \in Goroutines, AnswersError(g)
  PROVE  Memory' /\ Linked' /\ Spares(g)
<1>1. Returns(g, FfiErrorCode.Unknown) /\ go' = go
  BY DEF AnswersError
<1>2. PICK b \in Available(heap) :
        heap' = ResultErr(heap, b, "Unknown").heap /\ abandoned' = abandoned \cup {b}
  BY DEF AnswersError
<1>3. /\ R!UserSteps(Act(g)) /\ ~corrupted'
      /\ go[g].pc = "callback" /\ go[g].res = Resting.res
      /\ frame'[Act(g)].pc = "returned"
  BY <1>1, AnswerFacts
<1>4. Memory' /\ Spares(g)
  BY <1>1, <1>2, <1>3, LostMemory
<1>5. LinkOK(go'[g], frame'[Act(g)])
  BY <1>1, <1>3 DEF LinkOK
<1>6. go \in [Goroutines -> CallRecords]
  BY DEF Memory
<1>7. Linked'
  BY <1>1, <1>3, <1>5, <1>6, LinkStep
<1> QED BY <1>4, <1>7

\* ffi_invoke_callback returns what has been decided.
LEMMA ReturnStep ==
  ASSUME R!TypeOK, Memory, Linked, NEW g \in Goroutines, ReturnsToGo(g)
  PROVE  Memory' /\ Linked' /\ Spares(g)
<1>1. R!Consume(Act(g)) /\ corrupted' = corrupted /\ abandoned' = abandoned
  BY DEF ReturnsToGo
<1>2. Act(g) \in R!Activations
  BY ActivationFacts DEF Threads
<1>3. frame[Act(g)].pc = "returned" /\ frame'[Act(g)].pc = "idle"
  BY <1>1, <1>2, InvocationSteps
<1>4. ~corrupted' /\ go \in [Goroutines -> CallRecords] /\ go[g] \in CallRecords
  BY <1>1 DEF Memory
<1>5. Memory' /\ Spares(g) /\ go'[g].pc = "check" /\ \A k \in Goroutines : k # g => go'[k] = go[k]
  <2>1. CASE /\ Step(g, "callback", [go[g] EXCEPT !.pc = "check"])
             /\ heap' = heap
    <3>1. go[g].pc = "callback" /\ go' = [go EXCEPT ![g] = [go[g] EXCEPT !.pc = "check"]]
      BY <2>1 DEF Step
    <3>2. Memory' /\ Spares(g)
      BY <1>1, <1>4, <2>1, <3>1, SuccessMemory
    <3> QED BY <1>4, <3>1, <3>2 DEF CallRecords
  <2>2. ASSUME NEW error \in ErrorVariants, NEW b \in Available(heap),
               frame[Act(g)].res.val = Code(error),
               heap' = ResultErr(heap, b, error).heap,
               Step(g, "callback", [go[g] EXCEPT !.pc = "check",
                                                 !.res = ResultErr(heap, b, error).val])
        PROVE  Memory' /\ Spares(g) /\ go'[g].pc = "check"
               /\ \A k \in Goroutines : k # g => go'[k] = go[k]
    <3>1. /\ go[g].pc = "callback"
          /\ go' = [go EXCEPT ![g] = [go[g] EXCEPT !.pc = "check",
                                                   !.res = ResultErr(heap, b, error).val]]
      BY <2>2 DEF Step
    <3>2. go[g].res = Resting.res
      BY <2>2, <3>1, ErrorNames DEF Linked, LinkOK
    <3>3. Memory' /\ Spares(g)
      BY <1>1, <1>4, <2>2, <3>1, <3>2, FailureMemory
    <3> QED BY <1>4, <3>1, <3>3 DEF CallRecords
  <2> QED BY <2>1, <2>2 DEF ReturnsToGo
<1>6. LinkOK(go'[g], frame'[Act(g)])
  BY <1>3, <1>5 DEF LinkOK
<1>7. Linked'
  BY <1>1, <1>4, <1>5, <1>6, LinkStep DEF R!RegistrySteps
<1> QED BY <1>5, <1>7

\* A step of a Rust thread is none of a goroutine's.
LEMMA RustStep ==
  ASSUME R!TypeOK, Memory, Linked, NEW t \in RustThreads, Administers(t) \/ Continues(t)
  PROVE  Memory' /\ Linked'
<1>1. /\ heap' = heap /\ corrupted' = corrupted /\ go' = go /\ abandoned' = abandoned
      /\ R!Calls(Act(t)) \/ R!RegistrySteps(Act(t)) \/ R!UserSteps(Act(t))
  BY DEF Administers, Continues, goVars, R!Calls
<1>2. Memory'
  BY <1>1 DEF Memory
<1>3. \A g \in Goroutines : frame'[Act(g)] = frame[Act(g)]
  <2> TAKE g \in Goroutines
  <2>1. g # t
    BY BridgeAssumption DEF BridgeAssumption
  <2>2. Act(g) \in R!Activations /\ Act(t) \in R!Activations /\ Act(g) # Act(t)
    BY <2>1, ActivationFacts DEF Threads
  <2> QED BY <1>1, <2>2, OneActivation
<1>4. Linked'
  BY <1>1, <1>3 DEF Linked, Act
<1> QED BY <1>2, <1>4

\* Calls are spent, and never regained.
LEMMA BudgetStep ==
  ASSUME Budgets, [Next]_vars
  PROVE  Budgets'
<1>1. ASSUME NEW t \in Threads, Spend(t)
      PROVE  Budgets'
  BY <1>1, BridgeAssumption DEF Budgets, Spend, Threads, BridgeAssumption
<1>2. CASE budget' = budget
  BY <1>2 DEF Budgets
<1>3. ASSUME NEW g \in Goroutines, Begins(g) \/ Proceeds(g)
      PROVE  Spend(g) \/ budget' = budget
  BY <1>3 DEF Begins, Proceeds, Enters, Locks, AnswersCopy, AnswersAlias, AnswersUndecodable,
     AnswersError, Succeeds, Returns, ReturnsToGo
<1>4. ASSUME NEW t \in RustThreads, Administers(t) \/ Continues(t)
      PROVE  Spend(t) \/ budget' = budget
  BY <1>4 DEF Administers, Continues
<1>5. CASE Finished \/ UNCHANGED vars
  BY <1>2, <1>5 DEF Finished, vars
<1> QED BY <1>1, <1>2, <1>3, <1>4, <1>5 DEF Next, Threads

\* The invariant holds at the start,
LEMMA InitHolds == Init => BridgeInvariant
<1> SUFFICES ASSUME Init PROVE BridgeInvariant
  OBVIOUS
<1>1. /\ heap = [b \in Blocks |-> Unallocated] /\ ~corrupted /\ abandoned = {}
      /\ go = [g \in Goroutines |-> Resting]
      /\ frame = [a \in R!Activations |-> R!Idle] /\ budget = MaxCalls
  BY DEF Init, GoInit, R!Init
<1>2. heap \in Heaps /\ \A b \in Blocks : ~heap[b].live
  BY <1>1, EmptyHeap, MemoryAssumption DEF Heaps, Unallocated
<1>3. Memory
  BY <1>1, <1>2, RestingFacts, RestingOK DEF Memory
<1>4. Linked
  <2>1. \A g \in Goroutines : frame[Act(g)] = R!Idle
    BY <1>1, ActivationFacts DEF Threads
  <2> QED BY <1>1, <2>1, RestingFacts DEF Linked, LinkOK, R!Idle
<1>5. Budgets
  BY <1>1, BridgeAssumption DEF Budgets, Threads, BridgeAssumption
<1> QED BY <1>3, <1>4, <1>5 DEF BridgeInvariant

\* every step preserves it,
LEMMA InvariantStep ==
  ASSUME R!TypeOK, BridgeInvariant, [Next]_vars
  PROVE  BridgeInvariant'
<1>0. Memory /\ Linked /\ Budgets
  BY DEF BridgeInvariant
<1>1. ASSUME NEW g \in Goroutines, Begins(g) \/ Proceeds(g)
      PROVE  Memory' /\ Linked'
  <2>1. CASE Begins(g)
    BY <1>0, <2>1, GoStep DEF Begins, registryVars
  <2>2. CASE GoSteps(g) /\ UNCHANGED registryVars
    BY <1>0, <2>2, GoStep DEF registryVars
  <2>3. CASE Enters(g) \/ Locks(g)
    BY <1>0, <2>3, EnterStep, LockStep
  <2>4. CASE AnswersCopy(g) \/ AnswersAlias(g) \/ AnswersUndecodable(g) \/ AnswersError(g)
    BY <1>0, <2>4, AnswerStep, ErrorStep
  <2>5. CASE ReturnsToGo(g)
    BY <1>0, <2>5, ReturnStep
  <2> QED BY <1>1, <2>1, <2>2, <2>3, <2>4, <2>5 DEF Proceeds
<1>2. ASSUME NEW t \in RustThreads, Administers(t) \/ Continues(t)
      PROVE  Memory' /\ Linked'
  BY <1>0, <1>2, RustStep
<1>3. ASSUME Finished \/ UNCHANGED vars
      PROVE  Memory' /\ Linked'
  <2>1. UNCHANGED <<heap, corrupted, go, abandoned, frame>>
    BY <1>3 DEF Finished, vars, goVars, registryVars
  <2> QED BY <1>0, <2>1 DEF Memory, Linked, Act
<1>4. Memory' /\ Linked'
  BY <1>1, <1>2, <1>3 DEF Next
<1>5. Budgets'
  BY <1>0, BudgetStep
<1> QED BY <1>4, <1>5 DEF BridgeInvariant

\* and so it always holds.
LEMMA InvariantHolds == Spec => [](BridgeInvariant /\ R!TypeOK)
<1>1. Init => BridgeInvariant
  BY InitHolds
<1>2. R!TypeOK /\ BridgeInvariant /\ [Next]_vars => BridgeInvariant'
  BY InvariantStep
<1> QED BY <1>1, <1>2, RegistryTypes, PTL DEF Spec

\* The history flag is a Boolean, which Memory does not say.
LEMMA FlagHolds == Spec => [](corrupted \in BOOLEAN)
<1>1. Init => corrupted \in BOOLEAN
  BY DEF Init, GoInit
<1>2. corrupted \in BOOLEAN /\ [Next]_vars => (corrupted \in BOOLEAN)'
  <2> SUFFICES ASSUME corrupted \in BOOLEAN, [Next]_vars
               PROVE  corrupted' \in BOOLEAN
    OBVIOUS
  <2>1. ASSUME NEW g \in Goroutines, Begins(g) \/ Proceeds(g)
        PROVE  corrupted' \in BOOLEAN
    <3>1. CASE Begins(g) \/ GoSteps(g)
      BY <3>1 DEF Begins, Begin, GoSteps, CheckError, CopyPayload, FreeResult, Decode,
         FreeOutput, FreeInput, Free, Rest
    <3>2. CASE Enters(g) \/ Locks(g) \/ ReturnsToGo(g)
      BY <3>2 DEF Enters, EnterC, Locks, ReturnsToGo, goVars
    <3>3. CASE AnswersCopy(g) \/ AnswersAlias(g) \/ AnswersUndecodable(g) \/ AnswersError(g)
      BY <3>3 DEF AnswersCopy, AnswersAlias, AnswersUndecodable, AnswersError, Succeeds, Returns
    <3> QED BY <2>1, <3>1, <3>2, <3>3 DEF Proceeds
  <2>2. ASSUME NEW t \in RustThreads, Administers(t) \/ Continues(t)
        PROVE  corrupted' \in BOOLEAN
    BY <2>2 DEF Administers, Continues, goVars
  <2>3. CASE Finished \/ UNCHANGED vars
    BY <2>3 DEF Finished, vars, goVars
  <2> QED BY <2>1, <2>2, <2>3 DEF Next
<1> QED BY <1>1, <1>2, PTL DEF Spec

-----------------------------------------------------------------------------
(***************************************************************************)
(* The theorems.                                                           *)
(***************************************************************************)

\* The two sides agree on where each call is, and what a Go caller is given
\* as a response is text, whatever the callback answered.
THEOREM TypeCorrect == Spec => []TypeOK
<1>1. BridgeInvariant /\ R!TypeOK /\ corrupted \in BOOLEAN => TypeOK
  <2> SUFFICES ASSUME BridgeInvariant, R!TypeOK, corrupted \in BOOLEAN PROVE TypeOK
    OBVIOUS
  <2>1. Memory /\ Linked /\ Budgets
    BY DEF BridgeInvariant
  <2>2. GoTypeOK
    <3>1. heap \in [Blocks -> [live : BOOLEAN, size : 0 .. MaxSize, bytes : Strings]]
      BY <2>1 DEF Memory, Heaps
    <3>2. corrupted \in BOOLEAN /\ abandoned \subseteq Blocks /\ DOMAIN go = Goroutines
      BY <2>1 DEF Memory
    <3>3. ASSUME NEW g \in Goroutines
          PROVE  /\ {go[g].buf, go[g].result, go[g].res.payload} \subseteq Buffers
                 /\ {go[g].request, go[g].outcome.response, go[g].answer} \subseteq Strings
                 /\ IsUtf8(go[g].outcome.response)
                 /\ go[g].outcome.error \in DOMAIN ErrorCode
                          \cup {"nil", "empty response", "deserialize response"}
      <4>1. go[g] \in CallRecords /\ IsUtf8(go[g].outcome.response)
        BY <2>1 DEF Memory, CallOK
      <4>2. Buffers = BufferType
        BY DEF Buffers, BufferType, Addresses
      <4> QED BY <4>1, <4>2 DEF CallRecords, ResultType, OutcomeType
    <3> QED BY <3>1, <3>2, <3>3 DEF GoTypeOK
  <2>3. \A g \in Goroutines : go[g].pc = "callback" <=> frame[Act(g)].pc # "idle"
    BY <2>1 DEF Linked, LinkOK
  <2> QED BY <2>1, <2>2, <2>3 DEF TypeOK, Budgets
<1> QED BY <1>1, InvariantHolds, FlagHolds, PTL

\* However calls, registrations, removals and panics interleave, and whatever
\* a callback answers, its own request included, no block is freed twice, with
\* a wrong layout, or read after it was freed (InvokeCallbackJSON's deferred
\* Frees, CheckResult and ffi_result_free).
THEOREM NeverCorrupts == Spec => []HeapSound
<1>1. BridgeInvariant => HeapSound
  BY DEF BridgeInvariant, Memory, HeapSound
<1> QED BY <1>1, InvariantHolds, PTL

\* On every path, the error paths included, a call frees what it allocated,
\* but for a failed callback's message and the payload that CheckResult zeroes.
THEOREM LeaksAreKnown == Spec => []OnlyKnownLeaks
<1>1. BridgeInvariant => OnlyKnownLeaks
  BY DEF BridgeInvariant, Memory, OnlyKnownLeaks, Owned, BlocksOf
<1> QED BY <1>1, InvariantHolds, PTL
=============================================================================
