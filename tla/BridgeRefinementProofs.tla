------------------------ MODULE BridgeRefinementProofs ------------------------
(***************************************************************************)
(* A proof that the whole system implements RpcSpec, for any number of     *)
(* goroutines, Rust threads, names, callbacks, blocks and calls: what a Go *)
(* caller sees of InvokeCallbackJSON is one indivisible invocation.        *)
(*                                                                         *)
(* The memory of a call is known to be its own (BridgeProofs), and the     *)
(* registry to answer at one instant (RegistryRefinementProofs).  What is  *)
(* left is Contents: the bytes that a call has in its blocks are those of  *)
(* its own request, and later those that the callback answered with.       *)
(***************************************************************************)
EXTENDS BridgeProofs

-----------------------------------------------------------------------------
(***************************************************************************)
(* The rest of the inductive invariant.                                    *)
(***************************************************************************)

\* Goroutines invoke callbacks, and Rust threads do not.
Roles ==
  /\ \A g \in Goroutines :
       frame[Act(g)].pc # "idle" => frame[Act(g)].op = "ffi_invoke_callback"
  /\ \A t \in RustThreads : frame[Act(t)].op # "ffi_invoke_callback"

\* The callback of a call has answered with a success.
Succeeded(f, r) ==
  \/ f.pc = "callback" /\ r.pc = "returned" /\ r.res.val = FfiErrorCode.Ok
  \/ f.pc = "check" /\ f.res.error_code = FfiErrorCode.Ok

\* The bytes of a call in Go with record f and in C with activation r.
ContentOK(h, f, r) ==
  /\ f.pc \in {"invoke", "callback"} =>
       f.request \in Requests /\ AsSlice(h, f.buf) = f.request
  /\ f.pc \in {"rest", "invoke", "callback"} => f.outcome = Resting.outcome
  /\ f.pc \in {"callback", "free_res"} => f.res.error_code = FfiErrorCode.Ok
  /\ Succeeded(f, r) => AsSlice(h, f.res.payload) = f.answer
  /\ f.pc \in {"free_res", "bytes"} => AsSlice(h, f.result) = f.answer

Contents == \A g \in Goroutines : ContentOK(heap, go[g], frame[Act(g)])

\* They depend on the blocks of the call only.
LEMMA ContentFrame ==
  ASSUME NEW h, NEW new, NEW f, NEW r, ContentOK(h, f, r),
         \A b \in BlocksOf(f) : new[b] = h[b]
  PROVE  ContentOK(new, f, r)
<1>1. /\ f.buf.data \in Blocks => new[f.buf.data] = h[f.buf.data]
      /\ f.result.data \in Blocks => new[f.result.data] = h[f.result.data]
      /\ f.res.payload.data \in Blocks => new[f.res.payload.data] = h[f.res.payload.data]
  BY DEF BlocksOf
<1>2. /\ AsSlice(new, f.buf) = AsSlice(h, f.buf)
      /\ AsSlice(new, f.result) = AsSlice(h, f.result)
      /\ AsSlice(new, f.res.payload) = AsSlice(h, f.res.payload)
  BY <1>1, AsSliceOfBlock
<1> QED BY <1>2 DEF ContentOK

-----------------------------------------------------------------------------
(***************************************************************************)
(* What the steps of a call do to its record.                              *)
(***************************************************************************)

\* A step of g in Go, between two points of the call.
Moves(g, from, to) == go[g].pc = from /\ go'[g].pc = to

\* FromJSON makes a buffer of just the request.
LEMMA BeginFacts ==
  ASSUME Memory, NEW g \in Goroutines, Begin(g)
  PROVE  /\ Moves(g, "rest", "invoke")
         /\ go'[g].request \in Requests /\ AsSlice(heap', go'[g].buf) = go'[g].request
         /\ go'[g].outcome = Resting.outcome
<1>1. PICK request \in Requests, b \in Available(heap) :
        LET out == FromBytes(heap, b, request) IN
        /\ heap' = out.heap
        /\ Step(g, "rest", [Resting EXCEPT !.pc = "invoke", !.request = request,
                                           !.buf = out.val])
  BY DEF Begin
<1> DEFINE out == FromBytes(heap, b, request)
           f == [Resting EXCEPT !.pc = "invoke", !.request = request, !.buf = out.val]
<1>2. heap' = out.heap /\ go[g].pc = "rest" /\ go' = [go EXCEPT ![g] = f]
  BY <1>1 DEF Step
<1>3. AsSlice(out.heap, out.val) = request
  <2>1. request \in Strings /\ b \in Blocks /\ heap \in Heaps
    BY GoAssumption DEF GoAssumption, Available, Memory
  <2> QED BY <2>1, FromBytesFacts, MemoryAssumption
<1> HIDE DEF out
<1>4. /\ f.pc = "invoke" /\ f.buf = out.val /\ f.request = request
      /\ f.outcome = Resting.outcome
  BY RestingFacts DEF CallRecords
<1> HIDE DEF f
<1>5. go'[g] = f
  BY <1>2 DEF Memory
<1> QED BY <1>2, <1>3, <1>4, <1>5 DEF Moves

\* Entering C gives nothing away.
LEMMA EnterFacts ==
  ASSUME Memory, NEW g \in Goroutines, EnterC(g)
  PROVE  /\ Moves(g, "invoke", "callback") /\ heap' = heap
         /\ go'[g].request = go[g].request /\ go'[g].buf = go[g].buf
         /\ go'[g].outcome = go[g].outcome /\ go'[g].res = Resting.res
<1>1. go[g] \in CallRecords /\ go \in [Goroutines -> CallRecords]
  BY DEF Memory, CallOK
<1>2. go[g].pc = "invoke" /\ go' = [go EXCEPT ![g] = [go[g] EXCEPT !.pc = "callback"]]
  BY DEF EnterC, Step
<1>3. go[g].res = Resting.res
  BY <1>2 DEF Memory, CallOK, HasAt
<1> QED BY <1>1, <1>2, <1>3 DEF EnterC, CallRecords, Moves

\* The payload and the bytes of a successful answer.
LEMMA SucceedFacts ==
  ASSUME Memory, NEW g \in Goroutines, NEW bytes, NEW out, Succeeds(g, bytes, out)
  PROVE  /\ go'[g].pc = go[g].pc /\ heap' = out.heap
         /\ go'[g].request = go[g].request /\ go'[g].buf = go[g].buf
         /\ go'[g].outcome = go[g].outcome /\ go'[g].res = ResultOk(out.val)
         /\ go'[g].answer = bytes
<1>1. go[g] \in CallRecords /\ go \in [Goroutines -> CallRecords]
  BY DEF Memory, CallOK
<1>2. go' = [go EXCEPT ![g].res = ResultOk(out.val), ![g].answer = bytes]
  BY DEF Succeeds
<1> QED BY <1>1, <1>2 DEF Succeeds, CallRecords

\* The result that ffi_invoke_callback returns carries the code that was decided.
LEMMA ReturnFacts ==
  ASSUME R!TypeOK, Memory, Linked, Contents, NEW g \in Goroutines, ReturnsToGo(g)
  PROVE  /\ Moves(g, "callback", "check")
         /\ go'[g].outcome = go[g].outcome /\ go'[g].answer = go[g].answer
         /\ frame[Act(g)].pc = "returned" /\ frame'[Act(g)].pc = "idle"
         /\ go'[g].res.error_code = frame[Act(g)].res.val
         /\ frame[Act(g)].res.val = FfiErrorCode.Ok =>
              heap' = heap /\ go'[g].res = go[g].res
<1>1. go[g] \in CallRecords /\ go \in [Goroutines -> CallRecords]
  BY DEF Memory, CallOK
<1>2. frame[Act(g)].pc = "returned" /\ frame'[Act(g)].pc = "idle"
  <2>1. Act(g) \in R!Activations /\ R!Consume(Act(g))
    BY ActivationFacts DEF Threads, ReturnsToGo
  <2> QED BY <2>1, InvocationSteps
<1>3. CASE /\ frame[Act(g)].res.val = FfiErrorCode.Ok
           /\ Step(g, "callback", [go[g] EXCEPT !.pc = "check"])
           /\ heap' = heap
  <2>1. go[g].pc = "callback" /\ go' = [go EXCEPT ![g] = [go[g] EXCEPT !.pc = "check"]]
    BY <1>3 DEF Step
  <2>2. go[g].res.error_code = FfiErrorCode.Ok
    BY <2>1 DEF Contents, ContentOK
  <2> QED BY <1>1, <1>2, <1>3, <2>1, <2>2 DEF CallRecords, Moves
<1>4. ASSUME NEW error \in ErrorVariants, NEW b \in Available(heap),
             frame[Act(g)].res.val = Code(error),
             Step(g, "callback", [go[g] EXCEPT !.pc = "check",
                                               !.res = ResultErr(heap, b, error).val])
      PROVE  /\ Moves(g, "callback", "check")
             /\ go'[g].outcome = go[g].outcome /\ go'[g].answer = go[g].answer
             /\ go'[g].res.error_code = frame[Act(g)].res.val
             /\ frame[Act(g)].res.val # FfiErrorCode.Ok
  <2> DEFINE res == ResultErr(heap, b, error).val
  <2>1. res.error_code = Code(error)
    BY DEF ResultErr
  <2> HIDE DEF res
  <2>2. /\ go[g].pc = "callback"
        /\ go' = [go EXCEPT ![g] = [go[g] EXCEPT !.pc = "check", !.res = res]]
    BY <1>4 DEF Step, res
  <2>3. Code(error) # FfiErrorCode.Ok
    BY ErrorNames
  <2> QED BY <1>1, <1>4, <2>1, <2>2, <2>3 DEF CallRecords, Moves
<1> QED BY <1>2, <1>3, <1>4 DEF ReturnsToGo

\* CheckResult turns the code into an error.
LEMMA CheckErrorFacts ==
  ASSUME Memory, NEW g \in Goroutines, CheckError(g)
  PROVE  /\ Moves(g, "check", "free_buf")
         /\ go[g].res.error_code # FfiErrorCode.Ok
         /\ go'[g].outcome = Returned(<<>>, ErrorNamed(go[g].res.error_code))
<1> DEFINE outcome == Returned(<<>>, ErrorNamed(go[g].res.error_code))
           f == [go[g] EXCEPT !.pc = "free_buf", !.res = Resting.res, !.outcome = outcome]
<1>1. go[g] \in CallRecords /\ go \in [Goroutines -> CallRecords]
  BY DEF Memory, CallOK
<1>2. /\ go[g].pc = "check" /\ go[g].res.error_code # FfiErrorCode.Ok
      /\ go' = [go EXCEPT ![g] = f]
  BY DEF CheckError, Step
<1> HIDE DEF outcome
<1>3. f.pc = "free_buf" /\ f.outcome = outcome
  BY <1>1 DEF CallRecords
<1> HIDE DEF f
<1> QED BY <1>1, <1>2, <1>3 DEF Moves, outcome

\* The copy of the payload has its bytes.
LEMMA CopyFacts ==
  ASSUME Memory, NEW g \in Goroutines, CopyPayload(g)
  PROVE  /\ Moves(g, "check", "free_res")
         /\ go[g].res.error_code = FfiErrorCode.Ok
         /\ go'[g].outcome = go[g].outcome /\ go'[g].answer = go[g].answer
         /\ go'[g].res = go[g].res
         /\ AsSlice(heap', go'[g].result) = AsSlice(heap, go[g].res.payload)
<1> DEFINE bytes == AsSlice(heap, go[g].res.payload)
<1>1. PICK b \in Available(heap) :
        LET out == FromBytes(heap, b, bytes) IN
        /\ heap' = out.heap
        /\ Step(g, "check", [go[g] EXCEPT !.pc = "free_res", !.result = out.val])
  BY DEF CopyPayload
<1> DEFINE out == FromBytes(heap, b, bytes)
           f == [go[g] EXCEPT !.pc = "free_res", !.result = out.val]
<1>2. /\ heap' = out.heap /\ go[g].pc = "check" /\ go' = [go EXCEPT ![g] = f]
      /\ go[g].res.error_code = FfiErrorCode.Ok
  BY <1>1 DEF CopyPayload, Step
<1>3. go[g] \in CallRecords /\ go \in [Goroutines -> CallRecords]
  BY DEF Memory, CallOK
<1>4. AsSlice(out.heap, out.val) = bytes
  <2>1. bytes \in Strings /\ b \in Blocks /\ heap \in Heaps
    BY Reading DEF Available, Memory
  <2> HIDE DEF bytes
  <2> QED BY <2>1, FromBytesFacts, MemoryAssumption
<1> HIDE DEF out, bytes
<1>5. /\ f.pc = "free_res" /\ f.result = out.val /\ f.res = go[g].res
      /\ f.outcome = go[g].outcome /\ f.answer = go[g].answer
  BY <1>3 DEF CallRecords
<1> HIDE DEF f
<1>6. go'[g] = f
  BY <1>2, <1>3
<1> QED BY <1>2, <1>4, <1>5, <1>6 DEF Moves, bytes

\* Freeing a success without its payload frees nothing.
LEMMA FreeResultFacts ==
  ASSUME Memory, Contents, NEW g \in Goroutines, FreeResult(g)
  PROVE  /\ Moves(g, "free_res", "bytes")
         /\ go'[g].outcome = go[g].outcome /\ go'[g].answer = go[g].answer
         /\ go[g].res.error_code = FfiErrorCode.Ok /\ go'[g].res = Resting.res
         /\ AsSlice(heap', go'[g].result) = AsSlice(heap, go[g].result)
<1> DEFINE zeroed == [go[g].res EXCEPT !.payload = NullBuffer]
           f == [go[g] EXCEPT !.pc = "bytes", !.res = Resting.res]
<1>1. /\ go[g].pc = "free_res" /\ go' = [go EXCEPT ![g] = f]
      /\ heap' = ResultFree(heap, zeroed).heap
  BY DEF FreeResult, Step
<1>2. /\ go[g] \in CallRecords /\ CallOK(heap, go[g]) /\ heap \in Heaps
      /\ go \in [Goroutines -> CallRecords]
  BY DEF Memory, CallOK
<1>3. go[g].res.error_code = FfiErrorCode.Ok
  BY <1>1 DEF Contents, ContentOK
<1>4. go[g].res.error_message = NullString
  BY <1>2, <1>3 DEF CallOK, HasAt
<1>5. zeroed.payload = NullBuffer /\ zeroed.error_message = NullString
  BY <1>2, <1>4 DEF CallRecords, ResultType
<1> HIDE DEF zeroed
<1>6. Frees(heap, heap', Null)
  BY <1>1, <1>2, <1>5, FreeMessage, NoBlock, MemoryAssumption DEF NullString
<1>7. AsSlice(heap', go[g].result) = AsSlice(heap, go[g].result)
  BY <1>6, NoBlock, AsSliceOfBlock, MemoryAssumption DEF Frees
<1>8. /\ f.pc = "bytes" /\ f.res = Resting.res /\ f.result = go[g].result
      /\ f.outcome = go[g].outcome /\ f.answer = go[g].answer
  BY <1>2 DEF CallRecords
<1> HIDE DEF f
<1>9. go'[g] = f
  BY <1>1, <1>2
<1> QED BY <1>1, <1>3, <1>7, <1>8, <1>9 DEF Moves

\* The outcome is decoded from the copy.
LEMMA DecodeFacts ==
  ASSUME Memory, NEW g \in Goroutines, Decode(g)
  PROVE  /\ Moves(g, "bytes", "free_result")
         /\ go[g].res.error_code = FfiErrorCode.Ok
         /\ go'[g].outcome = Decoded(AsSlice(heap, go[g].result))
<1> DEFINE outcome == Decoded(AsSlice(heap, go[g].result))
           f == [go[g] EXCEPT !.pc = "free_result", !.outcome = outcome]
<1>1. go[g].pc = "bytes" /\ go' = [go EXCEPT ![g] = f]
  BY DEF Decode, Step
<1>2. go[g] \in CallRecords /\ go \in [Goroutines -> CallRecords] /\ CallOK(heap, go[g])
  BY DEF Memory, CallOK
<1>3. go[g].res.error_code = FfiErrorCode.Ok
  BY <1>1, <1>2, RestingFacts DEF CallOK, HasAt
<1> HIDE DEF outcome
<1>4. f.pc = "free_result" /\ f.outcome = outcome
  BY <1>2 DEF CallRecords
<1> HIDE DEF f
<1> QED BY <1>1, <1>2, <1>3, <1>4 DEF Moves, outcome

\* The deferred calls of Free keep the outcome.
LEMMA FreeFacts ==
  ASSUME Memory, NEW g \in Goroutines
  PROVE  /\ FreeOutput(g) =>
              Moves(g, "free_result", "free_buf") /\ go'[g].outcome = go[g].outcome
         /\ FreeInput(g) =>
              Moves(g, "free_buf", "done") /\ go'[g].outcome = go[g].outcome
<1>1. go[g] \in CallRecords /\ go \in [Goroutines -> CallRecords]
  BY DEF Memory, CallOK
<1> QED BY <1>1 DEF FreeOutput, FreeInput, Step, CallRecords, Moves

\* At the end the caller has the outcome.
LEMMA RestFacts ==
  ASSUME Memory, NEW g \in Goroutines, Rest(g)
  PROVE  Moves(g, "done", "rest") /\ go'[g] = Resting
BY RestingFacts DEF Rest, Step, Memory, Moves

-----------------------------------------------------------------------------
(***************************************************************************)
(* What the steps of an invocation do to its activation.                   *)
(***************************************************************************)

\* The codes of the two sides, by their numbers.
LEMMA RegistryCodes ==
  /\ \A v : R!Code(v) = Code(v)
  /\ R!FfiErrorCode = FfiErrorCode /\ R!ErrorVariants = ErrorVariants
  /\ \A k, v : R!Result(k, v).val = v
<1>1. R!FfiErrorCode = FfiErrorCode
  BY Zenon DEF R!FfiErrorCode, FfiErrorCode
<1>2. (\A v : R!Code(v) = Code(v)) /\ R!ErrorVariants = ErrorVariants
  BY <1>1, Zenon DEF R!Code, Code, R!ErrorVariants, ErrorVariants
<1> QED BY <1>1, <1>2 DEF R!Result

\* An invocation begins with the mutex, or with the refusal of its name.
LEMMA InvokeFacts ==
  ASSUME R!TypeOK, NEW a \in R!Activations, R!FfiInvokeCallback(a)
  PROVE  /\ alive /\ UNCHANGED <<callbacks, guard, poisoned, alive>>
         /\ frame[a].pc = "idle"
         /\ \A b \in R!Activations : b # a => frame'[b] = frame[b]
         /\ frame'[a].op = "ffi_invoke_callback"
         /\ \/ frame'[a].pc = "lock" /\ frame'[a].name \in Names
            \/ /\ frame'[a].pc = "returned" /\ frame'[a].res.val = Code("InvalidUtf8")
               /\ BadNames # {}
<1>1. frame \in [R!Activations -> R!Frame]
  BY DEF R!TypeOK
<1>2. PICK n \in Names \cup BadNames : R!Enter(a, "ffi_invoke_callback", n, None)
  BY DEF R!FfiInvokeCallback
<1>3. /\ alive /\ UNCHANGED <<callbacks, guard, poisoned, alive>>
      /\ frame[a].pc = "idle"
      /\ \A b \in R!Activations : b # a => frame'[b] = frame[b]
  BY <1>1, <1>2 DEF R!Enter, R!MayCall
<1>4. CASE n \in BadNames
  <2>1. frame'[a] = [pc |-> "returned", op |-> "ffi_invoke_callback", name |-> n,
                     cb |-> None, res |-> R!Rejected("ffi_invoke_callback", n)]
    BY <1>1, <1>2, <1>4 DEF R!Enter
  <2>2. n # "null"
    BY <1>4, BridgeAssumption DEF BridgeAssumption
  <2>3. R!Rejected("ffi_invoke_callback", n).val = Code("InvalidUtf8")
    BY <2>2, RegistryCodes DEF R!Rejected
  <2> QED BY <1>3, <1>4, <2>1, <2>3
<1>5. CASE n \notin BadNames
  <2>1. frame'[a] = [pc |-> "lock", op |-> "ffi_invoke_callback", name |-> n,
                     cb |-> None, res |-> R!NoResult]
    BY <1>1, <1>2, <1>5 DEF R!Enter
  <2> QED BY <1>3, <1>5, <2>1
<1> QED BY <1>4, <1>5

\* The codes that ffi_invoke_callback decides without an answer.
OwnCodes == {Code("LockPoisoned"), Code("NotFound"), Code("Panic")}

\* It goes on, and may be decided without an answer of the callback;
LEMMA LockFacts ==
  ASSUME R!TypeOK, NEW a \in R!Activations, frame[a].op = "ffi_invoke_callback",
         R!Lock(a) \/ R!Lookup(a) \/ R!CallbackPanics(a)
  PROVE  /\ frame[a].pc \in {"lock", "locked", "run"}
         /\ frame'[a].op = frame[a].op /\ frame'[a].name = frame[a].name
         /\ \/ frame'[a].pc \in {"lock", "locked", "run"}
            \/ frame'[a].pc = "returned" /\ frame'[a].res.val \in OwnCodes
<1>1. /\ frame \in [R!Activations -> R!Frame] /\ R!FrameOK(frame[a])
      /\ frame[a] \in R!Frame
  BY DEF R!TypeOK
<1>2. ASSUME NEW res, R!Return(a, res)
      PROVE  /\ frame'[a].pc = "returned" /\ frame'[a].res = res
             /\ frame'[a].op = frame[a].op /\ frame'[a].name = frame[a].name
  BY <1>1, <1>2 DEF R!Return, R!Frame
<1>3. CASE R!Lock(a)
  <2>1. frame[a].pc = "lock"
    BY <1>3 DEF R!Lock, R!MayLock
  <2>2. frame[a].cb \notin Closures
    <3>1. frame[a].cb = None
      BY <1>1, <2>1 DEF R!FrameOK, R!ArgumentsOK
    <3> QED BY <3>1, RegistryConstants DEF R!RegistryAssumption, R!Callbacks
  <2>3. CASE R!TakeGuard(a)
    BY <1>1, <2>1, <2>3 DEF R!TakeGuard, R!Frame
  <2>4. CASE R!ReportPoison(a)
    <3>1. R!Return(a, R!PoisonReported("ffi_invoke_callback"))
      BY <2>2, <2>4 DEF R!ReportPoison, R!HasDestructor
    <3>2. R!PoisonReported("ffi_invoke_callback").val = Code("LockPoisoned")
      BY RegistryCodes DEF R!PoisonReported
    <3> QED BY <1>2, <2>1, <3>1, <3>2 DEF OwnCodes
  <2> QED BY <1>3, <2>3, <2>4 DEF R!Lock
<1>4. CASE R!Lookup(a)
  <2>1. frame[a].pc = "locked"
    BY <1>4 DEF R!Lookup
  <2>2. CASE R!Return(a, R!Result("FfiResult", R!Code("NotFound")))
    BY <1>2, <2>1, <2>2, RegistryCodes DEF OwnCodes
  <2>3. CASE frame' = [frame EXCEPT ![a].pc = "run", ![a].cb = callbacks[frame[a].name]]
    BY <1>1, <2>1, <2>3 DEF R!Frame
  <2> QED BY <1>4, <2>2, <2>3 DEF R!Lookup
<1>5. CASE R!CallbackPanics(a)
  <2>1. frame[a].pc = "run"
    BY <1>5 DEF R!CallbackPanics
  <2>2. CASE R!Return(a, R!Result("FfiResult", R!Code("Panic")))
    BY <1>2, <2>1, <2>2, RegistryCodes DEF OwnCodes
  <2>3. CASE R!Abort
    BY <2>1, <2>3 DEF R!Abort
  <2> QED BY <1>5, <2>2, <2>3 DEF R!CallbackPanics
<1> QED BY <1>3, <1>4, <1>5

\* or the callback answers.
LEMMA CallbackFacts ==
  ASSUME R!TypeOK, NEW g \in Goroutines, NEW code, Returns(g, code)
  PROVE  LET a == Act(g) IN
         /\ R!UserSteps(a)
         /\ frame[a].pc = "run" /\ frame'[a].pc = "returned"
         /\ frame'[a].op = frame[a].op /\ frame'[a].name = frame[a].name
         /\ frame'[a].res.val = IF code = FfiErrorCode.Ok THEN FfiErrorCode.Ok
                                                         ELSE Code("Unknown")
<1> DEFINE a == Act(g)
<1>1. a \in R!Activations
  BY ActivationFacts DEF Threads
<1>2. R!CallbackReturns(a) /\ frame'[a].res = R!Invoked(code)
  BY DEF Returns
<1>3. frame \in [R!Activations -> R!Frame] /\ frame[a] \in R!Frame
  BY <1>1 DEF R!TypeOK
<1> HIDE DEF a
<1>4. /\ frame[a].pc = "run" /\ frame'[a].pc = "returned"
      /\ frame'[a].op = frame[a].op /\ frame'[a].name = frame[a].name
  BY <1>1, <1>2, <1>3 DEF R!CallbackReturns, R!Return, R!Frame
<1>5. R!Invoked(code).val = IF code = FfiErrorCode.Ok THEN FfiErrorCode.Ok
                                                      ELSE Code("Unknown")
  BY RegistryCodes DEF R!Invoked
<1> QED BY <1>2, <1>4, <1>5 DEF a, R!UserSteps

-----------------------------------------------------------------------------
(***************************************************************************)
(* Every step preserves the rest of the invariant.                         *)
(***************************************************************************)

\* What a thread's step does to the others: a goroutine's spares them,
LEMMA GoroutineAlone ==
  ASSUME R!TypeOK, Memory, Linked, NEW g \in Goroutines, Begins(g) \/ Proceeds(g)
  PROVE  /\ Spares(g)
         /\ UNCHANGED registryVars \/ RP!StepOf(Act(g))
         /\ \A t \in Threads : t # g => frame'[Act(t)] = frame[Act(t)]
<1>1. Spares(g)
  <2>1. CASE Begins(g)
    BY <2>1, GoStep DEF Begins, registryVars
  <2>2. CASE GoSteps(g) /\ UNCHANGED registryVars
    BY <2>2, GoStep DEF registryVars
  <2>3. CASE Enters(g) \/ Locks(g) \/ ReturnsToGo(g)
    BY <2>3, EnterStep, LockStep, ReturnStep
  <2>4. CASE AnswersCopy(g) \/ AnswersAlias(g) \/ AnswersUndecodable(g) \/ AnswersError(g)
    BY <2>4, AnswerStep, ErrorStep
  <2> QED BY <2>1, <2>2, <2>3, <2>4 DEF Proceeds
<1>2. \/ UNCHANGED registryVars
      \/ R!Calls(Act(g)) \/ R!RegistrySteps(Act(g)) \/ R!UserSteps(Act(g))
  <2>1. CASE Begins(g) \/ UNCHANGED registryVars
    BY <2>1 DEF Begins
  <2>2. CASE Enters(g) \/ Locks(g) \/ ReturnsToGo(g)
    BY <2>2 DEF Enters, Locks, ReturnsToGo, R!Calls, R!RegistrySteps, R!UserSteps
  <2>3. CASE AnswersCopy(g) \/ AnswersAlias(g) \/ AnswersUndecodable(g) \/ AnswersError(g)
    <3>1. R!CallbackReturns(Act(g))
      BY <2>3 DEF AnswersCopy, AnswersAlias, AnswersUndecodable, AnswersError, Succeeds, Returns
    <3> QED BY <3>1 DEF R!UserSteps
  <2> QED BY <2>1, <2>2, <2>3 DEF Proceeds
<1>3. ASSUME NEW t \in Threads, t # g
      PROVE  frame'[Act(t)] = frame[Act(t)]
  <2>1. Act(g) \in R!Activations /\ Act(t) \in R!Activations /\ Act(g) # Act(t)
    BY <1>3, ActivationFacts DEF Threads
  <2> QED BY <1>2, <2>1, OneActivation DEF registryVars
<1> QED BY <1>1, <1>2, <1>3, SameRegistry

\* and a Rust thread's is one of the registry alone.
LEMMA RustAlone ==
  ASSUME R!TypeOK, NEW t \in RustThreads, Administers(t) \/ Continues(t)
  PROVE  /\ heap' = heap /\ go' = go
         /\ RP!StepOf(Act(t))
         /\ \A u \in Threads : u # t => frame'[Act(u)] = frame[Act(u)]
<1>1. /\ heap' = heap /\ go' = go
      /\ R!Calls(Act(t)) \/ R!RegistrySteps(Act(t)) \/ R!UserSteps(Act(t))
  BY DEF Administers, Continues, goVars, R!Calls
<1>2. ASSUME NEW u \in Threads, u # t
      PROVE  frame'[Act(u)] = frame[Act(u)]
  <2>1. Act(u) \in R!Activations /\ Act(t) \in R!Activations /\ Act(u) # Act(t)
    BY <1>2, ActivationFacts DEF Threads
  <2> QED BY <1>1, <2>1, OneActivation
<1> QED BY <1>1, <1>2, SameRegistry

\* A step that lets a call go on spares the roles.
LEMMA GoroutineRoles ==
  ASSUME R!TypeOK, Memory, Linked, Roles, NEW g \in Goroutines, Begins(g) \/ Proceeds(g)
  PROVE  Roles'
<1> DEFINE a == Act(g)
<1>1. \A t \in Threads : t # g => frame'[Act(t)] = frame[Act(t)]
  BY GoroutineAlone
<1>2. a \in R!Activations /\ (frame[a].pc # "idle" => frame[a].op = "ffi_invoke_callback")
  BY ActivationFacts DEF Threads, Roles
<1>3. frame'[a].pc # "idle" => frame'[a].op = "ffi_invoke_callback"
  <2>1. CASE Begins(g) \/ UNCHANGED registryVars
    BY <1>2, <2>1 DEF Begins, registryVars
  <2>2. CASE Enters(g)
    BY <1>2, <2>2, InvokeFacts DEF Enters
  <2>3. CASE Locks(g)
    <3>1. (R!Lock(a) \/ R!Lookup(a) \/ R!CallbackPanics(a)) /\ frame[a].pc # "idle"
      BY <1>2, <2>3, InvocationSteps DEF Locks
    <3> QED BY <1>2, <3>1, LockFacts
  <2>4. CASE AnswersCopy(g) \/ AnswersAlias(g) \/ AnswersUndecodable(g) \/ AnswersError(g)
    <3>1. PICK code : Returns(g, code)
      BY <2>4 DEF AnswersCopy, AnswersAlias, AnswersUndecodable, AnswersError, Succeeds
    <3> QED BY <1>2, <3>1, CallbackFacts
  <2>5. CASE ReturnsToGo(g)
    BY <1>2, <2>5, InvocationSteps DEF ReturnsToGo
  <2> QED BY <2>1, <2>2, <2>3, <2>4, <2>5 DEF Proceeds
<1>4. \A t \in RustThreads : t # g
  BY BridgeAssumption DEF BridgeAssumption
<1> QED BY <1>1, <1>3, <1>4 DEF Roles, Threads, Act

\* A Rust thread invokes nothing.
LEMMA RustRoles ==
  ASSUME R!TypeOK, Roles, NEW t \in RustThreads, Administers(t) \/ Continues(t)
  PROVE  Roles'
<1> DEFINE a == Act(t)
<1>1. \A u \in Threads : u # t => frame'[Act(u)] = frame[Act(u)]
  BY RustAlone
<1>2. /\ a \in R!Activations /\ frame \in [R!Activations -> R!Frame]
      /\ frame[a] \in R!Frame /\ frame[a].op # "ffi_invoke_callback"
  BY ActivationFacts DEF Threads, Roles, R!TypeOK
<1> HIDE DEF a
<1>3. frame'[a].op # "ffi_invoke_callback"
  <2>1. ASSUME NEW op, NEW n, NEW c, R!Enter(a, op, n, c), op # "ffi_invoke_callback"
        PROVE  frame'[a].op # "ffi_invoke_callback"
    BY <1>2, <2>1 DEF R!Enter
  <2>2. CASE Administers(t)
    BY <2>1, <2>2 DEF a, Administers, R!RegisterCallback, R!FfiRegisterCallback,
       R!UnregisterCallback, R!FfiUnregisterCallback, R!CallbackCount
  <2>3. CASE R!RegistrySteps(a)
    BY <1>2, <2>3 DEF R!RegistrySteps, R!Lock, R!TakeGuard, R!ReportPoison, R!Insert,
       R!Remove, R!Count, R!Lookup, R!Consume, R!DropThenReturn, R!Return, R!Frame, R!Idle
  <2>4. CASE R!UserSteps(a)
    BY <1>2, <2>4 DEF R!UserSteps, R!CallbackReturns, R!DropReturns, R!CallbackPanics,
       R!DropPanics, R!Abort, R!Return, R!Frame
  <2> QED BY <2>2, <2>3, <2>4 DEF a, Continues
<1>4. \A g \in Goroutines : g # t
  BY BridgeAssumption DEF BridgeAssumption
<1> QED BY <1>1, <1>3, <1>4 DEF Roles, Threads, Act, a

\* A call in Go keeps its bytes, or decodes them.
LEMMA GoContent ==
  ASSUME Memory, Contents, NEW g \in Goroutines, Begin(g) \/ GoSteps(g)
  PROVE  ContentOK(heap', go'[g], frame'[Act(g)])
<1>0. ContentOK(heap, go[g], frame[Act(g)])
  BY DEF Contents
<1>1. CASE Begin(g)
  BY <1>1, BeginFacts DEF ContentOK, Succeeded, Moves
<1>2. CASE CheckError(g)
  BY <1>2, CheckErrorFacts DEF ContentOK, Succeeded, Moves
<1>3. CASE CopyPayload(g)
  BY <1>0, <1>3, CopyFacts DEF ContentOK, Succeeded, Moves
<1>4. CASE FreeResult(g)
  BY <1>0, <1>4, FreeResultFacts DEF ContentOK, Succeeded, Moves
<1>5. CASE Decode(g)
  BY <1>5, DecodeFacts DEF ContentOK, Succeeded, Moves
<1>6. CASE FreeOutput(g) \/ FreeInput(g)
  BY <1>6, FreeFacts DEF ContentOK, Succeeded, Moves
<1>7. CASE Rest(g)
  BY <1>7, RestFacts, RestingFacts DEF ContentOK, Succeeded, Moves
<1> QED BY <1>1, <1>2, <1>3, <1>4, <1>5, <1>6, <1>7 DEF GoSteps

\* The codes of an invocation that was not answered are none of Ok.
LEMMA OwnCodesFail == FfiErrorCode.Ok \notin OwnCodes \cup {Code("InvalidUtf8"), Code("Unknown")}
BY DEF OwnCodes, Code, FfiErrorCode

\* Entering C and waiting there keep the request.
LEMMA WaitContent ==
  ASSUME R!TypeOK, Memory, Linked, Contents, Roles, NEW g \in Goroutines,
         Enters(g) \/ Locks(g)
  PROVE  ContentOK(heap', go'[g], frame'[Act(g)])
<1> DEFINE a == Act(g)
<1>0. /\ ContentOK(heap, go[g], frame[a]) /\ a \in R!Activations
      /\ frame[a].pc # "idle" => frame[a].op = "ffi_invoke_callback"
  BY ActivationFacts DEF Contents, Threads, Roles
<1>1. CASE Enters(g)
  <2>1. frame'[a].pc = "returned" => frame'[a].res.val # FfiErrorCode.Ok
    BY <1>0, <1>1, InvokeFacts, OwnCodesFail DEF Enters
  <2>2. EnterC(g)
    BY <1>1 DEF Enters
  <2> QED BY <1>0, <2>1, <2>2, EnterFacts, RestingFacts DEF ContentOK, Succeeded, Moves
<1>2. CASE Locks(g)
  <2>1. /\ R!Lock(a) \/ R!Lookup(a) \/ R!CallbackPanics(a)
        /\ heap' = heap /\ go' = go
    BY <1>2 DEF Locks, goVars
  <2>2. frame[a].pc \notin {"idle", "returned"}
    BY <1>0, <2>1, InvocationSteps
  <2>3. frame'[a].pc = "returned" => frame'[a].res.val # FfiErrorCode.Ok
    BY <1>0, <2>1, <2>2, LockFacts, OwnCodesFail
  <2> QED BY <1>0, <2>1, <2>3 DEF ContentOK, Succeeded
<1> QED BY <1>1, <1>2

\* A success puts the bytes of the answer into the payload.
LEMMA SucceedContent ==
  ASSUME R!TypeOK, Memory, Linked, Contents, NEW g \in Goroutines,
         NEW bytes, NEW out, Succeeds(g, bytes, out),
         AsSlice(out.heap, out.val) = bytes,
         AsSlice(out.heap, go[g].buf) = AsSlice(heap, go[g].buf)
  PROVE  ContentOK(heap', go'[g], frame'[Act(g)])
<1>1. ContentOK(heap, go[g], frame[Act(g)]) /\ go[g].pc = "callback"
  BY AnswerFacts DEF Contents, Succeeds
<1>2. /\ go'[g].pc = go[g].pc /\ heap' = out.heap
      /\ go'[g].request = go[g].request /\ go'[g].buf = go[g].buf
      /\ go'[g].outcome = go[g].outcome /\ go'[g].res = ResultOk(out.val)
      /\ go'[g].answer = bytes
  BY SucceedFacts
<1>3. go'[g].res.error_code = FfiErrorCode.Ok /\ go'[g].res.payload = out.val
  BY <1>2 DEF ResultOk
<1>4. /\ AsSlice(heap', go'[g].buf) = AsSlice(heap, go[g].buf)
      /\ AsSlice(heap', go'[g].res.payload) = bytes
  BY <1>2, <1>3
<1> QED BY <1>1, <1>2, <1>3, <1>4 DEF ContentOK, Succeeded

\* The three ways of answering;
LEMMA AnswerContent ==
  ASSUME R!TypeOK, Memory, Linked, Contents, NEW g \in Goroutines,
         AnswersCopy(g) \/ AnswersAlias(g) \/ AnswersUndecodable(g)
  PROVE  ContentOK(heap', go'[g], frame'[Act(g)])
<1>1. heap \in Heaps /\ \A b \in Available(heap) : b \in Blocks
  BY DEF Memory, Available
<1>2. AsSlice(heap, go[g].buf) \in Strings /\ Undecodable \subseteq Strings
  <2>1. <<"raw">> \in Seq(Bytes) /\ Len(<<"raw">>) = 1
    BY DEF Bytes
  <2>2. Len(<<"raw">>) <= MaxSize
    BY <2>1, MemoryAssumption DEF MemoryAssumption
  <2>3. <<"raw">> \in Strings
    BY <2>1, <2>2, SeqIsString, MemoryAssumption
  <2>4. Undecodable \subseteq Strings
    BY <2>3, ShortStrings, MemoryAssumption DEF Undecodable
  <2> QED BY <2>4, Reading
<1>3. ASSUME NEW bytes \in Strings, NEW b \in Available(heap),
             Succeeds(g, bytes, BufferFromVec(heap, b, bytes, Len(bytes)))
      PROVE  ContentOK(heap', go'[g], frame'[Act(g)])
  <2> DEFINE out == BufferFromVec(heap, b, bytes, Len(bytes))
  <2>1. Len(bytes) \in Shrunk(bytes)
    BY StringFacts, MemoryAssumption DEF Shrunk, MemoryAssumption
  <2>2. Allocates(heap, b, out.heap, out.val.data) /\ AsSlice(out.heap, out.val) = bytes
    BY <1>1, <2>1, BufferFromVecFacts, MemoryAssumption
  <2>3. Succeeds(g, bytes, out)
    BY <1>3
  <2> HIDE DEF out
  <2>4. AsSlice(out.heap, go[g].buf) = AsSlice(heap, go[g].buf)
    <3>1. \A c \in BlocksOf(go[g]) : heap[c].live
      BY CallIsLive DEF Memory
    <3>2. go[g].buf.data \in Blocks => out.heap[go[g].buf.data] = heap[go[g].buf.data]
      BY <2>2, <3>1 DEF Allocates, Available, BlocksOf
    <3> QED BY <3>2, AsSliceOfBlock
  <2> QED BY <2>2, <2>3, <2>4, SucceedContent
<1>4. CASE AnswersCopy(g)
  BY <1>2, <1>3, <1>4 DEF AnswersCopy
<1>5. CASE AnswersUndecodable(g)
  BY <1>2, <1>3, <1>5 DEF AnswersUndecodable
<1>6. CASE AnswersAlias(g)
  <2> DEFINE out == [heap |-> heap, val |-> go[g].buf]
  <2>1. Succeeds(g, AsSlice(heap, go[g].buf), out)
    BY <1>6 DEF AnswersAlias
  <2>2. out.heap = heap /\ out.val = go[g].buf
    OBVIOUS
  <2> HIDE DEF out
  <2> QED BY <2>1, <2>2, SucceedContent
<1> QED BY <1>4, <1>5, <1>6

\* and the fourth, which allocates a message in a block of its own.
LEMMA ErrorContent ==
  ASSUME R!TypeOK, Memory, Linked, Contents, NEW g \in Goroutines, AnswersError(g)
  PROVE  ContentOK(heap', go'[g], frame'[Act(g)])
<1>1. Returns(g, FfiErrorCode.Unknown) /\ go' = go
  BY DEF AnswersError
<1>2. PICK b \in Available(heap) : heap' = ResultErr(heap, b, "Unknown").heap
  BY DEF AnswersError
<1>3. b \in Blocks /\ ~heap[b].live /\ heap \in Heaps
  BY DEF Available, Memory
<1>4. \A c \in Blocks : c # b => heap'[c] = heap[c]
  <2> DEFINE out == ResultErr(heap, b, "Unknown")
  <2>1. Allocates(heap, b, out.heap, out.val.error_message.data)
    BY <1>3, ResultErrFacts, MemoryAssumption
  <2> HIDE DEF out
  <2>2. \A c \in Blocks : c # b => out.heap[c] = heap[c]
    BY <2>1 DEF Allocates
  <2> QED BY <1>2, <2>2 DEF out
<1>5. \A c \in BlocksOf(go[g]) : heap[c].live /\ c \in Blocks
  BY CallIsLive DEF Memory, BlocksOf
<1>6. \A c \in BlocksOf(go[g]) : heap'[c] = heap[c]
  BY <1>3, <1>4, <1>5
<1>7. ContentOK(heap', go[g], frame[Act(g)])
  BY <1>6, ContentFrame DEF Contents
<1>8. frame'[Act(g)].res.val # FfiErrorCode.Ok /\ go[g].pc = "callback"
  <2>1. FfiErrorCode.Unknown # FfiErrorCode.Ok
    BY DEF FfiErrorCode
  <2> QED BY <1>1, <2>1, CallbackFacts, AnswerFacts, OwnCodesFail
<1> QED BY <1>1, <1>7, <1>8 DEF ContentOK, Succeeded

\* The return hands on what was decided.
LEMMA ReturnContent ==
  ASSUME R!TypeOK, Memory, Linked, Contents, NEW g \in Goroutines, ReturnsToGo(g)
  PROVE  ContentOK(heap', go'[g], frame'[Act(g)])
BY ReturnFacts DEF Contents, ContentOK, Succeeded, Moves

\* So each call has its own bytes.
LEMMA ContentsStep ==
  ASSUME R!TypeOK, Memory, Linked, Contents, Roles, [Next]_vars
  PROVE  Contents'
<1>1. ASSUME NEW g \in Goroutines, Begins(g) \/ Proceeds(g)
      PROVE  Contents'
  <2>1. ContentOK(heap', go'[g], frame'[Act(g)])
    BY <1>1, GoContent, WaitContent, AnswerContent, ErrorContent, ReturnContent
    DEF Begins, Proceeds
  <2>2. ASSUME NEW k \in Goroutines, k # g
        PROVE  ContentOK(heap', go'[k], frame'[Act(k)])
    <3>1. /\ go'[k] = go[k] /\ frame'[Act(k)] = frame[Act(k)]
          /\ \A b \in BlocksOf(go[k]) : heap'[b] = heap[b]
      BY <1>1, <2>2, GoroutineAlone DEF Spares, Threads
    <3> QED BY <3>1, ContentFrame DEF Contents
  <2> QED BY <2>1, <2>2 DEF Contents, Act
<1>2. ASSUME NEW t \in RustThreads, Administers(t) \/ Continues(t)
      PROVE  Contents'
  <2>1. \A g \in Goroutines : g # t
    BY BridgeAssumption DEF BridgeAssumption
  <2>2. heap' = heap /\ go' = go /\ \A g \in Goroutines : frame'[Act(g)] = frame[Act(g)]
    BY <1>2, <2>1, RustAlone DEF Threads
  <2> QED BY <2>2 DEF Contents, Act
<1>3. CASE Finished \/ UNCHANGED vars
  BY <1>3 DEF Finished, vars, goVars, registryVars, Contents, Act
<1> QED BY <1>1, <1>2, <1>3 DEF Next

\* The roles never change.
LEMMA RolesStep ==
  ASSUME R!TypeOK, Memory, Linked, Roles, [Next]_vars
  PROVE  Roles'
<1>1. CASE Finished \/ UNCHANGED vars
  BY <1>1 DEF Finished, vars, registryVars, Roles, Act
<1> QED BY <1>1, GoroutineRoles, RustRoles DEF Next

\* The inductive invariant of the refinement, with that of the registry.
SystemInvariant ==
  BridgeInvariant /\ R!TypeOK /\ Roles /\ Contents /\ RP!RefinementInvariant

\* It always holds.
LEMMA SystemInvariantHolds == Spec => []SystemInvariant
<1>1. Init => Roles /\ Contents
  <2> SUFFICES ASSUME Init PROVE Roles /\ Contents
    OBVIOUS
  <2>1. \A t \in Threads : frame[Act(t)] = R!Idle
    BY ActivationFacts DEF Init, R!Init
  <2>2. R!Idle.pc = "idle" /\ R!Idle.op = "none"
    BY DEF R!Idle
  <2>3. go = [g \in Goroutines |-> Resting]
    BY DEF Init, GoInit
  <2> QED BY <2>1, <2>2, <2>3, RestingFacts DEF Roles, Contents, ContentOK, Succeeded, Threads
<1>2. BridgeInvariant /\ R!TypeOK /\ Roles /\ Contents /\ [Next]_vars => Roles' /\ Contents'
  BY RolesStep, ContentsStep DEF BridgeInvariant
<1>3. RP!RegistryAssumption
  BY RegistryConstants, SameRegistry
<1>4. RP!Spec => []RP!RefinementInvariant
  BY <1>3, RP!RefinementInvariantHolds
<1> QED BY <1>1, <1>2, <1>4, InvariantHolds, RegistryProofs, PTL DEF Spec, SystemInvariant

-----------------------------------------------------------------------------
(***************************************************************************)
(* The mapping, call by call.                                              *)
(***************************************************************************)

\* AbstractCall of a call in Go with record f and in C with activation r.
PhaseOf(f, r) ==
  IF f.pc \in {"rest", "invoke"} THEN "idle"
  ELSE IF f.pc = "callback" /\ r.pc \in {"lock", "locked", "run"} THEN "called"
  ELSE "answered"

DecidedCode(f, r) == IF f.pc = "callback" THEN r.res.val ELSE f.res.error_code

OutcomeOf(f, r) ==
  IF ~(r.pc = "returned" \/ f.pc \in {"check", "free_res", "bytes"}) THEN f.outcome
  ELSE IF DecidedCode(f, r) = FfiErrorCode.Ok THEN Decoded(f.answer)
  ELSE Returned(<<>>, ErrorNamed(DecidedCode(f, r)))

CallOf(f, r) ==
  [phase   |-> PhaseOf(f, r),
   name    |-> IF PhaseOf(f, r) = "called" THEN r.name ELSE None,
   request |-> IF PhaseOf(f, r) = "called" THEN f.request ELSE <<>>,
   outcome |-> OutcomeOf(f, r)]

\* The abstract call depends on the two records only, in this state
LEMMA MappedCall ==
  ASSUME NEW g
  PROVE  AbstractCall(g) = CallOf(go[g], frame[Act(g)])
<1>1. AbstractPhase(g) = PhaseOf(go[g], frame[Act(g)])
  BY Zenon DEF AbstractPhase, PhaseOf
<1>2. Outcome(g) = OutcomeOf(go[g], frame[Act(g)])
  BY Zenon DEF Outcome, OutcomeOf, DecidedCode
<1> QED BY <1>1, <1>2, Zenon DEF AbstractCall, CallOf

\* and in the next.
LEMMA MappedCallPrime ==
  ASSUME NEW g
  PROVE  AbstractCall(g)' = CallOf(go'[g], frame'[Act(g)])
<1>1. AbstractPhase(g)' = PhaseOf(go'[g], frame'[Act(g)])
  BY Zenon DEF AbstractPhase, PhaseOf, Act
<1>2. Outcome(g)' = OutcomeOf(go'[g], frame'[Act(g)])
  BY Zenon DEF Outcome, OutcomeOf, DecidedCode, Act
<1> QED BY <1>1, <1>2, Zenon DEF AbstractCall, CallOf, Act

\* The state function substituted for call.
MappedCalls == [g \in Goroutines |-> AbstractCall(g)]

\* The calls of the other goroutines.
OthersKept(g) == \A k \in Goroutines : k # g => AbstractCall(k)' = AbstractCall(k)

\* A step of one goroutine updates one abstract call.
LEMMA MappedUpdate ==
  ASSUME NEW g \in Goroutines, NEW new, OthersKept(g), AbstractCall(g)' = new
  PROVE  MappedCalls' = [MappedCalls EXCEPT ![g] = new]
<1>1. MappedCalls' = [k \in Goroutines |-> AbstractCall(k)']
  BY DEF MappedCalls
<1>2. [MappedCalls EXCEPT ![g] = new]
        = [k \in Goroutines |-> IF k = g THEN new ELSE AbstractCall(k)]
  BY DEF MappedCalls
<1>3. \A k \in Goroutines : AbstractCall(k)' = IF k = g THEN new ELSE AbstractCall(k)
  BY DEF OthersKept
<1> QED BY <1>1, <1>2, <1>3

\* The table that the registry's proofs are about is the table of RpcSpec.
LEMMA SameTable ==
  /\ RP!AbstractTable = R!AbstractTable
  /\ RP!AbstractTable' = R!AbstractTable'
BY DEF RP!AbstractTable, R!AbstractTable, RP!Displacing, R!Displacing

\* The updates of a record of calls, field by field.
BeganCall(old, phase, name, request) ==
  [old EXCEPT !.phase = phase, !.name = name, !.request = request]

DecidedCall(old, phase, outcome) == [old EXCEPT !.phase = phase, !.outcome = outcome]

\* An update keeps the fields that it does not name.
LEMMA CallUpdates ==
  ASSUME NEW old, NEW p, NEW n, NEW r, NEW o,
         old = [phase |-> p, name |-> n, request |-> r, outcome |-> o],
         NEW phase, NEW name, NEW request, NEW outcome
  PROVE  /\ BeganCall(old, phase, name, request)
              = [phase |-> phase, name |-> name, request |-> request, outcome |-> o]
         /\ DecidedCall(old, phase, outcome)
              = [phase |-> phase, name |-> n, request |-> r, outcome |-> outcome]
<1> DEFINE Fields == {"phase", "name", "request", "outcome"}
<1>1. old.name = n /\ old.request = r /\ old.outcome = o /\ DOMAIN old = Fields
  OBVIOUS
<1>2. BeganCall(old, phase, name, request)
        = [x \in Fields |-> IF x = "request" THEN request ELSE IF x = "name" THEN name
                            ELSE IF x = "phase" THEN phase ELSE old[x]]
  BY <1>1 DEF BeganCall
<1>3. DecidedCall(old, phase, outcome)
        = [x \in Fields |-> IF x = "outcome" THEN outcome
                            ELSE IF x = "phase" THEN phase ELSE old[x]]
  BY <1>1 DEF DecidedCall
<1>4. BeganCall(old, phase, name, request)
        = [phase |-> phase, name |-> name, request |-> request, outcome |-> o]
  BY <1>1, <1>2
<1>5. DecidedCall(old, phase, outcome)
        = [phase |-> phase, name |-> n, request |-> r, outcome |-> outcome]
  BY <1>1, <1>3
<1> QED BY <1>4, <1>5

\* The records of RpcSpec.
LEMMA RpcRecords ==
  /\ Rpc!NoCall = [phase |-> "idle", name |-> None, request |-> <<>>,
                   outcome |-> Returned(<<>>, "nil")]
  /\ \A outcome : Rpc!Answered(outcome)
       = [phase |-> "answered", name |-> None, request |-> <<>>, outcome |-> outcome]
  /\ \A name, request : BeganCall(Rpc!NoCall, "called", name, request)
       = [phase |-> "called", name |-> name, request |-> request,
          outcome |-> Returned(<<>>, "nil")]
  /\ \A error : Rpc!Failure(error) = Returned(<<>>, error)
<1>1. \A error : Rpc!Failure(error) = Returned(<<>>, error)
  BY DEF Rpc!Failure, Returned
<1>2. Rpc!NoCall = [phase |-> "idle", name |-> None, request |-> <<>>,
                   outcome |-> Returned(<<>>, "nil")]
  BY <1>1 DEF Rpc!NoCall
<1>3. \A outcome : Rpc!Answered(outcome) = DecidedCall(Rpc!NoCall, "answered", outcome)
  BY Zenon DEF Rpc!Answered, DecidedCall
<1> QED BY <1>1, <1>2, <1>3, CallUpdates

\* Both sides decode an answer in the same way.
LEMMA SameDecoding == \A bytes : Rpc!Decoded(bytes) = Decoded(bytes)
<1> TAKE bytes
<1>1. CASE bytes = <<>>
  BY <1>1, Zenon DEF Rpc!Decoded, Decoded, Decodes, Rpc!Failure, Returned
<1>2. CASE bytes # <<>> /\ IsUtf8(bytes)
  BY <1>2, Zenon DEF Rpc!Decoded, Decoded, Decodes, IsUtf8, Rpc!Failure, Returned
<1>3. CASE bytes # <<>> /\ ~IsUtf8(bytes)
  BY <1>3, Zenon DEF Rpc!Decoded, Decoded, Decodes, IsUtf8, Rpc!Failure, Returned
<1> QED BY <1>1, <1>2, <1>3

\* The Go error of each code that a call can be decided with.
LEMMA NamedErrors ==
  /\ ErrorNamed(Code("InvalidUtf8")) = "ErrInvalidUTF8"
  /\ ErrorNamed(Code("Panic")) = "ErrPanic"
  /\ ErrorNamed(Code("NotFound")) = "ErrNotFound"
  /\ ErrorNamed(Code("LockPoisoned")) = "ErrLockPoisoned"
  /\ ErrorNamed(Code("Unknown")) = "ErrUnknown"
<1>1. ASSUME NEW e \in DOMAIN ErrorCode
      PROVE  ErrorNamed(ErrorCode[e]) = e
  <2>1. \A d \in DOMAIN ErrorCode : ErrorCode[d] = ErrorCode[e] => d = e
    BY DEF ErrorCode
  <2> QED BY <2>1 DEF ErrorNamed
<1>2. /\ Code("InvalidUtf8") = ErrorCode["ErrInvalidUTF8"] /\ Code("Panic") = ErrorCode["ErrPanic"]
      /\ Code("NotFound") = ErrorCode["ErrNotFound"]
      /\ Code("LockPoisoned") = ErrorCode["ErrLockPoisoned"]
      /\ Code("Unknown") = ErrorCode["ErrUnknown"]
  BY DEF Code, FfiErrorCode, ErrorCode
<1>3. {"ErrInvalidUTF8", "ErrPanic", "ErrNotFound", "ErrLockPoisoned", "ErrUnknown"}
        \subseteq DOMAIN ErrorCode
  BY DEF ErrorCode
<1> QED BY <1>1, <1>2, <1>3

-----------------------------------------------------------------------------
(***************************************************************************)
(* Every step is a step of RpcSpec, or is not seen there.                  *)
(***************************************************************************)

\* The state functions of RpcSpec that all keep their values in an unseen step.
Unseen == UNCHANGED <<R!AbstractTable, poisoned, alive, MappedCalls>>

\* A step in which no call looks different and the registry neither is unseen.
LEMMA UnseenStutters == Unseen => UNCHANGED Rpc!vars
BY DEF Unseen, Rpc!vars, MappedCalls

\* The calls of the others look the same after a step of g.
LEMMA OtherCalls ==
  ASSUME R!TypeOK, Memory, Linked, NEW g \in Goroutines, Begins(g) \/ Proceeds(g)
  PROVE  OthersKept(g)
<1> SUFFICES ASSUME NEW k \in Goroutines, k # g
             PROVE  AbstractCall(k)' = AbstractCall(k)
  BY DEF OthersKept
<1>1. go'[k] = go[k] /\ frame'[Act(k)] = frame[Act(k)]
  BY GoroutineAlone DEF Spares, Threads
<1> QED BY <1>1, MappedCall, MappedCallPrime

\* So, if g's call looks the same too, all calls do.
LEMMA SameCalls ==
  ASSUME NEW g \in Goroutines, OthersKept(g), AbstractCall(g)' = AbstractCall(g)
  PROVE  MappedCalls' = MappedCalls
<1>1. \A k \in Goroutines : AbstractCall(k)' = AbstractCall(k)
  BY DEF OthersKept
<1> QED BY <1>1 DEF MappedCalls

\* The table is a matter of the registry's variables.
LEMMA RegistryAlone == UNCHANGED registryVars => R!AbstractTable' = R!AbstractTable
BY DEF registryVars, R!AbstractTable, R!Displacing

\* Entering C and returning from it leave the table as it looks.
LEMMA TableStays ==
  ASSUME RP!RefinementInvariant, NEW a \in R!Activations,
         frame[a].pc \in {"idle", "returned"},
         callbacks' = callbacks, guard' = guard,
         \A b \in R!Activations : b # a => frame'[b] = frame[b]
  PROVE  R!AbstractTable' = R!AbstractTable
<1>1. RP!RegistryAssumption
  BY RegistryConstants, SameRegistry
<1>2. RP!StateFacts
  BY <1>1, RP!StateHolds
<1>3. RP!Activations = R!Activations
  BY DEF RP!Activations, R!Activations
<1>4. RP!AbstractTable' = RP!AbstractTable
  BY <1>1, <1>2, <1>3, RP!TableKept
<1> QED BY <1>4, SameTable

\* Two records that look the same in an abstract call.
LEMMA SameLook ==
  ASSUME NEW f, NEW r, NEW f1, NEW r1,
         PhaseOf(f1, r1) = PhaseOf(f, r), PhaseOf(f, r) # "called",
         OutcomeOf(f1, r1) = OutcomeOf(f, r)
  PROVE  CallOf(f1, r1) = CallOf(f, r)
BY DEF CallOf

\* Most of what a call does in Go is not seen;
LEMMA GoSimulated ==
  ASSUME SystemInvariant, NEW g \in Goroutines, UNCHANGED registryVars,
         \/ Begins(g) \/ CheckError(g) \/ CopyPayload(g) \/ FreeResult(g) \/ Decode(g)
         \/ FreeOutput(g) \/ FreeInput(g),
         OthersKept(g)
  PROVE  UNCHANGED Rpc!vars
<1> DEFINE f == go[g]
           f1 == go'[g]
           r == frame[Act(g)]
<1>0. /\ Memory /\ Linked /\ Contents
      /\ ContentOK(heap, f, r) /\ LinkOK(f, r)
  BY DEF SystemInvariant, BridgeInvariant, Contents, Linked
<1>1. frame'[Act(g)] = r
  BY DEF registryVars
<1> HIDE DEF f, f1, r
<1>2. CallOf(f1, r) = CallOf(f, r)
  <2>0. f.pc # "callback" => r.pc = "idle"
    BY <1>0 DEF LinkOK
  <2> SUFFICES /\ PhaseOf(f1, r) = PhaseOf(f, r) /\ PhaseOf(f, r) # "called"
               /\ OutcomeOf(f1, r) = OutcomeOf(f, r)
    BY SameLook
  <2>1. CASE Begins(g)
    <3>1. f.pc = "rest" /\ f1.pc = "invoke" /\ f1.outcome = f.outcome
      BY <1>0, <2>1, BeginFacts DEF Begins, Moves, ContentOK, f, f1
    <3> QED BY <2>0, <3>1 DEF PhaseOf, OutcomeOf
  <2>2. CASE CheckError(g)
    <3>1. /\ f.pc = "check" /\ f1.pc = "free_buf" /\ f.res.error_code # FfiErrorCode.Ok
          /\ f1.outcome = Returned(<<>>, ErrorNamed(f.res.error_code))
      BY <1>0, <2>2, CheckErrorFacts DEF Moves, f, f1
    <3> QED BY <2>0, <3>1 DEF PhaseOf, OutcomeOf, DecidedCode
  <2>3. CASE CopyPayload(g)
    <3>1. /\ f.pc = "check" /\ f1.pc = "free_res" /\ f.res.error_code = FfiErrorCode.Ok
          /\ f1.answer = f.answer /\ f1.res = f.res
      BY <1>0, <2>3, CopyFacts DEF Moves, f, f1
    <3> QED BY <2>0, <3>1 DEF PhaseOf, OutcomeOf, DecidedCode
  <2>4. CASE FreeResult(g)
    <3>1. /\ f.pc = "free_res" /\ f1.pc = "bytes" /\ f.res.error_code = FfiErrorCode.Ok
          /\ f1.answer = f.answer /\ f1.res.error_code = FfiErrorCode.Ok
      BY <1>0, <2>4, FreeResultFacts, RestingFacts DEF Moves, f, f1
    <3> QED BY <2>0, <3>1 DEF PhaseOf, OutcomeOf, DecidedCode
  <2>5. CASE Decode(g)
    <3>1. /\ f.pc = "bytes" /\ f1.pc = "free_result" /\ f.res.error_code = FfiErrorCode.Ok
          /\ f1.outcome = Decoded(AsSlice(heap, f.result))
      BY <1>0, <2>5, DecodeFacts DEF Moves, f, f1
    <3>2. f1.outcome = Decoded(f.answer)
      BY <1>0, <3>1 DEF ContentOK
    <3> QED BY <2>0, <3>1, <3>2 DEF PhaseOf, OutcomeOf, DecidedCode
  <2>6. CASE FreeOutput(g) \/ FreeInput(g)
    <3>1. /\ \/ f.pc = "free_result" /\ f1.pc = "free_buf"
             \/ f.pc = "free_buf" /\ f1.pc = "done"
          /\ f1.outcome = f.outcome
      BY <1>0, <2>6, FreeFacts DEF Moves, f, f1
    <3> QED BY <2>0, <3>1 DEF PhaseOf, OutcomeOf
  <2> QED BY <2>1, <2>2, <2>3, <2>4, <2>5, <2>6
<1>3. AbstractCall(g)' = AbstractCall(g)
  BY <1>1, <1>2, MappedCall, MappedCallPrime DEF f, f1, r
<1>4. MappedCalls' = MappedCalls
  BY <1>3, SameCalls
<1>5. Unseen
  BY <1>4, RegistryAlone DEF Unseen, registryVars
<1> QED BY <1>5, UnseenStutters

\* but its end is the return of the abstract call.
LEMMA RestSimulated ==
  ASSUME SystemInvariant, NEW g \in Goroutines, alive, UNCHANGED registryVars, Rest(g),
         OthersKept(g)
  PROVE  Rpc!Return(g)
<1>0. Memory /\ LinkOK(go[g], frame[Act(g)])
  BY DEF SystemInvariant, BridgeInvariant, Linked
<1>1. /\ go[g].pc = "done" /\ go'[g] = Resting /\ frame'[Act(g)] = frame[Act(g)]
      /\ frame[Act(g)].pc = "idle"
  BY <1>0, RestFacts DEF Moves, registryVars, LinkOK
<1>2. AbstractCall(g).phase = "answered"
  BY <1>1, MappedCall DEF CallOf, PhaseOf
<1>3. AbstractCall(g)' = Rpc!NoCall
  <2>1. /\ PhaseOf(Resting, frame[Act(g)]) = "idle"
        /\ OutcomeOf(Resting, frame[Act(g)]) = Returned(<<>>, "nil")
    BY <1>1, RestingFacts DEF PhaseOf, OutcomeOf, Resting
  <2>2. CallOf(Resting, frame[Act(g)]) = Rpc!NoCall
    BY <2>1, RpcRecords DEF CallOf
  <2> QED BY <1>1, <2>2, MappedCallPrime
<1>4. MappedCalls' = [MappedCalls EXCEPT ![g] = Rpc!NoCall]
  BY <1>3, MappedUpdate
<1>5. MappedCalls[g].phase = "answered"
  BY <1>2 DEF MappedCalls
<1> QED BY <1>4, <1>5, RegistryAlone DEF Rpc!Return, MappedCalls, registryVars

\* Entering C begins the abstract call, and answers it if its name is refused.
LEMMA EnterSimulated ==
  ASSUME SystemInvariant, NEW g \in Goroutines, Enters(g), OthersKept(g)
  PROVE  Rpc!Call(g)
<1> DEFINE f == go[g]
           f1 == go'[g]
           r == frame[Act(g)]
           r1 == frame'[Act(g)]
<1>0. /\ R!TypeOK /\ Memory /\ RP!RefinementInvariant /\ ContentOK(heap, f, r)
      /\ Act(g) \in R!Activations
      /\ EnterC(g) /\ R!FfiInvokeCallback(Act(g))
  BY ActivationFacts DEF SystemInvariant, BridgeInvariant, Contents, Threads, Enters
<1>1. /\ alive /\ UNCHANGED <<callbacks, guard, poisoned, alive>> /\ r.pc = "idle"
      /\ \A b \in R!Activations : b # Act(g) => frame'[b] = frame[b]
      /\ \/ r1.pc = "lock" /\ r1.name \in Names
         \/ r1.pc = "returned" /\ r1.res.val = Code("InvalidUtf8") /\ BadNames # {}
  BY <1>0, InvokeFacts
<1>2. /\ f.pc = "invoke" /\ f1.pc = "callback" /\ f1.request = f.request
      /\ f1.outcome = f.outcome /\ f.request \in Requests
      /\ f.outcome = Returned(<<>>, "nil")
  BY <1>0, EnterFacts DEF Moves, ContentOK, Resting
<1>3. UNCHANGED <<R!AbstractTable, poisoned, alive>>
  BY <1>0, <1>1, TableStays
<1> HIDE DEF f, f1, r, r1
<1>4. CallOf(f, r) = Rpc!NoCall
  BY <1>1, <1>2, RpcRecords DEF CallOf, PhaseOf, OutcomeOf
<1>5. MappedCalls[g] = Rpc!NoCall
  BY <1>4, MappedCall DEF MappedCalls, f, r
<1>6. CASE r1.pc = "lock" /\ r1.name \in Names
  <2> DEFINE new == BeganCall(Rpc!NoCall, "called", r1.name, f.request)
  <2>1. CallOf(f1, r1) = new
    BY <1>2, <1>6, RpcRecords DEF CallOf, PhaseOf, OutcomeOf
  <2>2. MappedCalls' = [MappedCalls EXCEPT ![g] = new]
    BY <2>1, MappedCallPrime, MappedUpdate DEF f1, r1
  <2>3. new = [Rpc!NoCall EXCEPT !.phase = "called", !.name = r1.name,
                                 !.request = f.request]
    BY Zenon DEF BeganCall
  <2>4. \E name \in Names, request \in Requests :
          MappedCalls' = [MappedCalls EXCEPT ![g] =
             [Rpc!NoCall EXCEPT !.phase = "called", !.name = name, !.request = request]]
    BY <1>2, <1>6, <2>2, <2>3, Zenon
  <2> QED BY <1>1, <1>3, <1>5, <2>4 DEF Rpc!Call, MappedCalls
<1>7. CASE r1.pc = "returned" /\ r1.res.val = Code("InvalidUtf8") /\ BadNames # {}
  <2> DEFINE new == Rpc!Answered(Rpc!Failure("ErrInvalidUTF8"))
  <2>1. r1.res.val # FfiErrorCode.Ok
    BY <1>7, OwnCodesFail
  <2>2. OutcomeOf(f1, r1) = Rpc!Failure("ErrInvalidUTF8")
    BY <1>2, <1>7, <2>1, NamedErrors, RpcRecords DEF OutcomeOf, DecidedCode
  <2>3. CallOf(f1, r1) = new
    BY <1>2, <1>7, <2>2, RpcRecords DEF CallOf, PhaseOf
  <2>4. MappedCalls' = [MappedCalls EXCEPT ![g] = new]
    BY <2>3, MappedCallPrime, MappedUpdate DEF f1, r1
  <2> QED BY <1>1, <1>3, <1>5, <1>7, <2>4 DEF Rpc!Call, MappedCalls
<1> QED BY <1>1, <1>6, <1>7

\* The return from C is not seen.
LEMMA ReturnSimulated ==
  ASSUME SystemInvariant, NEW g \in Goroutines, ReturnsToGo(g), OthersKept(g)
  PROVE  UNCHANGED Rpc!vars
<1> DEFINE f == go[g]
           f1 == go'[g]
           r == frame[Act(g)]
           r1 == frame'[Act(g)]
<1>0. /\ R!TypeOK /\ Memory /\ Linked /\ Contents /\ RP!RefinementInvariant
      /\ Act(g) \in R!Activations /\ R!Consume(Act(g))
  BY ActivationFacts DEF SystemInvariant, BridgeInvariant, Threads, ReturnsToGo
<1>1. /\ f.pc = "callback" /\ f1.pc = "check" /\ f1.answer = f.answer
      /\ r.pc = "returned" /\ r1.pc = "idle" /\ f1.res.error_code = r.res.val
  BY <1>0, ReturnFacts DEF Moves
<1>2. UNCHANGED <<callbacks, guard, poisoned, alive>>
  BY <1>0 DEF R!Consume
<1>3. \A b \in R!Activations : b # Act(g) => frame'[b] = frame[b]
  BY <1>0 DEF R!Consume, R!TypeOK
<1>4. R!AbstractTable' = R!AbstractTable
  BY <1>0, <1>1, <1>2, <1>3, TableStays
<1> HIDE DEF f, f1, r, r1
<1>5. CallOf(f1, r1) = CallOf(f, r)
  <2>1. /\ PhaseOf(f1, r1) = PhaseOf(f, r) /\ PhaseOf(f, r) # "called"
        /\ OutcomeOf(f1, r1) = OutcomeOf(f, r)
    BY <1>1 DEF PhaseOf, OutcomeOf, DecidedCode
  <2> QED BY <2>1, SameLook
<1>6. MappedCalls' = MappedCalls
  BY <1>5, MappedCall, MappedCallPrime, SameCalls DEF f, f1, r, r1
<1>7. Unseen
  BY <1>2, <1>4, <1>6 DEF Unseen
<1> QED BY <1>7, UnseenStutters

\* What the registry's answers are, by their numbers.
LEMMA RegistryAnswers ==
  /\ RP!Code("LockPoisoned") = Code("LockPoisoned")
  /\ RP!Code("NotFound") = Code("NotFound") /\ RP!Code("Panic") = Code("Panic")
  /\ \A code : RP!Invoked(code).val \in {FfiErrorCode.Ok, Code("Unknown")}
<1>1. RP!FfiErrorCode = FfiErrorCode
  BY Zenon DEF RP!FfiErrorCode, FfiErrorCode
<1>2. \A v : RP!Code(v) = Code(v)
  BY <1>1, Zenon DEF RP!Code, Code
<1> QED BY <1>1, <1>2 DEF RP!Invoked, RP!Result

\* The answer of the registry is the outcome of the abstract call, at this instant.
LEMMA DecisionSimulated ==
  ASSUME SystemInvariant, SystemInvariant', NEW g \in Goroutines, OthersKept(g),
         alive, alive' = alive, R!AbstractTable' = R!AbstractTable,
         go[g].pc = "callback", frame[Act(g)].pc \in {"lock", "locked", "run"},
         go'[g].pc = "callback", frame'[Act(g)].pc = "returned",
         RP!Answers(R!AbstractTable[frame[Act(g)].name], frame'[Act(g)].res.val),
         frame'[Act(g)].res.val = FfiErrorCode.Ok => go'[g].answer \in Reply[go[g].request]
  PROVE  Rpc!TakeEffect(g)
<1> DEFINE val == frame'[Act(g)].res.val
           name == frame[Act(g)].name
           request == go[g].request
           callback == R!AbstractTable[name]
           outcome == IF val = FfiErrorCode.Ok THEN Decoded(go'[g].answer)
                                               ELSE Returned(<<>>, ErrorNamed(val))
<1>1. /\ AbstractCall(g).phase = "called" /\ AbstractCall(g).name = name
      /\ AbstractCall(g).request = request
  BY MappedCall DEF CallOf, PhaseOf
<1>2. AbstractCall(g)' = Rpc!Answered(outcome)
  <2>1. OutcomeOf(go'[g], frame'[Act(g)]) = outcome
    BY DEF OutcomeOf, DecidedCode
  <2>2. PhaseOf(go'[g], frame'[Act(g)]) = "answered"
    BY DEF PhaseOf
  <2> HIDE DEF outcome
  <2>3. CallOf(go'[g], frame'[Act(g)]) = Rpc!Answered(outcome)
    BY <2>1, <2>2, RpcRecords DEF CallOf
  <2> QED BY <2>3, MappedCallPrime
<1>3. poisoned \in BOOLEAN /\ poisoned' \in BOOLEAN
  BY DEF SystemInvariant, R!TypeOK
<1>4. \/ poisoned /\ poisoned' /\ outcome = Rpc!Failure("ErrLockPoisoned")
      \/ ~poisoned /\ ~poisoned' /\ outcome \in Rpc!Outcomes(callback, request)
      \/ /\ ~poisoned /\ poisoned' /\ callback \in Closures /\ PanicStrategy = "unwind"
         /\ outcome = Rpc!Failure("ErrPanic")
  <2>1. CASE poisoned /\ poisoned' /\ val = RP!Code("LockPoisoned")
    <3>1. val = Code("LockPoisoned") /\ val # FfiErrorCode.Ok
      BY <2>1, RegistryAnswers, OwnCodesFail DEF OwnCodes
    <3>2. outcome = Rpc!Failure("ErrLockPoisoned")
      BY <3>1, NamedErrors, RpcRecords
    <3> QED BY <2>1, <3>2
  <2>2. CASE ~poisoned /\ ~poisoned' /\ callback = None /\ val = RP!Code("NotFound")
    <3>1. val = Code("NotFound") /\ val # FfiErrorCode.Ok
      BY <2>2, RegistryAnswers, OwnCodesFail DEF OwnCodes
    <3>2. outcome = Rpc!Failure("ErrNotFound")
      BY <3>1, NamedErrors, RpcRecords
    <3> QED BY <2>2, <3>2 DEF Rpc!Outcomes
  <2>3. CASE /\ ~poisoned /\ ~poisoned' /\ callback # None
             /\ \E code \in RP!CallbackCodes : val = RP!Invoked(code).val
    <3>1. val \in {FfiErrorCode.Ok, Code("Unknown")}
      BY <2>3, RegistryAnswers
    <3>2. CASE val = FfiErrorCode.Ok
      <4>1. outcome = Rpc!Decoded(go'[g].answer) /\ go'[g].answer \in Reply[request]
        BY <3>2, SameDecoding
      <4> QED BY <2>3, <4>1 DEF Rpc!Outcomes
    <3>3. CASE val = Code("Unknown") /\ val # FfiErrorCode.Ok
      <4>1. outcome = Rpc!Failure("ErrUnknown")
        BY <3>3, NamedErrors, RpcRecords
      <4> QED BY <2>3, <4>1 DEF Rpc!Outcomes
    <3> QED BY <3>1, <3>2, <3>3
  <2>4. CASE /\ ~poisoned /\ poisoned' /\ callback \in Closures
             /\ PanicStrategy = "unwind" /\ val = RP!Code("Panic")
    <3>1. val = Code("Panic") /\ val # FfiErrorCode.Ok
      BY <2>4, RegistryAnswers, OwnCodesFail DEF OwnCodes
    <3>2. outcome = Rpc!Failure("ErrPanic")
      BY <3>1, NamedErrors, RpcRecords
    <3> QED BY <2>4, <3>2
  <2>5. RP!Answers(callback, val)
    OBVIOUS
  <2> HIDE DEF callback, val, outcome
  <2> QED BY <2>1, <2>2, <2>3, <2>4, <2>5 DEF RP!Answers
<1> HIDE DEF outcome
<1>5. MappedCalls' = [MappedCalls EXCEPT ![g] = Rpc!Answered(outcome)]
  BY <1>2, MappedUpdate
<1>6. MappedCalls[g] = AbstractCall(g)
  BY DEF MappedCalls
<1> HIDE DEF name, request
<1>7. /\ alive /\ MappedCalls[g].phase = "called"
      /\ callback = R!AbstractTable[MappedCalls[g].name]
      /\ request = MappedCalls[g].request
      /\ UNCHANGED <<R!AbstractTable, alive>>
  BY <1>1, <1>6
<1> HIDE DEF callback
<1> QED BY <1>3, <1>4, <1>5, <1>7 DEF Rpc!TakeEffect, MappedCalls

\* What a thread of the registry that is in an invocation does there.
LEMMA InvocationStep ==
  ASSUME SystemInvariant, NEW g \in Goroutines, RP!StepOf(Act(g)),
         frame[Act(g)].pc \in {"lock", "locked", "run"}
  PROVE  /\ R!AbstractTable' = R!AbstractTable
         /\ \/ UNCHANGED <<poisoned, alive>> /\ frame'[Act(g)].pc # "returned"
            \/ alive /\ ~alive' /\ UNCHANGED poisoned /\ frame'[Act(g)].pc # "returned"
            \/ /\ alive /\ alive' = alive
               /\ frame'[Act(g)].pc = "returned"
               /\ RP!Answers(R!AbstractTable[frame[Act(g)].name], frame'[Act(g)].res.val)
<1> DEFINE a == Act(g)
<1>1. /\ RP!RegistryAssumption /\ RP!RefinementInvariant
      /\ frame[a].op = "ffi_invoke_callback"
  BY RegistryConstants, SameRegistry DEF SystemInvariant, Roles
<1>2. a \in RP!Activations
  BY DEF RP!Activations, Act, Threads
<1> HIDE DEF a
<1>3. RP!StepOf(a) /\ frame[a].pc \in {"lock", "locked", "run"}
  BY DEF a
<1>4. /\ RP!AbstractTable' = RP!AbstractTable
      /\ \/ UNCHANGED <<poisoned, alive>> /\ frame'[a].pc # "returned"
         \/ alive /\ ~alive' /\ UNCHANGED poisoned /\ frame'[a].pc # "returned"
         \/ /\ alive /\ alive' = alive
            /\ frame'[a].pc = "returned"
            /\ RP!Answers(RP!AbstractTable[frame[a].name], frame'[a].res.val)
  BY <1>1, <1>2, <1>3, RP!InvocationAppears
<1> QED BY <1>4, SameTable DEF a

\* Waiting for the mutex, the lookup and a panic.
LEMMA LockSimulated ==
  ASSUME SystemInvariant, SystemInvariant', NEW g \in Goroutines, Locks(g),
         RP!StepOf(Act(g)), OthersKept(g)
  PROVE  Rpc!Next \/ UNCHANGED Rpc!vars
<1> DEFINE f == go[g]
           r == frame[Act(g)]
           r1 == frame'[Act(g)]
<1>0. /\ R!TypeOK /\ LinkOK(f, r) /\ Act(g) \in R!Activations /\ go' = go
      /\ R!Lock(Act(g)) \/ R!Lookup(Act(g)) \/ R!CallbackPanics(Act(g))
  BY ActivationFacts DEF SystemInvariant, BridgeInvariant, Linked, Threads, Locks, goVars
<1>1. r.op = "ffi_invoke_callback"
  <2>1. r.pc # "idle"
    BY <1>0, InvocationSteps
  <2> QED BY <2>1 DEF SystemInvariant, Roles
<1>2. /\ r.pc \in {"lock", "locked", "run"} /\ r1.name = r.name
      /\ \/ r1.pc \in {"lock", "locked", "run"}
         \/ r1.pc = "returned" /\ r1.res.val \in OwnCodes
  BY <1>0, <1>1, LockFacts
<1>3. f.pc = "callback"
  BY <1>0, <1>2 DEF LinkOK
<1>4. ASSUME r1.pc # "returned"
      PROVE  MappedCalls' = MappedCalls
  <2> HIDE DEF f, r, r1
  <2>1. CallOf(f, r1) = CallOf(f, r)
    BY <1>2, <1>3, <1>4 DEF CallOf, PhaseOf, OutcomeOf
  <2> QED BY <1>0, <2>1, MappedCall, MappedCallPrime, SameCalls DEF f, r, r1
<1>5. CASE UNCHANGED <<R!AbstractTable, poisoned, alive>> /\ r1.pc # "returned"
  BY <1>4, <1>5, UnseenStutters DEF Unseen
<1>6. CASE /\ alive /\ ~alive' /\ UNCHANGED <<R!AbstractTable, poisoned>>
           /\ r1.pc # "returned"
  <2>1. alive' = FALSE
    BY <1>6 DEF SystemInvariant, R!TypeOK
  <2> QED BY <1>4, <1>6, <2>1 DEF Rpc!Crash, Rpc!Next, MappedCalls
<1>7. CASE /\ alive /\ alive' = alive /\ R!AbstractTable' = R!AbstractTable
           /\ r1.pc = "returned"
           /\ RP!Answers(R!AbstractTable[r.name], r1.res.val)
  <2>1. r1.res.val # FfiErrorCode.Ok
    BY <1>2, <1>7, OwnCodesFail
  <2>2. Rpc!TakeEffect(g)
    BY <1>0, <1>2, <1>3, <1>7, <2>1, DecisionSimulated
  <2> QED BY <2>2 DEF Rpc!Next
<1> QED BY <1>2, <1>5, <1>6, <1>7, InvocationStep

\* The answer of the callback, to the request of its own call.
LEMMA AnswerSimulated ==
  ASSUME SystemInvariant, SystemInvariant', NEW g \in Goroutines,
         AnswersCopy(g) \/ AnswersAlias(g) \/ AnswersUndecodable(g) \/ AnswersError(g),
         RP!StepOf(Act(g)), OthersKept(g)
  PROVE  Rpc!TakeEffect(g)
<1> DEFINE f == go[g]
           f1 == go'[g]
           r == frame[Act(g)]
           r1 == frame'[Act(g)]
<1>0. R!TypeOK /\ Memory /\ LinkOK(f, r) /\ ContentOK(heap, f, r)
  BY DEF SystemInvariant, BridgeInvariant, Linked, Contents
<1>1. ASSUME NEW code, Returns(g, code), f1.pc = f.pc,
             code = FfiErrorCode.Ok => f1.answer \in Reply[f.request],
             code # FfiErrorCode.Ok => code = FfiErrorCode.Unknown
      PROVE  Rpc!TakeEffect(g)
  <2>1. /\ r.pc = "run" /\ r1.pc = "returned"
        /\ r1.res.val = IF code = FfiErrorCode.Ok THEN FfiErrorCode.Ok ELSE Code("Unknown")
    BY <1>0, <1>1, CallbackFacts
  <2>2. f.pc = "callback"
    BY <1>0, <2>1 DEF LinkOK
  <2>3. r1.res.val = FfiErrorCode.Ok => f1.answer \in Reply[f.request]
    BY <1>1, <2>1, OwnCodesFail
  <2>4. /\ R!AbstractTable' = R!AbstractTable /\ alive /\ alive' = alive
        /\ RP!Answers(R!AbstractTable[r.name], r1.res.val)
    BY <2>1, InvocationStep
  <2> QED BY <1>1, <2>1, <2>2, <2>3, <2>4, DecisionSimulated
<1>2. ASSUME NEW bytes, NEW out, Succeeds(g, bytes, out), bytes \in Reply[f.request]
      PROVE  Rpc!TakeEffect(g)
  <2>1. Returns(g, FfiErrorCode.Ok)
    BY <1>2 DEF Succeeds
  <2>2. f1.pc = f.pc /\ f1.answer = bytes
    BY <1>0, <1>2, SucceedFacts
  <2> HIDE DEF f, f1
  <2> QED BY <1>1, <1>2, <2>1, <2>2
<1>3. ASSUME f.pc = "callback"
      PROVE  /\ f.request \in Requests /\ AsSlice(heap, f.buf) = f.request
             /\ "copy" \in Answers \/ "alias" \in Answers => f.request \in Reply[f.request]
             /\ Undecodable \subseteq Reply[f.request]
  BY <1>0, <1>3 DEF ContentOK, Reply
<1>4. f.pc = "callback"
  <2>1. PICK code : Returns(g, code)
    BY DEF AnswersCopy, AnswersAlias, AnswersUndecodable, AnswersError, Succeeds
  <2> QED BY <1>0, <2>1, CallbackFacts DEF LinkOK
<1>5. CASE AnswersCopy(g)
  BY <1>2, <1>3, <1>4, <1>5 DEF AnswersCopy
<1>6. CASE AnswersAlias(g)
  BY <1>2, <1>3, <1>4, <1>6 DEF AnswersAlias
<1>7. CASE AnswersUndecodable(g)
  BY <1>2, <1>3, <1>4, <1>7 DEF AnswersUndecodable
<1>8. CASE AnswersError(g)
  <2>1. Returns(g, FfiErrorCode.Unknown) /\ f1.pc = f.pc
    BY <1>8 DEF AnswersError
  <2>2. FfiErrorCode.Unknown # FfiErrorCode.Ok
    BY DEF FfiErrorCode
  <2> QED BY <1>1, <2>1, <2>2
<1> QED BY <1>5, <1>6, <1>7, <1>8

\* Every step of a call.
LEMMA CallSimulated ==
  ASSUME SystemInvariant, SystemInvariant', NEW g \in Goroutines, Begins(g) \/ Proceeds(g)
  PROVE  Rpc!Next \/ UNCHANGED Rpc!vars
<1>1. R!TypeOK /\ Memory /\ Linked
  BY DEF SystemInvariant, BridgeInvariant
<1>2. OthersKept(g)
  BY <1>1, OtherCalls
<1>3. CASE Begins(g)
  BY <1>2, <1>3, GoSimulated DEF Begins
<1>4. CASE alive /\ GoSteps(g) /\ UNCHANGED <<registryVars, budget>>
  BY <1>2, <1>4, GoSimulated, RestSimulated DEF GoSteps, Rpc!Next
<1>5. CASE Enters(g)
  BY <1>2, <1>5, EnterSimulated DEF Rpc!Next
<1>6. CASE ReturnsToGo(g)
  BY <1>2, <1>6, ReturnSimulated
<1>7. ASSUME Locks(g) \/ AnswersCopy(g) \/ AnswersAlias(g) \/ AnswersUndecodable(g)
                \/ AnswersError(g)
      PROVE  RP!StepOf(Act(g))
  <2>1. \/ R!Lock(Act(g)) \/ R!Lookup(Act(g)) \/ R!CallbackPanics(Act(g))
        \/ R!CallbackReturns(Act(g))
    BY <1>7 DEF Locks, AnswersCopy, AnswersAlias, AnswersUndecodable, AnswersError,
       Succeeds, Returns
  <2> QED BY <2>1, SameRegistry DEF R!RegistrySteps, R!UserSteps
<1>8. CASE Locks(g)
  BY <1>2, <1>7, <1>8, LockSimulated
<1>9. CASE AnswersCopy(g) \/ AnswersAlias(g) \/ AnswersUndecodable(g) \/ AnswersError(g)
  BY <1>2, <1>7, <1>9, AnswerSimulated DEF Rpc!Next
<1> QED BY <1>3, <1>4, <1>5, <1>6, <1>8, <1>9 DEF Proceeds

\* Every step of a Rust thread registers, removes, crashes, or is not seen.
LEMMA RustSimulated ==
  ASSUME SystemInvariant, SystemInvariant', NEW t \in RustThreads,
         Administers(t) \/ Continues(t)
  PROVE  Rpc!Next \/ UNCHANGED Rpc!vars
<1> DEFINE a == Act(t)
<1>1. /\ RP!RegistryAssumption /\ RP!RefinementInvariant /\ R!TypeOK
      /\ frame[a].op # "ffi_invoke_callback"
  BY RegistryConstants, SameRegistry DEF SystemInvariant, Roles
<1>2. /\ go' = go /\ RP!StepOf(a)
      /\ \A u \in Threads : u # t => frame'[Act(u)] = frame[Act(u)]
  BY <1>1, RustAlone
<1>3. MappedCalls' = MappedCalls
  <2>1. \A g \in Goroutines : g # t
    BY BridgeAssumption DEF BridgeAssumption
  <2>2. ASSUME NEW g \in Goroutines
        PROVE  AbstractCall(g)' = AbstractCall(g)
    <3>1. frame'[Act(g)] = frame[Act(g)]
      BY <1>2, <2>1 DEF Threads
    <3> QED BY <1>2, <3>1, MappedCall, MappedCallPrime
  <2> QED BY <2>2 DEF MappedCalls
<1>4. a \in RP!Activations
  BY DEF RP!Activations, Act, Threads
<1> HIDE DEF a
<1>5. \/ UNCHANGED <<RP!AbstractTable, poisoned, alive>>
      \/ alive /\ ~alive' /\ UNCHANGED <<RP!AbstractTable, poisoned>>
      \/ alive /\ alive' = alive /\ ~poisoned /\ RP!Administered
  BY <1>1, <1>2, <1>4, RP!AdministrationAppears
<1>6. CASE UNCHANGED <<RP!AbstractTable, poisoned, alive>>
  BY <1>3, <1>6, SameTable, UnseenStutters DEF Unseen
<1>7. CASE alive /\ ~alive' /\ UNCHANGED <<RP!AbstractTable, poisoned>>
  <2>1. alive' = FALSE
    BY <1>7 DEF SystemInvariant, R!TypeOK
  <2> QED BY <1>3, <1>7, <2>1, SameTable DEF Rpc!Crash, Rpc!Next, MappedCalls
<1>8. CASE alive /\ alive' = alive /\ ~poisoned /\ RP!Administered
  <2>1. \E name \in Names, c \in Closures \cup CFunctions \cup {None} :
          /\ R!AbstractTable' = [R!AbstractTable EXCEPT ![name] = c]
          /\ \/ UNCHANGED poisoned
             \/ /\ R!AbstractTable[name] \in Closures /\ PanicStrategy = "unwind"
                /\ poisoned' = TRUE
    BY <1>8, SameTable DEF RP!Administered, RP!Callbacks
  <2> QED BY <1>3, <1>8, <2>1 DEF Rpc!Administer, Rpc!Next, MappedCalls
<1> QED BY <1>5, <1>6, <1>7, <1>8

\* Every step of the system.
LEMMA SystemSimulated ==
  ASSUME SystemInvariant, SystemInvariant', [Next]_vars
  PROVE  [Rpc!Next]_(Rpc!vars)
<1>1. CASE Finished \/ UNCHANGED vars
  <2>1. go' = go /\ UNCHANGED registryVars
    BY <1>1 DEF Finished, vars, goVars
  <2>2. ASSUME NEW g \in Goroutines
        PROVE  AbstractCall(g)' = AbstractCall(g)
    BY <2>1, MappedCall, MappedCallPrime DEF registryVars
  <2>3. MappedCalls' = MappedCalls
    BY <2>2 DEF MappedCalls
  <2> QED BY <2>1, <2>3, RegistryAlone, UnseenStutters DEF Unseen, registryVars
<1> QED BY <1>1, CallSimulated, RustSimulated DEF Next

\* At the beginning no name has a callback and no call is in progress.
LEMMA InitSimulated == Init => Rpc!Init
<1> SUFFICES ASSUME Init PROVE Rpc!Init
  OBVIOUS
<1>1. /\ go = [g \in Goroutines |-> Resting] /\ R!Init
      /\ \A g \in Goroutines : Act(g) \in R!Activations
  BY ActivationFacts DEF Init, GoInit, Threads
<1>2. /\ callbacks = [n \in Names |-> None] /\ guard = NoGuard /\ poisoned = FALSE
      /\ alive = TRUE /\ \A g \in Goroutines : frame[Act(g)].pc = "idle"
  BY <1>1 DEF R!Init, R!Idle
<1>3. R!AbstractTable = [n \in Names |-> None]
  BY <1>2 DEF R!AbstractTable, R!Displacing
<1>4. ASSUME NEW g \in Goroutines
      PROVE  AbstractCall(g) = Rpc!NoCall
  <2>1. go[g] = Resting /\ frame[Act(g)].pc = "idle"
    BY <1>1, <1>2
  <2>2. /\ PhaseOf(Resting, frame[Act(g)]) = "idle"
        /\ OutcomeOf(Resting, frame[Act(g)]) = Returned(<<>>, "nil")
    BY <2>1, RestingFacts DEF PhaseOf, OutcomeOf, Resting
  <2>3. CallOf(Resting, frame[Act(g)]) = Rpc!NoCall
    BY <2>2, RpcRecords DEF CallOf
  <2> QED BY <2>1, <2>3, MappedCall
<1>5. MappedCalls = [g \in Goroutines |-> Rpc!NoCall]
  BY <1>4 DEF MappedCalls
<1> QED BY <1>2, <1>3, <1>5 DEF Rpc!Init, MappedCalls

\* InvokeCallbackJSON (callback.go) is one indivisible invocation: its response
\* is the answer, to its own request, of the callback that was registered at one
\* instant of the call, and its error says what happened at that instant, for
\* any number of goroutines, Rust threads and blocks, although the call takes
\* the mutex, runs user code and copies its bytes through blocks that others
\* use before and after.
THEOREM CallsAreAtomic == Spec => Atomic
<1>1. SystemInvariant /\ SystemInvariant' /\ [Next]_vars => [Rpc!Next]_(Rpc!vars)
  BY SystemSimulated
<1> QED BY <1>1, InitSimulated, SystemInvariantHolds, PTL DEF Spec, Atomic, Rpc!Spec
=============================================================================
