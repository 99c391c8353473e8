------------------------------- MODULE GoBridge -------------------------------
(***************************************************************************)
(* The Go side of a call: InvokeCallbackJSON with the InvokeCallback and   *)
(* the CheckResult inside it (go/callback.go, go/errors.go), a goroutine   *)
(* at a time, one action per call into C.  Its two Buffers are local and   *)
(* freed by deferred calls, so they are only their FfiBuffers here; for    *)
(* Buffers that are shared or left to the collector see GoBuffer.          *)
(*                                                                         *)
(* Bridge composes these actions with those of the registry.               *)
(***************************************************************************)
EXTENDS FfiMemory

CONSTANTS
  Goroutines,
  Requests   \* the requests, serialized; <<>> is a nil input

ASSUME GoAssumption == Requests \subseteq Strings

VARIABLES
  heap, corrupted,  \* as in AbiClient
  go,               \* the local variables of each goroutine
  abandoned         \* history: the blocks that the two known leaks lose

goVars == <<heap, corrupted, go, abandoned>>

-----------------------------------------------------------------------------
(***************************************************************************)
(* type ErrorCode, and the errors that InvokeCallbackJSON returns.         *)
(***************************************************************************)

ErrorCode ==
  [ErrNullPointer |-> 1, ErrBufferTooSmall |-> 2, ErrInvalidUTF8 |-> 3,
   ErrSerialization |-> 4, ErrPanic |-> 5, ErrTimeout |-> 6,
   ErrNotFound |-> 7, ErrLockPoisoned |-> 8, ErrUnknown |-> 99]

\* The error a Go program sees for a code.
ErrorNamed(code) == CHOOSE e \in DOMAIN ErrorCode : ErrorCode[e] = code

\* What InvokeCallbackJSON returns: the response in `resp`, and the error.
Returned(response, error) == [response |-> response, error |-> error]

Decoded(bytes) ==
  IF Decodes(bytes) THEN Returned(bytes, "nil")
    ELSE Returned(<<>>, IF bytes = <<>> THEN "empty response"
                                        ELSE "deserialize response")

\* What a goroutine has in hand: its request and the Buffer `buf` made of it,
\* the result of the C function, the Buffer `result` that CheckResult made, and
\* the outcome it will return.  `answer` is history: what the callback answered.
Resting == [pc |-> "rest", request |-> <<>>, buf |-> NullBuffer,
            res |-> ResultOk(NullBuffer), result |-> NullBuffer,
            outcome |-> Returned(<<>>, "nil"), answer |-> <<>>]

Step(g, from, frame) ==
  /\ go[g].pc = from
  /\ go' = [go EXCEPT ![g] = frame]

-----------------------------------------------------------------------------
(***************************************************************************)
(* Before the call.                                                        *)
(***************************************************************************)

\* FromJSON(req): marshal and FromBytes.  A request that does not marshal is an
\* error at once, before the call has touched anything: it is no step.
Begin(g) ==
  \E request \in Requests, b \in Available(heap) :
    LET out == FromBytes(heap, b, request) IN
    /\ heap' = out.heap
    /\ Step(g, "rest", [Resting EXCEPT !.pc = "invoke", !.request = request,
                                       !.buf = out.val])
    /\ UNCHANGED <<corrupted, abandoned>>

\* Variation: the request is freed before the call instead of after it.
EnterCAndFree(g) ==
  LET out == BufferDealloc(heap, go[g].buf) IN
  /\ Step(g, "invoke", [go[g] EXCEPT !.pc = "callback"])
  /\ heap' = out.heap
  /\ UNCHANGED <<corrupted, abandoned>>

\* C.ffi_invoke_callback(cname, input.raw()).
EnterC(g) ==
  /\ Step(g, "invoke", [go[g] EXCEPT !.pc = "callback"])
  /\ UNCHANGED <<heap, corrupted, abandoned>>

-----------------------------------------------------------------------------
(***************************************************************************)
(* CheckResult.                                                            *)
(***************************************************************************)

\* Variation: on an error the result is not freed.
CheckErrorOnly(g) ==
  LET res == go[g].res IN
  /\ res.error_code # FfiErrorCode.Ok
  /\ Step(g, "check", [go[g] EXCEPT !.pc = "free_buf", !.res = Resting.res,
                                    !.outcome = Returned(<<>>, ErrorNamed(res.error_code))])
  /\ UNCHANGED <<heap, corrupted, abandoned>>

\* On an error the message is copied and the result freed.
CheckError(g) ==
  LET res == go[g].res
      out == ResultFree(heap, res)
  IN
  /\ res.error_code # FfiErrorCode.Ok
  /\ heap' = out.heap
  /\ corrupted' = (corrupted \/ ~Readable(heap, AsStr(res.error_message)) \/ ~out.ok)
  /\ Step(g, "check", [go[g] EXCEPT !.pc = "free_buf", !.res = Resting.res,
                                    !.outcome = Returned(<<>>, ErrorNamed(res.error_code))])
  /\ UNCHANGED abandoned

\* On success: copyBuffer(result.payload).
CopyPayload(g) ==
  LET res == go[g].res IN
  /\ res.error_code = FfiErrorCode.Ok
  /\ \E b \in Available(heap) :
       LET out == FromBytes(heap, b, AsSlice(heap, res.payload)) IN
       /\ heap' = out.heap
       /\ Step(g, "check", [go[g] EXCEPT !.pc = "free_res", !.result = out.val])
  /\ corrupted' = (corrupted \/ ~Readable(heap, res.payload))
  /\ UNCHANGED abandoned

\* Variation: the payload is not zeroed before ffi_result_free.
FreeWholeResult(g) ==
  LET out == ResultFree(heap, go[g].res) IN
  /\ heap' = out.heap
  /\ corrupted' = (corrupted \/ ~out.ok)
  /\ Step(g, "free_res", [go[g] EXCEPT !.pc = "bytes", !.res = Resting.res])
  /\ UNCHANGED abandoned

\* The payload is zeroed, so that ffi_result_free finds only the empty message.
\* It is lost, unless the callback answered with the input, which is freed yet.
FreeResult(g) ==
  LET res == go[g].res
      out == ResultFree(heap, [res EXCEPT !.payload = NullBuffer])
  IN
  /\ heap' = out.heap
  /\ corrupted' = (corrupted \/ ~out.ok)
  /\ abandoned' = abandoned \cup
       ((Blocks \cap {res.payload.data}) \ {go[g].buf.data})
  /\ Step(g, "free_res", [go[g] EXCEPT !.pc = "bytes", !.res = Resting.res])

-----------------------------------------------------------------------------
(***************************************************************************)
(* After the call.                                                         *)
(***************************************************************************)

\* Variation: the error of json.Unmarshal is not looked at.
DecodeUnchecked(g) ==
  LET bytes == AsSlice(heap, go[g].result) IN
  /\ corrupted' = (corrupted \/ ~Readable(heap, go[g].result))
  /\ Step(g, "bytes", [go[g] EXCEPT !.pc = "free_result",
                                    !.outcome = Returned(bytes, "nil")])
  /\ UNCHANGED <<heap, abandoned>>

\* result.Bytes() and json.Unmarshal, each with an error of its own.
Decode(g) ==
  LET bytes == AsSlice(heap, go[g].result) IN
  /\ corrupted' = (corrupted \/ ~Readable(heap, go[g].result))
  /\ Step(g, "bytes", [go[g] EXCEPT !.pc = "free_result",
                                    !.outcome = Decoded(bytes)])
  /\ UNCHANGED <<heap, abandoned>>

\* The deferred calls of Free, the last one first.
Free(buf) ==
  LET out == BufferDealloc(heap, buf) IN
  /\ heap' = out.heap
  /\ corrupted' = (corrupted \/ ~out.ok)
  /\ UNCHANGED abandoned

FreeOutput(g) ==
  /\ Step(g, "free_result", [go[g] EXCEPT !.pc = "free_buf",
                                          !.result = NullBuffer])
  /\ Free(go[g].result)

FreeInput(g) ==
  /\ Step(g, "free_buf", [go[g] EXCEPT !.pc = "done", !.buf = NullBuffer])
  /\ Free(go[g].buf)

\* The caller has the response or the error.
Rest(g) ==
  /\ Step(g, "done", Resting)
  /\ UNCHANGED <<heap, corrupted, abandoned>>

-----------------------------------------------------------------------------
GoInit ==
  /\ heap = [b \in Blocks |-> Unallocated]
  /\ corrupted = FALSE
  /\ go = [g \in Goroutines |-> Resting]
  /\ abandoned = {}

\* The steps of a call that has begun, without the C function itself.
GoSteps(g) ==
  \/ CheckError(g) \/ CopyPayload(g) \/ FreeResult(g) \/ Decode(g)
  \/ FreeOutput(g) \/ FreeInput(g) \/ Rest(g)

-----------------------------------------------------------------------------
Buffers == [data : Blocks \cup {Null, Dangling}, len : 0 .. MaxSize,
            capacity : 0 .. MaxSize]

\* The type of this side's variables.
GoTypeOK ==
  /\ heap \in [Blocks -> [live : BOOLEAN, size : 0 .. MaxSize, bytes : Strings]]
  /\ corrupted \in BOOLEAN
  /\ DOMAIN go = Goroutines
  /\ \A g \in Goroutines :
       /\ {go[g].buf, go[g].result, go[g].res.payload} \subseteq Buffers
       /\ {go[g].request, go[g].outcome.response, go[g].answer} \subseteq Strings
       /\ IsUtf8(go[g].outcome.response)
       /\ go[g].outcome.error \in DOMAIN ErrorCode
                \cup {"nil", "empty response", "deserialize response"}
  /\ abandoned \subseteq Blocks

\* Who will free block b: a deferred call, or CheckResult.
Owned(b) ==
  \E g \in Goroutines :
    b \in {go[g].buf.data, go[g].result.data,
           go[g].res.error_message.data, go[g].res.payload.data}
=============================================================================
