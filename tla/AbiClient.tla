------------------------------ MODULE AbiClient ------------------------------
(***************************************************************************)
(* A program that calls the exported functions, over Rust's heap: from C,  *)
(* or from Rust, where it has BridgeValue too.  It frees each value it was *)
(* given with the matching function, once, and when it extracts the        *)
(* payload of a result it zeroes the result's own copy first.              *)
(*                                                                         *)
(* A buffer is passed by value, and ffi.h does not say who has it after a  *)
(* call.  The functions of the crate leave it to the caller.  A callback   *)
(* may leave it, answer with it, or free it, so the caller must know which *)
(* callback it invokes.  Three rules are what then keeps the heap sound:   *)
(*   "keep_left"  a buffer that the callback has left is still freed       *)
(*   "give_up_taken"  one that it has answered with or freed is not        *)
(*   "free_last"  no buffer is passed to a callback after it was freed     *)
(* The program keeps the rules in Rules.                                   *)
(***************************************************************************)
EXTENDS FfiMemory

CONSTANTS
  Slots,          \* the values the program can hold at the same time
  CallbackKinds,  \* what registered callbacks do: a subset of AllKinds
  Rules,          \* the rules that the program keeps
  AllocMayFail    \* may the global allocator return null?

AllKinds ==
  {"answer", "return_input", "free_input", "message", "panic", "fail",
   "fail_with_payload"}

RuleNames == {"keep_left", "give_up_taken", "free_last"}

ASSUME AbiAssumption ==
  /\ CallbackKinds \subseteq AllKinds
  /\ Rules \subseteq RuleNames
  /\ AllocMayFail \in BOOLEAN

VARIABLES
  heap,       \* the global allocator's blocks
  held,       \* what the program holds
  corrupted,  \* an access or a deallocation was undefined
  alive,      \* FALSE once the process has aborted
  dropped     \* history: the blocks of values that went out of scope in
              \* Rust code, which frees none of them

vars == <<heap, held, corrupted, alive, dropped>>

\* Every value the program holds is written as a result: a buffer and a
\* BridgeValue ("value") as its payload, a string as its message.
Holding(kind, value) == [kind |-> kind, value |-> value]

AsBuffer(buf) == Holding("buffer", ResultOk(buf))
AsString(str) ==
  Holding("string", [ResultOk(NullBuffer) EXCEPT !.error_message = str])
AsResult(res) == Holding("result", res)

Nothing == Holding("none", ResultOk(NullBuffer))

Input(s) == held[s].value.payload

\* A step that stores what it returns in the free slot t, next to what the
\* program still has.
ReceiveNextTo(has, t, h, holding) ==
  /\ alive
  /\ has[t] = Nothing
  /\ heap' = h
  /\ held' = [has EXCEPT ![t] = holding]
  /\ UNCHANGED alive

Receive(t, h, holding) == ReceiveNextTo(held, t, h, holding)

-----------------------------------------------------------------------------
(***************************************************************************)
(* What the program has, or believes to have, of the buffer in slot s: the *)
(* first way keeps the rule, the second does not.                          *)
(***************************************************************************)
Without(s) == [held EXCEPT ![s] = Nothing]

\* A callback has left the buffer to its caller.  One that moves it into the
\* call, as Rust code does, has lost it.
Left(s) == {held} \cup {Without(s) : rule \in {"keep_left"} \ Rules}

\* A callback has answered with the buffer, or has freed it.
Taken(s) == {Without(s)} \cup {held : rule \in {"give_up_taken"} \ Rules}

\* The program itself has freed it.  It may keep the fields for a call.
Freed(s) ==
  {Without(s)}
  \cup {[held EXCEPT ![s].kind = "freed"] : rule \in {"free_last"} \ Rules}

-----------------------------------------------------------------------------
(***************************************************************************)
(* Exported functions that create a value.                                 *)
(***************************************************************************)

\* ffi_buffer_alloc(capacity).
BufferAlloc(t) ==
  \E capacity \in 0 .. MaxSize, b \in Available(heap) :
    LET out == BufferNew(heap, b, capacity)
    IN  Receive(t, out.heap, AsBuffer(out.val)) /\ UNCHANGED corrupted

\* The allocator has no memory.  FfiBuffer::new and FfiString::new panic, in
\* FfiResult::err after catch_unwind, and Vec aborts; no panic leaves an
\* extern "C" function, and the process ends with all it has.
OutOfMemory ==
  /\ AllocMayFail
  /\ alive
  /\ alive' = FALSE
  /\ heap' = [b \in Blocks |-> Unallocated]
  /\ held' = [s \in Slots |-> Nothing]
  /\ dropped' = {}
  /\ UNCHANGED corrupted

\* Variation: the bytes are not checked.
StringAllocUnchecked(t) ==
  \E bytes \in Strings, b \in Available(heap) :
    LET out == StringNew(heap, b, bytes)
    IN  Receive(t, out.heap, AsString(out.val)) /\ UNCHANGED corrupted

\* ffi_string_alloc(str, len): null for an empty string or one that is not
\* UTF-8.
StringAlloc(t) ==
  \E bytes \in Strings, b \in Available(heap) :
    LET out == IF IsUtf8(bytes) THEN StringNew(heap, b, bytes)
                                ELSE [heap |-> heap, val |-> NullString]
    IN  Receive(t, out.heap, AsString(out.val)) /\ UNCHANGED corrupted

\* FfiBuffer::from_vec(bytes), held as `kind`.
FromVec(t, kind, bytes) ==
  \E b \in Available(heap), capacity \in Shrunk(bytes) :
    LET out == BufferFromVec(heap, b, bytes, capacity)
    IN  Receive(t, out.heap, Holding(kind, ResultOk(out.val)))

\* ffi_version().
Version(t) == FromVec(t, "buffer", Message) /\ UNCHANGED corrupted

\* FfiBuffer::from_json, and BridgeValue::new, which wraps it.
FromJson(t, kind) ==
  (\E bytes \in Encodings : FromVec(t, kind, bytes)) /\ UNCHANGED corrupted

\* The result of catch_panic around a closure that fails with `error`, or
\* panics (error = "Panic"), in heap h.
FailNextTo(has, t, h, error) ==
  \E b \in Available(h) :
    LET out == ResultErr(h, b, error)
    IN  ReceiveNextTo(has, t, out.heap, AsResult(out.val))

Fail(t, error) == FailNextTo(held, t, heap, error)

\* The result of catch_panic around a closure that returns `bytes`.
Succeed(t, bytes) == FromVec(t, "result", bytes)

\* The result of catch_panic around a closure that returns, in heap h, a buffer
\* it has made: with room only, or of some bytes.
AnswerNextTo(has, t, h) ==
  \E b \in Available(h) :
    LET Ok(out) == ReceiveNextTo(has, t, out.heap, AsResult(ResultOk(out.val)))
    IN  \/ \E capacity \in 0 .. MaxSize : Ok(BufferNew(h, b, capacity))
        \/ \E bytes \in Strings : \E capacity \in Shrunk(bytes) :
             Ok(BufferFromVec(h, b, bytes, capacity))

\* A call on the held buffer s reads it; a bad buffer is undefined behaviour.
Reads(s) ==
  /\ held[s].kind = "buffer"
  /\ corrupted' = (corrupted \/ ~Readable(heap, Input(s)))

\* Variation: the input itself is returned as the payload.
EchoAlias(s, t) ==
  Reads(s) /\ Receive(t, heap, AsResult(ResultOk(Input(s))))

\* ffi_echo(input).
Echo(s, t) == Reads(s) /\ Succeed(t, AsSlice(heap, Input(s)))

\* A function made with BridgeCall::run: the handler, which gets a reference,
\* returns a buffer of its own or an error, or panics.
BridgeCallRun(s, t) ==
  /\ Reads(s)
  /\ \/ AnswerNextTo(held, t, heap)
     \/ \E error \in ErrorVariants : Fail(t, error)

\* BridgeCall::run_json: the handler is called only with what to_json has
\* decoded; what it returns is encoded.
BridgeCallRunJson(s, t) ==
  /\ Reads(s)
  /\ \/ Fail(t, "Serialization")
     \/ /\ Decodes(AsSlice(heap, Input(s)))
        /\ \/ \E bytes \in Encodings : Succeed(t, bytes)
           \/ \E error \in ErrorVariants : Fail(t, error)

-----------------------------------------------------------------------------
(***************************************************************************)
(* ffi_invoke_callback.                                                    *)
(***************************************************************************)
Passes(s) == held[s].kind \in {"buffer", "freed"}

\* The name is refused, not found, or the registry is poisoned.
InvokeRefused(s, t) ==
  /\ Passes(s)
  /\ \E error \in {"NullPointer", "InvalidUtf8", "NotFound", "LockPoisoned"} :
       \E has \in Left(s) : FailNextTo(has, t, heap, error)
  /\ UNCHANGED corrupted

\* How a callback can leave its input behind: untouched, or freed; with the
\* heap, and what the caller then has.
Treatments(s) ==
  LET out == BufferDealloc(heap, Input(s)) IN
  {[heap |-> heap, ok |-> TRUE, has |-> has] : has \in Left(s)}
  \cup {[heap |-> out.heap, ok |-> out.ok, has |-> has] :
          has \in {has \in Taken(s) : "free_input" \in CallbackKinds}}

\* The callback runs: it reads its input, and then treats it as `in` says.
Runs(s, in) ==
  /\ Passes(s)
  /\ corrupted' = (corrupted \/ ~Readable(heap, Input(s)) \/ ~in.ok)

\* A result with code Ok need not have an empty message.
Messages(h) ==
  {[heap |-> h, val |-> NullString]}
  \cup {StringNew(h, m, Message) :
          m \in {m \in Available(h) : "message" \in CallbackKinds}}

\* The callback succeeds with an answer of its own.  The payload is moved into
\* the new result; the message, if there is one, goes out of scope.
InvokeSucceeds(s, t) ==
  /\ "answer" \in CallbackKinds
  /\ \E in \in Treatments(s) :
       /\ Runs(s, in)
       /\ \E msg \in Messages(in.heap) :
            /\ AnswerNextTo(in.has, t, msg.heap)
            /\ dropped' = dropped \cup (Blocks \cap {msg.val.data})

\* The callback answers with its input, |buf| FfiResult::ok(buf): the payload
\* that is moved is the buffer that the caller has passed.
InvokeReturnsInput(s, t) ==
  /\ "return_input" \in CallbackKinds
  /\ Runs(s, Untouched(heap))
  /\ \E has \in Taken(s), msg \in Messages(heap) :
       /\ ReceiveNextTo(has, t, msg.heap, AsResult(ResultOk(Input(s))))
       /\ dropped' = dropped \cup (Blocks \cap {msg.val.data})

\* The callback panics.
InvokePanics(s, t) ==
  /\ "panic" \in CallbackKinds
  /\ \E in \in Treatments(s) :
       Runs(s, in) /\ FailNextTo(in.has, t, in.heap, "Panic")

\* What a failing callback hands to ffi_invoke_callback: a result of its own,
\* with a message and perhaps a payload.  Its code is lost: one is enough.
CallbackResults(h) ==
  {ResultErr(h, m, "Serialization") :
     m \in {m \in Available(h) : "fail" \in CallbackKinds}}
  \cup
  {LET payload == BufferNew(h, pm[1], 1)
   IN  [ResultErr(payload.heap, pm[2], "Serialization") EXCEPT !.val.payload = payload.val] :
     pm \in {pm \in Available(h) \X Available(h) :
               pm[1] # pm[2] /\ "fail_with_payload" \in CallbackKinds}}

\* Variation: the callback's result is passed on as it is.
InvokeForwards(s, t) ==
  \E in \in Treatments(s) :
    /\ Runs(s, in)
    /\ \E res \in CallbackResults(in.heap) :
         ReceiveNextTo(in.has, t, res.heap, AsResult(res.val))
    /\ UNCHANGED dropped

\* The callback fails.  Its result goes out of scope, and a new one is made that
\* says FfiError::Unknown.
InvokeFails(s, t) ==
  \E in \in Treatments(s) :
    /\ Runs(s, in)
    /\ \E res \in CallbackResults(in.heap) :
         /\ FailNextTo(in.has, t, res.heap, "Unknown")
         /\ dropped' = dropped \cup
              (Blocks \cap {res.val.error_message.data, res.val.payload.data})

-----------------------------------------------------------------------------
(***************************************************************************)
(* What the program does with what it holds.                               *)
(***************************************************************************)

\* Writes bytes into a buffer and sets its length, as Go's FromBytes does.
Write(s) ==
  /\ alive
  /\ held[s].kind = "buffer"
  /\ Input(s).data \in Blocks
  /\ \E bytes \in Strings :
       /\ Len(bytes) <= Input(s).capacity
       /\ heap' = [heap EXCEPT ![Input(s).data].bytes = bytes]
       /\ held' = [held EXCEPT ![s].value.payload.len = Len(bytes)]
  /\ UNCHANGED <<corrupted, alive>>

\* Reads what it holds: the payload, with as_slice, to_json or decode, or the
\* message, with as_str.
Read(s) ==
  LET res == held[s].value IN
  /\ alive
  /\ held[s].kind \notin {"none", "freed"}
  /\ corrupted' = (corrupted \/ ~Readable(heap, res.payload)
                              \/ ~Readable(heap, AsStr(res.error_message)))
  /\ UNCHANGED <<heap, held, alive>>

\* Variation: the wrapper is not consumed.
IntoBufferCopy(s) ==
  /\ alive
  /\ held[s].kind = "value"
  /\ \E t \in Slots : /\ held[t] = Nothing
                     /\ held' = [held EXCEPT ![t] = AsBuffer(Input(s))]
  /\ UNCHANGED <<heap, corrupted, alive, dropped>>

\* BridgeValue::into_buffer.
IntoBuffer(s) ==
  /\ alive
  /\ held[s].kind = "value"
  /\ held' = [held EXCEPT ![s].kind = "buffer"]
  /\ UNCHANGED <<heap, corrupted, alive, dropped>>

\* A BridgeValue goes out of scope: it has no Drop, and nor has its FfiBuffer.
DropValue(s) ==
  /\ alive
  /\ held[s].kind = "value"
  /\ held' = [held EXCEPT ![s] = Nothing]
  /\ dropped' = dropped \cup {Input(s).data}
  /\ UNCHANGED <<heap, corrupted, alive>>

\* Extracts the payload of result s and zeroes the original.
TakePayload(s, t) ==
  /\ alive
  /\ held[s].kind = "result" /\ held[t] = Nothing
  /\ held' = [held EXCEPT ![s].value.payload = NullBuffer,
                          ![t] = AsBuffer(Input(s))]
  /\ UNCHANGED <<heap, corrupted, alive>>

Release(s, kind, out, has) ==
  /\ alive
  /\ held[s].kind = kind
  /\ heap' = out.heap
  /\ corrupted' = (corrupted \/ ~out.ok)
  /\ held' = has
  /\ UNCHANGED alive

\* ffi_buffer_free, ffi_string_free and ffi_result_free.
BufferFree(s) ==
  \E has \in Freed(s) :
    Release(s, "buffer", BufferDealloc(heap, Input(s)), has)

StringFree(s) ==
  Release(s, "string", StringDealloc(heap, held[s].value.error_message), Without(s))

FreeResult(s) == Release(s, "result", ResultFree(heap, held[s].value), Without(s))

-----------------------------------------------------------------------------
Init ==
  /\ heap = [b \in Blocks |-> Unallocated]
  /\ held = [s \in Slots |-> Nothing]
  /\ corrupted = FALSE
  /\ alive = TRUE
  /\ dropped = {}

Create(t) ==
  \/ BufferAlloc(t) \/ StringAlloc(t) \/ Version(t)
  \/ FromJson(t, "buffer") \/ FromJson(t, "value")

Call(s, t) ==
  \/ Echo(s, t) \/ BridgeCallRun(s, t) \/ BridgeCallRunJson(s, t)
  \/ InvokeRefused(s, t) \/ InvokePanics(s, t) \/ TakePayload(s, t)

\* The callback has returned a result, of which a part may be lost.
Answered(s, t) ==
  InvokeSucceeds(s, t) \/ InvokeReturnsInput(s, t) \/ InvokeFails(s, t)

Use(s) == Write(s) \/ Read(s) \/ BufferFree(s) \/ StringFree(s) \/ FreeResult(s)

Next ==
  \/ OutOfMemory
  \/ \E s \in Slots : (Create(s) \/ Use(s)) /\ UNCHANGED dropped
  \/ \E s \in Slots : IntoBuffer(s) \/ DropValue(s)
  \/ \E s, t \in Slots : s # t /\ Answered(s, t)
  \/ \E s, t \in Slots : s # t /\ Call(s, t) /\ UNCHANGED dropped

Spec == Init /\ [][Next]_vars

-----------------------------------------------------------------------------
(***************************************************************************)
(* Properties.                                                             *)
(***************************************************************************)
Sizes == 0 .. MaxSize

Pointers == Blocks \cup {Null, Dangling}

Values ==
  [error_code    : {FfiErrorCode.Ok} \cup {Code(e) : e \in ErrorVariants},
   error_message : [data : Pointers, len : Sizes],
   payload       : [data : Pointers, len : Sizes, capacity : Sizes]]

\* The type invariant.  The type of an FfiString includes that its bytes are
\* valid UTF-8: as_str does not check.
TypeOK ==
  /\ heap \in [Blocks -> [live : BOOLEAN, size : Sizes, bytes : Strings]]
  /\ held \in [Slots -> [kind : {"none", "buffer", "freed", "value", "string",
                                 "result"},
                         value : Values]]
  /\ \A s \in Slots : IsUtf8(AsSlice(heap, AsStr(held[s].value.error_message)))
  /\ corrupted \in BOOLEAN
  /\ alive \in BOOLEAN
  /\ dropped \subseteq Blocks

\* Whatever callbacks do with their input, and in whatever order the program
\* calls and frees, it frees no block twice or with the wrong layout, and reads
\* none that is not there or not written, if it keeps the three rules.
\* README.md promises it, "No double-free", without naming a rule.
HeapSound == ~corrupted

\* The places where the program holds a pointer to b.
Owners(b) ==
  {s \in Slots : held[s].value.error_message.data = b} \X {"error_message"}
  \cup {s \in Slots : held[s].value.payload.data = b} \X {"payload"}

\* Every live block can still be freed by somebody, so nothing leaks as long
\* as the program frees what it was given, on no error path either, except
\* what a callback put into its result apart from the payload of a success,
\* and a BridgeValue that was not turned into its buffer.
OnlyKnownLeaks ==
  \A b \in Blocks : heap[b].live => Owners(b) # {} \/ b \in dropped

\* No two values that the program has share a block, so each may be freed
\* without regard to the others, and none is freed yet: also if the result of
\* a call is the input of that call, or of an earlier one.
NoAlias ==
  \A b \in Blocks :
    /\ \A o, p \in Owners(b) : o = p
    /\ Owners(b) # {} => heap[b].live

\* The fields of a value that is held reproduce the layout of its block, the
\* length of a string, the capacity of a buffer, however often the block was
\* handed over, freed by a callback, and allocated again.
HandlesDescribeHeap ==
  \A s \in Slots :
    LET v == held[s].value IN
    /\ StringDealloc(heap, v.error_message).ok
    /\ BufferDealloc(heap, v.payload).ok
    /\ Readable(heap, v.payload)

\* errors.rs: a result has a message or a payload, as its code says, even if
\* a callback's own result had both.
ResultShape ==
  \A s \in Slots :
    LET v == held[s].value IN
    held[s].kind = "result" =>
      IF v.error_code = FfiErrorCode.Ok THEN v.error_message = NullString
                                        ELSE v.payload = NullBuffer

\* A BridgeValue decodes as long as it lives, whatever the program writes into
\* the buffers it has: nothing else leads to the bytes of the value.
ValueDecodes ==
  \A s \in Slots :
    held[s].kind = "value" =>
      Readable(heap, Input(s)) /\ Decodes(AsSlice(heap, Input(s)))
=============================================================================
