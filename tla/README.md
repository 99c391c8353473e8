# ffi-bridge in TLA+

A specification of the parts of ffi-bridge where something can go wrong that a
test would hardly reach: the callback registry (`rust/src/callback.rs`), the
ownership of the memory that crosses the C ABI (`rust/src/memory.rs`,
`rust/src/errors.rs`, `rust/src/bridge.rs`, `rust/src/types.rs`,
`shared/ffi.h`), the Go package with its finalizers (`go/*.go`), and the call of
a Go program through all of them. TLC checks small instances; TLAPS proves the
safety of every component, that the registry implements its abstract
specification, and that the whole system implements the atomic call a Go program
sees, for every value of the constants.
Paths below are relative to the repository.

Contents: [the system](#the-system) ·
[modules](#modules) · [runs](#runs) · [what the documents say and the code does
not](#what-the-documents-say-and-the-code-does-not) · [bounds](#bounds) ·
[fairness](#fairness) · [proofs](#proofs) · [not modelled](#not-modelled) ·
[plan](#plan)

## The system

| part | state | operations | used by |
|---|---|---|---|
| callback registry, `rust/src/callback.rs` | one process-wide `Lazy<Mutex<HashMap<String, Box<dyn Fn>>>>` with a poison flag | `register_callback`, `unregister_callback`, `callback_count`; exported: `ffi_register_callback`, `ffi_unregister_callback`, `ffi_invoke_callback`, `ffi_callback_count` | Rust code, C, Go |
| buffers and strings, `rust/src/memory.rs` | none of its own: values that describe blocks of Rust's allocator | `FfiBuffer::new`, `from_vec`, `as_slice`, `to_json`, `dealloc`; `FfiString::new`, `dealloc`; exported alloc and free functions | everything |
| results, `rust/src/errors.rs` | none | `FfiResult::ok`, `err`, `ffi_result_free`, `catch_panic`, the error codes | everything |
| bridge calls, `rust/src/bridge.rs` | none | `BridgeCall::run`, `run_json`, `ffi_echo`, `ffi_version` | exported functions |
| Go `Buffer`, `go/bridge.go` | `inner`, `freed`, the finalizer | `NewBuffer`, `FromBytes`, `FromJSON`, `Bytes`, `ToJSON`, `Len`, `Free`, `raw` | Go programs, any goroutine |
| Go calls, `go/callback.go`, `go/errors.go` | stack of the goroutine | `InvokeCallback`, `InvokeCallbackJSON`, `CheckResult` | Go programs |
| helpers | none | `rust/src/types.rs` (`cstr_to_string`, `BridgeValue`), `go/memory.go`, `go/types.go` | the parts above |

How they interact. A Go program makes a `Buffer` (a block from
`ffi_buffer_alloc`), calls `ffi_invoke_callback` with a bitwise copy of its
`FfiBuffer`, and gives the `FfiResult` to `CheckResult`, which makes a second
`Buffer` for the answer. In Rust the call locks the registry, looks the callback
up and runs it *under the lock*; the callback may allocate, fail, panic, or call
the registry again. The garbage collector's goroutine frees `Buffer`s that
nobody can reach. C programs do what Go does, without the finalizers.

What is hard, and what makes each part correct:

* **User code in the middle of registry operations.** The callback runs while
  the `MutexGuard` is alive. The destructor of a replaced or removed closure
  runs where the drop rules put it: under the guard in `register_callback`,
  `ffi_register_callback` and `ffi_unregister_callback`, after it in
  `unregister_callback`, where the removed box is a temporary of the tail
  expression. Correct means: the guard is held exactly there and is released on
  every path, returns and unwinds alike; a closure has one owner; the callback
  that runs stays registered; every operation looks atomic; poison is final and
  is reported instead of blocking anyone.
* **Panics.** Unwinding past the guard poisons it. `catch_panic` is only in
  `ffi_invoke_callback`; elsewhere a panic reaches a Rust caller or aborts at an
  `extern "C"` function. The release profile sets `panic = "abort"`.
* **Ownership without `Drop`.** Whoever holds an `FfiBuffer`, `FfiString` or
  `FfiResult` must free it exactly once, and what is freed is computed from the
  value's fields. A callback gets a copy of its caller's buffer and may answer
  with it or free it. Correct means: no double free, wrong layout or read of freed
  memory, no two values over one block, no lost block.
* **The garbage collector, and goroutines.** A finalizer may run as soon as the
  last use of the `*Buffer` is over, which is before the last use of its
  pointer. The methods of a `Buffer` are not synchronised with one another.
  Correct means: there are rules a program can keep under which its memory is
  freed once, is not used afterwards, and is freed in the end.
* **A call across everything.** What a Go caller is told must be what happened
  at one instant in the registry, to its own request, although the blocks are
  reused by others and the code goes through three tables; on every error path,
  both Buffers are freed and the call comes back.
* **Sizes.** Lengths pass through `int`, `C.int`, `size_t` and `usize`. Correct
  means: no block is smaller than what is copied into it, and what can be passed
  whole is.

The same list, line by line, is under `hazards` in `PROJECT.json`, each with the
properties that cover it.

## Modules

| module | models |
|---|---|
| `FfiErrors` | the error codes and variants |
| `RegistryApi` | the registry's operations, argument kinds and results, shared by the next two |
| `CallbackRegistry` | the registry, one action per step of each operation |
| `RegistrySpec` | the abstract registry: each operation takes effect in one step |
| `RegistryRefinement` | the refinement mapping and the property `Linearizable` |
| `CallbackRegistryProofs` | theorems about `CallbackRegistry` |
| `RegistryRefinementProofs` | proof that it implements `RegistrySpec` |
| `FfiMemory` | buffers, strings and results over a model of the allocator (operators only) |
| `FfiMemoryProofs` | lemmas about these operators, for the next proofs |
| `AbiClient` | a C program and the exported functions it calls, over `FfiMemory` |
| `AbiClientProofs` | theorems about `AbiClient` |
| `GoBuffer` | one Go `Buffer`, shared by goroutines and its finalizer, statement by statement |
| `GoBufferProofs` | theorems about `GoBuffer` |
| `GoSizes` | sizes and their integer types on the way through Go, C and Rust |
| `GoSizesProofs` | theorems about `GoSizes` |
| `GoBridge` | the Go side of `InvokeCallbackJSON` (actions, for `Bridge`) |
| `Bridge` | the whole system: `GoBridge` and `CallbackRegistry` over one heap |
| `BridgeProofs` | theorems about `Bridge` |
| `BridgeRefinementProofs` | proof that it implements `RpcSpec` |
| `RpcSpec` | the abstract Go call: one atomic invocation |
| `MCRegistry`, `MCAbi`, `MCBuffer`, `MCBridge` | sets and symmetry for TLC |

```
FfiErrors -+- RegistryApi -+- RegistrySpec ............ implemented by
           |               +- CallbackRegistry - RegistryRefinement
           |                                            | INSTANCE
           +- FfiMemory -+- AbiClient                   |
                         +- GoBuffer                    |
                         +- GoBridge ------ Bridge -----+
                                              | implements
GoSizes                                     RpcSpec
```

The proof module of a component extends it; `RegistryRefinementProofs` extends
`CallbackRegistryProofs`, and the proofs over a heap extend `FfiMemoryProofs`.
`BridgeProofs` instantiates `RegistryRefinementProofs`;
`BridgeRefinementProofs` extends it.

A definition under a comment `Variation:` is not part of the model. It is how a
plausible mistake in the code would change the definition that follows it or
that it names; each property has one that it is known to detect
(`mutants` in `PROJECT.json`).

### CallbackRegistry

`callbacks` is the map, `guard` the owner of the `MutexGuard`, `poisoned` the
poison flag, `alive` the process. A thread is a stack of *activations*
`<<t, d>>`: depth 1 is called by the application, depth `d + 1` by the user code
that depth `d` is running. `frame` has a record per activation. Its `pc` is the
place in the code:

| `pc` | place | next |
|---|---|---|
| `lock` | before `CALLBACKS.lock()`, the name already decoded | `Lock`: take the guard, or report poison |
| `locked` | guard held | `Insert`, `Remove`, `Count`, `Lookup` |
| `run` | inside `cb(input)` (line 124) | `CallbackReturns`, `CallbackPanics`, or a nested call |
| `drop` | inside the destructor of a closure | `DropReturns`, `DropPanics`, or a nested call |
| `returned` | result not taken yet | `Consume` |

The C entry points return at once for a name `cstr_to_string` refuses. A closure
that `register_callback` refuses for poison is destroyed without the lock. A
panic in a callback made of a C function, a destructor's panic in an
`extern "C"` operation, and any panic under `PanicStrategy = "abort"` end the
process. (An unwind that reaches an `extern "C"` boundary aborts, as Rust
defines it since 1.81.) `ReentrantCalls = FALSE` models user code that keeps off
the registry while its own thread holds the lock.

The constructors of the map and the closures' bodies are abstract: a closure is
a name for a box. Calls of `lock()` by the thread that already owns the lock are
modelled as waiting for ever; the standard library allows a panic as well.

### RegistrySpec and RegistryRefinement

`RegistrySpec` has the same operations with one `TakeEffect` step between call
and return. `RegistryRefinement` maps `CallbackRegistry` to it. The effect is
placed at the step that gives up the guard, so while a destructor runs under the
lock the abstract table still has the old entry (`AbstractTable`).

### FfiMemory, AbiClient

A heap is a function from blocks to `[live, size, bytes]`, `bytes` being the
initialized prefix. A byte is `"text"` or `"raw"` (not UTF-8); what decodes as
JSON is text of at least one byte. `Deallocate` says whether the call was
defined: the block is live and has that size. Operators follow the Rust
functions: a zero-capacity `FfiBuffer::new` is null, `from_vec` of an empty
`Vec` is dangling with capacity 0, `shrink_to_fit` may leave spare capacity.

In `AbiClient` a program holds values in `Slots` (`held`; each is stored as a
result with a payload, a message, or both) and makes any sequence of calls. It
frees each value once with the function for it, and zeroes a payload it has
taken out. A Rust program also has `BridgeValue`s. `corrupted` becomes true at an
undefined access or deallocation. `BridgeCallRunJson` fails at any of its three
stages. `OutOfMemory` is every allocation that fails: all of them end the
process, by a panic that cannot leave an `extern "C"` function or by
`handle_alloc_error`.

`ffi_invoke_callback` hands the callback a bitwise copy of the caller's
`FfiBuffer`, and moves out whatever payload comes back (`callback.rs:124-131`).
Callbacks of `CallbackKinds` are of all kinds that the code allows. A callback
leaves its input or frees it (`Treatments`), and then succeeds with a buffer of
its own, with capacity and no length too (`InvokeSucceeds`), panics
(`InvokePanics`), or fails with a result of its own (`InvokeFails`); or it
answers with its input (`InvokeReturnsInput`), as those of the tests do. A
success may carry a message, which is lost at line 130 (`Messages`). The two
treatments that end the caller's ownership look alike to it: nothing in the
header or in the result says whether the buffer it passed is still its own.

So the caller must know its callbacks, and the heap is sound if it keeps three
rules, which no document states. `Rules` are those that the program keeps, and
`Left`, `Taken` and `Freed` what it may then have:

| rule | the program | without it |
|---|---|---|
| `keep_left` | still frees a buffer that the callback has left | it leaks: `OnlyKnownLeaks` fails |
| `give_up_taken` | does not use or free one that the callback has answered with or freed | it is freed twice: the run `abi_double_free` |
| `free_last` | passes no buffer that it has freed (kind `"freed"`) | the callback reads freed memory: `HeapSound` fails |

### GoBuffer

`buffer` has the fields of one object and whether a finalizer is set, `call` the
method each goroutine is in and its next statement, `refs` the goroutines that
still have the pointer. `Bytes` and `raw` are two steps, the fields
(`ReadFields`) and the memory (`UsePointer`); `Free` is four, one per statement.
`Forget` is a goroutine's last use of the `Buffer`: between its calls, or inside
one whose remaining work is in C (`"use"`); the remaining statements of `Free`
still need the object. `Finalize` runs `Free` on the collector's goroutine once
nobody has the pointer.

Nothing in the type keeps the steps apart, so the model lets programs do
anything and records which of three rules they broke (`broken`):
`exclusive_free`, `no_raw_when_freed`, `keep_alive`. `OnlyBrokenRulesCorrupt`
says the three are enough. `Rules` lists those that the program does keep.

### GoSizes

A `Buffer` is a length and a capacity. `SizeT`, `GoInt` and `CInt` are the
conversions, two's complement at `SizeMod` (2^64) and `CIntMod` (2^32) values.
The program makes a `Buffer` (`NewBuffer` of any `int`, `FromBytes`), reads it
(`GetBytes`, `GetLen`), and sends it to callbacks whose answers `CheckResult`
copies (`CopyPayload`, `CheckError`). `C.GoBytes` of a negative length panics;
`FfiBuffer::new` panics, and so aborts, without memory or without a layout.

### GoBridge, Bridge, RpcSpec

`GoBridge` has the goroutine's half of a call: `Begin` (`FromJSON`), `EnterC`
(`raw()`), `CheckError`, or `CopyPayload` and `FreeResult` (`CheckResult`),
`Decode` (`Bytes` and `json.Unmarshal`), the deferred `Free`s. `go` is the local
variables of each goroutine. Its two Buffers are not shared, so they are their
`FfiBuffer`s only. A request that does not marshal returns before anything is
allocated (`callback.go:45-48`), and is no step.

`Bridge` instantiates the registry, with its refinement mapping, as `R` and
joins the two: a goroutine in C is activation `<<g, 1>>`. `Enters` is `EnterC`
together with the registry's entry point; `Answers...` is the callback's return
together with what it allocated, and its payload's move into the result;
`ReturnsToGo` takes the result over, or builds the error result. All other steps
belong to one side. `RustThreads` register, replace, remove and count meanwhile.
`abandoned` has the blocks lost by the two leaks reported below.
Callbacks answer with a copy of the request, with their input, with bytes that
are not JSON or with none (`AnswersUndecodable`), fail or panic. None frees its
input: with the deferred `buf.Free()` that would always be a double free, and
`give_up_taken` of `AbiClient` is the rule that it breaks. An answer that is the
input is safe here only because `CheckResult` never frees the payload
(`go_payload_leak`): `HeapSound` fails if `FreeResult` does.

In `RpcSpec` a call is `Call`, `TakeEffect`, `Return`: at one instant, the
callback then in the table (or none, or a poisoned registry) decides response
and error. `Bridge` maps to it with the registry's own mapping for the table,
and places the outcome in the step in which `ffi_invoke_callback` decides it.
`TakeEffect` needs a closure in the table at that instant, but what it may
answer, `Reply`, depends on the request only: bodies of closures are abstract, and
`Atomic` does not tell which of two closures ran. `RunningIsRegistered` does: the
one that runs is the one in the table.
Payloads, messages, codes and blocks do not exist there, so `Atomic` says that
none of them can be told from outside. It has one error for a refused name, since
`C.CString` makes no null pointer: `BridgeAssumption` keeps `"null"` out of
`BadNames`, which programs in C may pass (`CallbackRegistry`).

## Runs

Each run is `tlc -config <name>.cfg <module>`. Times are for two workers.

| run | module | question | states |
|---|---|---|---|
| `registry_safety` | MCRegistry | type, lock discipline, ownership, no dangling callback, poison is final, and `Linearizable`: every interleaving is one of the atomic registry. Two threads, two names, nested calls from callbacks and destructors, panics | 53k, 42 s |
| `registry_live` | MCRegistry | no deadlock, the guard is always released, poison is always reported | 20k, 25 s |
| `abi_contract` | MCAbi | a program that keeps the three rules, with callbacks of every kind, never corrupts the heap or aliases, nothing leaks but parts of callbacks' results and dropped `BridgeValue`s, every value describes its block, a result has a message or a payload as its code says, a `BridgeValue` always decodes; memory may run out | 74k, 120 s |
| `go_buffer` | MCBuffer | three goroutines in the methods of one `Buffer`, and its finalizer: only programs that break a rule corrupt the heap, `Bytes` returns the contents until `Free`, and the memory is freed in the end | 140k, 16 s |
| `go_sizes` | GoSizes | every `int` and every length through every conversion | 5k, 3 s |
| `bridge_atomic` | MCBridge | two goroutines call, a Rust thread registers, replaces, removes: heap sound, only the known leaks, `Atomic` | 165k, 73 s |
| `bridge_live` | MCBridge | no deadlock, and every Go call returns, whatever path it takes | 104k, 41 s |

What they show beyond the listing:

* `Linearizable` covers user code in the middle of operations: the destructor
  of a displaced closure may count, remove, register or invoke (from another
  thread, or, after the guard is gone, from its own) without seeing a half-done
  change.
* `RunningIsRegistered` is the reason `cb`, a reference into the map, is valid
  for the whole call; it depends on the guard being alive, so it fails if the
  guard is dropped before the call, although that would remove the deadlock
  below.
* `NoAlias` and `HandlesDescribeHeap` hold although a callback may answer with
  its input, an answer may be the input of the next call, and a callback may free
  what it got: each needs `give_up_taken`. `HandlesDescribeHeap` is the reason the
  free functions are sound: the block's layout can be rebuilt from the value at
  every moment, spare capacity and boundary cases included.
* `Atomic` compares responses by their bytes, so a block that is freed too early
  and reused by the other goroutine's request shows as a response to the wrong
  request; and it compares errors by name, so a code that two tables disagree on
  shows as an outcome that never happened.
* `OnlyKnownLeaks` (of `AbiClient` and of `Bridge`) says that the leaks reported
  below are the only ones, on every error path; `dropped` and `abandoned` have
  the blocks that leak by them.
* `OnlyBrokenRulesCorrupt` is a contract the Go documentation does not state:
  `Free` must not run concurrently with another method, a freed `Buffer` must
  not be passed to `InvokeCallback`, and a `Buffer` must be kept alive across a
  call that uses its pointer. `Bytes` of a freed `Buffer`, double `Free`s in
  sequence and the finalizer after a `Free` are harmless.
* `go_sizes` claims nothing of lengths that `C.int` cannot hold but that they
  do not become negative: they are cut, see below. The memcpy in `FromBytes`
  never looks at the capacity it got. It is safe because `ffi_buffer_alloc`
  does not return on failure; with the zeroed buffer `ffi.h:83` describes it
  would write through a null pointer.

## What the documents say and the code does not

Each of these runs checks one statement of a comment or document and finds a
counterexample. Details and quotations are in `findings`.

| run | statement | what happens |
|---|---|---|
| `registry_release_panic` | a callback's panic is returned as `FFI_ERR_PANIC` | in the release profile, which the Go package links, it kills the process |
| `registry_self_deadlock` | registrations from any thread are safe | one from inside a callback, or from the destructor of the closure that a registration or removal displaces, waits for its own thread |
| `abi_double_free` | free what Rust allocated, and always the result (`ffi.h:14,71`); no double free | both describe one block when the callback has answered with its input |
| `go_payload_leak` | `CheckResult` frees the original allocation | the payload is zeroed first, so it leaks |
| `go_finalizer_race` | the finalizer cleans up if `Free` is not called | it may do so while C or `Bytes` still uses the pointer |

Seen while modelling, and part of the models, without a run of their own:

* `ffi_register_callback` and `ffi_unregister_callback` run the destructor of
  the closure they displace outside `catch_panic`, so that its panic aborts the
  process (`callback.rs:92,158`, `DropPanics`), although "All exported functions
  are panic-safe via `catch_panic`" (`callback.rs:10`).
* `Free` is "Safe to call multiple times (idempotent)" (`bridge.go:132`) only
  one call after another (`CheckFreed`, `BufferFree`).
* A `BridgeValue` that goes out of scope leaks its buffer (`types.rs:20`,
  `DropValue`).
* When a callback reports an error, its own result is dropped and a new one made
  (`callback.rs:132`, `InvokeFails`, `AnswersError`): its message, and a payload
  if it has one, are never freed, although "**Always** call [`ffi_result_free`]
  when you are done with the result, regardless of `error_code`"
  (`errors.rs:104-105`).
* `Bytes` "returns a copy of the buffer's contents" (`bridge.go:100`) and
  `CheckResult` copies "the payload bytes" (`go/errors.go:75`), the message too
  (line 77), but from 2^31 bytes on the length does not fit `C.int`
  (`bridge.go:106`, `memory.go:39,66`, `types.go:44`). If it is then negative, Go
  panics; else it has lost a multiple of 2^32, and what is returned is a shorter
  copy, or none, without an error (`CInt`, `GetBytes`, `CopyPayload`,
  `CheckError`). `ShortIsExact` claims nothing of such lengths.
* The C sample frees `buf` and then invokes a callback with it
  (`README.md:250-252`), who reads freed memory: a program without `free_last`.
* `examples/basic.rs` moves `input` into the call (line 69), whose callback only
  reads it, and prints "All FFI resources freed" (line 88): nobody has freed
  `input`, nor `echo_input` later. It is a program without `keep_left`.
* The message of a success is lost where `ffi_invoke_callback` takes the payload
  out (`callback.rs:130`, `Messages`), although the comment there calls it
  "(empty)".
* `callback_count` is 0 on a poisoned lock that still has entries
  (`callback.rs:64`), although it is to return "the number of currently
  registered callbacks" (`Count` and `ReportPoison`; `RegistrySpec` says the
  same).
* Every error code of a callback becomes `FFI_ERR_UNKNOWN` (`callback.rs:133`,
  `InvokeFails`), although "`FfiResult` carries typed error codes + messages
  over the boundary" (`README.md:24`).
* `ffi_buffer_alloc` aborts the process when memory runs out (`memory.rs:75`,
  `OutOfMemory`), although it "Returns zeroed FfiBuffer on failure"
  (`ffi.h:83`).

## Bounds

* Registry: two threads are what mutual exclusion and linearizability take;
  depth 2 has a callback or destructor that calls the registry, and deeper calls
  are the same case again (`CallbackRegistryProofs` has no bound on any of
  these). Two names where renaming matters (`registry_safety`), one elsewhere.
  Two closures, the old and the new one of a replacement, and one C function.
* ABI: a payload and a message, an input, and a block to spare: four blocks;
  three values held at once; blocks of up to two bytes, so that length,
  capacity, and zero differ. All kinds of callbacks and all three rules;
  `abi_double_free` leaves out one rule, with the one callback that shows it, two
  values and three blocks.
* `go_buffer`: three goroutines, so that two can misuse the `Buffer` while the
  third is in the middle of a method; one object has no more to it. No bound on
  the number of calls.
* `go_sizes`: 6 and 3 bits instead of 64 and 32; every value of every type is
  tried. `Memory` is more than three times what `C.int` can count, so lengths
  that become shorter, zero and negative all occur. The theorems have no bound.
* `bridge_atomic`: two goroutines with a call each and a Rust thread with two,
  enough to register and then replace or remove during the calls. Two requests
  of different length, told apart in the responses; answers that do not decode and
  empty ones. A goroutine needs an input,
  a payload and a copy; with four blocks one of the two waits for memory or
  reuses what the other has freed. `Begin`, `CopyPayload` and the error results
  wait for a free block where the program would abort.
* `bridge_live`: one goroutine with two calls, so that the second meets what the
  first and the Rust thread have left (a poisoned mutex, another callback), nil
  and non-nil requests, and blocks for all of them.
* Deadlock is not checked where leaked blocks use the memory up
  (`bridge_atomic`, `abi_contract`, where the process may abort as well), where
  a program just ends (`go_buffer`, `go_sizes`), and where user code may wait for
  its own lock (`registry_safety`). It is in `registry_live` and `bridge_live`;
  `Finished` is the end of the calls that the bound allows.
* Symmetry is used only in runs without liveness, over sets whose members the
  modules never tell apart.

## Fairness

* `registry_live`: threads keep running (`RegistrySteps`) and user code
  eventually gives control back (`UserSteps`): weak fairness for each
  activation. Nothing stronger holds: `std::sync::Mutex` gives the lock to
  whoever comes first, so a waiter can be overtaken for ever, and that run does
  not claim that every operation finishes. `GuardReleased` and
  `PoisonIsReported` need no more: a poisoned mutex is free for good
  (`PoisonedIsFree`, `PoisonIsFinal`), so a waiter on it stays enabled.
  `ReentrantCalls = FALSE` there, since code that waits for its own thread never
  gives control back (`registry_self_deadlock`).
* `bridge_live`: the same, for goroutines (`Proceeds`) and Rust threads
  (`Continues`); making a call is not fair. Every thread makes finitely many
  calls, so a waiter cannot be overtaken for ever, and `EveryCallReturns` can be
  claimed; with callers that never stop it would need a fair mutex.
* `go_buffer`: a method that has begun goes on (`Steps`), and the collector runs
  once the object is unreachable (`Finalize`). Go guarantees the second only for
  programs that do not exit. Calling a method and forgetting the `Buffer` are
  not fair: `EventuallyFreed` speaks of Buffers that nobody has any more.

## Proofs

Every theorem is about `Spec`, without fairness, for every value of the
constants that the module's named assumptions allow. Each says nothing about
what the models leave out: it is as good as the module it is about.

### The registry

`CallbackRegistryProofs` has no bound on threads, names, closures or depth of
calls, and covers both panic strategies, with and without reentrant calls:

| theorem | property |
|---|---|
| `TypeCorrect` | `TypeOK` |
| `MutualExclusion` | `GuardDiscipline` |
| `PoisonLeavesFree` | `PoisonedIsFree` |
| `SingleOwnership` | `OwnedOnce` |
| `NoDanglingCallback` | `RunningIsRegistered` |
| `PoisonFinality` | `PoisonIsFinal` |
| `AbortProfile` | `AbortLeavesNoPoison`, when `PanicStrategy = "abort"`: no poison and no panic result is ever seen |

They assume only `RegistryAssumption`: names are finitely many (`callback_count`
is a number), and model values are distinct from one another.

The inductive invariant `RegistryInvariant` is the conjunction of `TypeOK`,
`Locks` (`GuardDiscipline` and `PoisonedIsFree`) and `Boxes` (`OwnedOnce` and
`RunningIsRegistered`). None of the last is inductive alone: a running callback
stays registered only because whoever else could remove it needs the guard that
its own activation holds, which is `GuardDiscipline`; that a registration does
not create a second owner needs that its box was fresh and not handed over
twice. The parts depend on one another in one direction, so each has a step
lemma: `TypeStep`, `GuardStep` and `BoxStep`. `PoisonFinality` follows from
the invariant: only `Insert` and `Remove` change the map, they hold the guard,
and a poisoned mutex is free.

`RegistryRefinementProofs` has `RegistryIsLinearizable`: `Spec => Linearizable`,
from the same assumption. The mapping needs one fact more, `Drops`: an operation
that destroys a closure under the guard is a registration or an
`ffi_unregister_callback` whose result is decided (`Done`), and one that does so
without it is `register_callback` or `unregister_callback`. Without it, a
`"drop"` with the guard could be mapped to any effect. Each step then is one of
three kinds. It keeps the mapped state: taking the guard, looking a callback up,
changing the map with a destructor still to run. Or it changes the mapped call
of one activation only: `BeginStep`, `FinishDropStep`, `FinishStep`. Or it gives
the guard up, and then the mapped table changes from what it was when the guard
was taken to `callbacks`, by one of the effects `RegistrySpec` allows
(`EffectStep`, with a lemma for the effects of each operation).

### Sizes

`GoSizesProofs` proves, for every `SizeMod`, `CIntMod` and `Memory` that satisfy
`SizeAssumption` (even widths, `C.int` no wider than `int`, no block larger than
`isize::MAX`):

| theorem | property |
|---|---|
| `TypeCorrect` | `TypeOK`: no length becomes negative |
| `CapacityCorrect` | `BufferIsAsAsked` |
| `ShortArrivesWhole` | `ShortIsExact` |

The inductive invariant `SizesInvariant` adds `Lengths`: the length of the
current `Buffer` is that of its source or the remainder of it modulo 2^32. The
remainder fits `C.int`, so a second conversion changes nothing (`CIntOfLength`,
`Remainder`), which is why a length is cut at most once on its way.
`AllocatedAsAsked` has the other half: a negative `int` becomes a `size_t` above
`isize::MAX`, for which there is no layout.

### The heap

`FfiMemoryProofs` has no theorem of its own. Its notions are `BufferFits` and
`StringFits` (a value describes its block: it is live, of the size the
deallocation computes, with the bytes that are read initialized), `Allocates`
(an operator makes at most one free block live, the one its value points to,
and touches no other) and `Frees` (it frees at most the block of its
argument, and does so legally when the argument fits). One lemma for each
operator says which of these it is, so that the proofs over a heap do not look
into it.

### A C program

`AbiClientProofs`, for any number of blocks and slots, any block size, any set of
callback kinds, those that answer with their input or free it included, with an
allocator that fails at will, for programs that keep the three rules
(`Rules = RuleNames`; with any of them left out TLC refutes `HeapSound` or
`OnlyKnownLeaks`):

| theorem | property |
|---|---|
| `TypeCorrect` | `TypeOK` |
| `NeverCorrupts` | `HeapSound` |
| `LeaksAreKnown` | `OnlyKnownLeaks` |
| `ValuesAreSeparate` | `NoAlias` |
| `HandlesAreAccurate` | `HandlesDescribeHeap` |
| `ResultsAreEither` | `ResultShape` |
| `ValuesDecode` | `ValueDecodes` |

All follow from one invariant, `Ownership`, and none is inductive without the
rest of it. That a free is legal needs that the value describes its block; that
this stays so when others are freed needs that no two values share a block; that
a new value shares none needs that whoever is live is owned or lost, so that a
free block is nobody's. `ResultShape` is in it because `ffi_result_free` frees
both halves. A call goes through several heaps (the callback frees its input,
loses a message, makes an answer), so `OwnershipOf` is about any heap and
holdings, and lemmas lead from one to the next: `HoldingChanges` for a change of
one slot, `SlotFreed`, `BufferFreed` and `BlocksDropped` for what is given up,
`HoldingMoves` for the two steps that move a block from one slot to another,
`TakePayload` and `InvokeReturnsInput`. `TreatmentFacts` says what every
callback's treatment of its input leaves: this is where `keep_left` and
`give_up_taken` are needed, and `free_last` keeps every kind `"freed"` away.

### A shared Go Buffer

`GoBufferProofs`, for any number of goroutines, and programs that keep any of
the rules:

| theorem | property |
|---|---|
| `TypeCorrect` | `TypeOK` |
| `RulesSuffice` | `OnlyBrokenRulesCorrupt` |
| `BytesCorrect` | `BytesUntilFreed` |
| `KeepingRulesIsSafe` | `HeapSound`, when `Rules` is all three (with fewer, `go_finalizer_race` refutes it) |

`OnlyBrokenRulesCorrupt` says nothing of how the heap stays sound; the invariant
`BufferInvariant` does. Until a rule is broken, `Exclusion` holds: whoever is in
`Free` is alone in the object, the finalizer included (it runs when `refs` is
empty, and a goroutine in a method is in `refs`, which is `keep_alive`); whoever
has checked `freed`, or was promised it (`no_raw_when_freed`), still finds it
false; and unless some `Free` is between its second and its third statement,
`~freed` means that the block is as `FromBytes` left it. Once a rule is broken,
only the type and the shape of the calls remain.

### The whole system

`BridgeProofs`, for any number of goroutines, Rust threads, names, requests,
blocks and calls:

| theorem | property |
|---|---|
| `RegistryInside` | the variables of the registry follow `R!Spec` |
| `TypeCorrect` | `TypeOK` |
| `NeverCorrupts` | `HeapSound` |
| `LeaksAreKnown` | `OnlyKnownLeaks` |

`RegistryInside` is what makes the composition worth its name: each step of
`Bridge` is a step of the registry or leaves it alone, so that what is proved of
the registry is used here, not proved again (`RegistryTypes`). `SameRegistry`
relates the two instances, of the module and of its proofs. The invariant
`BridgeInvariant` has three parts. `Memory` is the ownership of `AbiClient`, per
goroutine, with one exception that `Apart` names: the payload of the result and
the request may be one block, when a callback answers with its input. That is
why `FreeResult` must not count the payload as lost then, and why nobody frees
it twice. `Linked` ties a goroutine's `pc` to its activation: it is in the
registry exactly while it is in C, and it has a result before its return only if
its callback succeeded; hence the error result of `ReturnsToGo` overwrites
nothing. `Budgets` is the type of the bound on calls.

### The atomic call

`BridgeRefinementProofs` has `CallsAreAtomic`: `Spec => Atomic`, from the
assumptions of `Bridge` and its parts, again without any bound. The invariant
`SystemInvariant` is `BridgeInvariant`, what `RegistryRefinementProofs` needs of
the registry, and two parts of its own:

* `Roles`: the activations of goroutines are invocations, those of Rust threads
  are not. Hence a Rust thread's step can only be `Administer`, a crash, or
  unseen, and a goroutine's cannot change the table.
* `Contents`: while a call is on its way in, the block of `buf` holds its
  request; from the success of the callback on, the payload, and then the copy
  that `CheckResult` makes, hold `answer`. It needs `Memory`: bytes stay what
  they are only because no other call frees or reuses their block. It is what
  lets the outcome be fixed in the step of the callback, although Go decodes it
  four steps later, from another block.

The table and the poison are not looked at again: `InvocationAppears` and
`AdministrationAppears`, at the end of `RegistryRefinementProofs`, say what each
step of a thread is in the atomic registry, so that a call is answered for the
table of one instant because the registry is linearizable. What is added is the
way from the registry's code to a Go error (`NamedErrors`), through three tables
of numbers, and from the payload to a response (`SameDecoding`). Every step then
is one of four kinds: `EnterSimulated` (`Call`), `DecisionSimulated`
(`TakeEffect`), `RestSimulated` (`Return`), or unseen (`GoSimulated`,
`ReturnSimulated`); `OtherCalls` says that it leaves the calls of the others as
they look.

Two things in the model came out of this proof. `Bridge` allowed its
goroutines null names, for which `RpcSpec` had no outcome (and which
`C.CString` cannot make): now it assumes that there are none. And the guards of
three `CASE`s of the mapping and of `RpcSpec` overlapped; TLC takes the first
that holds, but TLA+ does not say which, so nothing could be proved of them.
They are exclusive now.

### Only model-checked

* Liveness (`GuardReleased`, `PoisonIsReported`, `EveryCallReturns`,
  `EventuallyFreed`): fairness and `ENABLED` are beyond the prover.
* That the theorems' assumptions can be met, and that every action can happen:
  each run evaluates the assumptions of its modules for its constants.

## Not modelled

* JSON, and the text of messages and names: bytes are text or not, an encoding
  or decoding succeeds or fails with its error. In particular `C.CString` of a
  name with a zero byte, which Rust reads up to that byte.
* `check_not_null`, `InspectBuffer` and `IsEmpty` read a value and change
  nothing. `AllocFfiString` and the raw helpers of `go/memory.go` wrap functions
  that `AbiClient` calls. The error strings of `error_codes.h` and
  `go/errors.go` are wording.
* In `AbiClient`, a callback that keeps its input for a later call, or hands out
  a pointer into it, and one that fails with its input as its payload (a payload
  of a failure is dropped, so its caller still has it). In `Bridge`, callbacks
  that free their input; C programs next to the goroutines.
* Which closure a call ran, in `RpcSpec`.
* `once_cell`, the allocator and the collector are modelled from their
  contracts. Data races in `GoBuffer` are interleavings of statements: Go's
  memory model lets them be seen out of order too, which the rule
  `exclusive_free` excludes.
* `lib.rs` only re-exports. Tests, benchmarks and packaging; the examples are
  behaviours of `AbiClient` and `Bridge`.

## Plan

Done: the registry with its abstract specification, refinement and proofs; the
C side with JSON and `BridgeValue`; the shared Go `Buffer`; sizes; the composed
system with its abstract specification; proofs of the safety of all of them and
of both refinements. Every invariant and every refinement that a run checks is a
theorem too.

Next: names that Rust reads only up to a zero byte, so that two Go names mean one
callback; `Contents` would be about the name then too. A C program in the
composed system, next to the goroutines, over the same heap: the ownership
invariants of `AbiClient` and `Bridge` have the same form and could be one.
