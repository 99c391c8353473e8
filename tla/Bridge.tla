--------------------------------- MODULE Bridge ---------------------------------
(***************************************************************************)
(* The whole system: goroutines that call callbacks (GoBridge), the        *)
(* registry that runs them (CallbackRegistry, instantiated as R) and Rust  *)
(* threads that register and remove them meanwhile, over one heap.         *)
(*                                                                         *)
(* A goroutine in C is a thread of the registry: its activation is         *)
(* Act(g).  Entering ffi_invoke_callback, the answer of the callback and   *)
(* the return of the C function are joint steps of the two components; all *)
(* others are steps of one of them.  Callbacks do not call the registry    *)
(* here (MaxDepth is 1); CallbackRegistry's own runs have those that do.   *)
(***************************************************************************)
EXTENDS GoBridge

CONSTANTS
  RustThreads, Names, BadNames, Closures, CFunctions, None, NoGuard,
  PanicStrategy,  \* as in CallbackRegistry
  Answers,        \* what callbacks return: a subset of AnswerKinds
  MaxCalls        \* bounds the calls of each goroutine and Rust thread

AnswerKinds == {"copy", "alias", "binary", "empty", "error"}

ASSUME BridgeAssumption ==
  /\ Goroutines \cap RustThreads = {}
  /\ Answers \subseteq AnswerKinds
  /\ BadNames \subseteq {"non_utf8"}  \* C.CString never gives a null name
  /\ MaxCalls \in [Goroutines \cup RustThreads -> Nat]

VARIABLES
  callbacks, guard, poisoned, frame, alive,  \* the registry
  budget                                     \* the calls left to each caller

registryVars == <<callbacks, guard, poisoned, frame, alive>>

vars == <<goVars, registryVars, budget>>

Threads == Goroutines \cup RustThreads

R == INSTANCE RegistryRefinement WITH MaxDepth <- 1, ReentrantCalls <- FALSE

ASSUME RegistryConstants == R!RegistryAssumption

Act(t) == <<t, 1>>

Spend(t) ==
  /\ budget[t] > 0
  /\ budget' = [budget EXCEPT ![t] = @ - 1]

-----------------------------------------------------------------------------
(***************************************************************************)
(* A goroutine's call.                                                     *)
(***************************************************************************)
Begins(g) ==
  /\ alive /\ Begin(g) /\ Spend(g)
  /\ UNCHANGED registryVars

Enters(g) == EnterC(g) /\ R!FfiInvokeCallback(Act(g)) /\ UNCHANGED budget

Locks(g) ==
  /\ R!Lock(Act(g)) \/ R!Lookup(Act(g)) \/ R!CallbackPanics(Act(g))
  /\ UNCHANGED <<goVars, budget>>

\* The callback has read its input, and returns `code`.
Returns(g, code) ==
  /\ R!CallbackReturns(Act(g))
  /\ frame'[Act(g)].res = R!Invoked(code)
  /\ corrupted' = (corrupted \/ ~Readable(heap, go[g].buf))
  /\ UNCHANGED budget

\* A success, with what `out` has allocated for it, which moves into the
\* result of ffi_invoke_callback.
Succeeds(g, bytes, out) ==
  /\ Returns(g, FfiErrorCode.Ok)
  /\ heap' = out.heap
  /\ go' = [go EXCEPT ![g].res = ResultOk(out.val), ![g].answer = bytes]
  /\ UNCHANGED abandoned

AnswersCopy(g) ==
  LET bytes == AsSlice(heap, go[g].buf) IN
  /\ "copy" \in Answers
  /\ \E b \in Available(heap) :
       Succeeds(g, bytes, BufferFromVec(heap, b, bytes, Len(bytes)))

AnswersAlias(g) ==
  /\ "alias" \in Answers
  /\ Succeeds(g, AsSlice(heap, go[g].buf), [heap |-> heap, val |-> go[g].buf])

\* What is not JSON: other bytes, or none.
Undecodable ==
  {<<"raw">> : kind \in Answers \cap {"binary"}}
  \cup {<<>> : kind \in Answers \cap {"empty"}}

AnswersUndecodable(g) ==
  \E bytes \in Undecodable, b \in Available(heap) :
    Succeeds(g, bytes, BufferFromVec(heap, b, bytes, Len(bytes)))

\* A failure: ffi_invoke_callback lets the result, and so its message, go.
AnswersError(g) ==
  /\ "error" \in Answers
  /\ Returns(g, FfiErrorCode.Unknown)
  /\ \E b \in Available(heap) :
       /\ heap' = ResultErr(heap, b, "Unknown").heap
       /\ abandoned' = abandoned \cup {b}
  /\ UNCHANGED go

\* ffi_invoke_callback returns; FfiResult::err allocates the message.
ReturnsToGo(g) ==
  /\ R!Consume(Act(g))
  /\ \/ /\ frame[Act(g)].res.val = FfiErrorCode.Ok
        /\ Step(g, "callback", [go[g] EXCEPT !.pc = "check"])
        /\ UNCHANGED heap
     \/ \E error \in ErrorVariants, b \in Available(heap) :
          LET out == ResultErr(heap, b, error) IN
          /\ frame[Act(g)].res.val = Code(error)
          /\ heap' = out.heap
          /\ Step(g, "callback", [go[g] EXCEPT !.pc = "check", !.res = out.val])
  /\ UNCHANGED <<corrupted, abandoned, budget>>

\* Everything a call does once it has begun.
Proceeds(g) ==
  \/ Enters(g) \/ Locks(g)
  \/ AnswersCopy(g) \/ AnswersAlias(g) \/ AnswersUndecodable(g) \/ AnswersError(g)
  \/ ReturnsToGo(g)
  \/ alive /\ GoSteps(g) /\ UNCHANGED <<registryVars, budget>>

-----------------------------------------------------------------------------
(***************************************************************************)
(* A Rust thread.                                                          *)
(***************************************************************************)
Administers(t) ==
  /\ \/ R!RegisterCallback(Act(t)) \/ R!FfiRegisterCallback(Act(t))
     \/ R!UnregisterCallback(Act(t)) \/ R!FfiUnregisterCallback(Act(t))
     \/ R!CallbackCount(Act(t))
  /\ Spend(t)
  /\ UNCHANGED goVars

Continues(t) ==
  /\ R!RegistrySteps(Act(t)) \/ R!UserSteps(Act(t))
  /\ UNCHANGED <<goVars, budget>>

-----------------------------------------------------------------------------
Init ==
  /\ GoInit
  /\ R!Init
  /\ budget = MaxCalls

\* All calls have been made, or the process is gone.
Finished ==
  /\ ~alive \/ \A t \in Threads : budget[t] = 0 /\ frame[Act(t)] = R!Idle
  /\ ~alive \/ \A g \in Goroutines : go[g] = Resting
  /\ UNCHANGED vars

Next ==
  \/ \E g \in Goroutines : Begins(g) \/ Proceeds(g)
  \/ \E t \in RustThreads : Administers(t) \/ Continues(t)
  \/ Finished

Spec == Init /\ [][Next]_vars

\* Threads keep running, and callbacks and destructors give control back.
Fairness ==
  /\ \A g \in Goroutines : WF_vars(Proceeds(g))
  /\ \A t \in RustThreads : WF_vars(Continues(t))

FairSpec == Spec /\ Fairness

-----------------------------------------------------------------------------
(***************************************************************************)
(* Properties.                                                             *)
(***************************************************************************)

\* The type invariant, of the composition: a goroutine is in the C function
\* exactly while its activation is in the registry.  A response is text.
TypeOK ==
  /\ GoTypeOK
  /\ R!TypeOK
  /\ \A g \in Goroutines :
       go[g].pc = "callback" <=> frame[Act(g)].pc # "idle"
  /\ \A t \in Threads : budget[t] \in 0 .. MaxCalls[t]

\* Whatever the callbacks answer, and wherever the calls and the registrations
\* interleave, nothing is freed twice and nothing is read after it was freed.
HeapSound == ~corrupted

\* Every error path, of the name, the registry, the callback, its panic and
\* the decoding, frees what the call has allocated, except for the message of
\* the callback's own error and for the payload that CheckResult zeroes.
OnlyKnownLeaks ==
  \A b \in Blocks : heap[b].live => Owned(b) \/ b \in abandoned

-----------------------------------------------------------------------------
(***************************************************************************)
(* The system implements RpcSpec.                                          *)
(***************************************************************************)

\* The outcome of g's call, from the step in which ffi_invoke_callback has
\* decided it to the one in which the caller takes it.
Outcome(g) ==
  LET code == IF go[g].pc = "callback" THEN frame[Act(g)].res.val
                                       ELSE go[g].res.error_code
      decided == frame[Act(g)].pc = "returned"
                   \/ go[g].pc \in {"check", "free_res", "bytes"}
  IN  CASE ~decided                             -> go[g].outcome
        [] decided /\ code = FfiErrorCode.Ok    -> Decoded(go[g].answer)
        [] OTHER                                -> Returned(<<>>, ErrorNamed(code))

AbstractPhase(g) ==
  CASE go[g].pc \in {"rest", "invoke"}                -> "idle"
    [] /\ go[g].pc = "callback"
       /\ frame[Act(g)].pc \in {"lock", "locked", "run"} -> "called"
    [] OTHER                                          -> "answered"

AbstractCall(g) ==
  [phase   |-> AbstractPhase(g),
   name    |-> IF AbstractPhase(g) = "called" THEN frame[Act(g)].name ELSE None,
   request |-> IF AbstractPhase(g) = "called" THEN go[g].request ELSE <<>>,
   outcome |-> Outcome(g)]

Reply ==
  [request \in Requests |->
     {request : kind \in Answers \cap {"copy", "alias"}} \cup Undecodable]

Rpc == INSTANCE RpcSpec WITH
         Clients <- Goroutines,
         table   <- R!AbstractTable,
         call    <- [g \in Goroutines |-> AbstractCall(g)]

\* A Go caller sees one indivisible invocation: its response is the answer of
\* the callback that was registered at one instant of the call, to its own
\* request, although every block is reused by other calls; and its error says
\* what happened at that instant.
Atomic == Rpc!Spec

-----------------------------------------------------------------------------
\* Every call returns to the Go caller, whatever the others register, invoke
\* or poison meanwhile, unless user code ends the process.
EveryCallReturns ==
  \A g \in Goroutines :
    go[g].pc # "rest" ~> (go[g].pc = "rest" \/ ~alive)

\* errors.go: on success the payload is copied "and the original Rust
\* allocation is freed".
NothingLeaks == \A b \in Blocks : heap[b].live => Owned(b)
=============================================================================
