--------------------------- MODULE CallbackRegistry ---------------------------
(***************************************************************************)
(* The named callback registry of rust/src/callback.rs: a process-wide     *)
(* Mutex<HashMap<String, Box<dyn Fn>>> used by any number of threads.      *)
(*                                                                         *)
(* What makes it hard is that user code runs in the middle of its          *)
(* operations, on the calling thread: the callback itself runs inside      *)
(* ffi_invoke_callback while the MutexGuard is alive, and the destructor   *)
(* of a displaced closure runs wherever the Rust drop rules put it, which  *)
(* is before the guard is dropped in three operations and after it in the  *)
(* fourth.  User code may return, panic, or call the registry again.       *)
(*                                                                         *)
(* A thread is a stack of activations <<t, d>>: depth 1 is a call made by  *)
(* the application, depth d+1 a call made by the user code that the        *)
(* activation at depth d is running.                                       *)
(***************************************************************************)
EXTENDS RegistryApi

CONSTANTS
  Threads,         \* threads that use the registry
  MaxDepth,        \* bound on nested calls: user code called by user code
  Names,           \* the valid names: C strings that decode as UTF-8
  BadNames,        \* names rejected by cstr_to_string (subset of BadNameKinds)
  Closures,        \* Box<dyn Fn> instances made from Rust closures
  CFunctions,      \* Box<dyn Fn> instances that wrap a C function pointer
  None,            \* "no callback"
  NoGuard,         \* the mutex is not locked
  PanicStrategy,   \* the profile's `panic` setting: "unwind" or "abort"
  ReentrantCalls   \* may user code call the registry while its own thread
                   \* holds the guard?

Callbacks == Closures \cup CFunctions

Activations == Threads \X (1 .. MaxDepth)

ASSUME RegistryAssumption ==
  /\ MaxDepth \in Nat \ {0}
  /\ IsFiniteSet(Names)
  /\ BadNames \subseteq BadNameKinds
  /\ Names \cap BadNameKinds = {}
  /\ Closures \cap CFunctions = {}
  /\ None \notin Callbacks
  /\ NoGuard \notin Activations
  /\ PanicStrategy \in {"unwind", "abort"}
  /\ ReentrantCalls \in BOOLEAN

VARIABLES
  callbacks,  \* CALLBACKS: the map, None where a name has no entry
  guard,      \* the activation that owns the MutexGuard, or NoGuard
  poisoned,   \* the mutex's poison flag
  frame,      \* the activation records of every thread's stack
  alive       \* FALSE once the process has aborted

vars == <<callbacks, guard, poisoned, frame, alive>>

-----------------------------------------------------------------------------
(***************************************************************************)
(* Activation records.  `cb` is the box the activation has in hand: the    *)
(* one a registration is about to insert, the one an invocation is         *)
(* running, or the one whose destructor is running.  `res` is the result   *)
(* already decided for the caller.                                         *)
(*   "lock"      about to call CALLBACKS.lock()                            *)
(*   "locked"    the guard is held, the map not looked at yet              *)
(*   "run"       inside the callback (guard held)                          *)
(*   "drop"      inside the destructor of a displaced or refused closure   *)
(*   "returned"  back in the caller, result not consumed yet               *)
(***************************************************************************)
Frame ==
  [pc   : {"idle", "lock", "locked", "run", "drop", "returned"},
   op   : Ops \cup {"none"},
   name : Names \cup BadNameKinds \cup {None},
   cb   : Callbacks \cup {None},
   res  : Results \cup {NoResult}]

Idle == [pc |-> "idle", op |-> "none", name |-> None, cb |-> None,
         res |-> NoResult]

\* User code is running: the body or the destructor of a Rust closure, or a
\* C function.
InUserCode(f) == f.pc \in {"run", "drop"}

\* a is the innermost activation of its thread, so it is the one executing.
OnTop(a) ==
  \A d \in (a[2] + 1) .. MaxDepth : frame[<<a[1], d>>].pc = "idle"

\* A call may start at depth 1 whenever the thread is idle, and at depth d+1
\* only from the user code running at depth d.
MayCall(a) ==
  /\ frame[a].pc = "idle"
  /\ OnTop(a)
  /\ a[2] > 1 =>
       LET caller == <<a[1], a[2] - 1>>
       IN  /\ InUserCode(frame[caller])
           /\ ReentrantCalls \/ \A d \in 1 .. MaxDepth : guard # <<a[1], d>>

\* Box::new gives each registration a box of its own.
Fresh(c) ==
  /\ \A n \in Names : callbacks[n] # c
  /\ \A a \in Activations : frame[a].cb # c

-----------------------------------------------------------------------------
(***************************************************************************)
(* Entering an operation.  The C entry points first run cstr_to_string and *)
(* return at once when it fails.                                           *)
(***************************************************************************)

\* Variation: a C entry point that uses the name without checking it.
EnterUnchecked(a, op, name, cb) ==
  /\ alive
  /\ MayCall(a)
  /\ frame' = [frame EXCEPT ![a] = [pc |-> "lock", op |-> op, name |-> name,
                                   cb |-> cb, res |-> NoResult]]
  /\ UNCHANGED <<callbacks, guard, poisoned, alive>>

Enter(a, op, name, cb) ==
  /\ alive
  /\ MayCall(a)
  /\ frame' = [frame EXCEPT ![a] =
       IF name \in BadNames
         THEN [pc |-> "returned", op |-> op, name |-> name, cb |-> None,
               res |-> Rejected(op, name)]
         ELSE [pc |-> "lock", op |-> op, name |-> name, cb |-> cb,
               res |-> NoResult]]
  /\ UNCHANGED <<callbacks, guard, poisoned, alive>>

RegisterCallback(a) ==
  \E n \in Names, c \in Closures :
    Fresh(c) /\ Enter(a, "register_callback", n, c)

FfiRegisterCallback(a) ==
  \E n \in Names \cup BadNames, c \in CFunctions :
    Fresh(c) /\ Enter(a, "ffi_register_callback", n, c)

UnregisterCallback(a) ==
  \E n \in Names : Enter(a, "unregister_callback", n, None)

FfiUnregisterCallback(a) ==
  \E n \in Names \cup BadNames :
    Enter(a, "ffi_unregister_callback", n, None)

FfiInvokeCallback(a) ==
  \E n \in Names \cup BadNames : Enter(a, "ffi_invoke_callback", n, None)

CallbackCount(a) == Enter(a, "callback_count", None, None)

-----------------------------------------------------------------------------
(***************************************************************************)
(* Leaving an operation, with or without the guard.                        *)
(***************************************************************************)
Return(a, res) ==
  frame' = [frame EXCEPT ![a].pc = "returned", ![a].cb = None, ![a].res = res]

\* The closure c must be destroyed before the operation returns res.
DropThenReturn(a, c, res) ==
  frame' = [frame EXCEPT ![a].pc = "drop", ![a].cb = c, ![a].res = res]

\* Only a Rust closure has a destructor that runs user code; a wrapped C
\* function pointer and an absent entry have nothing to run.
HasDestructor(c) == c \in Closures

\* Variation: the guard is leaked instead of dropped.
ForgetGuard(a) == guard' = guard

\* Dropping the guard local of a, if a has one.
ReleaseGuard(a) == guard' = IF guard = a THEN NoGuard ELSE guard

(***************************************************************************)
(* CALLBACKS.lock().  A poisoned mutex is locked like any other, but the   *)
(* PoisonError and the guard inside it are dropped at once; a closure that *)
(* register_callback was given is then dropped on the way out, unlocked.   *)
(***************************************************************************)
TakeGuard(a) ==
  /\ guard' = a
  /\ frame' = [frame EXCEPT ![a].pc = "locked"]

ReportPoison(a) ==
  LET f == frame[a] IN
  /\ IF HasDestructor(f.cb)
       THEN DropThenReturn(a, f.cb, PoisonReported(f.op))
       ELSE Return(a, PoisonReported(f.op))
  /\ UNCHANGED guard

MayLock(a) ==
  /\ alive /\ OnTop(a)
  /\ frame[a].pc = "lock"
  /\ guard = NoGuard

\* Variation: poison is overridden, as with PoisonError::into_inner.
LockDespitePoison(a) ==
  MayLock(a) /\ TakeGuard(a) /\ UNCHANGED <<callbacks, poisoned, alive>>

\* Variation: a caller that finds the mutex poisoned tries again.
LockUntilClean(a) ==
  /\ MayLock(a)
  /\ ~poisoned /\ TakeGuard(a)
  /\ UNCHANGED <<callbacks, poisoned, alive>>

Lock(a) ==
  /\ MayLock(a)
  /\ \/ ~poisoned /\ TakeGuard(a)
     \/ poisoned /\ ReportPoison(a)
  /\ UNCHANGED <<callbacks, poisoned, alive>>

(***************************************************************************)
(* guard.insert(name, box).  The displaced box is a temporary of the       *)
(* statement, so it is destroyed while the guard is still alive.           *)
(***************************************************************************)
Insert(a) ==
  LET f   == frame[a]
      old == callbacks[f.name]
  IN
  /\ alive /\ OnTop(a)
  /\ f.pc = "locked" /\ f.op \in RegisterOps
  /\ callbacks' = [callbacks EXCEPT ![f.name] = f.cb]
  /\ IF HasDestructor(old)
       THEN DropThenReturn(a, old, Done(f.op)) /\ UNCHANGED guard
       ELSE Return(a, Done(f.op)) /\ ReleaseGuard(a)
  /\ UNCHANGED <<poisoned, alive>>

(***************************************************************************)
(* guard.remove(name).is_some().  In ffi_unregister_callback the removed   *)
(* box is a temporary of an `if` condition and is destroyed under the      *)
(* guard; in unregister_callback it is a temporary of the function's tail  *)
(* expression and outlives the guard (edition 2021).                       *)
(***************************************************************************)

\* Variation: the entry is looked up, and its box dropped, but not removed.
RemoveCopy(a) ==
  LET f   == frame[a]
      old == callbacks[f.name]
  IN
  /\ alive /\ OnTop(a)
  /\ f.pc = "locked" /\ f.op \in UnregisterOps
  /\ IF HasDestructor(old) THEN DropThenReturn(a, old, Done(f.op))
                           ELSE Return(a, Absent(f.op))
  /\ IF HasDestructor(old) /\ f.op = "ffi_unregister_callback"
       THEN UNCHANGED guard
       ELSE ReleaseGuard(a)
  /\ UNCHANGED <<callbacks, poisoned, alive>>

Remove(a) ==
  LET f   == frame[a]
      old == callbacks[f.name]
      res == IF old = None THEN Absent(f.op) ELSE Done(f.op)
  IN
  /\ alive /\ OnTop(a)
  /\ f.pc = "locked" /\ f.op \in UnregisterOps
  /\ callbacks' = [callbacks EXCEPT ![f.name] = None]
  /\ IF HasDestructor(old) THEN DropThenReturn(a, old, res) ELSE Return(a, res)
  /\ IF HasDestructor(old) /\ f.op = "ffi_unregister_callback"
       THEN UNCHANGED guard
       ELSE ReleaseGuard(a)
  /\ UNCHANGED <<poisoned, alive>>

Registered == {n \in Names : callbacks[n] # None}

\* callback_count: the size of the map.
Count(a) ==
  /\ alive /\ OnTop(a)
  /\ frame[a].pc = "locked" /\ frame[a].op = "callback_count"
  /\ Return(a, Result("usize", Cardinality(Registered)))
  /\ ReleaseGuard(a)
  /\ UNCHANGED <<callbacks, poisoned, alive>>

\* ffi_invoke_callback, guard.get(&name_str): NotFound, or call the callback
\* through a reference that borrows from the guard.

\* Variation: the guard is dropped before the callback is called.
LookupThenUnlock(a) ==
  LET f == frame[a] IN
  /\ alive /\ OnTop(a)
  /\ f.pc = "locked" /\ f.op = "ffi_invoke_callback"
  /\ IF callbacks[f.name] = None
       THEN Return(a, Result("FfiResult", Code("NotFound")))
       ELSE frame' = [frame EXCEPT ![a].pc = "run",
                                   ![a].cb = callbacks[f.name]]
  /\ ReleaseGuard(a)
  /\ UNCHANGED <<callbacks, poisoned, alive>>

Lookup(a) ==
  LET f == frame[a] IN
  /\ alive /\ OnTop(a)
  /\ f.pc = "locked" /\ f.op = "ffi_invoke_callback"
  /\ \/ /\ callbacks[f.name] = None
        /\ Return(a, Result("FfiResult", Code("NotFound")))
        /\ ReleaseGuard(a)
     \/ /\ callbacks[f.name] # None
        /\ frame' = [frame EXCEPT ![a].pc = "run",
                                  ![a].cb = callbacks[f.name]]
        /\ UNCHANGED guard
  /\ UNCHANGED <<callbacks, poisoned, alive>>

-----------------------------------------------------------------------------
(***************************************************************************)
(* User code.                                                              *)
(***************************************************************************)

\* The callback returns a result; ffi_invoke_callback drops the guard and
\* returns in its turn.
CallbackReturns(a) ==
  /\ alive /\ OnTop(a)
  /\ frame[a].pc = "run"
  /\ \E code \in CallbackCodes : Return(a, Invoked(code))
  /\ ReleaseGuard(a)
  /\ UNCHANGED <<callbacks, poisoned, alive>>

\* The destructor returns; the operation then drops its guard, if it still
\* has one, and returns.
DropReturns(a) ==
  /\ alive /\ OnTop(a)
  /\ frame[a].pc = "drop"
  /\ Return(a, frame[a].res)
  /\ ReleaseGuard(a)
  /\ UNCHANGED <<callbacks, poisoned, alive>>

\* Dropping the guard while its thread unwinds poisons the mutex.
UnwindGuard(a) ==
  /\ poisoned' = (poisoned \/ guard = a)
  /\ ReleaseGuard(a)

Abort ==
  /\ alive' = FALSE
  /\ UNCHANGED <<callbacks, guard, poisoned, frame>>

\* The callback panics.  catch_panic turns an unwind into FfiError::Panic,
\* but the guard was dropped on the way.  A panic aborts the process under
\* `panic = "abort"`, and when it would leave an extern "C" callback.
CallbackPanics(a) ==
  /\ alive /\ OnTop(a)
  /\ frame[a].pc = "run"
  /\ IF PanicStrategy = "abort" \/ frame[a].cb \in CFunctions
       THEN Abort
       ELSE /\ UnwindGuard(a)
            /\ Return(a, Result("FfiResult", Code("Panic")))
            /\ UNCHANGED <<callbacks, alive>>

\* A destructor panics.  No catch_panic is on the stack of these operations:
\* the panic reaches the caller of a Rust function, and aborts the process
\* at an extern "C" one.
DropPanics(a) ==
  /\ alive /\ OnTop(a)
  /\ frame[a].pc = "drop"
  /\ IF PanicStrategy = "abort" \/ frame[a].op \in FfiOps
       THEN Abort
       ELSE /\ UnwindGuard(a)
            /\ Return(a, Unwound)
            /\ UNCHANGED <<callbacks, alive>>

\* The caller takes the result; the activation record is gone.
Consume(a) ==
  /\ alive
  /\ frame[a].pc = "returned"
  /\ frame' = [frame EXCEPT ![a] = Idle]
  /\ UNCHANGED <<callbacks, guard, poisoned, alive>>

-----------------------------------------------------------------------------
Init ==
  /\ callbacks = [n \in Names |-> None]
  /\ guard = NoGuard
  /\ poisoned = FALSE
  /\ frame = [a \in Activations |-> Idle]
  /\ alive = TRUE

Calls(a) ==
  \/ RegisterCallback(a) \/ FfiRegisterCallback(a)
  \/ UnregisterCallback(a) \/ FfiUnregisterCallback(a)
  \/ FfiInvokeCallback(a) \/ CallbackCount(a)

\* The steps of the registry's own code.
RegistrySteps(a) ==
  Lock(a) \/ Insert(a) \/ Remove(a) \/ Count(a) \/ Lookup(a) \/ Consume(a)

\* The ways in which user code gives control back.
UserSteps(a) ==
  \/ CallbackReturns(a) \/ DropReturns(a)
  \/ CallbackPanics(a) \/ DropPanics(a)

Next == \E a \in Activations : Calls(a) \/ RegistrySteps(a) \/ UserSteps(a)

\* An aborted process takes no step: the one way the system stops.
Terminated == ~alive /\ UNCHANGED vars

Spec == Init /\ [][Next \/ Terminated]_vars

(***************************************************************************)
(* Threads keep running and user code eventually gives control back.  Lock *)
(* is only weakly fair: std::sync::Mutex hands the lock to whoever is      *)
(* first, and promises nothing to a waiter while others keep taking it.    *)
(***************************************************************************)
Fairness ==
  \A a \in Activations : WF_vars(RegistrySteps(a)) /\ WF_vars(UserSteps(a))

FairSpec == Spec /\ Fairness

-----------------------------------------------------------------------------
(***************************************************************************)
(* Invariants.                                                             *)
(***************************************************************************)

\* The arguments of operation op, and the results it can have.
ArgumentsOK(f) ==
  /\ f.op \in Ops
  /\ f.op # "callback_count" => f.name \in Names
  /\ f.cb \in CASE f.op = "register_callback"     -> Closures
               [] f.op = "ffi_register_callback" -> CFunctions
               [] OTHER                          -> {None}
  /\ f.res = NoResult

FrameOK(f) ==
  /\ f \in Frame
  /\ f.pc = "idle" => f = Idle
  /\ f.pc \in {"lock", "locked"} => ArgumentsOK(f)
  /\ f.pc = "run" => /\ f.op = "ffi_invoke_callback"
                     /\ f.name \in Names
                     /\ f.cb \in Callbacks
  /\ f.pc = "drop" => /\ f.op \in RegisterOps \cup UnregisterOps
                      /\ f.name \in Names
                      /\ f.cb \in Closures
                      /\ f.res \in Results
  /\ f.pc = "returned" => f.cb = None /\ f.res \in Results

\* The type invariant.  Beyond the shape of the variables it says that what
\* reaches the mutex has a decoded name and the box its operation needs:
\* no C entry point gets that far with a name cstr_to_string rejects.
TypeOK ==
  /\ callbacks \in [Names -> Callbacks \cup {None}]
  /\ guard \in Activations \cup {NoGuard}
  /\ poisoned \in BOOLEAN
  /\ frame \in [Activations -> Frame]
  /\ \A a \in Activations : FrameOK(frame[a])
  /\ alive \in BOOLEAN

\* Where the Rust drop rules let the guard live: from lock() to the end of
\* the operation, a destructor included unless the closure it destroys was
\* refused for poison or is the tail temporary of unregister_callback.
DestroysUnlocked(f) ==
  f.op = "unregister_callback" \/ f.res = PoisonReported(f.op)

HoldsGuard(f) ==
  f.pc \in {"locked", "run"} \/ (f.pc = "drop" /\ ~DestroysUnlocked(f))

\* Every operation that reaches the map owns the mutex for as long as it uses
\* it and on no path, return, early return or unwind, keeps it longer; so no
\* two activations, of one thread or of two, are inside the map together.
GuardDiscipline ==
  \A a \in Activations : guard = a <=> HoldsGuard(frame[a])

\* A box that f owns and will insert or destroy.  An invocation only borrows.
Owns(f, c) == f.pc \in {"lock", "locked", "drop"} /\ f.cb = c

\* Each boxed closure has one owner: an entry of the map, or the operation
\* that is about to insert it or is destroying it.  So no closure is
\* destroyed twice, and none that is being destroyed can still be invoked.
OwnedOnce ==
  \A c \in Callbacks :
    /\ \A m, n \in Names :
         callbacks[m] = c /\ callbacks[n] = c => m = n
    /\ \A n \in Names, a \in Activations :
         ~(callbacks[n] = c /\ Owns(frame[a], c))
    /\ \A a, b \in Activations :
         Owns(frame[a], c) /\ Owns(frame[b], c) => a = b

\* A callback that is running is still the one registered under the name it
\* was invoked by, whatever other threads and its own nested calls do: the
\* reference ffi_invoke_callback took from the map never dangles.
RunningIsRegistered ==
  \A a \in Activations :
    frame[a].pc = "run" => callbacks[frame[a].name] = frame[a].cb

\* A poisoned mutex is free: whoever poisoned it has let go of it, and every
\* later lock() reports poison and lets go at once.
PoisonedIsFree == poisoned => guard = NoGuard

\* With `panic = "abort"` nothing ever unwinds past a guard, so no caller
\* is ever told LockPoisoned and no panic is ever reported as a result.
AbortLeavesNoPoison ==
  /\ ~poisoned
  /\ \A a \in Activations :
       frame[a].res \notin {Unwound, Result("FfiResult", Code("Panic")),
                           Result("FfiResult", Code("LockPoisoned")),
                           Result("Err", Code("LockPoisoned"))}

-----------------------------------------------------------------------------
(***************************************************************************)
(* Action properties.                                                      *)
(***************************************************************************)

\* Poisoning is final and freezes the registry: no operation, nested or not,
\* inserts or removes an entry afterwards.
PoisonIsFinal == [][poisoned => poisoned' /\ callbacks' = callbacks]_vars

-----------------------------------------------------------------------------
(***************************************************************************)
(* Liveness.                                                               *)
(***************************************************************************)

\* If user code that runs under the lock gives control back and does not use
\* the registry itself, the mutex is never held for ever.
GuardReleased ==
  \A a \in Activations : guard = a ~> (guard # a \/ ~alive)

\* A poisoned registry never blocks: whoever waits for it gets through lock(),
\* and with it the report.
PoisonIsReported ==
  \A a \in Activations :
    poisoned /\ frame[a].pc = "lock" ~> (frame[a].pc # "lock" \/ ~alive)

-----------------------------------------------------------------------------
(***************************************************************************)
(* Statements of the source's comments and documents that the code does    *)
(* not keep.  Each is checked by a run that is expected to refute it.      *)
(***************************************************************************)

\* callback.rs: "Returns FFI_ERR_PANIC if the callback panics", for callbacks
\* registered from Rust.
PanicBecomesResult ==
  [][\A a \in Activations :
       frame[a].pc = "run" /\ frame[a].cb \in Closures => alive']_vars

\* README: "Registrations from any thread are safe"; the thread that is
\* running a callback is one.
NoSelfDeadlock ==
  ~\E a, b \in Activations :
     /\ a[1] = b[1]
     /\ guard = a
     /\ frame[b].pc = "lock"
=============================================================================
