------------------------ MODULE CallbackRegistryProofs ------------------------
(***************************************************************************)
(* Proofs about CallbackRegistry for any number of threads, names,         *)
(* closures and nested calls, and for both panic strategies.               *)
(*                                                                         *)
(* The inductive invariant is RegistryInvariant.  Its three parts depend   *)
(* on one another in one direction only: TypeOK alone, Locks (who holds    *)
(* the mutex) given TypeOK, Boxes (who owns and who runs a closure) given  *)
(* both; so each has a step lemma of its own.                              *)
(***************************************************************************)
EXTENDS CallbackRegistry, FiniteSetTheorems, TLAPS

-----------------------------------------------------------------------------
(***************************************************************************)
(* Results and codes.                                                      *)
(***************************************************************************)

\* The codes the registry itself reports, as numbers.
LEMMA CodeTypes ==
  /\ FfiErrorCode.Ok = 0
  /\ Code("NullPointer") = 1
  /\ Code("InvalidUtf8") = 3
  /\ Code("Panic") = 5
  /\ Code("NotFound") = 7
  /\ Code("LockPoisoned") = 8
  /\ Code("Unknown") = 99
BY DEF Code, FfiErrorCode

\* Everything an operation of the registry can answer is a Result.
LEMMA ResultTypes ==
  /\ Unwound \in Results
  /\ \A op \in Ops : Done(op) \in Results
  /\ \A op \in Ops : Absent(op) \in Results
  /\ \A op \in Ops : PoisonReported(op) \in Results
  /\ \A op \in Ops : \A n : Rejected(op, n) \in Results
  /\ \A code : Invoked(code) \in Results
  /\ Result("FfiResult", Code("NotFound")) \in Results
  /\ Result("FfiResult", Code("Panic")) \in Results
  /\ \A n \in Nat : Result("usize", n) \in Results
BY CodeTypes DEF Results, Result, Unwound, Done, Absent, PoisonReported, Rejected, Invoked

\* callback_count answers a number: the map is finite.
LEMMA CountType ==
  ASSUME RegistryAssumption
  PROVE  Cardinality(Registered) \in Nat
<1>1. IsFiniteSet(Registered)
  <2>1. Registered \subseteq Names
    BY DEF Registered
  <2>2. IsFiniteSet(Names)
    BY RegistryAssumption DEF RegistryAssumption
  <2> QED BY <2>1, <2>2, FS_Subset
<1> QED BY <1>1, FS_CardinalityType

-----------------------------------------------------------------------------
(***************************************************************************)
(* Type correctness.                                                       *)
(***************************************************************************)

\* Entering an operation, with a name that is valid or refused on the spot.
LEMMA EnterType ==
  ASSUME RegistryAssumption, TypeOK, NEW a \in Activations,
         NEW op \in Ops, NEW n, NEW c,
         Enter(a, op, n, c),
         n \notin BadNames => (op # "callback_count" => n \in Names),
         n \in Names \cup BadNames \cup {None},
         c \in CASE op = "register_callback"     -> Closures
                 [] op = "ffi_register_callback" -> CFunctions
                 [] OTHER                        -> {None}
  PROVE  TypeOK'
<1> DEFINE new == IF n \in BadNames
                    THEN [pc |-> "returned", op |-> op, name |-> n,
                          cb |-> None, res |-> Rejected(op, n)]
                    ELSE [pc |-> "lock", op |-> op, name |-> n,
                          cb |-> c, res |-> NoResult]
<1>1. new \in Frame /\ FrameOK(new)
  <2>1. CASE n \in BadNames
    BY <2>1, ResultTypes, RegistryAssumption
    DEF Frame, FrameOK, RegistryAssumption
  <2>2. CASE n \notin BadNames
    BY <2>2 DEF Frame, FrameOK, ArgumentsOK, Callbacks
  <2> QED BY <2>1, <2>2
<1>2. frame' = [frame EXCEPT ![a] = new]
  BY DEF Enter
<1> HIDE DEF new
<1> QED BY <1>1, <1>2 DEF TypeOK, Enter

\* The part of TypeOK about the activation records.
FramesOK ==
  frame \in [Activations -> Frame] /\ \A a \in Activations : FrameOK(frame[a])

\* Return leaves a well-formed record.
LEMMA ReturnType ==
  ASSUME FramesOK, NEW a \in Activations, NEW res \in Results, Return(a, res)
  PROVE  FramesOK'
<1> DEFINE new == [frame[a] EXCEPT !.pc = "returned", !.cb = None, !.res = res]
<1>1. new \in Frame /\ FrameOK(new)
  BY DEF FramesOK, Frame, FrameOK
<1>2. frame' = [frame EXCEPT ![a] = new]
  BY DEF Return, FramesOK
<1> HIDE DEF new
<1> QED BY <1>1, <1>2 DEF FramesOK

\* DropThenReturn leaves a well-formed record.
LEMMA DropType ==
  ASSUME FramesOK, NEW a \in Activations, NEW c \in Closures,
         NEW res \in Results,
         frame[a].op \in RegisterOps \cup UnregisterOps,
         frame[a].name \in Names,
         DropThenReturn(a, c, res)
  PROVE  FramesOK'
<1> DEFINE new == [frame[a] EXCEPT !.pc = "drop", !.cb = c, !.res = res]
<1>1. new \in Frame /\ FrameOK(new)
  BY DEF FramesOK, Frame, FrameOK, Callbacks
<1>2. frame' = [frame EXCEPT ![a] = new]
  BY DEF DropThenReturn, FramesOK
<1> HIDE DEF new
<1> QED BY <1>1, <1>2 DEF FramesOK

\* Every step preserves the type invariant.
LEMMA TypeStep ==
  ASSUME RegistryAssumption, TypeOK, [Next \/ Terminated]_vars
  PROVE  TypeOK'
<1>1. ASSUME NEW a \in Activations, Calls(a) PROVE TypeOK'
  <2>1. CASE RegisterCallback(a)
    BY <2>1, EnterType, RegistryAssumption DEF RegisterCallback, Ops, RegisterOps
  <2>2. CASE FfiRegisterCallback(a)
    BY <2>2, EnterType, RegistryAssumption DEF FfiRegisterCallback, Ops, RegisterOps
  <2>3. CASE UnregisterCallback(a)
    BY <2>3, EnterType, RegistryAssumption DEF UnregisterCallback, Ops, UnregisterOps
  <2>4. CASE FfiUnregisterCallback(a)
    BY <2>4, EnterType, RegistryAssumption DEF FfiUnregisterCallback, Ops, UnregisterOps
  <2>5. CASE FfiInvokeCallback(a)
    BY <2>5, EnterType, RegistryAssumption DEF FfiInvokeCallback, Ops
  <2>6. CASE CallbackCount(a)
    BY <2>6, EnterType, RegistryAssumption DEF CallbackCount, Ops
  <2> QED BY <1>1, <2>1, <2>2, <2>3, <2>4, <2>5, <2>6 DEF Calls
<1>2. ASSUME NEW a \in Activations, RegistrySteps(a) PROVE TypeOK'
  <2> frame[a] \in Frame /\ FrameOK(frame[a])
    BY DEF TypeOK
  <2>1. CASE Lock(a)
    BY <2>1, ResultTypes DEF TypeOK, Lock, MayLock, TakeGuard, ReportPoison,
       HasDestructor, DropThenReturn, Return, Frame, FrameOK, ArgumentsOK, Callbacks, Ops
  <2>2. CASE Insert(a)
    BY <2>2, ResultTypes DEF TypeOK, Insert, ReleaseGuard,
       HasDestructor, DropThenReturn, Return, Frame, FrameOK, ArgumentsOK, Callbacks, Ops, RegisterOps
  <2>3. CASE Remove(a)
    BY <2>3, ResultTypes DEF TypeOK, Remove, ReleaseGuard,
       HasDestructor, DropThenReturn, Return, Frame, FrameOK, ArgumentsOK, Callbacks, Ops, UnregisterOps
  <2>4. CASE Count(a)
    BY <2>4, ResultTypes, CountType, ReturnType, RegistryAssumption
    DEF TypeOK, FramesOK, Count, ReleaseGuard
  <2>5. CASE Lookup(a)
    BY <2>5, ResultTypes DEF TypeOK, Lookup, ReleaseGuard,
       Return, Frame, FrameOK, ArgumentsOK, Callbacks
  <2>6. CASE Consume(a)
    BY <2>6 DEF TypeOK, Consume, Idle, Frame, FrameOK
  <2> QED BY <1>2, <2>1, <2>2, <2>3, <2>4, <2>5, <2>6 DEF RegistrySteps
<1>3. ASSUME NEW a \in Activations, UserSteps(a) PROVE TypeOK'
  <2> frame[a] \in Frame /\ FrameOK(frame[a])
    BY DEF TypeOK
  <2>1. CASE CallbackReturns(a)
    BY <2>1, ResultTypes DEF TypeOK, CallbackReturns, ReleaseGuard, Return, Frame, FrameOK
  <2>2. CASE DropReturns(a)
    BY <2>2 DEF TypeOK, DropReturns, ReleaseGuard, Return, Frame, FrameOK
  <2>3. CASE CallbackPanics(a)
    BY <2>3, ResultTypes, ReturnType
    DEF TypeOK, FramesOK, CallbackPanics, UnwindGuard, ReleaseGuard, Abort
  <2>4. CASE DropPanics(a)
    BY <2>4, ResultTypes, ReturnType
    DEF TypeOK, FramesOK, DropPanics, UnwindGuard, ReleaseGuard, Abort
  <2> QED BY <1>3, <2>1, <2>2, <2>3, <2>4 DEF UserSteps
<1>4. CASE UNCHANGED vars
  BY <1>4 DEF vars, TypeOK
<1> QED BY <1>1, <1>2, <1>3, <1>4 DEF Next, Terminated

\* The type invariant holds initially.
LEMMA InitType == Init => TypeOK
<1>1. Idle \in Frame /\ FrameOK(Idle)
  BY DEF Idle, Frame, FrameOK
<1> QED BY <1>1 DEF Init, TypeOK

\* The type invariant: in particular no operation reaches the mutex with a
\* name that cstr_to_string rejects (callback.rs, ffi_register_callback,
\* ffi_invoke_callback and ffi_unregister_callback).
THEOREM TypeCorrect ==
  ASSUME RegistryAssumption
  PROVE  Spec => []TypeOK
<1>1. Init => TypeOK
  BY InitType
<1>2. TypeOK /\ [Next \/ Terminated]_vars => TypeOK'
  BY RegistryAssumption, TypeStep
<1> QED BY <1>1, <1>2, PTL DEF Spec

-----------------------------------------------------------------------------
(***************************************************************************)
(* The mutex.                                                              *)
(***************************************************************************)

\* An operation that found the map never answers as one that found poison:
\* its record tells whether it destroys a closure with or without the guard.
LEMMA DoneIsNotPoison ==
  \A op \in RegisterOps \cup {"ffi_unregister_callback"} :
    Done(op) # PoisonReported(op) /\ Absent(op) # PoisonReported(op)
BY CodeTypes DEF RegisterOps, Done, Absent, PoisonReported, Result

\* The part of the inductive invariant about the mutex.
Locks == GuardDiscipline /\ PoisonedIsFree

\* Every step preserves it: one case per action.
LEMMA GuardStep ==
  ASSUME RegistryAssumption, TypeOK, Locks, [Next \/ Terminated]_vars
  PROVE  Locks'
<1> USE DEF Locks, GuardDiscipline, PoisonedIsFree
<1>0. NoGuard \notin Activations
  BY DEF RegistryAssumption
<1>1. ASSUME NEW a \in Activations, Calls(a) PROVE Locks'
  <2>1. PICK op, n, c : Enter(a, op, n, c)
    BY <1>1 DEF Calls, RegisterCallback, FfiRegisterCallback,
       UnregisterCallback, FfiUnregisterCallback, FfiInvokeCallback, CallbackCount
  <2>2. ~HoldsGuard(frame[a]) /\ ~HoldsGuard(frame'[a])
    BY <2>1 DEF TypeOK, Enter, MayCall, HoldsGuard
  <2>3. \A b \in Activations : b # a => frame'[b] = frame[b]
    BY <2>1 DEF TypeOK, Enter
  <2> QED BY <2>1, <2>2, <2>3 DEF Enter
<1>2. ASSUME NEW a \in Activations, RegistrySteps(a) PROVE Locks'
  <2>0. FrameOK(frame[a]) /\ frame \in [Activations -> Frame]
    BY DEF TypeOK
  <2>1. CASE Lock(a)
    <3>1. CASE poisoned
      BY <1>0, <2>0, <2>1, <3>1 DEF Lock, MayLock, TakeGuard, ReportPoison,
         DropThenReturn, Return, HoldsGuard, DestroysUnlocked, Frame
    <3>2. CASE ~poisoned
      BY <1>0, <2>0, <2>1, <3>2 DEF Lock, MayLock, TakeGuard, ReportPoison, HoldsGuard, Frame
    <3> QED BY <3>1, <3>2
  <2>2. CASE Insert(a)
    BY <1>0, <2>0, <2>2, DoneIsNotPoison DEF Insert, ReleaseGuard, DropThenReturn, Return,
       HoldsGuard, DestroysUnlocked, Frame, RegisterOps
  <2>3. CASE Remove(a)
    BY <1>0, <2>0, <2>3, DoneIsNotPoison DEF Remove, ReleaseGuard, DropThenReturn, Return,
       HoldsGuard, DestroysUnlocked, Frame, UnregisterOps
  <2>4. CASE Count(a)
    BY <1>0, <2>0, <2>4 DEF Count, ReleaseGuard, Return, HoldsGuard, Frame
  <2>5. CASE Lookup(a)
    BY <1>0, <2>0, <2>5 DEF Lookup, ReleaseGuard, Return, HoldsGuard, Frame
  <2>6. CASE Consume(a)
    BY <1>0, <2>0, <2>6 DEF Consume, Idle, HoldsGuard, Frame
  <2> QED BY <1>2, <2>1, <2>2, <2>3, <2>4, <2>5, <2>6 DEF RegistrySteps
<1>3. ASSUME NEW a \in Activations, UserSteps(a) PROVE Locks'
  <2>0. FrameOK(frame[a]) /\ frame \in [Activations -> Frame]
    BY DEF TypeOK
  <2>1. CASE CallbackReturns(a)
    BY <1>0, <2>0, <2>1 DEF CallbackReturns, ReleaseGuard, Return, HoldsGuard, Frame
  <2>2. CASE DropReturns(a)
    BY <1>0, <2>0, <2>2 DEF DropReturns, ReleaseGuard, Return, HoldsGuard, Frame
  <2>3. CASE CallbackPanics(a) \/ DropPanics(a)
    <3>1. CASE Abort
      BY <3>1 DEF Abort
    <3>2. CASE UnwindGuard(a) /\ \E res : Return(a, res)
      <4>1. PoisonedIsFree'
        BY <1>0, <3>2 DEF UnwindGuard, ReleaseGuard
      <4>2. GuardDiscipline'
        BY <1>0, <2>0, <3>2 DEF UnwindGuard, ReleaseGuard, Return, HoldsGuard, Frame
      <4> QED BY <4>1, <4>2
    <3> QED BY <2>3, <3>1, <3>2 DEF CallbackPanics, DropPanics
  <2> QED BY <1>3, <2>1, <2>2, <2>3 DEF UserSteps
<1>4. CASE UNCHANGED vars
  BY <1>4 DEF vars
<1> QED BY <1>1, <1>2, <1>3, <1>4 DEF Next, Terminated

-----------------------------------------------------------------------------
(***************************************************************************)
(* The closures.                                                           *)
(***************************************************************************)

\* The part of the inductive invariant about the boxed closures.
Boxes == OwnedOnce /\ RunningIsRegistered

\* Every step preserves it.  Insert and Remove need the guard: while they run
\* no other activation is in a callback.
LEMMA BoxStep ==
  ASSUME RegistryAssumption, TypeOK, Locks, Boxes, [Next \/ Terminated]_vars
  PROVE  Boxes'
<1> USE DEF Boxes, OwnedOnce, RunningIsRegistered
<1>0. /\ None \notin Callbacks
      /\ callbacks \in [Names -> Callbacks \cup {None}]
      /\ frame \in [Activations -> Frame]
      /\ \A a \in Activations : FrameOK(frame[a])
  BY DEF RegistryAssumption, TypeOK
<1>1. ASSUME NEW a \in Activations, Calls(a) PROVE Boxes'
  <2>1. PICK op, n, c : Enter(a, op, n, c) /\ (c # None => Fresh(c))
    BY <1>1 DEF Calls, RegisterCallback, FfiRegisterCallback,
       UnregisterCallback, FfiUnregisterCallback, FfiInvokeCallback, CallbackCount
  <2>2. /\ \A b \in Activations : b # a => frame'[b] = frame[b]
        /\ frame'[a].cb \in {c, None} /\ frame'[a].pc # "run"
        /\ callbacks' = callbacks
    BY <1>0, <2>1 DEF Enter
  <2>3. RunningIsRegistered'
    BY <2>2
  <2>4. OwnedOnce'
    BY <1>0, <2>1, <2>2 DEF Fresh, Owns
  <2> QED BY <2>3, <2>4
<1>2. ASSUME NEW a \in Activations, RegistrySteps(a) PROVE Boxes'
  <2>1. CASE Lock(a)
    BY <1>0, <2>1 DEF Lock, MayLock, TakeGuard, ReportPoison, HasDestructor,
         DropThenReturn, Return, Owns, Frame
  <2>2. CASE Insert(a)
    BY <1>0, <2>2 DEF Insert, Locks, GuardDiscipline, HoldsGuard, HasDestructor,
       DropThenReturn, Return, Owns, Frame, FrameOK, ArgumentsOK, Callbacks, RegisterOps
  <2>3. CASE Remove(a)
    BY <1>0, <2>3 DEF Remove, Locks, GuardDiscipline, HoldsGuard, HasDestructor,
       DropThenReturn, Return, Owns, Frame, FrameOK, ArgumentsOK, Callbacks, UnregisterOps
  <2>4. CASE Count(a)
    BY <1>0, <2>4 DEF Count, Return, Owns, Frame
  <2>5. CASE Lookup(a)
    <3>1. /\ callbacks' = callbacks
          /\ \A b \in Activations : b # a => frame'[b] = frame[b]
          /\ frame'[a].pc \in {"run", "returned"}
          /\ frame'[a].pc = "run" => /\ frame'[a].name = frame[a].name
                                    /\ frame'[a].cb = callbacks[frame[a].name]
      BY <1>0, <2>5 DEF Lookup, Return, Frame
    <3> QED BY <3>1 DEF Owns
  <2>6. CASE Consume(a)
    BY <1>0, <2>6 DEF Consume, Idle, Owns, Frame
  <2> QED BY <1>2, <2>1, <2>2, <2>3, <2>4, <2>5, <2>6 DEF RegistrySteps
<1>3. ASSUME NEW a \in Activations, UserSteps(a) PROVE Boxes'
  <2>1. CASE Abort
    BY <2>1 DEF Abort, Owns
  <2>2. CASE callbacks' = callbacks /\ \E res : Return(a, res)
    BY <1>0, <2>2 DEF Return, Owns, Frame
  <2> QED BY <1>3, <2>1, <2>2
      DEF UserSteps, CallbackReturns, DropReturns, CallbackPanics, DropPanics
<1>4. CASE UNCHANGED vars
  BY <1>4 DEF vars, Owns
<1> QED BY <1>1, <1>2, <1>3, <1>4 DEF Next, Terminated

-----------------------------------------------------------------------------
(***************************************************************************)
(* The theorems.                                                           *)
(***************************************************************************)

\* The inductive invariant of the registry.
RegistryInvariant == TypeOK /\ Locks /\ Boxes

\* It holds in every reachable state.
LEMMA InvariantHolds ==
  ASSUME RegistryAssumption
  PROVE  Spec => []RegistryInvariant
<1>1. Init => RegistryInvariant
  <2>1. Init => TypeOK
    BY InitType
  <2>2. Init => Locks /\ Boxes
    BY DEF Init, Locks, Boxes, GuardDiscipline, PoisonedIsFree, OwnedOnce,
       RunningIsRegistered, HoldsGuard, Owns, Idle, RegistryAssumption
  <2> QED BY <2>1, <2>2 DEF RegistryInvariant
<1>2. RegistryInvariant /\ [Next \/ Terminated]_vars => RegistryInvariant'
  BY RegistryAssumption, TypeStep, GuardStep, BoxStep DEF RegistryInvariant
<1> QED BY <1>1, <1>2, PTL DEF Spec

\* The mutex is held exactly by the operation that is using the map or running
\* user code under the lock, on every return, early return and unwind; and a
\* poisoned mutex is free (the MutexGuard scopes of callback.rs).
THEOREM MutualExclusion ==
  ASSUME RegistryAssumption
  PROVE  Spec => [](GuardDiscipline /\ PoisonedIsFree)
BY InvariantHolds, PTL DEF RegistryInvariant, Locks

\* Whoever poisons the mutex has let go of it, so that no later lock() waits
\* for ever: each reports the poison (the PoisonError branches of callback.rs).
THEOREM PoisonLeavesFree ==
  ASSUME RegistryAssumption
  PROVE  Spec => []PoisonedIsFree
BY InvariantHolds, PTL DEF RegistryInvariant, Locks

\* Every boxed closure has at most one owner, so none is destroyed twice or
\* registered while it is being destroyed (Box moves through insert/remove).
THEOREM SingleOwnership ==
  ASSUME RegistryAssumption
  PROVE  Spec => []OwnedOnce
BY InvariantHolds, PTL DEF RegistryInvariant, Boxes

\* The callback that ffi_invoke_callback runs stays registered, and therefore
\* alive, until it gives control back.
THEOREM NoDanglingCallback ==
  ASSUME RegistryAssumption
  PROVE  Spec => []RunningIsRegistered
BY InvariantHolds, PTL DEF RegistryInvariant, Boxes

\* Once a panic has poisoned the mutex the map never changes again.
THEOREM PoisonFinality ==
  ASSUME RegistryAssumption
  PROVE  Spec => PoisonIsFinal
<1>1. RegistryInvariant /\ [Next \/ Terminated]_vars
        => [poisoned => poisoned' /\ callbacks' = callbacks]_vars
  <2> SUFFICES ASSUME RegistryInvariant, [Next \/ Terminated]_vars, poisoned
               PROVE  poisoned' /\ callbacks' = callbacks
    OBVIOUS
  <2>1. \A a \in Activations : frame[a].pc # "locked"
    BY DEF RegistryInvariant, Locks, GuardDiscipline, PoisonedIsFree, HoldsGuard, RegistryAssumption
  <2> QED
    BY <2>1 DEF Next, Terminated, vars, Calls, RegistrySteps, UserSteps,
      RegisterCallback, FfiRegisterCallback, UnregisterCallback,
      FfiUnregisterCallback, FfiInvokeCallback, CallbackCount, Enter,
      Lock, Insert, Remove, Count, Lookup, Consume, CallbackReturns,
      DropReturns, CallbackPanics, DropPanics, UnwindGuard, Abort
<1> QED BY <1>1, InvariantHolds, PTL DEF PoisonIsFinal, Spec

\* Without unwinding there is no poison and no result that reports a panic:
\* the shipped release profile has `panic = "abort"`.
THEOREM AbortProfile ==
  ASSUME RegistryAssumption, PanicStrategy = "abort"
  PROVE  Spec => []AbortLeavesNoPoison
<1> DEFINE PanicResults == {Unwound, Result("FfiResult", Code("Panic")),
                            Result("FfiResult", Code("LockPoisoned")),
                            Result("Err", Code("LockPoisoned"))}
           Inv == TypeOK /\ AbortLeavesNoPoison
<1>0. /\ \A op \in Ops : Done(op) \notin PanicResults /\ Absent(op) \notin PanicResults
      /\ \A op \in Ops : \A n : Rejected(op, n) \notin PanicResults
      /\ \A code : Invoked(code) \notin PanicResults
      /\ \A n : Result("usize", n) \notin PanicResults
      /\ Result("FfiResult", Code("NotFound")) \notin PanicResults
      /\ NoResult \notin PanicResults
  BY CodeTypes DEF Done, Absent, Rejected, Invoked, Result, NoResult, Unwound
<1>1. Init => Inv
  BY InitType, <1>0 DEF Init, AbortLeavesNoPoison, Idle
<1>2. Inv /\ [Next \/ Terminated]_vars => Inv'
  <2> SUFFICES ASSUME Inv, [Next \/ Terminated]_vars PROVE AbortLeavesNoPoison'
    BY RegistryAssumption, TypeStep
  <2>0. /\ frame \in [Activations -> Frame]
        /\ ~poisoned
        /\ \A b \in Activations : FrameOK(frame[b]) /\ frame[b].res \notin PanicResults
    BY DEF TypeOK, AbortLeavesNoPoison
  <2> SUFFICES ~poisoned' /\ \A b \in Activations : frame'[b].res \notin PanicResults
    BY DEF AbortLeavesNoPoison
  <2> HIDE DEF PanicResults
  <2>1. ASSUME NEW a \in Activations, Calls(a)
        PROVE ~poisoned' /\ \A b \in Activations : frame'[b].res \notin PanicResults
    <3>1. PICK op, n, c : op \in Ops /\ Enter(a, op, n, c)
      BY <2>1 DEF Calls, RegisterCallback, FfiRegisterCallback, UnregisterCallback,
         FfiUnregisterCallback, FfiInvokeCallback, CallbackCount,
         Ops, RegisterOps, UnregisterOps
    <3> QED BY <1>0, <2>0, <3>1 DEF Enter
  <2>2. ASSUME NEW a \in Activations, RegistrySteps(a)
        PROVE ~poisoned' /\ \A b \in Activations : frame'[b].res \notin PanicResults
    <3>1. ~poisoned'
      BY <2>0, <2>2 DEF RegistrySteps, Lock, Insert, Remove, Count, Lookup, Consume
    <3>2. CASE Lock(a)
      BY <2>0, <3>2 DEF Lock, MayLock, TakeGuard, Frame
    <3>3. CASE \E res : res \notin PanicResults
                        /\ (Return(a, res) \/ \E c : DropThenReturn(a, c, res))
      <4>1. PICK res : /\ res \notin PanicResults
                       /\ Return(a, res) \/ \E c : DropThenReturn(a, c, res)
        BY <3>3
      <4>2. CASE Return(a, res)
        BY <2>0, <3>1, <4>1, <4>2 DEF Return, Frame
      <4>3. ASSUME NEW c, DropThenReturn(a, c, res)
            PROVE  \A b \in Activations : frame'[b].res \notin PanicResults
        <5>1. frame'[a].res = res
          BY <2>0, <4>3 DEF DropThenReturn, Frame
        <5>2. \A b \in Activations : b # a => frame'[b] = frame[b]
          BY <2>0, <4>3 DEF DropThenReturn
        <5> QED BY <2>0, <4>1, <5>1, <5>2
      <4> QED BY <3>1, <4>1, <4>2, <4>3
    <3>4. CASE Insert(a) \/ Remove(a) \/ Count(a)
      <4>1. CASE Insert(a)
        BY <1>0, <3>1, <3>3, <4>1 DEF Insert, Ops
      <4>2. CASE Remove(a)
        BY <1>0, <3>1, <3>3, <4>2 DEF Remove, Ops
      <4>3. CASE Count(a)
        BY <1>0, <3>1, <3>3, <4>3 DEF Count
      <4> QED BY <3>4, <4>1, <4>2, <4>3
    <3>5. CASE Lookup(a)
      BY <1>0, <2>0, <3>5 DEF Lookup, Return, Frame
    <3>6. CASE Consume(a)
      BY <1>0, <2>0, <3>6 DEF Consume, Idle, Frame
    <3> QED BY <2>2, <3>1, <3>2, <3>4, <3>5, <3>6 DEF RegistrySteps
  <2>3. ASSUME NEW a \in Activations, UserSteps(a)
        PROVE ~poisoned' /\ \A b \in Activations : frame'[b].res \notin PanicResults
    <3>1. CASE CallbackReturns(a)
      BY <1>0, <2>0, <3>1 DEF CallbackReturns, Return, Frame
    <3>2. CASE DropReturns(a)
      BY <2>0, <3>2 DEF DropReturns, Return, Frame
    <3>3. CASE CallbackPanics(a) \/ DropPanics(a)
      BY <2>0, <3>3 DEF CallbackPanics, DropPanics, Abort
    <3> QED BY <2>3, <3>1, <3>2, <3>3 DEF UserSteps
  <2>4. CASE UNCHANGED vars
    BY <2>0, <2>4 DEF vars
  <2> QED BY <2>1, <2>2, <2>3, <2>4 DEF Next, Terminated
<1> QED BY <1>1, <1>2, PTL DEF Spec
=============================================================================
