----------------------- MODULE RegistryRefinementProofs -----------------------
(***************************************************************************)
(* A proof that CallbackRegistry implements RegistrySpec, for any number   *)
(* of threads, names, closures and nested calls: the mapping of            *)
(* RegistryRefinement takes the initial state to the initial state, and    *)
(* every step to a step of the atomic registry or to none.                 *)
(*                                                                         *)
(* The mapping needs RegistryInvariant and one fact more, Drops: what an   *)
(* operation has left to do while it destroys a closure.                   *)
(***************************************************************************)
EXTENDS RegistryRefinement, CallbackRegistryProofs

-----------------------------------------------------------------------------
(***************************************************************************)
(* The rest of the inductive invariant.                                    *)
(***************************************************************************)

\* A destructor that runs under the lock runs for an operation that has done
\* its work; one that runs without it, for one of the two Rust functions.
DropOK(f, locked, entry) ==
  f.pc = "drop" =>
    IF locked
      THEN /\ f.op \in RegisterOps \cup {"ffi_unregister_callback"}
           /\ f.res = Done(f.op)
           /\ f.op = "ffi_unregister_callback" => entry = None
      ELSE f.op \in {"register_callback", "unregister_callback"}

Drops ==
  \A a \in Activations : DropOK(frame[a], guard = a, callbacks[frame[a].name])

\* The box an operation brings to the mutex.
LEMMA ArgumentBox ==
  ASSUME RegistryAssumption, NEW f, ArgumentsOK(f)
  PROVE  /\ f.op = "register_callback" => f.cb \in Closures
         /\ f.op = "ffi_register_callback" => f.cb \in CFunctions
         /\ f.op \notin RegisterOps => f.cb = None
         /\ f.cb \in Closures => f.op = "register_callback"
<1>1. f.op = "register_callback" => f.cb \in Closures
  BY Zenon DEF ArgumentsOK
<1>2. f.op = "ffi_register_callback" => f.cb \in CFunctions
  BY DEF ArgumentsOK
<1>3. f.op \notin RegisterOps => f.cb = None
  BY DEF ArgumentsOK, RegisterOps
<1> QED BY <1>1, <1>2, <1>3 DEF RegistryAssumption, Callbacks, RegisterOps

\* Every step preserves it: while a destructor runs under the lock nobody
\* else changes the map.
LEMMA DropsStep ==
  ASSUME RegistryAssumption, RegistryInvariant, Drops, [Next \/ Terminated]_vars
  PROVE  Drops'
<1> USE DEF Drops, DropOK
<1>0. /\ frame \in [Activations -> Frame]
      /\ \A a \in Activations : FrameOK(frame[a])
      /\ \A a \in Activations : guard = a <=> HoldsGuard(frame[a])
      /\ NoGuard \notin Activations
      /\ callbacks \in [Names -> Callbacks \cup {None}]
  BY DEF RegistryInvariant, TypeOK, Locks, GuardDiscipline, RegistryAssumption
<1>1. ASSUME NEW a \in Activations, Calls(a) PROVE Drops'
  <2>1. PICK op, n, c : Enter(a, op, n, c)
    BY <1>1 DEF Calls, RegisterCallback, FfiRegisterCallback,
       UnregisterCallback, FfiUnregisterCallback, FfiInvokeCallback, CallbackCount
  <2>2. frame'[a].pc # "drop" /\ \A b \in Activations : b # a => frame'[b] = frame[b]
    BY <1>0, <2>1 DEF Enter
  <2> QED BY <2>1, <2>2 DEF Enter
<1>2. ASSUME NEW a \in Activations, RegistrySteps(a) PROVE Drops'
  <2>0. \A b \in Activations : b # a /\ frame[a].pc = "locked" => guard # b
    BY <1>0 DEF HoldsGuard
  <2>1. CASE Lock(a)
    <3>1. frame[a].cb \in Closures => frame[a].op = "register_callback"
      BY <1>0, <2>1, ArgumentBox DEF Lock, MayLock, FrameOK
    <3>2. CASE poisoned
      BY <1>0, <2>1, <3>1, <3>2 DEF Lock, MayLock, TakeGuard, ReportPoison, HasDestructor,
         DropThenReturn, Return, Frame
    <3>3. CASE ~poisoned
      BY <1>0, <2>1, <3>3 DEF Lock, MayLock, TakeGuard, ReportPoison, Frame
    <3> QED BY <3>2, <3>3
  <2>2. CASE Insert(a)
    BY <1>0, <2>0, <2>2 DEF Insert, ReleaseGuard, HasDestructor, DropThenReturn,
       Return, HoldsGuard, Frame, FrameOK, ArgumentsOK, RegisterOps
  <2>3. CASE Remove(a)
    BY <1>0, <2>0, <2>3 DEF Remove, ReleaseGuard, HasDestructor, DropThenReturn,
       Return, HoldsGuard, Frame, FrameOK, ArgumentsOK, UnregisterOps,
       RegistryAssumption, Callbacks
  <2>4. CASE Count(a)
    BY <1>0, <2>0, <2>4 DEF Count, ReleaseGuard, Return, Frame
  <2>5. CASE Lookup(a)
    BY <1>0, <2>0, <2>5 DEF Lookup, ReleaseGuard, Return, Frame
  <2>6. CASE Consume(a)
    BY <1>0, <2>6 DEF Consume, Idle, Frame
  <2> QED BY <1>2, <2>1, <2>2, <2>3, <2>4, <2>5, <2>6 DEF RegistrySteps
<1>3. ASSUME NEW a \in Activations, UserSteps(a) PROVE Drops'
  <2>1. CASE Abort
    BY <2>1 DEF Abort
  <2>2. CASE callbacks' = callbacks /\ ReleaseGuard(a) /\ \E res : Return(a, res)
    BY <1>0, <2>2 DEF ReleaseGuard, Return, Frame
  <2> QED BY <1>3, <2>1, <2>2
      DEF UserSteps, CallbackReturns, DropReturns, CallbackPanics, DropPanics, UnwindGuard
<1>4. CASE UNCHANGED vars
  BY <1>4 DEF vars
<1> QED BY <1>1, <1>2, <1>3, <1>4 DEF Next, Terminated

\* The inductive invariant of the refinement.
RefinementInvariant == RegistryInvariant /\ Drops

\* The whole invariant always holds.
LEMMA RefinementInvariantHolds ==
  ASSUME RegistryAssumption
  PROVE  Spec => []RefinementInvariant
<1>1. Init => Drops
  BY DEF Init, Drops, DropOK, Idle
<1>2. RegistryInvariant /\ Drops /\ [Next \/ Terminated]_vars => Drops'
  BY DropsStep, RegistryAssumption
<1> QED BY <1>1, <1>2, InvariantHolds, PTL DEF Spec, RefinementInvariant

-----------------------------------------------------------------------------
(***************************************************************************)
(* The mapping, case by case.                                              *)
(***************************************************************************)

\* AbstractPhase and AbstractCall of an activation with record f.
PhaseOf(f, locked) ==
  IF f.pc = "idle" THEN "idle"
  ELSE IF f.pc = "returned" THEN "returned"
  ELSE IF f.pc = "drop" /\ ~locked THEN "dropping"
  ELSE "called"

CallOf(f, locked, entry) ==
  [phase |-> PhaseOf(f, locked),
   op    |-> f.op,
   name  |-> f.name,
   cb    |-> IF f.pc = "run" THEN None
             ELSE IF f.pc = "drop" /\ locked THEN entry
             ELSE f.cb,
   res   |-> IF PhaseOf(f, locked) = "called" THEN NoResult ELSE f.res]

\* The abstract call depends on the activation's record, on whether it holds
\* the guard, and on the entry under its name; in this state
LEMMA MappedCall ==
  ASSUME NEW a
  PROVE  AbstractCall(a) = CallOf(frame[a], guard = a, callbacks[frame[a].name])
<1> DEFINE f == frame[a]
<1>1. AbstractPhase(a) = PhaseOf(f, guard = a)
  BY Zenon DEF AbstractPhase, PhaseOf
<1> QED BY <1>1, Zenon DEF AbstractCall, CallOf

\* and in the next.
LEMMA MappedCallPrime ==
  ASSUME NEW a
  PROVE  AbstractCall(a)' = CallOf(frame'[a], guard' = a, callbacks'[frame'[a].name])
<1> DEFINE f == frame'[a]
<1>1. AbstractPhase(a)' = PhaseOf(f, guard' = a)
  BY Zenon DEF AbstractPhase, PhaseOf
<1> QED BY <1>1, Zenon DEF AbstractCall, CallOf

\* The state function substituted for call.
MappedCalls == [a \in Activations |-> AbstractCall(a)]

\* The calls of the other activations.
OthersKept(a) == \A b \in Activations : b # a => AbstractCall(b)' = AbstractCall(b)

\* A step of one activation updates one abstract call.
LEMMA MappedUpdate ==
  ASSUME NEW a \in Activations, NEW new, OthersKept(a), AbstractCall(a)' = new
  PROVE  MappedCalls' = [MappedCalls EXCEPT ![a] = new]
<1>1. MappedCalls' = [b \in Activations |-> AbstractCall(b)']
  BY DEF MappedCalls
<1>2. [MappedCalls EXCEPT ![a] = new]
        = [b \in Activations |-> IF b = a THEN new ELSE AbstractCall(b)]
  BY DEF MappedCalls
<1>3. \A b \in Activations : AbstractCall(b)' = IF b = a THEN new ELSE AbstractCall(b)
  BY DEF OthersKept
<1> QED BY <1>1, <1>2, <1>3

-----------------------------------------------------------------------------
(***************************************************************************)
(* The steps of the atomic registry, from what they do to the mapping.     *)
(***************************************************************************)

\* The update of a record of the atomic registry, field by field.
Updated(old, phase, cb, res) == [old EXCEPT !.phase = phase, !.cb = cb, !.res = res]

\* An update of a record of calls, field by field.
LEMMA CallUpdate ==
  ASSUME NEW old, NEW p, NEW o, NEW n, NEW c, NEW r,
         old = [phase |-> p, op |-> o, name |-> n, cb |-> c, res |-> r],
         NEW phase, NEW cb, NEW res
  PROVE  Updated(old, phase, cb, res)
           = [phase |-> phase, op |-> o, name |-> n, cb |-> cb, res |-> res]
<1> DEFINE Fields == {"phase", "op", "name", "cb", "res"}
           new    == Updated(old, phase, cb, res)
<1>1. old.op = o /\ old.name = n
  OBVIOUS
<1>2. DOMAIN old = Fields
  OBVIOUS
<1>3. new = [x \in Fields |-> IF x = "res" THEN res ELSE IF x = "cb" THEN cb
                             ELSE IF x = "phase" THEN phase ELSE old[x]]
  BY <1>2 DEF Updated
<1> QED BY <1>1, <1>3

\* When nothing abstract changes the atomic registry takes no step.
LEMMA StutterStep ==
  ASSUME NEW a \in Activations, OthersKept(a), AbstractCall(a)' = AbstractCall(a),
         AbstractTable' = AbstractTable, poisoned' = poisoned, alive' = alive
  PROVE  UNCHANGED RS!vars
<1>1. MappedCalls' = MappedCalls
  BY DEF MappedCalls, OthersKept
<1> QED BY <1>1 DEF RS!vars, MappedCalls

\* A change of the table that is an effect of the call is its instant.
LEMMA TakeEffectStep ==
  ASSUME NEW a \in Activations, alive, alive' = alive, OthersKept(a),
         AbstractCall(a).phase = "called",
         NEW e \in RS!Effects(AbstractCall(a).op, AbstractCall(a).name, AbstractCall(a).cb),
         AbstractTable' = e.table, poisoned' = e.poisoned,
         AbstractCall(a)' = [phase |-> IF e.drop = None THEN "returned" ELSE "dropping",
                             op    |-> AbstractCall(a).op,
                             name  |-> AbstractCall(a).name,
                             cb    |-> e.drop,
                             res   |-> e.res]
  PROVE  RS!Next
<1> DEFINE next == IF e.drop = None THEN "returned" ELSE "dropping"
           new  == [phase |-> next, op |-> AbstractCall(a).op,
                    name |-> AbstractCall(a).name, cb |-> e.drop, res |-> e.res]
<1>1. MappedCalls' = [MappedCalls EXCEPT ![a] = new]
  BY MappedUpdate
<1>2. MappedCalls[a] = AbstractCall(a)
  BY DEF MappedCalls
<1> HIDE DEF next
<1>3. new = [AbstractCall(a) EXCEPT !.phase = next, !.cb = e.drop, !.res = e.res]
  <2>1. PICK p, o, n, c, r :
          AbstractCall(a) = [phase |-> p, op |-> o, name |-> n, cb |-> c, res |-> r]
    BY MappedCall DEF CallOf
  <2>2. AbstractCall(a).op = o /\ AbstractCall(a).name = n
    BY <2>1
  <2>3. Updated(AbstractCall(a), next, e.drop, e.res)
          = [phase |-> next, op |-> o, name |-> n, cb |-> e.drop, res |-> e.res]
    BY <2>1, CallUpdate
  <2> QED BY <2>2, <2>3 DEF Updated
<1>4. [MappedCalls EXCEPT ![a] = new]
        = [MappedCalls EXCEPT ![a].phase = next, ![a].cb = e.drop, ![a].res = e.res]
  BY <1>2, <1>3 DEF MappedCalls
<1> HIDE DEF new
<1>5. MappedCalls' = [MappedCalls EXCEPT ![a].phase = next, ![a].cb = e.drop, ![a].res = e.res]
  BY <1>1, <1>4
<1>6. RS!TakeEffect(a)
  BY <1>2, <1>5 DEF RS!TakeEffect, MappedCalls, next
<1> QED BY <1>6 DEF RS!Next

\* A call that becomes active has begun.
LEMMA BeginStep ==
  ASSUME NEW a \in Activations, alive, alive' = alive, OthersKept(a),
         AbstractTable' = AbstractTable, poisoned' = poisoned,
         AbstractCall(a).phase = "idle",
         NEW op, NEW n, NEW c,
         AbstractCall(a)' =
           IF n \in BadNames
             THEN [phase |-> "returned", op |-> op, name |-> n, cb |-> None,
                   res |-> Rejected(op, n)]
             ELSE [phase |-> "called", op |-> op, name |-> n, cb |-> c,
                   res |-> NoResult]
  PROVE  RS!Begin(a, op, n, c)
<1> DEFINE new == IF n \in BadNames
             THEN [phase |-> "returned", op |-> op, name |-> n, cb |-> None,
                   res |-> RS!Rejected(op, n)]
             ELSE [phase |-> "called", op |-> op, name |-> n, cb |-> c,
                   res |-> RS!NoResult]
<1>0. RS!Rejected(op, n) = Rejected(op, n) /\ RS!NoResult = NoResult
  BY DEF RS!Rejected, Rejected, RS!NoResult, NoResult, RS!Result, Result, RS!Code, Code,
     RS!FfiErrorCode, FfiErrorCode
<1>1. MappedCalls' = [MappedCalls EXCEPT ![a] = new]
  BY <1>0, MappedUpdate
<1>2. MappedCalls[a] = AbstractCall(a)
  BY DEF MappedCalls
<1> HIDE DEF new
<1> QED BY <1>1, <1>2 DEF RS!Begin, MappedCalls, new

\* A call that becomes idle has finished.
LEMMA FinishStep ==
  ASSUME NEW a \in Activations, alive, alive' = alive, OthersKept(a),
         AbstractTable' = AbstractTable, poisoned' = poisoned,
         AbstractCall(a).phase = "returned",
         AbstractCall(a)' = RS!NoCall
  PROVE  RS!Next
<1>1. MappedCalls' = [MappedCalls EXCEPT ![a] = RS!NoCall]
  BY MappedUpdate
<1>2. MappedCalls[a] = AbstractCall(a)
  BY DEF MappedCalls
<1>3. RS!Finish(a)
  BY <1>1, <1>2 DEF RS!Finish, MappedCalls
<1> QED BY <1>3 DEF RS!Next

\* A destructor that ran without the lock has finished.
LEMMA FinishDropStep ==
  ASSUME NEW a \in Activations, alive, alive' = alive, OthersKept(a),
         AbstractTable' = AbstractTable, poisoned' = poisoned,
         AbstractCall(a).phase = "dropping",
         NEW res,
         res = AbstractCall(a).res \/ (PanicStrategy = "unwind" /\ res = RS!Unwound),
         AbstractCall(a)' = [phase |-> "returned", op |-> AbstractCall(a).op,
                             name |-> AbstractCall(a).name, cb |-> None, res |-> res]
  PROVE  RS!Next
<1> DEFINE new == [phase |-> "returned", op |-> AbstractCall(a).op,
                   name |-> AbstractCall(a).name, cb |-> None, res |-> res]
<1>1. MappedCalls' = [MappedCalls EXCEPT ![a] = new]
  BY MappedUpdate
<1>2. MappedCalls[a] = AbstractCall(a)
  BY DEF MappedCalls
<1>3. new = [AbstractCall(a) EXCEPT !.phase = "returned", !.cb = None, !.res = res]
  <2>1. PICK p, o, n, c, r :
          AbstractCall(a) = [phase |-> p, op |-> o, name |-> n, cb |-> c, res |-> r]
    BY MappedCall DEF CallOf
  <2>2. AbstractCall(a).op = o /\ AbstractCall(a).name = n
    BY <2>1
  <2>3. Updated(AbstractCall(a), "returned", None, res)
          = [phase |-> "returned", op |-> o, name |-> n, cb |-> None, res |-> res]
    BY <2>1, CallUpdate
  <2> QED BY <2>2, <2>3 DEF Updated
<1>4. [MappedCalls EXCEPT ![a] = new]
        = [MappedCalls EXCEPT ![a].phase = "returned", ![a].cb = None, ![a].res = res]
  BY <1>2, <1>3 DEF MappedCalls
<1> HIDE DEF new
<1>5. MappedCalls' = [MappedCalls EXCEPT ![a].phase = "returned", ![a].cb = None,
                                        ![a].res = res]
  BY <1>1, <1>4
<1>6. RS!FinishDrop(a)
  BY <1>2, <1>5 DEF RS!FinishDrop, MappedCalls
<1> QED BY <1>6 DEF RS!Next

\* The process ends where the atomic registry allows it to.
LEMMA CrashStep ==
  ASSUME NEW a \in Activations, alive, Abort,
         \/ /\ AbstractCall(a).phase = "called" /\ ~poisoned
            /\ RS!UserCode(AbstractCall(a).op, AbstractCall(a).name) # None
            /\ ~RS!Catchable(AbstractCall(a).op,
                             RS!UserCode(AbstractCall(a).op, AbstractCall(a).name))
         \/ AbstractCall(a).phase = "dropping" /\ PanicStrategy = "abort"
  PROVE  RS!Next
<1>1. MappedCalls[a] = AbstractCall(a)
  BY DEF MappedCalls
<1>2. \A b \in Activations : AbstractCall(b)' = AbstractCall(b)
  BY MappedCall, MappedCallPrime DEF Abort
<1>3. MappedCalls' = MappedCalls /\ AbstractTable' = AbstractTable
  BY <1>2 DEF MappedCalls, AbstractTable, Displacing, Abort
<1>4. RS!Crash(a)
  BY <1>1, <1>3 DEF RS!Crash, MappedCalls, Abort
<1> QED BY <1>4 DEF RS!Next

\* TakeEffectStep with the effect spelled out.
LEMMA EffectStep ==
  ASSUME NEW a \in Activations, alive, alive' = alive, OthersKept(a),
         AbstractCall(a).phase = "called", NEW res, NEW drop,
         [table |-> AbstractTable', poisoned |-> poisoned', res |-> res, drop |-> drop]
           \in RS!Effects(frame[a].op, frame[a].name, AbstractCall(a).cb),
         AbstractCall(a)' = [phase |-> IF drop = None THEN "returned" ELSE "dropping",
                             op    |-> frame[a].op,
                             name  |-> frame[a].name,
                             cb    |-> drop,
                             res   |-> res]
  PROVE  RS!Next
<1>1. AbstractCall(a).op = frame[a].op /\ AbstractCall(a).name = frame[a].name
  BY MappedCall DEF CallOf
<1> DEFINE e == [table |-> AbstractTable', poisoned |-> poisoned', res |-> res, drop |-> drop]
<1>2. e.table = AbstractTable' /\ e.poisoned = poisoned' /\ e.res = res /\ e.drop = drop
  OBVIOUS
<1>3. e \in RS!Effects(AbstractCall(a).op, AbstractCall(a).name, AbstractCall(a).cb)
  BY <1>1
<1> HIDE DEF e
<1> QED BY <1>1, <1>2, <1>3, TakeEffectStep

\* The two modules have one vocabulary.
LEMMA SameApi ==
  /\ \A k, v : RS!Result(k, v) = Result(k, v)
  /\ \A op : RS!Done(op) = Done(op) /\ RS!Absent(op) = Absent(op)
  /\ \A op : RS!PoisonReported(op) = PoisonReported(op)
  /\ \A code : RS!Invoked(code) = Invoked(code)
  /\ \A v : RS!Code(v) = Code(v)
  /\ RS!CallbackCodes = CallbackCodes
  /\ RS!NoResult = NoResult /\ RS!Unwound = Unwound
  /\ RS!RegisterOps = RegisterOps /\ RS!UnregisterOps = UnregisterOps
  /\ RS!FfiOps = FfiOps
  /\ \A S : RS!Cardinality(S) = Cardinality(S)
<1>1. /\ \A k, v : RS!Result(k, v) = Result(k, v)
      /\ \A v : RS!Code(v) = Code(v)
  BY Zenon DEF RS!Result, Result, RS!Code, Code, RS!FfiErrorCode, FfiErrorCode
<1>2. \A op : RS!Done(op) = Done(op) /\ RS!Absent(op) = Absent(op)
  BY <1>1, Zenon DEF RS!Done, Done, RS!Absent, Absent
<1>3. \A op : RS!PoisonReported(op) = PoisonReported(op)
  BY <1>1, Zenon DEF RS!PoisonReported, PoisonReported
<1>4. \A code : RS!Invoked(code) = Invoked(code)
  BY <1>1, Zenon DEF RS!Invoked, Invoked, RS!FfiErrorCode, FfiErrorCode
<1>5. RS!CallbackCodes = CallbackCodes
  BY <1>1, Zenon DEF RS!CallbackCodes, CallbackCodes, RS!FfiErrorCode, FfiErrorCode,
     RS!ErrorVariants, ErrorVariants
<1>6. RS!NoResult = NoResult /\ RS!Unwound = Unwound
  BY <1>1, Zenon DEF RS!NoResult, NoResult, RS!Unwound, Unwound
<1>7. /\ RS!RegisterOps = RegisterOps /\ RS!UnregisterOps = UnregisterOps
      /\ RS!FfiOps = FfiOps
  BY DEF RS!RegisterOps, RegisterOps, RS!UnregisterOps, UnregisterOps, RS!FfiOps, FfiOps
<1>8. \A S : RS!Cardinality(S) = Cardinality(S)
  BY Zenon DEF RS!Cardinality, Cardinality
<1> QED BY <1>1, <1>2, <1>3, <1>4, <1>5, <1>6, <1>7, <1>8

-----------------------------------------------------------------------------
(***************************************************************************)
(* The effects of the atomic registry.                                     *)
(***************************************************************************)
Made(tbl, psn, res, drop) ==
  [table |-> tbl, poisoned |-> psn, res |-> res, drop |-> drop]

\* Each operation has effects of its own.
LEMMA EffectsByOp ==
  ASSUME ~poisoned, NEW op, NEW name, NEW cb
  PROVE  /\ op \in RegisterOps => RS!Effects(op, name, cb) = RS!RegisterEffects(op, name, cb)
         /\ op \in UnregisterOps => RS!Effects(op, name, cb) = RS!UnregisterEffects(op, name)
         /\ op = "ffi_invoke_callback" => RS!Effects(op, name, cb) = RS!InvokeEffects(name)
         /\ op = "callback_count" => RS!Effects(op, name, cb) = RS!CountEffects
<1>1. CASE op \in RegisterOps
  <2>1. op \notin UnregisterOps /\ op # "ffi_invoke_callback" /\ op # "callback_count"
    BY <1>1 DEF RegisterOps, UnregisterOps
  <2> QED BY <1>1, <2>1, SameApi DEF RS!Effects
<1>2. CASE op \in UnregisterOps
  <2>1. op \notin RegisterOps /\ op # "ffi_invoke_callback" /\ op # "callback_count"
    BY <1>2 DEF RegisterOps, UnregisterOps
  <2> QED BY <1>2, <2>1, SameApi DEF RS!Effects
<1>3. CASE op = "ffi_invoke_callback"
  BY <1>3, SameApi DEF RS!Effects, RegisterOps, UnregisterOps
<1>4. CASE op = "callback_count"
  BY <1>4, SameApi DEF RS!Effects, RegisterOps, UnregisterOps
<1> QED BY <1>1, <1>2, <1>3, <1>4

\* The effects of each operation: on a poisoned registry,
LEMMA PoisonEffect ==
  ASSUME poisoned, NEW op, NEW name, NEW cb
  PROVE  Made(AbstractTable, TRUE, PoisonReported(op), IF cb \in Closures THEN cb ELSE None)
           \in RS!Effects(op, name, cb)
BY SameApi DEF RS!Effects, RS!Effect, Made

\* of a registration, which may end with the panic of what it displaces,
LEMMA RegisterEffect ==
  ASSUME ~poisoned, NEW op \in RegisterOps, NEW name, NEW cb
  PROVE  /\ Made([AbstractTable EXCEPT ![name] = cb], FALSE, Done(op), None)
              \in RS!Effects(op, name, cb)
         /\ RS!Catchable(op, AbstractTable[name]) =>
              Made([AbstractTable EXCEPT ![name] = cb], TRUE, Unwound, None)
                \in RS!Effects(op, name, cb)
<1>1. RS!Effects(op, name, cb) = RS!RegisterEffects(op, name, cb)
  BY EffectsByOp
<1> QED BY <1>1, SameApi DEF RS!RegisterEffects, RS!Effect, Made

\* of a removal,
LEMMA UnregisterEffect ==
  ASSUME ~poisoned, NEW op \in UnregisterOps, NEW name, NEW cb
  PROVE  Made([AbstractTable EXCEPT ![name] = None], FALSE,
              IF AbstractTable[name] = None THEN Absent(op) ELSE Done(op),
              IF op = "unregister_callback" /\ AbstractTable[name] \in Closures
                THEN AbstractTable[name] ELSE None)
           \in RS!Effects(op, name, cb)
<1>1. RS!Effects(op, name, cb) = RS!UnregisterEffects(op, name)
  BY EffectsByOp
<1> QED BY <1>1, SameApi DEF RS!UnregisterEffects, RS!Effect, Made

\* of an invocation,
LEMMA InvokeEffect ==
  ASSUME ~poisoned, NEW name, NEW cb
  PROVE  /\ AbstractTable[name] = None =>
              Made(AbstractTable, FALSE, Result("FfiResult", Code("NotFound")), None)
                \in RS!Effects("ffi_invoke_callback", name, cb)
         /\ AbstractTable[name] # None => \A code \in CallbackCodes :
              Made(AbstractTable, FALSE, Invoked(code), None)
                \in RS!Effects("ffi_invoke_callback", name, cb)
         /\ AbstractTable[name] # None
            /\ RS!Catchable("ffi_invoke_callback", AbstractTable[name]) =>
              Made(AbstractTable, TRUE, Result("FfiResult", Code("Panic")), None)
                \in RS!Effects("ffi_invoke_callback", name, cb)
<1>1. RS!Effects("ffi_invoke_callback", name, cb) = RS!InvokeEffects(name)
  BY EffectsByOp
<1> QED BY <1>1, SameApi DEF RS!InvokeEffects, RS!Effect, Made

\* and of a count.
LEMMA CountEffect ==
  ASSUME ~poisoned, NEW name, NEW cb
  PROVE  Made(AbstractTable, FALSE,
              Result("usize", Cardinality({n \in Names : AbstractTable[n] # None})), None)
           \in RS!Effects("callback_count", name, cb)
<1>1. RS!Effects("callback_count", name, cb) = RS!CountEffects
  BY EffectsByOp
<1> QED BY <1>1, SameApi DEF RS!CountEffects, RS!Effect, Made

-----------------------------------------------------------------------------
(***************************************************************************)
(* The steps of the registry.                                              *)
(***************************************************************************)

\* What every step needs to know of the state.
StateFacts ==
  /\ frame \in [Activations -> Frame]
  /\ \A a \in Activations : FrameOK(frame[a])
  /\ guard \in Activations \cup {NoGuard} /\ NoGuard \notin Activations
  /\ \A a \in Activations : guard = a <=> HoldsGuard(frame[a])
  /\ callbacks \in [Names -> Callbacks \cup {None}]
  /\ None \notin Callbacks /\ Closures \cap CFunctions = {}
  /\ poisoned \in BOOLEAN
  /\ poisoned => guard = NoGuard

\* The invariant gives the facts that the simulation uses.
LEMMA StateHolds ==
  ASSUME RegistryAssumption, RefinementInvariant
  PROVE  StateFacts
BY DEF RefinementInvariant, RegistryInvariant, TypeOK, Locks, GuardDiscipline,
   PoisonedIsFree, RegistryAssumption, StateFacts

\* A step of a that leaves the records of the others, their hold on the
\* mutex, and the map while one of them has it.
LEMMA Others ==
  ASSUME NEW a \in Activations,
         \A b \in Activations : b # a =>
           /\ frame'[b] = frame[b]
           /\ guard' = b <=> guard = b
           /\ guard = b => callbacks' = callbacks
  PROVE  OthersKept(a)
<1> SUFFICES ASSUME NEW b \in Activations, b # a
             PROVE  AbstractCall(b)' = AbstractCall(b)
  BY DEF OthersKept
<1>1. /\ frame'[b] = frame[b] /\ (guard' = b <=> guard = b)
      /\ guard = b => callbacks' = callbacks
  OBVIOUS
<1> QED BY <1>1, MappedCall, MappedCallPrime DEF CallOf, PhaseOf

\* The mapped table while nobody destroys a closure under the lock.
LEMMA TableIsMap ==
  /\ guard = NoGuard \/ frame[guard].pc # "drop" => AbstractTable = callbacks
  /\ guard' = NoGuard \/ frame'[guard'].pc # "drop" => AbstractTable' = callbacks'
BY DEF AbstractTable, Displacing

\* The mapped call after the operation returns, or has a closure left to
\* destroy without the lock.
LEMMA AfterReturn ==
  ASSUME StateFacts, NEW a \in Activations, NEW res, Return(a, res)
  PROVE  /\ AbstractCall(a)' = [phase |-> "returned", op |-> frame[a].op,
                                name |-> frame[a].name, cb |-> None, res |-> res]
         /\ \A b \in Activations : b # a => frame'[b] = frame[b]
         /\ frame'[a].pc = "returned"
<1>1. frame'[a] = [pc |-> "returned", op |-> frame[a].op, name |-> frame[a].name,
                   cb |-> None, res |-> res]
  BY DEF Return, StateFacts, Frame
<1>2. \A b \in Activations : b # a => frame'[b] = frame[b]
  BY DEF Return, StateFacts
<1> QED BY <1>1, <1>2, MappedCallPrime DEF CallOf, PhaseOf

\* The abstract call after DropThenReturn.
LEMMA AfterDrop ==
  ASSUME StateFacts, NEW a \in Activations, NEW c, NEW res, DropThenReturn(a, c, res)
  PROVE  /\ frame'[a] = [pc |-> "drop", op |-> frame[a].op, name |-> frame[a].name,
                         cb |-> c, res |-> res]
         /\ \A b \in Activations : b # a => frame'[b] = frame[b]
BY DEF DropThenReturn, StateFacts, Frame

\* The step of the atomic registry is one of its own, or none.
Simulated == RS!Next \/ UNCHANGED RS!vars

\* Entering an operation begins the abstract call.
LEMMA EnterSimulated ==
  ASSUME StateFacts, NEW a \in Activations, NEW op, NEW n, NEW c, Enter(a, op, n, c)
  PROVE  RS!Begin(a, op, n, c)
<1>1. /\ alive /\ alive' = alive /\ poisoned' = poisoned
      /\ callbacks' = callbacks /\ guard' = guard
      /\ frame[a].pc = "idle" /\ guard # a
  BY DEF Enter, MayCall, StateFacts, HoldsGuard
<1>2. frame'[a] = IF n \in BadNames
                    THEN [pc |-> "returned", op |-> op, name |-> n, cb |-> None,
                          res |-> Rejected(op, n)]
                    ELSE [pc |-> "lock", op |-> op, name |-> n, cb |-> c,
                          res |-> NoResult]
  BY DEF Enter, StateFacts
<1>3. \A b \in Activations : b # a => frame'[b] = frame[b]
  BY DEF Enter, StateFacts
<1>4. OthersKept(a)
  BY <1>1, <1>3, Others
<1>5. AbstractTable' = AbstractTable
  BY <1>1, <1>3 DEF AbstractTable, Displacing, StateFacts
<1>6. AbstractCall(a).phase = "idle"
  BY <1>1, MappedCall DEF CallOf, PhaseOf
<1>7. AbstractCall(a)' =
        IF n \in BadNames
          THEN [phase |-> "returned", op |-> op, name |-> n, cb |-> None,
                res |-> Rejected(op, n)]
          ELSE [phase |-> "called", op |-> op, name |-> n, cb |-> c,
                res |-> NoResult]
  <2>1. CASE n \in BadNames
    BY <1>2, <2>1, MappedCallPrime DEF CallOf, PhaseOf
  <2>2. CASE n \notin BadNames
    BY <1>2, <2>2, MappedCallPrime DEF CallOf, PhaseOf
  <2> QED BY <2>1, <2>2
<1> QED BY <1>1, <1>4, <1>5, <1>6, <1>7, BeginStep

\* A box of its own is one the atomic registry has not seen either.
LEMMA FreshIsUnused ==
  ASSUME StateFacts, NEW c \in Callbacks, Fresh(c)
  PROVE  RS!Unused(c)
<1>1. \A n \in Names : AbstractTable[n] # c
  BY DEF AbstractTable, Displacing, Fresh, StateFacts
<1>2. \A a \in Activations : AbstractCall(a).cb # c
  <2> TAKE a \in Activations
  <2>1. frame[a].pc = "drop" => frame[a].name \in Names
    BY DEF StateFacts, FrameOK
  <2>2. AbstractCall(a).cb \in {None, frame[a].cb}
          \/ (frame[a].pc = "drop" /\ AbstractCall(a).cb = callbacks[frame[a].name])
    BY MappedCall DEF CallOf
  <2> QED BY <2>1, <2>2 DEF Fresh, StateFacts
<1>3. \A a \in Activations : MappedCalls[a].cb # c
  BY <1>2 DEF MappedCalls
<1> QED BY <1>1, <1>3 DEF RS!Unused, MappedCalls

\* So every call is simulated.
LEMMA CallsSimulated ==
  ASSUME StateFacts, NEW a \in Activations, Calls(a)
  PROVE  Simulated
<1>0. Closures \subseteq Callbacks /\ CFunctions \subseteq Callbacks
  BY DEF Callbacks
<1>1. RS!Call(a)
  <2>1. CASE RegisterCallback(a)
    BY <1>0, <2>1, EnterSimulated, FreshIsUnused DEF RegisterCallback, RS!Call
  <2>2. CASE FfiRegisterCallback(a)
    BY <1>0, <2>2, EnterSimulated, FreshIsUnused DEF FfiRegisterCallback, RS!Call, RS!CNames
  <2>3. CASE UnregisterCallback(a)
    BY <2>3, EnterSimulated DEF UnregisterCallback, RS!Call
  <2>4. CASE FfiUnregisterCallback(a)
    BY <2>4, EnterSimulated DEF FfiUnregisterCallback, RS!Call, RS!CNames
  <2>5. CASE FfiInvokeCallback(a)
    BY <2>5, EnterSimulated DEF FfiInvokeCallback, RS!Call, RS!CNames
  <2>6. CASE CallbackCount(a)
    BY <2>6, EnterSimulated DEF CallbackCount, RS!Call
  <2> QED BY <2>1, <2>2, <2>3, <2>4, <2>5, <2>6 DEF Calls
<1> QED BY <1>1 DEF RS!Next, Simulated

\* lock() that succeeds is not seen; one that reports poison is the whole
\* operation, but for the closure it was given.
LEMMA LockSimulated ==
  ASSUME StateFacts, RegistryAssumption, NEW a \in Activations, Lock(a)
  PROVE  Simulated
<1>1. /\ alive /\ alive' = alive /\ poisoned' = poisoned /\ callbacks' = callbacks
      /\ frame[a].pc = "lock" /\ guard = NoGuard
  BY DEF Lock, MayLock
<1>2. /\ AbstractTable = callbacks
      /\ AbstractCall(a) = [phase |-> "called", op |-> frame[a].op, name |-> frame[a].name,
                            cb |-> frame[a].cb, res |-> NoResult]
  BY <1>1, TableIsMap, MappedCall DEF CallOf, PhaseOf
<1>3. CASE TakeGuard(a)
  <2>1. frame'[a] = [pc |-> "locked", op |-> frame[a].op, name |-> frame[a].name,
                     cb |-> frame[a].cb, res |-> frame[a].res]
    BY <1>3 DEF TakeGuard, StateFacts, Frame
  <2>2. guard' = a /\ \A b \in Activations : b # a => frame'[b] = frame[b]
    BY <1>3 DEF TakeGuard, StateFacts
  <2>3. OthersKept(a)
    BY <1>1, <2>2, Others DEF StateFacts
  <2>4. AbstractTable' = AbstractTable
    BY <1>1, <1>2, <2>1, <2>2, TableIsMap
  <2>5. AbstractCall(a)' = AbstractCall(a)
    BY <1>2, <2>1, MappedCallPrime DEF CallOf, PhaseOf
  <2> QED BY <1>1, <2>3, <2>4, <2>5, StutterStep DEF Simulated
<1>4. CASE poisoned /\ ReportPoison(a)
  <2> DEFINE cb == frame[a].cb
             drop == IF cb \in Closures THEN cb ELSE None
             res  == PoisonReported(frame[a].op)
  <2>1. guard' = NoGuard
    BY <1>1, <1>4 DEF ReportPoison
  <2>2. CASE cb \in Closures
    <3>1. DropThenReturn(a, cb, res)
      BY <1>4, <2>2 DEF ReportPoison, HasDestructor
    <3>2. /\ \A b \in Activations : b # a => frame'[b] = frame[b]
          /\ AbstractCall(a)' = [phase |-> "dropping", op |-> frame[a].op,
                                 name |-> frame[a].name, cb |-> cb, res |-> res]
      <4>1. guard' # a
        BY <2>1 DEF StateFacts
      <4>2. /\ frame'[a] = [pc |-> "drop", op |-> frame[a].op, name |-> frame[a].name,
                            cb |-> cb, res |-> res]
            /\ \A b \in Activations : b # a => frame'[b] = frame[b]
        BY <3>1, AfterDrop
      <4> HIDE DEF cb, res
      <4> QED BY <4>1, <4>2, MappedCallPrime DEF CallOf, PhaseOf
    <3>3. OthersKept(a)
      BY <1>1, <2>1, <3>2, Others
    <3>4. AbstractTable' = AbstractTable
      BY <1>1, <1>2, <2>1, TableIsMap
    <3>5. Made(AbstractTable, TRUE, res, cb) \in RS!Effects(frame[a].op, frame[a].name, cb)
      BY <1>4, <2>2, PoisonEffect
    <3>6. cb # None
      BY <2>2 DEF StateFacts, Callbacks
    <3>7. poisoned' = TRUE
      BY <1>1, <1>4 DEF StateFacts
    <3> HIDE DEF cb, res
    <3>8. AbstractCall(a).phase = "called" /\ AbstractCall(a).cb = cb
      BY <1>2 DEF cb
    <3> QED BY <1>1, <3>2, <3>3, <3>4, <3>5, <3>6, <3>7, <3>8, EffectStep
         DEF Made, Simulated
  <2>3. CASE cb \notin Closures
    <3>1. Return(a, res)
      BY <1>4, <2>3 DEF ReportPoison, HasDestructor
    <3>2. /\ \A b \in Activations : b # a => frame'[b] = frame[b]
          /\ AbstractCall(a)' = [phase |-> "returned", op |-> frame[a].op,
                                 name |-> frame[a].name, cb |-> None, res |-> res]
      BY <3>1, AfterReturn
    <3>3. OthersKept(a)
      BY <1>1, <2>1, <3>2, Others
    <3>4. AbstractTable' = AbstractTable
      BY <1>1, <1>2, <2>1, TableIsMap
    <3>5. Made(AbstractTable, TRUE, res, None) \in RS!Effects(frame[a].op, frame[a].name, cb)
      BY <1>4, <2>3, PoisonEffect
    <3>6. poisoned' = TRUE
      BY <1>1, <1>4 DEF StateFacts
    <3> HIDE DEF cb, res
    <3>7. AbstractCall(a).phase = "called" /\ AbstractCall(a).cb = cb
      BY <1>2 DEF cb
    <3> QED BY <1>1, <3>2, <3>3, <3>4, <3>5, <3>6, <3>7, EffectStep
         DEF Made, Simulated
  <2> QED BY <2>2, <2>3
<1> QED BY <1>3, <1>4 DEF Lock

\* An operation that has the lock and returns with it: the shape of the steps
\* in which an operation happens and is over.
LEMMA ReturnSimulated ==
  ASSUME StateFacts, NEW a \in Activations, NEW res, NEW psn \in BOOLEAN,
         alive, alive' = alive, guard = a, guard' = NoGuard, poisoned' = psn,
         Return(a, res), frame[a].pc \in {"locked", "run", "drop"},
         Made(callbacks', psn, res, None)
           \in RS!Effects(frame[a].op, frame[a].name, AbstractCall(a).cb)
  PROVE  Simulated
<1>1. /\ \A b \in Activations : b # a => frame'[b] = frame[b]
      /\ AbstractCall(a)' = [phase |-> "returned", op |-> frame[a].op,
                             name |-> frame[a].name, cb |-> None, res |-> res]
  BY AfterReturn
<1>2. OthersKept(a)
  BY <1>1, Others DEF StateFacts
<1>3. AbstractTable' = callbacks'
  BY TableIsMap
<1>4. AbstractCall(a).phase = "called"
  BY MappedCall DEF CallOf, PhaseOf
<1> QED BY <1>1, <1>2, <1>3, <1>4, EffectStep DEF Made, Simulated

\* What the operation of an activation with the lock looks like from outside:
\* it has not happened yet.
LEMMA Inside ==
  ASSUME StateFacts, NEW a \in Activations, frame[a].pc \in {"locked", "run"}
  PROVE  /\ guard = a /\ ~poisoned /\ a # NoGuard
         /\ AbstractTable = callbacks
         /\ AbstractCall(a) = [phase |-> "called", op |-> frame[a].op,
                               name |-> frame[a].name,
                               cb |-> IF frame[a].pc = "run" THEN None ELSE frame[a].cb,
                               res |-> NoResult]
<1>1. guard = a /\ ~poisoned /\ a # NoGuard
  BY DEF StateFacts, HoldsGuard
<1> QED BY <1>1, TableIsMap, MappedCall DEF CallOf, PhaseOf

\* An insertion that displaces a closure with a destructor has not happened
\* yet; any other one happens now.
LEMMA InsertSimulated ==
  ASSUME StateFacts, NEW a \in Activations, Insert(a)
  PROVE  Simulated
<1> DEFINE old == callbacks[frame[a].name]
<1>1. /\ alive /\ alive' = alive /\ poisoned' = FALSE
      /\ frame[a].pc = "locked" /\ frame[a].op \in RegisterOps
      /\ frame[a].name \in Names
      /\ callbacks' = [callbacks EXCEPT ![frame[a].name] = frame[a].cb]
      /\ guard = a
  <2>1. poisoned' = FALSE
    BY Inside DEF Insert, StateFacts
  <2>2. frame[a].name \in Names
    BY DEF Insert, StateFacts, FrameOK, ArgumentsOK, RegisterOps
  <2> QED BY <2>1, <2>2, Inside DEF Insert
<1>2. /\ AbstractTable = callbacks /\ ~poisoned
      /\ AbstractCall(a) = [phase |-> "called", op |-> frame[a].op, name |-> frame[a].name,
                            cb |-> frame[a].cb, res |-> NoResult]
  BY <1>1, Inside
<1>3. CASE HasDestructor(old)
  <2>1. /\ frame'[a] = [pc |-> "drop", op |-> frame[a].op, name |-> frame[a].name,
                        cb |-> old, res |-> Done(frame[a].op)]
        /\ \A b \in Activations : b # a => frame'[b] = frame[b]
        /\ guard' = a
    BY <1>1, <1>3, AfterDrop DEF Insert
  <2>2. OthersKept(a)
    BY <1>1, <2>1, Others
  <2>3. AbstractTable' = callbacks
    <3>1. Displacing'
      BY <1>1, <2>1, Inside DEF Displacing
    <3>2. /\ frame'[guard'].name = frame[a].name /\ frame'[guard'].cb = old
      BY <2>1
    <3>3. AbstractTable' = [callbacks' EXCEPT ![frame[a].name] = old]
      BY <3>1, <3>2 DEF AbstractTable
    <3> QED BY <1>1, <3>3 DEF StateFacts
  <2>4. callbacks'[frame[a].name] = frame[a].cb
    BY <1>1 DEF StateFacts
  <2> HIDE DEF old
  <2>5. AbstractCall(a)' = AbstractCall(a)
    BY <1>2, <2>1, <2>4, MappedCallPrime DEF CallOf, PhaseOf
  <2>6. poisoned' = poisoned
    BY DEF Insert
  <2> QED BY <1>1, <1>2, <2>2, <2>3, <2>5, <2>6, StutterStep DEF Simulated
<1>4. CASE ~HasDestructor(old)
  <2>1. Return(a, Done(frame[a].op)) /\ guard' = NoGuard
    BY <1>1, <1>4 DEF Insert, ReleaseGuard
  <2>2. Made(callbacks', FALSE, Done(frame[a].op), None)
          \in RS!Effects(frame[a].op, frame[a].name, AbstractCall(a).cb)
    <3>1. AbstractCall(a).cb = frame[a].cb
      BY <1>2
    <3>2. Made([AbstractTable EXCEPT ![frame[a].name] = frame[a].cb], FALSE,
               Done(frame[a].op), None)
            \in RS!Effects(frame[a].op, frame[a].name, frame[a].cb)
      BY <1>1, <1>2, RegisterEffect
    <3> QED BY <1>1, <1>2, <3>1, <3>2
  <2> QED BY <1>1, <2>1, <2>2, ReturnSimulated
<1> QED BY <1>3, <1>4

\* A count happens when it is taken.
LEMMA CountSimulated ==
  ASSUME StateFacts, NEW a \in Activations, Count(a)
  PROVE  Simulated
<1> DEFINE res == Result("usize", Cardinality(Registered))
<1>1. /\ alive /\ alive' = alive /\ callbacks' = callbacks /\ poisoned' = poisoned
      /\ frame[a].pc = "locked" /\ frame[a].op = "callback_count"
      /\ Return(a, res) /\ ReleaseGuard(a)
  BY DEF Count
<1>2. guard = a /\ ~poisoned /\ guard' = NoGuard /\ AbstractTable = callbacks
      /\ poisoned' = FALSE
  BY <1>1, Inside DEF ReleaseGuard, StateFacts
<1>3. Made(callbacks', FALSE, res, None)
        \in RS!Effects(frame[a].op, frame[a].name, AbstractCall(a).cb)
  BY <1>1, <1>2, CountEffect DEF Registered
<1> HIDE DEF res
<1> QED BY <1>1, <1>2, <1>3, ReturnSimulated

\* An invocation of a missing name happens at the lookup; of a registered one,
\* later.
LEMMA LookupSimulated ==
  ASSUME StateFacts, RegistryAssumption, NEW a \in Activations, Lookup(a)
  PROVE  Simulated
<1>1. /\ alive /\ alive' = alive /\ callbacks' = callbacks /\ poisoned' = poisoned
      /\ frame[a].pc = "locked" /\ frame[a].op = "ffi_invoke_callback"
  BY DEF Lookup
<1>2. /\ AbstractTable = callbacks /\ ~poisoned /\ guard = a /\ a # NoGuard
      /\ AbstractCall(a) = [phase |-> "called", op |-> frame[a].op, name |-> frame[a].name,
                            cb |-> frame[a].cb, res |-> NoResult]
  BY <1>1, Inside
<1>3. CASE callbacks[frame[a].name] = None
  <2> DEFINE res == Result("FfiResult", Code("NotFound"))
  <2>1. Return(a, res) /\ guard' = NoGuard /\ poisoned' = FALSE
    BY <1>1, <1>2, <1>3 DEF Lookup, ReleaseGuard, StateFacts
  <2>2. Made(callbacks', FALSE, res, None)
          \in RS!Effects(frame[a].op, frame[a].name, AbstractCall(a).cb)
    BY <1>1, <1>2, <1>3, InvokeEffect
  <2> HIDE DEF res
  <2> QED BY <1>1, <1>2, <2>1, <2>2, ReturnSimulated
<1>4. CASE callbacks[frame[a].name] # None
  <2>1. frame'[a] = [pc |-> "run", op |-> frame[a].op, name |-> frame[a].name,
                     cb |-> callbacks[frame[a].name], res |-> frame[a].res]
    BY <1>4 DEF Lookup, StateFacts, Frame
  <2>2. guard' = a /\ \A b \in Activations : b # a => frame'[b] = frame[b]
    BY <1>2, <1>4 DEF Lookup, StateFacts
  <2>3. OthersKept(a)
    BY <1>1, <1>2, <2>2, Others
  <2>4. AbstractTable' = AbstractTable
    BY <1>1, <1>2, <2>1, <2>2, TableIsMap
  <2>5. frame[a].cb = None
    BY <1>1, ArgumentBox DEF StateFacts, FrameOK, RegisterOps
  <2>6. AbstractCall(a)' = AbstractCall(a)
    BY <1>2, <2>1, <2>5, MappedCallPrime DEF CallOf, PhaseOf
  <2> QED BY <1>1, <2>3, <2>4, <2>6, StutterStep DEF Simulated
<1> QED BY <1>3, <1>4

\* A removal happens now, unless a destructor is to run under the lock.
LEMMA RemoveSimulated ==
  ASSUME StateFacts, RegistryAssumption, NEW a \in Activations, Remove(a)
  PROVE  Simulated
<1> DEFINE old == callbacks[frame[a].name]
           op  == frame[a].op
           res == IF old = None THEN Absent(op) ELSE Done(op)
           drop == IF op = "unregister_callback" /\ old \in Closures THEN old ELSE None
<1>1. /\ alive /\ alive' = alive /\ poisoned' = FALSE /\ poisoned' = poisoned
      /\ frame[a].pc = "locked" /\ op \in UnregisterOps
      /\ frame[a].name \in Names
      /\ callbacks' = [callbacks EXCEPT ![frame[a].name] = None]
      /\ guard = a
  <2>1. poisoned' = FALSE
    BY Inside DEF Remove, StateFacts
  <2>2. frame[a].name \in Names
    BY DEF Remove, StateFacts, FrameOK, ArgumentsOK, UnregisterOps
  <2> QED BY <2>1, <2>2, Inside DEF Remove
<1>2. /\ AbstractTable = callbacks /\ ~poisoned /\ a # NoGuard
      /\ AbstractCall(a) = [phase |-> "called", op |-> frame[a].op, name |-> frame[a].name,
                            cb |-> frame[a].cb, res |-> NoResult]
  BY <1>1, Inside
<1>3. Made(callbacks', FALSE, res, drop) \in RS!Effects(op, frame[a].name, AbstractCall(a).cb)
  BY <1>1, <1>2, UnregisterEffect
<1>4. CASE HasDestructor(old) /\ op = "ffi_unregister_callback"
  <2>1. /\ frame'[a] = [pc |-> "drop", op |-> frame[a].op, name |-> frame[a].name,
                        cb |-> old, res |-> res]
        /\ \A b \in Activations : b # a => frame'[b] = frame[b]
        /\ guard' = a
    BY <1>1, <1>4, AfterDrop DEF Remove
  <2>2. OthersKept(a)
    BY <1>1, <2>1, Others
  <2>3. AbstractTable' = callbacks
    <3>1. Displacing'
      BY <1>2, <2>1 DEF Displacing
    <3>2. frame'[guard'].name = frame[a].name /\ frame'[guard'].cb = old
      BY <2>1
    <3>3. AbstractTable' = [callbacks' EXCEPT ![frame[a].name] = old]
      BY <3>1, <3>2 DEF AbstractTable
    <3> QED BY <1>1, <3>3 DEF StateFacts
  <2>4. callbacks'[frame[a].name] = None /\ frame[a].cb = None
    <3>1. frame[a].cb = None
      BY <1>1, <1>4, ArgumentBox DEF StateFacts, FrameOK, RegisterOps
    <3> QED BY <1>1, <3>1 DEF StateFacts
  <2> HIDE DEF old, op, res, drop
  <2>5. AbstractCall(a)' = AbstractCall(a)
    BY <1>2, <2>1, <2>4, MappedCallPrime DEF CallOf, PhaseOf
  <2> QED BY <1>1, <1>2, <2>2, <2>3, <2>5, StutterStep DEF Simulated
<1>5. CASE HasDestructor(old) /\ op # "ffi_unregister_callback"
  <2>1. op = "unregister_callback" /\ drop = old /\ old # None
    BY <1>1, <1>5 DEF UnregisterOps, HasDestructor, StateFacts, Callbacks
  <2>2. /\ frame'[a] = [pc |-> "drop", op |-> frame[a].op, name |-> frame[a].name,
                        cb |-> old, res |-> res]
        /\ \A b \in Activations : b # a => frame'[b] = frame[b]
        /\ guard' = NoGuard
    BY <1>1, <1>5, AfterDrop DEF Remove, ReleaseGuard
  <2>3. OthersKept(a)
    BY <1>1, <2>2, Others DEF StateFacts
  <2>4. AbstractTable' = callbacks'
    BY <2>2, TableIsMap
  <2> HIDE DEF old, op, res, drop
  <2>5. AbstractCall(a)' = [phase |-> "dropping", op |-> frame[a].op,
                            name |-> frame[a].name, cb |-> old, res |-> res]
    BY <1>2, <2>2, MappedCallPrime DEF CallOf, PhaseOf
  <2>6. AbstractCall(a).phase = "called"
    BY <1>2
  <2>7. Made(AbstractTable', poisoned', res, old)
          \in RS!Effects(frame[a].op, frame[a].name, AbstractCall(a).cb)
    BY <1>1, <1>3, <2>1, <2>4 DEF op
  <2> QED BY <1>1, <2>1, <2>3, <2>5, <2>6, <2>7, EffectStep DEF Made, Simulated
<1>6. CASE ~HasDestructor(old)
  <2>1. Return(a, res) /\ guard' = NoGuard /\ drop = None
    BY <1>1, <1>6 DEF Remove, ReleaseGuard, HasDestructor
  <2>2. Made(callbacks', FALSE, res, None)
          \in RS!Effects(frame[a].op, frame[a].name, AbstractCall(a).cb)
    BY <1>3, <2>1
  <2> HIDE DEF old, op, res, drop
  <2> QED BY <1>1, <2>1, <2>2, ReturnSimulated
<1> QED BY <1>4, <1>5, <1>6

\* The caller takes the result.
LEMMA ConsumeSimulated ==
  ASSUME StateFacts, NEW a \in Activations, Consume(a)
  PROVE  Simulated
<1>1. /\ alive /\ alive' = alive /\ poisoned' = poisoned /\ callbacks' = callbacks
      /\ guard' = guard /\ frame[a].pc = "returned" /\ guard # a
      /\ frame'[a] = Idle
      /\ \A b \in Activations : b # a => frame'[b] = frame[b]
  BY DEF Consume, StateFacts, HoldsGuard
<1>2. OthersKept(a)
  BY <1>1, Others
<1>3. AbstractTable' = AbstractTable
  BY <1>1 DEF AbstractTable, Displacing, StateFacts
<1>4. AbstractCall(a).phase = "returned"
  BY <1>1, MappedCall DEF CallOf, PhaseOf
<1>5. AbstractCall(a)' = RS!NoCall
  BY <1>1, SameApi, MappedCallPrime DEF CallOf, PhaseOf, Idle, RS!NoCall
<1> QED BY <1>1, <1>2, <1>3, <1>4, <1>5, FinishStep DEF Simulated

\* The callback that runs is the one the atomic registry has under the name.
LEMMA ReturnsSimulated ==
  ASSUME StateFacts, RunningIsRegistered, NEW a \in Activations, CallbackReturns(a)
  PROVE  Simulated
<1>1. PICK code \in CallbackCodes : Return(a, Invoked(code))
  BY DEF CallbackReturns
<1>2. /\ alive /\ alive' = alive /\ callbacks' = callbacks /\ poisoned' = poisoned
      /\ frame[a].pc = "run" /\ ReleaseGuard(a)
  BY DEF CallbackReturns
<1>3. /\ guard = a /\ ~poisoned /\ guard' = NoGuard /\ AbstractTable = callbacks
      /\ poisoned' = FALSE
  BY <1>2, Inside DEF ReleaseGuard, StateFacts
<1>4. frame[a].op = "ffi_invoke_callback" /\ callbacks[frame[a].name] # None
  BY <1>2 DEF RunningIsRegistered, StateFacts, FrameOK
<1>5. Made(callbacks', FALSE, Invoked(code), None)
        \in RS!Effects(frame[a].op, frame[a].name, AbstractCall(a).cb)
  BY <1>2, <1>3, <1>4, InvokeEffect
<1> QED BY <1>1, <1>2, <1>3, <1>5, ReturnSimulated

\* The invocation happens when its callback panics.
LEMMA PanicsSimulated ==
  ASSUME StateFacts, RegistryAssumption, RunningIsRegistered,
         NEW a \in Activations, CallbackPanics(a)
  PROVE  Simulated
<1>1. /\ alive /\ frame[a].pc = "run"
      /\ guard = a /\ ~poisoned /\ AbstractTable = callbacks
      /\ frame[a].op = "ffi_invoke_callback"
      /\ callbacks[frame[a].name] = frame[a].cb
      /\ frame[a].cb \in Callbacks /\ frame[a].cb # None
      /\ AbstractCall(a).phase = "called"
      /\ AbstractCall(a).op = frame[a].op /\ AbstractCall(a).name = frame[a].name
  BY Inside DEF CallbackPanics, RunningIsRegistered, StateFacts, FrameOK
<1>2. CASE PanicStrategy = "abort" \/ frame[a].cb \in CFunctions
  <2>1. Abort
    BY <1>2 DEF CallbackPanics
  <2>2. RS!UserCode(AbstractCall(a).op, AbstractCall(a).name) = frame[a].cb
    BY <1>1 DEF RS!UserCode
  <2>3. ~RS!Catchable(AbstractCall(a).op, frame[a].cb)
    BY <1>2 DEF RS!Catchable, StateFacts
  <2> QED BY <1>1, <2>1, <2>2, <2>3, CrashStep DEF Simulated
<1>3. CASE ~(PanicStrategy = "abort" \/ frame[a].cb \in CFunctions)
  <2> DEFINE res == Result("FfiResult", Code("Panic"))
  <2>1. /\ UnwindGuard(a) /\ Return(a, res)
        /\ callbacks' = callbacks /\ alive' = alive
    BY <1>3 DEF CallbackPanics
  <2>2. poisoned' = TRUE /\ guard' = NoGuard
    BY <1>1, <2>1 DEF UnwindGuard, ReleaseGuard
  <2>3. RS!Catchable("ffi_invoke_callback", frame[a].cb)
    BY <1>1, <1>3 DEF RS!Catchable, RegistryAssumption, Callbacks
  <2>4. Made(callbacks', TRUE, res, None)
          \in RS!Effects(frame[a].op, frame[a].name, AbstractCall(a).cb)
    BY <1>1, <2>1, <2>3, InvokeEffect
  <2> HIDE DEF res
  <2> QED BY <1>1, <2>1, <2>2, <2>4, ReturnSimulated
<1> QED BY <1>2, <1>3

\* What an operation that destroys a closure under the lock looks like from
\* outside: its change of the map is not seen yet, and is the one it will have
\* made when it returns.
LEMMA DropInside ==
  ASSUME StateFacts, Drops, NEW a \in Activations, frame[a].pc = "drop", guard = a
  PROVE  /\ ~poisoned /\ a # NoGuard
         /\ frame[a].cb \in Closures /\ frame[a].cb # None
         /\ frame[a].op \in RegisterOps \cup {"ffi_unregister_callback"}
         /\ frame[a].res = Done(frame[a].op)
         /\ AbstractTable[frame[a].name] = frame[a].cb
         /\ [AbstractTable EXCEPT ![frame[a].name] = callbacks[frame[a].name]] = callbacks
         /\ frame[a].op = "ffi_unregister_callback" => callbacks[frame[a].name] = None
         /\ AbstractCall(a) = [phase |-> "called", op |-> frame[a].op,
                               name |-> frame[a].name,
                               cb |-> callbacks[frame[a].name], res |-> NoResult]
<1>1. ~poisoned /\ a # NoGuard
  BY DEF StateFacts
<1>2. frame[a].cb \in Closures /\ frame[a].cb # None /\ frame[a].name \in Names
  BY DEF StateFacts, FrameOK, Callbacks
<1>3. /\ frame[a].op \in RegisterOps \cup {"ffi_unregister_callback"}
      /\ frame[a].res = Done(frame[a].op)
      /\ frame[a].op = "ffi_unregister_callback" => callbacks[frame[a].name] = None
  BY DEF Drops, DropOK
<1>4. AbstractTable = [callbacks EXCEPT ![frame[a].name] = frame[a].cb]
  BY <1>1 DEF AbstractTable, Displacing
<1>5. /\ AbstractTable[frame[a].name] = frame[a].cb
      /\ [AbstractTable EXCEPT ![frame[a].name] = callbacks[frame[a].name]] = callbacks
  BY <1>2, <1>4 DEF StateFacts
<1>6. AbstractCall(a) = [phase |-> "called", op |-> frame[a].op, name |-> frame[a].name,
                         cb |-> callbacks[frame[a].name], res |-> NoResult]
  BY MappedCall DEF CallOf, PhaseOf
<1> QED BY <1>1, <1>2, <1>3, <1>5, <1>6

\* A destructor that runs without the lock is over.
LEMMA FreeDropSimulated ==
  ASSUME StateFacts, NEW a \in Activations, NEW res, frame[a].pc = "drop", guard # a,
         alive, alive' = alive, poisoned' = poisoned, callbacks' = callbacks,
         guard' = guard, Return(a, res),
         res = frame[a].res \/ (PanicStrategy = "unwind" /\ res = Unwound)
  PROVE  Simulated
<1>1. /\ \A b \in Activations : b # a => frame'[b] = frame[b]
      /\ AbstractCall(a)' = [phase |-> "returned", op |-> frame[a].op,
                             name |-> frame[a].name, cb |-> None, res |-> res]
  BY AfterReturn
<1>2. OthersKept(a)
  BY <1>1, Others
<1>3. AbstractTable' = AbstractTable
  BY <1>1 DEF AbstractTable, Displacing, StateFacts
<1>4. /\ AbstractCall(a).phase = "dropping" /\ AbstractCall(a).res = frame[a].res
      /\ AbstractCall(a).op = frame[a].op /\ AbstractCall(a).name = frame[a].name
  BY MappedCall DEF CallOf, PhaseOf
<1>5. res = AbstractCall(a).res \/ (PanicStrategy = "unwind" /\ res = RS!Unwound)
  BY <1>4, SameApi
<1>6. AbstractCall(a)' = [phase |-> "returned", op |-> AbstractCall(a).op,
                          name |-> AbstractCall(a).name, cb |-> None, res |-> res]
  BY <1>1, <1>4
<1>7. RS!Next
  BY <1>2, <1>3, <1>4, <1>5, <1>6, FinishDropStep
<1> QED BY <1>7 DEF Simulated

\* A destructor returns: under the lock the operation happens now.
LEMMA DropReturnsSimulated ==
  ASSUME StateFacts, Drops, NEW a \in Activations, DropReturns(a)
  PROVE  Simulated
<1> DEFINE res == frame[a].res
<1>1. /\ alive /\ alive' = alive /\ callbacks' = callbacks /\ poisoned' = poisoned
      /\ frame[a].pc = "drop" /\ Return(a, res) /\ ReleaseGuard(a)
  BY DEF DropReturns
<1>2. CASE guard = a
  <2>1. guard' = NoGuard /\ poisoned' = FALSE
    BY <1>1, <1>2, DropInside DEF ReleaseGuard, StateFacts
  <2>2. Made(callbacks', FALSE, res, None)
          \in RS!Effects(frame[a].op, frame[a].name, AbstractCall(a).cb)
    <3>1. CASE frame[a].op \in RegisterOps
      <4>1. Made([AbstractTable EXCEPT ![frame[a].name] = callbacks[frame[a].name]], FALSE,
                 Done(frame[a].op), None)
              \in RS!Effects(frame[a].op, frame[a].name, callbacks[frame[a].name])
        BY <1>1, <1>2, <3>1, DropInside, RegisterEffect
      <4>2. AbstractCall(a).cb = callbacks[frame[a].name]
        BY <1>1, <1>2, DropInside
      <4> QED BY <1>1, <1>2, <4>1, <4>2, DropInside
    <3>2. CASE frame[a].op = "ffi_unregister_callback"
      <4>1. /\ [AbstractTable EXCEPT ![frame[a].name] = None] = callbacks
            /\ AbstractTable[frame[a].name] # None
            /\ ~poisoned /\ res = Done(frame[a].op)
        BY <1>1, <1>2, <3>2, DropInside
      <4>2. frame[a].op \in UnregisterOps /\ frame[a].op # "unregister_callback"
        BY <3>2 DEF UnregisterOps
      <4> HIDE DEF res
      <4> QED BY <1>1, <4>1, <4>2, UnregisterEffect
    <3> QED BY <1>1, <1>2, <3>1, <3>2, DropInside
  <2> HIDE DEF res
  <2> QED BY <1>1, <1>2, <2>1, <2>2, ReturnSimulated
<1>3. CASE guard # a
  BY <1>1, <1>3, FreeDropSimulated DEF ReleaseGuard
<1> QED BY <1>2, <1>3

\* A destructor panics: under the lock the operation happens now, poisons the
\* registry, or ends the process.
LEMMA DropPanicsSimulated ==
  ASSUME StateFacts, Drops, RegistryAssumption, NEW a \in Activations, DropPanics(a)
  PROVE  Simulated
<1>1. alive /\ frame[a].pc = "drop"
  BY DEF DropPanics
<1>2. CASE PanicStrategy = "abort" \/ frame[a].op \in FfiOps
  <2>1. Abort
    BY <1>2 DEF DropPanics
  <2>2. CASE guard = a
    <3>1. /\ ~poisoned /\ AbstractTable[frame[a].name] # None
          /\ frame[a].op \in RegisterOps \cup {"ffi_unregister_callback"}
          /\ AbstractCall(a).op = frame[a].op /\ AbstractCall(a).name = frame[a].name
          /\ AbstractCall(a).phase = "called"
      BY <1>1, <2>2, DropInside
    <3>2. RS!UserCode(AbstractCall(a).op, AbstractCall(a).name)
            = AbstractTable[frame[a].name]
      BY <3>1, SameApi DEF RS!UserCode
    <3>3. ~RS!Catchable(AbstractCall(a).op, AbstractTable[frame[a].name])
      BY <1>2, <3>1, SameApi DEF RS!Catchable, RegisterOps
    <3> QED BY <1>1, <2>1, <3>1, <3>2, <3>3, CrashStep DEF Simulated
  <2>3. CASE guard # a
    <3>1. frame[a].op \in {"register_callback", "unregister_callback"}
      BY <1>1, <2>3 DEF Drops, DropOK
    <3>2. PanicStrategy = "abort"
      BY <1>2, <3>1 DEF FfiOps
    <3>3. AbstractCall(a).phase = "dropping"
      BY <1>1, <2>3, MappedCall DEF CallOf, PhaseOf
    <3> QED BY <1>1, <2>1, <3>2, <3>3, CrashStep DEF Simulated
  <2> QED BY <2>2, <2>3
<1>3. CASE ~(PanicStrategy = "abort" \/ frame[a].op \in FfiOps)
  <2>0. PanicStrategy = "unwind"
    BY <1>3 DEF RegistryAssumption
  <2>1. /\ UnwindGuard(a) /\ Return(a, Unwound)
        /\ callbacks' = callbacks /\ alive' = alive
    BY <1>3 DEF DropPanics
  <2>2. CASE guard = a
    <3>1. poisoned' = TRUE /\ guard' = NoGuard
      BY <2>1, <2>2 DEF UnwindGuard, ReleaseGuard
    <3>2. /\ ~poisoned /\ frame[a].cb \in Closures
          /\ frame[a].op \in RegisterOps \cup {"ffi_unregister_callback"}
          /\ AbstractTable[frame[a].name] = frame[a].cb
          /\ [AbstractTable EXCEPT ![frame[a].name] = callbacks[frame[a].name]] = callbacks
          /\ AbstractCall(a).cb = callbacks[frame[a].name]
      BY <1>1, <2>2, DropInside
    <3>3. frame[a].op \in RegisterOps
      BY <1>3, <3>2 DEF FfiOps
    <3>4. RS!Catchable(frame[a].op, AbstractTable[frame[a].name])
      BY <1>3, <2>0, <3>2, SameApi DEF RS!Catchable
    <3>5. Made([AbstractTable EXCEPT ![frame[a].name] = callbacks[frame[a].name]], TRUE,
               Unwound, None)
            \in RS!Effects(frame[a].op, frame[a].name, callbacks[frame[a].name])
      BY <3>2, <3>3, <3>4, RegisterEffect
    <3> QED BY <1>1, <2>1, <2>2, <3>1, <3>2, <3>5, ReturnSimulated
  <2>3. CASE guard # a
    <3>1. poisoned' = poisoned /\ guard' = guard
      BY <2>1, <2>3 DEF UnwindGuard, ReleaseGuard, StateFacts
    <3> QED BY <1>1, <2>0, <2>1, <2>3, <3>1, FreeDropSimulated
  <2> QED BY <2>2, <2>3
<1> QED BY <1>2, <1>3

-----------------------------------------------------------------------------
(***************************************************************************)
(* The theorem.                                                            *)
(***************************************************************************)

\* Every step of the registry is simulated.
LEMMA StepSimulated ==
  ASSUME RegistryAssumption, RefinementInvariant, [Next \/ Terminated]_vars
  PROVE  Simulated
<1>0. StateFacts /\ Drops /\ RunningIsRegistered
  BY StateHolds DEF RefinementInvariant, RegistryInvariant, Boxes
<1>1. ASSUME NEW a \in Activations, Calls(a) PROVE Simulated
  BY <1>0, <1>1, CallsSimulated
<1>2. ASSUME NEW a \in Activations, RegistrySteps(a) PROVE Simulated
  BY <1>0, <1>2, RegistryAssumption, LockSimulated, InsertSimulated, RemoveSimulated,
     CountSimulated, LookupSimulated, ConsumeSimulated DEF RegistrySteps
<1>3. ASSUME NEW a \in Activations, UserSteps(a) PROVE Simulated
  BY <1>0, <1>3, RegistryAssumption, ReturnsSimulated, PanicsSimulated,
     DropReturnsSimulated, DropPanicsSimulated DEF UserSteps
<1>4. CASE UNCHANGED vars
  <2>1. \A a \in Activations : AbstractCall(a)' = AbstractCall(a)
    BY <1>4, MappedCall, MappedCallPrime DEF vars
  <2>2. MappedCalls' = MappedCalls /\ AbstractTable' = AbstractTable
    BY <1>4, <2>1 DEF MappedCalls, AbstractTable, Displacing, vars
  <2> QED BY <1>4, <2>2 DEF Simulated, RS!vars, MappedCalls, vars
<1> QED BY <1>1, <1>2, <1>3, <1>4 DEF Next, Terminated

\* The registry starts as the atomic registry does.
LEMMA InitSimulated ==
  ASSUME RegistryAssumption, Init
  PROVE  RS!Init
<1>1. AbstractTable = [n \in Names |-> None]
  BY TableIsMap DEF Init
<1>2. \A a \in Activations : AbstractCall(a) = RS!NoCall
  BY MappedCall, SameApi DEF Init, Idle, CallOf, PhaseOf, RS!NoCall
<1>3. MappedCalls = [a \in Activations |-> RS!NoCall]
  BY <1>2 DEF MappedCalls
<1> QED BY <1>1, <1>3 DEF RS!Init, MappedCalls, Init

\* The registry implements the atomic registry: although an operation of
\* callback.rs takes several steps and runs user code in the middle, under
\* the lock or after it, each takes effect at one instant.
THEOREM RegistryIsLinearizable ==
  ASSUME RegistryAssumption
  PROVE  Spec => Linearizable
<1>1. Init => RS!Init
  BY InitSimulated, RegistryAssumption
<1>2. RefinementInvariant /\ [Next \/ Terminated]_vars => RS!Next \/ UNCHANGED RS!vars
  BY StepSimulated, RegistryAssumption DEF Simulated
<1> QED BY <1>1, <1>2, RefinementInvariantHolds, PTL DEF Spec, Linearizable, RS!Spec

-----------------------------------------------------------------------------
(***************************************************************************)
(* What a client of the registry may take from it: how one step of one     *)
(* activation looks from outside.                                          *)
(***************************************************************************)

\* A step of one activation, in an operation or in user code.
StepOf(a) == Calls(a) \/ RegistrySteps(a) \/ UserSteps(a)

\* It leaves the calls of the others as they look.
LEMMA OthersLookTheSame ==
  ASSUME StateFacts, NEW a \in Activations, StepOf(a)
  PROVE  OthersKept(a)
<1> SUFFICES ASSUME NEW b \in Activations, b # a
             PROVE  /\ frame'[b] = frame[b]
                    /\ guard' = b <=> guard = b
                    /\ guard = b => callbacks' = callbacks
  BY Others
<1> USE DEF StateFacts
<1>1. CASE Calls(a)
  BY <1>1 DEF Calls, RegisterCallback, FfiRegisterCallback, UnregisterCallback,
     FfiUnregisterCallback, FfiInvokeCallback, CallbackCount, Enter
<1>2. CASE Lock(a)
  BY <1>2 DEF Lock, MayLock, TakeGuard, ReportPoison, DropThenReturn, Return
<1>3. ASSUME frame[a].pc = "locked"
      PROVE  guard = a
  BY <1>3 DEF HoldsGuard
<1>4. ReleaseGuard(a) => (guard' = b <=> guard = b)
  BY DEF ReleaseGuard
<1>5. CASE Insert(a) \/ Remove(a)
  <2>1. guard = a
    BY <1>3, <1>5 DEF Insert, Remove
  <2>2. frame'[b] = frame[b]
    BY <1>5 DEF Insert, Remove, DropThenReturn, Return
  <2>3. guard' = guard \/ ReleaseGuard(a)
    BY <1>5 DEF Insert, Remove
  <2> QED BY <1>4, <2>1, <2>2, <2>3
<1>6. CASE Count(a) \/ Lookup(a) \/ Consume(a)
  <2>1. frame'[b] = frame[b]
    BY <1>6 DEF Count, Lookup, Consume, Return
  <2>2. (guard' = guard \/ ReleaseGuard(a)) /\ callbacks' = callbacks
    BY <1>6 DEF Count, Lookup, Consume
  <2> QED BY <1>4, <2>1, <2>2
<1>7. CASE UserSteps(a)
  <2>1. frame'[b] = frame[b]
    BY <1>7 DEF UserSteps, CallbackReturns, DropReturns, CallbackPanics, DropPanics,
       Return, Abort
  <2>2. (guard' = guard \/ ReleaseGuard(a)) /\ callbacks' = callbacks
    BY <1>7 DEF UserSteps, CallbackReturns, DropReturns, CallbackPanics, DropPanics,
       Abort, UnwindGuard
  <2> QED BY <1>4, <2>1, <2>2
<1> QED BY <1>1, <1>2, <1>5, <1>6, <1>7 DEF StepOf, RegistrySteps

\* It is a step of the same caller of the atomic registry, or none.
LEMMA StepAppears ==
  ASSUME RegistryAssumption, RefinementInvariant, NEW a \in Activations, StepOf(a)
  PROVE  \/ UNCHANGED <<AbstractTable, poisoned, alive, MappedCalls>>
         \/ alive /\ ~alive' /\ UNCHANGED <<AbstractTable, poisoned, MappedCalls>>
         \/ RS!Call(a) \/ RS!TakeEffect(a) \/ RS!FinishDrop(a) \/ RS!Finish(a)
<1>1. Simulated
  BY StepSimulated DEF StepOf, Next
<1>2. OthersKept(a)
  BY StateHolds, OthersLookTheSame
<1>3. \A b \in Activations : MappedCalls[b] = AbstractCall(b) /\ MappedCalls'[b] = AbstractCall(b)'
  BY DEF MappedCalls
<1>4. CASE UNCHANGED RS!vars
  BY <1>4 DEF RS!vars, MappedCalls
<1>5. ASSUME NEW b \in Activations, RS!Crash(b)
      PROVE  alive /\ ~alive' /\ UNCHANGED <<AbstractTable, poisoned, MappedCalls>>
  BY <1>5 DEF RS!Crash, MappedCalls
<1>6. ASSUME NEW b \in Activations,
             RS!Call(b) \/ RS!TakeEffect(b) \/ RS!FinishDrop(b) \/ RS!Finish(b)
      PROVE  b = a
  <2>1. MappedCalls'[b].phase # MappedCalls[b].phase
    <3> DEFINE now == MappedCalls[b]
    <3>1. CASE RS!Call(b)
      <4>1. PICK op, n, c : RS!Begin(b, op, n, c)
        BY <3>1 DEF RS!Call
      <4>2. now.phase = "idle" /\ MappedCalls'[b].phase \in {"returned", "called"}
        BY <4>1 DEF RS!Begin, MappedCalls
      <4> QED BY <4>2
    <3>2. CASE RS!TakeEffect(b)
      BY <3>2 DEF RS!TakeEffect, MappedCalls, AbstractCall
    <3>3. CASE RS!FinishDrop(b)
      BY <3>3 DEF RS!FinishDrop, MappedCalls, AbstractCall
    <3>4. CASE RS!Finish(b)
      BY <3>4 DEF RS!Finish, RS!NoCall, MappedCalls
    <3> QED BY <1>6, <3>1, <3>2, <3>3, <3>4
  <2> QED BY <1>2, <1>3, <2>1 DEF OthersKept
<1> QED BY <1>1, <1>4, <1>5, <1>6 DEF Simulated, RS!Next

\* The registration or removal that a client other than an invocation makes.
\* The closure that it displaces may have panicked.
Administered ==
  \E name \in Names, c \in Callbacks \cup {None} :
    /\ AbstractTable' = [AbstractTable EXCEPT ![name] = c]
    /\ \/ poisoned' = poisoned
       \/ /\ AbstractTable[name] \in Closures /\ PanicStrategy = "unwind"
          /\ poisoned' = TRUE

\* Every operation but an invocation changes at most one entry, and poisons
\* the registry only when user code may panic into it.
LEMMA AdministrationAppears ==
  ASSUME RegistryAssumption, RefinementInvariant, NEW a \in Activations, StepOf(a),
         frame[a].op # "ffi_invoke_callback"
  PROVE  \/ UNCHANGED <<AbstractTable, poisoned, alive>>
         \/ alive /\ ~alive' /\ UNCHANGED <<AbstractTable, poisoned>>
         \/ alive /\ alive' = alive /\ ~poisoned /\ Administered
<1>0. StateFacts
  BY StateHolds
<1>1. CASE RS!Call(a) \/ RS!FinishDrop(a) \/ RS!Finish(a)
  BY <1>1 DEF RS!Call, RS!Begin, RS!FinishDrop, RS!Finish
<1>2. CASE RS!TakeEffect(a)
  <2> DEFINE op == frame[a].op
             name == frame[a].name
             cb == AbstractCall(a).cb
  <2>1. /\ AbstractCall(a).op = op /\ AbstractCall(a).name = name
        /\ AbstractCall(a).phase = "called" /\ alive /\ alive' = alive
    BY <1>2, MappedCall DEF RS!TakeEffect, CallOf
  <2>2. PICK e \in RS!Effects(op, name, cb) :
          AbstractTable' = e.table /\ poisoned' = e.poisoned
    BY <1>2, <2>1 DEF RS!TakeEffect
  <2>3. /\ op \in Ops
        /\ op # "callback_count" => name \in Names
        /\ op \in RegisterOps => cb \in Callbacks \cup {None}
    <3>1. frame[a].pc \in {"lock", "locked", "drop"}
      BY <1>0, <2>1, MappedCall DEF CallOf, PhaseOf, StateFacts, FrameOK, Frame
    <3>2. CASE frame[a].pc \in {"lock", "locked"}
      <4>1. ArgumentsOK(frame[a])
        BY <1>0, <3>2 DEF StateFacts, FrameOK
      <4>2. cb = frame[a].cb
        BY <3>2, MappedCall DEF CallOf
      <4>3. op \in RegisterOps => cb \in Callbacks
        BY <4>1, <4>2, ArgumentBox DEF RegisterOps, Callbacks
      <4> QED BY <4>1, <4>3 DEF ArgumentsOK
    <3>3. CASE frame[a].pc = "drop"
      <4>1. op \in RegisterOps \cup UnregisterOps /\ name \in Names
        BY <1>0, <3>3 DEF StateFacts, FrameOK
      <4>2. cb = frame[a].cb \/ cb = callbacks[name]
        BY <3>3, MappedCall DEF CallOf
      <4>3. frame[a].cb \in Callbacks \cup {None} /\ callbacks[name] \in Callbacks \cup {None}
        BY <1>0, <4>1 DEF StateFacts, Frame
      <4> QED BY <4>1, <4>2, <4>3 DEF RegisterOps, UnregisterOps, Ops
    <3> QED BY <3>1, <3>2, <3>3
  <2> HIDE DEF op, name, cb
  <2>4. CASE poisoned
    <3>1. e.table = AbstractTable /\ e.poisoned = TRUE
      BY <2>2, <2>4 DEF RS!Effects, RS!Effect
    <3> QED BY <1>0, <2>1, <2>2, <2>4, <3>1 DEF StateFacts
  <2>5. CASE ~poisoned /\ op \in RegisterOps
    <3>1. e \in RS!RegisterEffects(op, name, cb)
      BY <2>2, <2>5, EffectsByOp
    <3>2. /\ e.table = [AbstractTable EXCEPT ![name] = cb]
          /\ \/ e.poisoned = FALSE
             \/ e.poisoned = TRUE /\ RS!Catchable(op, AbstractTable[name])
      BY <3>1 DEF RS!RegisterEffects, RS!Effect
    <3>3. name \in Names /\ cb \in Callbacks \cup {None}
      BY <2>3, <2>5 DEF RegisterOps
    <3>4. poisoned = FALSE
      BY <1>0, <2>5 DEF StateFacts
    <3> QED BY <2>1, <2>2, <2>5, <3>2, <3>3, <3>4 DEF Administered, RS!Catchable
  <2>6. CASE ~poisoned /\ op \in UnregisterOps
    <3>1. e \in RS!UnregisterEffects(op, name)
      BY <2>2, <2>6, EffectsByOp
    <3>2. e.table = [AbstractTable EXCEPT ![name] = None] /\ e.poisoned = FALSE
      BY <3>1 DEF RS!UnregisterEffects, RS!Effect
    <3>3. name \in Names
      BY <2>3, <2>6 DEF UnregisterOps
    <3>4. poisoned = FALSE
      BY <1>0, <2>6 DEF StateFacts
    <3> QED BY <2>1, <2>2, <2>6, <3>2, <3>3, <3>4 DEF Administered
  <2>7. CASE ~poisoned /\ op = "callback_count"
    <3>1. e \in RS!CountEffects
      BY <2>2, <2>7, EffectsByOp
    <3>2. e.table = AbstractTable /\ e.poisoned = FALSE
      BY <3>1 DEF RS!CountEffects, RS!Effect
    <3> QED BY <1>0, <2>1, <2>2, <2>7, <3>2 DEF StateFacts
  <2>8. op # "ffi_invoke_callback"
    BY DEF op
  <2> QED BY <2>3, <2>4, <2>5, <2>6, <2>7, <2>8 DEF Ops, RegisterOps, UnregisterOps
<1> QED BY <1>1, <1>2, StepAppears

\* What an invocation under which `callback` is registered may answer.
Answers(callback, val) ==
  \/ poisoned /\ poisoned' /\ val = Code("LockPoisoned")
  \/ ~poisoned /\ ~poisoned' /\ callback = None /\ val = Code("NotFound")
  \/ /\ ~poisoned /\ ~poisoned' /\ callback # None
     /\ \E code \in CallbackCodes : val = Invoked(code).val
  \/ /\ ~poisoned /\ poisoned' /\ callback \in Closures /\ PanicStrategy = "unwind"
     /\ val = Code("Panic")

\* An invocation in progress goes on unseen, or ends the process, or is
\* answered for the table of that instant, which it leaves as it is.
LEMMA InvocationAppears ==
  ASSUME RegistryAssumption, RefinementInvariant, NEW a \in Activations, StepOf(a),
         frame[a].op = "ffi_invoke_callback", frame[a].pc \in {"lock", "locked", "run"}
  PROVE  /\ AbstractTable' = AbstractTable
         /\ \/ UNCHANGED <<poisoned, alive>> /\ frame'[a].pc # "returned"
            \/ alive /\ ~alive' /\ UNCHANGED poisoned /\ frame'[a].pc # "returned"
            \/ /\ alive /\ alive' = alive
               /\ frame'[a].pc = "returned"
               /\ Answers(AbstractTable[frame[a].name], frame'[a].res.val)
<1>0. StateFacts
  BY StateHolds
<1>1. /\ AbstractCall(a).phase = "called" /\ AbstractCall(a).op = "ffi_invoke_callback"
      /\ AbstractCall(a).name = frame[a].name
      /\ frame[a].cb \notin Closures \/ frame[a].pc = "run"
      /\ AbstractCall(a).cb \notin Closures
  <2>1. frame[a].pc # "run" => frame[a].cb = None
    BY <1>0, ArgumentBox DEF StateFacts, FrameOK, RegisterOps
  <2> QED BY <1>0, <2>1, MappedCall DEF CallOf, PhaseOf, StateFacts, Callbacks
<1>2. MappedCalls[a] = AbstractCall(a) /\ MappedCalls'[a] = AbstractCall(a)'
  BY DEF MappedCalls
<1>3. ~(RS!Call(a) \/ RS!FinishDrop(a) \/ RS!Finish(a))
  BY <1>1 DEF RS!Call, RS!Begin, RS!FinishDrop, RS!Finish
<1>4. CASE RS!TakeEffect(a)
  <2> DEFINE name == frame[a].name
             cb == AbstractCall(a).cb
  <2>1. PICK e \in RS!Effects("ffi_invoke_callback", name, cb) :
          /\ AbstractTable' = e.table /\ poisoned' = e.poisoned
          /\ AbstractCall(a)'.phase = IF e.drop = None THEN "returned" ELSE "dropping"
          /\ AbstractCall(a)'.res = e.res
    <3>1. PICK e \in RS!Effects(MappedCalls[a].op, MappedCalls[a].name, MappedCalls[a].cb) :
            /\ AbstractTable' = e.table /\ poisoned' = e.poisoned
            /\ MappedCalls' = [MappedCalls EXCEPT
                 ![a].phase = IF e.drop = None THEN "returned" ELSE "dropping",
                 ![a].cb = e.drop,
                 ![a].res = e.res]
      BY <1>4 DEF RS!TakeEffect, MappedCalls
    <3>2. DOMAIN MappedCalls = Activations
      BY DEF MappedCalls
    <3>3. MappedCalls[a] \in [phase : {"called"}, op : {"ffi_invoke_callback"},
                              name : {name}, cb : {cb}, res : {AbstractCall(a).res}]
      BY <1>1, <1>2 DEF AbstractCall
    <3>4. /\ MappedCalls'[a].phase = IF e.drop = None THEN "returned" ELSE "dropping"
          /\ MappedCalls'[a].res = e.res
      BY <3>1, <3>2, <3>3
    <3> QED BY <1>1, <1>2, <3>1, <3>4
  <2>2. alive /\ alive' = alive
    BY <1>4 DEF RS!TakeEffect
  <2>3. AbstractCall(a)'.phase = "returned" =>
          frame'[a].pc = "returned" /\ AbstractCall(a)'.res = frame'[a].res
    BY MappedCallPrime DEF CallOf, PhaseOf
  <2>4. cb \notin Closures
    BY <1>1
  <2> HIDE DEF name, cb
  <2>5. CASE poisoned
    <3>1. /\ e.table = AbstractTable /\ e.poisoned = TRUE /\ e.drop = None
          /\ e.res = PoisonReported("ffi_invoke_callback")
      BY <2>1, <2>4, <2>5, SameApi DEF RS!Effects, RS!Effect
    <3>2. PoisonReported("ffi_invoke_callback").val = Code("LockPoisoned")
      BY DEF PoisonReported, Result, RegisterOps, UnregisterOps
    <3> QED BY <2>1, <2>2, <2>3, <2>5, <3>1, <3>2 DEF Answers, name
  <2>6. CASE ~poisoned
    <3>1. e \in RS!InvokeEffects(name)
      BY <2>1, <2>6, EffectsByOp
    <3>2. CASE AbstractTable[name] = None
      <4>1. /\ e.table = AbstractTable /\ e.poisoned = FALSE /\ e.drop = None
            /\ e.res.val = Code("NotFound")
        BY <3>1, <3>2, SameApi DEF RS!InvokeEffects, RS!Effect, Result
      <4> QED BY <2>1, <2>2, <2>3, <2>6, <3>2, <4>1 DEF Answers, name
    <3>3. CASE AbstractTable[name] # None
      <4>1. /\ e.table = AbstractTable /\ e.drop = None
            /\ \/ e.poisoned = FALSE /\ \E code \in CallbackCodes : e.res = Invoked(code)
               \/ /\ e.poisoned = TRUE /\ e.res.val = Code("Panic")
                  /\ AbstractTable[name] \in Closures /\ PanicStrategy = "unwind"
        BY <3>1, <3>3, SameApi DEF RS!InvokeEffects, RS!Effect, Result, RS!Catchable
      <4> QED BY <2>1, <2>2, <2>3, <2>6, <3>3, <4>1 DEF Answers, name
    <3> QED BY <3>2, <3>3
  <2> QED BY <2>5, <2>6
<1>5. ASSUME AbstractCall(a)' = AbstractCall(a)
      PROVE  frame'[a].pc # "returned"
  BY <1>1, <1>5, MappedCallPrime DEF CallOf, PhaseOf
<1> QED BY <1>2, <1>3, <1>4, <1>5, StepAppears

\* Entering an operation and taking its result leave the table as it looks.
LEMMA TableKept ==
  ASSUME StateFacts, NEW a \in Activations, frame[a].pc \in {"idle", "returned"},
         callbacks' = callbacks, guard' = guard,
         \A b \in Activations : b # a => frame'[b] = frame[b]
  PROVE  AbstractTable' = AbstractTable
<1>1. guard # a
  BY DEF StateFacts, HoldsGuard
<1>2. guard # NoGuard => frame'[guard] = frame[guard]
  BY <1>1 DEF StateFacts
<1> QED BY <1>2 DEF AbstractTable, Displacing
=============================================================================
