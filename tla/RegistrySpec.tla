----------------------------- MODULE RegistrySpec -----------------------------
(***************************************************************************)
(* What the callback registry promises: every operation takes effect in    *)
(* one indivisible step between its call and its return, an invocation     *)
(* included, although the callback it runs is arbitrary user code.         *)
(*                                                                         *)
(* The only thing allowed to happen later is the destructor of a closure   *)
(* that the operation no longer needs and that is not protected by the     *)
(* lock ("dropping").                                                      *)
(***************************************************************************)
EXTENDS RegistryApi

CONSTANTS
  Callers,          \* who can have an operation in progress
  Names, BadNames,  \* valid and invalid callback names
  Closures,         \* callbacks that are Rust closures
  CFunctions,       \* callbacks that are C function pointers
  None,
  PanicStrategy     \* "unwind" or "abort"

VARIABLES
  table,     \* name -> callback or None
  poisoned,  \* an operation panicked half-way: the registry is closed for good
  call,      \* the operation in progress of each caller
  alive      \* FALSE once the process has aborted

vars == <<table, poisoned, call, alive>>

NoCall == [phase |-> "idle", op |-> "none", name |-> None, cb |-> None,
           res |-> NoResult]

Unused(c) == /\ \A n \in Names : table[n] # c
             /\ \A a \in Callers : call[a].cb # c

(***************************************************************************)
(* The effects an operation may have: new table, new poison flag, result,  *)
(* and the closure that is left to be destroyed afterwards.                *)
(***************************************************************************)
Effect(tbl, psn, res, drop) ==
  [table |-> tbl, poisoned |-> psn, res |-> res, drop |-> drop]

\* A panic of user code inside the operation can be turned into a result.
Catchable(op, c) ==
  /\ PanicStrategy = "unwind"
  /\ c \in Closures
  /\ op = "ffi_invoke_callback" \/ op \notin FfiOps

\* User code runs inside the operation: the callback invoked, or the
\* destructor of the closure displaced.
UserCode(op, name) ==
  IF op \in RegisterOps \cup {"ffi_unregister_callback", "ffi_invoke_callback"}
    THEN table[name]
    ELSE None

RegisterEffects(op, name, cb) ==
  LET new == [table EXCEPT ![name] = cb]
  IN  {Effect(new, FALSE, Done(op), None)}
        \cup {Effect(new, TRUE, Unwound, None) :
                c \in {x \in {table[name]} : Catchable(op, x)}}

UnregisterEffects(op, name) ==
  LET new == [table EXCEPT ![name] = None]
      res == IF table[name] = None THEN Absent(op) ELSE Done(op)
      late == op = "unregister_callback" /\ table[name] \in Closures
  IN  {Effect(new, FALSE, res, IF late THEN table[name] ELSE None)}

InvokeEffects(name) ==
  IF table[name] = None
    THEN {Effect(table, FALSE, Result("FfiResult", Code("NotFound")), None)}
    ELSE {Effect(table, FALSE, Invoked(code), None) : code \in CallbackCodes}
           \cup {Effect(table, TRUE, Result("FfiResult", Code("Panic")), None) :
                   c \in {x \in {table[name]} :
                            Catchable("ffi_invoke_callback", x)}}

CountEffects ==
  {Effect(table, FALSE,
          Result("usize", Cardinality({n \in Names : table[n] # None})), None)}

Effects(op, name, cb) ==
  IF poisoned
    THEN {Effect(table, TRUE, PoisonReported(op),
                 IF cb \in Closures THEN cb ELSE None)}
    ELSE CASE op \in RegisterOps           -> RegisterEffects(op, name, cb)
           [] op \in UnregisterOps         -> UnregisterEffects(op, name)
           [] op = "ffi_invoke_callback"   -> InvokeEffects(name)
           [] op = "callback_count"        -> CountEffects

-----------------------------------------------------------------------------
Begin(a, op, name, cb) ==
  /\ alive
  /\ call[a].phase = "idle"
  /\ call' = [call EXCEPT ![a] =
       IF name \in BadNames
         THEN [phase |-> "returned", op |-> op, name |-> name, cb |-> None,
               res |-> Rejected(op, name)]
         ELSE [phase |-> "called", op |-> op, name |-> name, cb |-> cb,
               res |-> NoResult]]
  /\ UNCHANGED <<table, poisoned, alive>>

CNames == Names \cup BadNames

Call(a) ==
  \/ \E n \in Names, c \in Closures :
       Unused(c) /\ Begin(a, "register_callback", n, c)
  \/ \E n \in CNames, c \in CFunctions :
       Unused(c) /\ Begin(a, "ffi_register_callback", n, c)
  \/ \E n \in Names : Begin(a, "unregister_callback", n, None)
  \/ \E n \in CNames : Begin(a, "ffi_unregister_callback", n, None)
  \/ \E n \in CNames : Begin(a, "ffi_invoke_callback", n, None)
  \/ Begin(a, "callback_count", None, None)

\* The operation happens.
TakeEffect(a) ==
  /\ alive
  /\ call[a].phase = "called"
  /\ \E e \in Effects(call[a].op, call[a].name, call[a].cb) :
       /\ table' = e.table
       /\ poisoned' = e.poisoned
       /\ call' = [call EXCEPT
            ![a].phase = IF e.drop = None THEN "returned" ELSE "dropping",
            ![a].cb = e.drop,
            ![a].res = e.res]
  /\ UNCHANGED alive

\* The destructor that was left to run returns, or panics into the caller.
FinishDrop(a) ==
  /\ alive
  /\ call[a].phase = "dropping"
  /\ \E res \in {call[a].res}
                  \cup IF PanicStrategy = "unwind" THEN {Unwound} ELSE {} :
       call' = [call EXCEPT ![a].phase = "returned", ![a].cb = None,
                            ![a].res = res]
  /\ UNCHANGED <<table, poisoned, alive>>

\* User code panics where the panic cannot be caught.
Crash(a) ==
  /\ alive
  /\ \/ /\ call[a].phase = "called" /\ ~poisoned
        /\ UserCode(call[a].op, call[a].name) # None
        /\ ~Catchable(call[a].op, UserCode(call[a].op, call[a].name))
     \/ call[a].phase = "dropping" /\ PanicStrategy = "abort"
  /\ alive' = FALSE
  /\ UNCHANGED <<table, poisoned, call>>

Finish(a) ==
  /\ alive
  /\ call[a].phase = "returned"
  /\ call' = [call EXCEPT ![a] = NoCall]
  /\ UNCHANGED <<table, poisoned, alive>>

Init ==
  /\ table = [n \in Names |-> None]
  /\ poisoned = FALSE
  /\ call = [a \in Callers |-> NoCall]
  /\ alive = TRUE

Next ==
  \E a \in Callers :
    Call(a) \/ TakeEffect(a) \/ FinishDrop(a) \/ Crash(a) \/ Finish(a)

Spec == Init /\ [][Next]_vars
=============================================================================
