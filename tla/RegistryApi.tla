----------------------------- MODULE RegistryApi -----------------------------
(***************************************************************************)
(* The signatures of the operations of rust/src/callback.rs: their names   *)
(* and what each of them answers.  Shared by the abstract registry         *)
(* (RegistrySpec) and the detailed one (CallbackRegistry).                 *)
(***************************************************************************)
EXTENDS FfiErrors, FiniteSets

RegisterOps   == {"register_callback", "ffi_register_callback"}
UnregisterOps == {"unregister_callback", "ffi_unregister_callback"}
FfiOps ==
  {"ffi_register_callback", "ffi_unregister_callback", "ffi_invoke_callback"}
Ops == RegisterOps \cup UnregisterOps
         \cup {"ffi_invoke_callback", "callback_count"}

\* The C names cstr_to_string refuses: a null pointer, bytes that are not UTF-8.
BadNameKinds == {"null", "non_utf8"}

(***************************************************************************)
(* What the operations return.  `kind` is the return type, `val` the       *)
(* integer a caller sees: an FfiErrorCode in an FfiResult or an Err, the   *)
(* i32 status of the C functions, a count, 1 and 0 for Ok(true), Ok(false).*)
(* "unwound" is a panic that propagates to a Rust caller.                  *)
(***************************************************************************)
Results ==
  [kind : {"FfiResult", "Err", "Ok", "i32", "usize", "unwound"}, val : Int]

Result(kind, val) == [kind |-> kind, val |-> val]

NoResult == Result("none", 0)

Unwound == Result("unwound", 0)

\* A registration or a removal that succeeded.
Done(op) == CASE op = "register_callback"   -> Result("Ok", 0)
              [] op = "unregister_callback" -> Result("Ok", 1)
              [] OTHER                      -> Result("i32", 0)

\* A removal that found no entry.
Absent(op) == IF op = "unregister_callback" THEN Result("Ok", 0)
                                            ELSE Result("i32", -1)

\* What an operation returns when CALLBACKS.lock() reports poison.
PoisonReported(op) ==
  CASE op \in {"register_callback", "unregister_callback"}
                                  -> Result("Err", Code("LockPoisoned"))
    [] op = "ffi_invoke_callback" -> Result("FfiResult", Code("LockPoisoned"))
    [] op = "callback_count"      -> Result("usize", 0)
    [] OTHER                      -> Result("i32", -2)

\* What a C entry point returns for a name that cstr_to_string rejects.
Rejected(op, name) ==
  IF op = "ffi_invoke_callback"
    THEN Result("FfiResult", IF name = "null" THEN Code("NullPointer")
                                              ELSE Code("InvalidUtf8"))
    ELSE Result("i32", -1)

\* What ffi_invoke_callback returns when the callback's own result has `code`:
\* any code but Ok is reported as FfiError::Unknown.
Invoked(code) ==
  Result("FfiResult", IF code = FfiErrorCode.Ok THEN FfiErrorCode.Ok
                                                ELSE Code("Unknown"))

\* The codes a callback's result can carry.
CallbackCodes == {FfiErrorCode.Ok} \cup {Code(v) : v \in ErrorVariants}
=============================================================================
