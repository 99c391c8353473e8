------------------------------ MODULE FfiErrors ------------------------------
(***************************************************************************)
(* The error taxonomy of rust/src/errors.rs: the numeric codes that cross  *)
(* the boundary.  Codes are the integers of the repr(i32) enum, because    *)
(* every other side (C header, Go) compares them as integers.              *)
(***************************************************************************)
EXTENDS Integers

(***************************************************************************)
(* enum FfiErrorCode.                                                      *)
(***************************************************************************)
FfiErrorCode ==
  [ Ok            |-> 0,
    NullPointer   |-> 1,
    BufferTooSmall|-> 2,
    InvalidUtf8   |-> 3,
    Serialization |-> 4,
    Panic         |-> 5,
    Timeout       |-> 6,
    NotFound      |-> 7,
    LockPoisoned  |-> 8,
    Unknown       |-> 99 ]

(***************************************************************************)
(* FfiError::code.  The Rust error enum has one variant per code other     *)
(* than Ok, and maps each variant to the code of the same name.            *)
(***************************************************************************)
ErrorVariants == DOMAIN FfiErrorCode \ {"Ok"}

Code(variant) == FfiErrorCode[variant]
=============================================================================
