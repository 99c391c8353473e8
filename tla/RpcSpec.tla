-------------------------------- MODULE RpcSpec --------------------------------
(***************************************************************************)
(* What InvokeCallbackJSON promises a Go program: a call names a callback  *)
(* and gives a request; at one instant between call and return the         *)
(* callback then registered under that name, if any, decides the outcome.  *)
(* Memory, locks, result structs and error codes are not seen.             *)
(***************************************************************************)
EXTENDS Sequences

CONSTANTS
  Clients, Requests,
  Names, BadNames,      \* names that are UTF-8, and names that are not
  Closures, CFunctions, \* the callbacks
  None,
  PanicStrategy,        \* "unwind" or "abort"
  Reply                 \* request -> the answers that callbacks may give to it

VARIABLES
  table,     \* name -> callback or None
  poisoned,  \* user code has panicked under the lock
  call,      \* the call in progress of each client
  alive

vars == <<table, poisoned, call, alive>>

Failure(error) == [response |-> <<>>, error |-> error]

\* The response, when the bytes that the callback answered with are JSON.
Decoded(bytes) ==
  IF bytes = <<>> THEN Failure("empty response")
  ELSE IF \A i \in DOMAIN bytes : bytes[i] = "text"
    THEN [response |-> bytes, error |-> "nil"]
    ELSE Failure("deserialize response")

NoCall == [phase |-> "idle", name |-> None, request |-> <<>>,
           outcome |-> Failure("nil")]

Answered(outcome) == [NoCall EXCEPT !.phase = "answered", !.outcome = outcome]

Call(c) ==
  /\ alive
  /\ call[c] = NoCall
  /\ \/ \E name \in Names, request \in Requests :
          call' = [call EXCEPT ![c] = [NoCall EXCEPT !.phase = "called",
                                        !.name = name, !.request = request]]
     \/ BadNames # {} /\ call' = [call EXCEPT ![c] =
                                    Answered(Failure("ErrInvalidUTF8"))]
  /\ UNCHANGED <<table, poisoned, alive>>

Outcomes(callback, request) ==
  IF callback = None
    THEN {Failure("ErrNotFound")}
    ELSE {Failure("ErrUnknown")} \cup {Decoded(bytes) : bytes \in Reply[request]}

\* The callback decides, or panics, and no later call is answered by one.
TakeEffect(c) ==
  LET callback == table[call[c].name] IN
  /\ alive
  /\ call[c].phase = "called"
  /\ \/ /\ poisoned
        /\ call' = [call EXCEPT ![c] = Answered(Failure("ErrLockPoisoned"))]
        /\ UNCHANGED poisoned
     \/ /\ ~poisoned
        /\ \E outcome \in Outcomes(callback, call[c].request) :
             call' = [call EXCEPT ![c] = Answered(outcome)]
        /\ UNCHANGED poisoned
     \/ /\ ~poisoned
        /\ callback \in Closures /\ PanicStrategy = "unwind"
        /\ call' = [call EXCEPT ![c] = Answered(Failure("ErrPanic"))]
        /\ poisoned' = TRUE
  /\ UNCHANGED <<table, alive>>

Return(c) ==
  /\ alive
  /\ call[c].phase = "answered"
  /\ call' = [call EXCEPT ![c] = NoCall]
  /\ UNCHANGED <<table, poisoned, alive>>

\* Rust code registers or removes a callback; the closure that it displaces
\* may panic.
Administer ==
  /\ alive /\ ~poisoned
  /\ \E name \in Names, c \in Closures \cup CFunctions \cup {None} :
       /\ table' = [table EXCEPT ![name] = c]
       /\ \/ UNCHANGED poisoned
          \/ /\ table[name] \in Closures /\ PanicStrategy = "unwind"
             /\ poisoned' = TRUE
  /\ UNCHANGED <<call, alive>>

\* User code panics where that ends the process.
Crash == alive /\ alive' = FALSE /\ UNCHANGED <<table, poisoned, call>>

Init ==
  /\ table = [n \in Names |-> None]
  /\ poisoned = FALSE
  /\ call = [c \in Clients |-> NoCall]
  /\ alive = TRUE

Next ==
  \/ \E c \in Clients : Call(c) \/ TakeEffect(c) \/ Return(c)
  \/ Administer \/ Crash

Spec == Init /\ [][Next]_vars
=============================================================================
