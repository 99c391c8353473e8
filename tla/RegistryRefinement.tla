-------------------------- MODULE RegistryRefinement --------------------------
(***************************************************************************)
(* CallbackRegistry implements RegistrySpec: although an operation takes   *)
(* several steps and runs user code in the middle, it appears to happen    *)
(* at one instant.                                                         *)
(*                                                                         *)
(* The instant is the last step that the activation takes with the guard.  *)
(* An operation whose map change has been made but whose destructor still  *)
(* runs under the guard therefore has not happened yet: for the others the *)
(* map still is what it was.                                               *)
(***************************************************************************)
EXTENDS CallbackRegistry

\* The activation that has changed the map and is destroying the displaced
\* closure before it drops the guard.
Displacing == guard # NoGuard /\ frame[guard].pc = "drop"

AbstractTable ==
  IF Displacing
    THEN [callbacks EXCEPT ![frame[guard].name] = frame[guard].cb]
    ELSE callbacks

AbstractPhase(a) ==
  CASE frame[a].pc = "idle"                    -> "idle"
    [] frame[a].pc = "returned"                -> "returned"
    [] frame[a].pc = "drop" /\ guard # a       -> "dropping"
    [] OTHER                                   -> "called"

AbstractCall(a) ==
  [phase |-> AbstractPhase(a),
   op    |-> frame[a].op,
   name  |-> frame[a].name,
   cb    |-> CASE frame[a].pc = "run"               -> None
               [] frame[a].pc = "drop" /\ guard = a -> callbacks[frame[a].name]
               [] OTHER                             -> frame[a].cb,
   res   |-> IF AbstractPhase(a) = "called" THEN NoResult ELSE frame[a].res]

RS == INSTANCE RegistrySpec WITH
        Callers <- Activations,
        table   <- AbstractTable,
        call    <- [a \in Activations |-> AbstractCall(a)]

\* Every behaviour of the registry is one of the atomic registry: no thread
\* sees a half-done operation, an invocation runs the callback registered at
\* one instant, and counts and removals answer for that same instant.
Linearizable == RS!Spec
=============================================================================
