-------------------------------- MODULE MCBridge --------------------------------
(***************************************************************************)
(* Instances of the composed system for TLC.                               *)
(***************************************************************************)
EXTENDS Bridge, TLC

CONSTANTS g1, g2, t1, n1, c1, c2, f1, b1, b2, b3, b4, b5

OneGoroutine == {g1}
TwoGoroutines == {g1, g2}
OneThread == {t1}
OneName == {n1}
OneClosure == {c1}
TwoClosures == {c1, c2}
OneCFunction == {f1}
ThreeBlocks == {b1, b2, b3}
FourBlocks == {b1, b2, b3, b4}
FiveBlocks == {b1, b2, b3, b4, b5}

\* Two requests that can be told apart; and a nil input.
TwoRequests == {<<"text">>, <<"text", "text">>}
ThreeRequests == TwoRequests \cup {<<>>}
NilRequests == {<<>>, <<"text">>}

OneCallEach == [t \in Goroutines \cup RustThreads |-> 1]
TwoCallsEach == [t \in Goroutines \cup RustThreads |-> 2]

\* A callback is registered, and replaced or removed during the calls.
MoreRegistrations ==
  [t \in Goroutines \cup RustThreads |-> IF t \in Goroutines THEN 1 ELSE 2]

\* Addresses, goroutines and closures are interchangeable.
Interchangeable ==
  {p @@ q @@ r : p \in Permutations(Blocks), q \in Permutations(Goroutines),
                 r \in Permutations(Closures)}
=============================================================================
