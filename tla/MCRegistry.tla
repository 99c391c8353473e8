------------------------------ MODULE MCRegistry ------------------------------
(***************************************************************************)
(* Instances of the registry for TLC.                                      *)
(***************************************************************************)
EXTENDS RegistryRefinement, TLC

CONSTANTS t1, t2, n1, n2, c1, c2, f1

OneThread == {t1}
TwoThreads == {t1, t2}
OneName == {n1}
TwoNames == {n1, n2}
TwoClosures == {c1, c2}
OneCFunction == {f1}

\* Threads, names and closures are interchangeable; used by the runs that
\* check no liveness property.
Interchangeable ==
  {p @@ q @@ r : p \in Permutations(TwoThreads), q \in Permutations(TwoNames),
                 r \in Permutations(TwoClosures)}
=============================================================================
