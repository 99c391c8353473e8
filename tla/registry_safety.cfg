\* Two threads that call the registry from callbacks and destructors too: safety,
\* and the refinement of the atomic registry.
CONSTANTS
  t1 = t1  t2 = t2  n1 = n1  n2 = n2  c1 = c1  c2 = c2  f1 = f1
  None = None
  NoGuard = NoGuard
  Threads <- TwoThreads
  MaxDepth = 2
  Names <- TwoNames
  BadNames = {"null", "non_utf8"}
  Closures <- TwoClosures
  CFunctions <- OneCFunction
  PanicStrategy = "unwind"
  ReentrantCalls = TRUE
SPECIFICATION Spec
SYMMETRY Interchangeable
INVARIANTS TypeOK GuardDiscipline OwnedOnce RunningIsRegistered PoisonedIsFree
PROPERTIES PoisonIsFinal Linearizable
\* A thread can block on itself for ever: see registry_self_deadlock.
CHECK_DEADLOCK FALSE
