\* A callback that calls the registry.
CONSTANTS
  t1 = t1  t2 = t2  n1 = n1  n2 = n2  c1 = c1  c2 = c2  f1 = f1
  None = None
  NoGuard = NoGuard
  Threads <- OneThread
  MaxDepth = 2
  Names <- OneName
  BadNames = {}
  Closures <- TwoClosures
  CFunctions <- OneCFunction
  PanicStrategy = "unwind"
  ReentrantCalls = TRUE
SPECIFICATION Spec
INVARIANT NoSelfDeadlock
CHECK_DEADLOCK FALSE
