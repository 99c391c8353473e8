\* User code that keeps off the lock its own thread holds: no deadlock.
CONSTANTS
  t1 = t1  t2 = t2  n1 = n1  n2 = n2  c1 = c1  c2 = c2  f1 = f1
  None = None
  NoGuard = NoGuard
  Threads <- TwoThreads
  MaxDepth = 2
  Names <- OneName
  BadNames = {"null"}
  Closures <- TwoClosures
  CFunctions <- OneCFunction
  PanicStrategy = "unwind"
  ReentrantCalls = FALSE
SPECIFICATION FairSpec
PROPERTIES GuardReleased PoisonIsReported
