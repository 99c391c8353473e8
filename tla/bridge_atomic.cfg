\* Two goroutines and a Rust thread.
CONSTANTS
  g1 = g1  g2 = g2  t1 = t1  n1 = n1  c1 = c1  c2 = c2  f1 = f1
  b1 = b1  b2 = b2  b3 = b3  b4 = b4  b5 = b5
  Null = Null
  Dangling = Dangling
  None = None
  NoGuard = NoGuard
  MaxSize = 2
  Blocks <- FourBlocks
  Goroutines <- TwoGoroutines
  RustThreads <- OneThread
  Requests <- TwoRequests
  Names <- OneName
  BadNames = {"non_utf8"}
  Closures <- OneClosure
  CFunctions <- OneCFunction
  PanicStrategy = "unwind"
  Answers = {"copy", "alias", "binary", "empty", "error"}
  MaxCalls <- MoreRegistrations
SPECIFICATION Spec
SYMMETRY Interchangeable
INVARIANTS TypeOK HeapSound OnlyKnownLeaks
PROPERTY Atomic
\* The leaks use the memory up.
CHECK_DEADLOCK FALSE
