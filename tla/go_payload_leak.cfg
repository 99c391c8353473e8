\* A goroutine whose callback answers with a copy of the request.
CONSTANTS
  g1 = g1  g2 = g2  t1 = t1  n1 = n1  c1 = c1  c2 = c2  f1 = f1
  b1 = b1  b2 = b2  b3 = b3  b4 = b4  b5 = b5
  Null = Null
  Dangling = Dangling
  None = None
  NoGuard = NoGuard
  MaxSize = 2
  Blocks <- FourBlocks
  Goroutines <- OneGoroutine
  RustThreads <- OneThread
  Requests <- TwoRequests
  Names <- OneName
  BadNames = {}
  Closures <- OneClosure
  CFunctions <- OneCFunction
  PanicStrategy = "unwind"
  Answers = {"copy"}
  MaxCalls <- OneCallEach
SPECIFICATION Spec
INVARIANT NothingLeaks
CHECK_DEADLOCK FALSE
