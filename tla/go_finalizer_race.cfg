\* A goroutine that is alone, and whose last use of the Buffer is a call.
CONSTANTS
  g1 = g1  g2 = g2  g3 = g3  b1 = b1
  Null = Null
  Dangling = Dangling
  MaxSize = 1
  Blocks <- OneBlock
  Goroutines <- OneGoroutine
  Collector = Collector
  Rules = {"exclusive_free", "no_raw_when_freed"}
SPECIFICATION Spec
INVARIANT HeapSound
CHECK_DEADLOCK FALSE
