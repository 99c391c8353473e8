\* Three goroutines that keep no rule, and the finalizer.
CONSTANTS
  g1 = g1  g2 = g2  g3 = g3  b1 = b1
  Null = Null
  Dangling = Dangling
  MaxSize = 1
  Blocks <- OneBlock
  Goroutines <- ThreeGoroutines
  Collector = Collector
  Rules = {}
SPECIFICATION FairSpec
INVARIANTS TypeOK OnlyBrokenRulesCorrupt
PROPERTIES BytesUntilFreed EventuallyFreed
\* Everybody may have forgotten the Buffer, and its memory is freed.
CHECK_DEADLOCK FALSE
