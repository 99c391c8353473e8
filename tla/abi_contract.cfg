\* A program that keeps the rules, any callback, and an allocator that may run
\* out of memory.
CONSTANTS
  b1 = b1  b2 = b2  b3 = b3  b4 = b4  s1 = s1  s2 = s2  s3 = s3
  Null = Null
  Dangling = Dangling
  MaxSize = 2
  Blocks <- FourBlocks
  Slots <- ThreeSlots
  CallbackKinds <- AllKinds
  Rules <- RuleNames
  AllocMayFail = TRUE
SPECIFICATION Spec
SYMMETRY Interchangeable
INVARIANTS
  TypeOK HeapSound OnlyKnownLeaks NoAlias HandlesDescribeHeap ResultShape
  ValueDecodes
\* Parts of callbacks' results leak until no block is left; and an aborted
\* process takes no step.
CHECK_DEADLOCK FALSE
