\* size_t of 6 bits, C.int of 3.
CONSTANTS
  SizeMod = 64
  CIntMod = 8
  Memory = 26
SPECIFICATION Spec
INVARIANTS TypeOK BufferIsAsAsked ShortIsExact
\* A program that has read its Buffer, or has failed, is over.
CHECK_DEADLOCK FALSE
