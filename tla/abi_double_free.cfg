\* A callback that answers with its input, and a program that frees both.
CONSTANTS
  b1 = b1  b2 = b2  b3 = b3  b4 = b4  s1 = s1  s2 = s2  s3 = s3
  Null = Null
  Dangling = Dangling
  MaxSize = 2
  Blocks <- ThreeBlocks
  Slots <- TwoSlots
  CallbackKinds = {"return_input"}
  Rules = {"keep_left", "free_last"}
  AllocMayFail = FALSE
SPECIFICATION Spec
INVARIANT HeapSound
