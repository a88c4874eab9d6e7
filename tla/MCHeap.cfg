CONSTANTS
  WORD = 128
  HEAP_START = 5
  HEAP_END = 79
  SIZES <- MCSizes
SPECIFICATION Spec
INVARIANTS
  BlocksApart
  AccountsForHeap
PROPERTY ImplementsAllocator
