SPECIFICATION FairSpec
CONSTANTS
  WORD = 256
  PAGE_SIZE = 8
  PT_ENTRIES = 3
  MemLow = 14
  MemHigh = 64
  ALIGN = 2
  SIZEOF_BLOCK = 2
  INITIAL = 12
  HEAP_PAGES = 8
  Requests = {0, 3, 11}
INVARIANTS
  TypeOK
  FramesSound
  BlocksSound
  HeapMapped
PROPERTIES
  FailsOnlyWhenOut
  KmallocReturns
  ImplementsAllocator
