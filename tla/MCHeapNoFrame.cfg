SPECIFICATION Spec
CONSTANTS
  WORD = 256
  PAGE_SIZE = 8
  PT_ENTRIES = 3
  MemLow = 14
  MemHigh = 56
  ALIGN = 2
  SIZEOF_BLOCK = 2
  INITIAL = 12
  HEAP_PAGES = 8
  Requests = {3, 11}
INVARIANTS
  TablesOwned
