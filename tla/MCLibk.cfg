SPECIFICATION MCSpec
CONSTANTS
  OUTBUF_CAP = 3
  WORD = 16
  Chr <- MCChr
  Text <- MCText
  Formats <- MCLibkFormats
  Args <- MCArgs
  ULONG_MAX = 77
  Numerals <- MCNumerals
  Bases = {0, 1, 8, 10, 16, 36}
  Lines <- MCLines
  TOP = 4
  Memories <- MCMemories
  Sought = {"", "x"}
  Brands <- MCBrands
  Sizes = {1, 2, 3, 4, 5, 6}
  BootTags <- MCBootTags
  MB_WORD = 256
  MiB = 16
  KiB = 4
  MMAP_HEADER = 16
INVARIANTS
  Printed
  BufferHolds
  StrtoulReads
  TokensCut
  StringsAgree
  BootInfoRead
