SPECIFICATION IrqSpec
CONSTANTS
  SCREEN_WIDTH = 2
  SCREEN_HEIGHT = 2
  SCROLLBACK_LINES = 3
  WORD = 30
  TAB = 2
  Chars = {a}
  Colors = {white}
  MaxTail = 3
  BYTE = 2
  CURSOR_OFF = 1
  KEEP_START = 2
  KEEP_END = 2
  LAST_SCAN = 1
INVARIANTS
  IrqTypeOK
  ViewWindowIrq
  DamageConfined
  CursorConfined
PROPERTIES
  HistoryKeptIrq
