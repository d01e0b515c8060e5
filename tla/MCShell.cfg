SPECIFICATION ShellSpec
CONSTANTS
  SCREEN_WIDTH = 6
  SCREEN_HEIGHT = 2
  SCROLLBACK_LINES = 3
  WORD = 30
  TAB = 2
  Chars = {"a", ">"}
  Colors = {"white", "red"}
  MaxTail = 2
  INPUT = 4
  KBD = 1
  Typed <- MCTyped
  CLEAR <- MCCLEAR
  COLOR <- MCCOLOR
  ColorArg <- MCColorArg
  Outputs <- MCOutputs
  MaxKeys = 4
INVARIANTS
  ShellTypeOK
  LineShown
PROPERTIES
  ExecutesShown
  KeysHandled
