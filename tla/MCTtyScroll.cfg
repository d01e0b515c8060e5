SPECIFICATION Spec
CONSTANTS
  SCREEN_WIDTH = 2
  SCREEN_HEIGHT = 3
  SCROLLBACK_LINES = 5
  WORD = 30
  TAB = 2
  Chars = {a}
  Colors = {white}
  MaxTail = 7
PROPERTIES
  ScrollKeepsText
