SPECIFICATION FdSpec
CONSTANTS
  MAX_FD = 4
  tty_in = tty_in
  tty_out = tty_out
  Files = {tty_in, tty_out, f1, f2}
  NULL = NULL
INVARIANTS
  FdTypeOK
  CountsSound
PROPERTIES
  CloseOnLast
