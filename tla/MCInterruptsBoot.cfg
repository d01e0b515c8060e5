SPECIFICATION Spec
CONSTANTS
  WORD = 65536
  Durations = {0, 10, 25}
  KeysEarly = TRUE
INVARIANTS
  UnmaskedHaveDriver
