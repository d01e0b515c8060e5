SPECIFICATION Spec
CONSTANTS
  WORD = 65536
  Durations = {0, 10, 25}
  KeysEarly = FALSE
INVARIANTS
  TypeOK
  OneInService
PROPERTIES
  SleepLength
  SleepReturns
  KeyRead
