SPECIFICATION Spec
CONSTANTS
  KBD_BUFFER_SIZE = 3
  Letters = {a}
  Others = {one}
  Shifts = {LShift, RShift}
  NavKeys = {Up}
  MaxWire = 2
  None = None
INVARIANTS
  TypeOK
PROPERTIES
  ImplementsQueue
  DropsOnlyWhenFull
  CaseAsTyped
