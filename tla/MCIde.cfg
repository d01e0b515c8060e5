SPECIFICATION Spec
CONSTANTS
  BYTE = 4
  HEADS = 2
  SPT = 3
  MAX_SECS = 2
  Models <- MCModels
  Lbas = {0, 5, 90, 91, 126, 127, 128, 199, 253, 255}
  Counts = {1, 3}
INVARIANTS
  DevicesFound
  SectorsAsked
  CommandInRange
  BufferFits
PROPERTIES
  AnswerTrue
  Returns
