SPECIFICATION Spec
CONSTANTS
  Half = 2
  Compares = {0, 1}
  Captures = {1}
  ByteOf <- MCByteOf
  Increments = {2, 3}
  ResetInc = 3
  Words = {1}
  ExternalRates <- FiveThirds
  OcpRate <- FiveFourths
  Steps = {1}
  MaxElapsed = 2
  Batches = {1, 5}
INVARIANTS
  BatchMatchesTicks
  PhaseExact
PROPERTIES
  CaptureHeld
