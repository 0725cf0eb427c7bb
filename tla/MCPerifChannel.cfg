SPECIFICATION PerifSpec
CONSTANTS
  Bytes <- MCBytes
  Depth = 2
  Half = 1
  RxPeriod = 2
  ShiftLength = 2
  SampleSize = 1
  StartBit = 1
  Configs <- MCConfigs
  Writes <- MCWrites
  Commands <- MCCommands
  Levels = {0, 1}
  Durations = {1, 3}
  MaxOwed = 4
  MaxHeard = 6
INVARIANTS
  BitsInOrder
  NoDrift
  BytesFromLine
PROPERTIES
  ClockStopsRight
