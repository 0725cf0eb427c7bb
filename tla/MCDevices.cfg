SPECIFICATION MCSpec
CONSTANTS
  Ports <- MCPorts
  PinsOf <- MCPinsOf
  Devices <- MCDevices
  Home <- MCHome
  Nets <- MCNets
  TimeDriven = {"timed"}
  Responses <- MCResponses
  WireChoices <- MCWires
  RootOf <- MCRootOf
  Owners <- MCOwners
  Asked <- MCAsked
  MaxAttached = 2
  Outputs <- MCOutputs
  LoopPins <- MCLoopPins
  PositionBits = 2
  ErrorBits = 1
  LowBits = 1
  Monoflop = 6
  MinPeriod = 4
  FirstLow = 1
  HighDelays = {1, 2}
  LowDelays = {2, 5}
  IdleDelays = {1, 4}
  Encodings = {"binary", "gray"}
  Positions <- MCPositions
  Errors <- MCErrors
  ByteLen = 2
  OwnAddress <- MCAddress
  PointerOf <- MCPointerOf
  PowerOn <- MCPowerOn
  MaxBytes = 4
  SdChannels = {0, 1}
  Selections = {0, 1, 2}
  Rate <- MCRate
  SdCycle = 2
  DataBits = 4
  ReinitBit = 2
  ClearBit = 3
  OsrValues = {2, 3}
  MaxSamples = 4
  UartBits = 2
  Payloads <- MCPayloads
  Repeats = {1, 2}
  GapBits = {0, 1}
  Periods = {2, 3}
  MaxTrigger = 1
  MaxInjections = 2
INVARIANTS
  InputsAreCurrent
  DirectionsReturn
  NoEcho
  MailboxCanBeTrusted
  WritesAreStored
  ShadowIsFilter
  ReceiverGetsPayload
PROPERTIES
  ConflictsNoted
CHECK_DEADLOCK FALSE
