SPECIFICATION MCSpec
CONSTANTS
  SizeCodes <- MCSizeCodes
  Window = 2
  Words <- MCWords
  Latency <- MCLatency
  ReissueExtra = 1
  WrBusy = 2
  LoMod = 2
  HiMod = 2
  Mapped <- MCMapped
  LineWords = 2
  MaxElapsed = 2
  MaxWrites = 1
  MaxBusy = 2
  RxThreads = {1, 2}
  TxThread = 1
  TxMax = 2
  MaxInjected = 3
  MaxTransfer = 2
  MaxRetired = 4
  Width <- MCWidth
  Poly <- MCPoly
  Bytes <- MCBytes
  Seeds <- MCSeeds
  ByteBits = 8
  MaxFed = 4
  Base = 3
  MaxTotal = 40
  Cores = {0}
  Regs = 3
  RegBytes = 2
  BankRegs = 2
  IpcFirst = 1
  IpcRegs = 1
  ByteValues = {0, 1}
  ShiftMod = 2
INVARIANTS
  StreamHasNoGap
  ResultsAreExact
  PadsAreExact
PROPERTIES
  DmaIsExact
