SPECIFICATION HistorySpec
CONSTANTS
  pru0 = pru0
  pru1 = pru1
  mem = mem
  queue = queue
  Cores = {pru0, pru1}
  Shared = {mem, queue}
  Captured <- AllButQueue
  MaxHistory = 2
  MaxNow = 4
INVARIANTS
  UndoStaysOnPath
  PresentIsOnPath
