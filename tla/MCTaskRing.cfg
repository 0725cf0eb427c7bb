SPECIFICATION FairSpec
CONSTANTS
  Depth = 2
  MaxIdsPerXout = 2
  ShortCopy = 3
  LongCopy = 4
  RingNums <- MCRingNums
  MaxElapsed = 2
  MaxSubmitted = 7
INVARIANTS
  NotBusyMeansDrained
  OverflowCountsLost
PROPERTIES
  ImplementsFifo
  DrainsAfterHalt
