SPECIFICATION FairSpec
CONSTANTS
  Size = 3
  Programs <- MCPrograms
  Reloads <- MCReloads
  MaxStall = 2
  MaxRing = 2
  MaxLag = 3
INVARIANTS
  LoopConfined
  ClocksAgree
PROPERTIES
  LoopRunsCount
  LoopEnds
