SPECIFICATION FairSpec
CONSTANTS
  v1 = v1
  v2 = v2
  v3 = v3
  pru0 = pru0
  NoView = NoView
  MemoryPanel = MemoryPanel
  Views = {v1, v2, v3}
  Panels = {pru0}
INVARIANTS
  StaleViewsArePending
PROPERTIES
  ViewsCatchUp
