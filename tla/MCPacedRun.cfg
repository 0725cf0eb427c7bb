SPECIFICATION Spec
CONSTANTS
  pru0 = pru0
  rtu0 = rtu0
  pru1 = pru1
  Cores = {pru0, rtu0, pru1}
  PerifCores = {pru0, pru1}
  RingCores = {rtu0}
  Units <- MCUnits
  Guard = 1
  Budget = 1
  Costs = {1}
  Selections <- MCSelections
  MaxCount = 1
  MaxTime = 3
  MaxStepTime = 2
INVARIANTS
  FollowersReachTargets
PROPERTIES
  TimeNeverRewinds
  LeadWaits
