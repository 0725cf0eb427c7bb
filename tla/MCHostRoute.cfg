SPECIFICATION HostSpec
CONSTANTS
  Programs <- MCPrograms
  ReadStall = 1
  WriteStall = 1
  Draws <- MCDraws
  Jitter = 1
  RingTime = 4
  Target = 3
  StepLimits = {0, 1, 2, 4}
  CycleLimits = {0, 1, 3, 4}
  MaxCycles = 8
INVARIANT RouteFollowsRegister
