CONSTANTS
  r1 = r1
  r2 = r2
  NaN = NaN
  Regions <- MCRegions
  LatencyTable <- MCLatencyTable
  MaxServersPerRegion = 1
  ServerCapacity = 2
  MaxLatency = 2
  MaxRate = 3
  MaxDemand = 3
  CarbonLevels = {1, 3}
  RequestRate = 0
  SolverSlack = FALSE
  Hours = 2
  Schedulers = {"replay"}
SPECIFICATION Spec
INVARIANT WeightsAreProportions
