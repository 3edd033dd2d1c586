CONSTANTS
  r1 = r1
  r2 = r2
  Empty = Empty
  NoRoutes = NoRoutes
  None = None
  Regions <- MCRegions
  InitWeights <- MCInitWeights
  Decisions <- MCDecisions
  Hours = 2
  Timesteps = 3
SPECIFICATION Spec
INVARIANT PatchNeverAborts
