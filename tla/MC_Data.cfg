CONSTANTS
  Timesteps = 2
  Lengths = {25, 26, 27, 28}
  NotFound = NotFound
SPECIFICATION Spec
INVARIANT LoadFailsOnlyAsSpecified
