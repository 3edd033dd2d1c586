CONSTANTS
  r1 = r1
  r2 = r2
  Absent = Absent
  Regions <- MCRegions
  Timesteps = 3
  MaxPerStep = 1
  ScrapeInSleep = TRUE
  Durations = {1, 2}
SPECIFICATION Spec
INVARIANT MeasuredIsLastWindow
