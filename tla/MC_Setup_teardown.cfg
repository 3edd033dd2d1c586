CONSTANTS
  r1 = r1
  r2 = r2
  RegionList <- MCRegionList
SPECIFICATION Spec
PROPERTY TeardownCompletes
