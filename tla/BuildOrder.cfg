SPECIFICATION Spec
CONSTANTS
  x = x
  y = y
  z = z
  mid = mid
  Package <- MCPackage
  Binary <- MCBinary
  SourceOf <- MCSourceOf
  Branch <- MCBranch
  MAX_WAVES = 3
SYMMETRY MCSymmetry
INVARIANTS WaitsAreEarlier EveryPackageIsPlaced CyclesAreKnots
