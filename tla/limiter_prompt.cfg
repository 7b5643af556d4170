SPECIFICATION BurstSpec
CONSTANTS
  n1 = n1
  n2 = n2
  Name = {n1, n2}
  Bucket = {b1, b2}
  Caller = {c1}
  Closer = closer
  Reaper = reaper
  Limit <- BothLimited
  Period = 2
  MaxDue = 1
  NoName = NoName
  NoBucket = NoBucket
  NoThread = NoThread
SYMMETRY SymmetryNames
INVARIANTS RemovedInTime BurstBound WaitsEnd
PROPERTY ResetHitsItsName
