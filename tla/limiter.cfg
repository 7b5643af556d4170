SPECIFICATION Spec
CONSTANTS
  n1 = n1
  n2 = n2
  Name = {n1, n2}
  Bucket = {b1, b2}
  Caller = {c1, c2}
  Closer = closer
  Reaper = reaper
  Limit <- OneInvalid
  Period = 2
  MaxDue = 1
  NoName = NoName
  NoBucket = NoBucket
  NoThread = NoThread
SYMMETRY Symmetry
INVARIANTS TypeOK NoSendOnClosed NoOrphan GrantBound IInv
PROPERTIES DenyJustified KeepsPromise
