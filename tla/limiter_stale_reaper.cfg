SPECIFICATION Spec
CONSTANTS
  n1 = n1
  n2 = n2
  Name = {n1}
  Bucket = {b1}
  Caller = {c1}
  Closer = closer
  Reaper = reaper
  Limit <- OneName
  Period = 1
  MaxDue = 1
  NoName = NoName
  NoBucket = NoBucket
  NoThread = NoThread
PROPERTY ReapsOnlyIdle
