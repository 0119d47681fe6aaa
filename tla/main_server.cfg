SPECIFICATION Spec
CONSTANTS
  Plain = {b1}
  Long = {b2}
  None = None
  Threshold = 3
  Jitter = 1
  NetSize = 2
  Capacity = 1
  MaxFaults = 2
INVARIANTS
  TypeOK
  IInv
  Classified
  RawFollows
