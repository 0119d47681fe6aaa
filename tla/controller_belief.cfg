SPECIFICATION Spec
CONSTANTS
  s1 = s1
  s2 = s2
  None = None
  Digital = {d1}
  Shutter = {s1, s2}
  OtherId = {}
  RunTime <- MCRunTime
  Values <- MCFewValues
  RxCapacity = 1
INVARIANTS
  InitBelief
