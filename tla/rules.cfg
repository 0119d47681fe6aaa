SPECIFICATION Spec
CONSTANTS
  i1 = i1
  i2 = i2
  o1 = o1
  o2 = o2
  x1 = x1
  Input = {i1, i2}
  Output = {o1, o2}
  Client = {c1}
  Rules <- MCRules
  Command <- MCCommand
  Broadcast <- MCBroadcast
  InputCapacity = 2
  Capacity = 1
  NoOutput = FALSE
INVARIANTS
  TypeOK
  EmitsPlan
  OutputsFollow
  IInv
PROPERTIES
  ReadsItsWrites
