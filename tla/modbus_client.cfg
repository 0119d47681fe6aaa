SPECIFICATION Spec
CONSTANTS
  Coil = {a1, a2}
  MinDuration = 3
  Transit = 2
  Grace = 5
INVARIANTS
  IInv
PROPERTIES
  RelaySpared
