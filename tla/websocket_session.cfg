SPECIFICATION Spec
CONSTANTS
  Output = {o1, o2}
  Values = {v1, v2}
  Capacity = 2
  SocketSize = 1
SYMMETRY Symmetry
INVARIANTS
  TypeOK
  Gated
  ViewFollows
  IInv
