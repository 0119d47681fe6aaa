SPECIFICATION FairSpec
CONSTANTS
  b1 = b1
  d1 = d1
  None = None
  Plain = {b1}
  Digital = {d1}
  Wire <- MCWire
  NetSize = 1
  InputCapacity = 1
  Capacity = 1
  RxCapacity = 1
PROPERTIES
  ImplementsLine
  ComesToRest
  InputTaken
