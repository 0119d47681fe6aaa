SPECIFICATION FairSpec
CONSTANTS
  p1 = p1  p2 = p2  h1 = h1  h2 = h2  bad = bad  port = port
  None = None
  Ip = {p1, p2}
  Text <- MCText  Numeral <- MCNumeral  IntOf <- MCIntOf  to_string <- MCToString
  MaxInt = 0
  IpOf <- MCIpOf  PortOf <- MCPortOf
  Month = {1, 2, 3}
  InstantOf <- MCInstantOf
  MaxClock = 4
  VarSize = 16  AddressSize = 8  Offset = 2  LastInstant = 9
  Configs <- MCConfigs
  Args <- MCArgs
INVARIANTS TypeOK Destined PanicsExplained SleptOver
PROPERTIES HeartbeatsGoOn
