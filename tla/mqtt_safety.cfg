SPECIFICATION FairSpec
CONSTANTS
  e1 = e1
  e2 = e2
  Server = Server
  Entities <- MCOneEntity
  Values <- MCValues
  Messages <- MCMessages
  QueueSize = 2
  Capacity = 1
  InboxSize = 1
INVARIANTS
  TypeOK
  NoFalseOnline
  StatesFollow
  OfflineIsLast
  IInv
PROPERTIES
  ShutdownEnds
