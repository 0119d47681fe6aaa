SPECIFICATION FairSpec
CONSTANTS
  e1 = e1
  e2 = e2
  Server = Server
  Entities <- MCOneEntity
  Values = {}
  Messages = {}
  QueueSize = 5
  Capacity = 1
  InboxSize = 1
PROPERTIES
  AvailableInTheEnd
