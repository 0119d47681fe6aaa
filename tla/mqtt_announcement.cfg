SPECIFICATION FairSpec
CONSTANTS
  e1 = e1
  e2 = e2
  Server = Server
  Entities <- MCEntities
  Values <- MCOneValue
  Messages <- MCOnlyStatus
  QueueSize = 2
  Capacity = 1
  InboxSize = 1
PROPERTIES
  AnnouncementEnds
