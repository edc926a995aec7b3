SPECIFICATION FairSpec
CONSTANTS
  NULL = NULL
  c1 = c1
  c2 = c2
  Conns = {c1, c2}
  Requests <- SomeRequests
  Disks <- SomeDisks
  MaxChanges = 2
  MaxReply = 2
  MaxRead = 4
  Room = 1
  BufSize = 2
  Limits <- SomeLimits
INVARIANTS TrafficIntact
PROPERTIES ConnectionsEnd
CHECK_DEADLOCK FALSE
