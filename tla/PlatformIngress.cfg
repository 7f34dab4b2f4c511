\* Both workers and one handler, a clock of two ticks, one request and one failure.
SPECIFICATION Spec
CONSTANTS
  Chats <- MCChats
  Notices <- MCNotices
  Posts <- MCPosts
  Handlers = {http}
  MaxSeen = 1
  MaxEvents = 1
  MaxRate = 1
  RateWindow = 2
  DuplicateWindow = 1
  MaxTime = 2
  MaxArrivals = 1
  MaxFaults = 1
CHECK_DEADLOCK FALSE
INVARIANTS
  TypeOK
  AcceptedOnce
  RateIsKept
  HistoryIsComplete
PROPERTIES
  WorkersGoOn
