CONSTANTS
  SOCKETs = {1, 2, 3}
  SockIds = {1, 2, 3}
  POLL_GROUP_MAX_SIZE = 2
  mListenSocket = 1
  Packets = {"START", "EXIT", "RACKET"}
  UPDATE_INTERVAL = 2
  Delays = {1}
  MaxTurn = 1
  SendCapacity = 1
  MaxConnects = 2
  MaxJobs = 2
  MaxUnread = 1
  ReuseAtOnce = FALSE
SPECIFICATION Spec
INVARIANTS
  TypeOK
  SessionsOwnHandles
  EveryoneIsPolled
CHECK_DEADLOCK FALSE
PROPERTIES
  EveryoneIsHeard
  FramesGoOnWithResets
