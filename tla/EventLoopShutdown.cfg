CONSTANTS
  SOCKETs = {1, 2}
  SockIds = {1, 2}
  POLL_GROUP_MAX_SIZE = 2
  mListenSocket = 1
  Packets = {"START", "EXIT", "RACKET"}
  UPDATE_INTERVAL = 2
  Delays = {1}
  MaxTurn = 1
  SendCapacity = 1
  MaxConnects = 1
  MaxJobs = 2
  MaxUnread = 1
  ReuseAtOnce = FALSE
SPECIFICATION Spec
PROPERTIES
  FramesGoOn
CHECK_DEADLOCK FALSE
