CONSTANTS
  SOCKETs = {s1}
  SockIds = {1}
  POLL_GROUP_MAX_SIZE = 1
  Waiters = {w1, w2}
  Callers = {c1}
  Masks = {{"EPOLLIN"}, {"EPOLLIN", "EPOLLOUT", "EPOLLONESHOT"}}
  States = {{}, {"RECEIVE"}}
  Fragile = {s1}
  MaxEvents = 1
SPECIFICATION Spec
INVARIANTS
  KernelHoldsLiveMemory
  NobodyForgotten
  PortOutlivesCalls
PROPERTIES
  CloseReturns
  ReadyIsReported
