CONSTANTS
  SOCKETs = {s1, s2}
  SockIds = {1, 2}
  POLL_GROUP_MAX_SIZE = 1
  Waiters = {w1}
  Callers = {c1}
  Masks = {{"EPOLLIN", "EPOLLONESHOT"}}
  States = {{}, {"RECEIVE"}}
  Fragile = {}
  MaxEvents = 1
SPECIFICATION Spec
INVARIANTS
  TypeOK
  KernelHoldsLiveMemory
  NobodyForgotten
  NoLostWakeup
  GroupsPacked
