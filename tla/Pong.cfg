CONSTANTS
  SHOOT_FRAME_LENGTH = 1
  SCORE_FOR_WIN = 1
  HitReach = 1
  MAX_REWIND = 2
  Clients = {c1, c2}
  Inputs <- MoveAndShoot
  Garbage = {0, 1}
  MaxWait = 2
  MaxUid = 2
  MaxClicks = 4
  MaxFrame = 2
  MaxInput = 1
  MaxPosY = 9
  MaxQueue = 1
SYMMETRY Machines
SPECIFICATION Spec
INVARIANTS
  TypeOK
  SendsForShownFrame
PROPERTIES
  ImplementsGameManager
  NoInheritance
