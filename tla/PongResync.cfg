CONSTANTS
  SHOOT_FRAME_LENGTH = 1
  SCORE_FOR_WIN = 1
  HitReach = 1
  MAX_REWIND = 2
  Clients = {c1, c2}
  Inputs <- MoveAndShoot
  Garbage = {0}
  MaxWait = 1
  MaxUid = 2
  MaxClicks = 2
  MaxFrame = 4
  MaxInput = 2
  MaxPosY = 9
  MaxQueue = 1
SYMMETRY Machines
SPECIFICATION Spec
INVARIANTS
  ResyncWithinGame
  InputsNumbered
