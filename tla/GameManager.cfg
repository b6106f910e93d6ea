CONSTANTS
  SHOOT_FRAME_LENGTH = 2
  SCORE_FOR_WIN = 2
  HitReach = 1
  MAX_REWIND = 2
  Uids = {1, 2}
  PosDiffs = {0, 1}
  MaxFrame = 4
  MaxPosY = 1
  MaxInput = 1
SPECIFICATION Spec
INVARIANTS
  TypeOK
  SeatedIffPlaying
  RewindIsExact
  ScoreOpen
PROPERTIES
  PastIsImmutable
  ImplementsMatch
