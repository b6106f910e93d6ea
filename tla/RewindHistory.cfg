CONSTANTS
  MAX_REWIND = 3
  Objects = {blank, a, b}
  Default = blank
  LastFrame = 7
SPECIFICATION Spec
INVARIANT TypeOK
PROPERTY ImplementsTimeline
