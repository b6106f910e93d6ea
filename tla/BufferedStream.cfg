CONSTANTS
  Capacity = 4
  Bytes = {0, 1}
  Zero = 0
  SizeFirst = TRUE
SPECIFICATION Spec
INVARIANTS
  TypeOK
  RegionsApart
  HalfIsAccepted
PROPERTY ImplementsByteStream
