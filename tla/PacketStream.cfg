CONSTANTS
  Capacity = 10
  Bytes = {0, 1, 2, 3, 4, 21, 22, 31}
  Payload = {1}
  WireSize = 3
  ChunkSize = 2
  MaxPackets = 4
SPECIFICATION Spec
INVARIANTS
  TypeOK
  WholeInOrder
  NeverAborts
PROPERTIES
  EverythingArrives
CHECK_DEADLOCK FALSE
