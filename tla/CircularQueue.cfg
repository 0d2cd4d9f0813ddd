\* A queue of either class, with producer and consumer at any point of their calls.
CONSTANTS
  Capacity = 3
  MaxPushes = 5
SPECIFICATION RoomSpec
CHECK_DEADLOCK FALSE
INVARIANTS
  TypeOK
  RaceFree
PROPERTIES
  FifoSpec
