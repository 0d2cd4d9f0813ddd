\* Two nodes, ids modulo 3: with three messages each, ids repeat.
CONSTANTS
  Node = {n1, n2}
  Broadcast = all
  NoFrame = none
  ByteMod = 3
  Retries = 1
  MaxSends = 3
SPECIFICATION WindowSpec
SYMMETRY NodeSymmetry
CHECK_DEADLOCK FALSE
INVARIANTS
  TypeOK
  AckedImpliesDelivered
  BroadcastsUnacknowledged
  InOrderOnce
PROPERTIES
  PromiseSpec
