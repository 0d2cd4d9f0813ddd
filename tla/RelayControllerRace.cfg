\* The two tasks race for the relay: a violation is expected.
CONSTANTS
  Numbers = {0, 2}
  Threshold = 1
  ClockMod = 3
  PassTime = 1
  MaxLinks = 1
  MaxWrites = 2
SPECIFICATION Spec
INVARIANTS
  StatusIsPin
