\* A clock of eight values, watched for two turns.
CONSTANTS
  ClockMod = 8
  Intervals = {0, 1, 3, 9}
  MaxElapsed = 17
SPECIFICATION Spec
INVARIANTS
  TypeOK
  NeverEarly
  ReadyBeforeWrap
