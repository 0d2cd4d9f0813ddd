\* A number that arms the timer; texts, and numbers too small to arm it, are 0.
CONSTANTS
  Numbers = {0, 2}
  Threshold = 1
  ClockMod = 3
  PassTime = 1
  MaxLinks = 2
  MaxWrites = 2
SPECIFICATION FairSpec
INVARIANTS
  TypeOK
  ApartOnlyAfterOverlap
  OffStaysOff
PROPERTIES
  TimerEnds
  Reachable
  ReportsCatchUp
