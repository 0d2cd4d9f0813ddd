\* Either node may restart once, at any point; the calls of both return.
CONSTANTS
  Node = {n1, n2}
  Broadcast = all
  NoFrame = none
  ByteMod = 3
  Retries = 1
  MaxSends = 2
  MaxReboots = 1
  MaxMessages = 3
SPECIFICATION FairRebootSpec
CHECK_DEADLOCK FALSE
INVARIANTS
  OncePerBoot
PROPERTIES
  EveryCallReturns
