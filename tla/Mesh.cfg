\* A line of four nodes whose ends call, hops lost at will; the network falls silent.
CONSTANTS
  n1 = n1
  n2 = n2
  n3 = n3
  n4 = n4
  n5 = n5
  Node <- LineNode
  Link <- LineLink
  Calls <- LineCalls
  Nobody = Nobody
  Everybody = Everybody
  NoMessage = NoMessage
  MaxHops = 2
  TableSize = 2
  Stale = {n1, Nobody}
SPECIFICATION FairSpec
CHECK_DEADLOCK FALSE
INVARIANTS
  TypeOK
  PathsAreWalks
  RouteBackKnown
  AtMostOnce
PROPERTIES
  FallsSilent
