\* One discovery over several paths, the buffer still zeroed.
CONSTANTS
  n1 = n1
  n2 = n2
  n3 = n3
  n4 = n4
  n5 = n5
  Node <- MeshNode
  Link <- MeshLink
  Calls <- MeshCalls
  Nobody = Nobody
  Everybody = Everybody
  NoMessage = NoMessage
  MaxHops = 2
  TableSize = 10
  Stale = {Nobody}
SPECIFICATION Spec
CHECK_DEADLOCK FALSE
INVARIANTS
  ReplyReturns
