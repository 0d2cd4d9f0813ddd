\* Three rows for four destinations: the table fills, evicts and is cleared.
CONSTANTS
  Addr = {a, b, c, d}
  Size = 3
SPECIFICATION AgeSpec
SYMMETRY AddrSymmetry
INVARIANTS
  TypeOK
  OneRoutePerDest
  RowsByAge
PROPERTIES
  TableSpec
  EachOperation
  EvictsOldest
