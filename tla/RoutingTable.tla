---------------------------- MODULE RoutingTable ----------------------------
(***************************************************************************)
(* The routing table of RHRouter: a fixed array of rows, searched from the *)
(* front.  Rows are invalidated in place and keep their destination, so    *)
(* several rows may name one destination; deleteRoute closes the gap by    *)
(* moving the rows behind it up, which leaves the last row twice.          *)
(***************************************************************************)
EXTENDS Integers

CONSTANTS Addr,   \* node addresses
          Size    \* RH_ROUTING_TABLE_SIZE

ASSUME SizeAssumption == Size \in Nat \ {0}

VARIABLE routes   \* _routes, indexed from 0

Index == 0..(Size - 1)
State == {"Invalid", "Discovering", "Valid"}
Row   == [dest : Addr, next_hop : Addr, state : State]

\* The constructor only sets the states: what the rows name before the first
\* route is whatever the memory held.
Init == routes \in [Index -> [dest : Addr, next_hop : Addr, state : {"Invalid"}]]

First(S) == CHOOSE i \in S : \A j \in S : i <= j

Named(rs, d) == {i \in Index : rs[i].dest = d}
Free(rs)     == {i \in Index : rs[i].state = "Invalid"}
Live(rs, d)  == Named(rs, d) \ Free(rs)

\* Fault: the copy runs from the end of the table, over what it has yet to move.
DeleteBackward(rs, k) ==
  [i \in Index |-> IF i < k THEN rs[i]
                   ELSE IF i < Size - 1 THEN rs[Size - 1]
                   ELSE [rs[i] EXCEPT !.state = "Invalid"]]

\* Fault: the last row stays in use.
DeleteKeepsLast(rs, k) ==
  [i \in Index |-> IF i >= k /\ i < Size - 1 THEN rs[i + 1] ELSE rs[i]]

\* The rows behind row k move up and the last one becomes invalid.
DeleteRoute(rs, k) ==
  [i \in Index |-> IF i < k THEN rs[i]
                   ELSE IF i < Size - 1 THEN rs[i + 1]
                   ELSE [rs[i] EXCEPT !.state = "Invalid"]]

\* Fault: an invalid row is taken before a row of the same destination.
AddFreeFirst(rs, r) ==
  IF Free(rs) # {} THEN [rs EXCEPT ![First(Free(rs))] = r]
  ELSE IF Named(rs, r.dest) # {} THEN [rs EXCEPT ![First(Named(rs, r.dest))] = r]
  ELSE LET rest == DeleteRoute(rs, 0)
       IN  [i \in Index |-> IF i \in Free(rest) THEN r ELSE rest[i]]

\* The first row that names the destination, else the first invalid row, else
\* the first row goes and every row that is then invalid is filled.
AddRouteTo(rs, r) ==
  IF Named(rs, r.dest) # {} THEN [rs EXCEPT ![First(Named(rs, r.dest))] = r]
  ELSE IF Free(rs) # {} THEN [rs EXCEPT ![First(Free(rs))] = r]
  ELSE LET rest == DeleteRoute(rs, 0)
       IN  [i \in Index |-> IF i \in Free(rest) THEN r ELSE rest[i]]

\* getRouteTo: the row a message to d is routed by.
HasRoute(rs, d)   == Live(rs, d) # {}
GetRouteTo(rs, d) == rs[First(Live(rs, d))]

-----------------------------------------------------------------------------
Add(r) == routes' = AddRouteTo(routes, r)

DeleteRouteTo(d) ==
  /\ Named(routes, d) # {}
  /\ routes' = DeleteRoute(routes, First(Named(routes, d)))

RetireOldestRoute == routes' = DeleteRoute(routes, 0)

\* Fault: the table is cleared by zeroing it.
ZeroRoutingTable ==
  routes' = [i \in Index |-> [dest |-> 0, next_hop |-> 0, state |-> "Invalid"]]

ClearRoutingTable ==
  routes' = [i \in Index |-> [routes[i] EXCEPT !.state = "Invalid"]]

Next == \/ \E r \in Row : Add(r)
        \/ \E d \in Addr : DeleteRouteTo(d)
        \/ RetireOldestRoute
        \/ ClearRoutingTable

Spec == Init /\ [][Next]_routes

-----------------------------------------------------------------------------
\* Every row is a row.
TypeOK == routes \in [Index -> Row]

\* A row in use is the first that names its destination.
FirstOnly(rs) ==
  \A i, j \in Index : i < j /\ rs[j].state # "Invalid" => rs[i].dest # rs[j].dest

\* A destination has at most one route; the row addRouteTo overwrites and
\* deleteRouteTo removes is the one getRouteTo finds, and a row invalidated
\* earlier cannot hide or revive it.
OneRoutePerDest == FirstOnly(routes)

\* The map that getRouteTo presents.
RoutesByDest == [d \in {a \in Addr : HasRoute(routes, a)} |-> GetRouteTo(routes, d).next_hop]

Table == INSTANCE RouteMap WITH map <- RoutesByDest

\* The array behaves as a bounded map.
TableSpec == Table!Spec

\* And operation by operation: whatever deletions, evictions and clearings have
\* left in the rows, a route deleted is gone, one added is what getRouteTo finds
\* next, and no operation touches the route to another destination, but for the
\* one route that makes room.
EachOperation ==
  [][ /\ \A r \in Row : Add(r) => IF r.state = "Invalid" THEN Table!AddInvalid(r.dest)
                                  ELSE Table!Add(r.dest, r.next_hop)
      /\ \A d \in Addr : DeleteRouteTo(d) => Table!Delete(d)
      /\ RetireOldestRoute => Table!Retire
      /\ ClearRoutingTable => Table!Clear ]_routes
=============================================================================
