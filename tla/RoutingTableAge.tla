-------------------------- MODULE RoutingTableAge --------------------------
(***************************************************************************)
(* RoutingTable with the order in which its routes were added, to say which*)
(* route a full table gives up.                                            *)
(***************************************************************************)
EXTENDS RoutingTable

VARIABLES elders,  \* history: for each destination with a route, those whose
                   \* routes are older
          past     \* history: "orderly" or "other", see AgeNext

ageVars == <<routes, elders, past>>

Routed(rs) == {d \in Addr : HasRoute(rs, d)}

\* An update keeps a route's place, a new one is the youngest.
TrackBirth ==
  elders' = [d \in Addr |->
               IF d \notin Routed(routes') THEN {}
               ELSE Routed(routes') \cap
                    (IF d \in Routed(routes) THEN elders[d] ELSE Routed(routes))]

\* Static storage is zeroed: all rows of a new table name one address.
AgeInit == /\ Init
           /\ elders = [d \in Addr |-> {}]
           /\ past = IF \A i, j \in Index : routes[i] = routes[j]
                     THEN "orderly" ELSE "other"

Step(A) == A /\ TrackBirth

\* RHMesh and the examples add valid routes and delete some: an orderly past.
\* Applications may also clear the table, or add routes in other states.
AgeNext ==
  \/ \E r \in Row : /\ Step(Add(r))
                    /\ past' = IF r.state = "Valid" THEN past ELSE "other"
  \/ \E d \in Addr : Step(DeleteRouteTo(d)) /\ UNCHANGED past
  \/ Step(RetireOldestRoute) /\ UNCHANGED past
  \/ Step(ClearRoutingTable) /\ past' = "other"

AgeSpec == AgeInit /\ [][AgeNext]_ageVars

-----------------------------------------------------------------------------
\* In a table that started zeroed, was never cleared and was only given valid
\* routes, the rows in use are the first ones and stand in order of age, and the
\* others all name one destination: the gaps that deleteRoute closes stay closed
\* when addRouteTo takes the first row of a name, used or not.
RowsByAge ==
  past = "orderly" =>
    \A i, j \in Index :
      i < j => \/ /\ routes[i].state # "Invalid"
                  /\ routes[j].state # "Invalid" =>
                       routes[i].dest \in elders[routes[j].dest]
               \/ /\ routes[i].state = "Invalid" /\ routes[j].state = "Invalid"
                  /\ routes[i].dest = routes[j].dest

\* Where a step adds a route and gives up others, it gives up the oldest.
GivesUpOldest ==
  LET new  == Routed(routes') \ Routed(routes)
      lost == Routed(routes) \ Routed(routes')
  IN  new # {} /\ lost # {} =>
        \E d \in lost : /\ lost = {d}
                        /\ \A e \in Routed(routes) \ {d} : d \in elders[e]

\* In such a table the row that retireOldestRoute removes is the oldest route,
\* although updates and deletions came in between.
EvictsOldest == [][ past = "orderly" => GivesUpOldest ]_ageVars
=============================================================================
