------------------------------ MODULE RouteMap ------------------------------
(***************************************************************************)
(* What the routing table of RHRouter is for: a map from destinations to   *)
(* next hops that holds at most Size routes. Adding a route to a full map  *)
(* costs one other route; nothing else is ever lost unasked.               *)
(***************************************************************************)
EXTENDS Integers, FiniteSets, Functions

CONSTANTS Addr,   \* node addresses
          Size    \* RH_ROUTING_TABLE_SIZE

VARIABLE map      \* the routes: a function from some addresses to next hops

Init == map = [d \in {} |-> d]

\* m without its route to d.
Without(m, d) == Restrict(m, DOMAIN m \ {d})

\* m with a route to d by h.
With(m, d, h) == [x \in DOMAIN m \cup {d} |-> IF x = d THEN h ELSE m[x]]

Full == Cardinality(DOMAIN map) >= Size

\* Add or change a route; only a new one on a full map evicts another.
Add(d, h) ==
  IF d \in DOMAIN map \/ ~Full
  THEN map' = With(map, d, h)
  ELSE \E v \in DOMAIN map : map' = With(Without(map, v), d, h)

\* A route added in state Invalid: no route to d, after the same eviction.
AddInvalid(d) ==
  IF d \in DOMAIN map \/ ~Full
  THEN map' = Without(map, d)
  ELSE \E v \in DOMAIN map : map' = Without(map, v)

Delete(d) == map' = Without(map, d)

\* retireOldestRoute called by the application: one route or none goes.
Retire == \E v \in Addr : map' = Without(map, v)

Clear == map' = [d \in {} |-> d]

Next == \/ \E d, h \in Addr : Add(d, h)
        \/ \E d \in Addr : AddInvalid(d) \/ Delete(d)
        \/ Retire
        \/ Clear

Spec == Init /\ [][Next]_map
=============================================================================
