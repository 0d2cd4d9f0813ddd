------------------------- MODULE RoutingTableProofs -------------------------
(***************************************************************************)
(* Proofs about the routing table, for every size and every address set.   *)
(***************************************************************************)
EXTENDS RoutingTableAge, FiniteSetTheorems, TLAPS

\* A non-empty set of numbers has a least element.
LEMMA Least ==
  ASSUME NEW S, S \subseteq Nat, S # {}
  PROVE  \E i \in S : \A j \in S : i <= j
<1> DEFINE R == OpToRel(<, Nat)
<1>1. IsWellFoundedOn(R, Nat)
      BY NatLessThanWellFounded
<1>2. \A x, y \in Nat : x < y => <<x, y>> \in R
      BY DEF OpToRel
<1> HIDE DEF R
<1>3. PICK i \in S : \A j \in S : <<j, i>> \notin R
      BY <1>1, WFMin
<1>4. ASSUME NEW j \in S PROVE i <= j
  <2>1. i \in Nat /\ j \in Nat
        OBVIOUS
  <2>2. <<j, i>> \notin R
        BY <1>3
  <2> QED  BY <1>2, <2>1, <2>2
<1> QED  BY <1>4

\* The searches from the front of the table find the first match.
LEMMA FirstIsLeast ==
  ASSUME NEW S \in SUBSET Index, S # {}
  PROVE  First(S) \in S /\ First(S) \in Index /\ \A j \in S : First(S) <= j
<1>1. S \subseteq Nat
      BY SizeAssumption DEF Index
<1> QED  BY <1>1, Least DEF First

Tables == [Index -> Row]

LEMMA DeleteRouteType ==
  ASSUME NEW rs \in Tables, NEW k \in Index
  PROVE  DeleteRoute(rs, k) \in Tables
<1>1. ASSUME NEW i \in Index
      PROVE  (IF i < k THEN rs[i]
              ELSE IF i < Size - 1 THEN rs[i + 1]
              ELSE [rs[i] EXCEPT !.state = "Invalid"]) \in Row
  <2>1. rs[i] \in Row /\ [rs[i] EXCEPT !.state = "Invalid"] \in Row
        BY DEF Tables, Row, State
  <2>2. i < Size - 1 => rs[i + 1] \in Row
        BY SizeAssumption DEF Tables, Index
  <2> QED  BY <2>1, <2>2
<1> QED  BY <1>1 DEF DeleteRoute, Tables

LEMMA AddRouteToType ==
  ASSUME NEW rs \in Tables, NEW r \in Row
  PROVE  AddRouteTo(rs, r) \in Tables
<1>1. DeleteRoute(rs, 0) \in Tables
      BY SizeAssumption, DeleteRouteType DEF Index
<1> QED  BY <1>1 DEF AddRouteTo, Tables

\* Closing the gap keeps the order of the rows, and the copy it leaves in the
\* last row is not in use.
LEMMA DeleteRouteFirst ==
  ASSUME NEW rs \in Tables, FirstOnly(rs), NEW k \in Index
  PROVE  FirstOnly(DeleteRoute(rs, k))
<1> DEFINE ds == DeleteRoute(rs, k)
<1>1. SUFFICES ASSUME NEW i \in Index, NEW j \in Index, i < j, ds[j].state # "Invalid"
               PROVE  ds[i].dest # ds[j].dest
      BY DEF FirstOnly
<1>2. ASSUME NEW l \in Index
      PROVE  /\ l < k => ds[l] = rs[l]
             /\ ~(l < k) /\ l < Size - 1 => ds[l] = rs[l + 1] /\ l + 1 \in Index
             /\ ~(l < k) /\ ~(l < Size - 1) => ds[l].state = "Invalid"
  <2>1. ds[l] = IF l < k THEN rs[l]
                ELSE IF l < Size - 1 THEN rs[l + 1]
                ELSE [rs[l] EXCEPT !.state = "Invalid"]
        BY DEF DeleteRoute
  <2>2. [rs[l] EXCEPT !.state = "Invalid"].state = "Invalid"
        BY DEF Tables, Row
  <2>3. l < Size - 1 => l + 1 \in Index
        BY SizeAssumption DEF Index
  <2> HIDE DEF ds
  <2> QED  BY <2>1, <2>2, <2>3
<1> HIDE DEF ds
<1>3. j < k \/ j < Size - 1
      BY <1>1, <1>2
<1>4. \A a, b \in Index : a < b /\ rs[b].state # "Invalid" => rs[a].dest # rs[b].dest
      BY DEF FirstOnly
<1>5. i \in Int /\ j \in Int /\ k \in Int /\ Size \in Int
      BY SizeAssumption DEF Index
<1>6. i < Size - 1
      BY <1>1, SizeAssumption DEF Index
<1>7. CASE j < k
  <2>1. i < k
        BY <1>1, <1>5, <1>7
  <2>2. ds[i] = rs[i] /\ ds[j] = rs[j]
        BY <1>2, <1>7, <2>1
  <2> QED  BY <1>1, <1>4, <2>2
<1>8. CASE ~(j < k)
  <2>1. ds[j] = rs[j + 1] /\ j + 1 \in Index
        BY <1>2, <1>3, <1>8
  <2>2. rs[j + 1].state # "Invalid"
        BY <1>1, <2>1
  <2>3. CASE i < k
    <3>1. ds[i] = rs[i] /\ i < j + 1
          BY <1>1, <1>2, <1>5, <2>3
    <3> QED  BY <1>4, <2>1, <2>2, <3>1
  <2>4. CASE ~(i < k)
    <3>1. ds[i] = rs[i + 1] /\ i + 1 \in Index /\ i + 1 < j + 1
          BY <1>1, <1>2, <1>5, <1>6, <2>4
    <3> QED  BY <1>4, <2>1, <2>2, <3>1
  <2> QED  BY <2>3, <2>4
<1> QED  BY <1>7, <1>8

\* When every row is in use, the last one is all that retiring a route frees.
LEMMA RetireFreesLast ==
  ASSUME NEW rs \in Tables, Free(rs) = {}
  PROVE  Free(DeleteRoute(rs, 0)) = {Size - 1}
<1> DEFINE ds == DeleteRoute(rs, 0)
<1>1. \A l \in Index : rs[l].state # "Invalid"
      BY DEF Free
<1>2. \A l \in Index : l < Size - 1 => l + 1 \in Index /\ ds[l] = rs[l + 1]
      BY SizeAssumption DEF DeleteRoute, Index
<1>3. Size - 1 \in Index /\ ds[Size - 1].state = "Invalid"
      BY SizeAssumption DEF DeleteRoute, Index, Tables, Row
<1>4. \A l \in Index : l = Size - 1 \/ l < Size - 1
      BY SizeAssumption DEF Index
<1> HIDE DEF ds
<1>5. \A l \in Index : l < Size - 1 => ds[l].state # "Invalid"
      BY <1>1, <1>2
<1>6. Free(ds) = {l \in Index : ds[l].state = "Invalid"}
      BY DEF Free
<1> QED  BY <1>3, <1>4, <1>5, <1>6 DEF ds

LEMMA AddRouteToFirst ==
  ASSUME NEW rs \in Tables, FirstOnly(rs), NEW r \in Row
  PROVE  FirstOnly(AddRouteTo(rs, r))
<1>1. \A a, b \in Index : a < b /\ rs[b].state # "Invalid" => rs[a].dest # rs[b].dest
      BY DEF FirstOnly
<1>2. CASE Named(rs, r.dest) # {}
  <2> DEFINE k == First(Named(rs, r.dest))
             new == [rs EXCEPT ![k] = r]
  <2>1. k \in Index /\ rs[k].dest = r.dest /\ \A j \in Index : rs[j].dest = r.dest => k <= j
        BY <1>2, FirstIsLeast DEF Named
  <2>2. AddRouteTo(rs, r) = new
        BY <1>2 DEF AddRouteTo
  <2> HIDE DEF k
  <2>3. \A a \in Index : new[a] = IF a = k THEN r ELSE rs[a]
        BY <2>1 DEF Tables
  <2> HIDE DEF new
  <2>4. \A a, b \in Index : a < b /\ new[b].state # "Invalid" => new[a].dest # new[b].dest
        BY <1>1, <2>1, <2>3, SizeAssumption DEF Index
  <2> QED  BY <2>2, <2>4 DEF FirstOnly
<1>3. CASE Named(rs, r.dest) = {} /\ Free(rs) # {}
  <2> DEFINE k == First(Free(rs))
             new == [rs EXCEPT ![k] = r]
  <2>1. k \in Index /\ \A j \in Index : rs[j].dest # r.dest
        BY <1>3, FirstIsLeast DEF Named, Free
  <2>2. AddRouteTo(rs, r) = new
        BY <1>3 DEF AddRouteTo
  <2> HIDE DEF k
  <2>3. \A a \in Index : new[a] = IF a = k THEN r ELSE rs[a]
        BY <2>1 DEF Tables
  <2> HIDE DEF new
  <2>4. \A a, b \in Index : a < b /\ new[b].state # "Invalid" => new[a].dest # new[b].dest
        BY <1>1, <2>1, <2>3, SizeAssumption DEF Index
  <2> QED  BY <2>2, <2>4 DEF FirstOnly
<1>4. CASE Named(rs, r.dest) = {} /\ Free(rs) = {}
  <2> DEFINE ds == DeleteRoute(rs, 0)
             new == [i \in Index |-> IF i \in Free(ds) THEN r ELSE ds[i]]
  <2>1. AddRouteTo(rs, r) = new
        BY <1>4 DEF AddRouteTo
  <2>2. Free(ds) = {Size - 1}
        BY <1>4, RetireFreesLast
  <2>3. FirstOnly(ds)
        BY SizeAssumption, DeleteRouteFirst DEF Index
  <2>4. \A j \in Index : ds[j].dest # r.dest
    <3>1. \A j \in Index : rs[j].dest # r.dest
          BY <1>4 DEF Named
    <3>2. \A j \in Index : [rs[j] EXCEPT !.state = "Invalid"].dest = rs[j].dest
          BY DEF Tables, Row
    <3>3. \A j \in Index : j < Size - 1 => j + 1 \in Index
          BY SizeAssumption DEF Index
    <3>4. \A j \in Index : ds[j] \in {rs[j], [rs[j] EXCEPT !.state = "Invalid"]}
                           \/ (j < Size - 1 /\ ds[j] = rs[j + 1])
          BY DEF DeleteRoute
    <3> HIDE DEF ds
    <3> QED  BY <3>1, <3>2, <3>3, <3>4
  <2> HIDE DEF ds
  <2>5. \A a \in Index : new[a] = IF a = Size - 1 THEN r ELSE ds[a]
        BY <2>2
  <2> HIDE DEF new
  <2>6. \A a, b \in Index : a < b => a # Size - 1
        BY SizeAssumption DEF Index
  <2>7. \A a, b \in Index : a < b /\ new[b].state # "Invalid" => new[a].dest # new[b].dest
        BY <2>3, <2>4, <2>5, <2>6 DEF FirstOnly
  <2> QED  BY <2>1, <2>7 DEF FirstOnly
<1> QED  BY <1>2, <1>3, <1>4

TableInv == TypeOK /\ OneRoutePerDest

LEMMA TableInit == Init => TableInv
BY DEF Init, TableInv, TypeOK, OneRoutePerDest, FirstOnly, Row, State

LEMMA TableStep == TableInv /\ [Next]_routes => TableInv'
<1> SUFFICES ASSUME TableInv, [Next]_routes PROVE TableInv'
    OBVIOUS
<1>1. routes \in Tables /\ FirstOnly(routes)
      BY DEF TableInv, TypeOK, Tables, OneRoutePerDest
<1>2. ASSUME NEW k \in Index, routes' = DeleteRoute(routes, k) PROVE TableInv'
  <2>1. DeleteRoute(routes, k) \in Tables /\ FirstOnly(DeleteRoute(routes, k))
        BY <1>1, DeleteRouteType, DeleteRouteFirst
  <2> QED  BY <1>2, <2>1 DEF TableInv, TypeOK, Tables, OneRoutePerDest, FirstOnly
<1>3. ASSUME NEW r \in Row, Add(r) PROVE TableInv'
  <2>1. AddRouteTo(routes, r) \in Tables /\ FirstOnly(AddRouteTo(routes, r))
        BY <1>1, AddRouteToType, AddRouteToFirst
  <2> QED  BY <1>3, <2>1 DEF Add, TableInv, TypeOK, Tables, OneRoutePerDest, FirstOnly
<1>4. ASSUME NEW d \in Addr, DeleteRouteTo(d) PROVE TableInv'
  <2>1. First(Named(routes, d)) \in Index
        BY <1>4, FirstIsLeast DEF DeleteRouteTo, Named
  <2> QED  BY <1>2, <1>4, <2>1 DEF DeleteRouteTo
<1>5. CASE RetireOldestRoute
  <2>1. 0 \in Index
        BY SizeAssumption DEF Index
  <2> QED  BY <1>2, <1>5, <2>1 DEF RetireOldestRoute
<1>6. CASE ClearRoutingTable
      BY <1>1, <1>6 DEF ClearRoutingTable, TableInv, TypeOK, Tables, Row, State,
                        OneRoutePerDest, FirstOnly
<1>7. CASE UNCHANGED routes
      BY <1>7 DEF TableInv, TypeOK, OneRoutePerDest, FirstOnly
<1> QED  BY <1>3, <1>4, <1>5, <1>6, <1>7 DEF Next

\* Rows stay rows, for a table of any size: shifting reads no row past the end
\* (RHRouter.cpp, deleteRoute).
THEOREM RowsKeepType == Spec => []TypeOK
<1>1. TableInv => TypeOK
      BY DEF TableInv
<1> QED  BY <1>1, TableInit, TableStep, PTL DEF Spec

\* For a table of any size, over any sequence of additions (in any state),
\* deletions, retirements and clearings, a destination has one route at most.
THEOREM RouteIsUnique == Spec => []OneRoutePerDest
<1>1. TableInv => OneRoutePerDest
      BY DEF TableInv
<1> QED  BY <1>1, TableInit, TableStep, PTL DEF Spec

-----------------------------------------------------------------------------
(* The refinement: the table as the map from destinations to next hops.    *)

Dests(rs)  == {a \in Addr : HasRoute(rs, a)}
ByDest(rs) == [d \in Dests(rs) |-> GetRouteTo(rs, d).next_hop]

\* getRouteTo finds a row in use by its destination.
LEMMA LiveIsFound ==
  ASSUME NEW rs \in Tables, FirstOnly(rs), NEW i \in Index, rs[i].state # "Invalid"
  PROVE  HasRoute(rs, rs[i].dest) /\ GetRouteTo(rs, rs[i].dest) = rs[i]
<1>1. Live(rs, rs[i].dest) = {i}
  <2>1. i \in Live(rs, rs[i].dest)
        BY DEF Live, Named, Free
  <2>2. ASSUME NEW j \in Live(rs, rs[i].dest), j # i PROVE FALSE
    <3>1. j \in Index /\ rs[j].dest = rs[i].dest /\ rs[j].state # "Invalid"
          BY DEF Live, Named, Free
    <3>2. i < j \/ j < i
          BY <2>2, <3>1, SizeAssumption DEF Index
    <3> QED  BY <3>1, <3>2 DEF FirstOnly
  <2> QED  BY <2>1, <2>2
<1>2. First({i}) = i
      BY FirstIsLeast
<1> QED  BY <1>1, <1>2 DEF HasRoute, GetRouteTo

\* A function is the map of a table if it has the routes of the rows in use and
\* no others.
LEMMA MapOfRows ==
  ASSUME NEW rs \in Tables, FirstOnly(rs), NEW S, NEW m, m = [d \in S |-> m[d]],
         \A i \in Index : rs[i].state # "Invalid"
                            => rs[i].dest \in S /\ m[rs[i].dest] = rs[i].next_hop,
         \A d \in S : \E i \in Index : rs[i].state # "Invalid" /\ rs[i].dest = d
  PROVE  ByDest(rs) = m
<1>1. ASSUME NEW d \in Dests(rs) PROVE d \in S /\ GetRouteTo(rs, d).next_hop = m[d]
  <2>1. PICK i \in Index : rs[i].state # "Invalid" /\ rs[i].dest = d
        BY <1>1 DEF Dests, HasRoute, Live, Named, Free
  <2> QED  BY <2>1, LiveIsFound
<1>2. ASSUME NEW d \in S PROVE d \in Dests(rs)
  <2>1. PICK i \in Index : rs[i].state # "Invalid" /\ rs[i].dest = d
        OBVIOUS
  <2>2. d \in Addr
        BY <2>1 DEF Tables, Row
  <2> QED  BY <2>1, <2>2, LiveIsFound DEF Dests
<1>3. Dests(rs) = S
      BY <1>1, <1>2
<1>4. ByDest(rs) = [d \in S |-> m[d]]
      BY <1>1, <1>3 DEF ByDest
<1> QED  BY <1>4

\* The map has every row in use, and only those.
LEMMA RowsOfMap ==
  ASSUME NEW rs \in Tables, FirstOnly(rs)
  PROVE  /\ \A i \in Index : rs[i].state # "Invalid"
                               => /\ rs[i].dest \in Dests(rs)
                                  /\ ByDest(rs)[rs[i].dest] = rs[i].next_hop
         /\ \A d \in Dests(rs) : \E i \in Index : rs[i].state # "Invalid" /\ rs[i].dest = d
         /\ DOMAIN ByDest(rs) = Dests(rs)
         /\ Dests(rs) \subseteq Addr
<1>1. ASSUME NEW i \in Index, rs[i].state # "Invalid"
      PROVE  rs[i].dest \in Dests(rs) /\ ByDest(rs)[rs[i].dest] = rs[i].next_hop
  <2>1. rs[i].dest \in Addr
        BY DEF Tables, Row
  <2> QED  BY <1>1, <2>1, LiveIsFound DEF Dests, ByDest
<1>2. ASSUME NEW d \in Dests(rs)
      PROVE  \E i \in Index : rs[i].state # "Invalid" /\ rs[i].dest = d
      BY <1>2 DEF Dests, HasRoute, Live, Named, Free
<1> QED  BY <1>1, <1>2 DEF ByDest, Dests

\* A table with a free row has room in its map, one without has none.
LEMMA MapSize ==
  ASSUME NEW rs \in Tables, FirstOnly(rs)
  PROVE  /\ Cardinality(Dests(rs)) \in Nat
         /\ Free(rs) # {} => Cardinality(Dests(rs)) < Size
         /\ Free(rs) = {} => Cardinality(Dests(rs)) = Size
<1> DEFINE U == Index \ Free(rs)
           f == [i \in U |-> rs[i].dest]
<1>1. IsFiniteSet(Index) /\ Cardinality(Index) = Size
      BY FS_Interval, SizeAssumption DEF Index
<1>2. /\ IsFiniteSet(U)
      /\ Cardinality(U) <= Cardinality(Index)
      /\ Cardinality(Index) = Cardinality(U) => Index = U
      BY <1>1, FS_Subset
<1>3. Cardinality(U) \in Nat
      BY <1>2, FS_CardinalityType
<1>4. \A i \in U : i \in Index /\ rs[i].state # "Invalid"
      BY DEF Free
<1>5. \A i \in Index : rs[i].state # "Invalid" => i \in U
      BY DEF Free
<1> HIDE DEF U
<1>6. f \in Surjection(U, Dests(rs))
      BY <1>4, <1>5, RowsOfMap DEF Surjection
<1>7. f \in Injection(U, Dests(rs))
  <2>1. ASSUME NEW i \in U, NEW j \in U, rs[i].dest = rs[j].dest PROVE i = j
    <3>1. i = j \/ i < j \/ j < i
          BY <1>4, SizeAssumption DEF Index
    <3> QED  BY <1>4, <2>1, <3>1 DEF FirstOnly
  <2> QED  BY <1>6, <2>1 DEF Surjection, Injection, IsInjective
<1>8. Cardinality(Dests(rs)) = Cardinality(U)
      BY <1>2, <1>6, <1>7, FS_Surjection
<1>9. Free(rs) \subseteq Index /\ (Free(rs) = {} <=> U = Index)
      BY DEF Free, U
<1> QED  BY <1>1, <1>2, <1>3, <1>8, <1>9, SizeAssumption

\* deleteRoute on the first row of a destination takes its route from the map.
LEMMA DeleteRouteMap ==
  ASSUME NEW rs \in Tables, FirstOnly(rs), NEW k \in Index,
         \A j \in Index : j < k => rs[j].dest # rs[k].dest
  PROVE  ByDest(DeleteRoute(rs, k)) = Table!Without(ByDest(rs), rs[k].dest)
<1> DEFINE ds == DeleteRoute(rs, k)
           S  == Dests(rs) \ {rs[k].dest}
           m  == [d \in S |-> ByDest(rs)[d]]
<1>1. ds \in Tables /\ FirstOnly(ds)
      BY DeleteRouteType, DeleteRouteFirst
<1>2. \A i \in Index : i # k /\ rs[i].state # "Invalid" => rs[i].dest # rs[k].dest
      BY SizeAssumption DEF Index, FirstOnly
<1>3. ASSUME NEW i \in Index, ds[i].state # "Invalid"
      PROVE  \E j \in Index : j # k /\ ds[i] = rs[j]
  <2>1. CASE i < k
        BY <2>1, SizeAssumption DEF DeleteRoute, Index
  <2>2. CASE ~(i < k) /\ i < Size - 1
    <3>1. i + 1 \in Index /\ i + 1 # k /\ ds[i] = rs[i + 1]
          BY <2>2, SizeAssumption DEF DeleteRoute, Index
    <3> QED  BY <3>1
  <2>3. CASE ~(i < k) /\ ~(i < Size - 1)
    <3>1. ds[i] = [rs[i] EXCEPT !.state = "Invalid"]
          BY <2>3 DEF DeleteRoute
    <3>2. ds[i].state = "Invalid"
          BY <3>1 DEF Tables, Row
    <3> QED  BY <1>3, <3>2
  <2> QED  BY <2>1, <2>2, <2>3
<1>4. ASSUME NEW j \in Index, j # k PROVE \E i \in Index : ds[i] = rs[j]
  <2>1. CASE j < k
        BY <2>1 DEF DeleteRoute
  <2>2. CASE ~(j < k)
    <3>1. /\ j - 1 \in Index /\ ~(j - 1 < k) /\ j - 1 < Size - 1
          /\ (j - 1) + 1 = j
          BY <1>4, <2>2, SizeAssumption DEF Index
    <3>2. ds[j - 1] = rs[(j - 1) + 1]
          BY <3>1 DEF DeleteRoute
    <3> QED  BY <3>1, <3>2
  <2> QED  BY <2>1, <2>2
<1> HIDE DEF ds
<1>5. \A i \in Index : ds[i].state # "Invalid"
                         => ds[i].dest \in S /\ m[ds[i].dest] = ds[i].next_hop
  <2> TAKE i \in Index
  <2> HAVE ds[i].state # "Invalid"
  <2>1. PICK j \in Index : j # k /\ ds[i] = rs[j]
        BY <1>3
  <2> QED  BY <1>2, <2>1, RowsOfMap
<1>6. \A d \in S : \E i \in Index : ds[i].state # "Invalid" /\ ds[i].dest = d
  <2> TAKE d \in S
  <2>1. PICK j \in Index : rs[j].state # "Invalid" /\ rs[j].dest = d
        BY RowsOfMap
  <2>2. j # k
        BY <2>1
  <2> QED  BY <1>4, <2>1, <2>2
<1>7. Table!Without(ByDest(rs), rs[k].dest) = m
      BY RowsOfMap DEF Table!Without, Table!Restrict
<1>8. m = [d \in S |-> m[d]]
      OBVIOUS
<1> HIDE DEF S, m
<1>9. ByDest(ds) = m
      BY ONLY <1>1, <1>5, <1>6, <1>8, MapOfRows
<1> QED  BY <1>7, <1>9 DEF ds

\* Writing a row that no other row in use competes with adds its route to the
\* map, or takes the destination's route away if it is written as invalid.
LEMMA WriteRowMap ==
  ASSUME NEW rs \in Tables, FirstOnly(rs), NEW k \in Index, NEW r \in Row,
         FirstOnly([rs EXCEPT ![k] = r]),
         rs[k].state = "Invalid" \/ rs[k].dest = r.dest,
         \A i \in Index : i # k /\ rs[i].state # "Invalid" => rs[i].dest # r.dest
  PROVE  ByDest([rs EXCEPT ![k] = r])
           = IF r.state = "Invalid" THEN Table!Without(ByDest(rs), r.dest)
             ELSE Table!With(ByDest(rs), r.dest, r.next_hop)
<1> DEFINE new == [rs EXCEPT ![k] = r]
           S == IF r.state = "Invalid" THEN Dests(rs) \ {r.dest} ELSE Dests(rs) \cup {r.dest}
           m == [d \in S |-> IF d = r.dest THEN r.next_hop ELSE ByDest(rs)[d]]
<1>1. new \in Tables /\ \A i \in Index : new[i] = IF i = k THEN r ELSE rs[i]
      BY DEF Tables
<1>2. FirstOnly(new)
      OBVIOUS
<1> HIDE DEF new
<1>3. \A i \in Index : new[i].state # "Invalid"
                         => new[i].dest \in S /\ m[new[i].dest] = new[i].next_hop
      BY <1>1, RowsOfMap
<1>4. \A d \in S : \E i \in Index : new[i].state # "Invalid" /\ new[i].dest = d
  <2> TAKE d \in S
  <2>1. CASE d = r.dest
        BY <1>1, <2>1
  <2>2. CASE d # r.dest
    <3>1. PICK j \in Index : rs[j].state # "Invalid" /\ rs[j].dest = d
          BY <2>2, RowsOfMap
    <3>2. new[j] = rs[j]
          BY <1>1, <2>2, <3>1
    <3> QED  BY <3>1, <3>2
  <2> QED  BY <2>1, <2>2
<1>5. m = IF r.state = "Invalid" THEN Table!Without(ByDest(rs), r.dest)
          ELSE Table!With(ByDest(rs), r.dest, r.next_hop)
  <2>1. DOMAIN ByDest(rs) = Dests(rs)
        BY RowsOfMap
  <2> QED  BY <2>1 DEF Table!Without, Table!Restrict, Table!With
<1>6. m = [d \in S |-> m[d]]
      OBVIOUS
<1> HIDE DEF S, m
<1>7. ByDest(new) = m
      BY <1>1, <1>2, <1>3, <1>4, <1>6, MapOfRows
<1> QED  BY <1>5, <1>7 DEF new

\* addRouteTo where a row names the destination or is free: there is room.
LEMMA AddWithRoom ==
  ASSUME NEW rs \in Tables, FirstOnly(rs), NEW r \in Row,
         Named(rs, r.dest) # {} \/ Free(rs) # {}
  PROVE  /\ r.dest \in Dests(rs) \/ Cardinality(Dests(rs)) < Size
         /\ ByDest(AddRouteTo(rs, r))
              = IF r.state = "Invalid" THEN Table!Without(ByDest(rs), r.dest)
                ELSE Table!With(ByDest(rs), r.dest, r.next_hop)
<1> DEFINE k == IF Named(rs, r.dest) # {} THEN First(Named(rs, r.dest)) ELSE First(Free(rs))
<1>1. AddRouteTo(rs, r) = [rs EXCEPT ![k] = r]
      BY DEF AddRouteTo
<1>2. /\ k \in Index
      /\ rs[k].state = "Invalid" \/ rs[k].dest = r.dest
      /\ \A i \in Index : i # k /\ rs[i].state # "Invalid" => rs[i].dest # r.dest
  <2>1. CASE Named(rs, r.dest) # {}
    <3>1. k \in Index /\ rs[k].dest = r.dest /\ \A i \in Named(rs, r.dest) : k <= i
          BY <2>1, FirstIsLeast DEF Named
    <3> HIDE DEF k
    <3>2. ASSUME NEW i \in Index, i # k, rs[i].state # "Invalid", rs[i].dest = r.dest
          PROVE  FALSE
          BY <3>1, <3>2, SizeAssumption DEF FirstOnly, Index, Named
    <3> QED  BY <3>1, <3>2
  <2>2. CASE Named(rs, r.dest) = {}
        BY <2>2, FirstIsLeast DEF Named, Free
  <2> QED  BY <2>1, <2>2
<1>3. r.dest \in Dests(rs) \/ Cardinality(Dests(rs)) < Size
  <2>1. CASE rs[k].state = "Invalid"
        BY <1>2, <2>1, MapSize DEF Free
  <2>2. CASE rs[k].state # "Invalid"
        BY <1>2, <2>2, RowsOfMap
  <2> QED  BY <2>1, <2>2
<1>4. FirstOnly([rs EXCEPT ![k] = r])
      BY <1>1, AddRouteToFirst
<1> HIDE DEF k
<1>5. ByDest([rs EXCEPT ![k] = r])
        = IF r.state = "Invalid" THEN Table!Without(ByDest(rs), r.dest)
          ELSE Table!With(ByDest(rs), r.dest, r.next_hop)
      BY <1>2, <1>4, WriteRowMap
<1> QED  BY <1>1, <1>3, <1>5

\* addRouteTo on a full table: the first row's route makes room.
LEMMA AddWhenFull ==
  ASSUME NEW rs \in Tables, FirstOnly(rs), NEW r \in Row,
         Named(rs, r.dest) = {}, Free(rs) = {}
  PROVE  /\ r.dest \notin Dests(rs) /\ Cardinality(Dests(rs)) = Size
         /\ \E v \in Dests(rs) :
               ByDest(AddRouteTo(rs, r))
                 = IF r.state = "Invalid" THEN Table!Without(ByDest(rs), v)
                   ELSE Table!With(Table!Without(ByDest(rs), v), r.dest, r.next_hop)
<1> DEFINE ds == DeleteRoute(rs, 0)
           v  == rs[0].dest
<1>1. 0 \in Index /\ Size - 1 \in Index
      BY SizeAssumption DEF Index
<1>2. ds \in Tables /\ FirstOnly(ds)
      BY <1>1, DeleteRouteType, DeleteRouteFirst
<1>3. Free(ds) = {Size - 1}
      BY RetireFreesLast
<1>4. AddRouteTo(rs, r) = [ds EXCEPT ![Size - 1] = r]
  <2>1. AddRouteTo(rs, r) = [i \in Index |-> IF i \in Free(ds) THEN r ELSE ds[i]]
        BY DEF AddRouteTo
  <2> HIDE DEF ds
  <2> QED  BY <1>2, <1>3, <2>1 DEF Tables
<1>5. FirstOnly([ds EXCEPT ![Size - 1] = r])
      BY <1>4, AddRouteToFirst
<1>6. \A i \in Index : rs[i].dest # r.dest
      BY DEF Named
<1>7. r.dest \notin Dests(rs)
      BY <1>6, RowsOfMap
<1>8. v \in Dests(rs)
      BY <1>1, RowsOfMap DEF Free
<1>9. ByDest(ds) = Table!Without(ByDest(rs), v)
  <2>1. \A j \in Index : ~(j < 0)
        BY SizeAssumption DEF Index
  <2> QED  BY <1>1, <2>1, DeleteRouteMap
<1>10. Dests(ds) = Dests(rs) \ {v}
      BY <1>2, <1>9, RowsOfMap DEF Table!Without, Table!Restrict
<1>11. ds[Size - 1].state = "Invalid"
      BY <1>3 DEF Free
<1> HIDE DEF ds, v
<1>12. \A i \in Index : ds[i].state # "Invalid" => ds[i].dest # r.dest
      BY <1>2, <1>7, <1>10, RowsOfMap
<1>13. ByDest([ds EXCEPT ![Size - 1] = r])
        = IF r.state = "Invalid" THEN Table!Without(ByDest(ds), r.dest)
          ELSE Table!With(ByDest(ds), r.dest, r.next_hop)
      BY <1>1, <1>2, <1>5, <1>11, <1>12, WriteRowMap
<1>14. Table!Without(Table!Without(ByDest(rs), v), r.dest) = Table!Without(ByDest(rs), v)
      BY <1>7, RowsOfMap DEF Table!Without, Table!Restrict
<1>15. Cardinality(Dests(rs)) = Size
      BY MapSize
<1> QED  BY <1>4, <1>7, <1>8, <1>9, <1>13, <1>14, <1>15

\* One step of the table is the step of the map that its operation names.
Stepwise ==
  /\ \A r \in Row : Add(r) => IF r.state = "Invalid" THEN Table!AddInvalid(r.dest)
                              ELSE Table!Add(r.dest, r.next_hop)
  /\ \A d \in Addr : DeleteRouteTo(d) => Table!Delete(d)
  /\ RetireOldestRoute => Table!Retire
  /\ ClearRoutingTable => Table!Clear

LEMMA StepMaps == TableInv => Stepwise
<1> SUFFICES ASSUME TableInv PROVE Stepwise
    OBVIOUS
<1>1. routes \in Tables /\ FirstOnly(routes)
      BY DEF TableInv, TypeOK, Tables, OneRoutePerDest
<1>2. RoutesByDest = ByDest(routes) /\ RoutesByDest' = ByDest(routes')
      BY DEF RoutesByDest, ByDest, Dests
<1>3. DOMAIN ByDest(routes) = Dests(routes) /\ Dests(routes) \subseteq Addr
      BY <1>1, RowsOfMap
<1>4. Table!Full <=> Cardinality(Dests(routes)) >= Size
  <2>1. Table!Cardinality(Dests(routes)) = Cardinality(Dests(routes))
        BY DEF Table!Cardinality, Cardinality
  <2> QED  BY <1>2, <1>3, <2>1 DEF Table!Full
<1>5. ASSUME NEW r \in Row, Add(r)
      PROVE  IF r.state = "Invalid" THEN Table!AddInvalid(r.dest)
             ELSE Table!Add(r.dest, r.next_hop)
  <2>1. routes' = AddRouteTo(routes, r)
        BY <1>5 DEF Add
  <2>2. CASE Named(routes, r.dest) # {} \/ Free(routes) # {}
    <3>1. r.dest \in Dests(routes) \/ ~Table!Full
      <4>1. r.dest \in Dests(routes) \/ Cardinality(Dests(routes)) < Size
            BY <1>1, <2>2, AddWithRoom
      <4>2. CASE Cardinality(Dests(routes)) < Size
            BY <1>1, <1>4, <4>2, MapSize, SizeAssumption
      <4> QED  BY <4>1, <4>2
    <3>2. ByDest(routes') = IF r.state = "Invalid" THEN Table!Without(ByDest(routes), r.dest)
                            ELSE Table!With(ByDest(routes), r.dest, r.next_hop)
          BY <1>1, <2>1, <2>2, AddWithRoom
    <3> QED  BY <1>2, <1>3, <3>1, <3>2 DEF Table!Add, Table!AddInvalid
  <2>3. CASE Named(routes, r.dest) = {} /\ Free(routes) = {}
    <3>1. r.dest \notin Dests(routes) /\ Table!Full
          BY <1>1, <1>4, <2>3, AddWhenFull, SizeAssumption
    <3>2. PICK v \in Dests(routes) :
             ByDest(routes')
               = IF r.state = "Invalid" THEN Table!Without(ByDest(routes), v)
                 ELSE Table!With(Table!Without(ByDest(routes), v), r.dest, r.next_hop)
          BY <1>1, <2>1, <2>3, AddWhenFull
    <3> QED  BY <1>2, <1>3, <3>1, <3>2 DEF Table!Add, Table!AddInvalid
  <2> QED  BY <2>2, <2>3
<1>6. ASSUME NEW d \in Addr, DeleteRouteTo(d) PROVE Table!Delete(d)
  <2> DEFINE k == First(Named(routes, d))
  <2>1. k \in Index /\ routes[k].dest = d /\ \A j \in Index : routes[j].dest = d => k <= j
        BY <1>6, FirstIsLeast DEF DeleteRouteTo, Named
  <2>2. routes' = DeleteRoute(routes, k)
        BY <1>6 DEF DeleteRouteTo
  <2> HIDE DEF k
  <2>3. \A j \in Index : j < k => routes[j].dest # routes[k].dest
        BY <2>1, SizeAssumption DEF Index
  <2> QED  BY <1>1, <1>2, <2>1, <2>2, <2>3, DeleteRouteMap DEF Table!Delete
<1>7. ASSUME RetireOldestRoute PROVE Table!Retire
  <2>1. 0 \in Index /\ \A j \in Index : ~(j < 0)
        BY SizeAssumption DEF Index
  <2>2. routes[0].dest \in Addr
        BY <1>1, <2>1 DEF Tables, Row
  <2>3. ByDest(routes') = Table!Without(ByDest(routes), routes[0].dest)
        BY <1>1, <1>7, <2>1, DeleteRouteMap DEF RetireOldestRoute
  <2> QED  BY <1>2, <2>2, <2>3 DEF Table!Retire
<1>8. ASSUME ClearRoutingTable PROVE Table!Clear
  <2>1. \A i \in Index : routes'[i] = [routes[i] EXCEPT !.state = "Invalid"]
        BY <1>8 DEF ClearRoutingTable
  <2>2. \A i \in Index : routes'[i].state = "Invalid"
        BY <1>1, <2>1 DEF Tables, Row
  <2>3. Dests(routes') = {}
        BY <2>2 DEF Dests, HasRoute, Live, Named, Free
  <2> QED  BY <1>2, <2>3 DEF Table!Clear, ByDest
<1> QED  BY <1>5, <1>6, <1>7, <1>8 DEF Stepwise

\* Operation by operation, for a table of any size and any history: a deleted
\* route is gone, an added one is what getRouteTo finds next, and no operation
\* touches another destination's route but the one that makes room
\* (RHRouter.cpp, addRouteTo, deleteRouteTo, retireOldestRoute, clearRoutingTable).
THEOREM OperationsKeepTheirWord == Spec => EachOperation
<1>1. TableInv /\ [Next]_routes => [Stepwise]_routes
      BY StepMaps
<1> QED  BY <1>1, TableInit, TableStep, PTL DEF Spec, EachOperation, Stepwise

\* The array with its stale and repeated rows implements a map of at most Size
\* routes (RHRouter.cpp, the routing table).
THEOREM TableIsMap == Spec => TableSpec
<1>1. Init => Table!Init
  <2> SUFFICES ASSUME Init PROVE Table!Init
      OBVIOUS
  <2>1. \A i \in Index : routes[i].state = "Invalid"
        BY DEF Init
  <2> QED  BY <2>1 DEF Table!Init, RoutesByDest, HasRoute, Live, Named, Free
<1>2. TableInv /\ [Next]_routes => [Table!Next]_RoutesByDest
  <2> SUFFICES ASSUME TableInv, [Next]_routes PROVE [Table!Next]_RoutesByDest
      OBVIOUS
  <2>1. Stepwise
        BY StepMaps
  <2>2. ASSUME NEW r \in Row, Add(r) PROVE Table!Next
    <3>1. r.dest \in Addr /\ r.next_hop \in Addr
          BY DEF Row
    <3> QED  BY <2>1, <2>2, <3>1 DEF Stepwise, Table!Next
  <2>3. CASE UNCHANGED routes
        BY <2>3 DEF RoutesByDest
  <2> QED  BY <2>1, <2>2, <2>3 DEF Next, Stepwise, Table!Next
<1> QED  BY <1>1, <1>2, TableInit, TableStep, PTL DEF Spec, TableSpec, Table!Spec
-----------------------------------------------------------------------------
(* The order of the routes. *)

\* RowsByAge, of any table and history.
ByAge(rs, el) ==
  \A i, j \in Index :
    i < j => \/ /\ rs[i].state # "Invalid"
                /\ rs[j].state # "Invalid" => rs[i].dest \in el[rs[j].dest]
             \/ /\ rs[i].state = "Invalid" /\ rs[j].state = "Invalid"
                /\ rs[i].dest = rs[j].dest

\* TrackBirth, from any table to any other.
Tracked(rs, ns, el) ==
  [d \in Addr |-> IF d \notin Routed(ns) THEN {}
                  ELSE Routed(ns) \cap (IF d \in Routed(rs) THEN el[d] ELSE Routed(rs))]

Histories == [Addr -> SUBSET Addr]

\* A destination has a route if a row in use names it.
LEMMA RoutedIs ==
  ASSUME NEW rs \in Tables
  PROVE  /\ \A i \in Index : rs[i].state # "Invalid" => rs[i].dest \in Routed(rs)
         /\ \A d \in Routed(rs) : \E i \in Index : rs[i].dest = d /\ rs[i].state # "Invalid"
         /\ Routed(rs) \subseteq Addr
<1>1. \A i \in Index : rs[i].dest \in Addr
      BY DEF Tables, Row
<1> QED  BY <1>1 DEF Routed, HasRoute, Live, Named, Free

\* A table whose rows in use are also in use in another has no other routes.
LEMMA RowsToRoutes ==
  ASSUME NEW rs \in Tables, NEW ns \in Tables,
         \A l \in Index : rs[l].state # "Invalid" =>
           ns[l].dest = rs[l].dest /\ ns[l].state # "Invalid"
  PROVE  Routed(rs) \subseteq Routed(ns)
<1> SUFFICES ASSUME NEW d \in Routed(rs) PROVE d \in Routed(ns)
    OBVIOUS
<1>1. PICK l \in Index : rs[l].dest = d /\ rs[l].state # "Invalid"
      BY RoutedIs
<1>2. ns[l].dest \in Routed(ns)
      BY <1>1, RoutedIs
<1> QED  BY <1>1, <1>2

\* What the history says of two routes that both stay, or of one that stays and
\* a new one.
LEMMA TrackedIs ==
  ASSUME NEW rs \in Tables, NEW ns \in Tables, NEW el \in Histories,
         NEW d \in Routed(rs), d \in Routed(ns), NEW e \in Routed(ns),
         e \in Routed(rs) => d \in el[e]
  PROVE  d \in Tracked(rs, ns, el)[e]
<1>1. e \in Addr
      BY DEF Routed
<1> QED  BY <1>1 DEF Tracked

LEMMA TrackedType ==
  ASSUME NEW rs, NEW ns, NEW el
  PROVE  Tracked(rs, ns, el) \in Histories
BY DEF Tracked, Histories, Routed

\* Closing a gap keeps the order of the rows behind it, and the copy it leaves
\* in the last row is of the destination that the unused rows already name, or
\* the only unused row.
LEMMA DeleteByAge ==
  ASSUME NEW rs \in Tables, NEW el \in Histories, ByAge(rs, el), NEW k \in Index
  PROVE  ByAge(DeleteRoute(rs, k), Tracked(rs, DeleteRoute(rs, k), el))
<1> DEFINE ds == DeleteRoute(rs, k)
           new == Tracked(rs, ds, el)
           Source(l) == IF l < k THEN l ELSE l + 1
<1>1. ds \in Tables
      BY DeleteRouteType
<1>2. ASSUME NEW l \in Index
      PROVE  /\ l < k \/ l < Size - 1 => Source(l) \in Index /\ ds[l] = rs[Source(l)]
             /\ ~(l < k \/ l < Size - 1) => /\ l = Size - 1 /\ ds[l].state = "Invalid"
                                            /\ ds[l].dest = rs[l].dest
  <2>1. ds[l] = IF l < k THEN rs[l]
                ELSE IF l < Size - 1 THEN rs[l + 1]
                ELSE [rs[l] EXCEPT !.state = "Invalid"]
        BY DEF DeleteRoute
  <2>2. /\ [rs[l] EXCEPT !.state = "Invalid"].state = "Invalid"
        /\ [rs[l] EXCEPT !.state = "Invalid"].dest = rs[l].dest
        BY DEF Tables, Row
  <2>3. /\ l < Size - 1 => l + 1 \in Index
        /\ ~(l < Size - 1) => l = Size - 1
        BY SizeAssumption DEF Index
  <2> HIDE DEF ds
  <2> QED  BY <2>1, <2>2, <2>3
<1>3. \A i, j \in Index :
        i < j => \/ /\ rs[i].state # "Invalid"
                    /\ rs[j].state # "Invalid" => rs[i].dest \in el[rs[j].dest]
                 \/ /\ rs[i].state = "Invalid" /\ rs[j].state = "Invalid"
                    /\ rs[i].dest = rs[j].dest
      BY DEF ByAge
<1>4. \A l \in Index : l \in Int /\ l <= Size - 1
      BY SizeAssumption DEF Index
<1>5. k \in Int /\ Size \in Int
      BY SizeAssumption DEF Index
<1> HIDE DEF ds
<1>6. ASSUME NEW i \in Index, NEW j \in Index, i < j
      PROVE  \/ /\ ds[i].state # "Invalid"
                /\ ds[j].state # "Invalid" => ds[i].dest \in new[ds[j].dest]
             \/ /\ ds[i].state = "Invalid" /\ ds[j].state = "Invalid"
                /\ ds[i].dest = ds[j].dest
  <2>1. Source(i) \in Index /\ ds[i] = rs[Source(i)] /\ Source(i) <= j
        BY <1>2, <1>4, <1>5, <1>6
  <2>2. CASE j < k \/ j < Size - 1
    <3>1. Source(j) \in Index /\ ds[j] = rs[Source(j)] /\ Source(i) < Source(j)
          BY <1>2, <1>4, <1>5, <1>6, <2>2
    <3> DEFINE a == Source(i)
               b == Source(j)
    <3> HIDE DEF Source, new
    <3>2. \/ /\ rs[a].state # "Invalid"
             /\ rs[b].state # "Invalid" => rs[a].dest \in el[rs[b].dest]
          \/ /\ rs[a].state = "Invalid" /\ rs[b].state = "Invalid"
             /\ rs[a].dest = rs[b].dest
          BY <1>3, <2>1, <3>1
    <3>3. ASSUME rs[a].state # "Invalid", rs[b].state # "Invalid",
                 rs[a].dest \in el[rs[b].dest]
          PROVE  rs[a].dest \in new[rs[b].dest]
      <4>1. rs[a].dest \in Routed(rs) /\ rs[a].dest \in Routed(ds) /\ rs[b].dest \in Routed(ds)
            BY <1>1, <2>1, <3>1, <3>3, RoutedIs
      <4> QED  BY <1>1, <3>3, <4>1, TrackedIs DEF new
    <3> QED  BY <2>1, <3>1, <3>2, <3>3
  <2>3. CASE ~(j < k \/ j < Size - 1)
    <3>1. j = Size - 1 /\ ds[j].state = "Invalid" /\ ds[j].dest = rs[j].dest
          BY <1>2, <2>3
    <3> DEFINE a == Source(i)
    <3> HIDE DEF Source
    <3>2. a < j => \/ rs[a].state # "Invalid"
                   \/ rs[a].dest = rs[j].dest
          BY <1>3, <2>1
    <3>3. a < j \/ a = j
          BY <1>4, <2>1
    <3> QED  BY <2>1, <3>1, <3>2, <3>3
  <2> QED  BY <2>2, <2>3
<1> QED  BY <1>6 DEF ByAge, ds

\* The row that a route is written to, when there is one: the destination's own,
\* or the first of those not in use.
Fits(rs, k, d) ==
  \/ rs[k].state # "Invalid" /\ rs[k].dest = d
  \/ /\ rs[k].state = "Invalid" /\ d \notin Routed(rs)
     /\ \A i \in Index : i < k => rs[i].state # "Invalid"

\* It is the row that addRouteTo finds.
LEMMA AddFits ==
  ASSUME NEW rs \in Tables, NEW el \in Histories, FirstOnly(rs), ByAge(rs, el),
         NEW r \in Row, Named(rs, r.dest) # {} \/ Free(rs) # {}
  PROVE  \E k \in Index : Fits(rs, k, r.dest) /\ AddRouteTo(rs, r) = [rs EXCEPT ![k] = r]
<1>1. CASE Named(rs, r.dest) # {}
  <2> DEFINE k == First(Named(rs, r.dest))
  <2>1. k \in Index /\ rs[k].dest = r.dest /\ \A j \in Index : rs[j].dest = r.dest => k <= j
        BY <1>1, FirstIsLeast DEF Named
  <2>2. AddRouteTo(rs, r) = [rs EXCEPT ![k] = r]
        BY <1>1 DEF AddRouteTo
  <2> HIDE DEF k
  <2>3. ASSUME rs[k].state = "Invalid"
        PROVE  r.dest \notin Routed(rs) /\ \A i \in Index : i < k => rs[i].state # "Invalid"
    <3>1. \A i, j \in Index : i < j /\ rs[j].state # "Invalid" => rs[i].dest # rs[j].dest
          BY DEF FirstOnly
    <3>2. \A i \in Index : i < k => \/ rs[i].state # "Invalid"
                                    \/ rs[i].dest = rs[k].dest
          BY <2>1, <2>3 DEF ByAge
    <3>3. \A i \in Index : i < k => rs[i].dest # r.dest
          BY <2>1, SizeAssumption DEF Index
    <3>4. \A j \in Index : rs[j].dest = r.dest => rs[j].state = "Invalid"
      <4>1. \A j \in Index : j < k \/ j = k \/ k < j
            BY <2>1, SizeAssumption DEF Index
      <4> QED  BY <2>1, <2>3, <3>1, <3>3, <4>1
    <3>5. r.dest \notin Routed(rs)
          BY <3>4, RoutedIs
    <3> QED  BY <2>1, <3>2, <3>3, <3>5
  <2> QED  BY <2>1, <2>2, <2>3 DEF Fits
<1>2. CASE Named(rs, r.dest) = {} /\ Free(rs) # {}
  <2> DEFINE k == First(Free(rs))
  <2>1. k \in Index /\ rs[k].state = "Invalid" /\ \A j \in Index : rs[j].state = "Invalid" => k <= j
        BY <1>2, FirstIsLeast DEF Free
  <2>2. AddRouteTo(rs, r) = [rs EXCEPT ![k] = r]
        BY <1>2 DEF AddRouteTo
  <2> HIDE DEF k
  <2>3. r.dest \notin Routed(rs)
        BY <1>2, RoutedIs DEF Named
  <2>4. \A i \in Index : i < k => rs[i].state # "Invalid"
        BY <2>1, SizeAssumption DEF Index
  <2> QED  BY <2>1, <2>2, <2>3, <2>4 DEF Fits
<1> QED  BY <1>1, <1>2

\* A route written there keeps the rows in order of age.
LEMMA WriteByAge ==
  ASSUME NEW rs \in Tables, NEW el \in Histories, ByAge(rs, el),
         NEW r \in Row, r.state = "Valid", NEW k \in Index, Fits(rs, k, r.dest),
         NEW ns, ns = [rs EXCEPT ![k] = r]
  PROVE  ByAge(ns, Tracked(rs, ns, el))
<1> DEFINE new == Tracked(rs, ns, el)
<1>1. ns \in Tables /\ \A l \in Index : ns[l] = IF l = k THEN r ELSE rs[l]
      BY DEF Tables
<1>2. \A i, j \in Index :
        i < j => \/ /\ rs[i].state # "Invalid"
                    /\ rs[j].state # "Invalid" => rs[i].dest \in el[rs[j].dest]
                 \/ /\ rs[i].state = "Invalid" /\ rs[j].state = "Invalid"
                    /\ rs[i].dest = rs[j].dest
      BY DEF ByAge
<1>3. \A i, j \in Index : i < j => i # j
      BY SizeAssumption DEF Index
<1>4. ASSUME NEW i \in Index, NEW j \in Index, i < j
      PROVE  \/ /\ ns[i].state # "Invalid"
                /\ ns[j].state # "Invalid" => ns[i].dest \in new[ns[j].dest]
             \/ /\ ns[i].state = "Invalid" /\ ns[j].state = "Invalid"
                /\ ns[i].dest = ns[j].dest
  <2>1. ASSUME rs[i].state # "Invalid", ns[i].dest = rs[i].dest, ns[i].state # "Invalid",
               ns[j].state # "Invalid",
               ns[j].dest \in Routed(rs) => rs[i].dest \in el[ns[j].dest]
        PROVE  ns[i].dest \in new[ns[j].dest]
    <3>1. ns[i].dest \in Routed(rs) /\ ns[i].dest \in Routed(ns) /\ ns[j].dest \in Routed(ns)
          BY <1>1, <2>1, RoutedIs
    <3> QED  BY <1>1, <2>1, <3>1, TrackedIs
  <2> HIDE DEF new
  <2>2. CASE rs[k].state # "Invalid" /\ rs[k].dest = r.dest
    <3>1. \A l \in Index : ns[l].dest = rs[l].dest /\ (ns[l].state = "Invalid" <=> rs[l].state = "Invalid")
          BY <1>1, <2>2
    <3> QED  BY <1>2, <1>4, <2>1, <3>1
  <2>3. CASE /\ rs[k].state = "Invalid" /\ r.dest \notin Routed(rs)
             /\ \A l \in Index : l < k => rs[l].state # "Invalid"
    <3>1. CASE i = k
          BY <1>1, <1>2, <1>3, <1>4, <2>3, <3>1
    <3>2. CASE j = k
          BY <1>1, <1>3, <1>4, <2>1, <2>3, <3>2
    <3>3. CASE i # k /\ j # k
          BY <1>1, <1>2, <1>4, <2>1, <3>3
    <3> QED  BY <3>1, <3>2, <3>3
  <2> QED  BY <2>2, <2>3 DEF Fits
<1> QED  BY <1>4 DEF ByAge

\* It adds no route, or it gives up none.
LEMMA WriteGivesUp ==
  ASSUME NEW rs \in Tables, NEW r \in Row, NEW k \in Index, Fits(rs, k, r.dest),
         NEW ns, ns = [rs EXCEPT ![k] = r]
  PROVE  Routed(ns) \subseteq Routed(rs) \/ Routed(rs) \subseteq Routed(ns)
<1>1. ns \in Tables /\ \A l \in Index : ns[l] = IF l = k THEN r ELSE rs[l]
      BY DEF Tables
<1>2. CASE rs[k].state # "Invalid" /\ rs[k].dest = r.dest
  <2>1. \A l \in Index : ns[l].state # "Invalid" => rs[l].dest = ns[l].dest /\ rs[l].state # "Invalid"
        BY <1>1, <1>2
  <2> QED  BY <1>1, <2>1, RowsToRoutes
<1>3. CASE rs[k].state = "Invalid"
  <2>1. \A l \in Index : rs[l].state # "Invalid" => ns[l].dest = rs[l].dest /\ ns[l].state # "Invalid"
        BY <1>1, <1>3
  <2> QED  BY <1>1, <2>1, RowsToRoutes
<1> QED  BY <1>2, <1>3 DEF Fits

\* A table without room and without a row for the destination: the first row
\* goes, the others move up, the last one is the new route.
LEMMA EvictIs ==
  ASSUME NEW rs \in Tables, NEW r \in Row, Named(rs, r.dest) = {}, Free(rs) = {},
         NEW ns, ns = AddRouteTo(rs, r)
  PROVE  /\ ns \in Tables
         /\ \A l \in Index : IF l = Size - 1 THEN ns[l] = r
                             ELSE l + 1 \in Index /\ ns[l] = rs[l + 1]
         /\ \A l \in Index : rs[l].state # "Invalid"
         /\ r.dest \notin Routed(rs)
<1> DEFINE ds == DeleteRoute(rs, 0)
<1>1. ns = [i \in Index |-> IF i \in Free(ds) THEN r ELSE ds[i]]
      BY DEF AddRouteTo
<1>2. Free(ds) = {Size - 1}
      BY RetireFreesLast
<1>3. \A l \in Index : l = Size - 1 \/ (l + 1 \in Index /\ ds[l] = rs[l + 1])
      BY SizeAssumption DEF DeleteRoute, Index
<1> HIDE DEF ds
<1>4. ns \in Tables
      BY AddRouteToType
<1>5. r.dest \notin Routed(rs)
      BY RoutedIs DEF Named
<1>6. \A l \in Index : rs[l].state # "Invalid"
      BY DEF Free
<1>7. \A l \in Index : ns[l] = IF l = Size - 1 THEN r ELSE ds[l]
      BY <1>1, <1>2
<1> QED  BY <1>3, <1>4, <1>5, <1>6, <1>7

LEMMA EvictByAge ==
  ASSUME NEW rs \in Tables, NEW el \in Histories, ByAge(rs, el),
         NEW r \in Row, Named(rs, r.dest) = {}, Free(rs) = {}, r.state = "Valid",
         NEW ns, ns = AddRouteTo(rs, r)
  PROVE  ByAge(ns, Tracked(rs, ns, el))
<1> DEFINE new == Tracked(rs, ns, el)
<1>1. /\ ns \in Tables
      /\ \A l \in Index : IF l = Size - 1 THEN ns[l] = r
                          ELSE l + 1 \in Index /\ ns[l] = rs[l + 1]
      /\ \A l \in Index : rs[l].state # "Invalid"
      /\ r.dest \notin Routed(rs)
      BY EvictIs
<1>2. \A l \in Index : ns[l].state # "Invalid"
      BY <1>1
<1>3. ASSUME NEW i \in Index, NEW j \in Index, i < j
      PROVE  ns[i].dest \in new[ns[j].dest]
  <2>1. i # Size - 1 /\ i + 1 < j + 1
        BY <1>3, SizeAssumption DEF Index
  <2>2. i + 1 \in Index /\ ns[i] = rs[i + 1]
        BY <1>1, <2>1
  <2>3. ns[i].dest \in Routed(rs) /\ ns[i].dest \in Routed(ns) /\ ns[j].dest \in Routed(ns)
        BY <1>1, <1>2, <2>2, RoutedIs
  <2>4. ns[j].dest \in Routed(rs) => ns[i].dest \in el[ns[j].dest]
    <3>1. CASE j = Size - 1
          BY <1>1, <3>1
    <3>2. CASE j # Size - 1
      <4>1. j + 1 \in Index /\ ns[j] = rs[j + 1]
            BY <1>1, <3>2
      <4> QED  BY <1>1, <2>1, <2>2, <4>1 DEF ByAge
    <3> QED  BY <3>1, <3>2
  <2> QED  BY <1>1, <2>3, <2>4, TrackedIs
<1> HIDE DEF new
<1>4. \A i, j \in Index : i < j => ns[i].state # "Invalid" /\ ns[i].dest \in new[ns[j].dest]
      BY <1>2, <1>3
<1> QED  BY <1>4 DEF ByAge, new

\* The one route it gives up is the first row's, the oldest.
LEMMA EvictGivesUp ==
  ASSUME NEW rs \in Tables, NEW el \in Histories, ByAge(rs, el),
         NEW r \in Row, Named(rs, r.dest) = {}, Free(rs) = {},
         NEW ns, ns = AddRouteTo(rs, r),
         Routed(rs) \ Routed(ns) # {}
  PROVE  \E d \in Routed(rs) \ Routed(ns) :
           /\ Routed(rs) \ Routed(ns) = {d}
           /\ \A e \in Routed(rs) \ {d} : d \in el[e]
<1>1. /\ ns \in Tables
      /\ \A l \in Index : IF l = Size - 1 THEN ns[l] = r
                          ELSE l + 1 \in Index /\ ns[l] = rs[l + 1]
      /\ \A l \in Index : rs[l].state # "Invalid"
      BY EvictIs
<1> DEFINE d == rs[0].dest
<1>2. ASSUME NEW e \in Routed(rs), e # d
      PROVE  e \in Routed(ns) /\ d \in el[e]
  <2>1. PICK j \in Index : rs[j].dest = e
        BY RoutedIs
  <2>2. 0 \in Index /\ 0 < j /\ j - 1 \in Index /\ j - 1 # Size - 1 /\ (j - 1) + 1 = j
        BY <1>2, <2>1, SizeAssumption DEF Index
  <2>3. ns[j - 1] = rs[j]
        BY <1>1, <2>2
  <2>4. e \in Routed(ns)
        BY <1>1, <2>1, <2>2, <2>3, RoutedIs
  <2>5. d \in el[e]
        BY <1>1, <2>1, <2>2 DEF ByAge
  <2> QED  BY <2>4, <2>5
<1> HIDE DEF d
<1>3. Routed(rs) \ Routed(ns) = {d}
      BY <1>2
<1> QED  BY <1>2, <1>3

-----------------------------------------------------------------------------
\* The invariant of the table with its history.
AgeInv == TableInv /\ elders \in Histories /\ RowsByAge

LEMMA AgeInvInit == AgeInit => AgeInv
<1> SUFFICES ASSUME AgeInit PROVE AgeInv
    OBVIOUS
<1>1. TableInv
      BY TableInit DEF AgeInit
<1>2. elders \in Histories
      BY DEF AgeInit, Histories
<1>3. \A i \in Index : routes[i].state = "Invalid"
      BY DEF AgeInit, Init
<1>4. past = "orderly" => \A i, j \in Index : routes[i] = routes[j]
      BY DEF AgeInit
<1>5. RowsByAge
      BY <1>3, <1>4 DEF RowsByAge
<1> QED  BY <1>1, <1>2, <1>5 DEF AgeInv

\* What a step of the age module does to the table and the history: it keeps
\* RowsByAge, and where it gives up a route for another, it is the oldest.
LEMMA AgeStep ==
  ASSUME AgeInv, [AgeNext]_ageVars
  PROVE  AgeInv' /\ (past = "orderly" => GivesUpOldest \/ UNCHANGED ageVars)
<1>1. /\ routes \in Tables /\ FirstOnly(routes) /\ elders \in Histories
      /\ past = "orderly" => ByAge(routes, elders)
      BY DEF AgeInv, TableInv, TypeOK, Tables, OneRoutePerDest, RowsByAge, ByAge
<1>2. RowsByAge' <=> (past' = "orderly" => ByAge(routes', elders'))
      BY DEF RowsByAge, ByAge
<1>3. TrackBirth => elders' = Tracked(routes, routes', elders)
      BY DEF TrackBirth, Tracked
<1>4. TableInv'
      BY TableStep DEF AgeInv, AgeNext, ageVars, Step, Next
<1>5. ASSUME NEW k \in Index, routes' = DeleteRoute(routes, k), TrackBirth, UNCHANGED past
      PROVE  AgeInv' /\ (past = "orderly" => GivesUpOldest)
  <2>1. AgeInv'
    <3>1. past = "orderly" => ByAge(routes', elders')
          BY <1>1, <1>3, <1>5, DeleteByAge
    <3> QED  BY <1>2, <1>3, <1>4, <1>5, <3>1, TrackedType DEF AgeInv
  <2>2. Routed(routes') \ Routed(routes) = {}
    <3> DEFINE rs == routes
               ns == DeleteRoute(rs, k)
    <3>1. rs \in Tables /\ ns \in Tables
          BY <1>1, DeleteRouteType
    <3>2. \A l \in Index : ns[l].state # "Invalid" =>
            \E i \in Index : rs[i].dest = ns[l].dest /\ rs[i].state # "Invalid"
      <4>1. \A l \in Index : l < Size - 1 => l + 1 \in Index
            BY SizeAssumption DEF Index
      <4>2. \A l \in Index : [rs[l] EXCEPT !.state = "Invalid"].state = "Invalid"
            BY <3>1 DEF Tables, Row
      <4>3. \A l \in Index : \/ ns[l] = rs[l]
                             \/ l < Size - 1 /\ ns[l] = rs[l + 1]
                             \/ ns[l] = [rs[l] EXCEPT !.state = "Invalid"]
            BY DEF DeleteRoute
      <4> HIDE DEF ns, rs
      <4>4. ASSUME NEW l \in Index, ns[l].state # "Invalid"
            PROVE  \E i \in Index : rs[i].dest = ns[l].dest /\ rs[i].state # "Invalid"
        <5>1. CASE ns[l] = rs[l]
              BY <4>4, <5>1
        <5>2. CASE l < Size - 1 /\ ns[l] = rs[l + 1]
              BY <4>1, <4>4, <5>2
        <5> QED  BY <4>2, <4>3, <4>4, <5>1, <5>2
      <4> QED  BY <4>4
    <3> HIDE DEF ns, rs
    <3>3. ASSUME NEW d \in Routed(ns) PROVE d \in Routed(rs)
      <4>1. PICK l \in Index : ns[l].dest = d /\ ns[l].state # "Invalid"
            BY <3>1, RoutedIs
      <4>2. PICK i \in Index : rs[i].dest = d /\ rs[i].state # "Invalid"
            BY <3>2, <4>1
      <4> QED  BY <3>1, <4>2, RoutedIs
    <3> QED  BY <1>5, <3>3 DEF ns, rs
  <2> QED  BY <2>1, <2>2 DEF GivesUpOldest
<1>6. ASSUME NEW r \in Row, Add(r), TrackBirth, past' = IF r.state = "Valid" THEN past ELSE "other"
      PROVE  AgeInv' /\ (past = "orderly" => GivesUpOldest)
  <2>1. routes' = AddRouteTo(routes, r)
        BY <1>6 DEF Add
  <2>2. CASE past = "orderly" /\ (Named(routes, r.dest) # {} \/ Free(routes) # {})
    <3>1. PICK k \in Index : Fits(routes, k, r.dest) /\ AddRouteTo(routes, r) = [routes EXCEPT ![k] = r]
      <4>1. ByAge(routes, elders)
            BY <1>1, <2>2
      <4>2. Named(routes, r.dest) # {} \/ Free(routes) # {}
            BY <2>2
      <4> HIDE DEF AddRouteTo, Fits
      <4> QED  BY <1>1, <4>1, <4>2, AddFits, Zenon
    <3>2. past' = "orderly" => ByAge(routes', elders')
      <4>1. ByAge(routes, elders) /\ elders' = Tracked(routes, routes', elders)
            BY <1>1, <1>3, <1>6, <2>2
      <4>2. routes' = [routes EXCEPT ![k] = r]
            BY <2>1, <3>1
      <4>3. past' = "orderly" => r.state = "Valid"
            BY <1>6
      <4>4. r.state = "Valid" => ByAge(routes', Tracked(routes, routes', elders))
            BY <1>1, <3>1, <4>1, <4>2, WriteByAge, Zenon
      <4> QED  BY <4>1, <4>3, <4>4
    <3>3. Routed(routes') \subseteq Routed(routes) \/ Routed(routes) \subseteq Routed(routes')
          BY <1>1, <2>1, <3>1, WriteGivesUp
    <3>4. GivesUpOldest
          BY <3>3 DEF GivesUpOldest
    <3> QED  BY <1>2, <1>3, <1>4, <1>6, <3>2, <3>4, TrackedType DEF AgeInv
  <2>3. CASE past = "orderly" /\ Named(routes, r.dest) = {} /\ Free(routes) = {}
    <3>1. past' = "orderly" => ByAge(routes', elders')
          BY <1>1, <1>3, <1>6, <2>1, <2>3, EvictByAge
    <3>2. GivesUpOldest
          BY <1>1, <2>1, <2>3, EvictGivesUp DEF GivesUpOldest
    <3> QED  BY <1>2, <1>3, <1>4, <1>6, <3>1, <3>2, TrackedType DEF AgeInv
  <2>4. CASE past # "orderly"
    <3>1. past' # "orderly"
          BY <1>6, <2>4
    <3> QED  BY <1>2, <1>3, <1>4, <1>6, <2>4, <3>1, TrackedType DEF AgeInv
  <2> QED  BY <2>2, <2>3, <2>4
<1>7. ASSUME NEW d \in Addr, Step(DeleteRouteTo(d)), UNCHANGED past
      PROVE  AgeInv' /\ (past = "orderly" => GivesUpOldest)
  <2>1. First(Named(routes, d)) \in Index
        BY <1>7, FirstIsLeast DEF Step, DeleteRouteTo, Named
  <2> QED  BY <1>5, <1>7, <2>1 DEF Step, DeleteRouteTo
<1>8. ASSUME Step(RetireOldestRoute), UNCHANGED past
      PROVE  AgeInv' /\ (past = "orderly" => GivesUpOldest)
  <2>1. 0 \in Index
        BY SizeAssumption DEF Index
  <2> QED  BY <1>5, <1>8, <2>1 DEF Step, RetireOldestRoute
<1>9. ASSUME Step(ClearRoutingTable), past' = "other"
      PROVE  AgeInv' /\ (past = "orderly" => GivesUpOldest)
  <2>1. \A i \in Index : routes'[i].state = "Invalid"
        BY <1>1, <1>9 DEF Step, ClearRoutingTable, Tables, Row
  <2>2. routes' \in Tables
        BY <1>4 DEF TableInv, TypeOK, Tables
  <2>3. Routed(routes') = {}
        BY <2>1, <2>2, RoutedIs
  <2>4. past' # "orderly"
        BY <1>9
  <2> QED  BY <1>2, <1>3, <1>4, <1>9, <2>3, <2>4, TrackedType DEF AgeInv, Step, GivesUpOldest
<1>10. CASE UNCHANGED ageVars
  <2>1. routes' = routes /\ elders' = elders /\ past' = past
        BY <1>10 DEF ageVars
  <2>2. RowsByAge'
        BY <2>1 DEF AgeInv, RowsByAge
  <2> QED  BY <1>1, <1>4, <1>10, <2>1, <2>2 DEF AgeInv
<1> QED  BY <1>6, <1>7, <1>8, <1>9, <1>10 DEF AgeNext, Step

\* The rows of an orderly table stand in order of age, in a table of any size:
\* updates in place, deletions that move rows up and evictions keep the order
\* (RHRouter.cpp, addRouteTo and deleteRoute).
THEOREM RowsStandByAge == AgeSpec => []RowsByAge
<1>1. AgeInv => RowsByAge
      BY DEF AgeInv
<1>2. AgeInv /\ [AgeNext]_ageVars => AgeInv'
      BY AgeStep
<1> QED  BY <1>1, <1>2, AgeInvInit, PTL DEF AgeSpec

\* And a table that is full gives up its oldest route.
THEOREM OldestIsGivenUp == AgeSpec => EvictsOldest
<1>1. AgeInv /\ [AgeNext]_ageVars => AgeInv'
      BY AgeStep
<1>2. AgeInv /\ [AgeNext]_ageVars => [past = "orderly" => GivesUpOldest]_ageVars
      BY AgeStep
<1> QED  BY <1>1, <1>2, AgeInvInit, PTL DEF AgeSpec, EvictsOldest
=============================================================================
