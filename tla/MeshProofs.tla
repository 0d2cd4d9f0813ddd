----------------------------- MODULE MeshProofs -----------------------------
(***************************************************************************)
(* Proofs about Mesh, for every network, hop limit and number of calls:    *)
(* types, the paths of requests, the way back of replies, and that no      *)
(* application message is handed over twice. A step of a node changes its  *)
(* own table and puts messages into inboxes; the first lemmas say which    *)
(* (Step), so that the invariants need to look at new messages only.       *)
(***************************************************************************)
EXTENDS Mesh, TLAPS

Box == [Node -> Message \cup {NoMessage}]
Table == [Dest -> Node \cup {Nobody}]
\* A table and whether all its routes were kept.
Lore == [table : Table, kept : BOOLEAN]

MeshType == TypeOK /\ inbox \in Box /\ calls \in [Node -> Nat]
-----------------------------------------------------------------------------
(* What the sends do *)

\* Routes added are all there, or some have made room.
LEMMA AddRoutesType ==
  ASSUME NEW table \in Table, NEW S, NEW next \in Node, NEW known \in AddRoutes(table, S, next)
  PROVE  /\ known \in Lore
         /\ known.kept => known.table = [d \in Dest |-> IF d \in S THEN next ELSE table[d]]
<1> DEFINE wide == [d \in Dest |-> IF d \in S THEN next ELSE table[d]]
           less(stay) == [d \in Dest |-> IF d \in stay THEN wide[d] ELSE Nobody]
<1>1. wide \in Table /\ \A stay : less(stay) \in Table
  BY DEF Table
<1>2. known = AsIs(wide) \/ \E stay : known = [table |-> less(stay), kept |-> FALSE]
  BY DEF AddRoutes
<1> HIDE DEF wide, less
<1>3. CASE known = AsIs(wide)
  BY <1>1, <1>3 DEF AsIs, Lore, wide
<1>4. CASE \E stay : known = [table |-> less(stay), kept |-> FALSE]
  <2>1. PICK stay : known = [table |-> less(stay), kept |-> FALSE]
    BY <1>4
  <2>2. less(stay) \in Table
    BY <1>1
  <2> QED  BY <2>1, <2>2 DEF Lore
<1> QED  BY <1>2, <1>3, <1>4

LEMMA AsIsType ==
  ASSUME NEW table \in Table
  PROVE  AsIs(table) \in Lore /\ AsIs(table).table = table /\ AsIs(table).kept
BY DEF AsIs, Lore

LEMMA NewType ==
  ASSUME NEW n \in Node, NEW kind \in Kind, NEW dest \in Node \cup {Everybody},
         NEW about \in Node \cup {Nobody}, NEW path \in Seq(Node)
  PROVE  New(n, kind, dest, about, path) \in Message
BY MeshAssumption DEF New, Message

\* A message with another sender is a message.
LEMMA FromType ==
  ASSUME NEW msg \in Message, NEW n \in Node
  PROVE  /\ [msg EXCEPT !.from = n] \in Message
         /\ [msg EXCEPT !.from = n].from = n
         /\ [msg EXCEPT !.from = n].kind = msg.kind
         /\ [msg EXCEPT !.from = n].source = msg.source
         /\ [msg EXCEPT !.from = n].dest = msg.dest
         /\ [msg EXCEPT !.from = n].path = msg.path
         /\ [msg EXCEPT !.from = n].call = msg.call
BY DEF Message

\* A hop leaves the inboxes alone, or puts the message into that of a neighbour.
LEMMA HopEffect ==
  ASSUME NEW n \in Node, NEW m \in Node, NEW msg \in Message, NEW box \in Box,
         NEW r \in Hop(n, m, msg, box)
  PROVE  /\ r.box \in Box
         /\ \/ r.box = box
            \/ /\ m \in Link[n]
               /\ r.box = [box EXCEPT ![m] = [msg EXCEPT !.from = n]]
         /\ r.ok \in BOOLEAN
<1> DEFINE put == [box EXCEPT ![m] = [msg EXCEPT !.from = n]]
<1>1. put \in Box
  BY FromType DEF Box
<1>2. CASE r = [ok |-> FALSE, box |-> box]
  <2>1. r.box = box /\ r.ok = FALSE
    BY <1>2
  <2> QED  BY <2>1
<1>3. CASE m \in Link[n] /\ \E o \in BOOLEAN : r = [ok |-> o, box |-> put]
  <2>1. PICK o \in BOOLEAN : r = [ok |-> o, box |-> put]
    BY <1>3
  <2> HIDE DEF put
  <2>2. r.box = put /\ r.ok = o
    BY <2>1
  <2> QED  BY <1>1, <1>3, <2>2 DEF put
<1>4. \/ r = [ok |-> FALSE, box |-> box]
      \/ m \in Link[n] /\ \E o \in BOOLEAN : r = [ok |-> o, box |-> put]
  BY DEF Hop
<1> QED  BY <1>2, <1>3, <1>4

\* News of a failed hop, on its way from n to its neighbour k.
Failure(n, k, msg) == /\ k \in Link[n] /\ msg \in Message /\ msg.kind = "failure"
                      /\ msg.from = n /\ msg.dest \in Node

\* A failed route is reported to the node the message came from, if at all.
LEMMA FailedEffect ==
  ASSUME NEW n \in Node, NEW msg \in Message, msg.dest \in Node,
         NEW table \in Table, NEW box \in Box, NEW end \in RouteFailed(n, msg, table, box)
  PROVE  /\ end.table \in Table /\ end.box \in Box /\ end.ok = FALSE
         /\ \A k \in Node : end.box[k] = box[k] \/ Failure(n, k, end.box[k])
<1> DEFINE without == [table EXCEPT ![msg.dest] = Nobody]
           news    == New(n, "failure", msg.source, msg.dest, <<>>)
<1>1. msg.source \in Node /\ msg.from \in Node
  BY DEF Message
<1>2. without \in Table
  BY DEF Table
<1>3. /\ news \in Message /\ [news EXCEPT !.from = n] = news
      /\ \A k \in Link[n] : Failure(n, k, news)
  <2>1. "failure" \in Kind /\ msg.source \in Node \cup {Everybody}
        /\ msg.dest \in Node \cup {Nobody} /\ <<>> \in Seq(Node)
    BY <1>1 DEF Kind
  <2>2. news \in Message
    BY <2>1, NewType
  <2> QED  BY <1>1, <2>2 DEF New, Failure
<1>4. CASE msg.source = n
  <2>1. end = [table |-> without, box |-> box, ok |-> FALSE]
    BY <1>4 DEF RouteFailed
  <2> HIDE DEF without
  <2> QED  BY <1>2, <2>1
<1>5. CASE msg.source # n
  <2>1. PICK r \in Hop(n, msg.from, news, box) :
          end \in {[table |-> IF r.ok THEN back.table ELSE [back.table EXCEPT ![msg.source] = Nobody],
                    box |-> r.box, ok |-> FALSE] : back \in AddRoutes(without, {msg.source}, msg.from)}
    BY <1>5 DEF RouteFailed
  <2> HIDE DEF without, news
  <2>2. PICK back \in AddRoutes(without, {msg.source}, msg.from) :
           end = [table |-> IF r.ok THEN back.table ELSE [back.table EXCEPT ![msg.source] = Nobody],
                  box |-> r.box, ok |-> FALSE]
    BY <2>1
  <2>3. back.table \in Table /\ [back.table EXCEPT ![msg.source] = Nobody] \in Table
    <3>1. back \in Lore
      BY <1>1, <1>2, AddRoutesType
    <3> QED  BY <3>1 DEF Lore, Table
  <2>4. /\ r.box \in Box
        /\ \/ r.box = box
           \/ msg.from \in Link[n] /\ r.box = [box EXCEPT ![msg.from] = news]
    BY <1>1, <1>3, HopEffect
  <2>5. end.box = r.box /\ end.ok = FALSE /\ end.table \in Table
    BY <2>2, <2>3
  <2>6. ASSUME NEW k \in Node, end.box[k] # box[k]
        PROVE  k \in Link[n] /\ end.box[k] = news
    BY <2>4, <2>5, <2>6, <1>1 DEF Box
  <2> QED  BY <1>3, <2>4, <2>5, <2>6
<1> QED  BY <1>4, <1>5

\* route puts the message into one inbox at most, and the table changes only if
\* a hop has failed.
LEMMA RouteEffect ==
  ASSUME NEW n \in Node, NEW msg \in Message, msg.dest \in Node,
         NEW table \in Table, NEW box \in Box, NEW end \in Route(n, msg, table, box)
  PROVE  /\ end.table \in Table /\ end.box \in Box /\ end.ok \in BOOLEAN
         /\ end.ok => end.table = table
         /\ \E m \in Node : \A k \in Node :
               \/ end.box[k] = box[k]
               \/ k = m /\ k \in Link[n] /\ end.box[k] = [msg EXCEPT !.from = n]
               \/ ~end.ok /\ Failure(n, k, end.box[k])
<1>1. CASE table[msg.dest] = Nobody
  <2>1. end \in RouteFailed(n, msg, table, box)
    BY <1>1 DEF Route
  <2>2. /\ end.table \in Table /\ end.box \in Box /\ end.ok = FALSE
        /\ \A k \in Node : end.box[k] = box[k] \/ Failure(n, k, end.box[k])
    BY <2>1, FailedEffect, ZenonT(40)
  <2> QED  BY <2>2
<1>2. CASE table[msg.dest] # Nobody
  <2>1. PICK m \in Node : m = table[msg.dest]
    BY <1>2 DEF Table, Dest
  <2>2. PICK r \in Hop(n, m, msg, box) :
          end \in IF r.ok THEN {[table |-> table, box |-> r.box, ok |-> TRUE]}
                          ELSE RouteFailed(n, msg, table, r.box)
    BY <1>2, <2>1 DEF Route
  <2>3. /\ r.box \in Box /\ r.ok \in BOOLEAN
        /\ \/ r.box = box
           \/ m \in Link[n] /\ r.box = [box EXCEPT ![m] = [msg EXCEPT !.from = n]]
    BY HopEffect
  <2>4. \A k \in Node : \/ r.box[k] = box[k]
                        \/ k = m /\ k \in Link[n] /\ r.box[k] = [msg EXCEPT !.from = n]
    BY <2>3 DEF Box
  <2>5. CASE r.ok
    <3>1. end = [table |-> table, box |-> r.box, ok |-> TRUE]
      BY <2>2, <2>5
    <3> QED  BY <2>3, <2>4, <3>1
  <2>6. CASE ~r.ok
    <3>3. r.box \in Box
      BY <2>3
    <3>1. end \in RouteFailed(n, msg, table, r.box)
      BY <2>2, <2>6
    <3>2. /\ end.table \in Table /\ end.box \in Box /\ end.ok = FALSE
          /\ \A k \in Node : end.box[k] = r.box[k] \/ Failure(n, k, end.box[k])
      BY <3>3, <3>1, FailedEffect, ZenonT(40)
    <3>4. \A k \in Node :
             \/ end.box[k] = box[k]
             \/ k = m /\ k \in Link[n] /\ end.box[k] = [msg EXCEPT !.from = n]
             \/ ~end.ok /\ Failure(n, k, end.box[k])
      BY <2>4, <3>2, Zenon
    <3>5. end.ok \in BOOLEAN /\ ~end.ok
      BY <3>2
    <3> QED  BY <3>2, <3>4, <3>5, Zenon
  <2> QED  BY <2>3, <2>5, <2>6
<1> QED  BY <1>1, <1>2
-----------------------------------------------------------------------------
(* What a step of a node does *)

\* Node n ends its step with the table known, unless something was lost; the nodes
\* of heard have got msg, and of the others one may have got the news of a failure.
Step(n, known, msg, heard) ==
  /\ routes' \in [Node -> Table] /\ inbox' \in Box /\ broken' \in BOOLEAN
  /\ broken => broken'
  /\ \A k \in Node \ {n} : routes'[k] = routes[k]
  /\ ~broken' => known.kept /\ routes'[n] = known.table
  /\ inbox'[n] = NoMessage
  /\ heard \subseteq Link[n]
  /\ \A k \in Node \ {n} :
       \/ k \in heard /\ inbox'[k] = [msg EXCEPT !.from = n]
       \/ inbox'[k] = inbox[k]
       \/ broken' /\ Failure(n, k, inbox'[k])

\* A message that is routed reaches one node at most.
LEMMA RouteStep ==
  ASSUME MeshType, NEW n \in Node, NEW msg \in Message, msg.dest \in Node,
         NEW known \in Lore, NEW end \in Route(n, msg, known.table, inbox), Ends(n, known, end)
  PROVE  \E m \in Node : \E heard \in SUBSET {m} : Step(n, known, msg, heard)
<1>1. /\ inbox \in Box /\ routes \in [Node -> Table] /\ broken \in BOOLEAN
      /\ known.table \in Table /\ known.kept \in BOOLEAN
  BY DEF MeshType, TypeOK, Table, Lore
<1>2. /\ end.table \in Table /\ end.box \in Box /\ end.ok \in BOOLEAN
      /\ end.ok => end.table = known.table
      /\ \E m \in Node : \A k \in Node :
            \/ end.box[k] = inbox[k]
            \/ k = m /\ k \in Link[n] /\ end.box[k] = [msg EXCEPT !.from = n]
            \/ ~end.ok /\ Failure(n, k, end.box[k])
  BY <1>1, RouteEffect
<1>3. PICK m \in Node : \A k \in Node :
            \/ end.box[k] = inbox[k]
            \/ k = m /\ k \in Link[n] /\ end.box[k] = [msg EXCEPT !.from = n]
            \/ ~end.ok /\ Failure(n, k, end.box[k])
  BY <1>2
<1> DEFINE heard == {m} \cap Link[n]
<1>4. /\ routes' = [routes EXCEPT ![n] = end.table]
      /\ inbox' = [end.box EXCEPT ![n] = NoMessage]
      /\ broken' = (broken \/ ~end.ok \/ ~known.kept)
  BY DEF Ends
<1>5. \A k \in Node \ {n} : inbox'[k] = end.box[k] /\ routes'[k] = routes[k]
  BY <1>1, <1>2, <1>4 DEF Box
<1>6. inbox'[n] = NoMessage /\ routes'[n] = end.table
  BY <1>1, <1>2, <1>4 DEF Box
<1>7. routes' \in [Node -> Table] /\ inbox' \in Box /\ broken' \in BOOLEAN
  BY <1>1, <1>2, <1>4 DEF Box
<1>8. Step(n, known, msg, heard)
  BY <1>2, <1>3, <1>4, <1>5, <1>6, <1>7 DEF Step
<1> QED  BY <1>8

\* A broadcast reaches some of the neighbours.
LEMMA BroadcastStep ==
  ASSUME MeshType, NEW n \in Node, NEW msg \in Message, NEW known \in Lore,
         NEW end \in Sent(known.table, Broadcasts(n, msg, inbox)), Ends(n, known, end)
  PROVE  \E heard \in SUBSET Node : Step(n, known, msg, heard)
<1>1. /\ inbox \in Box /\ routes \in [Node -> Table] /\ broken \in BOOLEAN
      /\ known.table \in Table /\ known.kept \in BOOLEAN
  BY DEF MeshType, TypeOK, Table, Lore
<1>2. PICK box \in Broadcasts(n, msg, inbox) : end = [table |-> known.table, box |-> box, ok |-> TRUE]
  BY DEF Sent
<1>3. PICK heard \in SUBSET {m \in Link[n] : inbox[m] = NoMessage} :
         box = [m \in Node |-> IF m \in heard THEN [msg EXCEPT !.from = n] ELSE inbox[m]]
  BY DEF Broadcasts
<1>4. heard \subseteq Link[n] /\ Link[n] \subseteq Node
  BY MeshAssumption
<1>5. box \in Box
  BY <1>1, <1>3, FromType DEF Box
<1>6. end.table = known.table /\ end.box = box /\ end.ok = TRUE
  BY <1>2
<1>7. /\ routes' = [routes EXCEPT ![n] = known.table]
      /\ inbox' = [box EXCEPT ![n] = NoMessage]
      /\ broken' = (broken \/ ~known.kept)
  BY <1>1, <1>6 DEF Ends
<1>8. routes' \in [Node -> Table] /\ inbox' \in Box
  BY <1>1, <1>5, <1>7 DEF Box
<1>9. inbox'[n] = NoMessage /\ routes'[n] = known.table
      /\ \A k \in Node \ {n} : inbox'[k] = box[k] /\ routes'[k] = routes[k]
  BY <1>1, <1>5, <1>7 DEF Box
<1>10. \A k \in Node : box[k] = inbox[k] \/ (k \in heard /\ box[k] = [msg EXCEPT !.from = n])
  BY <1>3
<1>11. Step(n, known, msg, heard)
  BY <1>1, <1>4, <1>7, <1>8, <1>9, <1>10 DEF Step
<1> QED  BY <1>4, <1>11

\* A step that sends nothing.
LEMMA SilentStep ==
  ASSUME MeshType, NEW n \in Node, NEW known \in Lore, NEW msg \in Message,
         NEW end \in Sent(known.table, {inbox}), Ends(n, known, end)
  PROVE  Step(n, known, msg, {})
<1>1. /\ inbox \in Box /\ routes \in [Node -> Table] /\ broken \in BOOLEAN
      /\ known.table \in Table /\ known.kept \in BOOLEAN
  BY DEF MeshType, TypeOK, Table, Lore
<1>2. end = [table |-> known.table, box |-> inbox, ok |-> TRUE]
  BY DEF Sent
<1>3. end.table = known.table /\ end.box = inbox /\ end.ok = TRUE
  BY <1>2
<1>4. /\ routes' = [routes EXCEPT ![n] = known.table]
      /\ inbox' = [inbox EXCEPT ![n] = NoMessage]
      /\ broken' = (broken \/ ~known.kept)
  BY <1>1, <1>3 DEF Ends
<1> QED  BY <1>1, <1>4 DEF Step, Box
-----------------------------------------------------------------------------
(* The invariants *)

Holds(k, kind) == inbox[k] # NoMessage /\ inbox[k].kind = kind

\* The path of a request, from its source to the node it was heard from.
Walk(msg) == <<msg.source>> \o msg.path
IsWalk(walk) == /\ \A i, j \in DOMAIN walk : i # j => walk[i] # walk[j]
                /\ \A i \in 2..Len(walk) : walk[i] \in Link[walk[i - 1]]
Sound(msg) ==
  /\ msg.kind = "request" => msg.dest = Everybody /\ IsWalk(Walk(msg)) /\ msg.from = Last(Walk(msg))
  /\ msg.kind \in {"response", "failure"} => msg.dest \in Node

\* The nodes on the path of a discovery know a way to the one who asked.
Asked(msg) == IF msg.kind = "request" THEN msg.source ELSE msg.dest
Remembered(msg, tables) ==
  msg.kind \in {"request", "response"} => \A j \in Range(msg.path) : tables[j][Asked(msg)] # Nobody

\* What is true of every message in flight.
Honest == \A k \in Node : inbox[k] # NoMessage =>
            /\ k \in Link[inbox[k].from] /\ Sound(inbox[k])
            /\ inbox[k].kind = "failure" => broken
            /\ ~broken => Remembered(inbox[k], routes)

\* A call whose message is out, if it ever will be.
Old(source, call) == call <= calls[source] /\ (seeking[source] # Nobody => call # calls[source])
Later(source, call) == call <= calls'[source] /\ (seeking'[source] # Nobody => call # calls'[source])

\* Application messages in flight are those of old calls that have not been
\* handed over where they are, and one to a single node is in one place.
Once ==
  /\ \A k \in Node : Holds(k, "application") =>
       /\ Old(inbox[k].source, inbox[k].call)
       /\ <<k, inbox[k].source, inbox[k].call>> \notin delivered
       /\ inbox[k].dest \in Node =>
            \A j \in Node : /\ <<j, inbox[k].source, inbox[k].call>> \notin delivered
                            /\ j # k /\ Holds(j, "application") =>
                                 <<inbox[j].source, inbox[j].call>> # <<inbox[k].source, inbox[k].call>>
  /\ \A this \in delivered : Old(this[2], this[3])
  /\ ~twice

MeshInv == MeshType /\ Honest /\ Once
-----------------------------------------------------------------------------
(* Steps keep them *)

\* Unless something was lost, a route known stays known.
Grows(n, known) ==
  ~broken /\ known.kept => \A d \in Node : routes[n][d] # Nobody => known.table[d] # Nobody

LEMMA AddRoutesGrow ==
  ASSUME MeshType, NEW n \in Node, NEW next \in Node, NEW S,
         NEW known \in AddRoutes(routes[n], S, next)
  PROVE  /\ known \in Lore /\ Grows(n, known)
         /\ known.kept => \A d \in Node \cap S : known.table[d] = next
<1>1. next # Nobody /\ routes[n] \in Table
  BY MeshAssumption DEF MeshType, TypeOK, Table
<1>2. /\ known \in Lore
      /\ known.kept => known.table = [d \in Dest |-> IF d \in S THEN next ELSE routes[n][d]]
  <2> DEFINE table == routes[n]
  <2>1. table \in Table /\ known \in AddRoutes(table, S, next)
    BY <1>1
  <2> HIDE DEF table
  <2>2. /\ known \in Lore
        /\ known.kept => known.table = [d \in Dest |-> IF d \in S THEN next ELSE table[d]]
    BY <2>1, AddRoutesType
  <2> QED  BY <2>2 DEF table
<1> QED  BY <1>1, <1>2 DEF Dest, Grows

LEMMA AsIsGrows ==
  ASSUME MeshType, NEW n \in Node
  PROVE  /\ AsIs(routes[n]) \in Lore /\ AsIs(routes[n]).table = routes[n]
         /\ Grows(n, AsIs(routes[n]))
<1>1. routes[n] \in Table
  BY DEF MeshType, TypeOK, Table
<1> QED  BY <1>1, AsIsType DEF Grows

\* What a node learns by looking at a message.
LEMMA PeekEffect ==
  ASSUME MeshType, Honest, NEW n \in Node, inbox[n] # NoMessage, NEW known \in Peek(n, inbox[n])
  PROVE  known \in Lore /\ Grows(n, known)
<1>1. inbox[n] \in Message /\ inbox[n].from \in Node /\ routes[n] \in Table
  BY DEF MeshType, TypeOK, Message, Table
<1>2. CASE inbox[n].kind = "response"
  <2>1. PICK s \in Scraped(n, inbox[n]) :
          known \in AddRoutes(routes[n], s \cup {inbox[n].about}, inbox[n].from)
    BY <1>2 DEF Peek
  <2> DEFINE S == s \cup {inbox[n].about}
             from == inbox[n].from
  <2>2. from \in Node /\ known \in AddRoutes(routes[n], S, from)
    BY <1>1, <2>1
  <2> HIDE DEF S, from
  <2> QED  BY <2>2, AddRoutesGrow
<1>3. CASE inbox[n].kind = "failure"
  <2> DEFINE without == [routes[n] EXCEPT ![inbox[n].about] = Nobody]
  <2>1. broken /\ known = AsIs(without)
    BY <1>3 DEF Peek, Honest
  <2>2. without \in Table
    BY <1>1 DEF Table
  <2> HIDE DEF without
  <2> QED  BY <2>1, <2>2, AsIsType DEF Grows
<1>4. CASE inbox[n].kind \notin {"response", "failure"}
  <2>1. known = AsIs(routes[n])
    BY <1>4 DEF Peek
  <2> QED  BY <2>1, AsIsGrows
<1> QED  BY <1>2, <1>3, <1>4

\* What it has learned when doArp comes to its end.
LEMMA LearnedEffect ==
  ASSUME MeshType, Honest, NEW n \in Node, inbox[n] # NoMessage, NEW known \in Learned(n)
  PROVE  known \in Lore /\ Grows(n, known)
<1>1. inbox[n].from \in Node /\ inbox[n].from # Nobody
  BY MeshAssumption DEF MeshType, TypeOK, Message
<1>2. PICK seen \in Peek(n, inbox[n]) :
        known \in {[a EXCEPT !.kept = @ /\ seen.kept] :
                     a \in AddRoutes(seen.table, {seeking[n]}, inbox[n].from)}
  BY DEF Learned
<1>3. PICK more \in AddRoutes(seen.table, {seeking[n]}, inbox[n].from) :
        known = [more EXCEPT !.kept = @ /\ seen.kept]
  BY <1>2
<1>4. seen \in Lore /\ Grows(n, seen)
  BY PeekEffect
<1>5. /\ more \in Lore
      /\ more.kept => more.table = [d \in Dest |-> IF d \in {seeking[n]} THEN inbox[n].from ELSE seen.table[d]]
  <2>1. seen.table \in Table
    BY <1>4 DEF Lore
  <2> QED  BY <1>1, <1>3, <2>1, AddRoutesType
<1>6. known \in Lore /\ known.table = more.table /\ (known.kept <=> more.kept /\ seen.kept)
  <2>1. more.table \in Table /\ more.kept \in BOOLEAN /\ seen.kept \in BOOLEAN
    BY <1>4, <1>5 DEF Lore
  <2>2. more = [table |-> more.table, kept |-> more.kept]
    BY <1>5 DEF Lore
  <2>3. known = [table |-> more.table, kept |-> more.kept /\ seen.kept]
    BY <1>3, <2>2
  <2> QED  BY <2>1, <2>3 DEF Lore
<1>7. ASSUME ~broken, known.kept, NEW d \in Node, routes[n][d] # Nobody
      PROVE  known.table[d] # Nobody
  <2>1. seen.kept /\ more.kept /\ known.table = more.table
    BY <1>4, <1>5, <1>6, <1>7 DEF Lore
  <2>2. seen.table[d] # Nobody
    BY <1>4, <1>7, <2>1 DEF Grows
  <2>3. known.table[d] = IF d \in {seeking[n]} THEN inbox[n].from ELSE seen.table[d]
    BY <1>5, <2>1 DEF Dest
  <2> QED  BY <1>1, <2>2, <2>3
<1> QED  BY <1>6, <1>7 DEF Grows

\* Every message stays honest, and so is the one sent if it was when n sent it.
Fit(n, known, msg) ==
  /\ Sound([msg EXCEPT !.from = n])
  /\ msg.kind = "failure" => broken
  /\ ~broken /\ known.kept => Remembered(msg, [routes EXCEPT ![n] = known.table])

LEMMA StepHonest ==
  ASSUME MeshType, Honest, NEW n \in Node, NEW known \in Lore, NEW msg \in Message,
         NEW heard \in SUBSET Node, Step(n, known, msg, heard), Grows(n, known),
         heard # {} => Fit(n, known, msg)
  PROVE  Honest'
<1> SUFFICES ASSUME NEW k \in Node, inbox'[k] # NoMessage
             PROVE  /\ k \in Link[inbox'[k].from] /\ Sound(inbox'[k])
                    /\ inbox'[k].kind = "failure" => broken'
                    /\ ~broken' => Remembered(inbox'[k], routes')
  BY DEF Honest
<1>1. k # n
  BY DEF Step
<1>2. CASE k \in heard /\ inbox'[k] = [msg EXCEPT !.from = n]
  <2> DEFINE put == [msg EXCEPT !.from = n]
  <2>1. /\ put.from = n /\ put.kind = msg.kind /\ put.source = msg.source
        /\ put.dest = msg.dest /\ put.path = msg.path
    BY FromType
  <2>2. Fit(n, known, msg) /\ k \in Link[n] /\ (broken => broken')
    BY <1>2 DEF Step
  <2>3. ASSUME ~broken'
        PROVE  Remembered(put, routes')
    <3>1. known.kept /\ routes' = [routes EXCEPT ![n] = known.table]
      BY <2>3 DEF Step, MeshType, TypeOK, Table
    <3>2. Remembered(msg, routes')
      BY <2>2, <2>3, <3>1 DEF Fit
    <3> QED  BY <2>1, <3>2 DEF Remembered, Asked
  <2> HIDE DEF put
  <2> QED  BY <1>2, <2>1, <2>2, <2>3 DEF Fit, put
<1>3. CASE inbox'[k] = inbox[k]
  <2>1. /\ k \in Link[inbox[k].from] /\ Sound(inbox[k]) /\ (inbox[k].kind = "failure" => broken)
        /\ ~broken => Remembered(inbox[k], routes)
    BY <1>3 DEF Honest
  <2>2. ASSUME ~broken'
        PROVE  Remembered(inbox[k], routes')
    <3>1. ~broken /\ Remembered(inbox[k], routes)
      BY <2>1, <2>2 DEF Step
    <3>2. \A j, d \in Node : routes[j][d] # Nobody => routes'[j][d] # Nobody
      BY <2>2, <3>1 DEF Step, Grows
    <3>3. inbox[k] \in Message
      BY <1>3 DEF MeshType, TypeOK
    <3>4. ASSUME inbox[k].kind \in {"request", "response"}
          PROVE  Asked(inbox[k]) \in Node
      BY <2>1, <3>3, <3>4 DEF Asked, Sound, Message
    <3>5. Range(inbox[k].path) \subseteq Node
      BY <3>3 DEF Message, Range
    <3> QED  BY <3>1, <3>2, <3>4, <3>5 DEF Remembered
  <2> QED  BY <1>3, <2>1, <2>2 DEF Step
<1>4. CASE broken' /\ Failure(n, k, inbox'[k])
  BY <1>4 DEF Failure, Sound
<1> QED  BY <1>1, <1>2, <1>3, <1>4 DEF Step

\* An application message that n sends is of a call whose message is not out, or
\* the one that n is processing, for a single node.
Fresh(n, msg) ==
  \/ ~Old(msg.source, msg.call) /\ Later(msg.source, msg.call)
  \/ /\ msg.dest \in Node /\ Holds(n, "application") /\ msg.dest = inbox[n].dest
     /\ msg.source = inbox[n].source /\ msg.call = inbox[n].call

LEMMA StepOnce ==
  ASSUME MeshType, Once, NEW n \in Node, NEW known \in Lore, NEW msg \in Message,
         NEW heard \in SUBSET Node, Step(n, known, msg, heard),
         heard # {} /\ msg.kind = "application" =>
           Fresh(n, msg) /\ (msg.dest \in Node => \E m \in Node : heard \subseteq {m}),
         \A s \in Node, c \in Nat : Old(s, c) => Later(s, c),
         UNCHANGED <<delivered, twice>>
  PROVE  Once'
<1> DEFINE Key(k) == <<inbox[k].source, inbox[k].call>>
<1>1. \A k \in Node : inbox[k] # NoMessage => inbox[k] \in Message
  BY DEF MeshType, TypeOK
<1>2. delivered \subseteq Node \X Node \X Nat
  BY DEF MeshType, TypeOK
<1>3. ASSUME NEW k \in Node, Holds(k, "application")'
      PROVE  /\ k # n
             /\ \/ k \in heard /\ inbox'[k] = [msg EXCEPT !.from = n] /\ msg.kind = "application"
                \/ inbox'[k] = inbox[k] /\ Holds(k, "application")
  <2>1. k # n
    BY <1>3 DEF Step, Holds
  <2>2. CASE k \in heard /\ inbox'[k] = [msg EXCEPT !.from = n]
    BY <1>3, <2>1, <2>2, FromType DEF Holds
  <2>3. CASE inbox'[k] = inbox[k]
    BY <1>3, <2>1, <2>3 DEF Holds
  <2>4. CASE Failure(n, k, inbox'[k])
    BY <1>3, <2>4 DEF Holds, Failure
  <2> QED  BY <2>1, <2>2, <2>3, <2>4 DEF Step
<1>4. /\ [msg EXCEPT !.from = n].source = msg.source /\ [msg EXCEPT !.from = n].call = msg.call
      /\ [msg EXCEPT !.from = n].dest = msg.dest /\ msg.source \in Node /\ msg.call \in Nat
  BY FromType DEF Message
\* What is known of a message that was sent.
<1>5. ASSUME NEW k \in heard, msg.kind = "application"
      PROVE  /\ Later(msg.source, msg.call)
             /\ <<k, msg.source, msg.call>> \notin delivered
             /\ msg.dest \in Node => \A j \in Node : <<j, msg.source, msg.call>> \notin delivered
             /\ \A j \in Node \ {n} : Holds(j, "application") /\ inbox[j].source = msg.source
                                        /\ inbox[j].call = msg.call => FALSE
  <2>1. Fresh(n, msg)
    BY <1>5
  <2>2. CASE ~Old(msg.source, msg.call) /\ Later(msg.source, msg.call)
    <3>1. \A j \in Node : <<j, msg.source, msg.call>> \notin delivered
      BY <2>2 DEF Once
    <3>2. \A j \in Node : Holds(j, "application") => Old(inbox[j].source, inbox[j].call)
      BY DEF Once
    <3> QED  BY <2>2, <3>1, <3>2
  <2>3. CASE /\ msg.dest \in Node /\ Holds(n, "application") /\ msg.dest = inbox[n].dest
             /\ msg.source = inbox[n].source /\ msg.call = inbox[n].call
    <3>1. /\ Old(msg.source, msg.call)
          /\ \A j \in Node : /\ <<j, msg.source, msg.call>> \notin delivered
                             /\ j # n /\ Holds(j, "application") =>
                                  <<inbox[j].source, inbox[j].call>> # <<msg.source, msg.call>>
      BY <2>3 DEF Once
    <3> QED  BY <1>4, <3>1
  <2> QED  BY <2>1, <2>2, <2>3 DEF Fresh
<1>6. ASSUME NEW k \in Node, Holds(k, "application")'
      PROVE  /\ Later(inbox'[k].source, inbox'[k].call)
             /\ <<k, inbox'[k].source, inbox'[k].call>> \notin delivered
             /\ inbox'[k].dest \in Node =>
                  \A j \in Node : /\ <<j, inbox'[k].source, inbox'[k].call>> \notin delivered
                                  /\ j # k /\ Holds(j, "application")' =>
                                       <<inbox'[j].source, inbox'[j].call>> # <<inbox'[k].source, inbox'[k].call>>
  <2>1. CASE k \in heard /\ inbox'[k] = [msg EXCEPT !.from = n] /\ msg.kind = "application"
    <3>1. inbox'[k].source = msg.source /\ inbox'[k].call = msg.call /\ inbox'[k].dest = msg.dest
      BY <1>4, <2>1
    <3>2. ASSUME NEW j \in Node, j # k, Holds(j, "application")', msg.dest \in Node
          PROVE  <<inbox'[j].source, inbox'[j].call>> # <<msg.source, msg.call>>
      <4>1. j # n /\ j \notin heard
        BY <1>3, <2>1, <3>2
      <4>2. inbox'[j] = inbox[j] /\ Holds(j, "application")
        BY <1>3, <3>2, <4>1
      <4> QED  BY <1>5, <2>1, <4>1, <4>2
    <3> QED  BY <1>5, <2>1, <3>1, <3>2
  <2>2. CASE inbox'[k] = inbox[k] /\ Holds(k, "application")
    <3>1. /\ Old(inbox[k].source, inbox[k].call)
          /\ <<k, inbox[k].source, inbox[k].call>> \notin delivered
          /\ inbox[k].dest \in Node =>
               \A j \in Node : /\ <<j, inbox[k].source, inbox[k].call>> \notin delivered
                               /\ j # k /\ Holds(j, "application") =>
                                    <<inbox[j].source, inbox[j].call>> # <<inbox[k].source, inbox[k].call>>
      BY <2>2 DEF Once
    <3>2. inbox[k].source \in Node /\ inbox[k].call \in Nat
      BY <1>1, <2>2 DEF Holds, Message
    <3>3. Later(inbox[k].source, inbox[k].call)
      BY <3>1, <3>2
    <3>4. ASSUME NEW j \in Node, j # k, Holds(j, "application")', inbox[k].dest \in Node
          PROVE  <<inbox'[j].source, inbox'[j].call>> # <<inbox[k].source, inbox[k].call>>
      <4>1. CASE j \in heard /\ inbox'[j] = [msg EXCEPT !.from = n] /\ msg.kind = "application"
        BY <1>3, <1>4, <1>5, <1>6, <2>2, <4>1
      <4>2. CASE inbox'[j] = inbox[j] /\ Holds(j, "application")
        BY <3>1, <3>4, <4>2
      <4> QED  BY <1>3, <3>4, <4>1, <4>2
    <3> QED  BY <2>2, <3>1, <3>3, <3>4
  <2> QED  BY <1>3, <1>6, <2>1, <2>2
<1>7. \A this \in delivered : Later(this[2], this[3])
  BY <1>2 DEF Once
<1>8. delivered' = delivered /\ ~twice'
  BY DEF Once
<1>9. \A this \in delivered' : Old(this[2], this[3])'
  BY <1>7, <1>8 DEF Old, Later
<1>10. \A k \in Node : Holds(k, "application")' => Old(inbox[k].source, inbox[k].call)'
  BY <1>6 DEF Old, Later
<1>11. \A k \in Node : Holds(k, "application")' =>
         /\ <<k, inbox'[k].source, inbox'[k].call>> \notin delivered'
         /\ inbox'[k].dest \in Node =>
              \A j \in Node : /\ <<j, inbox'[k].source, inbox'[k].call>> \notin delivered'
                              /\ j # k /\ Holds(j, "application")' =>
                                   <<inbox'[j].source, inbox'[j].call>> # <<inbox'[k].source, inbox'[k].call>>
  BY <1>6, <1>8
<1> QED  BY <1>8, <1>9, <1>10, <1>11 DEF Once

\* All of it for a step that hands nothing over.
Orderly == /\ seeking' \in [Node -> Node \cup {Nobody}] /\ calls' \in [Node -> Nat]
           /\ \A k \in Node : calls'[k] \in 0..Calls[k]
           /\ \A s \in Node, c \in Nat : Old(s, c) => Later(s, c)
           /\ UNCHANGED <<delivered, twice>>

LEMMA StepKeeps ==
  ASSUME MeshInv, Orderly, NEW n \in Node, NEW known \in Lore, NEW msg \in Message,
         NEW heard \in SUBSET Node, Step(n, known, msg, heard), Grows(n, known),
         heard # {} => Fit(n, known, msg),
         heard # {} /\ msg.kind = "application" =>
           Fresh(n, msg) /\ (msg.dest \in Node => \E m \in Node : heard \subseteq {m})
  PROVE  MeshInv'
<1>1. Honest'
  BY StepHonest DEF MeshInv
<1>2. Once'
  BY StepOnce DEF MeshInv, Orderly
<1>3. MeshType'
  BY DEF MeshInv, MeshType, TypeOK, Orderly, Step, Table, Box
<1> QED  BY <1>1, <1>2, <1>3 DEF MeshInv

LEMMA QuietlyOrderly == ASSUME MeshType, Quietly  PROVE Orderly
BY DEF MeshType, TypeOK, Quietly, Orderly, Old, Later

\* A call is a new one, and its message is fresh.
LEMMA CallingOrderly ==
  ASSUME MeshType, NEW n \in Node, Calling(n),
         seeking' = seeking \/ \E d \in Node : seeking' = [seeking EXCEPT ![n] = d]
  PROVE  /\ Orderly /\ inbox[n] = NoMessage /\ calls'[n] \in Nat
         /\ ~Old(n, calls'[n])
         /\ seeking' = seeking => Later(n, calls'[n])
<1>1. /\ calls[n] < Calls[n] /\ calls' = [calls EXCEPT ![n] = @ + 1]
      /\ seeking[n] = Nobody /\ inbox[n] = NoMessage /\ UNCHANGED <<delivered, twice>>
  BY DEF Calling
<1>2. calls \in [Node -> Nat] /\ seeking \in [Node -> Node \cup {Nobody}] /\ Calls \in [Node -> Nat]
      /\ \A k \in Node : calls[k] \in 0..Calls[k]
  BY MeshAssumption DEF MeshType, TypeOK
<1>3. /\ calls' \in [Node -> Nat] /\ calls'[n] = calls[n] + 1
      /\ \A k \in Node \ {n} : calls'[k] = calls[k]
  BY <1>1, <1>2
<1>4. /\ seeking' \in [Node -> Node \cup {Nobody}]
      /\ \A k \in Node \ {n} : seeking'[k] = seeking[k]
  BY <1>2
<1>5. \A k \in Node : calls'[k] \in 0..Calls[k]
  BY <1>1, <1>2, <1>3
<1>6. \A s \in Node, c \in Nat : Old(s, c) => Later(s, c)
  BY <1>2, <1>3, <1>4 DEF Old, Later
<1>7. ~Old(n, calls'[n])
  BY <1>2, <1>3 DEF Old
<1>8. seeking' = seeking => Later(n, calls'[n])
  BY <1>1, <1>3 DEF Later
<1> QED  BY <1>1, <1>3, <1>4, <1>5, <1>6, <1>7, <1>8 DEF Orderly

LEMMA ApplicationType ==
  ASSUME NEW n \in Node, NEW d \in Node \cup {Everybody}, calls'[n] \in Nat
  PROVE  /\ ApplicationMessage(n, d) \in Message
         /\ ApplicationMessage(n, d).kind = "application" /\ ApplicationMessage(n, d).dest = d
         /\ ApplicationMessage(n, d).source = n /\ ApplicationMessage(n, d).call = calls'[n]
<1>1. "application" \in Kind /\ Nobody \in Node \cup {Nobody} /\ <<>> \in Seq(Node)
  BY DEF Kind
<1>2. New(n, "application", d, Nobody, <<>>) \in Message
  BY <1>1, NewType
<1> QED  BY <1>2 DEF ApplicationMessage, New, Message

LEMMA ApplicationFit ==
  ASSUME NEW n \in Node, NEW known \in Lore, NEW msg \in Message, msg.kind = "application"
  PROVE  Fit(n, known, msg)
BY FromType DEF Fit, Sound, Remembered
-----------------------------------------------------------------------------
(* One lemma for each action *)

LEMMA SendtoWaitKeeps ==
  ASSUME MeshInv, NEW n \in Node, NEW d \in Node \ {n}, SendtoWait(n, d)  PROVE MeshInv'
<1>1. /\ MeshType /\ AsIs(routes[n]) \in Lore /\ AsIs(routes[n]).table = routes[n]
      /\ Grows(n, AsIs(routes[n]))
  BY AsIsGrows DEF MeshInv
<1>2. /\ Orderly /\ calls'[n] \in Nat /\ ~Old(n, calls'[n]) /\ Later(n, calls'[n])
  BY <1>1, CallingOrderly DEF SendtoWait
<1> DEFINE msg == ApplicationMessage(n, d)
<1>3. msg \in Message /\ msg.kind = "application" /\ msg.dest = d /\ msg.source = n /\ msg.call = calls'[n]
  BY <1>2, ApplicationType
<1>4. PICK end \in Route(n, msg, routes[n], inbox) : Ends(n, AsIs(routes[n]), end)
  BY DEF SendtoWait
<1> HIDE DEF msg
<1>5. PICK m \in Node : \E heard \in SUBSET {m} : Step(n, AsIs(routes[n]), msg, heard)
  BY <1>1, <1>3, <1>4, RouteStep
<1>6. PICK heard \in SUBSET {m} : Step(n, AsIs(routes[n]), msg, heard)
  BY <1>5
<1>7. Fit(n, AsIs(routes[n]), msg) /\ Fresh(n, msg)
  BY <1>1, <1>2, <1>3, ApplicationFit DEF Fresh
<1> QED  BY <1>1, <1>2, <1>3, <1>6, <1>7, StepKeeps

LEMMA SendtoAllKeeps ==
  ASSUME MeshInv, NEW n \in Node, SendtoAll(n)  PROVE MeshInv'
<1>1. /\ MeshType /\ AsIs(routes[n]) \in Lore /\ AsIs(routes[n]).table = routes[n]
      /\ Grows(n, AsIs(routes[n]))
  BY AsIsGrows DEF MeshInv
<1>2. /\ Orderly /\ calls'[n] \in Nat /\ ~Old(n, calls'[n]) /\ Later(n, calls'[n])
  BY <1>1, CallingOrderly DEF SendtoAll
<1> DEFINE msg == ApplicationMessage(n, Everybody)
<1>3. /\ msg \in Message /\ msg.kind = "application" /\ msg.dest = Everybody /\ msg.source = n
      /\ msg.call = calls'[n] /\ Everybody \notin Node
  BY <1>2, ApplicationType, MeshAssumption
<1>4. PICK end \in Sent(routes[n], Broadcasts(n, msg, inbox)) : Ends(n, AsIs(routes[n]), end)
  BY DEF SendtoAll
<1> HIDE DEF msg
<1>5. PICK heard \in SUBSET Node : Step(n, AsIs(routes[n]), msg, heard)
  BY <1>1, <1>3, <1>4, BroadcastStep
<1>6. Fit(n, AsIs(routes[n]), msg) /\ Fresh(n, msg)
  BY <1>1, <1>2, <1>3, ApplicationFit DEF Fresh
<1> QED  BY <1>1, <1>2, <1>3, <1>5, <1>6, StepKeeps

LEMMA StartArpKeeps ==
  ASSUME MeshInv, NEW n \in Node, NEW d \in Node \ {n}, StartArp(n, d)  PROVE MeshInv'
<1>1. /\ MeshType /\ AsIs(routes[n]) \in Lore /\ AsIs(routes[n]).table = routes[n]
      /\ Grows(n, AsIs(routes[n]))
  BY AsIsGrows DEF MeshInv
<1>2. Orderly
  BY <1>1, CallingOrderly DEF StartArp
<1> DEFINE msg == New(n, "request", Everybody, d, <<>>)
<1>3. "request" \in Kind /\ Everybody \in Node \cup {Everybody} /\ d \in Node \cup {Nobody}
      /\ <<>> \in Seq(Node)
  BY DEF Kind
<1>4. msg \in Message
  BY <1>3, NewType
<1>5. /\ msg.kind = "request" /\ msg.source = n /\ msg.dest = Everybody /\ msg.path = <<>>
      /\ [msg EXCEPT !.from = n] = msg /\ msg.from = n
  BY DEF New
<1>6. PICK end \in Sent(routes[n], Broadcasts(n, msg, inbox)) : Ends(n, AsIs(routes[n]), end)
  BY DEF StartArp
<1> HIDE DEF msg
<1>7. PICK heard \in SUBSET Node : Step(n, AsIs(routes[n]), msg, heard)
  BY <1>1, <1>4, <1>6, BroadcastStep
<1>8. Fit(n, AsIs(routes[n]), msg)
  <2>1. Walk(msg) = <<n>>
    BY <1>5 DEF Walk
  <2>2. IsWalk(<<n>>) /\ Last(<<n>>) = n
    BY DEF IsWalk, Last
  <2>3. Range(<<>>) = {}
    BY DEF Range
  <2> QED  BY <1>5, <2>1, <2>2, <2>3 DEF Fit, Sound, Remembered
<1> QED  BY <1>1, <1>2, <1>4, <1>5, <1>7, <1>8, StepKeeps

LEMMA ArpResponseKeeps ==
  ASSUME MeshInv, NEW n \in Node, ArpResponse(n)  PROVE MeshInv'
<1> DEFINE msg == ApplicationMessage(n, seeking[n])
<1>1. /\ MeshType /\ Honest /\ inbox[n] # NoMessage /\ seeking[n] \in Node
      /\ seeking[n] # Nobody /\ seeking' = [seeking EXCEPT ![n] = Nobody] /\ UNCHANGED <<calls, delivered, twice>>
  BY DEF MeshInv, MeshType, TypeOK, ArpResponse, ForMe
<1>2. PICK known \in Learned(n) : \E end \in Route(n, msg, known.table, inbox) : Ends(n, known, end)
  BY DEF ArpResponse
<1>3. /\ calls \in [Node -> Nat] /\ seeking \in [Node -> Node \cup {Nobody}]
      /\ \A k \in Node : calls[k] \in 0..Calls[k]
      /\ Calls \in [Node -> Nat]
  BY <1>1, MeshAssumption DEF MeshType, TypeOK
<1>4. Orderly
  BY <1>1, <1>3 DEF Orderly, Old, Later
<1>5. ~Old(n, calls'[n]) /\ Later(n, calls'[n])
  BY <1>1, <1>3 DEF Old, Later
<1>6. /\ msg \in Message /\ msg.kind = "application" /\ msg.dest = seeking[n] /\ msg.source = n
      /\ msg.call = calls'[n]
  BY <1>1, <1>3, ApplicationType
<1>7. known \in Lore /\ Grows(n, known)
  BY <1>1, <1>2, LearnedEffect
<1> HIDE DEF msg
<1>8. PICK end \in Route(n, msg, known.table, inbox) : Ends(n, known, end)
  BY <1>2
<1>9. PICK m \in Node : \E heard \in SUBSET {m} : Step(n, known, msg, heard)
  BY <1>1, <1>6, <1>7, <1>8, RouteStep
<1>10. PICK heard \in SUBSET {m} : Step(n, known, msg, heard)
  BY <1>9
<1>11. Fit(n, known, msg) /\ Fresh(n, msg)
  BY <1>5, <1>6, <1>7, ApplicationFit DEF Fresh
<1> QED  BY <1>4, <1>6, <1>7, <1>10, <1>11, StepKeeps

\* A message like any other, where none is sent.
AnyMessage(n) == New(n, "failure", n, n, <<>>)
LEMMA AnyType == ASSUME NEW n \in Node PROVE AnyMessage(n) \in Message
<1>1. "failure" \in Kind /\ n \in Node \cup {Everybody} /\ n \in Node \cup {Nobody} /\ <<>> \in Seq(Node)
  BY DEF Kind
<1> QED  BY <1>1, NewType DEF AnyMessage

LEMMA ArpTimeoutKeeps ==
  ASSUME MeshInv, NEW n \in Node, ArpTimeout(n)  PROVE MeshInv'
<1>1. /\ MeshType /\ inbox[n] = NoMessage /\ seeking' = [seeking EXCEPT ![n] = Nobody]
      /\ UNCHANGED <<routes, inbox, calls, delivered, twice, broken>>
  BY DEF MeshInv, ArpTimeout
<1>2. /\ calls \in [Node -> Nat] /\ seeking \in [Node -> Node \cup {Nobody}]
      /\ \A k \in Node : calls[k] \in 0..Calls[k]
      /\ inbox \in Box /\ routes \in [Node -> Table] /\ broken \in BOOLEAN
  BY <1>1 DEF MeshType, TypeOK, Table
<1>3. Orderly
  BY <1>1, <1>2 DEF Orderly, Old, Later
<1>4. Step(n, AsIs(routes[n]), AnyMessage(n), {})
  BY <1>1, <1>2 DEF Step, AsIs
<1>5. Grows(n, AsIs(routes[n])) /\ AsIs(routes[n]) \in Lore
  BY <1>1, AsIsGrows
<1> QED  BY <1>3, <1>4, <1>5, AnyType, StepKeeps

LEMMA ForwardKeeps ==
  ASSUME MeshInv, NEW n \in Node, Forward(n)  PROVE MeshInv'
<1> DEFINE msg == [inbox[n] EXCEPT !.hops = @ + 1]
<1>1. /\ MeshType /\ Honest /\ inbox[n] # NoMessage /\ inbox[n] \in Message
      /\ inbox[n].dest \notin {n, Everybody} /\ inbox[n].hops < MaxHops /\ Quietly
  BY DEF MeshInv, MeshType, TypeOK, Forward
<1>2. PICK known \in Peek(n, inbox[n]) : \E end \in Route(n, msg, known.table, inbox) : Ends(n, known, end)
  BY DEF Forward
<1>3. /\ msg \in Message /\ msg.kind = inbox[n].kind /\ msg.dest = inbox[n].dest
      /\ msg.source = inbox[n].source /\ msg.call = inbox[n].call /\ msg.path = inbox[n].path
      /\ msg.dest \in Node
  <2>1. inbox[n].hops + 1 \in 0..MaxHops /\ inbox[n].dest \in Node
    BY <1>1, MeshAssumption DEF Message
  <2> QED  BY <1>1, <2>1 DEF Message
<1>4. known \in Lore /\ Grows(n, known)
  BY <1>1, <1>2, PeekEffect
<1> HIDE DEF msg
<1>5. PICK end \in Route(n, msg, known.table, inbox) : Ends(n, known, end)
  BY <1>2
<1>6. PICK m \in Node : \E heard \in SUBSET {m} : Step(n, known, msg, heard)
  BY <1>1, <1>3, <1>4, <1>5, RouteStep
<1>7. PICK heard \in SUBSET {m} : Step(n, known, msg, heard)
  BY <1>6
<1>8. Fit(n, known, msg)
  <2>1. /\ Sound(inbox[n]) /\ (inbox[n].kind = "failure" => broken)
        /\ ~broken => Remembered(inbox[n], routes)
    BY <1>1 DEF Honest
  <2>2. msg.kind # "request"
    BY <1>1, <1>3, <2>1 DEF Sound
  <2>3. Sound([msg EXCEPT !.from = n])
    BY <1>3, <2>2, FromType DEF Sound
  <2>4. ASSUME ~broken, known.kept
        PROVE  Remembered(msg, [routes EXCEPT ![n] = known.table])
    <3>1. Range(inbox[n].path) \subseteq Node
      BY <1>1 DEF Message, Range
    <3>2. routes \in [Node -> Table] /\ known.table \in Table
      BY <1>1, <1>4 DEF MeshType, TypeOK, Table, Lore
    <3>3. \A j, d \in Node : routes[j][d] # Nobody => [routes EXCEPT ![n] = known.table][j][d] # Nobody
      BY <1>4, <2>4, <3>2 DEF Grows
    <3> QED  BY <1>3, <2>1, <2>2, <2>4, <3>1, <3>3 DEF Remembered, Asked
  <2> QED  BY <1>3, <2>1, <2>3, <2>4 DEF Fit
<1>9. msg.kind = "application" => Fresh(n, msg)
  BY <1>1, <1>3 DEF Fresh, Holds
<1> QED  BY <1>1, <1>3, <1>4, <1>7, <1>8, <1>9, QuietlyOrderly, StepKeeps

LEMMA DropKeeps ==
  ASSUME MeshInv, NEW n \in Node, Drop(n)  PROVE MeshInv'
<1>1. MeshType /\ Honest /\ inbox[n] # NoMessage /\ Quietly
  BY DEF MeshInv, Drop
<1>2. PICK known \in Peek(n, inbox[n]) : \E end \in Sent(known.table, {inbox}) : Ends(n, known, end)
  BY DEF Drop
<1>3. known \in Lore /\ Grows(n, known)
  BY <1>1, <1>2, PeekEffect
<1>4. Step(n, known, AnyMessage(n), {})
  BY <1>1, <1>2, <1>3, AnyType, SilentStep
<1> QED  BY <1>1, <1>3, <1>4, AnyType, QuietlyOrderly, StepKeeps

\* The message handed over had not been, and is nowhere else if it was for n only.
LEMMA RecvApplicationKeeps ==
  ASSUME MeshInv, NEW n \in Node, RecvApplication(n)  PROVE MeshInv'
<1> DEFINE this == <<n, inbox[n].source, inbox[n].call>>
<1>1. /\ MeshType /\ Honest /\ Once /\ Holds(n, "application")
      /\ inbox[n] \in Message
      /\ delivered' = delivered \cup {this} /\ twice' = (twice \/ this \in delivered)
      /\ UNCHANGED <<seeking, calls>>
  BY DEF MeshInv, MeshType, TypeOK, Table, RecvApplication, ForMe, Holds
<1>2. /\ AsIs(routes[n]) \in Lore /\ AsIs(routes[n]).table = routes[n]
      /\ Grows(n, AsIs(routes[n]))
  BY <1>1, AsIsGrows
<1>3. Step(n, AsIs(routes[n]), AnyMessage(n), {})
  <2>1. PICK end \in Sent(routes[n], {inbox}) : Ends(n, AsIs(routes[n]), end)
    BY DEF RecvApplication
  <2> QED  BY <1>1, <1>2, <2>1, AnyType, SilentStep
<1>4. Honest'
  BY <1>1, <1>3, <1>2, AnyType, StepHonest
<1>5. this \in Node \X Node \X Nat /\ this \notin delivered /\ twice' = FALSE
  BY <1>1 DEF Once, Message
<1>6. MeshType'
  BY <1>1, <1>3, <1>5 DEF MeshType, TypeOK, Step, Table, Box
<1>7. Old(this[2], this[3])
  BY <1>1 DEF Once
<1>8. \A that \in delivered' : Old(that[2], that[3])'
  <2>1. \A that \in delivered' : Old(that[2], that[3])
    BY <1>1, <1>7 DEF Once
  <2> QED  BY <1>1, <2>1 DEF Old
<1>9. ASSUME NEW k \in Node, Holds(k, "application")'
      PROVE  k # n /\ inbox'[k] = inbox[k] /\ Holds(k, "application")
  BY <1>3, <1>9 DEF Step, Holds, Failure
<1> HIDE DEF this
<1>10. ASSUME NEW k \in Node, Holds(k, "application")'
       PROVE  /\ Old(inbox[k].source, inbox[k].call)'
              /\ <<k, inbox'[k].source, inbox'[k].call>> \notin delivered'
  <2>1. k # n /\ inbox'[k] = inbox[k] /\ Holds(k, "application")
    BY <1>9, <1>10
  <2>2. Old(inbox[k].source, inbox[k].call) /\ <<k, inbox[k].source, inbox[k].call>> \notin delivered
    BY <1>1, <2>1 DEF Once
  <2> QED  BY <1>1, <2>1, <2>2 DEF Old, this
<1>11. ASSUME NEW k \in Node, Holds(k, "application")', inbox'[k].dest \in Node, NEW j \in Node
       PROVE  /\ <<j, inbox'[k].source, inbox'[k].call>> \notin delivered'
              /\ j # k /\ Holds(j, "application")' =>
                   <<inbox'[j].source, inbox'[j].call>> # <<inbox'[k].source, inbox'[k].call>>
  <2>1. k # n /\ inbox'[k] = inbox[k] /\ Holds(k, "application")
    BY <1>9, <1>11
  <2>2. /\ <<j, inbox[k].source, inbox[k].call>> \notin delivered
        /\ j # k /\ Holds(j, "application") =>
             <<inbox[j].source, inbox[j].call>> # <<inbox[k].source, inbox[k].call>>
        /\ <<inbox[n].source, inbox[n].call>> # <<inbox[k].source, inbox[k].call>>
    BY <1>1, <1>11, <2>1 DEF Once
  <2>3. <<j, inbox[k].source, inbox[k].call>> # this
    BY <2>2 DEF this
  <2>4. Holds(j, "application")' => inbox'[j] = inbox[j] /\ Holds(j, "application")
    BY <1>9
  <2> QED  BY <1>1, <2>1, <2>2, <2>3, <2>4
<1>12. \A k \in Node : Holds(k, "application")' =>
         /\ <<k, inbox'[k].source, inbox'[k].call>> \notin delivered'
         /\ inbox'[k].dest \in Node =>
              \A j \in Node : /\ <<j, inbox'[k].source, inbox'[k].call>> \notin delivered'
                              /\ j # k /\ Holds(j, "application")' =>
                                   <<inbox'[j].source, inbox'[j].call>> # <<inbox'[k].source, inbox'[k].call>>
  BY <1>10, <1>11
<1>13. Once'
  BY <1>5, <1>8, <1>10, <1>12 DEF Once
<1> QED  BY <1>4, <1>6, <1>13 DEF MeshInv

\* The table of a node that a request has reached leads back to its source.
LEMMA BackTablesEffect ==
  ASSUME MeshInv, NEW n \in Node, NewRequest(n), NEW known \in BackTables(n)
  PROVE  /\ inbox[n] \in Message /\ inbox[n] # NoMessage /\ inbox[n].kind = "request"
         /\ known \in Lore /\ Grows(n, known)
         /\ n # inbox[n].source /\ n \notin Range(inbox[n].path)
         /\ ~broken => Remembered(inbox[n], [routes EXCEPT ![n] = known.table])
         /\ known.kept => known.table[inbox[n].source] # Nobody
<1>1. /\ MeshType /\ Honest /\ inbox[n] # NoMessage /\ inbox[n].kind = "request"
      /\ inbox[n] \in Message /\ n # inbox[n].source /\ n \notin Range(inbox[n].path)
  BY DEF MeshInv, MeshType, TypeOK, NewRequest, ForMe, Known
<1>2. inbox[n].from \in Node /\ inbox[n].source \in Node /\ inbox[n].from # Nobody
  BY <1>1, MeshAssumption DEF Message
<1>3. /\ known \in Lore /\ Grows(n, known)
      /\ known.kept => known.table[inbox[n].source] = inbox[n].from
  <2> DEFINE S == {inbox[n].source} \cup Range(inbox[n].path)
             from == inbox[n].from
             source == inbox[n].source
  <2>1. from \in Node /\ known \in AddRoutes(routes[n], S, from) /\ source \in Node \cap S
    BY <1>2 DEF BackTables
  <2> HIDE DEF S, from, source
  <2>2. known \in Lore /\ Grows(n, known)
    BY <1>1, <2>1, AddRoutesGrow
  <2>3. known.kept => known.table[source] = from
    <3>1. routes[n] \in Table /\ source \in Dest
      BY <1>1, <2>1 DEF MeshType, TypeOK, Table, Dest
    <3>2. known.kept => known.table = [d \in Dest |-> IF d \in S THEN from ELSE routes[n][d]]
      BY <2>1, <3>1, AddRoutesType
    <3> QED  BY <2>1, <3>1, <3>2
  <2> QED  BY <2>2, <2>3 DEF source, from
<1>4. ~broken => Remembered(inbox[n], routes)
  BY <1>1 DEF Honest
<1>5. \A j \in Range(inbox[n].path) : [routes EXCEPT ![n] = known.table][j] = routes[j]
  BY <1>1 DEF MeshType, TypeOK, Message, Range
<1> QED  BY <1>1, <1>2, <1>3, <1>4, <1>5 DEF Remembered

LEMMA AnswerRequestKeeps ==
  ASSUME MeshInv, NEW n \in Node, AnswerRequest(n)  PROVE MeshInv'
<1> DEFINE msg == New(n, "response", inbox[n].source, n, inbox[n].path)
<1>1. MeshType /\ Quietly /\ NewRequest(n)
  BY DEF MeshInv, AnswerRequest
<1>2. PICK known \in BackTables(n) : \E end \in Route(n, msg, known.table, inbox) : Ends(n, known, end)
  BY DEF AnswerRequest
<1>3. /\ inbox[n] \in Message /\ inbox[n].kind = "request"
      /\ known \in Lore /\ Grows(n, known)
      /\ ~broken => Remembered(inbox[n], [routes EXCEPT ![n] = known.table])
  BY <1>1, <1>2, BackTablesEffect
<1>4. /\ "response" \in Kind /\ inbox[n].source \in Node /\ inbox[n].path \in Seq(Node)
      /\ inbox[n].source \in Node \cup {Everybody} /\ n \in Node \cup {Nobody}
  BY <1>3 DEF Kind, Message
<1>5. /\ msg \in Message /\ msg.kind = "response" /\ msg.dest = inbox[n].source
      /\ msg.path = inbox[n].path
  BY <1>4, NewType DEF New
<1> HIDE DEF msg
<1>6. PICK m \in Node : \E heard \in SUBSET {m} : Step(n, known, msg, heard)
  BY <1>1, <1>2, <1>3, <1>4, <1>5, RouteStep
<1>7. PICK heard \in SUBSET {m} : Step(n, known, msg, heard)
  BY <1>6
<1>8. Fit(n, known, msg)
  BY <1>3, <1>4, <1>5, FromType DEF Fit, Sound, Remembered, Asked
<1> QED  BY <1>1, <1>3, <1>5, <1>7, <1>8, QuietlyOrderly, StepKeeps

\* A node that is not on the walk of a request and hears it makes it longer.
LEMMA WalkOn ==
  ASSUME NEW source \in Node, NEW path \in Seq(Node), NEW n \in Node, n # source,
         n \notin Range(path), IsWalk(<<source>> \o path), n \in Link[Last(<<source>> \o path)]
  PROVE  /\ IsWalk(<<source>> \o Append(path, n))
         /\ Last(<<source>> \o Append(path, n)) = n
<1> DEFINE walk == <<source>> \o path
           on   == <<source>> \o Append(path, n)
<1>1. /\ walk \in Seq(Node) /\ on \in Seq(Node) /\ Len(walk) = Len(path) + 1
      /\ Len(on) = Len(walk) + 1 /\ on[Len(on)] = n
      /\ \A i \in 1..Len(walk) : on[i] = walk[i]
  OBVIOUS
<1>2. \A i \in 1..Len(walk) : walk[i] # n
  <2>1. \A i \in 1..Len(walk) : walk[i] = IF i = 1 THEN source ELSE path[i - 1]
    OBVIOUS
  <2>2. \A i \in 1..Len(path) : path[i] # n
    BY DEF Range
  <2> QED  BY <1>1, <2>1, <2>2
<1>3. n \in Link[walk[Len(walk)]]
  BY DEF Last
<1>4. /\ \A i, j \in 1..Len(walk) : i # j => walk[i] # walk[j]
      /\ \A i \in 2..Len(walk) : walk[i] \in Link[walk[i - 1]]
  <2>1. DOMAIN walk = 1..Len(walk) /\ IsWalk(walk)
    BY <1>1
  <2> HIDE DEF walk
  <2> QED  BY <2>1 DEF IsWalk
<1> HIDE DEF walk, on
<1>5. \A i, j \in DOMAIN on : i # j => on[i] # on[j]
  BY <1>1, <1>2, <1>4
<1>6. ASSUME NEW i \in 2..Len(on)
      PROVE  on[i] \in Link[on[i - 1]]
  <2>1. i - 1 \in 1..Len(walk) /\ on[i - 1] = walk[i - 1]
    BY <1>1
  <2>2. CASE i = Len(on)
    BY <1>1, <1>3, <2>1, <2>2
  <2>3. CASE i # Len(on)
    <3>1. i \in 2..Len(walk) /\ on[i] = walk[i]
      BY <1>1, <2>3
    <3> QED  BY <1>4, <2>1, <3>1
  <2> QED  BY <2>2, <2>3
<1> QED  BY <1>1, <1>5, <1>6 DEF IsWalk, Last, on

LEMMA PassRequestKeeps ==
  ASSUME MeshInv, NEW n \in Node, PassRequest(n)  PROVE MeshInv'
<1> DEFINE path == Append(inbox[n].path, n)
           made == New(inbox[n].source, "request", Everybody, inbox[n].about, path)
           msg  == [made EXCEPT !.from = n]
<1>1. MeshType /\ Quietly /\ NewRequest(n) /\ Honest
  BY DEF MeshInv, PassRequest
<1>2. PICK known \in BackTables(n) :
        \E end \in Sent(known.table, IF Len(inbox[n].path) < MaxHops THEN Broadcasts(n, msg, inbox)
                                                                    ELSE {inbox}) : Ends(n, known, end)
  BY DEF PassRequest
<1>3. /\ inbox[n] \in Message /\ inbox[n].kind = "request" /\ inbox[n] # NoMessage
      /\ known \in Lore /\ Grows(n, known)
      /\ n # inbox[n].source /\ n \notin Range(inbox[n].path)
      /\ ~broken => Remembered(inbox[n], [routes EXCEPT ![n] = known.table])
      /\ known.kept => known.table[inbox[n].source] # Nobody
  BY <1>1, <1>2, BackTablesEffect
<1>4. /\ "request" \in Kind /\ inbox[n].source \in Node /\ inbox[n].path \in Seq(Node)
      /\ Everybody \in Node \cup {Everybody} /\ inbox[n].about \in Node \cup {Nobody}
      /\ path \in Seq(Node)
  BY <1>3 DEF Kind, Message
<1>5. made \in Message
  BY <1>4, NewType
<1>6. /\ msg \in Message /\ msg.kind = "request" /\ msg.dest = Everybody /\ msg.path = path
      /\ msg.source = inbox[n].source /\ [msg EXCEPT !.from = n] = msg /\ msg.from = n
  BY <1>5, FromType DEF New
<1> HIDE DEF msg, made
<1>7. Fit(n, known, msg)
  <2>1. /\ IsWalk(Walk(inbox[n])) /\ inbox[n].from = Last(Walk(inbox[n]))
        /\ n \in Link[inbox[n].from]
    BY <1>1, <1>3 DEF Honest, Sound
  <2>2. IsWalk(Walk(msg)) /\ msg.from = Last(Walk(msg))
    BY <1>3, <1>4, <1>6, <2>1, WalkOn DEF Walk
  <2>3. Range(path) \subseteq Range(inbox[n].path) \cup {n}
    BY <1>4 DEF Range
  <2>4. routes \in [Node -> Table] /\ known.table \in Table
    BY <1>1, <1>3 DEF MeshType, TypeOK, Table, Lore
  <2>5. ~broken /\ known.kept => Remembered(msg, [routes EXCEPT ![n] = known.table])
    BY <1>3, <1>6, <2>3, <2>4 DEF Remembered, Asked
  <2> QED  BY <1>6, <2>2, <2>5 DEF Fit, Sound
<1>8. \E heard \in SUBSET Node : Step(n, known, msg, heard)
  BY <1>1, <1>2, <1>3, <1>6, BroadcastStep, SilentStep
<1> QED  BY <1>1, <1>3, <1>6, <1>7, <1>8, QuietlyOrderly, StepKeeps
-----------------------------------------------------------------------------
(* The theorems *)

LEMMA InitMesh == Init => MeshInv
<1> SUFFICES ASSUME Init  PROVE MeshInv
  OBVIOUS
<1>1. MeshType
  <2>1. \A n \in Node : calls[n] = 0 /\ Calls[n] \in Nat
    BY MeshAssumption DEF Init
  <2>2. /\ routes \in [Node -> [Dest -> Node \cup {Nobody}]] /\ seeking \in [Node -> Node \cup {Nobody}]
        /\ inbox \in Box /\ calls \in [Node -> Nat] /\ \A n \in Node : inbox[n] = NoMessage
    BY DEF Init, Box
  <2>3. \A n \in Node : calls[n] \in 0..Calls[n]
    BY <2>1
  <2>4. delivered \subseteq Node \X Node \X Nat /\ twice \in BOOLEAN /\ broken \in BOOLEAN
    BY DEF Init
  <2> QED  BY <2>2, <2>3, <2>4 DEF MeshType, TypeOK
<1>2. \A k \in Node : inbox[k] = NoMessage
  BY DEF Init
<1>3. Honest /\ Once
  BY <1>2 DEF Init, Honest, Once, Holds
<1> QED  BY <1>1, <1>3 DEF MeshInv

LEMMA NextMesh == MeshInv /\ [Next]_vars => MeshInv'
<1> SUFFICES ASSUME MeshInv, [Next]_vars  PROVE MeshInv'
  OBVIOUS
<1>1. ASSUME NEW n \in Node, RecvfromAck(n)  PROVE MeshInv'
  BY <1>1, ArpResponseKeeps, ForwardKeeps, DropKeeps, RecvApplicationKeeps, AnswerRequestKeeps,
     PassRequestKeeps DEF RecvfromAck
<1>2. ASSUME NEW n \in Node, ArpTimeout(n) \/ SendtoAll(n)  PROVE MeshInv'
  BY <1>2, ArpTimeoutKeeps, SendtoAllKeeps
<1>3. ASSUME NEW n \in Node, NEW d \in Node \ {n}, SendtoWait(n, d) \/ StartArp(n, d)  PROVE MeshInv'
  BY <1>3, SendtoWaitKeeps, StartArpKeeps
<1>4. CASE UNCHANGED vars
  BY <1>4 DEF vars, MeshInv, MeshType, TypeOK, Honest, Once, Holds, Old, Remembered
<1> QED  BY <1>1, <1>2, <1>3, <1>4 DEF Next

THEOREM MeshInvariant == Spec => []MeshInv
BY InitMesh, NextMesh, PTL DEF Spec

\* Tables name nodes, and what is in an inbox is a message within the hop limit.
THEOREM MeshTypes == Spec => []TypeOK
<1>1. MeshInv => TypeOK
  BY DEF MeshInv, MeshType
<1> QED  BY <1>1, MeshInvariant, PTL

\* doArp and the requests passed on: whatever is lost, whoever else discovers,
\* a request carries the way it came, which passes no node twice.
THEOREM RequestsWalk == Spec => []PathsAreWalks
<1>1. MeshInv => PathsAreWalks
  <2> SUFFICES ASSUME MeshInv, NEW msg \in InFlight({"request", "response"}), msg.kind = "request"
               PROVE  IsWalk(Walk(msg)) /\ msg.from = Last(Walk(msg))
    BY DEF PathsAreWalks, IsWalk, Walk
  <2>1. PICK k \in Node : inbox[k] # NoMessage /\ msg = inbox[k]
    BY DEF InFlight
  <2> QED  BY <2>1 DEF MeshInv, Honest, Sound
<1> QED  BY <1>1, MeshInvariant, PTL

\* The tables that requests leave behind them lead back, until a hop fails.
THEOREM RepliesFindAWay == Spec => []RouteBackKnown
<1>1. MeshInv => RouteBackKnown
  <2> SUFFICES ASSUME MeshInv, ~broken, NEW k \in Node, inbox[k] # NoMessage,
                      inbox[k].kind \in {"request", "response"},
                      NEW n \in Range(inbox[k].path)
               PROVE  routes[n][IF inbox[k].kind = "request" THEN inbox[k].source ELSE inbox[k].dest] # Nobody
    BY DEF RouteBackKnown, InFlight
  <2> QED  BY DEF MeshInv, Honest, Remembered, Asked
<1> QED  BY <1>1, MeshInvariant, PTL

\* RHRouter::recvfromAck and RHMesh::recvfromAck: with hops repeated, routes in
\* circles and failures reported, no node hands over a message twice.
THEOREM HandedOverOnce == Spec => []AtMostOnce
<1>1. MeshInv => AtMostOnce
  BY DEF MeshInv, Once, AtMostOnce
<1> QED  BY <1>1, MeshInvariant, PTL
=============================================================================
