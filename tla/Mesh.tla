-------------------------------- MODULE Mesh --------------------------------
(***************************************************************************)
(* RHMesh over RHRouter: discovery of routes, forwarding, and the news of  *)
(* a hop that failed. Two modules stand below it: ReliableDelivery for one *)
(* hop, which is delivered when it is acknowledged and may be when it is   *)
(* not, and RouteMap for the routing table, which makes room when it is    *)
(* full.                                                                   *)
(*                                                                         *)
(* A node takes one message at a time: a message in its inbox is the one   *)
(* that recvfromAck has acknowledged, or a broadcast that its driver holds.*)
(* What a node does between two polls, including the hops it then waits    *)
(* for, touches its own table and other nodes' inboxes only, and is one    *)
(* action. While it is at it, nobody can hand it another message.          *)
(***************************************************************************)
EXTENDS Integers, FiniteSets, Sequences, SequencesExt

CONSTANTS Node,      \* addresses
          Link,      \* Link[n]: the nodes that hear n
          Nobody,    \* no node: no route, no discovery
          Everybody, \* RH_BROADCAST_ADDRESS
          NoMessage, \* an empty inbox
          MaxHops,   \* _max_hops
          TableSize, \* RH_ROUTING_TABLE_SIZE
          Stale,     \* addresses that may lie behind a message in the buffer
          Calls      \* bound: Calls[n] is how often n calls sendtoWait

ASSUME MeshAssumption == /\ Link \in [Node -> SUBSET Node]
                         /\ \A n \in Node : n \notin Link[n]
                         /\ {Nobody, Everybody} \cap Node = {} /\ Nobody # Everybody
                         /\ Stale \subseteq Node \cup {Nobody} /\ Stale # {}
                         /\ TableSize \in Nat \ {0} /\ MaxHops \in Nat /\ Calls \in [Node -> Nat]

VARIABLES routes,    \* routes[n][d]: the next hop of n towards d
          inbox,     \* the message a node is to process
          seeking,   \* what doArp discovers, while it runs
          calls,     \* calls of sendtoWait
          delivered, \* history: <<receiver, source, call>> of application messages
          twice,     \* history: one was delivered again
          broken     \* history: a hop was given up, a route was missing or made room

vars == <<routes, inbox, seeking, calls, delivered, twice, broken>>

Kind == {"application", "request", "response", "failure"}

\* A RoutedMessage with the header of its hop. about: whose route is sought or
\* failed; path: the nodes a request has passed; call tells messages apart.
Message == [kind : Kind, from : Node, source : Node, dest : Node \cup {Everybody},
            hops : 0..MaxHops, about : Node \cup {Nobody}, path : Seq(Node), call : Nat]

\* What a table may hold a route to: address 0, read behind a message, is one.
Dest == Node \cup Stale

TypeOK == /\ routes \in [Node -> [Dest -> Node \cup {Nobody}]]
          /\ \A n \in Node : inbox[n] # NoMessage => inbox[n] \in Message
          /\ seeking \in [Node -> Node \cup {Nobody}]
          /\ \A n \in Node : calls[n] \in 0..Calls[n]
          /\ delivered \subseteq Node \X Node \X Nat
          /\ twice \in BOOLEAN /\ broken \in BOOLEAN

Init == /\ routes = [n \in Node |-> [d \in Dest |-> Nobody]]
        /\ inbox = [n \in Node |-> NoMessage]
        /\ seeking = [n \in Node |-> Nobody]
        /\ calls = [n \in Node |-> 0]
        /\ delivered = {} /\ twice = FALSE /\ broken = FALSE

\* A message that n originates.
New(n, kind, dest, about, path) ==
  [kind |-> kind, from |-> n, source |-> n, dest |-> dest, hops |-> 0,
   about |-> about, path |-> path, call |-> 0]
-----------------------------------------------------------------------------
\* A table with what became of it: kept is FALSE when routes had to make room.
AsIs(table) == [table |-> table, kept |-> TRUE]

\* addRouteTo each of nodes. What is too much goes, in an order that depends on
\* the ages of the routes; the one added last stays.
AddRoutes(table, nodes, next) ==
  LET wide == [d \in Dest |-> IF d \in nodes THEN next ELSE table[d]]
      rows == {d \in Dest : wide[d] # Nobody}
  IN  IF Cardinality(rows) <= TableSize
        THEN {AsIs(wide)}
        ELSE {[table |-> [d \in Dest |-> IF d \in stay THEN wide[d] ELSE Nobody], kept |-> FALSE] :
                stay \in {s \in kSubset(TableSize, rows) : s \cap nodes # {}}}

\* The ends of RHReliableDatagram::sendtoWait from n to m, given the inboxes.
Hop(n, m, msg, box) ==
  LET put == [box EXCEPT ![m] = [msg EXCEPT !.from = n]]
  IN  {[ok |-> FALSE, box |-> box]} \cup
      {[ok |-> o, box |-> put] : o \in IF m \in Link[n] /\ box[m] = NoMessage THEN BOOLEAN ELSE {}}

\* A broadcast is heard by any of the neighbours that have nothing to process.
Broadcasts(n, msg, box) ==
  {[m \in Node |-> IF m \in hears THEN [msg EXCEPT !.from = n] ELSE box[m]] :
     hears \in SUBSET {m \in Link[n] : box[m] = NoMessage}}

\* A failed route is deleted, and a message from elsewhere is answered with the
\* news, by way of the node it came from.
RouteFailed(n, msg, table, box) ==
  LET without == [table EXCEPT ![msg.dest] = Nobody]
  IN  IF msg.source = n
        THEN {[table |-> without, box |-> box, ok |-> FALSE]}
        ELSE UNION {{[table |-> IF r.ok THEN back.table ELSE [back.table EXCEPT ![msg.source] = Nobody],
                      box |-> r.box, ok |-> FALSE] : back \in AddRoutes(without, {msg.source}, msg.from)} :
                       r \in Hop(n, msg.from, New(n, "failure", msg.source, msg.dest, <<>>), box)}

\* route: the ends of sending msg on, given the table of n and the inboxes.
Route(n, msg, table, box) ==
  IF table[msg.dest] = Nobody
    THEN RouteFailed(n, msg, table, box)
    ELSE UNION {IF r.ok THEN {[table |-> table, box |-> r.box, ok |-> TRUE]}
                        ELSE RouteFailed(n, msg, table, r.box) :
                  r \in Hop(n, table[msg.dest], msg, box)}

\* peekAtMessage: the tables it may leave. A node on the path of a response
\* learns of the nodes after the next one, and of whatever address the buffer
\* holds behind the path.
Scraped(n, msg) ==
  LET me   == IF n \in Range(msg.path) THEN CHOOSE k \in DOMAIN msg.path : msg.path[k] = n
                                       ELSE Len(msg.path)
      past == {msg.path[k] : k \in me + 2..Len(msg.path)}
  IN  IF me = Len(msg.path) THEN {past} ELSE {past \cup {stale} : stale \in Stale}
Peek(n, msg) ==
  CASE msg.kind = "response" ->
         UNION {AddRoutes(routes[n], s \cup {msg.about}, msg.from) : s \in Scraped(n, msg)}
    [] msg.kind = "failure"  -> {AsIs([routes[n] EXCEPT ![msg.about] = Nobody])}
    [] OTHER                 -> {AsIs(routes[n])}

\* What n does with its message: end is one of the ends of a send, with a table
\* that came about as known says.
Ends(n, known, end) == /\ routes' = [routes EXCEPT ![n] = end.table]
                       /\ inbox' = [end.box EXCEPT ![n] = NoMessage]
                       /\ broken' = (broken \/ ~end.ok \/ ~known.kept)
Sent(table, boxes) == {[table |-> table, box |-> b, ok |-> TRUE] : b \in boxes}
-----------------------------------------------------------------------------
ApplicationMessage(n, d) == [New(n, "application", d, Nobody, <<>>) EXCEPT !.call = calls'[n]]

\* sendtoWait, when no message is being processed: with a route the message goes
\* out, without one a discovery begins, which doArp waits for.
Calling(n) == /\ seeking[n] = Nobody /\ inbox[n] = NoMessage
              /\ calls[n] < Calls[n]
              /\ calls' = [calls EXCEPT ![n] = @ + 1]
              /\ UNCHANGED <<delivered, twice>>

SendtoWait(n, d) ==
  /\ Calling(n) /\ routes[n][d] # Nobody
  /\ \E end \in Route(n, ApplicationMessage(n, d), routes[n], inbox) : Ends(n, AsIs(routes[n]), end)
  /\ UNCHANGED seeking

SendtoAll(n) ==
  /\ Calling(n)
  /\ \E end \in Sent(routes[n], Broadcasts(n, ApplicationMessage(n, Everybody), inbox)) :
       Ends(n, AsIs(routes[n]), end)
  /\ UNCHANGED seeking

StartArp(n, d) ==
  /\ Calling(n) /\ routes[n][d] = Nobody
  /\ \E end \in Sent(routes[n], Broadcasts(n, New(n, "request", Everybody, d, <<>>), inbox)) :
       Ends(n, AsIs(routes[n]), end)
  /\ seeking' = [seeking EXCEPT ![n] = d]

\* A message for this node, or not: the first half of RHRouter::recvfromAck.
ForMe(n, kind) == /\ inbox[n] # NoMessage /\ inbox[n].dest \in {n, Everybody}
                  /\ inbox[n].kind = kind
Quietly == UNCHANGED <<seeking, calls, delivered, twice>>

\* What doArp knows then: what peekAtMessage has added, and its own.
Learned(n) ==
  UNION {{[a EXCEPT !.kept = @ /\ known.kept] :
             a \in AddRoutes(known.table, {seeking[n]}, inbox[n].from)} : known \in Peek(n, inbox[n])}

\* doArp takes the first response that comes, whatever it is about, and the
\* message goes out.
ArpResponse(n) ==
  /\ seeking[n] # Nobody /\ ForMe(n, "response")
  /\ UNCHANGED <<calls, delivered, twice>>
  /\ \E known \in Learned(n) :
       \E end \in Route(n, ApplicationMessage(n, seeking[n]), known.table, inbox) : Ends(n, known, end)
  /\ seeking' = [seeking EXCEPT ![n] = Nobody]

ArpTimeout(n) == /\ seeking[n] # Nobody /\ inbox[n] = NoMessage
                 /\ seeking' = [seeking EXCEPT ![n] = Nobody]
                 /\ UNCHANGED <<routes, inbox, calls, delivered, twice, broken>>

\* Fault: the hop is not counted.
ForwardUncounted(n) ==
  /\ inbox[n] # NoMessage /\ inbox[n].dest \notin {n, Everybody}
  /\ inbox[n].hops < MaxHops
  /\ \E known \in Peek(n, inbox[n]) :
       \E end \in Route(n, inbox[n], known.table, inbox) : Ends(n, known, end)
  /\ Quietly

\* Fault: one hop too many.
ForwardOnceMore(n) ==
  /\ inbox[n] # NoMessage /\ inbox[n].dest \notin {n, Everybody}
  /\ inbox[n].hops <= MaxHops
  /\ \E known \in Peek(n, inbox[n]) :
       \E end \in Route(n, [inbox[n] EXCEPT !.hops = @ + 1], known.table, inbox) : Ends(n, known, end)
  /\ Quietly

\* A message for another node is sent on, whatever n is waiting for.
Forward(n) ==
  /\ inbox[n] # NoMessage /\ inbox[n].dest \notin {n, Everybody}
  /\ inbox[n].hops < MaxHops
  /\ \E known \in Peek(n, inbox[n]) :
       \E end \in Route(n, [inbox[n] EXCEPT !.hops = @ + 1], known.table, inbox) : Ends(n, known, end)
  /\ Quietly

\* Fault: only the path is searched.
KnownOnPath(n) == n \in Range(inbox[n].path)

\* A request of this node, or one that it has passed on before.
Known(n) == inbox[n].source = n \/ n \in Range(inbox[n].path)

\* Messages that end here: out of hops, or nothing that is waited for. An
\* application message or a request that meets a discovery is among them.
Drop(n) ==
  /\ inbox[n] # NoMessage
  /\ \/ inbox[n].dest \notin {n, Everybody} /\ inbox[n].hops = MaxHops
     \/ ForMe(n, "failure")
     \/ ForMe(n, "response") /\ seeking[n] = Nobody
     \/ ForMe(n, "application") /\ seeking[n] # Nobody
     \/ ForMe(n, "request") /\ (seeking[n] # Nobody \/ Known(n))
  /\ \E known \in Peek(n, inbox[n]) : \E end \in Sent(known.table, {inbox}) : Ends(n, known, end)
  /\ Quietly

\* Fault: a broadcast is broadcast again.
RecvApplicationOn(n) ==
  LET this == <<n, inbox[n].source, inbox[n].call>>
  IN  /\ seeking[n] = Nobody /\ ForMe(n, "application")
      /\ delivered' = delivered \cup {this} /\ twice' = (twice \/ this \in delivered)
      /\ \E end \in Sent(routes[n], IF inbox[n].dest = Everybody THEN Broadcasts(n, inbox[n], inbox)
                                                                ELSE {inbox}) : Ends(n, AsIs(routes[n]), end)
      /\ UNCHANGED <<seeking, calls>>

RecvApplication(n) ==
  LET this == <<n, inbox[n].source, inbox[n].call>>
  IN  /\ seeking[n] = Nobody /\ ForMe(n, "application")
      /\ delivered' = delivered \cup {this} /\ twice' = (twice \/ this \in delivered)
      /\ \E end \in Sent(routes[n], {inbox}) : Ends(n, AsIs(routes[n]), end)
      /\ UNCHANGED <<seeking, calls>>

\* Fault: only the nodes already on the path are learned.
BackTablesPathOnly(n) == AddRoutes(routes[n], Range(inbox[n].path), inbox[n].from)

\* Routes back to the originator and to the nodes on the path.
BackTables(n) == AddRoutes(routes[n], {inbox[n].source} \cup Range(inbox[n].path), inbox[n].from)

\* A request that has not been here.
NewRequest(n) == seeking[n] = Nobody /\ ForMe(n, "request") /\ ~Known(n)

AnswerRequest(n) ==
  /\ NewRequest(n) /\ inbox[n].about = n
  /\ \E known \in BackTables(n) :
       \E end \in Route(n, New(n, "response", inbox[n].source, n, inbox[n].path), known.table, inbox) :
         Ends(n, known, end)
  /\ Quietly

\* Passed on in the name of its source, while its path is short enough.
PassRequest(n) ==
  /\ NewRequest(n) /\ inbox[n].about # n
  /\ LET onward == [New(inbox[n].source, "request", Everybody, inbox[n].about, Append(inbox[n].path, n))
                      EXCEPT !.from = n]
         boxes  == IF Len(inbox[n].path) < MaxHops THEN Broadcasts(n, onward, inbox) ELSE {inbox}
     IN \E known \in BackTables(n) : \E end \in Sent(known.table, boxes) : Ends(n, known, end)
  /\ Quietly

RecvfromAck(n) == \/ ArpResponse(n) \/ Forward(n) \/ Drop(n) \/ RecvApplication(n)
                  \/ AnswerRequest(n) \/ PassRequest(n)

Next == \E n \in Node : \/ RecvfromAck(n) \/ ArpTimeout(n) \/ SendtoAll(n)
                        \/ \E d \in Node \ {n} : SendtoWait(n, d) \/ StartArp(n, d)

Spec == Init /\ [][Next]_vars

\* Every node polls, and a discovery ends after four seconds.
FairSpec == Spec /\ \A n \in Node : WF_vars(RecvfromAck(n) \/ ArpTimeout(n))
-----------------------------------------------------------------------------
InFlight(kinds) == {inbox[n] : n \in {m \in Node : inbox[m] # NoMessage /\ inbox[m].kind \in kinds}}

\* The path a request carries is one that it took: from the source along links,
\* through no node twice, to the node it was heard from; a response keeps it.
PathsAreWalks ==
  \A msg \in InFlight({"request", "response"}) :
    LET walk == <<msg.source>> \o msg.path
    IN  msg.kind = "request" =>
          /\ \A i, j \in DOMAIN walk : i # j => walk[i] # walk[j]
          /\ \A i \in 2..Len(walk) : walk[i] \in Link[walk[i - 1]]
          /\ msg.from = Last(walk)

\* Until a hop fails or a route makes room, every node a request has passed knows
\* a next hop to the one who asked; so do those a response is to pass.
RouteBackKnown ==
  ~broken => \A msg \in InFlight({"request", "response"}) :
               LET asked == IF msg.kind = "request" THEN msg.source ELSE msg.dest
               IN  \A n \in Range(msg.path) : routes[n][asked] # Nobody

\* Hops are repeated when an acknowledgement is lost, routes change and run in
\* circles: no application message is handed over twice by a node.
AtMostOnce == ~twice

\* However wrong the routes are, the nodes fall silent when nobody calls.
Silent == \A n \in Node : inbox[n] = NoMessage /\ seeking[n] = Nobody
FallsSilent == <>[]Silent

\* RHMesh.h: the reply will be routed successfully back to the requester, and the
\* routes its message passes lead there.
NextHops(n, d) ==
  LET at[k \in Nat] == IF k = 0 THEN n ELSE IF at[k - 1] \in {d, Nobody} THEN at[k - 1]
                                            ELSE routes[at[k - 1]][d]
  IN at
LeadsTo(n, d) == \E k \in 0..MaxHops + 1 : NextHops(n, d)[k] = d
ReplyReturns ==
  ~broken => \A n \in Node : inbox[n] # NoMessage /\ inbox[n].kind = "response" =>
                               LeadsTo(n, inbox[n].dest)
=============================================================================
