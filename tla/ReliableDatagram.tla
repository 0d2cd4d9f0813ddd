-------------------------- MODULE ReliableDatagram --------------------------
(***************************************************************************)
(* RHReliableDatagram of the RadioHead library: acknowledged, retransmitted*)
(* datagrams between the nodes of one radio network.                       *)
(*                                                                         *)
(* Each node runs one thread. While it is inside sendtoWait it polls its   *)
(* driver for the acknowledgement and nothing else; when it is outside, the*)
(* application polls with recvfromAck. The driver keeps one received frame *)
(* (rxBuf); the medium may lose any frame for any addressee, and a frame   *)
(* that is heard replaces an unread one.                                   *)
(*                                                                         *)
(* Message ids are uint8_t, as is the retry counter of sendtoWait; both    *)
(* wrap modulo ByteMod (256 in the code).  A frame carries, besides what   *)
(* the radio transmits, the serial of the message it belongs to (the number*)
(* of sendtoWait calls of its sender so far).  No guard reads a serial:    *)
(* serials, sent, delivered and acked are history, for the properties.     *)
(***************************************************************************)
EXTENDS Integers, Sequences

CONSTANTS Node,        \* node addresses
          Broadcast,   \* RH_BROADCAST_ADDRESS
          NoFrame,     \* an empty receive buffer
          ByteMod,     \* number of values of a uint8_t
          Retries,     \* _retries: retransmissions after the first transmission
          MaxSends     \* bound on the sendtoWait calls of one node

ASSUME AddressAssumption == Broadcast \notin Node
ASSUME ByteAssumption == ByteMod \in Nat /\ ByteMod > 1
ASSUME RetriesAssumption == Retries \in 0..(ByteMod - 1)
ASSUME MaxSendsAssumption == MaxSends \in Nat

VARIABLES lastSeq,    \* lastSeq[n]: _lastSequenceNumber
          seenIds,    \* seenIds[m][n]: m's _seenIds entry for node n
          call,       \* call[n]: where n is in sendtoWait, and its locals
          rxBuf,      \* rxBuf[n]: the frame in n's driver, or NoFrame
          sent, delivered, acked   \* history, see ReliableDelivery

protocolVars == <<lastSeq, seenIds, call, rxBuf>>
historyVars  == <<sent, delivered, acked>>
vars == <<lastSeq, seenIds, call, rxBuf, sent, delivered, acked>>

Address == Node \cup {Broadcast}
Byte == 0..(ByteMod - 1)

Frame == [ack : BOOLEAN, from : Node, to : Address, id : Byte, serial : Nat \ {0}]

Phase == {"idle", "send", "wait"}
Call  == [phase : Phase, to : Address, retries : Byte]
Idle  == [phase |-> "idle", to |-> Broadcast, retries |-> 0]

LastOf(s) == IF s = <<>> THEN 0 ELSE s[Len(s)]

Init == /\ lastSeq = [n \in Node |-> 0]
        /\ seenIds = [m \in Node |-> [n \in Node |-> 0]]
        /\ call = [n \in Node |-> Idle]
        /\ rxBuf = [n \in Node |-> NoFrame]
        /\ sent = [n \in Node |-> <<>>]
        /\ delivered = [m \in Node |-> [n \in Node |-> <<>>]]
        /\ acked = [n \in Node |-> {}]

-----------------------------------------------------------------------------
(* The medium and the driver.                                              *)

\* The nodes whose driver accepts frame f: everyone but the transmitter that
\* the TO header names (the driver is not promiscuous).
Addressees(f) == {m \in Node \ {f.from} : f.to \in {m, Broadcast}}

\* Frame f goes on the air; `emptied` have just read their buffer.  Any of the
\* addressees may miss it; one that hears it overwrites what it had not read.
Air(f, emptied) ==
  \E heard \in SUBSET Addressees(f) :
     rxBuf' = [m \in Node |-> IF m \in heard THEN f
                              ELSE IF m \in emptied THEN NoFrame ELSE rxBuf[m]]

\* n reads its buffer and transmits nothing.
Consume(n) == rxBuf' = [rxBuf EXCEPT ![n] = NoFrame]

DataFrame(n) == [ack |-> FALSE, from |-> n, to |-> call[n].to,
                 id |-> lastSeq[n], serial |-> Len(sent[n])]

AckFrame(n, f) == [ack |-> TRUE, from |-> n, to |-> f.from,
                   id |-> f.id, serial |-> f.serial]

\* acknowledge(): n reads f and answers it.
Acknowledge(n, f) == Air(AckFrame(n, f), {n})

-----------------------------------------------------------------------------
(* sendtoWait                                                              *)

\* Fault: the sequence number is kept wider than the byte on the air.
SendtoWaitWide(n, d) ==
  /\ call[n].phase = "idle"
  /\ Len(sent[n]) < MaxSends
  /\ lastSeq' = [lastSeq EXCEPT ![n] = @ + 1]
  /\ call' = [call EXCEPT ![n] = [phase |-> "send", to |-> d, retries |-> 0]]
  /\ sent' = [sent EXCEPT ![n] = Append(@, d)]
  /\ UNCHANGED <<seenIds, rxBuf, delivered, acked>>

SendtoWait(n, d) ==
  /\ call[n].phase = "idle"
  /\ Len(sent[n]) < MaxSends
  /\ lastSeq' = [lastSeq EXCEPT ![n] = (@ + 1) % ByteMod]
  /\ call' = [call EXCEPT ![n] = [phase |-> "send", to |-> d, retries |-> 0]]
  /\ sent' = [sent EXCEPT ![n] = Append(@, d)]
  /\ UNCHANGED <<seenIds, rxBuf, delivered, acked>>

\* Fault: the retry counter is not incremented.
TransmitUncounted(n) ==
  /\ call[n].phase = "send"
  /\ call[n].retries <= Retries
  /\ Air(DataFrame(n), {})
  /\ call' = [call EXCEPT ![n] =
                IF call[n].to = Broadcast THEN Idle
                ELSE [phase |-> "wait", to |-> call[n].to, retries |-> call[n].retries]]
  /\ UNCHANGED <<lastSeq, seenIds, historyVars>>

\* while (retries++ <= _retries): one more transmission.  A broadcast returns
\* true at once, anything else waits for the acknowledgement.
Transmit(n) ==
  /\ call[n].phase = "send"
  /\ call[n].retries <= Retries
  /\ Air(DataFrame(n), {})
  /\ call' = [call EXCEPT ![n] =
                IF call[n].to = Broadcast THEN Idle
                ELSE [phase |-> "wait", to |-> call[n].to,
                      retries |-> (call[n].retries + 1) % ByteMod]]
  /\ UNCHANGED <<lastSeq, seenIds, historyVars>>

\* Retries exhausted: sendtoWait returns false.
GiveUp(n) ==
  /\ call[n].phase = "send"
  /\ call[n].retries > Retries
  /\ call' = [call EXCEPT ![n] = Idle]
  /\ UNCHANGED <<lastSeq, seenIds, rxBuf, historyVars>>

\* Fault: the id of an acknowledgement is not compared.
AnyAck(n, f) == f.ack /\ f.from = call[n].to /\ f.to = n

\* Is f the acknowledgement n waits for?
ExpectedAck(n, f) == /\ f.ack
                     /\ f.from = call[n].to
                     /\ f.to = n
                     /\ f.id = lastSeq[n]

Waiting(n) == call[n].phase = "wait" /\ rxBuf[n] # NoFrame

\* The acknowledgement arrives: sendtoWait returns true.
TakeAck(n) ==
  /\ Waiting(n)
  /\ ExpectedAck(n, rxBuf[n])
  /\ call' = [call EXCEPT ![n] = Idle]
  /\ acked' = [acked EXCEPT ![n] = @ \cup {Len(sent[n])}]
  /\ Consume(n)
  /\ UNCHANGED <<lastSeq, seenIds, sent, delivered>>

\* While waiting, a request with the id last seen from its sender is
\* acknowledged again (whatever its TO header says).
ReAcknowledge(n) ==
  /\ Waiting(n)
  /\ ~rxBuf[n].ack
  /\ rxBuf[n].id = seenIds[n][rxBuf[n].from]
  /\ Acknowledge(n, rxBuf[n])
  /\ UNCHANGED <<lastSeq, seenIds, call, historyVars>>

\* While waiting, any other frame is dropped.
Discard(n) ==
  /\ Waiting(n)
  /\ ~ExpectedAck(n, rxBuf[n])
  /\ rxBuf[n].ack \/ rxBuf[n].id # seenIds[n][rxBuf[n].from]
  /\ Consume(n)
  /\ UNCHANGED <<lastSeq, seenIds, call, historyVars>>

\* The timeout runs out: back to the head of the retry loop.  The wait polls
\* the driver at least once before it looks at the clock again, so the step is
\* placed right after the last poll, which left the buffer empty; a frame that
\* comes in between that poll and the deadline comes in after this step.
Timeout(n) ==
  /\ call[n].phase = "wait"
  /\ rxBuf[n] = NoFrame
  /\ call' = [call EXCEPT ![n].phase = "send"]
  /\ UNCHANGED <<lastSeq, seenIds, rxBuf, historyVars>>

-----------------------------------------------------------------------------
(* recvfromAck, polled by the application outside sendtoWait               *)

Polling(n) == call[n].phase = "idle" /\ rxBuf[n] # NoFrame

\* Never ACK an ACK: one that comes too late is dropped.
DropLateAck(n) ==
  /\ Polling(n)
  /\ rxBuf[n].ack
  /\ Consume(n)
  /\ UNCHANGED <<lastSeq, seenIds, call, historyVars>>

\* Fault: broadcasts are acknowledged too.
AnswerAll(n) == Acknowledge(n, rxBuf[n])

\* A request is acknowledged unless it is a broadcast.
Answer(n) == IF rxBuf[n].to = Broadcast THEN Consume(n)
                                        ELSE Acknowledge(n, rxBuf[n])

\* A request with the id last seen from its sender is not returned.
RecvDuplicate(n) ==
  /\ Polling(n)
  /\ ~rxBuf[n].ack
  /\ rxBuf[n].id = seenIds[n][rxBuf[n].from]
  /\ Answer(n)
  /\ UNCHANGED <<lastSeq, seenIds, call, historyVars>>

\* Fault: the id is not remembered.
RecvNewForgets(n) ==
  /\ Polling(n)
  /\ ~rxBuf[n].ack
  /\ rxBuf[n].id # seenIds[n][rxBuf[n].from]
  /\ Answer(n)
  /\ delivered' = [delivered EXCEPT ![n][rxBuf[n].from] = Append(@, rxBuf[n].serial)]
  /\ UNCHANGED <<lastSeq, seenIds, call, sent, acked>>

\* Any other request is returned to the application and remembered.
RecvNew(n) ==
  /\ Polling(n)
  /\ ~rxBuf[n].ack
  /\ rxBuf[n].id # seenIds[n][rxBuf[n].from]
  /\ Answer(n)
  /\ seenIds' = [seenIds EXCEPT ![n][rxBuf[n].from] = rxBuf[n].id]
  /\ delivered' = [delivered EXCEPT ![n][rxBuf[n].from] = Append(@, rxBuf[n].serial)]
  /\ UNCHANGED <<lastSeq, call, sent, acked>>

-----------------------------------------------------------------------------
\* The steps of a sendtoWait call that has begun.
InCall(n) == \/ Transmit(n)
             \/ GiveUp(n)
             \/ TakeAck(n)
             \/ ReAcknowledge(n)
             \/ Discard(n)
             \/ Timeout(n)

RecvfromAck(n) == DropLateAck(n) \/ RecvDuplicate(n) \/ RecvNew(n)

Next == \E n \in Node : \/ \E d \in Address : SendtoWait(n, d)
                        \/ InCall(n)
                        \/ RecvfromAck(n)

Spec == Init /\ [][Next]_vars

-----------------------------------------------------------------------------
(* The environment in which one byte of id is enough.                      *)

\* No request in a buffer is ByteMod or more messages ahead of the last one
\* delivered from its sender (none delivered counts as message 0, because
\* _seenIds starts zeroed), and no acknowledgement in a buffer is that far
\* behind its addressee's current message.
IdWindow ==
  \A m \in Node : rxBuf[m] # NoFrame =>
     LET f == rxBuf[m] IN
     IF f.ack THEN Len(sent[m]) - f.serial < ByteMod
              ELSE f.serial - LastOf(delivered[m][f.from]) < ByteMod

WindowNext == Next /\ IdWindow'
WindowSpec == Init /\ [][WindowNext]_vars

-----------------------------------------------------------------------------
(* Properties                                                              *)

\* Every variable keeps the type of the member or local it stands for.
TypeOK ==
  /\ lastSeq \in [Node -> Byte]
  /\ seenIds \in [Node -> [Node -> Byte]]
  /\ call \in [Node -> Call]
  /\ rxBuf \in [Node -> Frame \cup {NoFrame}]
  /\ sent \in [Node -> Seq(Address)]
  /\ delivered \in [Node -> [Node -> Seq(Nat \ {0})]]
  /\ acked \in [Node -> SUBSET (Nat \ {0})]

\* However frames are lost, overwritten or retransmitted, and even when ids
\* wrap, no application is handed a message twice, or an older message of a
\* sender after a newer one: the test against _seenIds in recvfromAck.
InOrderOnce ==
  \A m, n \in Node : \A i, j \in 1..Len(delivered[m][n]) :
     i < j => delivered[m][n][i] < delivered[m][n][j]

\* m's application has been handed n's message s.
Handed(m, n, s) == \E i \in 1..Len(delivered[m][n]) : delivered[m][n][i] = s

\* When sendtoWait to one node returns true, that node's application has been
\* handed that very message (not merely one with the same id).
AckedImpliesDelivered ==
  \A n, m \in Node : \A s \in acked[n] :
     sent[n][s] = m => Handed(m, n, s)

\* Broadcasts are never acknowledged, neither by recvfromAck nor by a node that
\* meets one again while it waits in sendtoWait.
BroadcastsUnacknowledged ==
  \A m \in Node : rxBuf[m] # NoFrame /\ rxBuf[m].ack =>
     sent[m][rxBuf[m].serial] # Broadcast

\* The promise, in the module of its own.
Promise == INSTANCE ReliableDelivery
PromiseSpec == Promise!Spec

\* Every sendtoWait returns, acknowledged or not, even when both ends send to
\* each other at once and neither answers the other.
EveryCallReturns == \A n \in Node : call[n].phase # "idle" ~> call[n].phase = "idle"
=============================================================================
