----------------------- MODULE ReliableDatagramProofs -----------------------
(***************************************************************************)
(* Proofs about ReliableDatagram, for every set of nodes, every width of   *)
(* the id, every retry count and every number of messages. Without a window*)
(* of ids, nothing is handed over twice or out of order: OrderInv is       *)
(* inductive for Next. In the window an acknowledged message was delivered,*)
(* and the protocol keeps the promise of ReliableDelivery: WindowInv is    *)
(* inductive for WindowNext. With restarts and no window, each boot hands a*)
(* message over at most once: BootInv is inductive for RebootNext.         *)
(***************************************************************************)
EXTENDS ReliableDatagramReboot, FiniteSetTheorems, TLAPS

-----------------------------------------------------------------------------
(* Counters that wrap: what (x + 1) % M does to a remainder, and when two  *)
(* numbers with one remainder are the same number.                         *)

\* Division with remainder, as the prover knows it.
LEMMA DivMod ==
  ASSUME NEW M \in Nat \ {0}, NEW a \in Nat
  PROVE  /\ a \div M \in Nat
         /\ a % M \in 0..(M - 1)
         /\ a = (M * (a \div M)) + (a % M)
OBVIOUS

\* Quotient and remainder are unique.
LEMMA UniqueMod ==
  ASSUME NEW M \in Nat \ {0}, NEW a \in Nat,
         NEW q \in Nat, NEW r \in 0..(M - 1), a = (M * q) + r
  PROVE  a % M = r
<1> DEFINE p == a \div M
           s == a % M
<1>1. p \in Nat /\ s \in 0..(M - 1) /\ a = (M * p) + s  BY DivMod
<1> HIDE DEF p, s
<1>2. M * (p - q) = r - s  BY <1>1
<1>3. p - q < 1   BY <1>1, <1>2
<1>4. p - q > -1  BY <1>1, <1>2
<1>5. p = q  BY <1>1, <1>3, <1>4
<1>6. s = r  BY <1>1, <1>5
<1> QED  BY <1>6 DEF s

\* A counter kept modulo M and the number it stands for step together.
LEMMA SuccMod ==
  ASSUME NEW M \in Nat \ {0}, NEW a \in Nat
  PROVE  ((a % M) + 1) % M = (a + 1) % M
<1> DEFINE q == a \div M
           r == a % M
<1>1. q \in Nat /\ r \in 0..(M - 1) /\ a = (M * q) + r  BY DivMod
<1> HIDE DEF q, r
<1>2. CASE r + 1 < M
  <2>1. (a + 1) % M = r + 1  BY <1>1, <1>2, UniqueMod
  <2>2. (r + 1) % M = r + 1  BY <1>1, <1>2
  <2> QED  BY <2>1, <2>2 DEF r
<1>3. CASE r + 1 = M
  <2>1. a + 1 = (M * (q + 1)) + 0  BY <1>1, <1>3
  <2>2. (a + 1) % M = 0  BY <2>1, <1>1, UniqueMod
  <2>3. r + 1 = (M * 1) + 0  BY <1>3
  <2>4. (r + 1) % M = 0  BY <2>3, <1>1, UniqueMod
  <2> QED  BY <2>2, <2>4 DEF r
<1> QED  BY <1>1, <1>2, <1>3

\* Within a window of M numbers a remainder determines its number.
LEMMA SameResidue ==
  ASSUME NEW M \in Nat \ {0}, NEW a \in Nat, NEW b \in Nat,
         a <= b, b - a < M, a % M = b % M
  PROVE  a = b
<1> DEFINE p == a \div M
           q == b \div M
           r == a % M
<1>1. p \in Nat /\ q \in Nat  BY DivMod
<1>2. a = (M * p) + r /\ b = (M * q) + r   BY DivMod
<1> HIDE DEF p, q
<1>3. b - a = M * (q - p)  BY <1>1, <1>2
<1>4. q - p >= 0  BY <1>1, <1>3
<1>5. q - p < 1   BY <1>1, <1>3
<1> QED  BY <1>1, <1>2, <1>4, <1>5

-----------------------------------------------------------------------------
(* What a transmission does to the receive buffers.                        *)

\* After f went on the air a buffer holds f, and then its owner is addressed
\* by it, or is empty, or is what it was and was not being read.
LEMMA AirCases ==
  ASSUME NEW f, NEW emptied, Air(f, emptied),
         NEW m \in Node
  PROVE  \/ rxBuf'[m] = f /\ m # f.from /\ f.to \in {m, Broadcast}
         \/ rxBuf'[m] = NoFrame
         \/ rxBuf'[m] = rxBuf[m] /\ m \notin emptied
<1>1. PICK heard \in SUBSET Addressees(f) :
         rxBuf' = [k \in Node |-> IF k \in heard THEN f
                                  ELSE IF k \in emptied THEN NoFrame ELSE rxBuf[k]]
      BY DEF Air
<1>2. m \in heard => m # f.from /\ f.to \in {m, Broadcast}
      BY DEF Addressees
<1> QED  BY <1>1, <1>2

\* The buffers stay buffers.
LEMMA AirType ==
  ASSUME NEW f \in Frame, NEW emptied, Air(f, emptied),
         rxBuf \in [Node -> Frame \cup {NoFrame}]
  PROVE  rxBuf' \in [Node -> Frame \cup {NoFrame}]
BY DEF Air, Addressees

\* A frame in a buffer has the fields of a frame.
LEMMA BufferedFrame ==
  ASSUME TypeOK, NEW n \in Node, rxBuf[n] # NoFrame
  PROVE  /\ rxBuf[n] \in Frame
         /\ rxBuf[n].from \in Node
         /\ rxBuf[n].to \in Address
         /\ rxBuf[n].id \in Byte
         /\ rxBuf[n].serial \in Nat \ {0}
         /\ AckFrame(n, rxBuf[n]) \in Frame
BY DEF TypeOK, Frame, AckFrame, Address

-----------------------------------------------------------------------------
(* Types                                                                   *)

LEMMA InitType == Init => TypeOK
BY ByteAssumption DEF Init, TypeOK, Byte, Call, Phase, Idle, Address

\* A byte stays a byte when it is incremented.
LEMMA ByteSucc == \A x \in Byte : (x + 1) % ByteMod \in Byte
<1> SUFFICES ASSUME NEW x \in Byte PROVE (x + 1) % ByteMod \in Byte
    OBVIOUS
<1>1. ByteMod \in Nat \ {0} /\ x + 1 \in Nat
      BY ByteAssumption DEF Byte
<1> QED  BY <1>1, DivMod DEF Byte

\* In a call the node has submitted at least the message it is sending, so the
\* frame it transmits is a frame.
InCallSent == \A n \in Node : call[n].phase # "idle" => sent[n] # <<>>

LEMMA InCallSentStep ==
  ASSUME TypeOK, InCallSent, Next
  PROVE  InCallSent'
<1> USE DEF InCallSent
<1>1. PICK n \in Node : \/ \E d \in Address : SendtoWait(n, d)
                        \/ InCall(n)
                        \/ RecvfromAck(n)
      BY DEF Next
<1>2. ASSUME NEW d \in Address, SendtoWait(n, d) PROVE InCallSent'
  <2>1. Append(sent[n], d) # <<>>
    <3>1. sent[n] \in Seq(Address)
          BY DEF TypeOK
    <3>2. Len(Append(sent[n], d)) = Len(sent[n]) + 1 /\ Len(sent[n]) \in Nat
          BY <3>1
    <3> QED  BY <3>2
  <2>2. sent' = [sent EXCEPT ![n] = Append(sent[n], d)]
        BY <1>2 DEF SendtoWait
  <2>3. \A k \in Node \ {n} : call'[k] = call[k] /\ sent'[k] = sent[k]
        BY <1>2 DEF SendtoWait, TypeOK
  <2> QED  BY <2>1, <2>2, <2>3 DEF TypeOK
<1>3. CASE InCall(n)
  <2>1. UNCHANGED sent
        BY <1>3 DEF InCall, Transmit, GiveUp, TakeAck, ReAcknowledge, Discard, Timeout,
                    historyVars
  <2>2. call[n].phase # "idle"
        BY <1>3 DEF InCall, Transmit, GiveUp, TakeAck, ReAcknowledge, Discard, Timeout,
                    Waiting
  <2>3. \A k \in Node \ {n} : call'[k] = call[k]
        BY <1>3 DEF InCall, Transmit, GiveUp, TakeAck, ReAcknowledge, Discard, Timeout,
                    TypeOK
  <2> QED  BY <2>1, <2>2, <2>3
<1>4. CASE RecvfromAck(n)
      BY <1>4 DEF RecvfromAck, DropLateAck, RecvDuplicate, RecvNew, historyVars
<1> QED  BY <1>1, <1>2, <1>3, <1>4

LEMMA TypeStep ==
  ASSUME TypeOK, InCallSent, Next
  PROVE  TypeOK'
<1>1. PICK n \in Node : \/ \E d \in Address : SendtoWait(n, d)
                        \/ InCall(n)
                        \/ RecvfromAck(n)
      BY DEF Next
<1>2. ASSUME NEW d \in Address, SendtoWait(n, d) PROVE TypeOK'
  <2>1. (lastSeq[n] + 1) % ByteMod \in Byte
        BY ByteSucc DEF TypeOK
  <2>2. [phase |-> "send", to |-> d, retries |-> 0] \in Call
        BY ByteAssumption DEF Call, Phase, Byte
  <2> QED  BY <1>2, <2>1, <2>2 DEF SendtoWait, TypeOK
<1>3. CASE Transmit(n)
  <2>1. (call[n].retries + 1) % ByteMod \in Byte
        BY ByteSucc DEF TypeOK, Call
  <2>2. call' \in [Node -> Call]
        BY <1>3, <2>1, ByteAssumption DEF Transmit, TypeOK, Call, Phase, Idle, Address, Byte
  <2>3. DataFrame(n) \in Frame
        BY <1>3 DEF Transmit, InCallSent, TypeOK, DataFrame, Frame, Call
  <2>4. rxBuf' \in [Node -> Frame \cup {NoFrame}]
        BY <1>3, <2>3, AirType DEF Transmit, TypeOK
  <2> QED  BY <1>3, <2>2, <2>4 DEF Transmit, TypeOK, historyVars
<1>4. CASE GiveUp(n)
      BY <1>4, ByteAssumption DEF GiveUp, TypeOK, Call, Phase, Idle, Address, Byte, historyVars
<1>5. CASE TakeAck(n)
  <2>1. Len(sent[n]) \in Nat \ {0}
        BY <1>5 DEF TakeAck, Waiting, InCallSent, TypeOK
  <2> QED  BY <1>5, <2>1, ByteAssumption
           DEF TakeAck, Consume, TypeOK, Call, Phase, Idle, Address, Byte
<1>6. CASE ReAcknowledge(n)
  <2>1. rxBuf' \in [Node -> Frame \cup {NoFrame}]
        BY <1>6, BufferedFrame, AirType DEF ReAcknowledge, Waiting, Acknowledge, TypeOK
  <2> QED  BY <1>6, <2>1 DEF ReAcknowledge, TypeOK, historyVars
<1>7. CASE Discard(n)
      BY <1>7 DEF Discard, Consume, TypeOK, historyVars
<1>8. CASE Timeout(n)
      BY <1>8 DEF Timeout, TypeOK, Call, Phase, historyVars
<1>9. CASE DropLateAck(n)
      BY <1>9 DEF DropLateAck, Consume, TypeOK, historyVars
<1>10. ASSUME Polling(n), Answer(n) PROVE rxBuf' \in [Node -> Frame \cup {NoFrame}]
       BY <1>10, BufferedFrame, AirType DEF Polling, Answer, Acknowledge, Consume, TypeOK
<1>11. CASE RecvDuplicate(n)
       BY <1>10, <1>11 DEF RecvDuplicate, TypeOK, historyVars
<1>12. CASE RecvNew(n)
  <2> DEFINE f == rxBuf[n]
  <2>1. f.from \in Node /\ f.id \in Byte /\ f.serial \in Nat \ {0}
        BY <1>12, BufferedFrame DEF RecvNew, Polling
  <2>2. Append(delivered[n][f.from], f.serial) \in Seq(Nat \ {0})
        BY <2>1 DEF TypeOK
  <2>3. delivered' \in [Node -> [Node -> Seq(Nat \ {0})]]
        BY <1>12, <2>1, <2>2 DEF RecvNew, TypeOK
  <2>4. seenIds' \in [Node -> [Node -> Byte]]
        BY <1>12, <2>1 DEF RecvNew, TypeOK
  <2> QED  BY <1>10, <1>12, <2>3, <2>4 DEF RecvNew, TypeOK
<1> QED  BY <1>1, <1>2, <1>3, <1>4, <1>5, <1>6, <1>7, <1>8, <1>9, <1>11, <1>12
         DEF InCall, RecvfromAck

\* Every state of the protocol is well typed, in or out of the id window: in
\* particular ids and the retry counter never leave the width of a byte.
THEOREM TypeCorrect == Spec => []TypeOK
<1>1. Init => TypeOK /\ InCallSent
      BY InitType DEF Init, InCallSent, Idle
<1>2. TypeOK /\ InCallSent /\ [Next]_vars => (TypeOK /\ InCallSent)'
  <2> SUFFICES ASSUME TypeOK, InCallSent, [Next]_vars
               PROVE  (TypeOK /\ InCallSent)'
      OBVIOUS
  <2>1. CASE Next
        BY <2>1, TypeStep, InCallSentStep
  <2>2. CASE UNCHANGED vars
        BY <2>2 DEF vars, TypeOK, InCallSent
  <2> QED  BY <2>1, <2>2
<1> QED  BY <1>1, <1>2, PTL DEF Spec

-----------------------------------------------------------------------------
(* The inductive invariant of Spec                                         *)

\* A sequence number is the count of messages submitted, modulo a byte.
Counted == \A n \in Node : lastSeq[n] = Len(sent[n]) % ByteMod

\* A remembered id is that of the last message delivered, 0 before any.
Remembered ==
  \A m, n \in Node : seenIds[m][n] = LastOf(delivered[m][n]) % ByteMod

\* Nothing is delivered before it is submitted.
Behind == \A m, n \in Node : LastOf(delivered[m][n]) <= Len(sent[n])

\* A call is for the latest message of its node; only a call to one node waits.
CallCurrent ==
  \A n \in Node :
     /\ call[n].phase # "idle" =>
           sent[n] # <<>> /\ call[n].to = sent[n][Len(sent[n])]
     /\ call[n].phase = "wait" => call[n].to # Broadcast

\* The request in m's buffer is some message of its sender, addressed to m and
\* no older than the last one delivered; a broadcast, which is transmitted
\* once, is newer than that.
RequestOK(m) ==
  LET f == rxBuf[m] IN
  /\ f.serial <= Len(sent[f.from])
  /\ f.to = sent[f.from][f.serial]
  /\ f.to \in {m, Broadcast}
  /\ f.id = f.serial % ByteMod
  /\ LastOf(delivered[m][f.from]) <= f.serial
  /\ f.to = Broadcast => LastOf(delivered[m][f.from]) < f.serial

Requests ==
  \A m \in Node : rxBuf[m] # NoFrame /\ ~rxBuf[m].ack => RequestOK(m)

\* A broadcast that is about to be transmitted is nowhere yet.
Untransmitted(n) ==
  \A m \in Node :
     /\ LastOf(delivered[m][n]) < Len(sent[n])
     /\ rxBuf[m] # NoFrame /\ ~rxBuf[m].ack /\ rxBuf[m].from = n =>
           rxBuf[m].serial < Len(sent[n])

BroadcastFresh ==
  \A n \in Node : call[n].phase = "send" /\ call[n].to = Broadcast => Untransmitted(n)

OrderInv == /\ TypeOK
            /\ Counted
            /\ Remembered
            /\ Behind
            /\ CallCurrent
            /\ Requests
            /\ BroadcastFresh
            /\ InOrderOnce

-----------------------------------------------------------------------------
(* Sequences and frames                                                    *)

LEMMA AppendFacts ==
  ASSUME NEW S, NEW s \in Seq(S), NEW e \in S
  PROVE  /\ Append(s, e) \in Seq(S)
         /\ Len(Append(s, e)) = Len(s) + 1
         /\ Append(s, e)[Len(s) + 1] = e
         /\ \A i \in 1..Len(s) : Append(s, e)[i] = s[i]
         /\ LastOf(Append(s, e)) = e
<1>1. /\ Append(s, e) \in Seq(S)
      /\ Len(Append(s, e)) = Len(s) + 1
      /\ Append(s, e)[Len(s) + 1] = e
      /\ \A i \in 1..Len(s) : Append(s, e)[i] = s[i]
      OBVIOUS
<1>2. Len(s) \in Nat /\ Len(<<>>) = 0
      OBVIOUS
<1>3. Append(s, e) # <<>>
      BY <1>1, <1>2
<1> QED  BY <1>1, <1>3 DEF LastOf

\* The last element of a history of serials is a number.
LEMMA LastOfNat == \A s \in Seq(Nat \ {0}) : LastOf(s) \in Nat
<1> SUFFICES ASSUME NEW s \in Seq(Nat \ {0}) PROVE LastOf(s) \in Nat
    OBVIOUS
<1>1. CASE s = <<>>
      BY <1>1 DEF LastOf
<1>2. CASE s # <<>>
  <2>1. Len(s) \in 1..Len(s)
        BY <1>2
  <2>2. s[Len(s)] \in Nat \ {0}
        BY <2>1
  <2> QED  BY <1>2, <2>2 DEF LastOf
<1> QED  BY <1>1, <1>2

\* An increasing history stays increasing when something newer is appended.
LEMMA IncreasingAppend ==
  ASSUME NEW d \in Seq(Nat \ {0}), NEW s \in Nat \ {0}, LastOf(d) < s,
         \A i, j \in 1..Len(d) : i < j => d[i] < d[j]
  PROVE  \A i, j \in 1..Len(Append(d, s)) :
            i < j => Append(d, s)[i] < Append(d, s)[j]
<1> DEFINE e == Append(d, s)
<1>1. /\ Len(e) = Len(d) + 1
      /\ e[Len(d) + 1] = s
      /\ \A i \in 1..Len(d) : e[i] = d[i]
      BY AppendFacts
<1>2. Len(d) \in Nat /\ \A i \in 1..Len(d) : d[i] \in Nat
      OBVIOUS
<1>3. ASSUME NEW i \in 1..Len(d) PROVE d[i] < s
  <2>1. Len(d) \in 1..Len(d) /\ d # <<>>
        BY <1>2
  <2>2. LastOf(d) = d[Len(d)]
        BY <2>1 DEF LastOf
  <2>3. i < Len(d) => d[i] < d[Len(d)]
        BY <2>1
  <2> QED  BY <1>2, <2>1, <2>2, <2>3
<1> HIDE DEF e
<1> SUFFICES ASSUME NEW i \in 1..(Len(d) + 1), NEW j \in 1..(Len(d) + 1), i < j
             PROVE  e[i] < e[j]
    BY <1>1 DEF e
<1>4. i \in 1..Len(d)
      BY <1>2
<1>5. CASE j = Len(d) + 1
      BY <1>1, <1>3, <1>4, <1>5
<1>6. CASE j \in 1..Len(d)
      BY <1>1, <1>4, <1>6
<1>7. j \in 1..Len(d) \/ j = Len(d) + 1
      BY <1>2
<1> QED  BY <1>5, <1>6, <1>7

\* The types the steps below rely on.
LEMMA Types ==
  ASSUME TypeOK, NEW m \in Node, NEW n \in Node
  PROVE  /\ sent[n] \in Seq(Address)
         /\ Len(sent[n]) \in Nat
         /\ delivered[m][n] \in Seq(Nat \ {0})
         /\ LastOf(delivered[m][n]) \in Nat
         /\ Len(delivered[m][n]) \in Nat
<1>1. sent[n] \in Seq(Address) /\ delivered[m][n] \in Seq(Nat \ {0})
      BY DEF TypeOK
<1> QED  BY <1>1, LastOfNat

-----------------------------------------------------------------------------
(* Steps that neither submit, transmit a request nor deliver               *)

Quiet(n) == \/ GiveUp(n)
            \/ TakeAck(n)
            \/ ReAcknowledge(n)
            \/ Discard(n)
            \/ Timeout(n)
            \/ DropLateAck(n)
            \/ RecvDuplicate(n)

\* m's buffer has not got a request it did not have.
NoNewRequest(m) == \/ rxBuf'[m] = rxBuf[m]
                   \/ rxBuf'[m] = NoFrame
                   \/ rxBuf'[m].ack

\* Whoever reads its buffer, acknowledging or not, leaves it empty and puts no
\* request into another.
LEMMA AcknowledgeBuffers ==
  ASSUME NEW n \in Node, NEW f, Acknowledge(n, f), NEW m \in Node
  PROVE  /\ NoNewRequest(m)
         /\ m = n => rxBuf'[m] = NoFrame
<1>1. Air(AckFrame(n, f), {n})
      BY DEF Acknowledge
<1>2. AckFrame(n, f).ack /\ AckFrame(n, f).from = n
      BY DEF AckFrame
<1>3. \/ rxBuf'[m] = AckFrame(n, f) /\ m # n
      \/ rxBuf'[m] = NoFrame
      \/ rxBuf'[m] = rxBuf[m] /\ m \notin {n}
      BY <1>1, <1>2, AirCases
<1> QED  BY <1>2, <1>3 DEF NoNewRequest

LEMMA ConsumeBuffers ==
  ASSUME TypeOK, NEW n \in Node, Consume(n), NEW m \in Node
  PROVE  /\ NoNewRequest(m)
         /\ m = n => rxBuf'[m] = NoFrame
BY DEF Consume, NoNewRequest, TypeOK

LEMMA AnswerBuffers ==
  ASSUME TypeOK, NEW n \in Node, Answer(n), NEW m \in Node
  PROVE  /\ NoNewRequest(m)
         /\ m = n => rxBuf'[m] = NoFrame
BY AcknowledgeBuffers, ConsumeBuffers DEF Answer

LEMMA QuietEffect ==
  ASSUME TypeOK, NEW n \in Node, Quiet(n)
  PROVE  /\ UNCHANGED <<lastSeq, seenIds, sent, delivered>>
         /\ \A m \in Node : NoNewRequest(m)
<1>1. UNCHANGED <<lastSeq, seenIds, sent, delivered>>
      BY DEF Quiet, GiveUp, TakeAck, ReAcknowledge, Discard, Timeout, DropLateAck,
             RecvDuplicate, historyVars
<1>2. ASSUME NEW m \in Node PROVE NoNewRequest(m)
  <2>1. CASE GiveUp(n) \/ Timeout(n)
        BY <2>1 DEF GiveUp, Timeout, NoNewRequest
  <2>2. CASE TakeAck(n) \/ Discard(n) \/ DropLateAck(n)
        BY <2>2, ConsumeBuffers DEF TakeAck, Discard, DropLateAck
  <2>3. CASE ReAcknowledge(n)
        BY <2>3, AcknowledgeBuffers DEF ReAcknowledge
  <2>4. CASE RecvDuplicate(n)
        BY <2>4, AnswerBuffers DEF RecvDuplicate
  <2> QED  BY <2>1, <2>2, <2>3, <2>4 DEF Quiet
<1> QED  BY <1>1, <1>2

\* Every step is a new call, a transmission, a delivery or quiet.
LEMMA NextCases ==
  ASSUME Next
  PROVE  \E n \in Node : \/ \E d \in Address : SendtoWait(n, d)
                         \/ Transmit(n)
                         \/ RecvNew(n)
                         \/ Quiet(n)
BY DEF Next, InCall, RecvfromAck, Quiet

\* What a delivery does.
LEMMA RecvNewEffect ==
  ASSUME TypeOK, NEW n \in Node, RecvNew(n)
  PROVE  LET f == rxBuf[n]
             d == delivered[n][f.from]
         IN  /\ f \in Frame
             /\ f.from \in Node
             /\ f.serial \in Nat \ {0}
             /\ delivered'[n][f.from] = Append(d, f.serial)
             /\ seenIds'[n][f.from] = f.id
             /\ LastOf(delivered'[n][f.from]) = f.serial
             /\ \A m, k \in Node : m # n \/ k # f.from =>
                   /\ delivered'[m][k] = delivered[m][k]
                   /\ seenIds'[m][k] = seenIds[m][k]
             /\ \A m \in Node : NoNewRequest(m)
             /\ rxBuf'[n] = NoFrame
<1> DEFINE f == rxBuf[n]
           d == delivered[n][f.from]
<1>1. f \in Frame /\ f.from \in Node /\ f.serial \in Nat \ {0}
      BY BufferedFrame DEF RecvNew, Polling
<1>2. /\ delivered' = [delivered EXCEPT ![n][f.from] = Append(d, f.serial)]
      /\ seenIds' = [seenIds EXCEPT ![n][f.from] = f.id]
      BY DEF RecvNew
<1>3. /\ delivered'[n][f.from] = Append(d, f.serial)
      /\ seenIds'[n][f.from] = f.id
      BY <1>1, <1>2 DEF TypeOK
<1>4. \A m, k \in Node : m # n \/ k # f.from =>
         /\ delivered'[m][k] = delivered[m][k]
         /\ seenIds'[m][k] = seenIds[m][k]
      BY <1>1, <1>2 DEF TypeOK
<1>5. d \in Seq(Nat \ {0})
      BY <1>1, Types
<1>6. LastOf(Append(d, f.serial)) = f.serial
      BY <1>1, <1>5, AppendFacts
<1>7. (\A m \in Node : NoNewRequest(m)) /\ rxBuf'[n] = NoFrame
      BY AnswerBuffers DEF RecvNew
<1> QED  BY <1>1, <1>3, <1>4, <1>6, <1>7

\* What a new call does.
LEMMA SubmitEffect ==
  ASSUME TypeOK, NEW n \in Node, NEW d \in Address, SendtoWait(n, d)
  PROVE  /\ sent'[n] # <<>>
         /\ Len(sent'[n]) = Len(sent[n]) + 1
         /\ sent'[n][Len(sent'[n])] = d
         /\ \A i \in 1..Len(sent[n]) : sent'[n][i] = sent[n][i]
         /\ \A k \in Node \ {n} : sent'[k] = sent[k] /\ call'[k] = call[k]
         /\ call'[n].to = d /\ call'[n].phase = "send"
         /\ UNCHANGED <<seenIds, rxBuf, delivered>>
<1>1. sent' = [sent EXCEPT ![n] = Append(sent[n], d)]
      BY DEF SendtoWait
<1>2. sent'[n] = Append(sent[n], d)
      BY <1>1 DEF TypeOK
<1>3. sent[n] \in Seq(Address) /\ Len(sent[n]) \in Nat
      BY Types
<1>4. /\ Len(sent'[n]) = Len(sent[n]) + 1
      /\ sent'[n][Len(sent[n]) + 1] = d
      /\ \A i \in 1..Len(sent[n]) : sent'[n][i] = sent[n][i]
      BY <1>2, <1>3, AppendFacts
<1>5. sent'[n] # <<>>
      BY <1>3, <1>4
<1>6. \A k \in Node \ {n} : sent'[k] = sent[k] /\ call'[k] = call[k]
      BY <1>1 DEF SendtoWait, TypeOK
<1>7. call'[n] = [phase |-> "send", to |-> d, retries |-> 0]
      BY DEF SendtoWait, TypeOK
<1> QED  BY <1>4, <1>5, <1>6, <1>7 DEF SendtoWait

LEMMA SentGrows ==
  ASSUME TypeOK, NEW n \in Node, NEW d \in Address, SendtoWait(n, d)
  PROVE  \A k \in Node : /\ Len(sent[k]) \in Nat
                         /\ Len(sent'[k]) = IF k = n THEN Len(sent[k]) + 1 ELSE Len(sent[k])
                         /\ \A i \in 1..Len(sent[k]) : sent'[k][i] = sent[k][i]
<1>1. \A k \in Node : Len(sent[k]) \in Nat
      BY Types
<1>2. Len(sent'[n]) = Len(sent[n]) + 1 /\ \A i \in 1..Len(sent[n]) : sent'[n][i] = sent[n][i]
      BY SubmitEffect
<1>3. \A k \in Node \ {n} : sent'[k] = sent[k]
      BY SubmitEffect
<1> QED  BY <1>1, <1>2, <1>3

\* The messages submitted so far keep their addressees.
LEMMA SentKept ==
  ASSUME OrderInv, Next, NEW k \in Node, NEW s \in Nat \ {0}, s <= Len(sent[k])
  PROVE  s <= Len(sent'[k]) /\ sent'[k][s] = sent[k][s]
<1> USE DEF OrderInv
<1>0. Len(sent[k]) \in Nat /\ s \in 1..Len(sent[k])
      BY Types
<1>1. PICK n \in Node : \/ \E d \in Address : SendtoWait(n, d)
                        \/ Transmit(n) \/ RecvNew(n) \/ Quiet(n)
      BY NextCases
<1>2. ASSUME NEW d \in Address, SendtoWait(n, d)
      PROVE  s <= Len(sent'[k]) /\ sent'[k][s] = sent[k][s]
  <2>1. /\ Len(sent'[k]) = IF k = n THEN Len(sent[k]) + 1 ELSE Len(sent[k])
        /\ \A i \in 1..Len(sent[k]) : sent'[k][i] = sent[k][i]
        BY <1>2, SentGrows
  <2> QED  BY <1>0, <2>1
<1>3. CASE Transmit(n) \/ RecvNew(n) \/ Quiet(n)
  <2>1. UNCHANGED sent
        BY <1>3, QuietEffect DEF Transmit, RecvNew, historyVars
  <2> QED  BY <1>0, <2>1
<1> QED  BY <1>1, <1>2, <1>3

-----------------------------------------------------------------------------
(* OrderInv is inductive                                                   *)

LEMMA CountedStep ==
  ASSUME OrderInv, Next
  PROVE  Counted'
<1> USE DEF OrderInv
<1>1. PICK n \in Node : \/ \E d \in Address : SendtoWait(n, d)
                        \/ Transmit(n) \/ RecvNew(n) \/ Quiet(n)
      BY NextCases
<1>2. ASSUME NEW d \in Address, SendtoWait(n, d) PROVE Counted'
  <2>1. lastSeq' = [lastSeq EXCEPT ![n] = (lastSeq[n] + 1) % ByteMod]
        BY <1>2 DEF SendtoWait
  <2>2. lastSeq'[n] = (lastSeq[n] + 1) % ByteMod
        BY <2>1 DEF TypeOK
  <2>3. \A k \in Node \ {n} : lastSeq'[k] = lastSeq[k]
        BY <2>1 DEF TypeOK
  <2>4. Len(sent'[n]) = Len(sent[n]) + 1 /\ \A k \in Node \ {n} : sent'[k] = sent[k]
        BY <1>2, SubmitEffect
  <2>5. lastSeq'[n] = (Len(sent[n]) + 1) % ByteMod
    <3>1. Len(sent[n]) \in Nat /\ ByteMod \in Nat \ {0}
          BY ByteAssumption, Types
    <3> QED  BY <2>2, <3>1, SuccMod DEF Counted
  <2> QED  BY <2>3, <2>4, <2>5 DEF Counted
<1>3. CASE Transmit(n)
      BY <1>3 DEF Counted, Transmit, historyVars
<1>4. CASE RecvNew(n)
      BY <1>4 DEF Counted, RecvNew
<1>5. CASE Quiet(n)
      BY <1>5, QuietEffect DEF Counted
<1> QED  BY <1>1, <1>2, <1>3, <1>4, <1>5

LEMMA RememberedStep ==
  ASSUME OrderInv, Next
  PROVE  Remembered'
<1> USE DEF OrderInv
<1>1. PICK n \in Node : \/ \E d \in Address : SendtoWait(n, d)
                        \/ Transmit(n) \/ RecvNew(n) \/ Quiet(n)
      BY NextCases
<1>2. ASSUME NEW d \in Address, SendtoWait(n, d) PROVE Remembered'
      BY <1>2 DEF Remembered, SendtoWait
<1>3. CASE Transmit(n)
      BY <1>3 DEF Remembered, Transmit, historyVars
<1>4. CASE RecvNew(n)
  <2>1. rxBuf[n].id = rxBuf[n].serial % ByteMod
        BY <1>4 DEF RecvNew, Polling, Requests, RequestOK
  <2> QED  BY <1>4, <2>1, RecvNewEffect DEF Remembered
<1>5. CASE Quiet(n)
      BY <1>5, QuietEffect DEF Remembered
<1> QED  BY <1>1, <1>2, <1>3, <1>4, <1>5

LEMMA BehindStep ==
  ASSUME OrderInv, Next
  PROVE  Behind'
<1> USE DEF OrderInv
<1>1. PICK n \in Node : \/ \E d \in Address : SendtoWait(n, d)
                        \/ Transmit(n) \/ RecvNew(n) \/ Quiet(n)
      BY NextCases
<1>2. ASSUME NEW d \in Address, SendtoWait(n, d) PROVE Behind'
  <2>1. \A m, k \in Node : LastOf(delivered[m][k]) \in Nat /\ Len(sent[k]) \in Nat
        BY Types
  <2>2. \A k \in Node : Len(sent'[k]) >= Len(sent[k]) /\ Len(sent'[k]) \in Nat
        BY <1>2, SentGrows
  <2>3. UNCHANGED delivered
        BY <1>2, SubmitEffect
  <2>4. \A m, k \in Node : LastOf(delivered[m][k]) <= Len(sent[k])
        BY DEF Behind
  <2>5. \A m, k \in Node : LastOf(delivered[m][k]) <= Len(sent'[k])
    <3> TAKE m, k \in Node
    <3>1. /\ LastOf(delivered[m][k]) \in Nat /\ Len(sent[k]) \in Nat /\ Len(sent'[k]) \in Nat
          /\ LastOf(delivered[m][k]) <= Len(sent[k]) /\ Len(sent[k]) <= Len(sent'[k])
          BY <2>1, <2>2, <2>4
    <3> QED  BY <3>1
  <2> QED  BY <2>3, <2>5 DEF Behind
<1>3. CASE Transmit(n)
      BY <1>3 DEF Behind, Transmit, historyVars
<1>4. CASE RecvNew(n)
  <2>1. rxBuf[n].serial <= Len(sent[rxBuf[n].from])
        BY <1>4 DEF RecvNew, Polling, Requests, RequestOK
  <2>2. UNCHANGED sent
        BY <1>4 DEF RecvNew
  <2> QED  BY <1>4, <2>1, <2>2, RecvNewEffect DEF Behind
<1>5. CASE Quiet(n)
      BY <1>5, QuietEffect DEF Behind
<1> QED  BY <1>1, <1>2, <1>3, <1>4, <1>5

LEMMA CallCurrentStep ==
  ASSUME OrderInv, Next
  PROVE  CallCurrent'
<1> USE DEF OrderInv
<1>1. PICK n \in Node : \/ \E d \in Address : SendtoWait(n, d)
                        \/ InCall(n)
                        \/ RecvfromAck(n)
      BY DEF Next
<1>2. ASSUME NEW d \in Address, SendtoWait(n, d) PROVE CallCurrent'
      BY <1>2, SubmitEffect DEF CallCurrent
<1>3. CASE InCall(n)
  <2>1. UNCHANGED sent
        BY <1>3 DEF InCall, Transmit, GiveUp, TakeAck, ReAcknowledge, Discard, Timeout,
                    historyVars
  <2>2. \A k \in Node \ {n} : call'[k] = call[k]
        BY <1>3 DEF InCall, Transmit, GiveUp, TakeAck, ReAcknowledge, Discard, Timeout,
                    TypeOK
  <2>3. call[n].phase # "idle" /\ call[n] \in Call
        BY <1>3 DEF InCall, Transmit, GiveUp, TakeAck, ReAcknowledge, Discard, Timeout,
                    Waiting, TypeOK
  <2>4. CASE Transmit(n)
    <3>1. call'[n] = IF call[n].to = Broadcast THEN Idle
                     ELSE [phase |-> "wait", to |-> call[n].to,
                           retries |-> (call[n].retries + 1) % ByteMod]
          BY <2>4 DEF Transmit, TypeOK
    <3> QED  BY <2>1, <2>2, <2>3, <3>1 DEF CallCurrent, Idle
  <2>5. CASE GiveUp(n) \/ TakeAck(n)
    <3>1. call'[n] = Idle
          BY <2>5 DEF GiveUp, TakeAck, TypeOK
    <3> QED  BY <2>1, <2>2, <3>1 DEF CallCurrent, Idle
  <2>6. CASE ReAcknowledge(n) \/ Discard(n)
        BY <2>1, <2>6 DEF ReAcknowledge, Discard, CallCurrent
  <2>7. CASE Timeout(n)
    <3>1. call'[n].phase = "send" /\ call'[n].to = call[n].to
          BY <2>3, <2>7 DEF Timeout, TypeOK, Call
    <3> QED  BY <2>1, <2>2, <2>3, <3>1 DEF CallCurrent
  <2> QED  BY <1>3, <2>4, <2>5, <2>6, <2>7 DEF InCall
<1>4. CASE RecvfromAck(n)
      BY <1>4 DEF RecvfromAck, DropLateAck, RecvDuplicate, RecvNew, historyVars, CallCurrent
<1> QED  BY <1>1, <1>2, <1>3, <1>4

LEMMA InOrderOnceStep ==
  ASSUME OrderInv, Next
  PROVE  InOrderOnce'
<1> USE DEF OrderInv
<1>1. PICK n \in Node : \/ \E d \in Address : SendtoWait(n, d)
                        \/ Transmit(n) \/ RecvNew(n) \/ Quiet(n)
      BY NextCases
<1>2. ASSUME NEW d \in Address, SendtoWait(n, d) PROVE InOrderOnce'
      BY <1>2 DEF InOrderOnce, SendtoWait
<1>3. CASE Transmit(n)
      BY <1>3 DEF InOrderOnce, Transmit, historyVars
<1>4. CASE RecvNew(n)
  <2> DEFINE f == rxBuf[n]
             k == f.from
             d == delivered[n][k]
  <2>1. f \in Frame /\ k \in Node /\ f.serial \in Nat \ {0}
        BY <1>4, RecvNewEffect
  <2>2. /\ LastOf(d) <= f.serial
        /\ f.id = f.serial % ByteMod
        /\ f.id # LastOf(d) % ByteMod
        BY <1>4, <2>1 DEF RecvNew, Polling, Requests, RequestOK, Remembered
  <2>3. d \in Seq(Nat \ {0}) /\ LastOf(d) \in Nat
        BY <2>1, Types
  <2>4. LastOf(d) < f.serial
        BY <2>1, <2>2, <2>3
  <2>5. delivered'[n][k] = Append(d, f.serial)
        BY <1>4, RecvNewEffect
  <2>6. \A i, j \in 1..Len(d) : i < j => d[i] < d[j]
        BY <2>1 DEF InOrderOnce
  <2> HIDE DEF d
  <2>7. \A i, j \in 1..Len(delivered'[n][k]) :
           i < j => delivered'[n][k][i] < delivered'[n][k][j]
        BY <2>1, <2>3, <2>4, <2>5, <2>6, IncreasingAppend
  <2>8. \A m, l \in Node : m # n \/ l # k => delivered'[m][l] = delivered[m][l]
        BY <1>4, RecvNewEffect
  <2>9. SUFFICES ASSUME NEW m \in Node, NEW l \in Node
                 PROVE  \A i, j \in 1..Len(delivered'[m][l]) :
                           i < j => delivered'[m][l][i] < delivered'[m][l][j]
        BY DEF InOrderOnce
  <2>10. CASE m = n /\ l = k
         BY <2>7, <2>10
  <2>11. CASE m # n \/ l # k
         BY <2>8, <2>11 DEF InOrderOnce
  <2> QED  BY <2>10, <2>11
<1>5. CASE Quiet(n)
      BY <1>5, QuietEffect DEF InOrderOnce
<1> QED  BY <1>1, <1>2, <1>3, <1>4, <1>5

LEMMA RequestsStep ==
  ASSUME OrderInv, Next
  PROVE  Requests'
<1> USE DEF OrderInv
<1>1. PICK n \in Node : \/ \E d \in Address : SendtoWait(n, d)
                        \/ Transmit(n) \/ RecvNew(n) \/ Quiet(n)
      BY NextCases
<1>2. SUFFICES ASSUME NEW m \in Node, rxBuf'[m] # NoFrame, ~rxBuf'[m].ack
               PROVE  RequestOK(m)'
      BY DEF Requests
<1>3. ASSUME rxBuf'[m] = rxBuf[m]
      PROVE  /\ RequestOK(m)
             /\ rxBuf[m].from \in Node
             /\ rxBuf[m].serial \in Nat \ {0}
      BY <1>2, <1>3, BufferedFrame DEF Requests
<1>4. ASSUME NEW d \in Address, SendtoWait(n, d) PROVE RequestOK(m)'
  <2>1. rxBuf'[m] = rxBuf[m] /\ UNCHANGED delivered
        BY <1>4 DEF SendtoWait
  <2> DEFINE f == rxBuf[m]
  <2>2. /\ RequestOK(m)
        /\ f.from \in Node
        /\ f.serial \in Nat \ {0}
        BY <1>3, <2>1
  <2>3. Len(sent[f.from]) \in Nat /\ f.serial \in 1..Len(sent[f.from])
        BY <2>2, Types DEF RequestOK
  <2>4. /\ sent'[f.from][f.serial] = sent[f.from][f.serial]
        /\ f.serial <= Len(sent'[f.from])
    <3> DEFINE k == f.from
               i == f.serial
    <3>1. k \in Node /\ i \in Nat \ {0} /\ i <= Len(sent[k])
          BY <2>2, <2>3
    <3> HIDE DEF k, i
    <3>2. i <= Len(sent'[k]) /\ sent'[k][i] = sent[k][i]
          BY <3>1, SentKept
    <3> QED  BY <3>2 DEF k, i
  <2> QED  BY <2>1, <2>2, <2>3, <2>4 DEF RequestOK
<1>5. CASE Transmit(n)
  <2>1. UNCHANGED <<sent, delivered>>
        BY <1>5 DEF Transmit, historyVars
  <2>2. \/ rxBuf'[m] = DataFrame(n) /\ m # n /\ call[n].to \in {m, Broadcast}
        \/ rxBuf'[m] = rxBuf[m]
        BY <1>2, <1>5, AirCases DEF Transmit, DataFrame
  <2>3. CASE rxBuf'[m] = DataFrame(n) /\ m # n /\ call[n].to \in {m, Broadcast}
    <3>1. /\ DataFrame(n).from = n
          /\ DataFrame(n).to = call[n].to
          /\ DataFrame(n).id = lastSeq[n]
          /\ DataFrame(n).serial = Len(sent[n])
          BY DEF DataFrame
    <3>2. call[n].to = sent[n][Len(sent[n])]
          BY <1>5 DEF Transmit, CallCurrent
    <3>3. LastOf(delivered[m][n]) <= Len(sent[n])
          BY DEF Behind
    <3>4. call[n].to = Broadcast => LastOf(delivered[m][n]) < Len(sent[n])
          BY <1>5 DEF Transmit, BroadcastFresh, Untransmitted
    <3>5. Len(sent[n]) <= Len(sent[n])
          BY Types
    <3> QED  BY <2>1, <2>3, <3>1, <3>2, <3>3, <3>4, <3>5 DEF RequestOK, Counted
  <2>4. CASE rxBuf'[m] = rxBuf[m]
        BY <1>3, <2>1, <2>4 DEF RequestOK
  <2> QED  BY <2>2, <2>3, <2>4
<1>6. CASE RecvNew(n)
  <2>1. UNCHANGED sent
        BY <1>6 DEF RecvNew
  <2>2. m # n /\ rxBuf'[m] = rxBuf[m]
        BY <1>2, <1>6, RecvNewEffect DEF NoNewRequest
  <2>3. RequestOK(m) /\ rxBuf[m].from \in Node
        BY <1>3, <2>2
  <2>4. delivered'[m][rxBuf[m].from] = delivered[m][rxBuf[m].from]
        BY <1>6, <2>2, <2>3, RecvNewEffect
  <2> QED  BY <2>1, <2>2, <2>3, <2>4 DEF RequestOK
<1>7. CASE Quiet(n)
  <2>1. rxBuf'[m] = rxBuf[m] /\ UNCHANGED <<sent, delivered>>
        BY <1>2, <1>7, QuietEffect DEF NoNewRequest
  <2> QED  BY <1>3, <2>1 DEF RequestOK
<1> QED  BY <1>1, <1>4, <1>5, <1>6, <1>7

LEMMA BroadcastFreshStep ==
  ASSUME OrderInv, Next
  PROVE  BroadcastFresh'
<1> USE DEF OrderInv
<1>1. PICK n \in Node : \/ \E d \in Address : SendtoWait(n, d)
                        \/ Transmit(n) \/ RecvNew(n) \/ Quiet(n)
      BY NextCases
<1>2. SUFFICES ASSUME NEW b \in Node, call'[b].phase = "send", call'[b].to = Broadcast,
                      NEW m \in Node
               PROVE  /\ LastOf(delivered'[m][b]) < Len(sent'[b])
                      /\ rxBuf'[m] # NoFrame /\ ~rxBuf'[m].ack /\ rxBuf'[m].from = b =>
                            rxBuf'[m].serial < Len(sent'[b])
      BY DEF BroadcastFresh, Untransmitted
\* What held of b's broadcast before the step, if it was already pending.
<1>3. ASSUME call[b].phase = "send", call[b].to = Broadcast
      PROVE  /\ LastOf(delivered[m][b]) < Len(sent[b])
             /\ rxBuf[m] # NoFrame /\ ~rxBuf[m].ack /\ rxBuf[m].from = b =>
                   rxBuf[m].serial < Len(sent[b])
      BY <1>3 DEF BroadcastFresh, Untransmitted
<1>4. ASSUME NEW d \in Address, SendtoWait(n, d)
      PROVE  /\ LastOf(delivered'[m][b]) < Len(sent'[b])
             /\ rxBuf'[m] # NoFrame /\ ~rxBuf'[m].ack /\ rxBuf'[m].from = b =>
                   rxBuf'[m].serial < Len(sent'[b])
  <2>1. UNCHANGED <<rxBuf, delivered>>
        BY <1>4, SubmitEffect
  <2>2. CASE b = n
    <3>1. /\ Len(sent'[b]) = Len(sent[b]) + 1
          /\ Len(sent[b]) \in Nat /\ LastOf(delivered[m][b]) \in Nat
          BY <1>4, <2>2, SubmitEffect, Types
    <3>2. LastOf(delivered[m][b]) <= Len(sent[b])
          BY DEF Behind
    <3>3. rxBuf[m] # NoFrame /\ ~rxBuf[m].ack /\ rxBuf[m].from = b =>
             rxBuf[m].serial <= Len(sent[b]) /\ rxBuf[m].serial \in Nat
          BY BufferedFrame DEF Requests, RequestOK
    <3> QED  BY <2>1, <3>1, <3>2, <3>3
  <2>3. CASE b # n
        BY <1>2, <1>3, <1>4, <2>1, <2>3, SubmitEffect
  <2> QED  BY <2>2, <2>3
<1>5. CASE Transmit(n)
  <2>1. UNCHANGED <<sent, delivered>>
        BY <1>5 DEF Transmit, historyVars
  <2>2. b # n /\ call'[b] = call[b]
    <3>1. call'[n].phase # "send"
          BY <1>5 DEF Transmit, TypeOK, Idle
    <3> QED  BY <1>2, <1>5, <3>1 DEF Transmit, TypeOK
  <2>3. \/ rxBuf'[m] = DataFrame(n)
        \/ rxBuf'[m] = NoFrame
        \/ rxBuf'[m] = rxBuf[m]
        BY <1>5, AirCases DEF Transmit
  <2>4. DataFrame(n).from = n
        BY DEF DataFrame
  <2> QED  BY <1>2, <1>3, <2>1, <2>2, <2>3, <2>4
<1>6. CASE RecvNew(n)
  <2>1. UNCHANGED <<sent, call>> /\ NoNewRequest(m)
        BY <1>6, RecvNewEffect DEF RecvNew
  <2>2. LastOf(delivered'[m][b]) < Len(sent[b])
    <3>1. CASE m = n /\ b = rxBuf[n].from
      <4>1. LastOf(delivered'[m][b]) = rxBuf[n].serial
            BY <1>6, <3>1, RecvNewEffect
      <4>2. rxBuf[n] # NoFrame /\ ~rxBuf[n].ack
            BY <1>6 DEF RecvNew, Polling
      <4> QED  BY <1>2, <1>3, <2>1, <3>1, <4>1, <4>2
    <3>2. CASE ~(m = n /\ b = rxBuf[n].from)
          BY <1>2, <1>3, <1>6, <2>1, <3>2, RecvNewEffect
    <3> QED  BY <3>1, <3>2
  <2> QED  BY <1>2, <1>3, <2>1, <2>2 DEF NoNewRequest
<1>7. CASE Quiet(n)
  <2>1. UNCHANGED <<sent, delivered>> /\ NoNewRequest(m)
        BY <1>7, QuietEffect
  <2>2. call[b].phase = "send" /\ call[b].to = Broadcast
    <3>1. CASE GiveUp(n) \/ TakeAck(n)
      <4>1. call' = [call EXCEPT ![n] = Idle]
            BY <3>1 DEF GiveUp, TakeAck
      <4>2. b # n
            BY <1>2, <4>1 DEF Idle, TypeOK
      <4> QED  BY <1>2, <4>1, <4>2 DEF TypeOK
    <3>2. CASE Timeout(n)
      <4>1. call'[n].to = call[n].to /\ call[n].phase = "wait"
            BY <3>2 DEF Timeout, TypeOK, Call
      <4>2. b # n
            BY <1>2, <4>1 DEF CallCurrent
      <4> QED  BY <1>2, <3>2, <4>2 DEF Timeout, TypeOK
    <3>3. CASE ReAcknowledge(n) \/ Discard(n) \/ DropLateAck(n) \/ RecvDuplicate(n)
          BY <1>2, <3>3 DEF ReAcknowledge, Discard, DropLateAck, RecvDuplicate
    <3> QED  BY <1>7, <3>1, <3>2, <3>3 DEF Quiet
  <2> QED  BY <1>3, <2>1, <2>2 DEF NoNewRequest
<1> QED  BY <1>1, <1>4, <1>5, <1>6, <1>7

\* OrderInv holds initially.
LEMMA OrderInit == Init => OrderInv
<1> SUFFICES ASSUME Init PROVE OrderInv
    OBVIOUS
<1>1. TypeOK
      BY InitType
<1>2. 0 % ByteMod = 0
  <2>1. ByteMod \in Nat \ {0} /\ 0 = (ByteMod * 0) + 0
        BY ByteAssumption
  <2> QED  BY <2>1, UniqueMod
<1>3. Len(<<>>) = 0 /\ LastOf(<<>>) = 0
      BY DEF LastOf
<1> QED  BY <1>1, <1>2, <1>3
         DEF Init, OrderInv, Counted, Remembered, Behind, CallCurrent, Requests,
             BroadcastFresh, InOrderOnce, Idle

\* Every step, in the id window or not, keeps OrderInv.
LEMMA OrderStep == OrderInv /\ [Next]_vars => OrderInv'
<1> SUFFICES ASSUME OrderInv, [Next]_vars PROVE OrderInv'
    OBVIOUS
<1>1. CASE Next
  <2>1. InCallSent
        BY DEF OrderInv, CallCurrent, InCallSent
  <2>2. TypeOK'
        BY <1>1, <2>1, TypeStep DEF OrderInv
  <2> QED  BY <1>1, <2>2, CountedStep, RememberedStep, BehindStep, CallCurrentStep,
              RequestsStep, BroadcastFreshStep, InOrderOnceStep DEF OrderInv
<1>2. CASE UNCHANGED vars
      BY <1>2 DEF vars, OrderInv, TypeOK, Counted, Remembered, Behind, CallCurrent,
                  Requests, RequestOK, BroadcastFresh, Untransmitted, InOrderOnce
<1> QED  BY <1>1, <1>2

\* Nobody is handed a message twice or out of order, whatever is lost, however
\* long the nodes run and however often their ids wrap: recvfromAck only has to
\* compare an id with the last one seen.
THEOREM DeliveredInOrderOnce == Spec => []InOrderOnce
<1>1. OrderInv => InOrderOnce
      BY DEF OrderInv
<1> QED  BY <1>1, OrderInit, OrderStep, PTL DEF Spec
-----------------------------------------------------------------------------
(* The inductive invariant of WindowSpec                                   *)

\* The acknowledgement in n's buffer answers a message that n sent to the
\* acknowledgement's sender alone, and that this sender's application has been
\* handed.
AnswerOK(n) ==
  LET f == rxBuf[n] IN
  /\ f.to = n
  /\ f.serial <= Len(sent[n])
  /\ f.id = f.serial % ByteMod
  /\ sent[n][f.serial] = f.from
  /\ Handed(f.from, n, f.serial)

Answers ==
  \A n \in Node : rxBuf[n] # NoFrame /\ rxBuf[n].ack => AnswerOK(n)

AckedSent == \A n \in Node : \A s \in acked[n] : s <= Len(sent[n])

WindowInv == OrderInv /\ IdWindow /\ Answers /\ AckedSent /\ AckedImpliesDelivered

\* In the window, a request with the remembered id is the last message that was
\* delivered, and it is addressed to this node alone.
LEMMA DuplicateIsLast ==
  ASSUME OrderInv, IdWindow, NEW k \in Node,
         rxBuf[k] # NoFrame, ~rxBuf[k].ack,
         rxBuf[k].id = seenIds[k][rxBuf[k].from]
  PROVE  Handed(k, rxBuf[k].from, rxBuf[k].serial) /\ rxBuf[k].to = k
<1> DEFINE n == rxBuf[k].from
           s == rxBuf[k].serial
           d == delivered[k][n]
<1>1. n \in Node /\ s \in Nat \ {0} /\ rxBuf[k].to \in Address
      BY BufferedFrame DEF OrderInv
<1>2. d \in Seq(Nat \ {0}) /\ LastOf(d) \in Nat
      BY <1>1, Types DEF OrderInv
<1>3. RequestOK(k)
      BY DEF OrderInv, Requests
<1>4. LastOf(d) <= s /\ s - LastOf(d) < ByteMod
      BY <1>3 DEF RequestOK, IdWindow
<1>5. s % ByteMod = LastOf(d) % ByteMod
      BY <1>1, <1>3 DEF RequestOK, OrderInv, Remembered
<1>6. ByteMod \in Nat \ {0}
      BY ByteAssumption
<1>7. LastOf(d) = s
      BY <1>1, <1>2, <1>4, <1>5, <1>6, SameResidue
<1>8. rxBuf[k].to = k
      BY <1>1, <1>2, <1>3, <1>7 DEF RequestOK
<1>9. d # <<>> /\ d[Len(d)] = s
      BY <1>1, <1>7 DEF LastOf
<1>10. Len(d) \in 1..Len(d)
       BY <1>2, <1>9
<1> QED  BY <1>8, <1>9, <1>10 DEF Handed

\* What has been handed over stays handed over.
LEMMA HandedKept ==
  ASSUME OrderInv, Next, NEW m \in Node, NEW k \in Node, NEW s, Handed(m, k, s)
  PROVE  Handed(m, k, s)'
<1> USE DEF OrderInv
<1>1. PICK n \in Node : \/ \E d \in Address : SendtoWait(n, d)
                        \/ Transmit(n) \/ RecvNew(n) \/ Quiet(n)
      BY NextCases
<1>2. CASE \E d \in Address : SendtoWait(n, d)
      BY <1>2 DEF SendtoWait, Handed
<1>3. CASE Transmit(n)
      BY <1>3 DEF Transmit, historyVars, Handed
<1>4. CASE Quiet(n)
      BY <1>4, QuietEffect DEF Handed
<1>5. CASE RecvNew(n)
  <2>1. CASE m = n /\ k = rxBuf[n].from
    <3> DEFINE d == delivered[m][k]
    <3>1. d \in Seq(Nat \ {0}) /\ Len(d) \in Nat
          BY Types
    <3>2. rxBuf[n].serial \in Nat \ {0} /\ delivered'[m][k] = Append(d, rxBuf[n].serial)
          BY <1>5, <2>1, RecvNewEffect
    <3> DEFINE v == rxBuf[n].serial
               e == delivered'[m][k]
    <3>3. Len(e) = Len(d) + 1 /\ \A i \in 1..Len(d) : e[i] = d[i]
      <4>1. d \in Seq(Nat \ {0}) /\ v \in Nat \ {0} /\ e = Append(d, v)
            BY <3>1, <3>2
      <4> HIDE DEF d, e, v
      <4> QED  BY <4>1, AppendFacts
    <3>4. PICK i \in 1..Len(d) : d[i] = s
          BY DEF Handed
    <3> HIDE DEF d, e
    <3>5. i \in 1..Len(e) /\ e[i] = s
          BY <3>1, <3>3, <3>4
    <3> QED  BY <3>5 DEF Handed, e
  <2>2. CASE ~(m = n /\ k = rxBuf[n].from)
        BY <1>5, <2>2, RecvNewEffect DEF Handed
  <2> QED  BY <2>1, <2>2
<1> QED  BY <1>1, <1>2, <1>3, <1>4, <1>5

\* Who puts a new acknowledgement into m's buffer.
LEMMA NewAnswer ==
  ASSUME OrderInv, Next, NEW m \in Node,
         rxBuf'[m] # NoFrame, rxBuf'[m].ack, rxBuf'[m] # rxBuf[m]
  PROVE  \E k \in Node : /\ rxBuf[k] # NoFrame /\ ~rxBuf[k].ack
                         /\ rxBuf'[m] = AckFrame(k, rxBuf[k])
                         /\ m = rxBuf[k].from
                         /\ \/ rxBuf[k].id = seenIds[k][rxBuf[k].from]
                            \/ RecvNew(k) /\ rxBuf[k].to # Broadcast
<1> USE DEF OrderInv
<1>1. PICK k \in Node : \/ \E d \in Address : SendtoWait(k, d)
                        \/ Transmit(k) \/ RecvNew(k) \/ Quiet(k)
      BY NextCases
<1>2. ASSUME Acknowledge(k, rxBuf[k]), rxBuf[k] # NoFrame
      PROVE  rxBuf'[m] = AckFrame(k, rxBuf[k]) /\ m = rxBuf[k].from
  <2>1. AckFrame(k, rxBuf[k]).to = rxBuf[k].from /\ rxBuf[k].from # Broadcast
        BY <1>2, BufferedFrame, AddressAssumption DEF AckFrame
  <2> QED  BY <1>2, <2>1, AirCases DEF Acknowledge
<1>3. ASSUME Consume(k) PROVE FALSE
      BY <1>3 DEF Consume, TypeOK
<1>4. CASE \E d \in Address : SendtoWait(k, d)
      BY <1>4 DEF SendtoWait
<1>5. CASE Transmit(k)
  <2>1. ~DataFrame(k).ack
        BY DEF DataFrame
  <2> QED  BY <1>5, <2>1, AirCases DEF Transmit
<1>6. CASE RecvNew(k)
      BY <1>2, <1>3, <1>6 DEF RecvNew, Answer, Polling
<1>7. CASE Quiet(k)
  <2>1. CASE GiveUp(k) \/ Timeout(k)
        BY <2>1 DEF GiveUp, Timeout
  <2>2. CASE TakeAck(k) \/ Discard(k) \/ DropLateAck(k)
        BY <1>3, <2>2 DEF TakeAck, Discard, DropLateAck
  <2>3. CASE ReAcknowledge(k)
        BY <1>2, <2>3 DEF ReAcknowledge, Waiting
  <2>4. CASE RecvDuplicate(k)
        BY <1>2, <1>3, <2>4 DEF RecvDuplicate, Answer, Polling
  <2> QED  BY <1>7, <2>1, <2>2, <2>3, <2>4 DEF Quiet
<1> QED  BY <1>1, <1>4, <1>5, <1>6, <1>7

LEMMA AnswersStep ==
  ASSUME WindowInv, Next
  PROVE  Answers'
<1> USE DEF WindowInv
<1>1. SUFFICES ASSUME NEW m \in Node, rxBuf'[m] # NoFrame, rxBuf'[m].ack
               PROVE  AnswerOK(m)'
      BY DEF Answers
<1>2. CASE rxBuf'[m] = rxBuf[m]
  <2> DEFINE f == rxBuf[m]
  <2>1. AnswerOK(m) /\ f.from \in Node /\ f.serial \in Nat \ {0}
        BY <1>1, <1>2, BufferedFrame DEF Answers, OrderInv
  <2>2. f.serial <= Len(sent'[m]) /\ sent'[m][f.serial] = sent[m][f.serial]
        BY <2>1, SentKept DEF AnswerOK
  <2>3. \E i \in 1..Len(delivered'[f.from][m]) : delivered'[f.from][m][i] = f.serial
    <3>1. \A q \in Node : \A s : Handed(q, m, s) => Handed(q, m, s)'
          BY HandedKept
    <3>2. Handed(f.from, m, f.serial)
          BY <2>1 DEF AnswerOK
    <3> QED  BY <2>1, <3>1, <3>2 DEF Handed
  <2> QED  BY <1>2, <2>1, <2>2, <2>3 DEF AnswerOK, Handed
<1>3. CASE rxBuf'[m] # rxBuf[m]
  <2>1. PICK k \in Node : /\ rxBuf[k] # NoFrame /\ ~rxBuf[k].ack
                          /\ rxBuf'[m] = AckFrame(k, rxBuf[k])
                          /\ m = rxBuf[k].from
                          /\ \/ rxBuf[k].id = seenIds[k][rxBuf[k].from]
                             \/ RecvNew(k) /\ rxBuf[k].to # Broadcast
        BY <1>1, <1>3, NewAnswer
  <2> DEFINE s == rxBuf[k].serial
  <2>2. s \in Nat \ {0} /\ RequestOK(k)
        BY <2>1, BufferedFrame DEF OrderInv, Requests
  <2>3. rxBuf[k].to = k /\ \E i \in 1..Len(delivered'[k][m]) : delivered'[k][m][i] = s
    <3>1. CASE rxBuf[k].id = seenIds[k][rxBuf[k].from]
      <4>1. Handed(k, m, s) /\ rxBuf[k].to = k
            BY <2>1, <3>1, DuplicateIsLast
      <4>2. \A x : Handed(k, m, x) => Handed(k, m, x)'
            BY HandedKept
      <4> QED  BY <4>1, <4>2 DEF Handed
    <3>2. CASE RecvNew(k) /\ rxBuf[k].to # Broadcast
      <4>1. delivered[k][m] \in Seq(Nat \ {0}) /\ Len(delivered[k][m]) \in Nat
            BY Types DEF OrderInv
      <4>2. delivered'[k][m] = Append(delivered[k][m], s)
            BY <2>1, <3>2, RecvNewEffect DEF OrderInv
      <4>3. /\ Len(delivered'[k][m]) = Len(delivered[k][m]) + 1
            /\ delivered'[k][m][Len(delivered[k][m]) + 1] = s
            BY <2>2, <4>1, <4>2, AppendFacts
      <4>4. rxBuf[k].to = k
            BY <2>2, <3>2 DEF RequestOK
      <4> QED  BY <4>1, <4>3, <4>4
    <3> QED  BY <2>1, <3>1, <3>2
  <2>4. s <= Len(sent'[m]) /\ sent'[m][s] = k
        BY <2>1, <2>2, <2>3, SentKept DEF RequestOK
  <2>5. /\ rxBuf'[m].to = m
        /\ rxBuf'[m].from = k
        /\ rxBuf'[m].serial = s
        /\ rxBuf'[m].id = s % ByteMod
        BY <2>1, <2>2 DEF AckFrame, RequestOK
  <2> QED  BY <2>3, <2>4, <2>5 DEF AnswerOK, Handed
<1> QED  BY <1>2, <1>3

\* In the window, the acknowledgement that ends a call is for its message.
LEMMA AckIsCurrent ==
  ASSUME WindowInv, NEW n \in Node, TakeAck(n)
  PROVE  LET s == Len(sent[n]) IN
         /\ s \in Nat \ {0}
         /\ Handed(sent[n][s], n, s)
<1> USE DEF WindowInv
<1> DEFINE f == rxBuf[n]
<1>1. /\ f # NoFrame /\ f.ack
      /\ f.id = lastSeq[n]
      BY DEF TakeAck, Waiting, ExpectedAck
<1>2. f.serial \in Nat \ {0} /\ AnswerOK(n)
      BY <1>1, BufferedFrame DEF Answers, OrderInv
<1>3. Len(sent[n]) \in Nat
      BY Types DEF OrderInv
<1>4. /\ f.serial <= Len(sent[n])
      /\ Len(sent[n]) - f.serial < ByteMod
      /\ f.serial % ByteMod = Len(sent[n]) % ByteMod
      BY <1>1, <1>2 DEF AnswerOK, IdWindow, OrderInv, Counted
<1>5. ByteMod \in Nat \ {0}
      BY ByteAssumption
<1>6. f.serial = Len(sent[n])
      BY <1>2, <1>3, <1>4, <1>5, SameResidue
<1> QED  BY <1>2, <1>6 DEF AnswerOK

LEMMA AckedStep ==
  ASSUME WindowInv, Next
  PROVE  AckedSent' /\ AckedImpliesDelivered'
<1> USE DEF WindowInv
<1>1. SUFFICES ASSUME NEW n \in Node, NEW s \in acked'[n]
               PROVE  /\ s <= Len(sent'[n])
                      /\ \A m \in Node : sent'[n][s] = m => Handed(m, n, s)'
      BY DEF AckedSent, AckedImpliesDelivered
<1>2. \/ s \in acked[n]
      \/ TakeAck(n) /\ s = Len(sent[n])
  <2>1. PICK k \in Node : \/ \E d \in Address : SendtoWait(k, d)
                          \/ InCall(k)
                          \/ RecvfromAck(k)
        BY DEF Next
  <2>2. CASE TakeAck(k)
        BY <2>2 DEF TakeAck, OrderInv, TypeOK
  <2>3. CASE ~TakeAck(k)
        BY <2>1, <2>3 DEF SendtoWait, InCall, RecvfromAck, Transmit, GiveUp, ReAcknowledge,
              Discard, Timeout, DropLateAck, RecvDuplicate, RecvNew, historyVars
  <2> QED  BY <2>2, <2>3
<1>3. s \in Nat \ {0} /\ s <= Len(sent[n]) /\
      \A m \in Node : sent[n][s] = m => Handed(m, n, s)
  <2>1. CASE s \in acked[n]
        BY <2>1 DEF OrderInv, TypeOK, AckedSent, AckedImpliesDelivered
  <2>2. CASE TakeAck(n) /\ s = Len(sent[n])
        BY <2>2, AckIsCurrent
  <2> QED  BY <1>2, <2>1, <2>2
<1>4. s <= Len(sent'[n]) /\ sent'[n][s] = sent[n][s]
      BY <1>3, SentKept
<1>5. \A m \in Node : Handed(m, n, s) => Handed(m, n, s)'
      BY HandedKept
<1> QED  BY <1>3, <1>4, <1>5

LEMMA WindowInit == Init => WindowInv
BY OrderInit DEF Init, WindowInv, IdWindow, Answers, AckedSent, AckedImpliesDelivered

LEMMA WindowStep == WindowInv /\ [WindowNext]_vars => WindowInv'
<1> SUFFICES ASSUME WindowInv, [WindowNext]_vars PROVE WindowInv'
    OBVIOUS
<1>1. CASE WindowNext
      BY <1>1, OrderStep, AnswersStep, AckedStep DEF WindowNext, WindowInv
<1>2. CASE UNCHANGED vars
  <2>1. OrderInv'
        BY <1>2, OrderStep DEF WindowInv
  <2> QED  BY <1>2, <2>1 DEF vars, WindowInv, IdWindow, Answers, AnswerOK, Handed,
                             AckedSent, AckedImpliesDelivered
<1> QED  BY <1>1, <1>2

\* As long as no node falls ByteMod messages behind, an acknowledgement is worth
\* its name: when sendtoWait to one node returns true, that node's application
\* has been handed that message.
THEOREM AcknowledgedIsDelivered == WindowSpec => []AckedImpliesDelivered
<1>1. WindowInv => AckedImpliesDelivered
      BY DEF WindowInv
<1> QED  BY <1>1, WindowInit, WindowStep, PTL DEF WindowSpec

\* In the same window no broadcast is acknowledged, not even by a node that is
\* itself waiting in sendtoWait, which does not look at the TO header.
THEOREM BroadcastsStaySilent == WindowSpec => []BroadcastsUnacknowledged
<1>1. WindowInv => BroadcastsUnacknowledged
  <2> SUFFICES ASSUME WindowInv, NEW m \in Node, rxBuf[m] # NoFrame, rxBuf[m].ack
               PROVE  sent[m][rxBuf[m].serial] # Broadcast
      BY DEF BroadcastsUnacknowledged
  <2>1. rxBuf[m].from \in Node /\ AnswerOK(m)
        BY BufferedFrame DEF WindowInv, OrderInv, Answers
  <2> QED  BY <2>1, AddressAssumption DEF AnswerOK
<1> QED  BY <1>1, WindowInit, WindowStep, PTL DEF WindowSpec

-----------------------------------------------------------------------------
(* Refinement                                                              *)

LEMMA PromiseStep ==
  ASSUME WindowInv, Next
  PROVE  [Promise!Next]_(Promise!vars)
<1> USE DEF WindowInv
<1>1. PICK n \in Node : \/ \E d \in Address : SendtoWait(n, d)
                        \/ Transmit(n) \/ RecvNew(n) \/ Quiet(n)
      BY NextCases
<1>2. ASSUME NEW d \in Address, SendtoWait(n, d) PROVE Promise!Next
  <2>1. Promise!Submit(n, d)
        BY <1>2 DEF SendtoWait, Promise!Submit
  <2>2. d \in Promise!Address
        BY DEF Address, Promise!Address
  <2> QED  BY <2>1, <2>2 DEF Promise!Next
<1>3. CASE Transmit(n)
      BY <1>3 DEF Transmit, historyVars, Promise!vars
<1>4. CASE RecvNew(n)
  <2> DEFINE f == rxBuf[n]
             d == delivered[n][f.from]
  <2>1. f.from \in Node /\ f.serial \in Nat \ {0}
        BY <1>4, RecvNewEffect DEF OrderInv
  <2>2. RequestOK(n) /\ f.id # LastOf(d) % ByteMod
        BY <1>4, <2>1 DEF OrderInv, RecvNew, Polling, Requests, Remembered
  <2>3. LastOf(d) \in Nat /\ Len(sent[f.from]) \in Nat
        BY <2>1, Types DEF OrderInv
  <2>4. /\ f.serial \in 1..Len(sent[f.from])
        /\ sent[f.from][f.serial] \in {n, Broadcast}
        BY <2>1, <2>2, <2>3 DEF RequestOK
  <2>5. f.serial > LastOf(d)
    <3>1. LastOf(d) <= f.serial /\ LastOf(d) # f.serial
          BY <2>2 DEF RequestOK
    <3> QED  BY <2>1, <2>3, <3>1
  <2>6. Promise!LastOf(d) = LastOf(d)
        BY DEF LastOf, Promise!LastOf
  <2>7. Promise!Deliver(n, f.from, f.serial)
        BY <1>4, <2>4, <2>5, <2>6 DEF RecvNew, Promise!Deliver
  <2> QED  BY <2>1, <2>4, <2>7 DEF Promise!Next
<1>5. CASE Quiet(n)
  <2>1. CASE TakeAck(n)
    <3> DEFINE s == Len(sent[n])
    <3>1. s \in Nat \ {0} /\ Handed(sent[n][s], n, s)
          BY <2>1, AckIsCurrent
    <3>2. sent[n][s] \in Node
      <4>1. sent[n][s] = rxBuf[n].from
            BY <2>1 DEF TakeAck, Waiting, ExpectedAck, OrderInv, CallCurrent
      <4> QED  BY <2>1, <4>1, BufferedFrame DEF TakeAck, Waiting, OrderInv
    <3>3. Promise!Confirm(n, sent[n][s])
          BY <2>1, <3>1 DEF TakeAck, Handed, Promise!Confirm
    <3> QED  BY <3>2, <3>3 DEF Promise!Next
  <2>2. CASE ~TakeAck(n)
        BY <1>5, <2>2 DEF Quiet, GiveUp, ReAcknowledge, Discard, Timeout, DropLateAck,
                          RecvDuplicate, historyVars, Promise!vars
  <2> QED  BY <2>1, <2>2
<1> QED  BY <1>1, <1>2, <1>3, <1>4, <1>5

\* Within the id window RHReliableDatagram implements its promise: what callers
\* see of it is a medium that may drop messages but never duplicates, reorders
\* or misdirects one, and never confirms what it has dropped.
THEOREM PromiseKept == WindowSpec => PromiseSpec
<1>1. Init => Promise!Init
      BY DEF Init, Promise!Init
<1>2. WindowInv /\ [WindowNext]_vars => [Promise!Next]_(Promise!vars)
  <2> SUFFICES ASSUME WindowInv, [WindowNext]_vars
               PROVE  [Promise!Next]_(Promise!vars)
      OBVIOUS
  <2>1. CASE WindowNext
        BY <2>1, PromiseStep DEF WindowNext
  <2>2. CASE UNCHANGED vars
        BY <2>2 DEF vars, Promise!vars
  <2> QED  BY <2>1, <2>2
<1> QED  BY <1>1, <1>2, WindowInit, WindowStep, PTL DEF WindowSpec, PromiseSpec, Promise!Spec

-----------------------------------------------------------------------------
(* Restarts: the inductive invariant of RebootSpec                         *)

\* How often the message v is in the history d.
Copies(d, v) == Cardinality({i \in 1..Len(d) : d[i] = v})

\* m would not be handed message s of n under this id once too often: it knows
\* the id, or has been handed s in earlier boots only.
Settled(m, n, s, id) == \/ seenIds[m][n] = id
                        \/ Copies(delivered[m][n], s) <= reboots[m]

BootType == TypeOK /\ InCallSent /\ reboots \in [Node -> Nat]

Ascending == \A m, n \in Node : \A i, j \in 1..Len(delivered[m][n]) :
                i < j => delivered[m][n][i] <= delivered[m][n][j]

FewCopies == \A m, n \in Node : \A v \in Nat \ {0} :
                Copies(delivered[m][n], v) <= 1 + reboots[m]

\* A request is no older than the last message handed over, and if it is that
\* one, it is known. While its sender is still in that call, the request carries
\* the sender's id: a restart ends the call, and the next one is a new message.
BootRequestOK(m) ==
  LET f == rxBuf[m]
      n == f.from
  IN  /\ LastOf(delivered[m][n]) <= f.serial /\ f.serial <= Len(sent[n])
      /\ f.serial = LastOf(delivered[m][n]) => Settled(m, n, f.serial, f.id)
      /\ f.serial = Len(sent[n]) /\ call[n].phase # "idle" => f.id = lastSeq[n]

BootRequests == \A m \in Node : rxBuf[m] # NoFrame /\ ~rxBuf[m].ack => BootRequestOK(m)

\* So is the message that a call in progress may transmit again.
BootCalls ==
  \A m, n \in Node :
    call[n].phase # "idle" /\ LastOf(delivered[m][n]) = Len(sent[n]) =>
      Settled(m, n, Len(sent[n]), lastSeq[n])

BootInv == BootType /\ Behind /\ Ascending /\ FewCopies /\ BootRequests /\ BootCalls

-----------------------------------------------------------------------------
(* Histories with copies                                                   *)

\* Appending a message adds one copy of it and none of another.
LEMMA CopiesAppend ==
  ASSUME NEW d \in Seq(Nat \ {0}), NEW s \in Nat \ {0}, NEW v \in Nat \ {0}
  PROVE  /\ Copies(d, v) \in Nat
         /\ Copies(Append(d, s), v) = IF v = s THEN Copies(d, v) + 1 ELSE Copies(d, v)
<1> DEFINE I == {i \in 1..Len(d) : d[i] = v}
           J == {i \in 1..Len(Append(d, s)) : Append(d, s)[i] = v}
<1>1. IsFiniteSet(I) /\ Cardinality(I) \in Nat
  <2>1. IsFiniteSet(1..Len(d))
        BY FS_Interval
  <2>2. I \subseteq 1..Len(d)
        OBVIOUS
  <2>3. IsFiniteSet(I)
        BY <2>1, <2>2, FS_Subset
  <2> QED  BY <2>3, FS_CardinalityType
<1>2. /\ Len(d) \in Nat
      /\ Len(Append(d, s)) = Len(d) + 1
      /\ Append(d, s)[Len(d) + 1] = s
      /\ \A i \in 1..Len(d) : Append(d, s)[i] = d[i]
      BY AppendFacts
<1>3. CASE v = s
  <2>1. J = I \cup {Len(d) + 1} /\ Len(d) + 1 \notin I
        BY <1>2, <1>3
  <2>2. Cardinality(J) = Cardinality(I) + 1
        BY <1>1, <2>1, FS_AddElement
  <2> QED  BY <1>1, <1>3, <2>2 DEF Copies
<1>4. CASE v # s
  <2>1. J = I
        BY <1>2, <1>4
  <2> QED  BY <1>1, <1>4, <2>1 DEF Copies
<1> QED  BY <1>3, <1>4

\* No message is newer than the last of an ascending history.
LEMMA NewerIsAbsent ==
  ASSUME NEW d \in Seq(Nat \ {0}), NEW s \in Nat \ {0}, LastOf(d) < s,
         \A i, j \in 1..Len(d) : i < j => d[i] <= d[j]
  PROVE  Copies(d, s) = 0
<1>1. ASSUME NEW i \in 1..Len(d) PROVE d[i] # s
  <2>1. Len(d) \in 1..Len(d) /\ d # <<>>
        OBVIOUS
  <2>2. LastOf(d) = d[Len(d)]
        BY <2>1 DEF LastOf
  <2>3. d[i] <= d[Len(d)]
        BY <2>1
  <2>4. d[i] \in Nat /\ d[Len(d)] \in Nat
        BY <2>1
  <2> QED  BY <2>2, <2>3, <2>4
<1>2. {i \in 1..Len(d) : d[i] = s} = {}
      BY <1>1
<1> QED  BY <1>2, FS_EmptySet DEF Copies

\* An ascending history stays ascending when nothing older is appended.
LEMMA AscendingAppend ==
  ASSUME NEW d \in Seq(Nat \ {0}), NEW s \in Nat \ {0}, LastOf(d) <= s,
         \A i, j \in 1..Len(d) : i < j => d[i] <= d[j]
  PROVE  \A i, j \in 1..Len(Append(d, s)) :
            i < j => Append(d, s)[i] <= Append(d, s)[j]
<1> DEFINE e == Append(d, s)
<1>1. /\ Len(e) = Len(d) + 1
      /\ e[Len(d) + 1] = s
      /\ \A i \in 1..Len(d) : e[i] = d[i]
      BY AppendFacts
<1>2. Len(d) \in Nat /\ \A i \in 1..Len(d) : d[i] \in Nat
      OBVIOUS
<1>3. ASSUME NEW i \in 1..Len(d) PROVE d[i] <= s
  <2>1. Len(d) \in 1..Len(d) /\ d # <<>>
        BY <1>2
  <2>2. LastOf(d) = d[Len(d)]
        BY <2>1 DEF LastOf
  <2>3. i < Len(d) => d[i] <= d[Len(d)]
        BY <2>1
  <2> QED  BY <1>2, <2>1, <2>2, <2>3
<1> HIDE DEF e
<1> SUFFICES ASSUME NEW i \in 1..(Len(d) + 1), NEW j \in 1..(Len(d) + 1), i < j
             PROVE  e[i] <= e[j]
    BY <1>1 DEF e
<1>4. i \in 1..Len(d)
      BY <1>2
<1>5. CASE j = Len(d) + 1
      BY <1>1, <1>3, <1>4, <1>5
<1>6. CASE j \in 1..Len(d)
      BY <1>1, <1>4, <1>6
<1>7. j \in 1..Len(d) \/ j = Len(d) + 1
      BY <1>2
<1> QED  BY <1>5, <1>6, <1>7

-----------------------------------------------------------------------------
(* Steps with restarts                                                     *)

Restart(n) == Reboot(n) \/ RebootAfterAck(n)

\* What a restart does, in a call or between acknowledging and returning.
LEMMA RestartEffect ==
  ASSUME BootType, NEW n \in Node, Restart(n)
  PROVE  /\ TypeOK'
         /\ UNCHANGED <<sent, delivered>>
         /\ reboots' = [reboots EXCEPT ![n] = @ + 1]
         /\ call'[n].phase = "idle"
         /\ \A k \in Node \ {n} : /\ call'[k] = call[k] /\ lastSeq'[k] = lastSeq[k]
                                  /\ seenIds'[k] = seenIds[k]
         /\ \A m \in Node : NoNewRequest(m)
         /\ rxBuf'[n] = NoFrame
<1> USE DEF BootType
<1>1. /\ UNCHANGED <<sent, delivered, acked>>
      /\ reboots' = [reboots EXCEPT ![n] = @ + 1]
      /\ lastSeq' = [lastSeq EXCEPT ![n] = 0]
      /\ seenIds' = [seenIds EXCEPT ![n] = [m \in Node |-> 0]]
      /\ call' = [call EXCEPT ![n] = Idle]
      BY DEF Restart, Reboot, RebootAfterAck, historyVars
<1>2. /\ \A m \in Node : NoNewRequest(m)
      /\ rxBuf'[n] = NoFrame
      /\ rxBuf' \in [Node -> Frame \cup {NoFrame}]
  <2>1. CASE Reboot(n)
    <3>1. Consume(n)
          BY <2>1 DEF Reboot
    <3>2. rxBuf' \in [Node -> Frame \cup {NoFrame}]
          BY <3>1 DEF Consume, TypeOK
    <3> QED  BY <3>1, <3>2, ConsumeBuffers
  <2>2. CASE RebootAfterAck(n)
    <3>1. Acknowledge(n, rxBuf[n]) /\ rxBuf[n] # NoFrame
          BY <2>2 DEF RebootAfterAck, Polling
    <3>2. rxBuf' \in [Node -> Frame \cup {NoFrame}]
          BY <3>1, BufferedFrame, AirType DEF Acknowledge, TypeOK
    <3> QED  BY <3>1, <3>2, AcknowledgeBuffers
  <2> QED  BY <2>1, <2>2 DEF Restart
<1>3. 0 \in Byte /\ Idle \in Call
      BY ByteAssumption DEF Byte, Idle, Call, Phase, Address
<1>4. TypeOK'
      BY <1>1, <1>2, <1>3 DEF TypeOK
<1> QED  BY <1>1, <1>2, <1>4 DEF TypeOK, Idle

\* Every step is one of the protocol, in which nobody restarts, or a restart.
LEMMA RebootCases ==
  ASSUME RebootNext
  PROVE  \E n \in Node : \/ Next /\ UNCHANGED reboots /\ \E d \in Address : SendtoWait(n, d)
                         \/ Next /\ UNCHANGED reboots /\ Transmit(n)
                         \/ Next /\ UNCHANGED reboots /\ RecvNew(n)
                         \/ Next /\ UNCHANGED reboots /\ Quiet(n)
                         \/ Restart(n)
BY NextCases DEF RebootNext, Restart

\* Only sendtoWait begins a call.
LEMMA NoCallBegins ==
  ASSUME TypeOK, NEW n \in Node, Transmit(n) \/ RecvNew(n) \/ Quiet(n)
  PROVE  \A k \in Node : call'[k].phase # "idle" => call[k].phase # "idle"
<1>1. CASE Transmit(n)
      BY <1>1 DEF Transmit, TypeOK
<1>2. CASE RecvNew(n)
      BY <1>2 DEF RecvNew
<1>3. CASE Quiet(n)
  <2>1. CASE GiveUp(n) \/ TakeAck(n)
    <3>1. call' = [call EXCEPT ![n] = Idle] /\ Idle.phase = "idle"
          BY <2>1 DEF GiveUp, TakeAck, Idle
    <3> QED  BY <3>1 DEF TypeOK
  <2>2. CASE Timeout(n)
        BY <2>2 DEF Timeout, TypeOK
  <2>3. CASE ReAcknowledge(n) \/ Discard(n) \/ DropLateAck(n) \/ RecvDuplicate(n)
        BY <2>3 DEF ReAcknowledge, Discard, DropLateAck, RecvDuplicate
  <2> QED  BY <1>3, <2>1, <2>2, <2>3 DEF Quiet
<1> QED  BY <1>1, <1>2, <1>3

LEMMA BootTypeStep ==
  ASSUME BootInv, RebootNext
  PROVE  BootType'
<1> USE DEF BootInv, BootType
<1>1. PICK n \in Node : \/ Next /\ UNCHANGED reboots
                        \/ Restart(n)
      BY RebootCases
<1>2. CASE Next /\ UNCHANGED reboots
      BY <1>2, TypeStep, InCallSentStep
<1>3. CASE Restart(n)
  <2>1. InCallSent'
        BY <1>3, RestartEffect DEF InCallSent
  <2>2. reboots' \in [Node -> Nat]
        BY <1>3, RestartEffect
  <2> QED  BY <1>3, <2>1, <2>2, RestartEffect
<1> QED  BY <1>1, <1>2, <1>3

\* What is known of a request that is handed over.
LEMMA NewIsUnsettled ==
  ASSUME BootInv, NEW n \in Node, RecvNew(n)
  PROVE  LET f == rxBuf[n]
             d == delivered[n][f.from]
         IN  /\ f.from \in Node /\ f.serial \in Nat \ {0}
             /\ d \in Seq(Nat \ {0}) /\ LastOf(d) \in Nat
             /\ LastOf(d) <= f.serial /\ f.serial <= Len(sent[f.from])
             /\ Copies(d, f.serial) <= reboots[n]
<1> USE DEF BootInv, BootType
<1> DEFINE f == rxBuf[n]
           d == delivered[n][f.from]
<1>1. f.from \in Node /\ f.serial \in Nat \ {0}
      BY RecvNewEffect
<1>2. d \in Seq(Nat \ {0}) /\ LastOf(d) \in Nat
      BY <1>1, Types
<1>3. BootRequestOK(n) /\ f.id # seenIds[n][f.from]
      BY DEF RecvNew, Polling, BootRequests
<1>4. LastOf(d) <= f.serial /\ f.serial <= Len(sent[f.from])
      BY <1>3 DEF BootRequestOK
<1>5. Copies(d, f.serial) <= reboots[n]
  <2>1. CASE f.serial = LastOf(d)
        BY <1>3, <2>1 DEF BootRequestOK, Settled
  <2>2. CASE f.serial # LastOf(d)
    <3>1. LastOf(d) < f.serial
          BY <1>1, <1>2, <1>4, <2>2
    <3>2. \A i, j \in 1..Len(d) : i < j => d[i] <= d[j]
          BY <1>1 DEF Ascending
    <3> HIDE DEF d, f
    <3>3. Copies(d, f.serial) = 0
          BY <1>1, <1>2, <3>1, <3>2, NewerIsAbsent
    <3> QED  BY <3>3
  <2> QED  BY <2>1, <2>2
<1> QED  BY <1>1, <1>2, <1>4, <1>5

LEMMA BootBehindStep ==
  ASSUME BootInv, RebootNext
  PROVE  Behind'
<1>0. TypeOK /\ Behind
      BY DEF BootInv, BootType
<1>1. PICK n \in Node : \/ \E d \in Address : SendtoWait(n, d)
                        \/ Transmit(n) \/ RecvNew(n) \/ Quiet(n) \/ Restart(n)
      BY RebootCases
<1>2. ASSUME NEW d \in Address, SendtoWait(n, d) PROVE Behind'
  <2>1. \A m, k \in Node : LastOf(delivered[m][k]) \in Nat /\ Len(sent[k]) \in Nat
        BY <1>0, Types
  <2>2. \A k \in Node : Len(sent'[k]) >= Len(sent[k]) /\ Len(sent'[k]) \in Nat
        BY <1>0, <1>2, SentGrows
  <2>3. UNCHANGED delivered
        BY <1>0, <1>2, SubmitEffect
  <2>4. \A m, k \in Node : LastOf(delivered[m][k]) <= Len(sent[k])
        BY <1>0 DEF Behind
  <2>5. \A m, k \in Node : LastOf(delivered[m][k]) <= Len(sent'[k])
    <3> TAKE m, k \in Node
    <3>1. /\ LastOf(delivered[m][k]) \in Nat /\ Len(sent[k]) \in Nat /\ Len(sent'[k]) \in Nat
          /\ LastOf(delivered[m][k]) <= Len(sent[k]) /\ Len(sent[k]) <= Len(sent'[k])
          BY <2>1, <2>2, <2>4
    <3> QED  BY <3>1
  <2> QED  BY <2>3, <2>5 DEF Behind
<1>3. CASE Transmit(n)
  <2>1. UNCHANGED <<sent, delivered>>
        BY <1>3 DEF Transmit, historyVars
  <2> QED  BY <1>0, <2>1 DEF Behind
<1>4. CASE RecvNew(n)
  <2>1. rxBuf[n].serial <= Len(sent[rxBuf[n].from])
        BY <1>4, NewIsUnsettled
  <2>2. UNCHANGED sent
        BY <1>4 DEF RecvNew
  <2> DEFINE k == rxBuf[n].from
  <2>3. /\ k \in Node
        /\ LastOf(delivered'[n][k]) = rxBuf[n].serial
        /\ \A m, l \in Node : m # n \/ l # k => delivered'[m][l] = delivered[m][l]
        BY <1>0, <1>4, RecvNewEffect
  <2> HIDE DEF k
  <2>4. LastOf(delivered'[n][k]) <= Len(sent[k])
        BY <2>1, <2>3 DEF k
  <2>5. \A m, l \in Node : LastOf(delivered'[m][l]) <= Len(sent[l])
        BY <1>0, <2>3, <2>4 DEF Behind
  <2> QED  BY <2>2, <2>5 DEF Behind
<1>5. CASE Quiet(n)
      BY <1>0, <1>5, QuietEffect DEF Behind
<1>6. CASE Restart(n)
  <2>1. UNCHANGED <<sent, delivered>>
        BY <1>6, RestartEffect DEF BootInv
  <2> QED  BY <1>0, <2>1 DEF Behind
<1> QED  BY <1>1, <1>2, <1>3, <1>4, <1>5, <1>6

LEMMA AscendingStep ==
  ASSUME BootInv, RebootNext
  PROVE  Ascending'
<1> USE DEF BootInv, BootType
<1>1. PICK n \in Node : \/ \E d \in Address : SendtoWait(n, d)
                        \/ Transmit(n) \/ RecvNew(n) \/ Quiet(n) \/ Restart(n)
      BY RebootCases
<1>2. CASE ~RecvNew(n)
  <2>1. UNCHANGED delivered
        BY <1>1, <1>2, QuietEffect, RestartEffect DEF SendtoWait, Transmit, historyVars
  <2> QED  BY <2>1 DEF Ascending
<1>3. CASE RecvNew(n)
  <2> DEFINE f == rxBuf[n]
             k == f.from
             d == delivered[n][k]
  <2>1. /\ k \in Node /\ f.serial \in Nat \ {0} /\ d \in Seq(Nat \ {0})
        /\ LastOf(d) <= f.serial
        BY <1>3, NewIsUnsettled
  <2>2. delivered'[n][k] = Append(d, f.serial)
        BY <1>3, RecvNewEffect
  <2>3. \A i, j \in 1..Len(d) : i < j => d[i] <= d[j]
        BY <2>1 DEF Ascending
  <2>4. \A m, l \in Node : m # n \/ l # k => delivered'[m][l] = delivered[m][l]
        BY <1>3, RecvNewEffect
  <2> HIDE DEF d, f
  <2>5. \A i, j \in 1..Len(delivered'[n][k]) :
           i < j => delivered'[n][k][i] <= delivered'[n][k][j]
        BY <2>1, <2>2, <2>3, AscendingAppend
  <2> HIDE DEF k
  <2>6. SUFFICES ASSUME NEW m \in Node, NEW l \in Node
                 PROVE  \A i, j \in 1..Len(delivered'[m][l]) :
                           i < j => delivered'[m][l][i] <= delivered'[m][l][j]
        BY DEF Ascending
  <2>7. CASE m = n /\ l = k
        BY <2>5, <2>7
  <2>8. CASE m # n \/ l # k
        BY <2>4, <2>8 DEF Ascending
  <2> QED  BY <2>7, <2>8
<1> QED  BY <1>2, <1>3

LEMMA FewCopiesStep ==
  ASSUME BootInv, RebootNext
  PROVE  FewCopies'
<1> USE DEF BootInv, BootType
<1>1. PICK n \in Node : \/ UNCHANGED reboots /\ \E d \in Address : SendtoWait(n, d)
                        \/ UNCHANGED reboots /\ Transmit(n)
                        \/ UNCHANGED reboots /\ RecvNew(n)
                        \/ UNCHANGED reboots /\ Quiet(n)
                        \/ Restart(n)
      BY RebootCases
<1>2. SUFFICES ASSUME NEW m \in Node, NEW l \in Node, NEW v \in Nat \ {0}
               PROVE  Copies(delivered'[m][l], v) <= 1 + reboots'[m]
      BY DEF FewCopies, Copies
<1>3. Copies(delivered[m][l], v) <= 1 + reboots[m]
      BY DEF FewCopies
<1>4. Copies(delivered[m][l], v) \in Nat /\ reboots[m] \in Nat
  <2>1. delivered[m][l] \in Seq(Nat \ {0})
        BY Types
  <2>2. v \in Nat \ {0}
        OBVIOUS
  <2> QED  BY <2>1, <2>2, CopiesAppend
<1>5. CASE UNCHANGED reboots /\ ~RecvNew(n) /\ ~Restart(n)
  <2>1. UNCHANGED delivered
        BY <1>1, <1>5, QuietEffect DEF SendtoWait, Transmit, historyVars
  <2> QED  BY <1>3, <1>5, <2>1
<1>6. CASE UNCHANGED reboots /\ RecvNew(n)
  <2> DEFINE f == rxBuf[n]
             d == delivered[n][f.from]
  <2>1. /\ f.from \in Node /\ f.serial \in Nat \ {0} /\ d \in Seq(Nat \ {0})
        /\ Copies(d, f.serial) <= reboots[n]
        BY <1>6, NewIsUnsettled
  <2>2. delivered'[n][f.from] = Append(d, f.serial)
        BY <1>6, RecvNewEffect
  <2>3. CASE m = n /\ l = f.from
    <3>1. Copies(Append(d, f.serial), v) = IF v = f.serial THEN Copies(d, v) + 1 ELSE Copies(d, v)
          BY <2>1, CopiesAppend
    <3>2. reboots'[m] = reboots[m]
          BY <1>6
    <3>3. delivered[m][l] = d /\ delivered'[m][l] = Append(d, f.serial)
          BY <2>2, <2>3
    <3>4. v = f.serial => Copies(d, v) <= reboots[m]
          BY <2>1, <2>3
    <3> HIDE DEF d, f
    <3> QED  BY <1>3, <1>4, <3>1, <3>2, <3>3, <3>4
  <2>4. CASE m # n \/ l # f.from
    <3>1. delivered'[m][l] = delivered[m][l]
          BY <1>6, <2>4, RecvNewEffect
    <3> QED  BY <1>3, <1>6, <3>1
  <2> QED  BY <2>3, <2>4
<1>7. CASE Restart(n)
  <2>1. UNCHANGED delivered /\ reboots'[m] \in {reboots[m], reboots[m] + 1}
        BY <1>7, RestartEffect
  <2> QED  BY <1>3, <1>4, <2>1
<1> QED  BY <1>1, <1>5, <1>6, <1>7

LEMMA BootRequestsStep ==
  ASSUME BootInv, RebootNext
  PROVE  BootRequests'
<1> USE DEF BootInv, BootType
<1>1. PICK n \in Node : \/ UNCHANGED reboots /\ \E d \in Address : SendtoWait(n, d)
                        \/ UNCHANGED reboots /\ Transmit(n)
                        \/ UNCHANGED reboots /\ RecvNew(n)
                        \/ UNCHANGED reboots /\ Quiet(n)
                        \/ Restart(n)
      BY RebootCases
<1>2. SUFFICES ASSUME NEW m \in Node, rxBuf'[m] # NoFrame, ~rxBuf'[m].ack
               PROVE  BootRequestOK(m)'
      BY DEF BootRequests
<1> DEFINE f == rxBuf[m]
           k == f.from
<1>3. ASSUME rxBuf'[m] = f
      PROVE  BootRequestOK(m) /\ k \in Node /\ f.serial \in Nat \ {0}
      BY <1>2, <1>3, BufferedFrame DEF BootRequests
<1>4. ASSUME NEW d \in Address, UNCHANGED reboots, SendtoWait(n, d) PROVE BootRequestOK(m)'
  <2>1. rxBuf'[m] = f /\ UNCHANGED <<delivered, seenIds>>
        BY <1>4, SubmitEffect
  <2>2. BootRequestOK(m) /\ k \in Node /\ f.serial \in Nat \ {0}
        BY <1>3, <2>1
  <2>3. /\ Len(sent[k]) \in Nat
        /\ Len(sent'[k]) = IF k = n THEN Len(sent[k]) + 1 ELSE Len(sent[k])
        BY <1>4, <2>2, SentGrows
  <2>4. k # n => call'[k] = call[k] /\ lastSeq'[k] = lastSeq[k]
        BY <1>4, <2>2 DEF SendtoWait, TypeOK
  <2> HIDE DEF k
  <2>5. f.serial <= Len(sent[k])
        BY <2>2 DEF BootRequestOK, k
  <2>6. f.serial = Len(sent'[k]) => k # n
        BY <2>2, <2>3, <2>5
  <2>7. f.serial <= Len(sent'[k])
        BY <2>2, <2>3, <2>5
  <2> QED  BY <1>4, <2>1, <2>2, <2>3, <2>4, <2>6, <2>7 DEF BootRequestOK, Settled, k
<1>5. CASE UNCHANGED reboots /\ Transmit(n)
  <2>1. UNCHANGED <<sent, delivered, seenIds, lastSeq>>
        BY <1>5 DEF Transmit, historyVars
  <2>2. \A j \in Node : call'[j].phase # "idle" => call[j].phase # "idle"
        BY <1>5, NoCallBegins
  <2>3. \/ rxBuf'[m] = DataFrame(n)
        \/ rxBuf'[m] = f
        BY <1>2, <1>5, AirCases DEF Transmit
  <2>4. CASE rxBuf'[m] = DataFrame(n)
    <3>1. /\ DataFrame(n).from = n
          /\ DataFrame(n).id = lastSeq[n]
          /\ DataFrame(n).serial = Len(sent[n])
          BY DEF DataFrame
    <3>2. call[n].phase # "idle"
          BY <1>5 DEF Transmit
    <3>3. Len(sent[n]) = LastOf(delivered[m][n]) => Settled(m, n, Len(sent[n]), lastSeq[n])
          BY <3>2 DEF BootCalls
    <3>4. LastOf(delivered[m][n]) <= Len(sent[n]) /\ Len(sent[n]) <= Len(sent[n])
          BY Types DEF Behind
    <3> QED  BY <1>5, <2>1, <2>4, <3>1, <3>3, <3>4 DEF BootRequestOK, Settled
  <2>5. CASE rxBuf'[m] = f
        BY <1>3, <1>5, <2>1, <2>2, <2>5 DEF BootRequestOK, Settled
  <2> QED  BY <2>3, <2>4, <2>5
<1>6. CASE UNCHANGED reboots /\ (RecvNew(n) \/ Quiet(n))
  <2>1. UNCHANGED <<sent, lastSeq>>
        BY <1>6, QuietEffect DEF RecvNew
  <2>2. \A j \in Node : call'[j].phase # "idle" => call[j].phase # "idle"
        BY <1>6, NoCallBegins
  <2>3. rxBuf'[m] = f /\ (RecvNew(n) => m # n)
        BY <1>2, <1>6, QuietEffect, RecvNewEffect DEF NoNewRequest
  <2>4. BootRequestOK(m) /\ k \in Node
        BY <1>3, <2>3
  <2>5. delivered'[m][k] = delivered[m][k] /\ seenIds'[m][k] = seenIds[m][k]
        BY <1>6, <2>3, <2>4, QuietEffect, RecvNewEffect
  <2> QED  BY <1>6, <2>1, <2>2, <2>3, <2>4, <2>5 DEF BootRequestOK, Settled
<1>7. CASE Restart(n)
  <2>1. UNCHANGED <<sent, delivered>> /\ reboots' = [reboots EXCEPT ![n] = @ + 1]
        BY <1>7, RestartEffect
  <2>2. rxBuf'[m] = f /\ m # n
        BY <1>2, <1>7, RestartEffect DEF NoNewRequest
  <2>3. BootRequestOK(m) /\ k \in Node
        BY <1>3, <2>2
  <2>4. seenIds'[m] = seenIds[m] /\ reboots'[m] = reboots[m]
        BY <1>7, <2>1, <2>2, RestartEffect
  <2>5. call'[k].phase # "idle" => call[k].phase # "idle" /\ lastSeq'[k] = lastSeq[k]
        BY <1>7, <2>3, RestartEffect
  <2> QED  BY <2>1, <2>2, <2>3, <2>4, <2>5 DEF BootRequestOK, Settled
<1> QED  BY <1>1, <1>4, <1>5, <1>6, <1>7

LEMMA BootCallsStep ==
  ASSUME BootInv, RebootNext
  PROVE  BootCalls'
<1> USE DEF BootInv, BootType
<1>1. PICK n \in Node : \/ UNCHANGED reboots /\ \E d \in Address : SendtoWait(n, d)
                        \/ UNCHANGED reboots /\ Transmit(n)
                        \/ UNCHANGED reboots /\ RecvNew(n)
                        \/ UNCHANGED reboots /\ Quiet(n)
                        \/ Restart(n)
      BY RebootCases
<1>2. SUFFICES ASSUME NEW m \in Node, NEW k \in Node, call'[k].phase # "idle",
                      LastOf(delivered'[m][k]) = Len(sent'[k])
               PROVE  Settled(m, k, Len(sent[k]), lastSeq[k])'
      BY DEF BootCalls
<1>3. /\ LastOf(delivered[m][k]) <= Len(sent[k])
      /\ Len(sent[k]) \in Nat /\ LastOf(delivered[m][k]) \in Nat
      BY Types DEF Behind
<1>4. ASSUME NEW d \in Address, UNCHANGED reboots, SendtoWait(n, d)
      PROVE  Settled(m, k, Len(sent[k]), lastSeq[k])'
  <2>1. UNCHANGED <<seenIds, delivered>>
        BY <1>4, SubmitEffect
  <2>2. k # n
        BY <1>2, <1>3, <1>4, <2>1, SubmitEffect
  <2>3. call'[k] = call[k] /\ sent'[k] = sent[k] /\ lastSeq'[k] = lastSeq[k]
        BY <1>4, <2>2, SubmitEffect DEF SendtoWait, TypeOK
  <2> QED  BY <1>2, <1>4, <2>1, <2>3 DEF BootCalls, Settled
<1>5. CASE UNCHANGED reboots /\ (Transmit(n) \/ Quiet(n))
  <2>1. UNCHANGED <<sent, lastSeq, seenIds, delivered>>
        BY <1>5, QuietEffect DEF Transmit, historyVars
  <2>2. call[k].phase # "idle"
        BY <1>2, <1>5, NoCallBegins
  <2> QED  BY <1>2, <1>5, <2>1, <2>2 DEF BootCalls, Settled
<1>6. CASE UNCHANGED reboots /\ RecvNew(n)
  <2>1. UNCHANGED <<sent, lastSeq, call>>
        BY <1>6 DEF RecvNew
  <2> DEFINE f == rxBuf[n]
  <2>2. CASE m = n /\ k = f.from
    <3>1. LastOf(delivered'[m][k]) = f.serial /\ seenIds'[m][k] = f.id
          BY <1>6, <2>2, RecvNewEffect
    <3>2. BootRequestOK(n)
          BY <1>6 DEF RecvNew, Polling, BootRequests
    <3>3. f.id = lastSeq[k]
          BY <1>2, <2>1, <2>2, <3>1, <3>2 DEF BootRequestOK
    <3> QED  BY <2>1, <3>1, <3>3 DEF Settled
  <2>3. CASE m # n \/ k # f.from
    <3>1. delivered'[m][k] = delivered[m][k] /\ seenIds'[m][k] = seenIds[m][k]
          BY <1>6, <2>3, RecvNewEffect
    <3> QED  BY <1>2, <1>6, <2>1, <3>1 DEF BootCalls, Settled
  <2> QED  BY <2>2, <2>3
<1>7. CASE Restart(n)
  <2>1. UNCHANGED <<sent, delivered>> /\ reboots' = [reboots EXCEPT ![n] = @ + 1]
        BY <1>7, RestartEffect
  <2>2. k # n /\ call[k].phase # "idle" /\ lastSeq'[k] = lastSeq[k]
        BY <1>2, <1>7, RestartEffect
  <2>3. CASE m # n
    <3>1. seenIds'[m] = seenIds[m] /\ reboots'[m] = reboots[m]
          BY <1>7, <2>1, <2>3, RestartEffect
    <3> QED  BY <1>2, <2>1, <2>2, <3>1 DEF BootCalls, Settled
  <2>4. CASE m = n
    <3>1. Len(sent[k]) \in Nat \ {0}
      <4>1. sent[k] # <<>> /\ sent[k] \in Seq(Address)
            BY <2>2 DEF InCallSent, TypeOK
      <4> QED  BY <4>1
    <3>2. Copies(delivered[m][k], Len(sent[k])) <= 1 + reboots[m]
          BY <3>1 DEF FewCopies
    <3>3. reboots'[m] = 1 + reboots[m]
          BY <2>1, <2>4
    <3> QED  BY <2>1, <3>2, <3>3 DEF Settled
  <2> QED  BY <2>3, <2>4
<1> QED  BY <1>1, <1>4, <1>5, <1>6, <1>7

LEMMA BootInit == RebootInit => BootInv
<1> SUFFICES ASSUME RebootInit PROVE BootInv
    OBVIOUS
<1>1. /\ Init /\ reboots = [n \in Node |-> 0]
      /\ TypeOK
      BY InitType DEF RebootInit
<1>2. \A m, n \in Node : /\ delivered[m][n] = <<>> /\ sent[n] = <<>>
                         /\ call[n].phase = "idle" /\ rxBuf[n] = NoFrame
      BY <1>1 DEF Init, Idle
<1>3. BootType
      BY <1>1, <1>2 DEF BootType, InCallSent
<1>4. Behind /\ Ascending
      BY <1>2 DEF Behind, Ascending, LastOf
<1>5. FewCopies
  <2>1. ASSUME NEW v PROVE Copies(<<>>, v) = 0
    <3>1. {i \in 1..Len(<<>>) : <<>>[i] = v} = {}
          OBVIOUS
    <3> QED  BY <3>1, FS_EmptySet DEF Copies
  <2> QED  BY <1>1, <1>2, <2>1 DEF FewCopies
<1> QED  BY <1>2, <1>3, <1>4, <1>5 DEF BootInv, BootRequests, BootCalls

LEMMA BootStep == BootInv /\ [RebootNext]_rebootVars => BootInv'
<1> SUFFICES ASSUME BootInv, [RebootNext]_rebootVars PROVE BootInv'
    OBVIOUS
<1>1. CASE RebootNext
      BY <1>1, BootTypeStep, BootBehindStep, AscendingStep, FewCopiesStep,
         BootRequestsStep, BootCallsStep DEF BootInv
<1>2. CASE UNCHANGED rebootVars
  <2>1. UNCHANGED <<lastSeq, seenIds, call, rxBuf, sent, delivered, acked, reboots>>
        BY <1>2 DEF rebootVars
  <2>2. BootType'
        BY <2>1 DEF BootInv, BootType, TypeOK, InCallSent
  <2>3. Behind' /\ Ascending' /\ FewCopies'
        BY <2>1 DEF BootInv, Behind, Ascending, FewCopies, Copies
  <2>4. BootRequests' /\ BootCalls'
        BY <2>1 DEF BootInv, BootRequests, BootRequestOK, BootCalls, Settled, Copies
  <2> QED  BY <2>2, <2>3, <2>4 DEF BootInv
<1> QED  BY <1>1, <1>2

\* However often and wherever nodes restart, and although ids begin again and
\* may be taken for older ones: a boot hands a message over at most once and
\* none after a newer one (_seenIds in recvfromAck, all of it in RAM).
THEOREM OncePerBootHolds == RebootSpec => []OncePerBoot
<1>1. BootInv => OncePerBoot
  <2> SUFFICES ASSUME BootInv, NEW m \in Node, NEW n \in Node
               PROVE  LET d == delivered[m][n] IN
                      /\ \A i, j \in 1..Len(d) : i < j => d[i] <= d[j]
                      /\ \A i \in 1..Len(d) :
                           Cardinality({j \in 1..Len(d) : d[j] = d[i]}) <= 1 + reboots[m]
      BY DEF OncePerBoot
  <2> DEFINE d == delivered[m][n]
  <2>1. \A i, j \in 1..Len(d) : i < j => d[i] <= d[j]
        BY DEF BootInv, Ascending
  <2>2. d \in Seq(Nat \ {0})
        BY Types DEF BootInv, BootType
  <2>3. ASSUME NEW i \in 1..Len(d) PROVE Copies(d, d[i]) <= 1 + reboots[m]
    <3>1. d[i] \in Nat \ {0}
          BY <2>2
    <3> QED  BY <3>1 DEF BootInv, FewCopies
  <2> QED  BY <2>1, <2>3 DEF Copies
<1> QED  BY <1>1, BootInit, BootStep, PTL DEF RebootSpec
=============================================================================
