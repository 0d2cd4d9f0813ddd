--------------------- MODULE ManagedSerialDeviceProofs ---------------------
(***************************************************************************)
(* Proofs about ManagedSerialDevice, for a queue of any size and any number*)
(* of commands and chains: types, that an answer runs the callback of the  *)
(* command that was sent, and that the queue keeps what it was given while *)
(* it is used for two commands at most.                                    *)
(***************************************************************************)
EXTENDS ManagedSerialDevice, SequenceTheorems, TLAPS

\* An answer is awaited for a command that is in the queue.
Busy == processing => queueLength > 0

\* Slot by slot what KeptWhileShallow says, for commands that are all different.
InOrder == /\ queueLength <= 2 /\ Len(open) = queueLength
           /\ \A i \in 1..queueLength : open[i] = queue[i - 1].id
           /\ \A i \in 0..queueLength - 1 : queue[i].id \in 1..accepted
           /\ queueLength = 2 => queue[0].id # queue[1].id

ModemInv == TypeOK /\ Busy /\ AnswersOwn /\ ("shallow" \in care => InOrder)
-----------------------------------------------------------------------------
(* The operations on the array *)

Queue == [Index -> Command]

LEMMA Shifts ==
  ASSUME NEW q \in Queue, NEW n \in 1..Size
  PROVE  /\ ShiftLeft(q, n) \in Queue
         /\ ShiftLeft(q, n)[0] = IF n > 1 THEN q[n - 1] ELSE q[0]
BY SizeAssumption DEF ShiftLeft, Queue, Index

LEMMA Puts ==
  ASSUME NEW q \in Queue, NEW n \in 0..Size, n # Size, NEW c \in Command
  PROVE  /\ Put(q, n, c) \in Queue /\ Put(q, n, c)[n] = c
         /\ \A i \in Index : i # n => Put(q, n, c)[i] = q[i]
         /\ PutNext(q, n, c) \in Queue /\ PutNext(q, n, c)[0] = c
         /\ ShiftRight(q, n) \in Queue /\ ShiftRight(q, n)[0] = q[0]
BY SizeAssumption DEF Put, PutNext, ShiftRight, Queue, Index

LEMMA FreshType ==
  ASSUME TypeOK, NEW links \in 0..Links, NEW retry \in BOOLEAN, NEW late \in BOOLEAN,
         accepted < MaxCommands
  PROVE  /\ Fresh(links, retry, late) \in Command
         /\ Fresh(links, retry, late).id = accepted + 1 /\ accepted + 1 \in 0..MaxCommands
BY BoundsAssumption DEF Fresh, Command, TypeOK

\* The command that ends is taken out of those open; in order, it is the first.
LEMMA EndedIs ==
  ASSUME TypeOK, NEW id
  PROVE  /\ Ended(id) \in Seq(0..MaxCommands)
         /\ Len(open) > 0 /\ open[1] = id /\ (\A k \in 2..Len(open) : open[k] # id) =>
              /\ Len(Ended(id)) = Len(open) - 1
              /\ \A i \in 1..Len(open) - 1 : Ended(id)[i] = open[i + 1]
<1>1. open \in Seq(0..MaxCommands)
  BY DEF TypeOK
<1>2. CASE id \notin Range(open)
  <2>1. Len(open) > 0 => open[1] \in Range(open)
    BY <1>1 DEF Range
  <2> QED  BY <1>1, <1>2, <2>1 DEF Ended
<1>3. CASE id \in Range(open)
  <2> DEFINE k == CHOOSE j \in DOMAIN open : open[j] = id
  <2>1. k \in 1..Len(open) /\ open[k] = id
    BY <1>1, <1>3 DEF Range
  <2>2. Ended(id) = SubSeq(open, 1, k - 1) \o SubSeq(open, k + 1, Len(open))
    BY <1>3 DEF Ended, RemoveAt
  <2> HIDE DEF k
  <2>3. /\ SubSeq(open, 1, k - 1) \in Seq(0..MaxCommands)
        /\ SubSeq(open, k + 1, Len(open)) \in Seq(0..MaxCommands)
    <3>1. \A i \in 1..Len(open) : open[i] \in 0..MaxCommands
      BY <1>1, ElementOfSeq
    <3>2. k - 1 \in Int /\ k + 1 \in Int /\ Len(open) \in Int /\ 1 \in Int
      BY <1>1, <2>1
    <3>3. \A i \in 1..k - 1 : open[i] \in 0..MaxCommands
      BY <2>1, <3>1
    <3>4. \A i \in k + 1..Len(open) : open[i] \in 0..MaxCommands
      BY <2>1, <3>1
    <3> QED  BY <3>2, <3>3, <3>4, SubSeqProperties
  <2>4. Ended(id) \in Seq(0..MaxCommands)
    BY <2>2, <2>3, ConcatProperties
  <2>5. ASSUME Len(open) > 0, open[1] = id, \A j \in 2..Len(open) : open[j] # id
        PROVE  /\ Len(Ended(id)) = Len(open) - 1
               /\ \A i \in 1..Len(open) - 1 : Ended(id)[i] = open[i + 1]
    <3>1. k = 1 /\ Len(open) \in Nat
      BY <1>1, <2>1, <2>5
    <3>2. SubSeq(open, 1, 0) = <<>>
      BY SubSeqEmpty
    <3>3. Ended(id) = SubSeq(open, 2, Len(open))
      BY <2>2, <2>3, <3>1, <3>2, ConcatEmptySeq
    <3>4. open # <<>>
      BY <2>5
    <3>5. Ended(id) = Tail(open)
      BY <1>1, <3>3, <3>4, TailIsSubSeq
    <3>6. /\ Len(Tail(open)) = Len(open) - 1
          /\ \A i \in 1..Len(Tail(open)) : Tail(open)[i] = open[i + 1]
      BY <1>1, <3>4, HeadTailProperties
    <3> QED  BY <3>5, <3>6
  <2> QED  BY <2>4, <2>5
<1> QED  BY <1>2, <1>3

\* The first command leaves the queue, and those open.
LEMMA Leaves ==
  ASSUME TypeOK, InOrder, queueLength > 0
  PROVE  LET q == ShiftLeft(queue, queueLength) IN
         /\ Len(Ended(queue[0].id)) = queueLength - 1
         /\ \A i \in 1..queueLength - 1 : Ended(queue[0].id)[i] = q[i - 1].id
         /\ \A i \in 0..queueLength - 2 : q[i].id \in 1..accepted
         /\ queueLength - 1 # 2
<1> DEFINE q == ShiftLeft(queue, queueLength)
<1>1. queue \in Queue /\ queueLength \in 1..Size /\ queueLength \in 1..2 /\ Len(open) = queueLength
  BY SizeAssumption DEF TypeOK, Queue, InOrder
<1>2. q[0] = IF queueLength > 1 THEN queue[queueLength - 1] ELSE queue[0]
  BY <1>1, Shifts
<1>3. /\ open[1] = queue[0].id
      /\ queueLength = 2 => open[2] = queue[1].id /\ queue[1].id # queue[0].id
                            /\ queue[1].id \in 1..accepted
  BY <1>1 DEF InOrder
<1>4. \A k \in 2..Len(open) : open[k] # queue[0].id
  BY <1>1, <1>3
<1>5. /\ Len(Ended(queue[0].id)) = Len(open) - 1
      /\ \A i \in 1..Len(open) - 1 : Ended(queue[0].id)[i] = open[i + 1]
  BY <1>1, <1>3, <1>4, EndedIs
<1> HIDE DEF q
<1> QED  BY <1>1, <1>2, <1>3, <1>5 DEF q
-----------------------------------------------------------------------------
(* Steps *)

LEMMA ModemInit == Init => ModemInv
BY SizeAssumption, BoundsAssumption
   DEF Init, ModemInv, TypeOK, Busy, AnswersOwn, InOrder, Blank, Command, Index

\* Executing and refusing a command.
LEMMA ExecuteKeeps ==
  ASSUME ModemInv, NEW next \in BOOLEAN, NEW links \in 0..Links, NEW retry \in BOOLEAN,
         NEW late \in BOOLEAN, Execute(next, Fresh(links, retry, late))
  PROVE  ModemInv'
<1> DEFINE c == Fresh(links, retry, late)
<1>1. /\ TypeOK /\ queue \in Queue /\ queueLength \in 0..Size /\ queueLength # Size
      /\ accepted < MaxCommands /\ accepted \in Nat /\ 0 \in Index
  BY SizeAssumption DEF ModemInv, TypeOK, Queue, Execute, HasRoom, Index
<1>2. c \in Command /\ c.id = accepted + 1 /\ accepted + 1 \in 0..MaxCommands
  BY <1>1, FreshType
<1> HIDE DEF c
<1>3. /\ queue' = IF next THEN PutNext(queue, queueLength, c) ELSE Put(queue, queueLength, c)
      /\ queueLength' = queueLength + 1 /\ accepted' = c.id
      /\ open' = IF next THEN <<c.id>> \o open ELSE Append(open, c.id)
      /\ care' = care \ Use(next, queueLength, processing)
      /\ UNCHANGED <<processing, expired, at, wire>>
  BY DEF Execute, c
<1>4. /\ queue' \in Queue /\ (next => queue'[0] = c)
      /\ ~next => queue'[queueLength] = c /\ \A i \in Index : i # queueLength => queue'[i] = queue[i]
  BY <1>1, <1>2, <1>3, Puts
<1>5. open' \in Seq(0..MaxCommands)
  <2>1. open \in Seq(0..MaxCommands) /\ <<c.id>> \in Seq(0..MaxCommands)
    BY <1>2 DEF ModemInv, TypeOK
  <2> QED  BY <1>2, <1>3, <2>1, ConcatProperties, AppendProperties
<1>6. TypeOK'
  <2>1. queueLength' \in 0..Size /\ accepted' \in 0..MaxCommands
    BY <1>1, <1>2, <1>3, SizeAssumption
  <2> QED  BY <1>1, <1>3, <1>4, <1>5, <2>1 DEF TypeOK, Queue
<1>7. Busy'
  BY <1>1, <1>3 DEF Busy
<1>8. AnswersOwn'
  <2> SUFFICES ASSUME processing, "patient" \in care'
               PROVE  queueLength' > 0 /\ queue'[0].id = wire
    BY <1>3 DEF AnswersOwn
  <2>1. ~next /\ "patient" \in care
    BY <1>3 DEF Use
  <2>2. queueLength > 0 /\ queue[0].id = wire
    BY <2>1 DEF ModemInv, AnswersOwn
  <2> QED  BY <1>1, <1>3, <1>4, <2>1, <2>2
<1>9. ASSUME "shallow" \in care'
      PROVE  InOrder'
  <2>1. InOrder /\ queueLength <= 1 /\ (next => queueLength = 0)
    BY <1>1, <1>3, <1>9 DEF Use, ModemInv
  <2>2. open \in Seq(0..MaxCommands) /\ Len(open) = queueLength
    BY <2>1 DEF ModemInv, TypeOK, InOrder
  <2>3. CASE queueLength = 0
    <3>1. queue'[0] = c /\ queueLength' = 1 /\ accepted' = accepted + 1
      BY <1>2, <1>3, <1>4, <2>3
    <3>2. Len(open') = 1 /\ open'[1] = c.id
      BY <1>2, <1>3, <2>2, <2>3
    <3> QED  BY <1>1, <1>2, <3>1, <3>2 DEF InOrder
  <2>4. CASE queueLength = 1
    <3>1. ~next /\ 1 \in Index
      BY <1>1, <2>1, <2>4, SizeAssumption DEF Index
    <3>2. /\ queue'[1] = c /\ queue'[0] = queue[0] /\ queueLength' = 2 /\ accepted' = accepted + 1
      BY <1>1, <1>2, <1>3, <1>4, <2>4, <3>1
    <3>3. Len(open') = 2 /\ open'[1] = open[1] /\ open'[2] = c.id
      BY <1>2, <1>3, <2>2, <2>4, <3>1
    <3>4. open[1] = queue[0].id /\ queue[0].id \in 1..accepted
      BY <2>1, <2>4 DEF InOrder
    <3> QED  BY <1>1, <1>2, <3>2, <3>3, <3>4 DEF InOrder
  <2> QED  BY <1>1, <2>1, <2>3, <2>4
<1> QED  BY <1>6, <1>7, <1>8, <1>9 DEF ModemInv

LEMMA TooLongKeeps ==
  ASSUME ModemInv, NEW next \in BOOLEAN, ExecuteTooLong(next)  PROVE ModemInv'
<1>1. /\ TypeOK /\ queue \in Queue /\ queueLength \in 0..Size /\ queueLength # Size
      /\ queue' = IF next THEN ShiftRight(queue, queueLength) ELSE queue
      /\ queueLength' = queueLength + 1
      /\ care' = care \ ({"shallow"} \cup Use(next, queueLength, processing))
      /\ UNCHANGED <<processing, expired, at, wire, accepted, open>>
  BY DEF ModemInv, TypeOK, Queue, ExecuteTooLong
<1>2. Blank \in Command
  BY BoundsAssumption DEF Blank, Command
<1>3. queue' \in Queue /\ queue'[0] = queue[0]
  BY <1>1, <1>2, Puts
<1>4. TypeOK'
  <2>1. queueLength' \in 0..Size
    BY <1>1, SizeAssumption
  <2> QED  BY <1>1, <1>3, <2>1 DEF TypeOK, Queue
<1>5. Busy' /\ AnswersOwn'
  BY <1>1, <1>3 DEF ModemInv, Busy, AnswersOwn, Use
<1>6. "shallow" \notin care'
  BY <1>1
<1> QED  BY <1>4, <1>5, <1>6 DEF ModemInv

\* The first command goes and nothing comes in its place, nor is awaited.
LEMMA GoneKeeps ==
  ASSUME ModemInv, queueLength > 0, at' \in {"out", "input", "send"}, processing' = FALSE,
         queue' = ShiftLeft(queue, queueLength), queueLength' = queueLength - 1,
         open' = Ended(queue[0].id), UNCHANGED <<expired, wire, accepted, care>>
  PROVE  ModemInv'
<1>1. TypeOK /\ queue \in Queue /\ queueLength \in 1..Size
  BY SizeAssumption DEF ModemInv, TypeOK, Queue
<1>2. queue' \in Queue /\ open' \in Seq(0..MaxCommands)
  BY <1>1, Shifts, EndedIs
<1>3. TypeOK'
  <2>1. queueLength' \in 0..Size
    BY <1>1, SizeAssumption
  <2> QED  BY <1>1, <1>2, <2>1 DEF TypeOK, Queue
<1>4. Busy' /\ AnswersOwn'
  BY DEF Busy, AnswersOwn
<1>5. ASSUME "shallow" \in care'
      PROVE  InOrder'
  <2>1. InOrder
    BY <1>5 DEF ModemInv
  <2> DEFINE q == ShiftLeft(queue, queueLength)
  <2>2. /\ Len(Ended(queue[0].id)) = queueLength - 1
        /\ \A j \in 1..queueLength - 1 : Ended(queue[0].id)[j] = q[j - 1].id
        /\ \A j \in 0..queueLength - 2 : q[j].id \in 1..accepted
        /\ queueLength - 1 # 2
    BY <1>1, <2>1, Leaves
  <2>3. queueLength \in 1..2 /\ queue' = q
    BY <1>1, <2>1 DEF InOrder
  <2> HIDE DEF q
  <2> QED  BY <2>2, <2>3 DEF InOrder
<1> QED  BY <1>3, <1>4, <1>5 DEF ModemInv

LEMMA AbortKeeps == ASSUME ModemInv, Abort  PROVE ModemInv'
<1>1. /\ queueLength > 0 /\ at' \in {"out", "input", "send"} /\ processing' = FALSE
      /\ queue' = ShiftLeft(queue, queueLength) /\ queueLength' = queueLength - 1
      /\ open' = Ended(queue[0].id) /\ UNCHANGED <<expired, wire, accepted, care>>
  BY DEF Abort
<1> QED  BY <1>1, GoneKeeps

\* A command that failed: executed again by its callback, or gone.
LEMMA TimeoutKeeps == ASSUME ModemInv, Timeout  PROVE ModemInv'
<1> DEFINE c == queue[0]
           f == Fresh(c.links, TRUE, FALSE)
<1>1. /\ TypeOK /\ queue \in Queue /\ queueLength \in 1..Size /\ c \in Command
      /\ processing' = FALSE /\ at' = "input" /\ UNCHANGED <<expired, wire>>
  BY SizeAssumption DEF ModemInv, TypeOK, Queue, Index, Timeout, Busy
<1>2. CASE c.retry /\ HasRoom(queueLength)
  <2>1. /\ queue' = ShiftLeft(PutNext(queue, queueLength, f), queueLength + 1)
        /\ queueLength' = queueLength /\ accepted' = accepted + 1
        /\ open' = <<accepted + 1>> \o Ended(c.id) /\ care' = care \ {"shallow", "final"}
        /\ queueLength # Size /\ accepted < MaxCommands
    BY <1>2 DEF Timeout, Retry, HasRoom
  <2>2. f \in Command /\ accepted + 1 \in 0..MaxCommands
    <3>1. c.links \in 0..Links
      BY <1>1 DEF Command
    <3> QED  BY <1>1, <2>1, <3>1, FreshType
  <2> HIDE DEF f
  <2>3. PutNext(queue, queueLength, f) \in Queue
    BY <1>1, <2>1, <2>2, Puts
  <2>4. queueLength + 1 \in 1..Size
    BY <1>1, <2>1, SizeAssumption
  <2>5. queue' \in Queue
    BY <2>1, <2>3, <2>4, Shifts
  <2>6. open' \in Seq(0..MaxCommands)
    <3>1. Ended(c.id) \in Seq(0..MaxCommands) /\ <<accepted + 1>> \in Seq(0..MaxCommands)
      BY <1>1, <2>2, EndedIs
    <3> QED  BY <2>1, <3>1, ConcatProperties
  <2>7. TypeOK'
    BY <1>1, <2>1, <2>2, <2>5, <2>6 DEF TypeOK, Queue
  <2> QED  BY <1>1, <2>1, <2>7 DEF ModemInv, Busy, AnswersOwn
<1>3. CASE ~(c.retry /\ HasRoom(queueLength))
  <2>1. /\ queue' = ShiftLeft(queue, queueLength) /\ queueLength' = queueLength - 1
        /\ open' = Ended(queue[0].id) /\ UNCHANGED <<accepted, care>>
    BY <1>3 DEF Timeout, Retry
  <2>2. /\ queueLength > 0 /\ at' \in {"out", "input", "send"} /\ processing' = FALSE
        /\ UNCHANGED <<expired, wire, accepted, care>>
    BY <1>1, <2>1, SizeAssumption
  <2> HIDE DEF c, f
  <2> QED  BY <2>1, <2>2, GoneKeeps
<1> QED  BY <1>2, <1>3

\* A command that was answered: another is chained behind it, or it is gone.
LEMMA MatchKeeps == ASSUME ModemInv, Match  PROVE ModemInv'
<1> DEFINE c == queue[0]
           q == ShiftLeft(queue, queueLength)
           n == queueLength - 1
           f == Fresh(c.links - 1, c.retry, FALSE)
<1>1. /\ TypeOK /\ queue \in Queue /\ queueLength \in 1..Size /\ c \in Command
      /\ at = "input" /\ processing' = FALSE /\ UNCHANGED <<expired, at, wire>>
  BY SizeAssumption DEF ModemInv, TypeOK, Queue, Index, Match, Busy
<1>2. CASE c.links > 0 /\ HasRoom(n)
  <2>1. /\ queue' = PutNext(q, n, f) /\ queueLength' = n + 1 /\ accepted' = accepted + 1
        /\ open' = <<accepted + 1>> \o Ended(c.id) /\ care' = care \ Use(TRUE, n, FALSE)
        /\ accepted < MaxCommands
    BY <1>2 DEF Match, HasRoom
  <2>2. f \in Command /\ f.id = accepted + 1 /\ accepted + 1 \in 0..MaxCommands
    <3>1. c.links - 1 \in 0..Links /\ c.retry \in BOOLEAN
      BY <1>1, <1>2, BoundsAssumption DEF Command
    <3> QED  BY <1>1, <2>1, <3>1, FreshType
  <2> HIDE DEF f
  <2>3. n \in 0..Size /\ n # Size /\ n + 1 = queueLength
    BY <1>1, SizeAssumption
  <2>4. q \in Queue
    BY <1>1, Shifts
  <2> HIDE DEF q, n
  <2>5. queue' \in Queue /\ queue'[0] = f
    BY <2>1, <2>2, <2>3, <2>4, Puts
  <2>6. Ended(c.id) \in Seq(0..MaxCommands) /\ <<accepted + 1>> \in Seq(0..MaxCommands)
    BY <1>1, <2>2, EndedIs
  <2>7. /\ open' \in Seq(0..MaxCommands) /\ Len(open') = 1 + Len(Ended(c.id))
        /\ open'[1] = accepted + 1
    BY <2>1, <2>6, ConcatProperties
  <2>8. TypeOK'
    BY <1>1, <2>1, <2>2, <2>3, <2>5, <2>7 DEF TypeOK, Queue
  <2>9. ASSUME "shallow" \in care'
        PROVE  InOrder'
    <3>1. n = 0 /\ InOrder
      BY <2>1, <2>3, <2>9 DEF Use, ModemInv
    <3>2. queueLength = 1 /\ Len(Ended(c.id)) = 0
      BY <1>1, <2>3, <3>1, Leaves
    <3>3. queueLength' = 1 /\ accepted' = accepted + 1 /\ accepted \in Nat
      BY <1>1, <2>1, <2>3, <3>2, BoundsAssumption DEF TypeOK
    <3> QED  BY <2>2, <2>5, <2>7, <3>2, <3>3 DEF InOrder
  <2> QED  BY <1>1, <2>8, <2>9 DEF ModemInv, Busy, AnswersOwn
<1>3. CASE ~(c.links > 0 /\ HasRoom(n))
  <2>1. /\ queue' = ShiftLeft(queue, queueLength) /\ queueLength' = queueLength - 1
        /\ open' = Ended(queue[0].id) /\ UNCHANGED <<accepted, care>>
    BY <1>3 DEF Match
  <2>2. /\ queueLength > 0 /\ at' \in {"out", "input", "send"} /\ processing' = FALSE
        /\ UNCHANGED <<expired, wire, accepted, care>>
    BY <1>1, <2>1, SizeAssumption
  <2> HIDE DEF c, q, n, f
  <2> QED  BY <2>1, <2>2, GoneKeeps
<1> QED  BY <1>2, <1>3

\* Sending, and the passes that change nothing in the queue.
LEMMA SendKeeps ==
  ASSUME ModemInv, NoTimeout \/ InputRead \/ Send \/ TimeoutPasses  PROVE ModemInv'
<1>1. UNCHANGED <<queue, queueLength, accepted, open, care>>
  BY DEF NoTimeout, InputRead, Send, TimeoutPasses
<1>2. queue[0] \in Command
  BY SizeAssumption DEF ModemInv, TypeOK, Index
<1>3. TypeOK'
  BY <1>1, <1>2 DEF ModemInv, TypeOK, NoTimeout, InputRead, Send, TimeoutPasses, Command
<1>4. Busy' /\ AnswersOwn'
  BY <1>1 DEF ModemInv, Busy, AnswersOwn, NoTimeout, InputRead, Send, TimeoutPasses
<1>5. InOrder => InOrder'
  BY <1>1 DEF InOrder
<1> QED  BY <1>1, <1>3, <1>4, <1>5 DEF ModemInv

LEMMA DelaysKeep == ASSUME ModemInv, DelaysPass  PROVE ModemInv'
<1>1. /\ queue' = [i \in Index |-> [queue[i] EXCEPT !.late = FALSE]]
      /\ UNCHANGED <<queueLength, processing, expired, at, wire, accepted, open, care>>
  BY DEF DelaysPass
<1>2. \A i \in Index : queue'[i] \in Command /\ queue'[i].id = queue[i].id
  BY <1>1 DEF ModemInv, TypeOK, Command
<1>3. TypeOK' /\ 0 \in Index /\ queueLength \in 0..Size
  BY <1>1, <1>2, SizeAssumption DEF ModemInv, TypeOK, Index
<1>4. Busy' /\ AnswersOwn'
  BY <1>1, <1>2, <1>3 DEF ModemInv, Busy, AnswersOwn
<1>5. InOrder => InOrder'
  <2>1. \A i \in 0..queueLength - 1 : queue'[i].id = queue[i].id
    BY <1>2, <1>3, SizeAssumption DEF Index
  <2>2. \A i \in 1..queueLength : queue'[i - 1].id = queue[i - 1].id
    BY <1>3, <2>1
  <2>3. queueLength = 2 => queue'[0].id = queue[0].id /\ queue'[1].id = queue[1].id
    BY <2>1
  <2> QED  BY <1>1, <2>1, <2>2, <2>3 DEF InOrder
<1> QED  BY <1>1, <1>3, <1>4, <1>5 DEF ModemInv

LEMMA ModemStep == ModemInv /\ [Next]_vars => ModemInv'
<1> SUFFICES ASSUME ModemInv, [Next]_vars  PROVE ModemInv'
  OBVIOUS
<1>1. CASE Loop
  BY <1>1, TimeoutKeeps, SendKeeps DEF Loop
<1>2. CASE Client
  BY <1>2, ExecuteKeeps, TooLongKeeps, AbortKeeps DEF Client
<1>3. CASE Match \/ TimeoutPasses \/ DelaysPass
  BY <1>3, MatchKeeps, SendKeeps, DelaysKeep
<1>4. CASE UNCHANGED vars
  BY <1>4 DEF vars, ModemInv, TypeOK, Busy, AnswersOwn, InOrder
<1> QED  BY <1>1, <1>2, <1>3, <1>4 DEF Next

LEMMA ModemInvariant == Spec => []ModemInv
BY ModemInit, ModemStep, PTL DEF Spec

\* No use of the queue makes it count more slots than there are, or fewer than
\* none, although refused commands are counted (ManagedSerialDevice.cpp, execute).
THEOREM ModemTypes == Spec => []TypeOK
<1>1. ModemInv => TypeOK
  BY DEF ModemInv
<1> QED  BY <1>1, ModemInvariant, PTL

\* loop() runs the callback of the command it has sent, unless a client has put
\* another in front meanwhile, for queues of any size.
THEOREM AnswerIsOwn == Spec => []AnswersOwn
<1>1. ModemInv => AnswersOwn
  BY DEF ModemInv
<1> QED  BY <1>1, ModemInvariant, PTL

\* While at most two commands wait, shiftLeft loses none and keeps their order.
THEOREM ShallowQueueKeeps == Spec => []KeptWhileShallow
<1>1. ModemInv => KeptWhileShallow
  <2> SUFFICES ASSUME ModemInv, "shallow" \in care  PROVE Waiting = open
    BY DEF KeptWhileShallow
  <2>1. InOrder /\ open \in Seq(0..MaxCommands)
    BY DEF ModemInv, TypeOK
  <2> QED  BY <2>1 DEF InOrder, Waiting
<1> QED  BY <1>1, ModemInvariant, PTL
=============================================================================
