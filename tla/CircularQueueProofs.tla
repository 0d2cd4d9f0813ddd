------------------------ MODULE CircularQueueProofs ------------------------
(***************************************************************************)
(* Proofs about CircularQueue, for every capacity: producer and consumer   *)
(* never touch the same slot, although neither holds a lock. The argument  *)
(* measures everything by its distance from m_outPos: what the consumer is *)
(* busy with lies within what is available, what the producer writes lies  *)
(* in the room behind it, and a step of either only gives the other more.  *)
(*                                                                         *)
(* From this follows that the ring is a queue: a step of one end leaves    *)
(* what the other has read, written or sifted as it was.                   *)
(***************************************************************************)
EXTENDS CircularQueue, SequenceTheorems, TLAPS

\* What a push in progress knows: its blocks fit into the room that was there
\* when it began, and the second begins where the ring does.
ProducerInv ==
  /\ prod.at = "fill" => /\ prod.b1 >= 1
                         /\ prod.b1 + prod.b2 <= Capacity - Dist(outPos, inPos)
                         /\ inPos + prod.b1 <= N
                         /\ prod.b2 > 0 => inPos + prod.b1 = N
                         /\ prod.done <= prod.b1 + prod.b2
                         /\ pushed + prod.b1 + prod.b2 <= MaxPushes
  /\ prod.at = "peeked" => ~mp /\ pushed < MaxPushes
  /\ cons.at \in {"call", "lock", "link", "store"} => mp
  /\ cons.at = "link" => prod.at = "idle"

\* What a call of the consumer in progress knows: what it has to do lies within
\* what was available when it began.
ConsumerInv ==
  /\ cons.at = "take" => /\ cons.count >= 1
                         /\ cons.count <= Dist(outPos, cons.end)
                         /\ cons.count = 1 \/ cons.count = Dist(outPos, cons.end)
  /\ cons.at = "sift" => /\ Dist(outPos, cons.pos) <= Dist(outPos, cons.to)
                         /\ Dist(outPos, cons.to) <= Dist(outPos, cons.end)
  /\ cons.at \in {"call", "lock", "link", "store"} => Dist(outPos, cons.end) >= 1
  /\ cons.at # "idle" => Dist(outPos, cons.end) <= Dist(outPos, inPos)

RingInv == TypeOK /\ ProducerInv /\ ConsumerInv /\ Room
-----------------------------------------------------------------------------
(* The ring. *)

\* A position moved forward by less than a turn.
LEMMA Forward ==
  ASSUME NEW a \in Slot, NEW k \in 0..Capacity
  PROVE  /\ (a + k) % N = IF a + k < N THEN a + k ELSE a + k - N
         /\ (a + k) % N \in Slot
         /\ Dist(a, (a + k) % N) = k
<1> USE CapacityAssumption DEF Slot, N
<1>1. CASE a + k < N
  <2>1. (a + k) % N = a + k  BY <1>1
  <2> QED  BY <1>1, <2>1 DEF Dist
<1>2. CASE a + k >= N
  <2>1. a + k = (N * 1) + (a + k - N)  OBVIOUS
  <2>2. /\ a + k = (N * ((a + k) \div N)) + ((a + k) % N)
        /\ (a + k) % N \in 0..(N - 1)
    OBVIOUS
  <2>3. (a + k) % N = a + k - N  BY <1>2, <2>1, <2>2
  <2> QED  BY <1>2, <2>3 DEF Dist
<1> QED  BY <1>1, <1>2

\* Distances lie in the ring, and only a position itself is at distance 0.
LEMMA Distances ==
  ASSUME NEW a \in Slot, NEW b \in Slot
  PROVE  Dist(a, b) \in 0..Capacity /\ (Dist(a, b) = 0 <=> a = b)
BY CapacityAssumption DEF Dist, Slot, N

\* What lies before a position b on the way from a to c, and what behind it.
LEMMA Split ==
  ASSUME NEW a \in Slot, NEW b \in Slot, NEW c \in Slot, Dist(a, b) <= Dist(a, c)
  PROVE  Dist(b, c) = Dist(a, c) - Dist(a, b)
BY CapacityAssumption DEF Dist, Slot, N

\* The next slot, and the one before.
LEMMA SuccIs ==
  ASSUME NEW a \in Slot
  PROVE  Succ(a) = (IF a < Capacity THEN a + 1 ELSE 0) /\ Succ(a) \in Slot
<1>1. 1 \in 0..Capacity  BY CapacityAssumption
<1>2. /\ (a + 1) % N = IF a + 1 < N THEN a + 1 ELSE a + 1 - N
      /\ (a + 1) % N \in Slot
  BY <1>1, Forward
<1> QED  BY <1>2, CapacityAssumption DEF Succ, Slot, N

LEMMA PredIs ==
  ASSUME NEW a \in Slot
  PROVE  Pred(a) = (IF a > 0 THEN a - 1 ELSE Capacity) /\ Pred(a) \in Slot
<1>1. Capacity \in 0..Capacity  BY CapacityAssumption
<1>2. /\ (a + Capacity) % N = IF a + Capacity < N THEN a + Capacity ELSE a + Capacity - N
      /\ (a + Capacity) % N \in Slot
  BY <1>1, Forward
<1> QED  BY <1>2, CapacityAssumption DEF Pred, Slot, N

\* push_n never takes more than the room there is, in spite of the difference
\* of positions that underflows, and its second block follows the first.
LEMMA Blocks ==
  ASSUME inPos \in Slot, outPos \in Slot, NEW size \in 1..Capacity,
         NEW b1, b1 = FirstBlock(size), b1 > 0,
         NEW b2, b2 = SecondBlock(size, b1)
  PROVE  /\ b1 \in 1..Capacity /\ b2 \in 0..Capacity
         /\ b1 + b2 <= size
         /\ b1 + b2 <= Capacity - Dist(outPos, inPos)
         /\ inPos + b1 <= N
         /\ b2 > 0 => inPos + b1 = N
<1> USE CapacityAssumption
<1>1. b1 \in 1..Capacity /\ b1 <= size /\ inPos + b1 <= N
  BY DEF FirstBlock, Smaller, Slot, N
<1>2. (inPos + b1) % N = IF inPos + b1 < N THEN inPos + b1 ELSE inPos + b1 - N
  BY <1>1, Forward
<1>3. b2 \in 0..(size - b1)
  BY <1>1, <1>2 DEF SecondBlock, Smaller, Slot, N
<1>4. b2 > 0 => inPos + b1 = N
  BY <1>1, <1>2 DEF FirstBlock, SecondBlock, Smaller, Slot, N
<1>5. b1 + b2 <= Capacity - Dist(outPos, inPos)
  BY <1>1, <1>2 DEF FirstBlock, SecondBlock, Smaller, Dist, Slot, N
<1> QED  BY <1>1, <1>3, <1>4, <1>5
-----------------------------------------------------------------------------
(* The invariant. *)

\* The slots of a push in progress are the room from m_inPos on.
LEMMA TargetIs ==
  ASSUME TypeOK, ProducerInv, prod.at = "fill", NEW i \in 0..(prod.b1 + prod.b2 - 1)
  PROVE  Target(i) \in Slot /\ Dist(inPos, Target(i)) = i
<1>1. /\ inPos \in Slot /\ outPos \in Slot
      /\ prod.b1 \in 0..Capacity /\ prod.b2 \in 0..Capacity
  BY DEF TypeOK
<1>2. Dist(outPos, inPos) \in 0..Capacity  BY <1>1, Distances
<1> QED  BY <1>1, <1>2, CapacityAssumption DEF ProducerInv, Target, Dist, Slot, N

\* What a push in progress may write is not available yet.
LEMMA Apart == TypeOK /\ ProducerInv => RaceFree
<1> SUFFICES ASSUME TypeOK, ProducerInv, NEW s \in Written
             PROVE  ~(s \in Slot /\ Dist(outPos, s) < Dist(outPos, inPos))
  BY DEF RaceFree, Occupied, Available
<1>1. inPos \in Slot /\ outPos \in Slot  BY DEF TypeOK
<1>2. CASE prod.at = "fill"
  <2>1. PICK i \in 0..(prod.b1 + prod.b2 - 1) : s = Target(i)  BY <1>2 DEF Written
  <2>2. s \in Slot /\ Dist(inPos, s) = i  BY <1>2, <2>1, TargetIs
  <2>3. /\ prod.b1 \in 0..Capacity /\ prod.b2 \in 0..Capacity
        /\ prod.b1 + prod.b2 <= Capacity - Dist(outPos, inPos)
    BY <1>2 DEF TypeOK, ProducerInv
  <2> QED  BY <1>1, <2>1, <2>2, <2>3, CapacityAssumption DEF Dist, Slot, N
<1>3. CASE prod.at = "peeked"
  <2>1. s = inPos  BY <1>3 DEF Written
  <2> QED  BY <1>1, <2>1, Distances
<1>4. CASE prod.at \notin {"fill", "peeked"}
  BY <1>4 DEF Written
<1> QED  BY <1>2, <1>3, <1>4

\* The types of the records' fields.
LEMMA Fields ==
  ASSUME TypeOK
  PROVE  /\ inPos \in Slot /\ outPos \in Slot /\ pushed \in 0..MaxPushes
         /\ prod.b1 \in 0..Capacity /\ prod.b2 \in 0..Capacity /\ prod.done \in 0..Capacity
         /\ cons.end \in Slot /\ cons.pos \in Slot /\ cons.to \in Slot
         /\ cons.count \in 0..Capacity /\ cons.got \in Seq(0..MaxPushes)
         /\ cons.seen \in Seq(0..MaxPushes)
<1>1. cons \in Consumer  BY DEF TypeOK
<1>2. /\ cons.end \in Slot /\ cons.pos \in Slot /\ cons.to \in Slot
      /\ cons.count \in 0..Capacity /\ cons.got \in Seq(0..MaxPushes)
      /\ cons.seen \in Seq(0..MaxPushes)
  BY <1>1 DEF Consumer
<1> QED  BY <1>2 DEF TypeOK

LEMMA FreeIs == Free \in Consumer
BY CapacityAssumption, MaxPushesAssumption DEF Free, Consumer, Slot

LEMMA RingInit == Init => RingInv
<1> SUFFICES ASSUME Init PROVE RingInv  OBVIOUS
<1>1. Free \in Consumer  BY FreeIs
<1>2. Quiet \in [at : {"idle", "peeked", "fill"}, b1 : 0..Capacity, b2 : 0..Capacity, done : 0..Capacity]
  BY CapacityAssumption DEF Quiet
<1>3. TypeOK  BY <1>1, <1>2, CapacityAssumption, MaxPushesAssumption DEF Init, TypeOK, Slot
<1> QED  BY <1>3 DEF Init, RingInv, ProducerInv, ConsumerInv, Room, Free, Quiet

\* Publishing moves m_inPos by what was written.
LEMMA PublishTo ==
  ASSUME RingInv, Publish
  PROVE  /\ inPos' \in Slot
         /\ Dist(outPos, inPos') = Dist(outPos, inPos) + prod.b1 + prod.b2
<1> USE CapacityAssumption
<1>1. /\ TypeOK /\ ProducerInv /\ prod.at = "fill" /\ inPos' = AfterPush
  BY DEF RingInv, Publish
<1>2. /\ inPos \in Slot /\ outPos \in Slot /\ Dist(outPos, inPos) \in 0..Capacity
      /\ prod.b1 \in 0..Capacity /\ prod.b2 \in 0..Capacity
  BY <1>1, Fields, Distances
<1>3. (inPos + prod.b1) % N = IF inPos + prod.b1 < N THEN inPos + prod.b1 ELSE inPos + prod.b1 - N
  BY Forward, <1>2
<1>4. /\ inPos + prod.b1 <= N /\ (prod.b2 > 0 => inPos + prod.b1 = N) /\ prod.b1 >= 1
      /\ prod.b1 + prod.b2 <= Capacity - Dist(outPos, inPos)
  BY <1>1 DEF ProducerInv
<1>5. CASE inPos + prod.b1 < N
  <2>1. prod.b2 = 0 /\ inPos' = inPos + prod.b1
    BY <1>1, <1>2, <1>3, <1>4, <1>5 DEF AfterPush, N, Slot
  <2> QED  BY <1>2, <1>4, <1>5, <2>1 DEF Dist, N, Slot
<1>6. CASE inPos + prod.b1 = N
  <2>1. inPos' = prod.b2
    BY <1>1, <1>2, <1>3, <1>4, <1>6 DEF AfterPush, N, Slot
  <2> QED  BY <1>2, <1>4, <1>6, <2>1 DEF Dist, N, Slot
<1> QED  BY <1>2, <1>4, <1>5, <1>6 DEF N, Slot

\* Steps of the producer.
LEMMA ProducerStep == RingInv /\ Producer => (TypeOK /\ ProducerInv /\ ConsumerInv)'
<1> SUFFICES ASSUME RingInv, Producer PROVE (TypeOK /\ ProducerInv /\ ConsumerInv)'  OBVIOUS
<1> USE CapacityAssumption, MaxPushesAssumption DEF RingInv
<1>0. /\ TypeOK /\ ProducerInv /\ ConsumerInv
      /\ inPos \in Slot /\ outPos \in Slot /\ pushed \in 0..MaxPushes
      /\ prod.b1 \in 0..Capacity /\ prod.b2 \in 0..Capacity /\ prod.done \in 0..Capacity
      /\ cons.end \in Slot /\ Dist(outPos, inPos) \in 0..Capacity
      /\ Dist(outPos, cons.end) \in 0..Capacity
  BY Fields, Distances
<1>1. ASSUME NEW size \in 1..Capacity, StartPush(size) PROVE (TypeOK /\ ProducerInv /\ ConsumerInv)'
  <2> DEFINE b1 == FirstBlock(size)
             b2 == SecondBlock(size, b1)
  <2>1. /\ b1 \in 1..Capacity /\ b2 \in 0..Capacity /\ b1 + b2 <= size
        /\ b1 + b2 <= Capacity - Dist(outPos, inPos)
        /\ inPos + b1 <= N
        /\ b2 > 0 => inPos + b1 = N
    BY <1>1, Blocks, <1>0 DEF StartPush
  <2>2. /\ prod' = [at |-> "fill", b1 |-> b1, b2 |-> b2, done |-> 0]
        /\ cons.at # "link" /\ pushed + size <= MaxPushes
        /\ UNCHANGED <<mp, inPos, outPos, buffer, cons, pushed, left>>
    BY <1>1 DEF StartPush
  <2> HIDE DEF b1, b2
  <2>3. TypeOK'  BY <2>1, <2>2 DEF TypeOK
  <2>4. ProducerInv'  BY <2>1, <2>2, <1>0 DEF ProducerInv, Dist, N
  <2>5. ConsumerInv'  BY <2>2 DEF ConsumerInv, Dist, N
  <2> QED  BY <2>3, <2>4, <2>5
<1>2. ASSUME Fill PROVE (TypeOK /\ ProducerInv /\ ConsumerInv)'
  <2>1. prod.done \in 0..(prod.b1 + prod.b2 - 1) /\ prod.at = "fill"  BY <1>2, <1>0 DEF Fill
  <2>2. Target(prod.done) \in Slot  BY <1>0, <2>1, TargetIs
  <2>3. pushed + prod.done + 1 \in 0..MaxPushes
    BY <2>1, <1>0 DEF ProducerInv
  <2>4. prod.done + 1 \in 0..Capacity
    BY <2>1, <1>0 DEF ProducerInv
  <2>5. TypeOK'  BY <1>2, <2>2, <2>3, <2>4 DEF Fill, TypeOK
  <2>6. /\ prod'.at = prod.at /\ prod'.b1 = prod.b1 /\ prod'.b2 = prod.b2
        /\ prod'.done = prod.done + 1 /\ prod'.done <= prod'.b1 + prod'.b2
        /\ UNCHANGED <<mp, inPos, outPos, cons, pushed>>
    BY <1>2, <2>1, <1>0 DEF Fill, TypeOK
  <2>7. ProducerInv'  BY <2>1, <2>6, <1>0 DEF ProducerInv, Dist, N
  <2>8. ConsumerInv'  BY <1>2 DEF Fill, ConsumerInv, Dist, N
  <2> QED  BY <2>5, <2>7, <2>8
<1>3. ASSUME Publish PROVE (TypeOK /\ ProducerInv /\ ConsumerInv)'
  <2>1. /\ prod.at = "fill" /\ inPos' = AfterPush
        /\ pushed' = pushed + prod.b1 + prod.b2 /\ prod' = Quiet
        /\ UNCHANGED <<mp, outPos, buffer, cons, left>>
    BY <1>3 DEF Publish
  <2>3. /\ inPos' \in Slot
        /\ Dist(outPos, inPos') = Dist(outPos, inPos) + prod.b1 + prod.b2
    BY <1>3, PublishTo
  <2>4. pushed' \in 0..MaxPushes  BY <2>1, <1>0 DEF ProducerInv
  <2>5. TypeOK'  BY <2>1, <2>3, <2>4 DEF TypeOK, Quiet
  <2>6. ProducerInv'  BY <2>1 DEF ProducerInv, Quiet
  <2>7. Dist(outPos, inPos) <= Dist(outPos, inPos')  BY <2>3, <1>0
  <2>8. ConsumerInv'
    <3>1. /\ Dist(outPos, cons.end) \in Int /\ Dist(outPos, inPos) \in Int
          /\ Dist(outPos, inPos') \in Int
      BY <2>3, <1>0
    <3>2. cons' = cons /\ outPos' = outPos  BY <2>1
    <3>3. /\ Dist(outPos, cons.end)' = Dist(outPos, cons.end)
          /\ Dist(outPos, cons.pos)' = Dist(outPos, cons.pos)
          /\ Dist(outPos, cons.to)' = Dist(outPos, cons.to)
          /\ Dist(outPos, inPos)' = Dist(outPos, inPos')
      BY <3>2 DEF Dist, N
    <3> QED  BY <2>7, <3>1, <3>2, <3>3 DEF ConsumerInv
  <2> QED  BY <2>5, <2>6, <2>8
<1>4. ASSUME PushPeek PROVE (TypeOK /\ ProducerInv /\ ConsumerInv)'
  <2>4. pushed + 1 \in 0..MaxPushes  BY <1>4, <1>0 DEF PushPeek
  <2>1. TypeOK'  BY <1>4, <1>0, <2>4 DEF PushPeek, TypeOK
  <2>2. ProducerInv'  BY <1>4 DEF PushPeek, ProducerInv, TypeOK
  <2>3. ConsumerInv'  BY <1>4 DEF PushPeek, ConsumerInv, Dist, N
  <2> QED  BY <2>1, <2>2, <2>3
<1>5. ASSUME PushPending PROVE (TypeOK /\ ProducerInv /\ ConsumerInv)'
  <2>1. TypeOK'  BY <1>5 DEF PushPending, TypeOK
  <2>2. inPos + 1 <= N /\ 1 <= Capacity - Dist(outPos, inPos)
    BY <1>5, SuccIs, <1>0 DEF PushPending, Dist, Slot, N
  <2>3. ProducerInv'  BY <1>5, <2>2, <1>0 DEF PushPending, ProducerInv, Dist, N
  <2>4. ConsumerInv'  BY <1>5 DEF PushPending, ConsumerInv, Dist, N
  <2> QED  BY <2>1, <2>3, <2>4
<1> QED  BY <1>1, <1>2, <1>3, <1>4, <1>5 DEF Producer

\* What the consumer hands on is a sequence of elements.
LEMMA SlotsAreElements ==
  ASSUME TypeOK, NEW a \in Slot, NEW b \in Slot
  PROVE  Slots(a, b) \in Seq(0..MaxPushes)
<1>1. Dist(a, b) \in 0..Capacity  BY Distances
<1>2. ASSUME NEW i \in 1..Dist(a, b) PROVE buffer[(a + i - 1) % N] \in 0..MaxPushes
  <2>1. i - 1 \in 0..Capacity /\ a + (i - 1) = a + i - 1
    BY <1>1, <1>2, CapacityAssumption DEF Slot
  <2>2. (a + i - 1) % N \in Slot  BY <2>1, Forward
  <2> QED  BY <2>2 DEF TypeOK
<1>3. Slots(a, b) \in [1..Dist(a, b) -> 0..MaxPushes]  BY <1>2 DEF Slots
<1>4. Dist(a, b) \in Nat  BY <1>1
<1> DEFINE s == Slots(a, b)
           n == Dist(a, b)
<1> HIDE DEF s, n
<1>5. s \in [1..n -> 0..MaxPushes] /\ n \in Nat  BY <1>3, <1>4 DEF s, n
<1>6. s \in Seq(0..MaxPushes)  BY <1>5, SeqDef
<1> QED  BY <1>6 DEF s

\* A producer's room only grows when m_outPos moves over what is available.
LEMMA RoomGrows ==
  ASSUME RingInv, UNCHANGED <<mp, inPos, prod, pushed>>,
         outPos' \in Slot, Dist(outPos, outPos') <= Dist(outPos, inPos),
         cons'.at \in {"call", "lock", "link", "store"} => mp,
         cons'.at = "link" => prod.at = "idle"
  PROVE  ProducerInv'
<1>1. TypeOK /\ ProducerInv  BY DEF RingInv
<1>2. /\ inPos \in Slot /\ outPos \in Slot /\ prod.b1 \in 0..Capacity /\ prod.b2 \in 0..Capacity
      /\ Dist(outPos, inPos) \in 0..Capacity /\ Dist(outPos, outPos') \in 0..Capacity
  BY <1>1, Fields, Distances
<1>3. Dist(outPos', inPos) = Dist(outPos, inPos) - Dist(outPos, outPos')  BY <1>2, Split
<1>4. Dist(outPos, inPos)' = Dist(outPos', inPos)  BY DEF Dist, N
<1>5. Dist(outPos, inPos)' \in 0..Capacity /\ Dist(outPos, inPos)' <= Dist(outPos, inPos)
  BY <1>2, <1>3, <1>4, CapacityAssumption
<1>6. /\ mp' = mp /\ inPos' = inPos /\ prod' = prod /\ pushed' = pushed  OBVIOUS
<1> HIDE DEF Dist
<1> QED  BY <1>1, <1>2, <1>5, <1>6, CapacityAssumption DEF ProducerInv, N

\* The consumer's calls that begin, and those that move nothing.
LEMMA ConsumerStart ==
  ASSUME RingInv,
         \/ \E size \in 1..Capacity : StartPop(size)
         \/ StartForEach \/ StartFlush \/ StartSift \/ StartRequeue
         \/ Read \/ (\E keep \in BOOLEAN : RequeueCall(keep)) \/ RequeueWrite
  PROVE  (TypeOK /\ ProducerInv /\ ConsumerInv)'
<1> USE CapacityAssumption, MaxPushesAssumption
<1>0. /\ TypeOK /\ ProducerInv /\ ConsumerInv
      /\ inPos \in Slot /\ outPos \in Slot
      /\ cons.end \in Slot /\ cons.count \in 0..Capacity
      /\ Available \in 0..Capacity
  BY Fields, Distances DEF RingInv, Available
<1>1. ASSUME NEW count \in 1..Capacity, NEW end \in Slot, StartTake(count, end),
             count <= Dist(outPos, end), count = 1 \/ count = Dist(outPos, end),
             Dist(outPos, end) <= Available
      PROVE  (TypeOK /\ ProducerInv /\ ConsumerInv)'
  <2>1. TypeOK'
    <3>1. cons' = [Free EXCEPT !.at = "take", !.count = count, !.end = end]
      BY <1>1 DEF StartTake
    <3>2. /\ "take" \in {"idle", "take", "flush", "sift", "call", "lock", "link", "store"}
          /\ count \in 0..Capacity
      OBVIOUS
    <3> HIDE DEF Free
    <3>3. cons' \in Consumer  BY FreeIs, <1>1, <3>1, <3>2 DEF Consumer
    <3> QED  BY <1>0, <1>1, <3>3 DEF StartTake, TypeOK
  <2>2. ProducerInv'  BY <1>0, <1>1 DEF StartTake, Free, ProducerInv, Dist, N
  <2>3. ConsumerInv'  BY <1>1 DEF StartTake, Free, ConsumerInv, Available, Dist, N
  <2> QED  BY <2>1, <2>2, <2>3
<1>2. ASSUME NEW size \in 1..Capacity, StartPop(size)
      PROVE  (TypeOK /\ ProducerInv /\ ConsumerInv)'
  <2> DEFINE n == Smaller(size, Available)
  <2>2. StartTake(n, (outPos + n) % N)  BY <1>2 DEF StartPop
  <2>4. Available > 0  BY <2>2 DEF StartTake
  <2>1. n \in 1..Capacity /\ n <= Available  BY <1>0, <2>4 DEF Smaller
  <2> HIDE DEF n
  <2>3. (outPos + n) % N \in Slot /\ Dist(outPos, (outPos + n) % N) = n
    BY <1>0, <2>1, Forward
  <2> QED  BY <1>1, <2>1, <2>2, <2>3
<1>3. ASSUME StartForEach PROVE (TypeOK /\ ProducerInv /\ ConsumerInv)'
  <2>1. 1 \in 1..Capacity /\ 1 <= Dist(outPos, inPos) /\ Dist(outPos, inPos) <= Available
    BY <1>0, <1>3 DEF StartForEach, StartTake, Available
  <2> QED  BY <1>0, <1>1, <1>3, <2>1 DEF StartForEach
<1>4. ASSUME NEW at \in {"flush", "sift", "call"}, NEW pos \in {0, inPos},
             cons' = [at |-> at, count |-> 0, end |-> inPos, pos |-> pos, to |-> pos,
                      got |-> <<>>, seen |-> <<>>],
             at = "sift" => pos = inPos,
             at = "call" => mp /\ Available > 0,
             cons.at = "idle", UNCHANGED <<mp, inPos, outPos, buffer, prod, pushed, left>>
      PROVE  (TypeOK /\ ProducerInv /\ ConsumerInv)'
  <2>1. 0 \in Slot  BY DEF Slot
  <2>2. cons' \in Consumer  BY <1>0, <1>4, <2>1 DEF Consumer
  <2>3. cons'.at = at /\ cons'.end = inPos /\ cons'.pos = pos /\ cons'.to = pos
    BY <1>4
  <2>4. TypeOK'  BY <1>0, <1>4, <2>2 DEF TypeOK
  <2>5. ProducerInv'  BY <1>0, <1>4, <2>3 DEF ProducerInv, Dist, N
  <2>6. ConsumerInv'  BY <1>0, <1>4, <2>3 DEF ConsumerInv, Available, Dist, N
  <2> QED  BY <2>4, <2>5, <2>6
<1>8. ASSUME StartFlush PROVE (TypeOK /\ ProducerInv /\ ConsumerInv)'
  <2>1. cons' = [at |-> "flush", count |-> 0, end |-> inPos, pos |-> 0, to |-> 0,
                 got |-> <<>>, seen |-> <<>>]
    BY <1>8 DEF StartFlush, Free
  <2> QED  BY <1>4, <1>8, <2>1 DEF StartFlush
<1>9. ASSUME StartSift PROVE (TypeOK /\ ProducerInv /\ ConsumerInv)'
  <2>1. cons' = [at |-> "sift", count |-> 0, end |-> inPos, pos |-> inPos, to |-> inPos,
                 got |-> <<>>, seen |-> <<>>]
    BY <1>9 DEF StartSift, Free
  <2> QED  BY <1>4, <1>9, <2>1 DEF StartSift
<1>10. ASSUME StartRequeue PROVE (TypeOK /\ ProducerInv /\ ConsumerInv)'
  <2>1. cons' = [at |-> "call", count |-> 0, end |-> inPos, pos |-> 0, to |-> 0,
                 got |-> <<>>, seen |-> <<>>]
    BY <1>10 DEF StartRequeue, Free
  <2> QED  BY <1>4, <1>10, <2>1 DEF StartRequeue
<1>5. ASSUME Read PROVE (TypeOK /\ ProducerInv /\ ConsumerInv)'
  <2> DEFINE e == buffer[(outPos + Len(cons.got)) % N]
  <2>1. cons.got \in Seq(0..MaxPushes) /\ Len(cons.got) \in 0..Capacity
    BY <1>0, <1>5, Fields DEF Read
  <2>2. e \in 0..MaxPushes
    <3>1. (outPos + Len(cons.got)) % N \in Slot  BY <1>0, <2>1, Forward
    <3> QED  BY <1>0, <3>1 DEF TypeOK
  <2>3. cons' = [cons EXCEPT !.got = Append(cons.got, e)]  BY <1>5 DEF Read
  <2> HIDE DEF e
  <2>4. Append(cons.got, e) \in Seq(0..MaxPushes)  BY <2>1, <2>2
  <2>5. cons' \in Consumer  BY <1>0, <2>3, <2>4 DEF TypeOK, Consumer
  <2>6. TypeOK'  BY <1>0, <1>5, <2>5 DEF Read, TypeOK
  <2>7. /\ cons'.at = cons.at /\ cons'.end = cons.end /\ cons'.count = cons.count
        /\ cons'.pos = cons.pos /\ cons'.to = cons.to
    BY <1>0, <2>3 DEF TypeOK, Consumer
  <2>8. ProducerInv'  BY <1>0, <1>5, <2>7 DEF Read, ProducerInv, Dist, N
  <2>9. ConsumerInv'  BY <1>0, <1>5, <2>7 DEF Read, ConsumerInv, Dist, N
  <2> QED  BY <2>6, <2>8, <2>9
<1>6. ASSUME NEW keep \in BOOLEAN, RequeueCall(keep) PROVE (TypeOK /\ ProducerInv /\ ConsumerInv)'
  <2>1. cons' = [cons EXCEPT !.at = IF keep THEN "lock" ELSE "store"] /\ cons.at = "call"
    BY <1>6 DEF RequeueCall
  <2>2. cons' \in Consumer /\ cons'.end = cons.end /\ cons'.at \in {"lock", "store"}
    BY <1>0, <2>1 DEF TypeOK, Consumer
  <2>3. buffer[outPos] \in 0..MaxPushes /\ left \in Seq(0..MaxPushes)  BY <1>0 DEF TypeOK
  <2>4. left' \in Seq(0..MaxPushes)
    <3>1. CASE keep   BY <1>6, <2>3, <3>1 DEF RequeueCall
    <3>2. CASE ~keep
      <4>1. left' = Append(left, buffer[outPos])  BY <1>6, <3>2 DEF RequeueCall
      <4> QED  BY <2>3, <4>1
    <3> QED  BY <3>1, <3>2
  <2>5. TypeOK'  BY <1>0, <1>6, <2>2, <2>4 DEF RequeueCall, TypeOK
  <2>6. ProducerInv'  BY <1>0, <1>6, <2>1, <2>2 DEF RequeueCall, ProducerInv, Dist, N
  <2>7. ConsumerInv'  BY <1>0, <1>6, <2>1, <2>2 DEF RequeueCall, ConsumerInv, Dist, N
  <2> QED  BY <2>5, <2>6, <2>7
<1>7. ASSUME RequeueWrite PROVE (TypeOK /\ ProducerInv /\ ConsumerInv)'
  <2>1. cons' = [cons EXCEPT !.at = "link"] /\ cons.at = "lock" /\ prod.at = "idle"
    BY <1>7 DEF RequeueWrite
  <2>2. cons' \in Consumer /\ cons'.end = cons.end /\ cons'.at = "link"
    BY <1>0, <2>1 DEF TypeOK, Consumer
  <2>3. TypeOK'  BY <1>0, <1>7, <2>2 DEF RequeueWrite, TypeOK
  <2>4. ProducerInv'  BY <1>0, <1>7, <2>1, <2>2 DEF RequeueWrite, ProducerInv, Dist, N
  <2>5. ConsumerInv'  BY <1>0, <1>7, <2>1, <2>2 DEF RequeueWrite, ConsumerInv, Dist, N
  <2> QED  BY <2>3, <2>4, <2>5
<1> QED  BY <1>2, <1>3, <1>5, <1>6, <1>7, <1>8, <1>9, <1>10

\* One slot further back, and one further on.
LEMMA PredDist ==
  ASSUME NEW a \in Slot, NEW b \in Slot, a # b
  PROVE  Pred(b) \in Slot /\ Dist(a, Pred(b)) = Dist(a, b) - 1
BY PredIs, CapacityAssumption DEF Dist, Slot, N

LEMMA SuccDist ==
  ASSUME NEW a \in Slot, NEW b \in Slot
  PROVE  /\ Succ(b) \in Slot
         /\ Succ(b) # a => Dist(a, Succ(b)) = Dist(a, b) + 1
         /\ a # b => Dist(a, Succ(a)) = 1
         /\ Dist(Succ(a), Succ(b)) = Dist(a, b)
<1>1. /\ Succ(a) = (IF a < Capacity THEN a + 1 ELSE 0) /\ Succ(a) \in Slot
      /\ Succ(b) = (IF b < Capacity THEN b + 1 ELSE 0) /\ Succ(b) \in Slot
  BY SuccIs
<1> QED  BY <1>1, CapacityAssumption DEF Dist, Slot, N

\* Two positions at the same distance are one.
LEMMA SameDistance ==
  ASSUME NEW a \in Slot, NEW b \in Slot, NEW c \in Slot, Dist(a, b) = Dist(a, c)
  PROVE  b = c
BY CapacityAssumption DEF Dist, Slot, N

\* The consumer's calls that move m_outPos or rearrange what is available.
LEMMA ConsumerMove ==
  ASSUME RingInv, Release \/ Flush \/ EndSift \/ RequeueStore
  PROVE  (TypeOK /\ ProducerInv /\ ConsumerInv)'
<1> USE CapacityAssumption, MaxPushesAssumption
<1>0. /\ TypeOK /\ ProducerInv /\ ConsumerInv
      /\ inPos \in Slot /\ outPos \in Slot /\ cons \in Consumer
      /\ cons.end \in Slot /\ cons.to \in Slot /\ cons.count \in 0..Capacity
      /\ Dist(outPos, inPos) \in 0..Capacity
      /\ Dist(outPos, cons.end) \in 0..Capacity
      /\ Dist(outPos, cons.to) \in 0..Capacity
  BY Fields, Distances DEF RingInv, TypeOK
<1>1. ASSUME NEW p \in Slot, outPos' = p, Dist(outPos, p) <= Dist(outPos, inPos),
             left' \in Seq(0..MaxPushes), cons' \in Consumer,
             cons'.at \in {"call", "lock", "link", "store"} => mp, cons'.at # "link",
             UNCHANGED <<mp, inPos, buffer, prod, pushed>>
      PROVE  (TypeOK /\ ProducerInv)'
  <2>1. TypeOK'  BY <1>0, <1>1 DEF TypeOK
  <2>2. outPos' \in Slot /\ Dist(outPos, outPos') <= Dist(outPos, inPos)  BY <1>1
  <2>3. UNCHANGED <<mp, inPos, prod, pushed>>  BY <1>1
  <2>4. ProducerInv'  BY <1>1, <2>2, <2>3, RoomGrows
  <2> QED  BY <2>1, <2>4
<1>2. left \in Seq(0..MaxPushes)  BY <1>0 DEF TypeOK
<1>3. Free \in Consumer /\ Free.at = "idle"  BY FreeIs DEF Free
<1>4. ASSUME Release PROVE (TypeOK /\ ProducerInv /\ ConsumerInv)'
  <2> DEFINE p == (outPos + cons.count) % N
  <2>1. /\ cons.at = "take" /\ outPos' = p /\ left' = left \o cons.got
        /\ cons' = IF p = cons.end THEN Free ELSE [cons EXCEPT !.got = <<>>]
        /\ UNCHANGED <<mp, inPos, buffer, prod, pushed>>
    BY <1>4 DEF Release
  <2>2. p \in Slot /\ Dist(outPos, p) = cons.count  BY <1>0, Forward
  <2> HIDE DEF p
  <2>3. /\ cons.count >= 1 /\ cons.count <= Dist(outPos, cons.end)
        /\ cons.count = 1 \/ cons.count = Dist(outPos, cons.end)
        /\ Dist(outPos, cons.end) <= Dist(outPos, inPos)
    BY <1>0, <2>1 DEF ConsumerInv
  <2>4. left' \in Seq(0..MaxPushes)
    <3>1. cons.got \in Seq(0..MaxPushes)  BY <1>0, Fields
    <3> QED  BY <1>2, <2>1, <3>1
  <2>5. CASE p = cons.end
    <3>1. cons' = Free  BY <2>1, <2>5
    <3>2. (TypeOK /\ ProducerInv)'
      <4>1. Dist(outPos, p) <= Dist(outPos, inPos)  BY <1>0, <2>2, <2>3
      <4>2. /\ cons'.at = "idle" /\ cons' \in Consumer /\ outPos' = p
            /\ UNCHANGED <<mp, inPos, buffer, prod, pushed>>
        BY <1>3, <2>1, <3>1
      <4> QED  BY <1>1, <2>2, <2>3, <2>4, <4>1, <4>2
    <3>3. ConsumerInv'  BY <1>3, <3>1 DEF ConsumerInv
    <3> QED  BY <3>2, <3>3
  <2>6. CASE p # cons.end
    <3>1. cons' = [cons EXCEPT !.got = <<>>]  BY <2>1, <2>6
    <3>2. /\ cons' \in Consumer /\ cons'.at = "take"
          /\ cons'.count = cons.count /\ cons'.end = cons.end
      <4>1. <<>> \in Seq(0..MaxPushes)  OBVIOUS
      <4>2. cons \in Consumer /\ cons.at = "take"  BY <1>0, <2>1
      <4> QED  BY <3>1, <4>1, <4>2 DEF Consumer
    <3>3. (TypeOK /\ ProducerInv)'
      <4>1. Dist(outPos, p) <= Dist(outPos, inPos)  BY <1>0, <2>2, <2>3
      <4>2. /\ cons'.at \notin {"call", "lock", "link", "store"} /\ outPos' = p
            /\ UNCHANGED <<mp, inPos, buffer, prod, pushed>>
        BY <2>1, <3>2
      <4> QED  BY <1>1, <2>2, <2>4, <3>2, <4>1, <4>2
    <3>4. cons.count = 1  BY <1>0, <2>2, <2>3, <2>6, SameDistance
    <3>5. /\ Dist(p, cons.end) = Dist(outPos, cons.end) - 1
          /\ Dist(p, inPos) = Dist(outPos, inPos) - 1
      BY <1>0, <2>2, <2>3, <3>4, Split
    <3>6. Dist(p, cons.end) \in 0..Capacity /\ Dist(p, cons.end) # 0
      BY <1>0, <2>2, <2>6, Distances
    <3>7. /\ Dist(outPos, cons.end)' = Dist(p, cons.end)
          /\ Dist(outPos, inPos)' = Dist(p, inPos)
      <4>1. outPos' = p /\ inPos' = inPos /\ cons'.end = cons.end  BY <2>1, <3>2
      <4> QED  BY <4>1 DEF Dist, N
    <3>8. /\ cons'.count = 1 /\ 1 <= Dist(outPos, cons.end)'
          /\ Dist(outPos, cons.end)' <= Dist(outPos, inPos)'
      BY <1>0, <2>3, <3>2, <3>4, <3>5, <3>6, <3>7
    <3>9. ConsumerInv'  BY <3>2, <3>8 DEF ConsumerInv
    <3> QED  BY <3>3, <3>9
  <2> QED  BY <2>5, <2>6
<1>5. ASSUME Flush PROVE (TypeOK /\ ProducerInv /\ ConsumerInv)'
  <2>1. /\ cons.at = "flush" /\ outPos' = cons.end /\ left' = left \o Slots(outPos, cons.end)
        /\ cons' = Free /\ UNCHANGED <<mp, inPos, buffer, prod, pushed>>
    BY <1>5 DEF Flush
  <2>2. left' \in Seq(0..MaxPushes)
    <3>1. Slots(outPos, cons.end) \in Seq(0..MaxPushes)  BY <1>0, SlotsAreElements
    <3> QED  BY <1>2, <2>1, <3>1
  <2>3. Dist(outPos, cons.end) <= Dist(outPos, inPos)  BY <1>0, <2>1 DEF ConsumerInv
  <2>4. (TypeOK /\ ProducerInv)'  BY <1>0, <1>1, <1>3, <2>1, <2>2, <2>3
  <2>5. ConsumerInv'  BY <1>3, <2>1 DEF ConsumerInv
  <2> QED  BY <2>4, <2>5
<1>6. ASSUME EndSift PROVE (TypeOK /\ ProducerInv /\ ConsumerInv)'
  <2>1. /\ cons.at = "sift" /\ outPos' = cons.to /\ left' = left \o cons.got
        /\ cons' = Free /\ UNCHANGED <<mp, inPos, buffer, prod, pushed>>
    BY <1>6 DEF EndSift
  <2>2. left' \in Seq(0..MaxPushes)
    <3>1. cons.got \in Seq(0..MaxPushes)  BY <1>0, Fields
    <3> QED  BY <1>2, <2>1, <3>1
  <2>3. Dist(outPos, cons.to) <= Dist(outPos, inPos)  BY <1>0, <2>1 DEF ConsumerInv
  <2>4. (TypeOK /\ ProducerInv)'  BY <1>0, <1>1, <1>3, <2>1, <2>2, <2>3
  <2>5. ConsumerInv'  BY <1>3, <2>1 DEF ConsumerInv
  <2> QED  BY <2>4, <2>5
<1>7. ASSUME RequeueStore PROVE (TypeOK /\ ProducerInv /\ ConsumerInv)'
  <2> DEFINE p == Succ(outPos)
  <2>1. /\ cons.at = "store" /\ outPos' = p /\ left' = left
        /\ cons' = IF p = cons.end THEN Free ELSE [cons EXCEPT !.at = "call"]
        /\ UNCHANGED <<mp, inPos, buffer, prod, pushed>>
    BY <1>7 DEF RequeueStore
  <2>2. /\ mp /\ Dist(outPos, cons.end) >= 1
        /\ Dist(outPos, cons.end) <= Dist(outPos, inPos)
    BY <1>0, <2>1 DEF ProducerInv, ConsumerInv
  <2>3. p \in Slot /\ Dist(outPos, p) = 1
    <3>1. outPos # cons.end  BY <1>0, <2>2, Distances
    <3> QED  BY <1>0, <3>1, SuccDist
  <2> HIDE DEF p
  <2>4. left' \in Seq(0..MaxPushes)  BY <1>2, <2>1
  <2>5. CASE p = cons.end
    <3>1. cons' = Free  BY <2>1, <2>5
    <3>2. (TypeOK /\ ProducerInv)'
      <4>1. Dist(outPos, p) <= Dist(outPos, inPos)  BY <1>0, <2>2, <2>3
      <4>2. /\ cons'.at = "idle" /\ cons' \in Consumer /\ outPos' = p
            /\ UNCHANGED <<mp, inPos, buffer, prod, pushed>>
        BY <1>3, <2>1, <3>1
      <4> QED  BY <1>1, <2>2, <2>3, <2>4, <4>1, <4>2
    <3>3. ConsumerInv'  BY <1>3, <3>1 DEF ConsumerInv
    <3> QED  BY <3>2, <3>3
  <2>6. CASE p # cons.end
    <3>1. cons' = [cons EXCEPT !.at = "call"]  BY <2>1, <2>6
    <3>2. cons' \in Consumer /\ cons'.at = "call" /\ cons'.end = cons.end
      BY <1>0, <3>1 DEF Consumer
    <3>3. (TypeOK /\ ProducerInv)'
      <4>1. Dist(outPos, p) <= Dist(outPos, inPos)  BY <1>0, <2>2, <2>3
      <4>2. /\ cons'.at = "call" /\ mp /\ outPos' = p
            /\ UNCHANGED <<mp, inPos, buffer, prod, pushed>>
        BY <2>1, <2>2, <3>2
      <4> QED  BY <1>1, <2>3, <2>4, <3>2, <4>1, <4>2
    <3>4. /\ Dist(p, cons.end) = Dist(outPos, cons.end) - 1
          /\ Dist(p, inPos) = Dist(outPos, inPos) - 1
      BY <1>0, <2>2, <2>3, Split
    <3>5. Dist(p, cons.end) \in 0..Capacity /\ Dist(p, cons.end) # 0
      BY <1>0, <2>3, <2>6, Distances
    <3>6. /\ Dist(outPos, cons.end)' = Dist(p, cons.end)
          /\ Dist(outPos, inPos)' = Dist(p, inPos)
      BY <2>1, <3>2 DEF Dist, N
    <3>7. /\ 1 <= Dist(outPos, cons.end)'
          /\ Dist(outPos, cons.end)' <= Dist(outPos, inPos)'
      BY <1>0, <2>2, <3>4, <3>5, <3>6
    <3>8. ConsumerInv'  BY <3>2, <3>7 DEF ConsumerInv
    <3> QED  BY <3>3, <3>8
  <2> QED  BY <2>5, <2>6
<1> QED  BY <1>4, <1>5, <1>6, <1>7

\* The consumer's steps that rearrange what is available, and pop_requeue and
\* the requeue of an element, which move m_inPos with the producers locked out.
LEMMA ConsumerArrange ==
  ASSUME RingInv, (\E keep \in BOOLEAN : SiftOne(keep)) \/ PopRequeue \/ RequeueLink
  PROVE  (TypeOK /\ ProducerInv /\ ConsumerInv)'
<1> USE CapacityAssumption, MaxPushesAssumption
<1>0. /\ TypeOK /\ ProducerInv /\ ConsumerInv /\ Room
      /\ inPos \in Slot /\ outPos \in Slot /\ cons \in Consumer
      /\ cons.end \in Slot /\ cons.to \in Slot /\ cons.pos \in Slot
      /\ Dist(outPos, inPos) \in 0..Capacity
      /\ Dist(outPos, cons.end) \in 0..Capacity
      /\ Dist(outPos, cons.to) \in 0..Capacity
      /\ Dist(outPos, cons.pos) \in 0..Capacity
  BY Fields, Distances DEF RingInv, TypeOK
<1>1. ASSUME NEW keep \in BOOLEAN, SiftOne(keep) PROVE (TypeOK /\ ProducerInv /\ ConsumerInv)'
  <2> DEFINE p == Pred(cons.pos)
             t == Pred(cons.to)
             e == buffer[p]
             to == IF keep THEN t ELSE cons.to
             got == IF keep THEN cons.got ELSE Append(cons.got, e)
             seen == <<e>> \o cons.seen
  <2>1. /\ cons.at = "sift" /\ cons.pos # outPos
        /\ buffer' = IF keep THEN [buffer EXCEPT ![t] = e] ELSE buffer
        /\ cons' = [cons EXCEPT !.pos = p, !.to = to, !.seen = seen, !.got = got]
        /\ UNCHANGED <<mp, inPos, outPos, prod, pushed, left>>
    BY <1>1 DEF SiftOne
  <2>2. /\ Dist(outPos, cons.pos) <= Dist(outPos, cons.to)
        /\ Dist(outPos, cons.to) <= Dist(outPos, cons.end)
        /\ Dist(outPos, cons.end) <= Dist(outPos, inPos)
    BY <1>0, <2>1 DEF ConsumerInv
  <2>3. p \in Slot /\ Dist(outPos, p) = Dist(outPos, cons.pos) - 1
    BY <1>0, <2>1, PredDist
  <2>4. t \in Slot /\ Dist(outPos, t) = Dist(outPos, cons.to) - 1
    <3>1. Dist(outPos, cons.pos) # 0  BY <1>0, <2>1, Distances
    <3>2. outPos # cons.to  BY <1>0, <2>2, <3>1, Distances
    <3> QED  BY <1>0, <3>2, PredDist
  <2>5. e \in 0..MaxPushes  BY <1>0, <2>3 DEF TypeOK
  <2>6. got \in Seq(0..MaxPushes) /\ seen \in Seq(0..MaxPushes)
    <3>1. cons.got \in Seq(0..MaxPushes) /\ cons.seen \in Seq(0..MaxPushes)  BY <1>0, Fields
    <3> HIDE DEF e
    <3>2. Append(cons.got, e) \in Seq(0..MaxPushes)  BY <2>5, <3>1
    <3>3. <<e>> \in Seq(0..MaxPushes)  BY <2>5
    <3>4. <<e>> \o cons.seen \in Seq(0..MaxPushes)  BY <3>1, <3>3
    <3> QED  BY <3>1, <3>2, <3>4
  <2>7. buffer' \in [Slot -> 0..MaxPushes]
    <3>1. buffer \in [Slot -> 0..MaxPushes]  BY <1>0 DEF TypeOK
    <3> HIDE DEF e, t
    <3> QED  BY <2>1, <2>4, <2>5, <3>1
  <2>8. /\ to \in Slot /\ Dist(outPos, cons.pos) - 1 <= Dist(outPos, to)
        /\ Dist(outPos, to) <= Dist(outPos, cons.end)
    <3>1. CASE keep
      <4>1. to = t  BY <3>1
      <4> HIDE DEF t, to
      <4> QED  BY <1>0, <2>2, <2>4, <4>1
    <3>2. CASE ~keep
      <4>1. to = cons.to  BY <3>2
      <4> HIDE DEF to
      <4> QED  BY <1>0, <2>2, <4>1
    <3> QED  BY <3>1, <3>2
  <2> HIDE DEF p, t, e, to, got, seen
  <2>9. /\ cons' \in Consumer /\ cons'.at = "sift" /\ cons'.pos = p /\ cons'.to = to
        /\ cons'.end = cons.end
    <3>1. cons \in Consumer /\ cons.at = "sift"  BY <1>0, <2>1
    <3>2. cons' = [cons EXCEPT !.pos = p, !.to = to, !.seen = seen, !.got = got]  BY <2>1
    <3> QED  BY <2>3, <2>6, <2>8, <3>1, <3>2 DEF Consumer
  <2>10. UNCHANGED <<mp, inPos, outPos, prod, pushed, left>>  BY <2>1
  <2>11. TypeOK'  BY <1>0, <2>7, <2>9, <2>10 DEF TypeOK
  <2>12. ProducerInv'  BY <1>0, <2>9, <2>10 DEF ProducerInv, Dist, N
  <2>13. /\ Dist(outPos, cons.pos)' = Dist(outPos, p) /\ Dist(outPos, cons.to)' = Dist(outPos, to)
         /\ Dist(outPos, cons.end)' = Dist(outPos, cons.end)
         /\ Dist(outPos, inPos)' = Dist(outPos, inPos)
    BY <2>9, <2>10 DEF Dist, N
  <2>14. ConsumerInv'  BY <2>2, <2>3, <2>8, <2>9, <2>13 DEF ConsumerInv
  <2> QED  BY <2>11, <2>12, <2>14
<1>2. ASSUME PopRequeue PROVE (TypeOK /\ ProducerInv /\ ConsumerInv)'
  <2>1. /\ cons.at = "idle" /\ prod.at = "idle"
        /\ buffer' = [buffer EXCEPT ![inPos] = buffer[outPos]]
        /\ outPos' = Succ(outPos) /\ inPos' = Succ(inPos)
        /\ UNCHANGED <<mp, prod, cons, pushed, left>>
    BY <1>2 DEF PopRequeue
  <2>2. Succ(outPos) \in Slot /\ Succ(inPos) \in Slot  BY <1>0, SuccIs
  <2>3. TypeOK'  BY <1>0, <2>1, <2>2 DEF TypeOK
  <2>4. ProducerInv'  BY <1>0, <2>1 DEF ProducerInv
  <2>5. ConsumerInv'  BY <1>0, <2>1 DEF ConsumerInv
  <2> QED  BY <2>3, <2>4, <2>5
<1>3. ASSUME RequeueLink PROVE (TypeOK /\ ProducerInv /\ ConsumerInv)'
  <2> DEFINE p == Succ(inPos)
  <2>1. /\ cons.at = "link" /\ inPos' = p /\ cons' = [cons EXCEPT !.at = "store"]
        /\ UNCHANGED <<mp, outPos, buffer, prod, pushed, left>>
    BY <1>3 DEF RequeueLink
  <2>2. /\ mp /\ prod.at = "idle" /\ Dist(outPos, cons.end) >= 1
        /\ Dist(outPos, cons.end) <= Dist(outPos, inPos)
    BY <1>0, <2>1 DEF ProducerInv, ConsumerInv
  <2>3. p \in Slot /\ Dist(outPos, p) = Dist(outPos, inPos) + 1
    BY <1>0, <2>1, SuccDist DEF Room
  <2> HIDE DEF p
  <2>4. cons' \in Consumer /\ cons'.at = "store" /\ cons'.end = cons.end
    <3>1. cons \in Consumer  BY <1>0
    <3> QED  BY <2>1, <3>1 DEF Consumer
  <2>5. TypeOK'  BY <1>0, <2>1, <2>3, <2>4 DEF TypeOK
  <2>6. ProducerInv'  BY <2>1, <2>2, <2>4 DEF ProducerInv
  <2>7. /\ Dist(outPos, cons.end)' = Dist(outPos, cons.end)
        /\ Dist(outPos, inPos)' = Dist(outPos, p)
    <3>1. outPos' = outPos /\ inPos' = p /\ cons'.end = cons.end  BY <2>1, <2>4
    <3> QED  BY <3>1 DEF Dist, N
  <2>8. 1 <= Dist(outPos, cons.end)' /\ Dist(outPos, cons.end)' <= Dist(outPos, inPos)'
    BY <1>0, <2>2, <2>3, <2>7
  <2>9. ConsumerInv'  BY <2>4, <2>8 DEF ConsumerInv
  <2> QED  BY <2>5, <2>6, <2>9
<1> QED  BY <1>1, <1>2, <1>3
-----------------------------------------------------------------------------
(* The theorems. *)

\* Every step keeps the invariant, as long as no element is put back into a
\* full ring.
LEMMA RingStep == RingInv /\ [Next /\ Room']_vars => RingInv'
<1> SUFFICES ASSUME RingInv, [Next /\ Room']_vars PROVE RingInv'  OBVIOUS
<1>1. CASE Producer /\ Room'  BY <1>1, ProducerStep DEF RingInv
<1>2. CASE Consume /\ Room'
  BY <1>2, ConsumerStart, ConsumerMove, ConsumerArrange DEF Consume, RingInv
<1>3. CASE UNCHANGED vars
  BY <1>3 DEF vars, RingInv, TypeOK, ProducerInv, ConsumerInv, Room, Dist, Succ, N
<1> QED  BY <1>1, <1>2, <1>3 DEF Next

\* The positions stay in the ring and every call's blocks within it, however
\* pushes and pops interleave.
THEOREM RingTypes == RoomSpec => []TypeOK
<1>1. Init => RingInv  BY RingInit
<1>2. RingInv /\ [Next /\ Room']_vars => RingInv'  BY RingStep
<1>3. RingInv => TypeOK  BY DEF RingInv
<1> QED  BY <1>1, <1>2, <1>3, PTL DEF RoomSpec

\* Without a lock between them, the producer never writes a slot that the
\* consumer may read or rearrange: the fences and one free slot are enough.
THEOREM LockFree == RoomSpec => []RaceFree
<1>1. Init => RingInv  BY RingInit
<1>2. RingInv /\ [Next /\ Room']_vars => RingInv'  BY RingStep
<1>3. RingInv => RaceFree  BY Apart DEF RingInv
<1> QED  BY <1>1, <1>2, <1>3, PTL DEF RoomSpec
-----------------------------------------------------------------------------
(* What the ring holds. *)

Element == 0..MaxPushes
Buffers == [Slot -> Element]

\* The elements of a buffer from a up to b: Slots, of any buffer.
View(buf, a, b) == [i \in 1..Dist(a, b) |-> buf[(a + i - 1) % N]]

\* The i-th slot from a.
LEMMA Place ==
  ASSUME NEW a \in Slot, NEW i \in 1..N
  PROVE  (a + i - 1) % N \in Slot /\ Dist(a, (a + i - 1) % N) = i - 1
<1>1. i - 1 \in 0..Capacity /\ a + (i - 1) = a + i - 1
  BY CapacityAssumption DEF Slot, N
<1> QED  BY <1>1, Forward

\* A position is its distance away.
LEMMA PlaceOf ==
  ASSUME NEW a \in Slot, NEW p \in Slot
  PROVE  (a + Dist(a, p)) % N = p
<1>1. Dist(a, p) \in 0..Capacity  BY Distances
<1>2. (a + Dist(a, p)) % N = IF a + Dist(a, p) < N THEN a + Dist(a, p) ELSE a + Dist(a, p) - N
  BY <1>1, Forward
<1> QED  BY <1>2, CapacityAssumption DEF Dist, Slot, N

\* A way of two parts.
LEMMA MoveOn ==
  ASSUME NEW a \in Slot, NEW b \in Slot, NEW j \in 0..Capacity, Dist(a, b) + j <= Capacity
  PROVE  (b + j) % N = (a + (Dist(a, b) + j)) % N
<1>1. Dist(a, b) \in 0..Capacity /\ Dist(a, b) + j \in 0..Capacity
  BY Distances, CapacityAssumption
<1> DEFINE k == Dist(a, b) + j
<1> HIDE DEF k
<1>2. (b + j) % N = IF b + j < N THEN b + j ELSE b + j - N
  BY Forward
<1>3. (a + k) % N = IF a + k < N THEN a + k ELSE a + k - N
  BY <1>1, Forward DEF k
<1> QED  BY <1>2, <1>3, CapacityAssumption DEF k, Dist, Slot, N

LEMMA ViewIs ==
  ASSUME NEW buf \in Buffers, NEW a \in Slot, NEW b \in Slot
  PROVE  /\ View(buf, a, b) \in Seq(Element)
         /\ Len(View(buf, a, b)) = Dist(a, b)
         /\ \A i \in 1..Dist(a, b) : /\ View(buf, a, b)[i] = buf[(a + i - 1) % N]
                                     /\ (a + i - 1) % N \in Slot
                                     /\ Dist(a, (a + i - 1) % N) = i - 1
<1> DEFINE n == Dist(a, b)
           v == View(buf, a, b)
<1>1. n \in 0..Capacity  BY Distances
<1>2. \A i \in 1..n : (a + i - 1) % N \in Slot /\ Dist(a, (a + i - 1) % N) = i - 1
  <2>1. \A i \in 1..n : i \in 1..N  BY <1>1, CapacityAssumption DEF N
  <2> HIDE DEF n
  <2> QED  BY <2>1, Place
<1>3. v = [i \in 1..n |-> buf[(a + i - 1) % N]]  BY DEF View
<1> HIDE DEF n, v
<1>4. v \in [1..n -> Element]  BY <1>2, <1>3 DEF Buffers
<1>5. v \in Seq(Element) /\ Len(v) = n
  <2>1. n \in Nat  BY <1>1
  <2>2. v \in Seq(Element)  BY <1>4, <2>1, SeqDef
  <2> QED  BY <1>4, <2>1, <2>2
<1>6. \A i \in 1..n : v[i] = buf[(a + i - 1) % N]  BY <1>3
<1> QED  BY <1>2, <1>5, <1>6 DEF n, v

\* Views look at the slots on the way only.
LEMMA ViewSame ==
  ASSUME NEW buf \in Buffers, NEW new \in Buffers, NEW a \in Slot, NEW b \in Slot,
         \A s \in Slot : Dist(a, s) < Dist(a, b) => new[s] = buf[s]
  PROVE  View(new, a, b) = View(buf, a, b)
<1>1. Dist(a, b) \in 0..Capacity  BY Distances
<1>2. ASSUME NEW i \in 1..Dist(a, b) PROVE new[(a + i - 1) % N] = buf[(a + i - 1) % N]
  <2>1. (a + i - 1) % N \in Slot /\ Dist(a, (a + i - 1) % N) = i - 1  BY ViewIs
  <2>2. i - 1 < Dist(a, b)  BY <1>1
  <2> QED  BY <2>1, <2>2
<1> QED  BY <1>2 DEF View

LEMMA ViewNone ==
  ASSUME NEW buf \in Buffers, NEW a \in Slot
  PROVE  View(buf, a, a) = <<>>
<1>1. Dist(a, a) = 0  BY Distances
<1>2. View(buf, a, a) \in Seq(Element) /\ Len(View(buf, a, a)) = 0  BY <1>1, ViewIs
<1> QED  BY <1>2, EmptySeq

LEMMA ViewOne ==
  ASSUME NEW buf \in Buffers, NEW a \in Slot, NEW b \in Slot, Dist(a, b) = 1
  PROVE  View(buf, a, b) = <<buf[a]>>
<1> DEFINE v == View(buf, a, b)
<1>1. v \in Seq(Element) /\ Len(v) = 1 /\ v[1] = buf[(a + 1 - 1) % N]
  <2>1. 1 \in 1..Dist(a, b)  OBVIOUS
  <2>2. /\ v \in Seq(Element) /\ Len(v) = Dist(a, b)
        /\ \A i \in 1..Dist(a, b) : v[i] = buf[(a + i - 1) % N]
    BY ViewIs
  <2> QED  BY <2>1, <2>2
<1>2. (a + 1 - 1) % N = a
  <2>1. Dist(a, a) = 0 /\ a + 1 - 1 = a + 0  BY Distances DEF Slot
  <2> QED  BY <2>1, PlaceOf
<1>3. buf[a] \in Element  BY DEF Buffers
<1> HIDE DEF v
<1>4. <<buf[a]>> \in Seq(Element) /\ Len(<<buf[a]>>) = 1 /\ <<buf[a]>>[1] = buf[a]  BY <1>3
<1>5. \A i \in 1..1 : i = 1  OBVIOUS
<1>6. v = <<buf[a]>>  BY <1>1, <1>2, <1>4, <1>5, SeqEqual
<1> QED  BY <1>6 DEF v

\* A view of a way of two parts.
LEMMA ViewSplit ==
  ASSUME NEW buf \in Buffers, NEW a \in Slot, NEW b \in Slot, NEW c \in Slot,
         Dist(a, b) <= Dist(a, c)
  PROVE  View(buf, a, c) = View(buf, a, b) \o View(buf, b, c)
<1> DEFINE u == View(buf, a, b)
           v == View(buf, b, c)
           w == View(buf, a, c)
<1>1. /\ Dist(a, b) \in 0..Capacity /\ Dist(a, c) \in 0..Capacity
      /\ Dist(b, c) = Dist(a, c) - Dist(a, b)
  BY Distances, Split
<1>2. /\ u \in Seq(Element) /\ Len(u) = Dist(a, b)
      /\ \A i \in 1..Dist(a, b) : u[i] = buf[(a + i - 1) % N]
      /\ v \in Seq(Element) /\ Len(v) = Dist(b, c)
      /\ \A i \in 1..Dist(b, c) : v[i] = buf[(b + i - 1) % N]
      /\ w \in Seq(Element) /\ Len(w) = Dist(a, c)
      /\ \A i \in 1..Dist(a, c) : w[i] = buf[(a + i - 1) % N]
  <2>1. /\ u \in Seq(Element) /\ Len(u) = Dist(a, b)
        /\ \A i \in 1..Dist(a, b) : u[i] = buf[(a + i - 1) % N]
    BY ViewIs
  <2>2. /\ v \in Seq(Element) /\ Len(v) = Dist(b, c)
        /\ \A i \in 1..Dist(b, c) : v[i] = buf[(b + i - 1) % N]
    BY ViewIs
  <2>3. /\ w \in Seq(Element) /\ Len(w) = Dist(a, c)
        /\ \A i \in 1..Dist(a, c) : w[i] = buf[(a + i - 1) % N]
    BY ViewIs
  <2> HIDE DEF u, v, w
  <2> QED  BY <2>1, <2>2, <2>3
<1>3. ASSUME NEW i \in 1..Dist(a, c), ~(i <= Dist(a, b))
      PROVE  /\ i - Dist(a, b) \in 1..Dist(b, c)
             /\ (b + (i - Dist(a, b)) - 1) % N = (a + i - 1) % N
  <2> DEFINE j == i - Dist(a, b) - 1
  <2>1. /\ j \in 0..Capacity /\ Dist(a, b) + j <= Capacity
        /\ i - Dist(a, b) \in 1..Dist(b, c)
        /\ b + j = b + (i - Dist(a, b)) - 1 /\ a + (Dist(a, b) + j) = a + i - 1
    BY <1>1, <1>3, CapacityAssumption DEF Slot
  <2> HIDE DEF j
  <2>2. (b + j) % N = (a + (Dist(a, b) + j)) % N  BY <2>1, MoveOn
  <2> QED  BY <2>1, <2>2
<1> HIDE DEF u, v, w
<1>4. /\ u \o v \in Seq(Element) /\ Len(u \o v) = Dist(a, b) + Dist(b, c)
      /\ \A i \in 1..(Dist(a, b) + Dist(b, c)) :
           (u \o v)[i] = IF i <= Dist(a, b) THEN u[i] ELSE v[i - Dist(a, b)]
  <2>1. /\ u \o v \in Seq(Element) /\ Len(u \o v) = Len(u) + Len(v)
        /\ \A i \in 1..(Len(u) + Len(v)) :
             (u \o v)[i] = IF i <= Len(u) THEN u[i] ELSE v[i - Len(u)]
    BY <1>2, ConcatProperties
  <2> QED  BY <1>2, <2>1
<1>5. \A i \in 1..Dist(a, c) : w[i] = (u \o v)[i]
  <2> SUFFICES ASSUME NEW i \in 1..Dist(a, c) PROVE w[i] = (u \o v)[i]  OBVIOUS
  <2>1. (u \o v)[i] = IF i <= Dist(a, b) THEN u[i] ELSE v[i - Dist(a, b)]  BY <1>1, <1>4
  <2>2. CASE i <= Dist(a, b)
    <3>1. i \in 1..Dist(a, b)  BY <1>1, <2>2
    <3> QED  BY <1>2, <2>1, <2>2, <3>1
  <2>3. CASE ~(i <= Dist(a, b))  BY <1>2, <1>3, <2>1, <2>3
  <2> QED  BY <2>2, <2>3
<1>6. Len(w) = Len(u \o v)  BY <1>1, <1>2, <1>4
<1>7. w = u \o v  BY <1>2, <1>4, <1>5, <1>6, SeqEqual
<1> QED  BY <1>7 DEF u, v, w

(* Sifting, one element at a time. *)

\* A sequence with one element in front.
LEMMA Front ==
  ASSUME NEW s \in Seq(Element), NEW x \in Element
  PROVE  /\ <<x>> \o s \in Seq(Element) /\ Len(<<x>> \o s) = Len(s) + 1
         /\ (<<x>> \o s)[1] = x
         /\ \A i \in 1..Len(s) : (<<x>> \o s)[i + 1] = s[i]
<1> DEFINE u == <<x>>
<1>1. u \in Seq(Element) /\ Len(u) = 1 /\ u[1] = x  OBVIOUS
<1> HIDE DEF u
<1>2. Len(s) \in Nat  BY LenProperties
<1>3. /\ u \o s \in Seq(Element) /\ Len(u \o s) = Len(u) + Len(s)
      /\ \A i \in 1..(Len(u) + Len(s)) : (u \o s)[i] = IF i <= Len(u) THEN u[i] ELSE s[i - Len(u)]
  BY <1>1, ConcatProperties
<1>4. \A i \in 1..Len(s) : i + 1 \in 1..(1 + Len(s)) /\ ~(i + 1 <= 1) /\ (i + 1) - 1 = i
  BY <1>2
<1>5. 1 \in 1..(1 + Len(s))  BY <1>2
<1>6. (u \o s)[1] = x  BY <1>1, <1>3, <1>5
<1>7. \A i \in 1..Len(s) : (u \o s)[i + 1] = s[i]  BY <1>1, <1>3, <1>4
<1>8. Len(u \o s) = Len(s) + 1  BY <1>1, <1>2, <1>3
<1> QED  BY <1>3, <1>6, <1>7, <1>8 DEF u

\* What Sifted says of the places f and g.
Places(f, g, k, m, n) ==
  f \in [1..k -> 1..n] /\ g \in [1..m -> 1..n] /\ Fifo!Divides(f, g, k, m, n)

\* An element in front of the others is the first of those kept,
LEMMA PlacesKeep ==
  ASSUME NEW k \in Nat, NEW m \in Nat, NEW n \in Nat, NEW f, NEW g, Places(f, g, k, m, n)
  PROVE  Places([i \in 1..(k + 1) |-> IF i = 1 THEN 1 ELSE f[i - 1] + 1],
                 [i \in 1..m |-> g[i] + 1], k + 1, m, n + 1)
<1> DEFINE ff == [i \in 1..(k + 1) |-> IF i = 1 THEN 1 ELSE f[i - 1] + 1]
           gg == [i \in 1..m |-> g[i] + 1]
<1>1. /\ f \in [1..k -> 1..n] /\ g \in [1..m -> 1..n]
      /\ \A p \in 1..n : (\E i \in 1..k : f[i] = p) <=> (\A i \in 1..m : g[i] # p)
      /\ \A i, j \in 1..k : i < j => f[i] < f[j]
      /\ \A i, j \in 1..m : i < j => g[i] > g[j]
  BY DEF Places, Fifo!Divides
<1>2. \A i \in 1..(k + 1) : i # 1 => i - 1 \in 1..k  OBVIOUS
<1>3. ff \in [1..(k + 1) -> 1..(n + 1)]
  <2>1. ASSUME NEW i \in 1..(k + 1) PROVE (IF i = 1 THEN 1 ELSE f[i - 1] + 1) \in 1..(n + 1)
    <3>1. i # 1 => f[i - 1] \in 1..n  BY <1>1, <1>2
    <3> QED  BY <3>1
  <2> QED  BY <2>1
<1>4. gg \in [1..m -> 1..(n + 1)]
  <2>1. \A i \in 1..m : g[i] \in 1..n  BY <1>1
  <2> QED  BY <2>1
<1>5. /\ \A i \in 1..(k + 1) : ff[i] = IF i = 1 THEN 1 ELSE f[i - 1] + 1
      /\ \A i \in 1..m : gg[i] = g[i] + 1
  OBVIOUS
<1> HIDE DEF ff, gg
<1>6. ASSUME NEW p \in 1..(n + 1)
      PROVE  (\E i \in 1..(k + 1) : ff[i] = p) <=> (\A i \in 1..m : gg[i] # p)
  <2>1. \A i \in 1..m : g[i] \in 1..n  BY <1>1
  <2>2. \A i \in 1..k : f[i] \in 1..n  BY <1>1
  <2>3. CASE p = 1
    <3>1. 1 \in 1..(k + 1) /\ ff[1] = 1  BY <1>5
    <3>2. \A i \in 1..m : gg[i] # 1  BY <1>5, <2>1
    <3> QED  BY <2>3, <3>1, <3>2
  <2>4. CASE p # 1
    <3>1. p - 1 \in 1..n  BY <2>4
    <3>2. (\A i \in 1..m : gg[i] # p) <=> (\A i \in 1..m : g[i] # p - 1)  BY <1>5, <2>1, <3>1
    <3>3. (\E i \in 1..(k + 1) : ff[i] = p) <=> (\E i \in 1..k : f[i] = p - 1)
      <4>1. ASSUME NEW i \in 1..(k + 1), ff[i] = p PROVE \E j \in 1..k : f[j] = p - 1
        <5>1. i # 1 /\ i - 1 \in 1..k /\ ff[i] = f[i - 1] + 1  BY <1>2, <1>5, <2>4, <4>1
        <5>2. f[i - 1] \in 1..n  BY <2>2, <5>1
        <5>3. f[i - 1] = p - 1  BY <4>1, <5>1, <5>2
        <5> QED  BY <5>1, <5>3
      <4>2. ASSUME NEW j \in 1..k, f[j] = p - 1 PROVE \E i \in 1..(k + 1) : ff[i] = p
        <5>1. j + 1 \in 1..(k + 1) /\ j + 1 # 1 /\ (j + 1) - 1 = j  OBVIOUS
        <5>2. ff[j + 1] = f[j] + 1  BY <1>5, <5>1
        <5>3. ff[j + 1] = p  BY <4>2, <5>2
        <5> QED  BY <5>1, <5>3
      <4> QED  BY <4>1, <4>2
    <3> QED  BY <1>1, <3>1, <3>2, <3>3
  <2> QED  BY <2>3, <2>4
<1>7. ASSUME NEW i \in 1..(k + 1), NEW j \in 1..(k + 1), i < j PROVE ff[i] < ff[j]
  <2>1. j # 1 /\ j - 1 \in 1..k /\ ff[j] = f[j - 1] + 1 /\ f[j - 1] \in 1..n
    BY <1>1, <1>2, <1>5, <1>7
  <2>2. CASE i = 1  BY <1>5, <2>1, <2>2
  <2>3. CASE i # 1
    <3>1. i - 1 \in 1..k /\ ff[i] = f[i - 1] + 1 /\ f[i - 1] \in 1..n /\ i - 1 < j - 1
      BY <1>1, <1>2, <1>5, <1>7, <2>3
    <3>2. f[i - 1] < f[j - 1]  BY <1>1, <2>1, <3>1
    <3> QED  BY <2>1, <3>1, <3>2
  <2> QED  BY <2>2, <2>3
<1>8. ASSUME NEW i \in 1..m, NEW j \in 1..m, i < j PROVE gg[i] > gg[j]
  <2>1. g[i] \in 1..n /\ g[j] \in 1..n /\ g[i] > g[j]  BY <1>1, <1>8
  <2> QED  BY <1>5, <2>1
<1>9. Places(ff, gg, k + 1, m, n + 1)  BY <1>3, <1>4, <1>6, <1>7, <1>8 DEF Places, Fifo!Divides
<1> QED  BY <1>9 DEF ff, gg

\* or the last of those that leave.
LEMMA PlacesDrop ==
  ASSUME NEW k \in Nat, NEW m \in Nat, NEW n \in Nat, NEW f, NEW g, Places(f, g, k, m, n)
  PROVE  Places([i \in 1..k |-> f[i] + 1],
                 [i \in 1..(m + 1) |-> IF i = m + 1 THEN 1 ELSE g[i] + 1], k, m + 1, n + 1)
<1> DEFINE ff == [i \in 1..k |-> f[i] + 1]
           gg == [i \in 1..(m + 1) |-> IF i = m + 1 THEN 1 ELSE g[i] + 1]
<1>1. /\ f \in [1..k -> 1..n] /\ g \in [1..m -> 1..n]
      /\ \A p \in 1..n : (\E i \in 1..k : f[i] = p) <=> (\A i \in 1..m : g[i] # p)
      /\ \A i, j \in 1..k : i < j => f[i] < f[j]
      /\ \A i, j \in 1..m : i < j => g[i] > g[j]
  BY DEF Places, Fifo!Divides
<1>2. \A i \in 1..(m + 1) : i # m + 1 => i \in 1..m  OBVIOUS
<1>3. ff \in [1..k -> 1..(n + 1)]
  <2>1. \A i \in 1..k : f[i] \in 1..n  BY <1>1
  <2> QED  BY <2>1
<1>4. gg \in [1..(m + 1) -> 1..(n + 1)]
  <2>1. ASSUME NEW i \in 1..(m + 1) PROVE (IF i = m + 1 THEN 1 ELSE g[i] + 1) \in 1..(n + 1)
    <3>1. i # m + 1 => g[i] \in 1..n  BY <1>1, <1>2
    <3> QED  BY <3>1
  <2> QED  BY <2>1
<1>5. /\ \A i \in 1..k : ff[i] = f[i] + 1
      /\ \A i \in 1..(m + 1) : gg[i] = IF i = m + 1 THEN 1 ELSE g[i] + 1
  OBVIOUS
<1> HIDE DEF ff, gg
<1>6. ASSUME NEW p \in 1..(n + 1)
      PROVE  (\E i \in 1..k : ff[i] = p) <=> (\A i \in 1..(m + 1) : gg[i] # p)
  <2>1. \A i \in 1..m : g[i] \in 1..n  BY <1>1
  <2>2. \A i \in 1..k : f[i] \in 1..n  BY <1>1
  <2>3. CASE p = 1
    <3>1. m + 1 \in 1..(m + 1) /\ gg[m + 1] = 1  BY <1>5
    <3>2. \A i \in 1..k : ff[i] # 1  BY <1>5, <2>2
    <3> QED  BY <2>3, <3>1, <3>2
  <2>4. CASE p # 1
    <3>1. p - 1 \in 1..n  BY <2>4
    <3>2. (\E i \in 1..k : ff[i] = p) <=> (\E i \in 1..k : f[i] = p - 1)  BY <1>5, <2>2, <3>1
    <3>3. (\A i \in 1..(m + 1) : gg[i] # p) <=> (\A i \in 1..m : g[i] # p - 1)
      <4>1. ASSUME \A i \in 1..(m + 1) : gg[i] # p, NEW j \in 1..m PROVE g[j] # p - 1
        <5>1. j \in 1..(m + 1) /\ j # m + 1  OBVIOUS
        <5> QED  BY <1>5, <2>1, <4>1, <5>1
      <4>2. ASSUME \A j \in 1..m : g[j] # p - 1, NEW i \in 1..(m + 1) PROVE gg[i] # p
        <5>1. CASE i = m + 1  BY <1>5, <2>4, <5>1
        <5>2. CASE i # m + 1  BY <1>2, <1>5, <2>1, <4>2, <5>2
        <5> QED  BY <5>1, <5>2
      <4> QED  BY <4>1, <4>2
    <3> QED  BY <1>1, <3>1, <3>2, <3>3
  <2> QED  BY <2>3, <2>4
<1>7. ASSUME NEW i \in 1..k, NEW j \in 1..k, i < j PROVE ff[i] < ff[j]
  <2>1. f[i] \in 1..n /\ f[j] \in 1..n /\ f[i] < f[j]  BY <1>1, <1>7
  <2> QED  BY <1>5, <2>1
<1>8. ASSUME NEW i \in 1..(m + 1), NEW j \in 1..(m + 1), i < j PROVE gg[i] > gg[j]
  <2>1. i # m + 1 /\ i \in 1..m /\ gg[i] = g[i] + 1 /\ g[i] \in 1..n  BY <1>1, <1>5, <1>8
  <2>2. CASE j = m + 1  BY <1>5, <2>1, <2>2
  <2>3. CASE j # m + 1
    <3>1. j \in 1..m /\ gg[j] = g[j] + 1 /\ g[j] \in 1..n  BY <1>1, <1>2, <1>5, <2>3
    <3>2. g[i] > g[j]  BY <1>1, <1>8, <2>1, <3>1
    <3> QED  BY <2>1, <3>1, <3>2
  <2> QED  BY <2>2, <2>3
<1>9. Places(ff, gg, k, m + 1, n + 1)  BY <1>3, <1>4, <1>6, <1>7, <1>8 DEF Places, Fifo!Divides
<1> QED  BY <1>9 DEF ff, gg

\* Front and end.
LEMMA FrontTail ==
  ASSUME NEW s \in Seq(Element), NEW x \in Element
  PROVE  Head(<<x>> \o s) = x /\ Tail(<<x>> \o s) = s
<1> DEFINE u == <<x>> \o s
<1>1. /\ u \in Seq(Element) /\ Len(u) = Len(s) + 1 /\ u[1] = x
      /\ \A i \in 1..Len(s) : u[i + 1] = s[i]
  BY Front
<1> HIDE DEF u
<1>2. Len(s) \in Nat  BY LenProperties
<1>3. u # <<>>  BY <1>1, <1>2, EmptySeq
<1>4. Head(u) = x  BY <1>1
<1>5. /\ Tail(u) \in Seq(Element) /\ Len(Tail(u)) = Len(u) - 1
      /\ \A i \in 1..Len(Tail(u)) : Tail(u)[i] = u[i + 1]
  BY <1>1, <1>3, HeadTailProperties
<1>6. Tail(u) = s  BY <1>1, <1>2, <1>5, SeqEqual
<1> QED  BY <1>4, <1>6 DEF u

LEMMA SiftedBy ==
  ASSUME NEW kept, NEW gone, NEW old, NEW f, NEW g, NEW k, NEW m, NEW n,
         Len(kept) = k, Len(gone) = m, Len(old) = n, Places(f, g, k, m, n),
         \A i \in 1..k : kept[i] = old[f[i]],
         \A i \in 1..m : gone[i] = old[g[i]]
  PROVE  Fifo!Sifted(kept, gone, old)
BY DEF Places, Fifo!Sifted

LEMMA SiftedNone == Fifo!Sifted(<<>>, <<>>, <<>>)
<1> DEFINE f == [i \in 1..0 |-> 1]
<1>1. f \in [1..0 -> 1..0] /\ Len(<<>>) = 0 /\ \A i \in 1..0 : FALSE  OBVIOUS
<1> HIDE DEF f
<1>2. Places(f, f, 0, 0, 0)  BY <1>1 DEF Places, Fifo!Divides
<1> QED  BY <1>1, <1>2, SiftedBy

LEMMA SiftedKeep ==
  ASSUME NEW kept \in Seq(Element), NEW gone \in Seq(Element), NEW old \in Seq(Element),
         NEW x \in Element, Fifo!Sifted(kept, gone, old)
  PROVE  Fifo!Sifted(<<x>> \o kept, gone, <<x>> \o old)
<1> DEFINE k == Len(kept)
           m == Len(gone)
           n == Len(old)
           kept2 == <<x>> \o kept
           old2 == <<x>> \o old
<1>1. k \in Nat /\ m \in Nat /\ n \in Nat  BY LenProperties
<1>2. /\ Len(kept2) = k + 1 /\ kept2[1] = x /\ \A i \in 1..k : kept2[i + 1] = kept[i]
      /\ Len(old2) = n + 1 /\ old2[1] = x /\ \A i \in 1..n : old2[i + 1] = old[i]
  BY Front
<1>3. \E f \in [1..k -> 1..n], g \in [1..m -> 1..n] :
        /\ Places(f, g, k, m, n)
        /\ \A i \in 1..k : kept[i] = old[f[i]]
        /\ \A i \in 1..m : gone[i] = old[g[i]]
  BY DEF Places, Fifo!Sifted
<1> HIDE DEF k, m, n, kept2, old2
<1>4. PICK f \in [1..k -> 1..n], g \in [1..m -> 1..n] :
        /\ Places(f, g, k, m, n)
        /\ \A i \in 1..k : kept[i] = old[f[i]]
        /\ \A i \in 1..m : gone[i] = old[g[i]]
  BY <1>3
<1> DEFINE ff == [i \in 1..(k + 1) |-> IF i = 1 THEN 1 ELSE f[i - 1] + 1]
           gg == [i \in 1..m |-> g[i] + 1]
<1>5. Places(ff, gg, k + 1, m, n + 1)  BY <1>1, <1>4, PlacesKeep
<1>7. ASSUME NEW i \in 1..(k + 1) PROVE kept2[i] = old2[ff[i]]
  <2>1. CASE i = 1  BY <1>2, <2>1
  <2>2. CASE i # 1
    <3>1. i - 1 \in 1..k /\ (i - 1) + 1 = i  BY <1>1, <2>2
    <3>2. ff[i] = f[i - 1] + 1 /\ f[i - 1] \in 1..n  BY <1>4, <2>2, <3>1
    <3>3. kept2[i] = kept[i - 1]  BY <1>2, <3>1
    <3>4. old2[ff[i]] = old[f[i - 1]]  BY <1>2, <3>2
    <3> QED  BY <1>4, <3>1, <3>3, <3>4
  <2> QED  BY <2>1, <2>2
<1>8. ASSUME NEW i \in 1..m PROVE gone[i] = old2[gg[i]]
  <2>1. gg[i] = g[i] + 1 /\ g[i] \in 1..n  BY <1>4
  <2> QED  BY <1>2, <1>4, <2>1
<1> HIDE DEF ff, gg
<1>9. Fifo!Sifted(kept2, gone, old2)
  <2>1. Len(kept2) = k + 1 /\ Len(gone) = m /\ Len(old2) = n + 1  BY <1>2 DEF m
  <2>2. \A i \in 1..(k + 1) : kept2[i] = old2[ff[i]]  BY <1>7
  <2>3. \A i \in 1..m : gone[i] = old2[gg[i]]  BY <1>8
  <2> DEFINE kk == k + 1
             nn == n + 1
  <2>4. /\ Len(kept2) = kk /\ Len(gone) = m /\ Len(old2) = nn /\ Places(ff, gg, kk, m, nn)
        /\ \A i \in 1..kk : kept2[i] = old2[ff[i]]
    BY <1>5, <2>1, <2>2
  <2> HIDE DEF kk, nn
  <2>5. /\ ff \in [1..Len(kept2) -> 1..Len(old2)] /\ gg \in [1..Len(gone) -> 1..Len(old2)]
        /\ Fifo!Divides(ff, gg, Len(kept2), Len(gone), Len(old2))
    BY <2>4 DEF Places
  <2>6. /\ \A i \in 1..Len(kept2) : kept2[i] = old2[ff[i]]
        /\ \A i \in 1..Len(gone) : gone[i] = old2[gg[i]]
    BY <2>3, <2>4
  <2> QED  BY <2>5, <2>6 DEF Fifo!Sifted
<1> QED  BY <1>9 DEF kept2, old2

LEMMA SiftedDrop ==
  ASSUME NEW kept \in Seq(Element), NEW gone \in Seq(Element), NEW old \in Seq(Element),
         NEW x \in Element, Fifo!Sifted(kept, gone, old)
  PROVE  Fifo!Sifted(kept, Append(gone, x), <<x>> \o old)
<1> DEFINE k == Len(kept)
           m == Len(gone)
           n == Len(old)
           gone2 == Append(gone, x)
           old2 == <<x>> \o old
<1>1. k \in Nat /\ m \in Nat /\ n \in Nat  BY LenProperties
<1>2. /\ Len(gone2) = m + 1 /\ gone2[m + 1] = x /\ \A i \in 1..m : gone2[i] = gone[i]
      /\ Len(old2) = n + 1 /\ old2[1] = x /\ \A i \in 1..n : old2[i + 1] = old[i]
  BY Front, AppendProperties
<1>3. \E f \in [1..k -> 1..n], g \in [1..m -> 1..n] :
        /\ Places(f, g, k, m, n)
        /\ \A i \in 1..k : kept[i] = old[f[i]]
        /\ \A i \in 1..m : gone[i] = old[g[i]]
  BY DEF Places, Fifo!Sifted
<1> HIDE DEF k, m, n, gone2, old2
<1>4. PICK f \in [1..k -> 1..n], g \in [1..m -> 1..n] :
        /\ Places(f, g, k, m, n)
        /\ \A i \in 1..k : kept[i] = old[f[i]]
        /\ \A i \in 1..m : gone[i] = old[g[i]]
  BY <1>3
<1> DEFINE ff == [i \in 1..k |-> f[i] + 1]
           gg == [i \in 1..(m + 1) |-> IF i = m + 1 THEN 1 ELSE g[i] + 1]
<1>5. Places(ff, gg, k, m + 1, n + 1)  BY <1>1, <1>4, PlacesDrop
<1>7. ASSUME NEW i \in 1..k PROVE kept[i] = old2[ff[i]]
  <2>1. ff[i] = f[i] + 1 /\ f[i] \in 1..n  BY <1>4
  <2> QED  BY <1>2, <1>4, <2>1
<1>8. ASSUME NEW i \in 1..(m + 1) PROVE gone2[i] = old2[gg[i]]
  <2>1. CASE i = m + 1  BY <1>2, <2>1
  <2>2. CASE i # m + 1
    <3>1. i \in 1..m  BY <1>1, <2>2
    <3>2. gg[i] = g[i] + 1 /\ g[i] \in 1..n  BY <1>4, <2>2, <3>1
    <3> QED  BY <1>2, <1>4, <3>1, <3>2
  <2> QED  BY <2>1, <2>2
<1> HIDE DEF ff, gg
<1>9. Fifo!Sifted(kept, gone2, old2)
  <2> DEFINE m1 == m + 1
             n1 == n + 1
  <2>1. /\ Len(kept) = k /\ Len(gone2) = m1 /\ Len(old2) = n1 /\ Places(ff, gg, k, m1, n1)
        /\ \A i \in 1..k : kept[i] = old2[ff[i]]
        /\ \A i \in 1..m1 : gone2[i] = old2[gg[i]]
    BY <1>2, <1>5, <1>7, <1>8 DEF k
  <2> HIDE DEF m1, n1
  <2>2. /\ ff \in [1..Len(kept) -> 1..Len(old2)] /\ gg \in [1..Len(gone2) -> 1..Len(old2)]
        /\ Fifo!Divides(ff, gg, Len(kept), Len(gone2), Len(old2))
    BY <2>1 DEF Places
  <2>3. /\ \A i \in 1..Len(kept) : kept[i] = old2[ff[i]]
        /\ \A i \in 1..Len(gone2) : gone2[i] = old2[gg[i]]
    BY <2>1
  <2> QED  BY <2>2, <2>3 DEF Fifo!Sifted
<1> QED  BY <1>9 DEF gone2, old2
-----------------------------------------------------------------------------
(* The ring as a queue. *)

\* What a push in progress has written.
Filled ==
  /\ prod.at = "fill" => \A i \in 0..(prod.done - 1) : buffer[Target(i)] = pushed + i + 1
  /\ prod.at = "peeked" => buffer[inPos] = pushed + 1

\* What a call of the consumer in progress has read, sifted or written.
Emptied ==
  /\ cons.at = "take" => /\ Len(cons.got) <= cons.count
                         /\ \A i \in 1..Len(cons.got) : cons.got[i] = buffer[(outPos + i - 1) % N]
  /\ cons.at = "sift" => /\ Len(cons.seen) = Dist(cons.pos, cons.end)
                         /\ Dist(outPos, cons.end) >= 1
                         /\ Fifo!Sifted(Slots(cons.to, cons.end), cons.got, cons.seen)
  /\ cons.at = "link" => buffer[inPos] = buffer[outPos]

QueueInv == RingInv /\ Filled /\ Emptied

\* What the invariant says of the positions.
LEMMA RingFacts ==
  ASSUME RingInv
  PROVE  /\ inPos \in Slot /\ outPos \in Slot /\ pushed \in Element /\ buffer \in Buffers
         /\ prod.b1 \in 0..Capacity /\ prod.b2 \in 0..Capacity /\ prod.done \in 0..Capacity
         /\ cons.end \in Slot /\ cons.pos \in Slot /\ cons.to \in Slot
         /\ cons.count \in 0..Capacity
         /\ cons.got \in Seq(Element) /\ cons.seen \in Seq(Element) /\ left \in Seq(Element)
         /\ Dist(outPos, inPos) \in 0..Capacity
         /\ cons.at = "sift" => /\ Dist(outPos, cons.pos) <= Dist(outPos, cons.to)
                                /\ Dist(outPos, cons.to) <= Dist(outPos, cons.end)
                                /\ Dist(outPos, cons.pos) <= Dist(outPos, cons.end)
                                /\ Dist(outPos, cons.pos) <= Dist(outPos, inPos)
         /\ cons.at # "idle" => Dist(outPos, cons.end) <= Dist(outPos, inPos)
<1>1. TypeOK /\ ConsumerInv  BY DEF RingInv
<1>2. /\ inPos \in Slot /\ outPos \in Slot /\ pushed \in Element /\ buffer \in Buffers
      /\ prod.b1 \in 0..Capacity /\ prod.b2 \in 0..Capacity /\ prod.done \in 0..Capacity
      /\ cons.end \in Slot /\ cons.pos \in Slot /\ cons.to \in Slot
      /\ cons.count \in 0..Capacity
      /\ cons.got \in Seq(Element) /\ cons.seen \in Seq(Element) /\ left \in Seq(Element)
  BY <1>1, Fields DEF TypeOK, Element, Buffers
<1>3. /\ Dist(outPos, inPos) \in 0..Capacity /\ Dist(outPos, cons.end) \in 0..Capacity
      /\ Dist(outPos, cons.pos) \in 0..Capacity /\ Dist(outPos, cons.to) \in 0..Capacity
  BY <1>2, Distances
<1> QED  BY <1>1, <1>2, <1>3 DEF ConsumerInv

\* Items, of any state of the ring and its consumer.
Held(buf, in, out, c) ==
  IF c.at = "sift" THEN View(buf, out, c.pos) \o c.seen \o View(buf, c.end, in)
  ELSE IF c.at = "store" THEN Tail(View(buf, out, in))
  ELSE View(buf, out, in)

LEMMA ItemsHeld ==
  /\ Items = Held(buffer, inPos, outPos, cons)
  /\ Items' = Held(buffer', inPos', outPos', cons')
BY DEF Items, Held, Slots, View, Dist, N

\* What lies behind b on the way from a to c is on that way.
LEMMA Behind ==
  ASSUME NEW a \in Slot, NEW b \in Slot, NEW c \in Slot, NEW s \in Slot,
         Dist(a, b) <= Dist(a, c), Dist(b, s) < Dist(b, c)
  PROVE  Dist(a, s) < Dist(a, c) /\ Dist(a, s) = Dist(a, b) + Dist(b, s)
BY CapacityAssumption DEF Dist, Slot, N

\* A view of a part of the way looks at slots on the way.
LEMMA PartSame ==
  ASSUME NEW buf \in Buffers, NEW new \in Buffers,
         NEW a \in Slot, NEW b \in Slot, NEW c \in Slot, NEW d \in Slot,
         Dist(a, b) <= Dist(a, c), Dist(a, c) <= Dist(a, d),
         \A s \in Slot : Dist(a, s) < Dist(a, d) => new[s] = buf[s]
  PROVE  View(new, b, c) = View(buf, b, c)
<1>1. ASSUME NEW s \in Slot, Dist(b, s) < Dist(b, c) PROVE new[s] = buf[s]
  <2>1. Dist(a, s) < Dist(a, c)  BY <1>1, Behind
  <2>2. Dist(a, s) \in Int /\ Dist(a, c) \in Int /\ Dist(a, d) \in Int  BY Distances
  <2>3. Dist(a, s) < Dist(a, d)  BY <2>1, <2>2
  <2> QED  BY <2>3
<1> QED  BY <1>1, ViewSame

LEMMA HeldSame ==
  ASSUME NEW buf \in Buffers, NEW new \in Buffers, NEW in \in Slot, NEW out \in Slot,
         NEW c, c.pos \in Slot, c.end \in Slot,
         c.at = "sift" => /\ Dist(out, c.pos) <= Dist(out, in)
                          /\ Dist(out, c.end) <= Dist(out, in),
         \A s \in Slot : Dist(out, s) < Dist(out, in) => new[s] = buf[s]
  PROVE  Held(new, in, out, c) = Held(buf, in, out, c)
<1>1. View(new, out, in) = View(buf, out, in)  BY ViewSame
<1>2. CASE c.at = "sift"
  <2> DEFINE p == c.pos
             e == c.end
  <2>1. /\ p \in Slot /\ e \in Slot /\ Dist(out, p) <= Dist(out, in) /\ Dist(out, e) <= Dist(out, in)
        /\ Dist(out, out) = 0 /\ Dist(out, p) \in 0..Capacity /\ Dist(out, in) \in 0..Capacity
    BY <1>2, Distances
  <2> HIDE DEF p, e
  <2>2. Dist(out, out) <= Dist(out, p) /\ Dist(out, in) <= Dist(out, in)  BY <2>1
  <2>3. View(new, out, p) = View(buf, out, p)  BY <2>1, <2>2, PartSame
  <2>4. View(new, e, in) = View(buf, e, in)  BY <2>1, <2>2, PartSame
  <2> QED  BY <1>2, <2>3, <2>4 DEF Held, p, e
<1>3. CASE c.at # "sift"  BY <1>1, <1>3 DEF Held
<1> QED  BY <1>2, <1>3

\* The queue is not touched by a step that changes no slot in use and no
\* position, and neither begins nor ends to rearrange.
LEMMA Untouched ==
  ASSUME RingInv, UNCHANGED <<inPos, outPos>>, buffer' \in Buffers,
         \A s \in Slot : Dist(outPos, s) < Dist(outPos, inPos) => buffer'[s] = buffer[s],
         cons' = cons \/ (cons.at \notin {"sift", "store"} /\ cons'.at \notin {"sift", "store"})
  PROVE  Items' = Items
<1>1. Items = Held(buffer, inPos, outPos, cons)  BY ItemsHeld
<1>2. Items' = Held(buffer', inPos', outPos', cons')  BY ItemsHeld
<1>3. Held(buffer', inPos, outPos, cons) = Held(buffer, inPos, outPos, cons)
  BY RingFacts, HeldSame
<1>4. Held(buffer', inPos, outPos, cons') = Held(buffer', inPos, outPos, cons)
  BY DEF Held
<1>5. inPos' = inPos /\ outPos' = outPos  OBVIOUS
<1> QED  BY <1>1, <1>2, <1>3, <1>4, <1>5

\* What the consumer knows does not depend on the slots not in use, nor on how
\* far the producer has got.
LEMMA EmptiedKept ==
  ASSUME QueueInv, cons' = cons, outPos' = outPos, cons.at # "link", buffer' \in Buffers,
         \A s \in Slot : Dist(outPos, s) < Dist(outPos, inPos) => buffer'[s] = buffer[s]
  PROVE  Emptied'
<1>1. RingInv /\ Emptied  BY DEF QueueInv
<1>2. CASE cons.at = "take"
  <2>1. /\ Len(cons.got) <= cons.count /\ cons.count <= Dist(outPos, cons.end)
        /\ \A i \in 1..Len(cons.got) : cons.got[i] = buffer[(outPos + i - 1) % N]
    BY <1>1, <1>2 DEF Emptied, RingInv, ConsumerInv
  <2>2. /\ Dist(outPos, cons.end) <= Dist(outPos, inPos) /\ Dist(outPos, cons.end) \in 0..Capacity
        /\ Dist(outPos, inPos) \in 0..Capacity /\ Len(cons.got) \in Nat /\ outPos \in Slot
        /\ cons.count \in 0..Capacity
    BY <1>1, <1>2, RingFacts, Distances, LenProperties
  <2>3. ASSUME NEW i \in 1..Len(cons.got)
        PROVE  buffer'[(outPos + i - 1) % N] = buffer[(outPos + i - 1) % N]
    <3>1. i \in 1..N /\ i - 1 < Dist(outPos, inPos)  BY <2>1, <2>2, CapacityAssumption DEF N
    <3>2. (outPos + i - 1) % N \in Slot /\ Dist(outPos, (outPos + i - 1) % N) = i - 1
      BY <2>2, <3>1, Place
    <3> QED  BY <3>1, <3>2
  <2>4. \A i \in 1..Len(cons.got) : cons.got[i] = buffer'[(outPos + i - 1) % N]  BY <2>1, <2>3
  <2> QED  BY <1>2, <2>1, <2>4 DEF Emptied, N
<1>3. CASE cons.at = "sift"
  <2>1. View(buffer', cons.to, cons.end) = View(buffer, cons.to, cons.end)
    BY <1>1, <1>3, RingFacts, PartSame
  <2>2. /\ Slots(cons.to, cons.end) = View(buffer, cons.to, cons.end)
        /\ Slots(cons.to, cons.end)' = View(buffer', cons.to, cons.end)
    BY DEF Slots, View, Dist, N
  <2>3. Fifo!Sifted(Slots(cons.to, cons.end), cons.got, cons.seen)'
    <3>1. Fifo!Sifted(Slots(cons.to, cons.end), cons.got, cons.seen)  BY <1>1, <1>3 DEF Emptied
    <3>2. /\ Slots(cons.to, cons.end)' = Slots(cons.to, cons.end)
          /\ cons.got' = cons.got /\ cons.seen' = cons.seen
      BY <2>1, <2>2
    <3> HIDE DEF Slots
    <3> QED  BY <3>1, <3>2
  <2>4. Len(cons.seen) = Dist(cons.pos, cons.end) /\ Dist(outPos, cons.end) >= 1
    BY <1>1, <1>3 DEF Emptied
  <2>5. (Len(cons.seen) = Dist(cons.pos, cons.end) /\ Dist(outPos, cons.end) >= 1)'
    BY <2>4 DEF Dist, N
  <2> QED  BY <1>3, <2>3, <2>5 DEF Emptied
<1>4. CASE cons.at \notin {"take", "sift"}  BY <1>4 DEF Emptied
<1> QED  BY <1>2, <1>3, <1>4

\* The end of a sequence without its head.
LEMMA TailConcat ==
  ASSUME NEW s \in Seq(Element), NEW t \in Seq(Element), s # <<>>
  PROVE  Tail(s \o t) = Tail(s) \o t
<1> DEFINE x == Head(s)
           r == Tail(s)
<1>1. x \in Element /\ r \in Seq(Element) /\ s = <<x>> \o r
  BY HeadTailProperties
<1> HIDE DEF x, r
<1>2. <<x>> \in Seq(Element)  BY <1>1
<1>3. s \o t = <<x>> \o (r \o t)  BY <1>1, <1>2, ConcatAssociative
<1>4. r \o t \in Seq(Element)  BY <1>1, ConcatProperties
<1>5. Tail(<<x>> \o (r \o t)) = r \o t  BY <1>1, <1>4, FrontTail
<1> QED  BY <1>3, <1>5 DEF r

\* Concatenation of sequences of elements.
LEMMA Associative ==
  ASSUME NEW s \in Seq(Element), NEW t \in Seq(Element), NEW u \in Seq(Element)
  PROVE  (s \o t) \o u = s \o (t \o u)
BY ConcatAssociative

\* When the producer has written more, the queue is longer by that.
LEMMA HeldMore ==
  ASSUME NEW buf \in Buffers, NEW in \in Slot, NEW in2 \in Slot, NEW out \in Slot,
         Dist(out, in) <= Dist(out, in2),
         NEW c, c.pos \in Slot, c.end \in Slot, c.seen \in Seq(Element),
         c.at = "sift" => Dist(out, c.end) <= Dist(out, in),
         c.at = "store" => Dist(out, in) >= 1
  PROVE  Held(buf, in2, out, c) = Held(buf, in, out, c) \o View(buf, in, in2)
<1> DEFINE more == View(buf, in, in2)
           all == View(buf, out, in)
<1>1. more \in Seq(Element) /\ all \in Seq(Element) /\ Len(all) = Dist(out, in)  BY ViewIs
<1>2. View(buf, out, in2) = all \o more  BY ViewSplit
<1>3. CASE c.at = "sift"
  <2> DEFINE p == c.pos
             e == c.end
             s == c.seen
  <2>1. p \in Slot /\ e \in Slot /\ s \in Seq(Element) /\ Dist(out, e) <= Dist(out, in)  BY <1>3
  <2> HIDE DEF p, e, s
  <2>2. /\ Dist(out, in) \in Int /\ Dist(out, in2) \in Int /\ Dist(out, e) \in Int
    BY <2>1, Distances
  <2>3. Dist(e, in) = Dist(out, in) - Dist(out, e) /\ Dist(e, in2) = Dist(out, in2) - Dist(out, e)
    BY <2>1, <2>2, Split
  <2>4. Dist(e, in) <= Dist(e, in2)  BY <2>2, <2>3
  <2> DEFINE a == View(buf, out, p)
             b == View(buf, e, in)
  <2>5. a \in Seq(Element) /\ b \in Seq(Element)  BY <2>1, ViewIs
  <2>6. View(buf, e, in2) = b \o more  BY <2>1, <2>4, ViewSplit
  <2> HIDE DEF a, b, more
  <2> DEFINE as == a \o s
  <2>7. as \in Seq(Element)  BY <2>1, <2>5, ConcatProperties
  <2> HIDE DEF as
  <2>8. more \in Seq(Element)  BY <1>1 DEF more
  <2>9. (as \o b) \o more = as \o (b \o more)
    <3>1. as \in Seq(Element) /\ b \in Seq(Element) /\ more \in Seq(Element)
      BY <2>5, <2>7, <2>8
    <3> QED  BY <3>1, Associative, Zenon
  <2>10. (a \o s) \o (b \o more) = ((a \o s) \o b) \o more  BY <2>9 DEF as
  <2> QED  BY <1>3, <2>6, <2>10 DEF Held, p, e, s, a, b, more
<1>4. CASE c.at = "store"
  <2>1. all # <<>>  BY <1>1, <1>4, EmptySeq
  <2> HIDE DEF all, more
  <2>2. Tail(all \o more) = Tail(all) \o more  BY <1>1, <2>1, TailConcat
  <2> QED  BY <1>2, <1>4, <2>2 DEF Held, all, more
<1>5. CASE c.at \notin {"sift", "store"}  BY <1>2, <1>5 DEF Held
<1> QED  BY <1>3, <1>4, <1>5

\* The queue is no longer than what is available.
LEMMA ItemsLength ==
  ASSUME QueueInv
  PROVE  /\ Items \in Seq(Element)
         /\ cons.at # "store" => Len(Items) = Dist(outPos, inPos)
         /\ cons.at = "store" => Len(Items) = Dist(outPos, inPos) - 1 /\ Dist(outPos, inPos) >= 1
<1>1. RingInv /\ Emptied  BY DEF QueueInv
<1> DEFINE all == View(buffer, outPos, inPos)
<1>2. all \in Seq(Element) /\ Len(all) = Dist(outPos, inPos)  BY <1>1, RingFacts, ViewIs
<1>3. CASE cons.at = "sift"
  <2> DEFINE a == View(buffer, outPos, cons.pos)
             b == View(buffer, cons.end, inPos)
             s == cons.seen
  <2>1. /\ a \in Seq(Element) /\ Len(a) = Dist(outPos, cons.pos)
        /\ b \in Seq(Element) /\ Len(b) = Dist(cons.end, inPos)
        /\ s \in Seq(Element) /\ Len(s) = Dist(cons.pos, cons.end)
    <3>1. /\ buffer \in Buffers /\ outPos \in Slot /\ inPos \in Slot
          /\ cons.pos \in Slot /\ cons.end \in Slot /\ s \in Seq(Element)
      BY <1>1, RingFacts
    <3>2. Len(s) = Dist(cons.pos, cons.end)  BY <1>1, <1>3 DEF Emptied
    <3>3. a \in Seq(Element) /\ Len(a) = Dist(outPos, cons.pos)  BY <3>1, ViewIs
    <3>4. b \in Seq(Element) /\ Len(b) = Dist(cons.end, inPos)  BY <3>1, ViewIs
    <3> HIDE DEF a, b, s
    <3> QED  BY <3>1, <3>2, <3>3, <3>4
  <2>2. /\ Dist(cons.pos, cons.end) = Dist(outPos, cons.end) - Dist(outPos, cons.pos)
        /\ Dist(cons.end, inPos) = Dist(outPos, inPos) - Dist(outPos, cons.end)
    BY <1>1, <1>3, RingFacts, Split
  <2>3. /\ Dist(outPos, cons.end) \in Int /\ Dist(outPos, cons.pos) \in Int
        /\ Dist(outPos, inPos) \in Int
    <3>1. outPos \in Slot /\ cons.end \in Slot /\ cons.pos \in Slot /\ inPos \in Slot
      BY <1>1, RingFacts
    <3> QED  BY <3>1, Distances
  <2>4. Items = (a \o s) \o b  BY <1>3, ItemsHeld DEF Held
  <2> HIDE DEF a, b, s
  <2>5. /\ a \o s \in Seq(Element) /\ Len(a \o s) = Len(a) + Len(s)
    BY <2>1, ConcatProperties
  <2>6. /\ (a \o s) \o b \in Seq(Element) /\ Len((a \o s) \o b) = Len(a \o s) + Len(b)
    BY <2>1, <2>5, ConcatProperties
  <2>7. Len(Items) = Dist(outPos, inPos) /\ Items \in Seq(Element)
    <3>1. Len(Items) = Dist(outPos, cons.pos) + Dist(cons.pos, cons.end) + Dist(cons.end, inPos)
      BY <2>1, <2>4, <2>5, <2>6
    <3>2. Len(Items) = Dist(outPos, inPos)  BY <2>2, <2>3, <3>1
    <3>3. Items \in Seq(Element)  BY <2>4, <2>6
    <3> QED  BY <3>2, <3>3
  <2> QED  BY <1>3, <2>7
<1>4. CASE cons.at = "store"
  <2>1. Dist(outPos, cons.end) >= 1 /\ Dist(outPos, cons.end) <= Dist(outPos, inPos)
    BY <1>1, <1>4 DEF RingInv, ConsumerInv
  <2>2. Dist(outPos, cons.end) \in Int /\ Dist(outPos, inPos) \in Int
    <3>1. outPos \in Slot /\ cons.end \in Slot /\ inPos \in Slot  BY <1>1, RingFacts
    <3> QED  BY <3>1, Distances
  <2>3. Items = Tail(all)  BY <1>4, ItemsHeld DEF Held
  <2> HIDE DEF all
  <2>4. all # <<>>  BY <1>2, <2>1, <2>2, EmptySeq
  <2>5. Tail(all) \in Seq(Element) /\ Len(Tail(all)) = Len(all) - 1
    BY <1>2, <2>4, HeadTailProperties
  <2> QED  BY <1>2, <1>4, <2>1, <2>2, <2>3, <2>5
<1>5. CASE cons.at \notin {"sift", "store"}
  <2>1. Items = all  BY <1>5, ItemsHeld DEF Held
  <2> QED  BY <1>2, <1>5, <2>1
<1> QED  BY <1>3, <1>4, <1>5

\* Writing a slot that is not in use.
LEMMA WriteAside ==
  ASSUME RingInv, NEW s \in Slot, NEW e \in Element,
         ~(Dist(outPos, s) < Dist(outPos, inPos)), buffer' = [buffer EXCEPT ![s] = e]
  PROVE  /\ buffer' \in Buffers
         /\ \A r \in Slot : Dist(outPos, r) < Dist(outPos, inPos) => buffer'[r] = buffer[r]
<1>1. buffer \in Buffers  BY RingFacts
<1>2. buffer' \in Buffers  BY <1>1 DEF Buffers
<1>3. ASSUME NEW r \in Slot, Dist(outPos, r) < Dist(outPos, inPos) PROVE buffer'[r] = buffer[r]
  <2>1. r # s  BY <1>3
  <2> QED  BY <1>1, <2>1 DEF Buffers
<1> QED  BY <1>2, <1>3

\* The producer's steps before it publishes.
LEMMA ProducerAside ==
  ASSUME QueueInv, (\E size \in 1..Capacity : StartPush(size)) \/ Fill \/ PushPeek \/ PushPending
  PROVE  Filled' /\ Emptied' /\ UNCHANGED <<Items, left, pushed>>
<1> USE CapacityAssumption, MaxPushesAssumption
<1>0. /\ RingInv /\ TypeOK /\ ProducerInv /\ Filled /\ Emptied
      /\ inPos \in Slot /\ outPos \in Slot /\ pushed \in Element /\ buffer \in Buffers
      /\ prod.b1 \in 0..Capacity /\ prod.b2 \in 0..Capacity /\ prod.done \in 0..Capacity
  BY RingFacts DEF QueueInv, RingInv
<1>1. ASSUME UNCHANGED <<inPos, outPos, cons, left, pushed>>, cons.at # "link",
             buffer' \in Buffers,
             \A s \in Slot : Dist(outPos, s) < Dist(outPos, inPos) => buffer'[s] = buffer[s]
      PROVE  Emptied' /\ UNCHANGED <<Items, left, pushed>>
  <2>1. Items' = Items  BY <1>0, <1>1, Untouched
  <2>2. Emptied'  BY <1>1, EmptiedKept
  <2> QED  BY <1>1, <2>1, <2>2
<1>2. ASSUME NEW size \in 1..Capacity, StartPush(size)
      PROVE  Filled' /\ Emptied' /\ UNCHANGED <<Items, left, pushed>>
  <2>1. /\ prod'.at = "fill" /\ prod'.done = 0 /\ cons.at # "link"
        /\ UNCHANGED <<inPos, outPos, cons, left, pushed>> /\ buffer' = buffer
    BY <1>2 DEF StartPush
  <2>2. Filled'
    <3>1. ~\E i \in 0..(0 - 1) : TRUE  OBVIOUS
    <3> QED  BY <2>1, <3>1 DEF Filled
  <2> QED  BY <1>0, <1>1, <2>1, <2>2
<1>3. ASSUME Fill PROVE Filled' /\ Emptied' /\ UNCHANGED <<Items, left, pushed>>
  <2> DEFINE d == prod.done
             s == Target(d)
             e == pushed + d + 1
  <2>1. /\ prod.at = "fill" /\ d < prod.b1 + prod.b2
        /\ buffer' = [buffer EXCEPT ![s] = e]
        /\ prod' = [prod EXCEPT !.done = d + 1]
        /\ UNCHANGED <<mp, inPos, outPos, cons, pushed, left>>
    BY <1>3 DEF Fill
  <2>2. /\ d \in 0..(prod.b1 + prod.b2 - 1)
        /\ pushed + prod.b1 + prod.b2 <= MaxPushes /\ cons.at # "link"
    BY <1>0, <2>1 DEF ProducerInv
  <2>3. s \in Slot /\ Dist(inPos, s) = d  BY <1>0, <2>1, <2>2, TargetIs
  <2>4. e \in Element  BY <1>0, <2>2 DEF Element
  <2>5. ~(Dist(outPos, s) < Dist(outPos, inPos))
    <3>1. s \in Written  BY <2>1, <2>2 DEF Written
    <3>2. RaceFree  BY <1>0, Apart
    <3> HIDE DEF s
    <3> QED  BY <2>3, <3>1, <3>2 DEF RaceFree, Occupied, Available
  <2>6. /\ prod'.at = "fill" /\ prod'.b1 = prod.b1 /\ prod'.done = d + 1
    BY <1>0, <2>1 DEF TypeOK
  <2>7. ASSUME NEW i \in 0..d PROVE buffer'[Target(i)] = pushed + i + 1
    <3>1. i \in 0..(prod.b1 + prod.b2 - 1)  BY <1>0, <2>2
    <3>2. Target(i) \in Slot /\ Dist(inPos, Target(i)) = i  BY <1>0, <2>1, <3>1, TargetIs
    <3>3. CASE i = d
      <4>1. Target(i) = s  BY <3>3
      <4> HIDE DEF s
      <4> QED  BY <1>0, <2>1, <2>3, <3>3, <4>1 DEF Buffers
    <3>4. CASE i # d
      <4>1. Target(i) # s  BY <2>3, <3>2, <3>4
      <4>2. i \in 0..(d - 1)  BY <1>0, <3>4
      <4>3. buffer[Target(i)] = pushed + i + 1  BY <1>0, <2>1, <4>2 DEF Filled
      <4> HIDE DEF s, e, d
      <4> QED  BY <1>0, <2>1, <3>2, <4>1, <4>3 DEF Buffers
    <3> QED  BY <3>3, <3>4
  <2> HIDE DEF s, e
  <2>8. Filled'
    <3>1. (prod.done - 1)' = d  BY <1>0, <2>6
    <3>2. \A i \in 0..d : Target(i)' = Target(i)  BY <2>1, <2>6 DEF Target
    <3> HIDE DEF d
    <3>3. \A i \in 0..(prod'.done - 1) : buffer'[Target(i)'] = pushed' + i + 1
      BY <2>1, <2>7, <3>1, <3>2
    <3> QED  BY <2>6, <3>3 DEF Filled
  <2>9. /\ buffer' \in Buffers
        /\ \A r \in Slot : Dist(outPos, r) < Dist(outPos, inPos) => buffer'[r] = buffer[r]
    BY <1>0, <2>1, <2>3, <2>4, <2>5, WriteAside
  <2> QED  BY <1>1, <2>1, <2>2, <2>8, <2>9
<1>4. ASSUME PushPeek PROVE Filled' /\ Emptied' /\ UNCHANGED <<Items, left, pushed>>
  <2> DEFINE e == pushed + 1
  <2>1. /\ ~mp /\ pushed < MaxPushes
        /\ buffer' = [buffer EXCEPT ![inPos] = e]
        /\ prod' = [prod EXCEPT !.at = "peeked"]
        /\ UNCHANGED <<mp, inPos, outPos, cons, pushed, left>>
    BY <1>4 DEF PushPeek
  <2>2. e \in Element /\ cons.at # "link"  BY <1>0, <2>1 DEF Element, ProducerInv
  <2>3. prod'.at = "peeked"  BY <1>0, <2>1 DEF TypeOK
  <2>4. buffer'[inPos] = pushed + 1  BY <1>0, <2>1 DEF Buffers
  <2>5. Filled'  BY <2>1, <2>3, <2>4 DEF Filled
  <2> HIDE DEF e
  <2>6. Dist(outPos, inPos) \in Int  BY <1>0, Distances
  <2>7. ~(Dist(outPos, inPos) < Dist(outPos, inPos))  BY <2>6
  <2>8. /\ buffer' \in Buffers
        /\ \A r \in Slot : Dist(outPos, r) < Dist(outPos, inPos) => buffer'[r] = buffer[r]
    BY <1>0, <2>1, <2>2, <2>7, WriteAside
  <2> QED  BY <1>1, <2>1, <2>2, <2>5, <2>8
<1>5. ASSUME PushPending PROVE Filled' /\ Emptied' /\ UNCHANGED <<Items, left, pushed>>
  <2>1. /\ prod.at = "peeked" /\ prod' = [at |-> "fill", b1 |-> 1, b2 |-> 0, done |-> 1]
        /\ UNCHANGED <<mp, inPos, outPos, buffer, cons, pushed, left>>
    BY <1>5 DEF PushPending
  <2>2. cons.at # "link" /\ buffer[inPos] = pushed + 1
    BY <1>0, <2>1 DEF ProducerInv, Filled
  <2>3. Filled'
    <3>1. Target(0)' = inPos  BY <1>0, <2>1 DEF Target, Slot
    <3>2. \A i \in 0..0 : i = 0  OBVIOUS
    <3>3. \A i \in 0..(prod'.done - 1) : buffer'[Target(i)'] = pushed' + i + 1
      BY <1>0, <2>1, <2>2, <3>1, <3>2 DEF Element
    <3> QED  BY <2>1, <3>3 DEF Filled
  <2> QED  BY <1>0, <1>1, <2>1, <2>2, <2>3
<1> QED  BY <1>2, <1>3, <1>4, <1>5

\* Publishing puts the elements of the push at the end of the queue.
LEMMA PublishPushes ==
  ASSUME QueueInv, Publish
  PROVE  /\ Filled' /\ Emptied'
         /\ \E k \in 1..Capacity : Fifo!Push(k)
<1> USE CapacityAssumption, MaxPushesAssumption
<1>0. /\ RingInv /\ TypeOK /\ ProducerInv /\ ConsumerInv /\ Filled /\ Emptied
      /\ inPos \in Slot /\ outPos \in Slot /\ pushed \in Element /\ buffer \in Buffers
      /\ prod.b1 \in 0..Capacity /\ prod.b2 \in 0..Capacity /\ prod.done \in 0..Capacity
      /\ cons.pos \in Slot /\ cons.end \in Slot /\ cons.seen \in Seq(Element)
      /\ Dist(outPos, inPos) \in 0..Capacity
  BY RingFacts DEF QueueInv, RingInv
<1> DEFINE k == prod.b1 + prod.b2
           p == inPos'
           more == View(buffer, inPos, p)
<1>1. /\ prod.at = "fill" /\ prod.done = k /\ prod' = Quiet
      /\ pushed' = pushed + prod.b1 + prod.b2
      /\ UNCHANGED <<outPos, buffer, cons, left>>
  BY DEF Publish
<1>2. p \in Slot /\ Dist(outPos, p) = Dist(outPos, inPos) + k
  BY <1>0, PublishTo
<1>3. k \in 1..Capacity /\ k <= Capacity - Dist(outPos, inPos) /\ cons.at # "link"
  BY <1>0, <1>1 DEF ProducerInv
<1>4. Filled'  BY <1>1 DEF Filled, Quiet
<1>5. Emptied'  BY <1>0, <1>1, <1>3, EmptiedKept
<1>6. Dist(outPos, inPos) <= Dist(outPos, p) /\ Dist(inPos, p) = k
  <2>1. Dist(outPos, inPos) <= Dist(outPos, p)  BY <1>0, <1>2, <1>3
  <2> HIDE DEF p, k
  <2>2. Dist(inPos, p) = Dist(outPos, p) - Dist(outPos, inPos)  BY <1>0, <1>2, <2>1, Split
  <2> QED  BY <1>0, <1>2, <1>3, <2>1, <2>2
<1>7. more = [i \in 1..k |-> pushed + i]
  <2>1. ASSUME NEW i \in 1..k PROVE buffer[(inPos + i - 1) % N] = pushed + i
    <3> DEFINE j == i - 1
    <3>1. j \in 0..(prod.b1 + prod.b2 - 1) /\ j \in 0..(prod.done - 1) /\ inPos + j = inPos + i - 1
          /\ j + 1 = i
      <4>1. /\ inPos \in Int /\ prod.b1 \in Nat /\ prod.b2 \in Nat
            /\ prod.b1 + prod.b2 = k /\ prod.done = k
        BY <1>0, <1>1, <1>3 DEF Slot
      <4> HIDE DEF k
      <4>2. j \in 0..(k - 1) /\ inPos + j = inPos + i - 1 /\ j + 1 = i  BY <4>1
      <4> HIDE DEF j
      <4>3. j \in 0..(prod.b1 + prod.b2 - 1)  BY <4>1, <4>2
      <4>4. j \in 0..(prod.done - 1)  BY <4>1, <4>2
      <4> QED  BY <4>2, <4>3, <4>4
    <3> HIDE DEF j
    <3>2. Target(j) \in Slot /\ Dist(inPos, Target(j)) = j  BY <1>0, <1>1, <3>1, TargetIs
    <3>3. (inPos + j) % N = Target(j)
      <4> DEFINE q == Target(j)
      <4>1. q \in Slot /\ Dist(inPos, q) = j  BY <3>2
      <4> HIDE DEF q
      <4>2. (inPos + Dist(inPos, q)) % N = q  BY <1>0, <4>1, PlaceOf
      <4> QED  BY <4>1, <4>2 DEF q
    <3>4. buffer[Target(j)] = pushed + j + 1  BY <1>0, <1>1, <3>1 DEF Filled
    <3>5. pushed + j + 1 = pushed + i  BY <1>0, <3>1 DEF Element
    <3> QED  BY <3>1, <3>3, <3>4, <3>5
  <2> HIDE DEF k, p
  <2> QED  BY <1>6, <2>1 DEF View
<1>8. Held(buffer, p, outPos, cons) = Held(buffer, inPos, outPos, cons) \o more
  <2>1. cons.at = "sift" => Dist(outPos, cons.end) <= Dist(outPos, inPos)  BY <1>0, RingFacts
  <2>2. cons.at = "store" => Dist(outPos, inPos) >= 1
    <3>1. Dist(outPos, cons.end) \in Int  BY <1>0, Distances
    <3> QED  BY <1>0, <3>1 DEF ConsumerInv
  <2> HIDE DEF p, k
  <2> QED  BY <1>0, <1>2, <1>6, <2>1, <2>2, HeldMore
<1>9. Items' = Items \o [i \in 1..k |-> pushed + i]
  <2>1. Items = Held(buffer, inPos, outPos, cons)  BY ItemsHeld
  <2>2. Items' = Held(buffer', inPos', outPos', cons')  BY ItemsHeld
  <2> QED  BY <1>1, <1>7, <1>8, <2>1, <2>2
<1>10. k <= Capacity - Len(Items)  BY <1>0, <1>3, ItemsLength
<1>11. pushed' = pushed + k  BY <1>0, <1>1 DEF Element
<1> HIDE DEF k
<1>12. Fifo!Push(k)  BY <1>1, <1>9, <1>10, <1>11 DEF Fifo!Push
<1> QED  BY <1>3, <1>4, <1>5, <1>12

\* What the producer knows does not depend on the slots in use.
LEMMA FilledKept ==
  ASSUME QueueInv, UNCHANGED <<inPos, prod, pushed>>,
         \A s \in Slot : ~(Dist(outPos, s) < Dist(outPos, inPos)) => buffer'[s] = buffer[s]
  PROVE  Filled'
<1>0. /\ RingInv /\ TypeOK /\ ProducerInv /\ Filled
      /\ inPos \in Slot /\ outPos \in Slot
      /\ prod.b1 \in 0..Capacity /\ prod.b2 \in 0..Capacity /\ prod.done \in 0..Capacity
  BY RingFacts DEF QueueInv, RingInv
<1>1. CASE prod.at = "fill"
  <2>1. ASSUME NEW i \in 0..(prod.done - 1) PROVE buffer'[Target(i)] = pushed + i + 1
    <3> DEFINE s == Target(i)
    <3>1. i \in 0..(prod.b1 + prod.b2 - 1)  BY <1>0, <1>1 DEF ProducerInv
    <3>2. s \in Slot  BY <1>0, <1>1, <3>1, TargetIs
    <3>3. s \in Written  BY <1>1, <3>1 DEF Written
    <3>4. buffer[s] = pushed + i + 1  BY <1>0, <1>1 DEF Filled
    <3> HIDE DEF s
    <3>5. ~(Dist(outPos, s) < Dist(outPos, inPos))
      BY <1>0, <3>2, <3>3, Apart DEF RaceFree, Occupied, Available
    <3>6. buffer'[s] = pushed + i + 1  BY <3>2, <3>4, <3>5
    <3> QED  BY <3>6 DEF s
  <2>2. \A i \in 0..(prod.done - 1) : Target(i)' = Target(i)  BY DEF Target
  <2>3. prod' = prod /\ pushed' = pushed  OBVIOUS
  <2>4. \A i \in 0..(prod'.done - 1) : buffer'[Target(i)'] = pushed' + i + 1
    BY <2>1, <2>2, <2>3
  <2> QED  BY <1>1, <2>3, <2>4 DEF Filled
<1>2. CASE prod.at = "peeked"
  <2>1. Dist(outPos, inPos) \in Int  BY <1>0, Distances
  <2>2. buffer'[inPos] = buffer[inPos]  BY <1>0, <2>1
  <2> QED  BY <1>0, <1>2, <2>2 DEF Filled
<1>3. CASE prod.at \notin {"fill", "peeked"}  BY <1>3 DEF Filled
<1> QED  BY <1>1, <1>2, <1>3

\* The consumer's steps that only look, and the write behind m_inPos.
LEMMA ConsumerAside ==
  ASSUME QueueInv,
         \/ \E size \in 1..Capacity : StartPop(size)
         \/ StartForEach \/ StartFlush \/ StartRequeue \/ Read \/ RequeueCall(TRUE)
         \/ RequeueWrite
  PROVE  Filled' /\ Emptied' /\ UNCHANGED <<Items, left, pushed>>
<1> USE CapacityAssumption, MaxPushesAssumption
<1>0. /\ RingInv /\ TypeOK /\ ProducerInv /\ ConsumerInv /\ Filled /\ Emptied
      /\ inPos \in Slot /\ outPos \in Slot /\ buffer \in Buffers
      /\ cons.count \in 0..Capacity /\ cons.got \in Seq(Element) /\ cons \in Consumer
      /\ Dist(outPos, inPos) \in 0..Capacity /\ cons.end \in Slot
  BY RingFacts DEF QueueInv, RingInv, TypeOK
<1>1. ASSUME UNCHANGED <<inPos, outPos, buffer, prod, pushed, left>>,
             cons.at \notin {"sift", "store"}, cons'.at \notin {"sift", "store"}
      PROVE  Filled' /\ UNCHANGED <<Items, left, pushed>>
  <2>1. buffer' = buffer  BY <1>1
  <2>2. Items' = Items  BY <1>0, <1>1, <2>1, Untouched
  <2>3. Filled'  BY <1>1, <2>1, FilledKept
  <2> QED  BY <1>1, <2>2, <2>3
<1>2. ASSUME NEW count, NEW end, count \in 0..Capacity, StartTake(count, end)
      PROVE  Filled' /\ Emptied' /\ UNCHANGED <<Items, left, pushed>>
  <2>1. /\ cons.at = "idle" /\ cons'.at = "take" /\ cons'.got = <<>> /\ cons'.count = count
        /\ UNCHANGED <<inPos, outPos, buffer, prod, pushed, left>>
    BY <1>2 DEF StartTake, Free
  <2>2. Emptied'
    <3>1. Len(<<>>) = 0 /\ 0 <= count /\ ~\E i \in 1..0 : TRUE  BY <1>2
    <3> QED  BY <2>1, <3>1 DEF Emptied
  <2> QED  BY <1>1, <2>1, <2>2
<1>3. ASSUME NEW size \in 1..Capacity, StartPop(size)
      PROVE  Filled' /\ Emptied' /\ UNCHANGED <<Items, left, pushed>>
  <2> DEFINE n == Smaller(size, Available)
  <2>1. StartTake(n, (outPos + n) % N)  BY <1>3 DEF StartPop
  <2>2. n \in 0..Capacity  BY <1>0 DEF Smaller, Available
  <2> QED  BY <1>2, <2>1, <2>2
<1>4. ASSUME StartForEach PROVE Filled' /\ Emptied' /\ UNCHANGED <<Items, left, pushed>>
  <2>1. 1 \in 0..Capacity  OBVIOUS
  <2> QED  BY <1>2, <1>4, <2>1 DEF StartForEach
<1>5. ASSUME StartFlush \/ StartRequeue
      PROVE  Filled' /\ Emptied' /\ UNCHANGED <<Items, left, pushed>>
  <2>1. /\ cons.at = "idle" /\ cons'.at \in {"flush", "call"}
        /\ UNCHANGED <<inPos, outPos, buffer, prod, pushed, left>>
    BY <1>5 DEF StartFlush, StartRequeue, Free
  <2>2. Emptied'  BY <2>1 DEF Emptied
  <2> QED  BY <1>1, <2>1, <2>2
<1>6. ASSUME Read PROVE Filled' /\ Emptied' /\ UNCHANGED <<Items, left, pushed>>
  <2> DEFINE g == cons.got
             k == Len(g)
             e == buffer[(outPos + k) % N]
             h == Append(g, e)
  <2>1. /\ cons.at = "take" /\ k < cons.count
        /\ cons' = [cons EXCEPT !.got = h]
        /\ UNCHANGED <<mp, inPos, outPos, buffer, prod, pushed, left>>
    BY <1>6 DEF Read
  <2>2. cons'.at = "take" /\ cons'.got = h /\ cons'.count = cons.count
    BY <1>0, <2>1 DEF Consumer
  <2>3. /\ k \in 0..Capacity /\ \A i \in 1..k : g[i] = buffer[(outPos + i - 1) % N]
    BY <1>0, <2>1, LenProperties DEF Emptied
  <2>4. e \in Element
    <3>1. (outPos + k) % N \in Slot  BY <1>0, <2>3, Forward
    <3> QED  BY <1>0, <3>1 DEF Buffers
  <2> HIDE DEF e
  <2>5. /\ Len(h) = k + 1 /\ \A i \in 1..k : h[i] = g[i]
        /\ h[k + 1] = e
    BY <1>0, <2>4, AppendProperties
  <2> HIDE DEF h, g, k
  <2>6. ASSUME NEW i \in 1..Len(h) PROVE h[i] = buffer[(outPos + i - 1) % N]
    <3>1. CASE i = k + 1
      <4>1. outPos + k = outPos + i - 1  BY <1>0, <2>3, <3>1 DEF Slot
      <4> QED  BY <2>5, <3>1, <4>1 DEF e
    <3>2. CASE i # k + 1
      <4>1. i \in 1..k  BY <2>3, <2>5, <3>2
      <4> QED  BY <2>3, <2>5, <4>1
    <3> QED  BY <3>1, <3>2
  <2>7. Len(h) <= cons.count  BY <1>0, <2>1, <2>3, <2>5
  <2>8. Emptied'  BY <2>1, <2>2, <2>6, <2>7 DEF Emptied, N
  <2> QED  BY <1>1, <2>1, <2>2, <2>8
<1>7. ASSUME RequeueCall(TRUE) PROVE Filled' /\ Emptied' /\ UNCHANGED <<Items, left, pushed>>
  <2>1. /\ cons.at = "call" /\ cons' = [cons EXCEPT !.at = "lock"]
        /\ UNCHANGED <<inPos, outPos, buffer, prod, pushed, left>>
    BY <1>7 DEF RequeueCall
  <2>2. cons'.at = "lock"  BY <1>0, <2>1 DEF Consumer
  <2>3. Emptied'  BY <2>2 DEF Emptied
  <2> QED  BY <1>1, <2>1, <2>2, <2>3
<1>8. ASSUME RequeueWrite PROVE Filled' /\ Emptied' /\ UNCHANGED <<Items, left, pushed>>
  <2> DEFINE e == buffer[outPos]
  <2>1. /\ cons.at = "lock" /\ prod.at = "idle" /\ cons' = [cons EXCEPT !.at = "link"]
        /\ buffer' = [buffer EXCEPT ![inPos] = e]
        /\ UNCHANGED <<mp, inPos, outPos, prod, pushed, left>>
    BY <1>8 DEF RequeueWrite
  <2>2. cons'.at = "link"  BY <1>0, <2>1 DEF Consumer
  <2>3. e \in Element  BY <1>0 DEF Buffers
  <2>4. inPos # outPos
    <3>1. Dist(outPos, cons.end) \in 0..Capacity  BY <1>0, Distances
    <3>2. Dist(outPos, inPos) # 0  BY <1>0, <2>1, <3>1 DEF ConsumerInv
    <3> QED  BY <1>0, <3>2, Distances
  <2>5. buffer'[inPos] = e /\ buffer'[outPos] = e  BY <1>0, <2>1, <2>4 DEF Buffers
  <2>6. Emptied'
    <3>1. buffer'[inPos'] = buffer'[outPos']  BY <2>1, <2>5
    <3> QED  BY <2>2, <3>1 DEF Emptied
  <2> HIDE DEF e
  <2>7. /\ buffer' \in Buffers
        /\ \A r \in Slot : Dist(outPos, r) < Dist(outPos, inPos) => buffer'[r] = buffer[r]
    <3>1. ~(Dist(outPos, inPos) < Dist(outPos, inPos))  BY <1>0
    <3> QED  BY <1>0, <2>1, <2>3, <3>1, WriteAside
  <2>8. Items' = Items  BY <1>0, <2>1, <2>2, <2>7, Untouched
  <2>9. Filled'  BY <2>1 DEF Filled
  <2> QED  BY <2>1, <2>6, <2>8, <2>9
<1> QED  BY <1>3, <1>4, <1>5, <1>6, <1>7, <1>8

\* The two parts of a concatenation.
LEMMA Cuts ==
  ASSUME NEW u \in Seq(Element), NEW v \in Seq(Element)
  PROVE  /\ u \o v \in Seq(Element) /\ Len(u \o v) = Len(u) + Len(v)
         /\ SubSeq(u \o v, 1, Len(u)) = u
         /\ SubSeq(u \o v, Len(u) + 1, Len(u) + Len(v)) = v
<1> DEFINE w == u \o v
           m == Len(u)
           n == Len(v)
           a == SubSeq(w, 1, m)
           b == SubSeq(w, m + 1, m + n)
<1>1. m \in Nat /\ n \in Nat  BY LenProperties
<1>2. /\ w \in Seq(Element) /\ Len(w) = m + n
      /\ \A i \in 1..(m + n) : w[i] = IF i <= m THEN u[i] ELSE v[i - m]
  BY ConcatProperties
<1>3. \A i \in 1..(m + n) : w[i] \in Element  BY <1>2
<1>4. \A i \in 1..m : i \in 1..(m + n)  BY <1>1
<1>5. \A i \in (m + 1)..(m + n) : i \in 1..(m + n)  BY <1>1
<1> HIDE DEF w
<1>6. /\ a \in Seq(Element) /\ Len(a) = m
      /\ \A i \in 1..m : a[i] = w[i]
  <2>1. \A i \in 1..m : w[i] \in Element  BY <1>3, <1>4
  <2>2. 1 \in Int /\ m \in Int  BY <1>1
  <2>3. /\ a \in Seq(Element) /\ Len(a) = IF 1 <= m THEN m - 1 + 1 ELSE 0
        /\ \A i \in 1..(m - 1 + 1) : a[i] = w[1 + i - 1]
    <3> HIDE DEF m
    <3> QED  BY <2>1, <2>2, SubSeqProperties
  <2> HIDE DEF a, m
  <2>4. m - 1 + 1 = m /\ \A i \in 1..m : 1 + i - 1 = i  BY <1>1
  <2> QED  BY <1>1, <2>3, <2>4
<1>7. /\ b \in Seq(Element) /\ Len(b) = n
      /\ \A i \in 1..n : b[i] = w[m + i]
  <2> DEFINE from == m + 1
             upto == m + n
  <2>1. \A i \in from..upto : w[i] \in Element  BY <1>3, <1>5
  <2>2. from \in Int /\ upto \in Int  BY <1>1
  <2> HIDE DEF from, upto
  <2>3. /\ SubSeq(w, from, upto) \in Seq(Element)
        /\ Len(SubSeq(w, from, upto)) = IF from <= upto THEN upto - from + 1 ELSE 0
        /\ \A i \in 1..(upto - from + 1) : SubSeq(w, from, upto)[i] = w[from + i - 1]
    BY <2>1, <2>2, SubSeqProperties
  <2>4. b = SubSeq(w, from, upto)  BY DEF from, upto
  <2> HIDE DEF b, m, n
  <2>5. /\ upto - from + 1 = n /\ (from <= upto <=> n >= 1)
        /\ \A i \in 1..n : from + i - 1 = m + i
    BY <1>1 DEF from, upto
  <2> QED  BY <1>1, <2>3, <2>4, <2>5
<1>8. a = u
  <2>1. \A i \in 1..m : a[i] = u[i]  BY <1>2, <1>4, <1>6
  <2> HIDE DEF a
  <2> QED  BY <1>6, <2>1, SeqEqual
<1>9. b = v
  <2>1. ASSUME NEW i \in 1..n PROVE b[i] = v[i]
    <3> DEFINE j == m + i
    <3>1. j \in 1..(m + n) /\ ~(j <= m) /\ j - m = i  BY <1>1
    <3>2. b[i] = w[j]  BY <1>7
    <3> HIDE DEF j, b
    <3>3. w[j] = v[j - m]  BY <1>2, <3>1
    <3> QED  BY <3>1, <3>2, <3>3
  <2> HIDE DEF b
  <2> QED  BY <1>7, <2>1, SeqEqual
<1> QED  BY <1>2, <1>8, <1>9 DEF w

\* Moving m_outPos over the oldest elements takes them off the queue.
LEMMA Leaves ==
  ASSUME QueueInv, cons.at \notin {"sift", "store"}, NEW p \in Slot, NEW k, k = Dist(outPos, p),
         k >= 1, k <= Dist(outPos, inPos),
         Items' = View(buffer, p, inPos),
         left' = left \o View(buffer, outPos, p), UNCHANGED pushed
  PROVE  \E n \in 1..Len(Items) : Fifo!Leave(n)
<1>1. /\ inPos \in Slot /\ outPos \in Slot /\ buffer \in Buffers
      /\ k \in 0..Capacity /\ Dist(outPos, inPos) \in 0..Capacity
  BY RingFacts, Distances DEF QueueInv
<1> DEFINE u == View(buffer, outPos, p)
           v == View(buffer, p, inPos)
<1>2. u \in Seq(Element) /\ Len(u) = k /\ v \in Seq(Element)  BY <1>1, ViewIs
<1>3. Items = View(buffer, outPos, inPos)  BY ItemsHeld DEF Held
<1>4. Items = u \o v  BY <1>1, <1>3, ViewSplit
<1>5. Len(Items) = Dist(outPos, inPos)  BY ItemsLength
<1> HIDE DEF u, v
<1>6. /\ Len(Items) = k + Len(v) /\ SubSeq(Items, 1, k) = u
      /\ SubSeq(Items, k + 1, k + Len(v)) = v
  BY <1>2, <1>4, Cuts
<1>7. k \in 1..Len(Items)  BY <1>1, <1>5
<1>8. Fifo!Leave(k)  BY <1>6 DEF Fifo!Leave, u, v
<1> QED  BY <1>7, <1>8

\* The consumer's steps that take elements.
LEMMA ConsumerTakes ==
  ASSUME QueueInv, Release \/ Flush \/ RequeueCall(FALSE)
  PROVE  /\ Filled' /\ Emptied'
         /\ (\E n \in 1..Len(Items) : Fifo!Leave(n)) \/ UNCHANGED <<Items, left, pushed>>
<1> USE CapacityAssumption, MaxPushesAssumption
<1>0. /\ RingInv /\ TypeOK /\ ProducerInv /\ ConsumerInv /\ Filled /\ Emptied
      /\ inPos \in Slot /\ outPos \in Slot /\ buffer \in Buffers
      /\ cons.count \in 0..Capacity /\ cons.got \in Seq(Element) /\ cons \in Consumer
      /\ Dist(outPos, inPos) \in 0..Capacity /\ cons.end \in Slot /\ left \in Seq(Element)
  BY RingFacts DEF QueueInv, RingInv, TypeOK
<1>1. ASSUME UNCHANGED <<inPos, buffer, prod, pushed>> PROVE Filled'
  BY <1>1, FilledKept
<1>2. ASSUME Release
      PROVE  Filled' /\ Emptied' /\ \E n \in 1..Len(Items) : Fifo!Leave(n)
  <2> DEFINE k == cons.count
             p == (outPos + k) % N
             g == cons.got
  <2>1. /\ cons.at = "take" /\ Len(g) = k /\ outPos' = p /\ left' = left \o g
        /\ cons' = IF p = cons.end THEN Free ELSE [cons EXCEPT !.got = <<>>]
        /\ UNCHANGED <<mp, inPos, buffer, prod, pushed>>
    BY <1>2 DEF Release
  <2>2. p \in Slot /\ Dist(outPos, p) = k  BY <1>0, Forward
  <2>3. k >= 1 /\ k <= Dist(outPos, inPos)
    <3>1. Dist(outPos, cons.end) \in 0..Capacity  BY <1>0, Distances
    <3> QED  BY <1>0, <2>1, <3>1 DEF ConsumerInv
  <2>4. /\ cons'.at \in {"idle", "take"}
        /\ cons'.at = "take" => cons'.got = <<>> /\ cons'.count = k
    <3>1. CASE p = cons.end
      <4>1. cons' = Free  BY <2>1, <3>1
      <4> QED  BY <4>1 DEF Free
    <3>2. CASE p # cons.end
      <4>1. cons' = [cons EXCEPT !.got = <<>>]  BY <2>1, <3>2
      <4> QED  BY <1>0, <2>1, <4>1 DEF Consumer
    <3> QED  BY <3>1, <3>2
  <2>5. \A i \in 1..k : g[i] = buffer[(outPos + i - 1) % N]  BY <1>0, <2>1 DEF Emptied
  <2> HIDE DEF p
  <2>6. g = View(buffer, outPos, p)
    <3> DEFINE v == View(buffer, outPos, p)
    <3>0. buffer \in Buffers /\ outPos \in Slot /\ p \in Slot  BY <1>0, <2>2
    <3>1. /\ v \in Seq(Element) /\ Len(v) = Dist(outPos, p)
          /\ \A i \in 1..Dist(outPos, p) : v[i] = buffer[(outPos + i - 1) % N]
      BY <3>0, ViewIs
    <3> HIDE DEF v
    <3>2. \A i \in 1..Len(g) : g[i] = v[i]  BY <2>1, <2>2, <2>5, <3>1
    <3>3. Len(v) = Len(g)  BY <2>1, <2>2, <3>1
    <3>4. g = v  BY <1>0, <3>1, <3>2, <3>3, SeqEqual
    <3> QED  BY <3>4 DEF v
  <2>7. Emptied'
    <3>1. Len(<<>>) = 0 /\ 0 <= k /\ ~\E i \in 1..0 : TRUE  BY <1>0
    <3> HIDE DEF k
    <3> QED  BY <2>4, <3>1 DEF Emptied
  <2>8. Items' = View(buffer, p, inPos)
    <3>1. Items' = Held(buffer', inPos', outPos', cons')  BY ItemsHeld
    <3>2. buffer' = buffer /\ inPos' = inPos /\ outPos' = p  BY <2>1
    <3> QED  BY <2>4, <3>1, <3>2 DEF Held
  <2>9. Filled'  BY <1>1, <2>1
  <2>10. left' = left \o View(buffer, outPos, p)  BY <2>1, <2>6
  <2> HIDE DEF k
  <2>11. \E n \in 1..Len(Items) : Fifo!Leave(n)
    BY <2>1, <2>2, <2>3, <2>8, <2>10, Leaves
  <2> QED  BY <2>7, <2>9, <2>11
<1>3. ASSUME Flush
      PROVE  /\ Filled' /\ Emptied'
             /\ (\E n \in 1..Len(Items) : Fifo!Leave(n)) \/ UNCHANGED <<Items, left, pushed>>
  <2> DEFINE p == cons.end
  <2>1. /\ cons.at = "flush" /\ outPos' = p /\ left' = left \o Slots(outPos, p) /\ cons' = Free
        /\ UNCHANGED <<mp, inPos, buffer, prod, pushed>>
    BY <1>3 DEF Flush
  <2>2. cons'.at = "idle"  BY <2>1 DEF Free
  <2>3. Filled' /\ Emptied'
    <3>1. Filled'  BY <1>1, <2>1
    <3>2. Emptied'  BY <2>2 DEF Emptied
    <3> QED  BY <3>1, <3>2
  <2>4. Items' = View(buffer, p, inPos)
    <3>1. Items' = Held(buffer', inPos', outPos', cons')  BY ItemsHeld
    <3>2. buffer' = buffer /\ inPos' = inPos /\ outPos' = p  BY <2>1
    <3> QED  BY <2>2, <3>1, <3>2 DEF Held
  <2>5. left' = left \o View(buffer, outPos, p)  BY <2>1 DEF Slots, View
  <2>6. p \in Slot /\ Dist(outPos, p) \in 0..Capacity /\ Dist(outPos, p) <= Dist(outPos, inPos)
    BY <1>0, <2>1, Distances DEF ConsumerInv
  <2> HIDE DEF p
  <2>7. CASE Dist(outPos, p) = 0
    <3>1. p = outPos  BY <1>0, <2>6, <2>7, Distances
    <3>2. View(buffer, outPos, p) = <<>>  BY <1>0, <3>1, ViewNone
    <3>3. left' = left  BY <1>0, <2>5, <3>2, ConcatEmptySeq
    <3>4. Items = View(buffer, outPos, inPos)  BY <2>1, ItemsHeld DEF Held
    <3> QED  BY <2>1, <2>3, <2>4, <3>1, <3>3, <3>4
  <2>8. CASE Dist(outPos, p) # 0
    <3> DEFINE k == Dist(outPos, p)
    <3>1. k >= 1 /\ k = Dist(outPos, p) /\ k <= Dist(outPos, inPos)  BY <2>6, <2>8
    <3> HIDE DEF k
    <3>2. \E n \in 1..Len(Items) : Fifo!Leave(n)
      BY <2>1, <2>4, <2>5, <2>6, <3>1, Leaves
    <3> QED  BY <2>3, <3>2
  <2> QED  BY <2>7, <2>8
<1>4. ASSUME RequeueCall(FALSE)
      PROVE  Filled' /\ Emptied' /\ \E n \in 1..Len(Items) : Fifo!Leave(n)
  <2> DEFINE p == Succ(outPos)
             e == buffer[outPos]
  <2>1. /\ cons.at = "call" /\ cons' = [cons EXCEPT !.at = "store"] /\ left' = Append(left, e)
        /\ UNCHANGED <<mp, inPos, outPos, buffer, prod, pushed>>
    BY <1>4 DEF RequeueCall
  <2>2. cons'.at = "store"  BY <1>0, <2>1 DEF Consumer
  <2>3. Filled' /\ Emptied'
    <3>1. Filled'  BY <1>1, <2>1
    <3>2. Emptied'  BY <2>2 DEF Emptied
    <3> QED  BY <3>1, <3>2
  <2>4. Dist(outPos, inPos) >= 1 /\ outPos # inPos
    <3>1. Dist(outPos, cons.end) \in 0..Capacity  BY <1>0, Distances
    <3>2. Dist(outPos, inPos) >= 1  BY <1>0, <2>1, <3>1 DEF ConsumerInv
    <3> QED  BY <1>0, <3>2, Distances
  <2>5. p \in Slot /\ Dist(outPos, p) = 1  BY <1>0, <2>4, SuccDist
  <2>6. e \in Element  BY <1>0 DEF Buffers
  <2> HIDE DEF p
  <2>7. View(buffer, outPos, p) = <<e>>  BY <1>0, <2>5, ViewOne
  <2>8. left' = left \o View(buffer, outPos, p)
    <3> HIDE DEF e
    <3> QED  BY <1>0, <2>1, <2>6, <2>7, AppendIsConcat
  <2>9. Items' = View(buffer, p, inPos)
    <3>1. Items' = Held(buffer', inPos', outPos', cons')  BY ItemsHeld
    <3>2. buffer' = buffer /\ inPos' = inPos /\ outPos' = outPos  BY <2>1
    <3>3. Items' = Tail(View(buffer, outPos, inPos))  BY <2>2, <3>1, <3>2 DEF Held
    <3>4. View(buffer, outPos, inPos) = View(buffer, outPos, p) \o View(buffer, p, inPos)
      <4>1. Dist(outPos, p) <= Dist(outPos, inPos)  BY <1>0, <2>4, <2>5
      <4> QED  BY <1>0, <2>5, <4>1, ViewSplit
    <3>5. View(buffer, p, inPos) \in Seq(Element)  BY <1>0, <2>5, ViewIs
    <3> HIDE DEF e
    <3> QED  BY <2>6, <2>7, <3>3, <3>4, <3>5, FrontTail
  <2>10. \E n \in 1..Len(Items) : Fifo!Leave(n)
    <3> DEFINE k == 1
    <3>1. k >= 1 /\ k = Dist(outPos, p) /\ k <= Dist(outPos, inPos)  BY <1>0, <2>4, <2>5
    <3> HIDE DEF k
    <3> QED  BY <2>1, <2>5, <2>8, <2>9, <3>1, Leaves
  <2> QED  BY <2>3, <2>10
<1> QED  BY <1>2, <1>3, <1>4

\* The oldest element of a queue and what follows it.
LEMMA OldestFirst ==
  ASSUME NEW buf \in Buffers, NEW out \in Slot, NEW in \in Slot, out # in
  PROVE  /\ Succ(out) \in Slot /\ buf[out] \in Element
         /\ View(buf, Succ(out), in) \in Seq(Element)
         /\ View(buf, out, in) = <<buf[out]>> \o View(buf, Succ(out), in)
         /\ View(buf, out, in) # <<>>
         /\ Head(View(buf, out, in)) = buf[out]
         /\ Tail(View(buf, out, in)) = View(buf, Succ(out), in)
<1> DEFINE p == Succ(out)
           e == buf[out]
           v == View(buf, p, in)
           all == View(buf, out, in)
<1>1. p \in Slot /\ Dist(out, p) = 1  BY SuccDist
<1>2. Dist(out, in) \in 0..Capacity /\ Dist(out, in) # 0  BY Distances
<1>3. e \in Element  BY DEF Buffers
<1> HIDE DEF p
<1>4. Dist(out, p) <= Dist(out, in)  BY <1>1, <1>2
<1>5. all = View(buf, out, p) \o v  BY <1>1, <1>4, ViewSplit
<1>6. View(buf, out, p) = <<e>>  BY <1>1, ViewOne
<1>7. v \in Seq(Element) /\ all \in Seq(Element) /\ Len(all) = Dist(out, in)  BY <1>1, ViewIs
<1>8. all # <<>>  BY <1>2, <1>7, EmptySeq
<1> HIDE DEF e, v, all
<1>9. Head(all) = e /\ Tail(all) = v  BY <1>3, <1>5, <1>6, <1>7, FrontTail
<1> QED  BY <1>1, <1>3, <1>5, <1>6, <1>7, <1>8, <1>9 DEF p, e, v, all

\* Putting an element back rotates the queue, and moving m_outPos over an
\* element that has left already changes nothing.
LEMMA ConsumerRotates ==
  ASSUME QueueInv, PopRequeue \/ RequeueLink \/ RequeueStore
  PROVE  /\ Filled' /\ Emptied'
         /\ Fifo!Rotate \/ UNCHANGED <<Items, left, pushed>>
<1> USE CapacityAssumption, MaxPushesAssumption
<1>0. /\ RingInv /\ TypeOK /\ ProducerInv /\ ConsumerInv /\ Room /\ Filled /\ Emptied
      /\ inPos \in Slot /\ outPos \in Slot /\ buffer \in Buffers /\ cons \in Consumer
      /\ Dist(outPos, inPos) \in 0..Capacity
      /\ cons.end \in Slot /\ Dist(outPos, cons.end) \in 0..Capacity
  BY RingFacts, Distances DEF QueueInv, RingInv, TypeOK
<1> DEFINE e == buffer[outPos]
           out2 == Succ(outPos)
           in2 == Succ(inPos)
           all == View(buffer, outPos, inPos)
           v == View(buffer, out2, inPos)
<1>1. ASSUME outPos # inPos
      PROVE  /\ out2 \in Slot /\ e \in Element /\ v \in Seq(Element)
             /\ all # <<>> /\ Head(all) = e /\ Tail(all) = v
             /\ in2 \in Slot
  <2>1. in2 \in Slot  BY <1>0, SuccDist
  <2>2. /\ out2 \in Slot /\ e \in Element /\ v \in Seq(Element)
        /\ all # <<>> /\ Head(all) = e /\ Tail(all) = v
    <3>1. inPos \in Slot /\ outPos \in Slot /\ buffer \in Buffers  BY <1>0
    <3>2. out2 \in Slot  BY <1>1, <3>1, OldestFirst
    <3>3. e \in Element  BY <3>1 DEF Buffers
    <3>4. v \in Seq(Element)  BY <1>1, <3>1, OldestFirst
    <3>5. all # <<>>  BY <1>1, <3>1, OldestFirst
    <3>6. Head(all) = e  BY <1>1, <3>1, OldestFirst
    <3>7. Tail(all) = v  BY <1>1, <3>1, OldestFirst
    <3> QED  BY <3>2, <3>3, <3>4, <3>5, <3>6, <3>7
  <2> QED  BY <2>1, <2>2
<1>2. ASSUME cons.at \in {"call", "lock", "link", "store"} PROVE outPos # inPos
  <2>1. Dist(outPos, inPos) # 0  BY <1>0, <1>2 DEF ConsumerInv
  <2> QED  BY <1>0, <2>1, Distances
<1>3. ASSUME Items = all, outPos # inPos, Items' = v \o <<e>>, UNCHANGED <<left, pushed>>
      PROVE  Fifo!Rotate
  <2>1. Append(v, e) = v \o <<e>>
    <3> HIDE DEF v, e
    <3> QED  BY <1>1, <1>3, AppendIsConcat
  <2> HIDE DEF v, e, all
  <2> QED  BY <1>1, <1>3, <2>1 DEF Fifo!Rotate
<1>4. ASSUME PopRequeue PROVE Filled' /\ Emptied' /\ Fifo!Rotate
  <2>1. /\ cons.at = "idle" /\ prod.at = "idle" /\ Dist(outPos, inPos) > 0
        /\ buffer' = [buffer EXCEPT ![inPos] = e]
        /\ outPos' = out2 /\ inPos' = in2
        /\ UNCHANGED <<mp, prod, cons, pushed, left>>
    BY <1>4 DEF PopRequeue, Available
  <2>2. outPos # inPos
    <3>1. Dist(outPos, inPos) # 0  BY <1>0, <2>1
    <3> QED  BY <1>0, <3>1, Distances
  <2>3. Filled' /\ Emptied'  BY <2>1 DEF Filled, Emptied
  <2>4. Items = all  BY <2>1, ItemsHeld DEF Held
  <2>5. buffer' \in Buffers /\ \A s \in Slot : s # inPos => buffer'[s] = buffer[s]
    <3> HIDE DEF e
    <3> QED  BY <1>0, <1>1, <2>1, <2>2 DEF Buffers
  <2>6. buffer'[inPos] = e
    <3> HIDE DEF e
    <3> QED  BY <1>0, <2>1 DEF Buffers
  <2> DEFINE new == buffer'
  <2>7. /\ out2 \in Slot /\ in2 \in Slot /\ Dist(inPos, in2) = 1
        /\ Dist(out2, inPos) <= Dist(out2, in2)
    <3>1. out2 \in Slot /\ in2 \in Slot /\ Dist(out2, in2) = Dist(outPos, inPos)
      BY <1>0, SuccDist
    <3>2. Dist(outPos, out2) = 1  BY <1>0, <2>2, SuccDist
    <3>3. Dist(inPos, in2) = 1
      <4>1. \E s \in Slot : s # inPos  BY <1>0, <2>2
      <4> QED  BY <1>0, <4>1, SuccDist
    <3> HIDE DEF out2, in2
    <3>4. Dist(outPos, out2) <= Dist(outPos, inPos)  BY <1>0, <2>1, <3>2
    <3>5. Dist(out2, inPos) = Dist(outPos, inPos) - 1  BY <1>0, <3>1, <3>2, <3>4, Split
    <3> QED  BY <1>0, <3>1, <3>3, <3>5
  <2> HIDE DEF new, out2, in2
  <2>8. View(new, inPos, in2) = <<e>>
    <3>1. View(new, inPos, in2) = <<new[inPos]>>  BY <1>0, <2>5, <2>7, ViewOne DEF new
    <3> HIDE DEF e
    <3> QED  BY <2>6, <3>1 DEF new
  <2>9. View(new, out2, inPos) = v
    <3>1. ASSUME NEW s \in Slot, Dist(out2, s) < Dist(out2, inPos) PROVE new[s] = buffer[s]
      <4>1. Dist(out2, inPos) \in Int  BY <1>0, <2>7, Distances
      <4>2. s # inPos  BY <3>1, <4>1
      <4> QED  BY <2>5, <4>2 DEF new
    <3> QED  BY <1>0, <2>5, <2>7, <3>1, ViewSame DEF new
  <2>10. View(new, out2, in2) = v \o <<e>>
    <3>1. new \in Buffers  BY <2>5 DEF new
    <3>2. View(new, out2, in2) = View(new, out2, inPos) \o View(new, inPos, in2)
      BY <1>0, <2>7, <3>1, ViewSplit
    <3> HIDE DEF e, v
    <3> QED  BY <2>8, <2>9, <3>2
  <2>11. Items' = v \o <<e>>
    <3>1. Items' = Held(buffer', inPos', outPos', cons')  BY ItemsHeld
    <3>2. Held(new, in2, out2, cons) = View(new, out2, in2)  BY <2>1 DEF Held
    <3> HIDE DEF e, v
    <3> QED  BY <2>1, <2>10, <3>1, <3>2 DEF new
  <2>12. UNCHANGED <<left, pushed>>  BY <2>1
  <2> HIDE DEF all, v, e
  <2>13. Fifo!Rotate  BY <1>3, <2>2, <2>4, <2>11, <2>12
  <2> QED  BY <2>3, <2>13
<1>5. ASSUME RequeueLink PROVE Filled' /\ Emptied' /\ Fifo!Rotate
  <2>1. /\ cons.at = "link" /\ inPos' = in2 /\ cons' = [cons EXCEPT !.at = "store"]
        /\ UNCHANGED <<mp, outPos, buffer, prod, pushed, left>>
    BY <1>5 DEF RequeueLink
  <2>2. outPos # inPos /\ prod.at = "idle" /\ buffer[inPos] = e
    BY <1>0, <1>2, <2>1 DEF ProducerInv, Emptied
  <2>3. cons'.at = "store"  BY <1>0, <2>1 DEF Consumer
  <2>4. Filled' /\ Emptied'  BY <2>1, <2>2, <2>3 DEF Filled, Emptied
  <2>5. Items = all  BY <2>1, ItemsHeld DEF Held
  <2>6. in2 \in Slot /\ Dist(inPos, in2) = 1 /\ Dist(outPos, inPos) <= Dist(outPos, in2)
    <3>1. in2 \in Slot /\ Dist(outPos, in2) = Dist(outPos, inPos) + 1
      BY <1>0, <2>1, SuccDist DEF Room
    <3>2. Dist(inPos, in2) = 1
      <4>1. \E s \in Slot : s # inPos  BY <1>0, <2>2
      <4> QED  BY <1>0, <4>1, SuccDist
    <3> QED  BY <1>0, <3>1, <3>2
  <2> HIDE DEF in2
  <2>7. View(buffer, inPos, in2) = <<e>>  BY <1>0, <2>2, <2>6, ViewOne
  <2>8. View(buffer, outPos, in2) = all \o <<e>>
    <3>1. View(buffer, outPos, in2) = all \o View(buffer, inPos, in2)  BY <1>0, <2>6, ViewSplit
    <3> HIDE DEF e, all
    <3> QED  BY <2>7, <3>1
  <2>9. Items' = Tail(all \o <<e>>)
    <3>1. Items' = Held(buffer', inPos', outPos', cons')  BY ItemsHeld
    <3>2. buffer' = buffer /\ inPos' = in2 /\ outPos' = outPos  BY <2>1
    <3>3. Items' = Tail(View(buffer, outPos, in2))  BY <2>3, <3>1, <3>2 DEF Held
    <3> HIDE DEF e, all
    <3> QED  BY <2>8, <3>3
  <2>10. all \in Seq(Element)  BY <1>0, ViewIs
  <2>11. Tail(all \o <<e>>) = v \o <<e>>
    <3> HIDE DEF all, e, v
    <3>1. <<e>> \in Seq(Element)  BY <1>1, <2>2
    <3>2. Tail(all \o <<e>>) = Tail(all) \o <<e>>  BY <1>1, <2>2, <2>10, <3>1, TailConcat
    <3> QED  BY <1>1, <2>2, <3>2
  <2>12. UNCHANGED <<left, pushed>>  BY <2>1
  <2> HIDE DEF all, v, e
  <2>13. Fifo!Rotate  BY <1>3, <2>2, <2>5, <2>9, <2>11, <2>12
  <2> QED  BY <2>4, <2>13
<1>6. ASSUME RequeueStore PROVE Filled' /\ Emptied' /\ UNCHANGED <<Items, left, pushed>>
  <2>1. /\ cons.at = "store" /\ outPos' = out2
        /\ cons' = IF out2 = cons.end THEN Free ELSE [cons EXCEPT !.at = "call"]
        /\ UNCHANGED <<mp, inPos, buffer, prod, pushed, left>>
    BY <1>6 DEF RequeueStore
  <2>2. cons'.at \in {"idle", "call"}
    <3>1. CASE out2 = cons.end
      <4>1. cons' = Free  BY <2>1, <3>1
      <4> QED  BY <4>1 DEF Free
    <3>2. CASE out2 # cons.end
      <4>1. cons' = [cons EXCEPT !.at = "call"]  BY <2>1, <3>2
      <4> QED  BY <1>0, <4>1 DEF Consumer
    <3> QED  BY <3>1, <3>2
  <2>3. Emptied'  BY <2>2 DEF Emptied
  <2>4. Filled'  BY <2>1, FilledKept
  <2>5. Items = Tail(all)  BY <2>1, ItemsHeld DEF Held
  <2>6. Items' = v
    <3>1. Items' = Held(buffer', inPos', outPos', cons')  BY ItemsHeld
    <3>2. buffer' = buffer /\ inPos' = inPos /\ outPos' = out2  BY <2>1
    <3> HIDE DEF out2
    <3> QED  BY <2>2, <3>1, <3>2 DEF Held
  <2>7. Tail(all) = v  BY <1>1, <1>2, <2>1
  <2> QED  BY <2>1, <2>3, <2>4, <2>5, <2>6, <2>7
<1> QED  BY <1>4, <1>5, <1>6

\* A call of for_each_rev_requeue begins with nothing sifted,
LEMMA StartSiftAside ==
  ASSUME QueueInv, StartSift
  PROVE  Filled' /\ Emptied' /\ UNCHANGED <<Items, left, pushed>>
<1>0. /\ RingInv /\ inPos \in Slot /\ outPos \in Slot /\ buffer \in Buffers
      /\ Dist(outPos, inPos) \in 0..Capacity
  BY RingFacts DEF QueueInv
<1>1. /\ cons.at = "idle" /\ Dist(outPos, inPos) > 0
      /\ cons' = [Free EXCEPT !.at = "sift", !.end = inPos, !.pos = inPos, !.to = inPos]
      /\ UNCHANGED <<mp, inPos, outPos, buffer, prod, pushed, left>>
  BY DEF StartSift, Available
<1>2. /\ cons'.at = "sift" /\ cons'.end = inPos /\ cons'.pos = inPos /\ cons'.to = inPos
      /\ cons'.seen = <<>> /\ cons'.got = <<>>
  BY <1>1 DEF Free
<1>3. Filled'  BY <1>1, FilledKept
<1>4. Dist(inPos, inPos) = 0 /\ View(buffer, inPos, inPos) = <<>>  BY <1>0, Distances, ViewNone
<1>5. /\ Slots(cons.to, cons.end)' = <<>>
      /\ Dist(cons.pos, cons.end)' = 0
      /\ Dist(outPos, cons.end)' = Dist(outPos, inPos)
  <2>1. Slots(cons.to, cons.end)' = View(buffer, inPos, inPos)  BY <1>1, <1>2 DEF Slots, View, Dist, N
  <2>2. /\ Dist(cons.pos, cons.end)' = Dist(inPos, inPos)
        /\ Dist(outPos, cons.end)' = Dist(outPos, inPos)
    BY <1>1, <1>2 DEF Dist, N
  <2> QED  BY <1>4, <2>1, <2>2
<1>6. Fifo!Sifted(Slots(cons.to, cons.end), cons.got, cons.seen)'
  <2>1. Fifo!Sifted(<<>>, <<>>, <<>>)  BY SiftedNone
  <2> HIDE DEF Slots
  <2> QED  BY <1>2, <1>5, <2>1
<1>7. Emptied'
  <2>1. Len(<<>>) = 0  OBVIOUS
  <2>2. Len(cons'.seen) = Dist(cons.pos, cons.end)' /\ Dist(outPos, cons.end)' >= 1
    BY <1>0, <1>1, <1>2, <1>5, <2>1
  <2> QED  BY <1>2, <1>6, <2>2 DEF Emptied
<1>8. Items' = Items
  <2> DEFINE all == View(buffer, outPos, inPos)
  <2>1. Items = all  BY <1>1, ItemsHeld DEF Held
  <2>2. Items' = Held(buffer', inPos', outPos', cons')  BY ItemsHeld
  <2>3. buffer' = buffer /\ inPos' = inPos /\ outPos' = outPos  BY <1>1
  <2>4. all \in Seq(Element)  BY <1>0, ViewIs
  <2>5. Items' = (all \o <<>>) \o <<>>  BY <1>2, <1>4, <2>2, <2>3 DEF Held
  <2> HIDE DEF all
  <2> QED  BY <2>1, <2>4, <2>5, ConcatEmptySeq
<1> QED  BY <1>1, <1>3, <1>7, <1>8

\* moves the elements that it keeps up to the gap behind them, one by one,
LEMMA SiftOneAside ==
  ASSUME QueueInv, NEW keep \in BOOLEAN, SiftOne(keep)
  PROVE  Filled' /\ Emptied' /\ UNCHANGED <<Items, left, pushed>>
<1> USE CapacityAssumption, MaxPushesAssumption
<1> DEFINE pos == cons.pos
           to == cons.to
           end == cons.end
           p == Pred(pos)
           t == Pred(to)
           e == buffer[p]
           to2 == IF keep THEN t ELSE to
           got2 == IF keep THEN cons.got ELSE Append(cons.got, e)
           seen2 == <<e>> \o cons.seen
           new == buffer'
<1>0. /\ RingInv /\ TypeOK /\ Filled /\ Emptied
      /\ inPos \in Slot /\ outPos \in Slot /\ buffer \in Buffers /\ cons \in Consumer
      /\ pos \in Slot /\ to \in Slot /\ end \in Slot
      /\ cons.got \in Seq(Element) /\ cons.seen \in Seq(Element)
      /\ Dist(outPos, inPos) \in 0..Capacity /\ Dist(outPos, pos) \in 0..Capacity
      /\ Dist(outPos, to) \in 0..Capacity /\ Dist(outPos, end) \in 0..Capacity
  BY RingFacts, Distances DEF QueueInv, RingInv, TypeOK
<1>1. /\ cons.at = "sift" /\ pos # outPos
      /\ new = IF keep THEN [buffer EXCEPT ![t] = e] ELSE buffer
      /\ cons' = [cons EXCEPT !.pos = p, !.to = to2, !.seen = seen2, !.got = got2]
      /\ UNCHANGED <<mp, inPos, outPos, prod, pushed, left>>
  BY DEF SiftOne
<1>2. /\ Dist(outPos, pos) <= Dist(outPos, to) /\ Dist(outPos, to) <= Dist(outPos, end)
      /\ Dist(outPos, pos) <= Dist(outPos, end)
      /\ Dist(outPos, end) <= Dist(outPos, inPos)
      /\ Len(cons.seen) = Dist(pos, end)
      /\ Dist(outPos, end) >= 1
      /\ Fifo!Sifted(Slots(to, end), cons.got, cons.seen)
  BY <1>0, <1>1, RingFacts DEF Emptied
<1>3. /\ cons'.at = "sift" /\ cons'.pos = p /\ cons'.to = to2 /\ cons'.end = end
      /\ cons'.seen = seen2 /\ cons'.got = got2
  <2> HIDE DEF p, to2, seen2, got2
  <2> QED  BY <1>0, <1>1 DEF Consumer
<1>4. /\ p \in Slot /\ Dist(outPos, p) = Dist(outPos, pos) - 1
      /\ t \in Slot /\ Dist(outPos, t) = Dist(outPos, to) - 1
  <2>1. Dist(outPos, pos) # 0  BY <1>0, <1>1, Distances
  <2>2. Dist(outPos, to) # 0  BY <1>0, <1>2, <2>1
  <2>3. to # outPos  BY <1>0, <2>2, Distances
  <2> QED  BY <1>0, <1>1, <2>3, PredDist
<1>5. e \in Element  BY <1>0, <1>4 DEF Buffers
<1> HIDE DEF pos, to, end, p, t, e, to2, got2, seen2, new
<1>6. new \in Buffers /\ \A s \in Slot : s # t => new[s] = buffer[s]
  <2>1. CASE keep  BY <1>0, <1>1, <1>5, <2>1 DEF Buffers
  <2>2. CASE ~keep  BY <1>0, <1>1, <2>2
  <2> QED  BY <2>1, <2>2
<1>7. Filled'
  <2>1. ASSUME NEW s \in Slot, ~(Dist(outPos, s) < Dist(outPos, inPos)) PROVE buffer'[s] = buffer[s]
    <3>1. s # t  BY <1>0, <1>2, <1>4, <2>1
    <3> QED  BY <1>6, <3>1 DEF new
  <2> QED  BY <1>1, <2>1, FilledKept
<1>8. ASSUME NEW b \in Slot, NEW c \in Slot,
             Dist(outPos, b) <= Dist(outPos, c), Dist(outPos, t) < Dist(outPos, b)
      PROVE  View(new, b, c) = View(buffer, b, c)
  <2>1. ASSUME NEW s \in Slot, Dist(b, s) < Dist(b, c) PROVE new[s] = buffer[s]
    <3>1. Dist(outPos, s) = Dist(outPos, b) + Dist(b, s)  BY <1>0, <1>8, <2>1, Behind
    <3>2. Dist(b, s) \in 0..Capacity /\ Dist(outPos, b) \in 0..Capacity /\ Dist(outPos, t) \in 0..Capacity
      BY <1>0, <1>4, Distances
    <3>3. s # t  BY <1>8, <3>1, <3>2
    <3> QED  BY <1>6, <3>3
  <2> QED  BY <1>0, <1>6, <2>1, ViewSame
\* What is not yet sifted,
<1>9. /\ View(new, outPos, p) = View(buffer, outPos, p)
      /\ View(buffer, outPos, pos) = View(buffer, outPos, p) \o <<e>>
      /\ View(buffer, outPos, p) \in Seq(Element)
  <2>1. ASSUME NEW s \in Slot, Dist(outPos, s) < Dist(outPos, p) PROVE new[s] = buffer[s]
    <3>1. s # t  BY <1>0, <1>2, <1>4, <2>1
    <3> QED  BY <1>6, <3>1
  <2>2. View(new, outPos, p) = View(buffer, outPos, p)  BY <1>0, <1>4, <1>6, <2>1, ViewSame
  <2>3. Dist(outPos, p) <= Dist(outPos, pos)  BY <1>0, <1>4
  <2>4. Dist(p, pos) = 1
    <3>1. Dist(p, pos) = Dist(outPos, pos) - Dist(outPos, p)  BY <1>0, <1>4, <2>3, Split
    <3> QED  BY <1>0, <1>4, <3>1
  <2>5. View(buffer, p, pos) = <<e>>  BY <1>0, <1>4, <2>4, ViewOne DEF e
  <2>6. View(buffer, outPos, pos) = View(buffer, outPos, p) \o View(buffer, p, pos)
    BY <1>0, <1>4, <2>3, ViewSplit
  <2>7. View(buffer, outPos, p) \in Seq(Element)  BY <1>0, <1>4, ViewIs
  <2> QED  BY <2>2, <2>5, <2>6, <2>7
\* what came after the call began,
<1>10. View(new, end, inPos) = View(buffer, end, inPos)
  <2>1. Dist(outPos, t) < Dist(outPos, end)  BY <1>0, <1>2, <1>4
  <2> QED  BY <1>0, <1>2, <1>8, <2>1
\* and so the queue, are as they were.
<1>11. Items' = Items
  <2> DEFINE a == View(buffer, outPos, p)
             b == View(buffer, end, inPos)
             s == cons.seen
             x == <<e>>
  <2>1. Items = ((a \o x) \o s) \o b  BY <1>1, <1>9, ItemsHeld DEF Held, pos, end
  <2>2. Items' = (a \o (x \o s)) \o b
    <3>1. Items' = Held(buffer', inPos', outPos', cons')  BY ItemsHeld
    <3>2. Items' = (View(new, outPos, p) \o seen2) \o View(new, end, inPos)
      BY <1>1, <1>3, <3>1 DEF Held, new
    <3> QED  BY <1>9, <1>10, <3>2 DEF seen2
  <2>3. x \in Seq(Element) /\ s \in Seq(Element) /\ a \in Seq(Element)  BY <1>0, <1>5, <1>9
  <2> HIDE DEF a, b, s, x
  <2>4. (a \o x) \o s = a \o (x \o s)  BY <2>3, Associative
  <2> QED  BY <2>1, <2>2, <2>4
\* Each element seen is kept or leaves.
<1>12. Fifo!Sifted(View(new, to2, end), got2, seen2)
  <2> DEFINE kept == View(buffer, to, end)
  <2>1. Fifo!Sifted(kept, cons.got, cons.seen) /\ kept \in Seq(Element)
    <3>1. Slots(to, end) = kept  BY DEF Slots, View
    <3> HIDE DEF kept
    <3> QED  BY <1>0, <1>2, <3>1, ViewIs DEF kept
  <2>2. CASE keep
    <3>1. to2 = t /\ got2 = cons.got /\ new[t] = e
      BY <1>0, <1>1, <1>4, <2>2 DEF to2, got2, Buffers
    <3>2. Dist(outPos, t) <= Dist(outPos, to) /\ Dist(outPos, t) <= Dist(outPos, end)
          /\ Dist(outPos, t) < Dist(outPos, to)
      BY <1>0, <1>2, <1>4
    <3>3. Dist(t, to) = 1 /\ Dist(t, to) <= Dist(t, end)
      <4>1. Dist(t, to) = Dist(outPos, to) - Dist(outPos, t)  BY <1>0, <1>4, <3>2, Split
      <4>2. Dist(t, end) = Dist(outPos, end) - Dist(outPos, t)  BY <1>0, <1>4, <3>2, Split
      <4> QED  BY <1>0, <1>2, <1>4, <4>1, <4>2
    <3>4. View(new, t, to) = <<e>>
      <4>1. View(new, t, to) = <<new[t]>>  BY <1>0, <1>4, <1>6, <3>3, ViewOne
      <4> QED  BY <3>1, <4>1
    <3>5. View(new, to, end) = kept  BY <1>0, <1>2, <1>8, <3>2
    <3>6. View(new, t, end) = View(new, t, to) \o View(new, to, end)
      BY <1>0, <1>4, <1>6, <3>3, ViewSplit
    <3> HIDE DEF kept
    <3>7. Fifo!Sifted(<<e>> \o kept, cons.got, <<e>> \o cons.seen)
      BY <1>0, <1>5, <2>1, SiftedKeep
    <3>8. View(new, to2, end) = <<e>> \o kept  BY <3>1, <3>4, <3>5, <3>6
    <3> QED  BY <3>1, <3>7, <3>8 DEF seen2
  <2>3. CASE ~keep
    <3>1. to2 = to /\ new = buffer /\ got2 = Append(cons.got, e)
      BY <1>1, <2>3 DEF to2, got2
    <3>2. View(new, to2, end) = kept  BY <3>1
    <3> HIDE DEF kept
    <3>3. Fifo!Sifted(kept, Append(cons.got, e), <<e>> \o cons.seen)
      BY <1>0, <1>5, <2>1, SiftedDrop
    <3> QED  BY <3>1, <3>2, <3>3 DEF seen2
  <2> QED  BY <2>2, <2>3
<1>13. Len(seen2) = Dist(p, end)
  <2>1. Len(seen2) = Len(cons.seen) + 1  BY <1>0, <1>5, Front DEF seen2
  <2>2. Dist(outPos, p) <= Dist(outPos, end)  BY <1>0, <1>2, <1>4
  <2>3. Dist(p, end) = Dist(outPos, end) - Dist(outPos, p)  BY <1>0, <1>4, <2>2, Split
  <2>4. Dist(pos, end) = Dist(outPos, end) - Dist(outPos, pos)  BY <1>0, <1>2, Split
  <2> QED  BY <1>0, <1>2, <1>4, <2>1, <2>3, <2>4
<1>14. Emptied'
  <2>1. Slots(cons.to, cons.end)' = View(new, to2, end)
    BY <1>3 DEF Slots, View, Dist, N, new
  <2>2. /\ Dist(cons.pos, cons.end)' = Dist(p, end)
        /\ Dist(outPos, cons.end)' = Dist(outPos, end)
    BY <1>1, <1>3 DEF Dist, N
  <2>3. Fifo!Sifted(Slots(cons.to, cons.end), cons.got, cons.seen)'
    <3>1. cons'.got = got2 /\ cons'.seen = seen2  BY <1>3
    <3> HIDE DEF Slots
    <3> QED  BY <1>12, <2>1, <3>1
  <2>4. Len(cons'.seen) = Dist(cons.pos, cons.end)' /\ Dist(outPos, cons.end)' >= 1
    BY <1>2, <1>3, <1>13, <2>2
  <2> QED  BY <1>3, <2>3, <2>4 DEF Emptied
<1> QED  BY <1>1, <1>7, <1>11, <1>14

\* and gives up the others when it is done.
LEMMA EndSiftSifts ==
  ASSUME QueueInv, EndSift
  PROVE  /\ Filled' /\ Emptied'
         /\ \E m \in 1..Len(Items) : Fifo!Sift(m)
<1> DEFINE to == cons.to
           end == cons.end
           kept == View(buffer, to, end)
           gone == cons.got
           old == cons.seen
           rest == View(buffer, end, inPos)
           m == Len(old)
<1>0. /\ RingInv /\ Filled /\ Emptied
      /\ inPos \in Slot /\ outPos \in Slot /\ buffer \in Buffers
      /\ to \in Slot /\ end \in Slot
      /\ gone \in Seq(Element) /\ old \in Seq(Element) /\ left \in Seq(Element)
      /\ Dist(outPos, inPos) \in 0..Capacity
      /\ Dist(outPos, to) \in 0..Capacity /\ Dist(outPos, end) \in 0..Capacity
  BY RingFacts, Distances DEF QueueInv
<1>1. /\ cons.at = "sift" /\ cons.pos = outPos /\ outPos' = to /\ left' = left \o gone
      /\ cons' = Free
      /\ UNCHANGED <<mp, inPos, buffer, prod, pushed>>
  BY DEF EndSift
<1>2. /\ Dist(outPos, to) <= Dist(outPos, end) /\ Dist(outPos, end) <= Dist(outPos, inPos)
      /\ m = Dist(outPos, end) /\ m >= 1
      /\ Fifo!Sifted(Slots(to, end), gone, old)
  BY <1>0, <1>1, RingFacts DEF Emptied
<1>3. cons'.at = "idle"  BY <1>1 DEF Free
<1>4. Filled'  BY <1>1, FilledKept
<1>5. Emptied'  BY <1>3 DEF Emptied
<1>6. kept \in Seq(Element) /\ rest \in Seq(Element)  BY <1>0, ViewIs
<1>7. Items = old \o rest
  <2>1. Items = (View(buffer, outPos, outPos) \o old) \o rest
    BY <1>1, ItemsHeld DEF Held
  <2>2. View(buffer, outPos, outPos) = <<>>  BY <1>0, ViewNone
  <2> HIDE DEF old, rest
  <2> QED  BY <1>0, <2>1, <2>2, ConcatEmptySeq
<1> HIDE DEF to, end
<1>8. Items' = kept \o rest
  <2>1. Items' = Held(buffer', inPos', outPos', cons')  BY ItemsHeld
  <2>2. Items' = View(buffer, to, inPos)  BY <1>1, <1>3, <2>1 DEF Held
  <2>3. Dist(to, end) <= Dist(to, inPos)
    <3>1. Dist(outPos, to) <= Dist(outPos, inPos)  BY <1>0, <1>2
    <3>2. /\ Dist(to, end) = Dist(outPos, end) - Dist(outPos, to)
          /\ Dist(to, inPos) = Dist(outPos, inPos) - Dist(outPos, to)
      BY <1>0, <1>2, <3>1, Split
    <3> QED  BY <1>0, <1>2, <3>2
  <2>4. View(buffer, to, inPos) = kept \o rest
    <3>1. to \in Slot /\ end \in Slot /\ inPos \in Slot /\ buffer \in Buffers  BY <1>0
    <3> QED  BY <2>3, <3>1, ViewSplit
  <2> QED  BY <2>2, <2>4
<1>9. Fifo!Sifted(kept, gone, old)
  <2>1. Slots(to, end) = kept  BY DEF Slots, View
  <2> HIDE DEF kept, gone, old
  <2> QED  BY <1>2, <2>1
<1> HIDE DEF kept, gone, old, rest
<1>10. /\ Len(Items) = m + Len(rest) /\ SubSeq(Items, 1, m) = old
       /\ SubSeq(Items, m + 1, Len(Items)) = rest
  BY <1>0, <1>6, <1>7, Cuts
<1>11. /\ Len(Items') = Len(kept) + Len(rest) /\ SubSeq(Items', 1, Len(kept)) = kept
  BY <1>6, <1>8, Cuts
<1>12. SubSeq(left', Len(left) + 1, Len(left')) = gone
  <2>1. Len(left') = Len(left) + Len(gone)  BY <1>0, <1>1, Cuts
  <2>2. SubSeq(left \o gone, Len(left) + 1, Len(left) + Len(gone)) = gone  BY <1>0, Cuts
  <2> QED  BY <1>1, <2>1, <2>2
<1>13. Len(kept) \in Nat /\ Len(rest) \in Nat /\ m \in Nat  BY <1>0, <1>6, LenProperties
<1>14. Len(Items') - (Len(Items) - m) = Len(kept)
  <2> HIDE DEF m
  <2> QED  BY <1>10, <1>11, <1>13
<1>15. m \in 1..Len(Items)
  <2> HIDE DEF m
  <2> QED  BY <1>2, <1>10, <1>13
<1>16. Fifo!Sift(m)
  <2>1. SubSeq(Items', 1, Len(Items') - (Len(Items) - m)) = kept  BY <1>11, <1>14
  <2> HIDE DEF m
  <2> QED  BY <1>1, <1>8, <1>9, <1>10, <1>12, <2>1 DEF Fifo!Sift
<1> HIDE DEF m
<1> QED  BY <1>4, <1>5, <1>15, <1>16
-----------------------------------------------------------------------------
(* The ring is the queue. *)

LEMMA QueueInit == Init => QueueInv /\ Fifo!Init
<1> SUFFICES ASSUME Init PROVE QueueInv /\ Fifo!Init  OBVIOUS
<1>1. RingInv  BY RingInit
<1>2. /\ prod.at = "idle" /\ cons.at = "idle" /\ inPos = 0 /\ outPos = 0
      /\ left = <<>> /\ pushed = 0
  BY DEF Init, Quiet, Free
<1>3. QueueInv  BY <1>1, <1>2 DEF QueueInv, Filled, Emptied
<1>4. Items = <<>>
  <2>1. Items = View(buffer, outPos, outPos)  BY <1>2, ItemsHeld DEF Held
  <2>2. buffer \in Buffers /\ outPos \in Slot  BY <1>1, RingFacts
  <2> QED  BY <2>1, <2>2, ViewNone
<1> QED  BY <1>2, <1>3, <1>4 DEF Fifo!Init

\* Every step keeps what is known of the elements, and is an operation of the
\* queue or changes nothing in it.
LEMMA QueueStep ==
  ASSUME QueueInv, [Next /\ Room']_vars
  PROVE  QueueInv' /\ [Fifo!Next]_<<Items, left, pushed>>
<1>1. RingInv'  BY RingStep DEF QueueInv
<1>2. CASE Producer
  <2>1. CASE (\E size \in 1..Capacity : StartPush(size)) \/ Fill \/ PushPeek \/ PushPending
    BY <1>1, <2>1, ProducerAside DEF QueueInv
  <2>2. CASE Publish
    <3>1. Filled' /\ Emptied' /\ \E k \in 1..Capacity : Fifo!Push(k)  BY <2>2, PublishPushes
    <3>2. Fifo!Next  BY <3>1 DEF Fifo!Next
    <3> QED  BY <1>1, <3>1, <3>2 DEF QueueInv
  <2> QED  BY <1>2, <2>1, <2>2 DEF Producer
<1>3. CASE Consume
  <2>1. CASE \/ \E size \in 1..Capacity : StartPop(size)
             \/ StartForEach \/ StartFlush \/ StartRequeue \/ Read \/ RequeueCall(TRUE)
             \/ RequeueWrite
    BY <1>1, <2>1, ConsumerAside DEF QueueInv
  <2>2. CASE Release \/ Flush \/ RequeueCall(FALSE)
    <3>1. /\ Filled' /\ Emptied'
          /\ (\E n \in 1..Len(Items) : Fifo!Leave(n)) \/ UNCHANGED <<Items, left, pushed>>
      BY <2>2, ConsumerTakes
    <3>2. Fifo!Next \/ UNCHANGED <<Items, left, pushed>>  BY <3>1 DEF Fifo!Next
    <3> QED  BY <1>1, <3>1, <3>2 DEF QueueInv
  <2>3. CASE PopRequeue \/ RequeueLink \/ RequeueStore
    <3>1. Filled' /\ Emptied' /\ (Fifo!Rotate \/ UNCHANGED <<Items, left, pushed>>)
      BY <2>3, ConsumerRotates
    <3>2. Fifo!Next \/ UNCHANGED <<Items, left, pushed>>  BY <3>1 DEF Fifo!Next
    <3> QED  BY <1>1, <3>1, <3>2 DEF QueueInv
  <2>4. CASE StartSift  BY <1>1, <2>4, StartSiftAside DEF QueueInv
  <2>5. CASE \E keep \in BOOLEAN : SiftOne(keep)  BY <1>1, <2>5, SiftOneAside DEF QueueInv
  <2>6. CASE EndSift
    <3>1. Filled' /\ Emptied' /\ \E m \in 1..Len(Items) : Fifo!Sift(m)  BY <2>6, EndSiftSifts
    <3>2. Fifo!Next  BY <3>1 DEF Fifo!Next
    <3> QED  BY <1>1, <3>1, <3>2 DEF QueueInv
  <2> QED  BY <1>3, <2>1, <2>2, <2>3, <2>4, <2>5, <2>6 DEF Consume
<1>4. CASE UNCHANGED vars
  <2>1. /\ UNCHANGED <<inPos, outPos, buffer, prod, cons, pushed, left>>  BY <1>4 DEF vars
  <2>2. UNCHANGED <<Items, left, pushed>>
    <3>1. Items' = Items  BY <2>1, ItemsHeld
    <3> QED  BY <2>1, <3>1
  <2>3. Filled'  BY <2>1, FilledKept
  <2>4. Emptied'
    <3>1. Emptied  BY DEF QueueInv
    <3>2. Slots(cons.to, cons.end)' = Slots(cons.to, cons.end)  BY <2>1 DEF Slots, Dist, N
    <3> HIDE DEF Slots
    <3> QED  BY <2>1, <3>1, <3>2 DEF Emptied, Dist, N
  <2> QED  BY <1>1, <2>2, <2>3, <2>4 DEF QueueInv
<1> QED  BY <1>2, <1>3, <1>4 DEF Next

\* As long as no element is put back into a full ring, producer and consumer
\* together keep a queue: whatever their steps interleave to, each push, pop,
\* flush, sift and requeue takes effect at one moment, and the elements leave
\* unchanged, each once, in the order in which they were accepted.
THEOREM RingIsFifo == RoomSpec => FifoSpec
<1>1. Init => QueueInv  BY QueueInit
<1>2. Init => Fifo!Init  BY QueueInit
<1>3. QueueInv /\ [Next /\ Room']_vars => QueueInv'  BY QueueStep
<1>4. QueueInv /\ [Next /\ Room']_vars => [Fifo!Next]_<<Items, left, pushed>>  BY QueueStep
<1> QED  BY <1>1, <1>2, <1>3, <1>4, PTL DEF RoomSpec, FifoSpec, Fifo!Spec

\* A circular_queue that is no circular_queue_mp cannot put an element back.
LEMMA PlainStep ==
  ASSUME RingInv, ~mp, [Next]_vars
  PROVE  ~mp' /\ [Next /\ Room']_vars
<1>1. /\ cons.at \notin {"call", "lock", "link", "store"} /\ cons \in Consumer
  BY DEF RingInv, TypeOK, ProducerInv
<1>2. CASE Producer
  <2>1. mp' = mp /\ cons' = cons
    BY <1>2 DEF Producer, StartPush, Fill, Publish, PushPeek, PushPending
  <2> QED  BY <1>1, <1>2, <2>1 DEF Next, Room
<1>3. CASE Consume
  <2>1. mp' = mp /\ cons'.at # "link"
    <3>1. CASE Release
      <4>1. /\ mp' = mp /\ cons.at = "take"
            /\ cons' = Free \/ cons' = [cons EXCEPT !.got = <<>>]
        BY <3>1 DEF Release
      <4> QED  BY <1>1, <4>1 DEF Consumer, Free
    <3>2. CASE Read \/ \E keep \in BOOLEAN : SiftOne(keep)
      <4>1. mp' = mp /\ cons'.at = cons.at  BY <1>1, <3>2 DEF Read, SiftOne, Consumer
      <4> QED  BY <1>1, <4>1
    <3>3. CASE (\E size \in 1..Capacity : StartPop(size)) \/ StartForEach
      <4>1. \E count, end : StartTake(count, end)  BY <3>3 DEF StartPop, StartForEach
      <4> QED  BY <4>1 DEF StartTake, Free
    <3>4. CASE StartFlush \/ Flush \/ StartSift \/ EndSift
      <4>1. CASE Flush \/ EndSift  BY <4>1 DEF Flush, EndSift, Free
      <4>2. CASE StartFlush  BY <4>2 DEF StartFlush, Free
      <4>3. CASE StartSift  BY <4>3 DEF StartSift, Free
      <4> QED  BY <3>4, <4>1, <4>2, <4>3
    <3>5. CASE PopRequeue \/ StartRequeue
      BY <3>5 DEF PopRequeue, StartRequeue
    <3>6. CASE \/ \E keep \in BOOLEAN : RequeueCall(keep)
               \/ RequeueWrite \/ RequeueLink \/ RequeueStore
      BY <1>1, <3>6 DEF RequeueCall, RequeueWrite, RequeueLink, RequeueStore
    <3> QED  BY <1>3, <3>1, <3>2, <3>3, <3>5, <3>6, <3>4 DEF Consume
  <2> QED  BY <1>3, <2>1 DEF Next, Room
<1>4. CASE UNCHANGED vars  BY <1>4 DEF vars
<1> QED  BY <1>2, <1>3, <1>4 DEF Next

\* The circular_queue between an interrupt and the loop is a queue as it is:
\* the proviso of RingIsFifo concerns for_each_requeue only.
THEOREM PlainRingIsFifo == Spec /\ ~mp => FifoSpec /\ []RaceFree
<1> DEFINE Inv == QueueInv /\ ~mp
<1>1. Init /\ ~mp => Inv /\ Fifo!Init  BY QueueInit
<1>2. Inv /\ [Next]_vars => Inv'
  <2> SUFFICES ASSUME Inv, [Next]_vars PROVE Inv'  OBVIOUS
  <2>1. ~mp' /\ [Next /\ Room']_vars  BY PlainStep DEF QueueInv
  <2> QED  BY <2>1, QueueStep
<1>3. Inv /\ [Next]_vars => [Fifo!Next]_<<Items, left, pushed>>
  <2> SUFFICES ASSUME Inv, [Next]_vars PROVE [Fifo!Next]_<<Items, left, pushed>>  OBVIOUS
  <2>1. [Next /\ Room']_vars  BY PlainStep DEF QueueInv
  <2> QED  BY <2>1, QueueStep
<1>4. Inv => RaceFree  BY Apart DEF QueueInv, RingInv
<1> HIDE DEF Inv
<1> QED  BY <1>1, <1>2, <1>3, <1>4, PTL DEF Spec, FifoSpec, Fifo!Spec
=============================================================================
