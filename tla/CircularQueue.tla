--------------------------- MODULE CircularQueue ---------------------------
(***************************************************************************)
(* circular_queue and circular_queue_mp of EspSoftwareSerial: a ring with  *)
(* one slot more than it may hold, written by a producer (an interrupt) and*)
(* emptied by a consumer (the loop) without a lock. A step is one load or  *)
(* store that the other end can see; the fences order them as written.     *)
(*                                                                         *)
(* The producers of a circular_queue_mp hold a lock during a push, so one  *)
(* producer stands for all of them. A call that finds the queue full or    *)
(* empty changes nothing and is no step.                                   *)
(***************************************************************************)
EXTENDS Integers, Sequences

CONSTANTS Capacity,   \* elements the queue can hold
          MaxPushes   \* bound: elements ever accepted

ASSUME CapacityAssumption == Capacity \in Nat \ {0}
ASSUME MaxPushesAssumption == MaxPushes \in Nat

VARIABLES mp,               \* whether this is a circular_queue_mp
          inPos, outPos,    \* m_inPos, m_outPos
          buffer,           \* m_buffer
          prod,             \* the producer: what it does, first and second block, elements written
          cons,             \* the consumer, see Consumer
          pushed, left      \* history: elements accepted, elements that left

vars == <<mp, inPos, outPos, buffer, prod, cons, pushed, left>>

N == Capacity + 1   \* m_bufSize
Slot == 0..Capacity
Succ(p) == (p + 1) % N
Pred(p) == (p + Capacity) % N
Dist(a, b) == IF b < a THEN b - a + N ELSE b - a   \* available()

\* pop, pop_n, flush and for_each are "take": count elements at a time, up to end.
Consumer == [at : {"idle", "take", "flush", "sift", "call", "lock", "link", "store"},
             count : 0..Capacity, end : Slot, pos : Slot, to : Slot,
             got : Seq(0..MaxPushes), seen : Seq(0..MaxPushes)]
Free == [at |-> "idle", count |-> 0, end |-> 0, pos |-> 0, to |-> 0, got |-> <<>>, seen |-> <<>>]
Quiet == [at |-> "idle", b1 |-> 0, b2 |-> 0, done |-> 0]

TypeOK ==
  /\ mp \in BOOLEAN
  /\ inPos \in Slot /\ outPos \in Slot
  /\ buffer \in [Slot -> 0..MaxPushes]
  /\ prod \in [at : {"idle", "peeked", "fill"}, b1 : 0..Capacity, b2 : 0..Capacity, done : 0..Capacity]
  /\ cons \in Consumer
  /\ pushed \in 0..MaxPushes
  /\ left \in Seq(0..MaxPushes)

Init == /\ mp \in BOOLEAN
        /\ inPos = 0 /\ outPos = 0
        /\ buffer = [s \in Slot |-> 0]
        /\ prod = Quiet /\ cons = Free
        /\ pushed = 0 /\ left = <<>>

Smaller(a, b) == IF a < b THEN a ELSE b

\* Fault: the room up to the oldest element is not looked at.
FirstBlockBlind(size) == Smaller(size, IF outPos = 0 THEN N - 1 - inPos ELSE N - inPos)

\* push_n writes b1 elements from inPos and then b2 from the start of the ring.
FirstBlock(size) ==
  Smaller(size, IF outPos > inPos THEN outPos - 1 - inPos
                ELSE IF outPos = 0 THEN N - 1 - inPos ELSE N - inPos)

\* Fault: no slot is left free, and a full ring looks empty.
SecondBlockFull(size, b1) ==
  LET room == outPos - ((inPos + b1) % N)
  IN  IF outPos <= 1 THEN 0 ELSE IF room < 0 THEN size - b1 ELSE Smaller(size - b1, room)

\* A negative room is a huge size_t.
SecondBlock(size, b1) ==
  LET room == outPos - ((inPos + b1) % N) - 1
  IN  IF outPos <= 1 THEN 0 ELSE IF room < 0 THEN size - b1 ELSE Smaller(size - b1, room)

\* Fault: the position is not wrapped.
AfterPushUnwrapped == inPos + prod.b1 + prod.b2

\* The slot of the i-th element the producer writes, and m_inPos after them.
Target(i) == IF i < prod.b1 THEN inPos + i ELSE i - prod.b1
AfterPush == ((inPos + prod.b1) % N) + prod.b2

\* push(val) is this with size 1, but its test is the one of PushPending.
StartPush(size) ==
  LET b1 == FirstBlock(size) IN
  /\ prod.at = "idle" /\ cons.at # "link"
  /\ b1 > 0 /\ pushed + size <= MaxPushes
  /\ prod' = [at |-> "fill", b1 |-> b1, b2 |-> SecondBlock(size, b1), done |-> 0]
  /\ UNCHANGED <<mp, inPos, outPos, buffer, cons, pushed, left>>

Fill == /\ prod.at = "fill" /\ prod.done < prod.b1 + prod.b2
        /\ buffer' = [buffer EXCEPT ![Target(prod.done)] = pushed + prod.done + 1]
        /\ prod' = [prod EXCEPT !.done = @ + 1]
        /\ UNCHANGED <<mp, inPos, outPos, cons, pushed, left>>

Publish == /\ prod.at = "fill" /\ prod.done = prod.b1 + prod.b2
           /\ inPos' = AfterPush
           /\ pushed' = pushed + prod.b1 + prod.b2
           /\ prod' = Quiet
           /\ UNCHANGED <<mp, outPos, buffer, cons, left>>

\* pushpeek() and a write through the reference; push() may then be refused.
PushPeek == /\ ~mp /\ prod.at = "idle" /\ pushed < MaxPushes
            /\ buffer' = [buffer EXCEPT ![inPos] = pushed + 1]
            /\ prod' = [prod EXCEPT !.at = "peeked"]
            /\ UNCHANGED <<mp, inPos, outPos, cons, pushed, left>>

PushPending == /\ prod.at = "peeked" /\ Succ(inPos) # outPos
               /\ prod' = [at |-> "fill", b1 |-> 1, b2 |-> 0, done |-> 1]
               /\ UNCHANGED <<mp, inPos, outPos, buffer, cons, pushed, left>>

Producer == \/ \E size \in 1..Capacity : StartPush(size)
            \/ Fill \/ Publish \/ PushPeek \/ PushPending

Available == Dist(outPos, inPos)

\* pop is pop_n of one element; for_each takes one at a time up to a snapshot.
StartTake(count, end) ==
  /\ cons.at = "idle" /\ Available > 0
  /\ cons' = [Free EXCEPT !.at = "take", !.count = count, !.end = end]
  /\ UNCHANGED <<mp, inPos, outPos, buffer, prod, pushed, left>>

StartPop(size) == LET n == Smaller(size, Available) IN StartTake(n, (outPos + n) % N)
StartForEach == StartTake(1, inPos)

Read == /\ cons.at = "take" /\ Len(cons.got) < cons.count
        /\ cons' = [cons EXCEPT !.got = Append(@, buffer[(outPos + Len(@)) % N])]
        /\ UNCHANGED <<mp, inPos, outPos, buffer, prod, pushed, left>>

Release == /\ cons.at = "take" /\ Len(cons.got) = cons.count
           /\ outPos' = (outPos + cons.count) % N
           /\ left' = left \o cons.got
           /\ cons' = IF outPos' = cons.end THEN Free ELSE [cons EXCEPT !.got = <<>>]
           /\ UNCHANGED <<mp, inPos, buffer, prod, pushed>>

\* The elements in the slots from a up to b.
Slots(a, b) == [i \in 1..Dist(a, b) |-> buffer[(a + i - 1) % N]]

StartFlush == /\ cons.at = "idle"
              /\ cons' = [Free EXCEPT !.at = "flush", !.end = inPos]
              /\ UNCHANGED <<mp, inPos, outPos, buffer, prod, pushed, left>>

Flush == /\ cons.at = "flush"
         /\ outPos' = cons.end
         /\ left' = left \o Slots(outPos, cons.end)
         /\ cons' = Free
         /\ UNCHANGED <<mp, inPos, buffer, prod, pushed>>

\* for_each_rev_requeue: from the youngest back, keep some and close the gaps.
StartSift == /\ cons.at = "idle" /\ Available > 0
             /\ cons' = [Free EXCEPT !.at = "sift", !.end = inPos, !.pos = inPos, !.to = inPos]
             /\ UNCHANGED <<mp, inPos, outPos, buffer, prod, pushed, left>>

SiftOne(keep) ==
  LET p == Pred(cons.pos)
      t == Pred(cons.to)
  IN  /\ cons.at = "sift" /\ cons.pos # outPos
      /\ buffer' = IF keep THEN [buffer EXCEPT ![t] = buffer[p]] ELSE buffer
      /\ cons' = [cons EXCEPT !.pos = p, !.to = IF keep THEN t ELSE @,
                              !.seen = <<buffer[p]>> \o @,
                              !.got = IF keep THEN @ ELSE Append(@, buffer[p])]
      /\ UNCHANGED <<mp, inPos, outPos, prod, pushed, left>>

EndSift == /\ cons.at = "sift" /\ cons.pos = outPos
           /\ outPos' = cons.to
           /\ left' = left \o cons.got
           /\ cons' = Free
           /\ UNCHANGED <<mp, inPos, buffer, prod, pushed>>

\* pop_requeue holds the producers' lock all the time.
PopRequeue == /\ mp /\ cons.at = "idle" /\ prod.at = "idle" /\ Available > 0
              /\ buffer' = [buffer EXCEPT ![inPos] = buffer[outPos]]
              /\ outPos' = Succ(outPos) /\ inPos' = Succ(inPos)
              /\ UNCHANGED <<mp, prod, cons, pushed, left>>

\* for_each_requeue holds it only while it puts an element back.
StartRequeue == /\ mp /\ cons.at = "idle" /\ Available > 0
                /\ cons' = [Free EXCEPT !.at = "call", !.end = inPos]
                /\ UNCHANGED <<mp, inPos, outPos, buffer, prod, pushed, left>>

RequeueCall(keep) ==
  /\ cons.at = "call"
  /\ cons' = [cons EXCEPT !.at = IF keep THEN "lock" ELSE "store"]
  /\ left' = IF keep THEN left ELSE Append(left, buffer[outPos])
  /\ UNCHANGED <<mp, inPos, outPos, buffer, prod, pushed>>

RequeueWrite == /\ cons.at = "lock" /\ prod.at = "idle"
                /\ buffer' = [buffer EXCEPT ![inPos] = buffer[outPos]]
                /\ cons' = [cons EXCEPT !.at = "link"]
                /\ UNCHANGED <<mp, inPos, outPos, prod, pushed, left>>

RequeueLink == /\ cons.at = "link"
               /\ inPos' = Succ(inPos)
               /\ cons' = [cons EXCEPT !.at = "store"]
               /\ UNCHANGED <<mp, outPos, buffer, prod, pushed, left>>

RequeueStore == /\ cons.at = "store"
                /\ outPos' = Succ(outPos)
                /\ cons' = IF outPos' = cons.end THEN Free ELSE [cons EXCEPT !.at = "call"]
                /\ UNCHANGED <<mp, inPos, buffer, prod, pushed, left>>

Consume == \/ \E size \in 1..Capacity : StartPop(size)
           \/ StartForEach \/ Read \/ Release \/ StartFlush \/ Flush
           \/ StartSift \/ (\E keep \in BOOLEAN : SiftOne(keep)) \/ EndSift
           \/ PopRequeue \/ StartRequeue \/ (\E keep \in BOOLEAN : RequeueCall(keep))
           \/ RequeueWrite \/ RequeueLink \/ RequeueStore

Next == Producer \/ Consume

Spec == Init /\ [][Next]_vars

\* An element is put back only into a ring that is not full.
Room == cons.at = "link" => Succ(inPos) # outPos

RoomSpec == Init /\ [][Next /\ Room']_vars
-----------------------------------------------------------------------------
\* The slots the producer may be writing, and those the consumer may be reading
\* or rearranging, are never the same: the two need no lock.
Written == CASE prod.at = "fill"   -> {Target(i) : i \in 0..(prod.b1 + prod.b2 - 1)}
             [] prod.at = "peeked" -> {inPos}
             [] OTHER              -> {}
Occupied == {s \in Slot : Dist(outPos, s) < Available}

RaceFree == Written \cap Occupied = {}

\* The queue as its clients see it: for_each_rev_requeue rearranges at its end,
\* for_each_requeue takes an element out when its callback has answered.
Items == IF cons.at = "sift"
           THEN Slots(outPos, cons.pos) \o cons.seen \o Slots(cons.end, inPos)
         ELSE IF cons.at = "store" THEN Tail(Slots(outPos, inPos))
         ELSE Slots(outPos, inPos)

\* The ring is the queue that FifoQueue promises, operation by operation.
Fifo == INSTANCE FifoQueue WITH items <- Items
FifoSpec == Fifo!Spec
=============================================================================
