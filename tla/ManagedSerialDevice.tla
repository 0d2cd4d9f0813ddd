------------------------ MODULE ManagedSerialDevice ------------------------
(***************************************************************************)
(* The command queue of ManagedSerialDevice (AsyncDuplex is the same code  *)
(* under another name): commands wait in an array of slots; loop() sends   *)
(* the first one, waits for its expectation or its timeout, runs a callback*)
(* and goes on. Everything runs in one thread; what interleaves is loop(), *)
(* the application between its passes, and the callbacks inside them.      *)
(*                                                                         *)
(* A command is the number of the execute call that accepted it. Its       *)
(* success callback may execute a further command NEXT, as executeChain    *)
(* makes it do; its failure callback may execute it again.                 *)
(***************************************************************************)
EXTENDS Integers, Sequences, SequencesExt

CONSTANTS Size,          \* COMMAND_QUEUE_SIZE
          Links,         \* commands chained behind a command, at most
          MaxCommands    \* bound: commands accepted

ASSUME SizeAssumption == Size \in Nat \ {0}
ASSUME BoundsAssumption == Links \in Nat /\ MaxCommands \in Nat

VARIABLES queue, queueLength,   \* commandQueue, queueLength
          processing,           \* a command was sent and its answer is awaited
          expired,              \* timeout < millis()
          at,                   \* where loop() is: "out", "input", "send"
          wire,                 \* history: the command last written to the stream
          accepted,             \* history: how many commands were accepted
          open,                 \* history: those not yet ended, in the order they are due
          care                  \* history: what the clients left undone, see Use

vars == <<queue, queueLength, processing, expired, at, wire, accepted, open, care>>

\* late: the command's delay is not yet over.
Command == [id : 0..MaxCommands, links : 0..Links, retry : BOOLEAN, late : BOOLEAN]
\* A slot that was never written; nothing initialises it.
Blank == [id |-> 0, links |-> 0, retry |-> FALSE, late |-> FALSE]

Index == 0..(Size - 1)

TypeOK == /\ queue \in [Index -> Command]
          /\ queueLength \in 0..Size
          /\ processing \in BOOLEAN /\ expired \in BOOLEAN
          /\ at \in {"out", "input", "send"}
          /\ wire \in 0..MaxCommands
          /\ accepted \in 0..MaxCommands
          /\ open \in Seq(0..MaxCommands)
          /\ care \subseteq {"shallow", "patient", "final"}

Init == /\ queue = [i \in Index |-> Blank] /\ queueLength = 0
        /\ processing = FALSE /\ expired = FALSE /\ at = "out"
        /\ wire = 0 /\ accepted = 0 /\ open = <<>>
        /\ care = {"shallow", "patient", "final"}

\* shiftLeft copies from the last slot down: every slot before it becomes the last.
ShiftLeft(q, n) == [i \in Index |-> IF i < n - 1 THEN q[n - 1] ELSE q[i]]

\* shiftRight copies from the first slot up, and not into the slot it adds.
ShiftRight(q, n) == [i \in Index |-> IF 0 < i /\ i < n THEN q[0] ELSE q[i]]

\* Fault: the position is taken after the queue has grown.
PutBehind(q, n, c) == [q EXCEPT ![(n + 1) % Size] = c]

\* execute(..., ANY) fills the slot behind the last, execute(..., NEXT) the first.
Put(q, n, c) == [q EXCEPT ![n] = c]
PutNext(q, n, c) == [ShiftRight(q, n) EXCEPT ![0] = c]

\* What a client does that the queue does not stand: a third command, a command
\* put before another ("shallow"), or before the one being processed ("patient").
\* A command that was not executed again when it failed is "final".
Use(next, n, busy) == (IF n > 1 \/ (next /\ n > 0) THEN {"shallow"} ELSE {})
                      \cup (IF next /\ busy THEN {"patient"} ELSE {})

Fresh(links, retry, late) ==
  [id |-> accepted + 1, links |-> links, retry |-> retry, late |-> late]

\* Fault: a full queue is not noticed.
HasRoomAlways(n) == accepted < MaxCommands

HasRoom(n) == n # Size /\ accepted < MaxCommands

\* The application, or a hook inside loop(), queues a command.
Execute(next, c) ==
  /\ at \in {"out", "input"} /\ HasRoom(queueLength)
  /\ queue' = IF next THEN PutNext(queue, queueLength, c) ELSE Put(queue, queueLength, c)
  /\ queueLength' = queueLength + 1
  /\ accepted' = c.id
  /\ open' = IF next THEN <<c.id>> \o open ELSE Append(open, c.id)
  /\ care' = care \ Use(next, queueLength, processing)
  /\ UNCHANGED <<processing, expired, at, wire>>

\* A command too long for a slot is refused after the queue has grown.
ExecuteTooLong(next) ==
  /\ at \in {"out", "input"} /\ queueLength # Size
  /\ queue' = IF next THEN ShiftRight(queue, queueLength) ELSE queue
  /\ queueLength' = queueLength + 1
  /\ care' = care \ ({"shallow"} \cup Use(next, queueLength, processing))
  /\ UNCHANGED <<processing, expired, at, wire, accepted, open>>

\* A command is no longer open; a slot that was never written belongs to none.
Ended(id) == IF id \in Range(open) THEN RemoveAt(open, CHOOSE k \in DOMAIN open : open[k] = id) ELSE open

\* Fault: the answer is still waited for.
AbortSilently == /\ at \in {"out", "input"} /\ queueLength > 0
                 /\ queue' = ShiftLeft(queue, queueLength)
                 /\ queueLength' = queueLength - 1
                 /\ open' = Ended(queue[0].id)
                 /\ UNCHANGED <<processing, expired, at, wire, accepted, care>>

Abort == /\ at \in {"out", "input"} /\ queueLength > 0
         /\ queue' = ShiftLeft(queue, queueLength)
         /\ queueLength' = queueLength - 1
         /\ open' = Ended(queue[0].id)
         /\ processing' = FALSE
         /\ UNCHANGED <<expired, at, wire, accepted, care>>

\* Fault: a failed command is not taken out.
RetryForever(c) == UNCHANGED <<queue, queueLength, open, accepted, care>>

\* The failure callback comes before shiftLeft, which then takes away what the
\* callback has put in front.
Retry(c) ==
  IF c.retry /\ HasRoom(queueLength)
    THEN /\ queue' = ShiftLeft(PutNext(queue, queueLength,
                                       Fresh(c.links, TRUE, FALSE)), queueLength + 1)
         /\ queueLength' = queueLength
         /\ accepted' = accepted + 1
         /\ open' = <<accepted + 1>> \o Ended(c.id)
         /\ care' = care \ {"shallow", "final"}
    ELSE /\ queue' = ShiftLeft(queue, queueLength)
         /\ queueLength' = queueLength - 1
         /\ open' = Ended(c.id)
         /\ UNCHANGED <<accepted, care>>

Timeout == /\ at = "out" /\ processing /\ expired
           /\ Retry(queue[0])
           /\ processing' = FALSE /\ at' = "input"
           /\ UNCHANGED <<expired, wire>>

NoTimeout == /\ at = "out" /\ ~(processing /\ expired)
             /\ at' = "input"
             /\ UNCHANGED <<queue, queueLength, processing, expired, wire, accepted, open, care>>

\* The input matches: the command leaves, and its success callback chains the next.
Match ==
  LET c == queue[0]
      q == ShiftLeft(queue, queueLength)
      n == queueLength - 1
  IN  /\ at = "input" /\ processing
      /\ processing' = FALSE
      /\ IF c.links > 0 /\ HasRoom(n)
           THEN /\ queue' = PutNext(q, n, Fresh(c.links - 1, c.retry, FALSE))
                /\ queueLength' = n + 1
                /\ accepted' = accepted + 1
                /\ open' = <<accepted + 1>> \o Ended(c.id)
                /\ care' = care \ Use(TRUE, n, FALSE)
           ELSE /\ queue' = q /\ queueLength' = n
                /\ open' = Ended(c.id)
                /\ UNCHANGED <<accepted, care>>
      /\ UNCHANGED <<expired, at, wire>>

InputRead == /\ at = "input"
             /\ at' = "send"
             /\ UNCHANGED <<queue, queueLength, processing, expired, wire, accepted, open, care>>

Send == /\ at = "send"
        /\ at' = "out"
        /\ IF ~processing /\ queueLength > 0 /\ ~queue[0].late
             THEN /\ processing' = TRUE /\ expired' = FALSE
                  /\ wire' = queue[0].id
             ELSE UNCHANGED <<processing, expired, wire>>
        /\ UNCHANGED <<queue, queueLength, accepted, open, care>>

\* millis() moves on: the timeout of the command sent, or all delays, are over.
TimeoutPasses == /\ processing /\ ~expired
                 /\ expired' = TRUE
                 /\ UNCHANGED <<queue, queueLength, processing, at, wire, accepted, open, care>>
DelaysPass == /\ \E i \in Index : queue[i].late
              /\ queue' = [i \in Index |-> [queue[i] EXCEPT !.late = FALSE]]
              /\ UNCHANGED <<queueLength, processing, expired, at, wire, accepted, open, care>>

Loop == Timeout \/ NoTimeout \/ InputRead \/ Send

Client == \/ \E next, retry, late \in BOOLEAN, links \in 0..Links :
               Execute(next, Fresh(links, retry, late))
          \/ \E next \in BOOLEAN : ExecuteTooLong(next)
          \/ Abort

Next == Loop \/ Match \/ Client \/ TimeoutPasses \/ DelaysPass

Spec == Init /\ [][Next]_vars

\* loop() is called for ever and time passes; the modem may be silent.
FairSpec == Spec /\ WF_vars(Loop) /\ WF_vars(TimeoutPasses) /\ WF_vars(DelaysPass)
-----------------------------------------------------------------------------
Waiting == [i \in 1..queueLength |-> queue[i - 1].id]

\* With at most two commands at a time, and chains only on an empty queue, the
\* queue is those commands, each once and in the order in which they are due.
KeptWhileShallow == "shallow" \in care => Waiting = open

\* While an answer is awaited, the command whose callback it will run is the one
\* that was sent, unless a client has pushed another in front of it meanwhile.
AnswersOwn == processing /\ "patient" \in care => queueLength > 0 /\ queue[0].id = wire

\* Whatever the modem does and whatever was queued, wait() comes to its end: when
\* the clients add nothing more and failed commands are not executed again, every
\* slot counted is worked off, with the chains behind it.
Drains == []("final" \in care) /\ <>[][~Client]_vars => <>[](queueLength = 0)
=============================================================================
