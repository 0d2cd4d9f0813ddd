----------------------- MODULE ReliableDatagramReboot -----------------------
(***************************************************************************)
(* ReliableDatagram with nodes that restart. Everything the class holds is *)
(* in RAM: a restart runs the constructors again, so the sequence number   *)
(* and the seen ids start from zero and a call in progress is gone, while  *)
(* the other nodes keep what they remember of the restarted one.           *)
(***************************************************************************)
EXTENDS ReliableDatagram, FiniteSets, Functions

CONSTANTS MaxReboots,   \* bound on the restarts of all nodes
          MaxMessages   \* bound on the messages of all nodes

VARIABLE reboots       \* reboots[n]: restarts of n so far (history)

rebootVars == <<lastSeq, seenIds, call, rxBuf, sent, delivered, acked, reboots>>

RebootInit == Init /\ reboots = [n \in Node |-> 0]

\* Power is lost and comes back: the driver and RHReliableDatagram are
\* constructed again.
Reboot(n) ==
  /\ FoldFunction(+, 0, reboots) < MaxReboots
  /\ reboots' = [reboots EXCEPT ![n] = @ + 1]
  /\ lastSeq' = [lastSeq EXCEPT ![n] = 0]
  /\ seenIds' = [seenIds EXCEPT ![n] = [m \in Node |-> 0]]
  /\ call' = [call EXCEPT ![n] = Idle]
  /\ Consume(n)
  /\ UNCHANGED historyVars

\* Power is lost inside recvfromAck: the acknowledgement has gone out, the
\* message has not been returned to the application.
RebootAfterAck(n) ==
  /\ FoldFunction(+, 0, reboots) < MaxReboots
  /\ Polling(n)
  /\ ~rxBuf[n].ack
  /\ rxBuf[n].to # Broadcast
  /\ Acknowledge(n, rxBuf[n])
  /\ reboots' = [reboots EXCEPT ![n] = @ + 1]
  /\ lastSeq' = [lastSeq EXCEPT ![n] = 0]
  /\ seenIds' = [seenIds EXCEPT ![n] = [m \in Node |-> 0]]
  /\ call' = [call EXCEPT ![n] = Idle]
  /\ UNCHANGED historyVars

Messages == FoldFunction(LAMBDA messages, sum : Len(messages) + sum, 0, sent)

RebootNext == \/ Next /\ Messages' <= MaxMessages /\ UNCHANGED reboots
              \/ \E n \in Node : Reboot(n) \/ RebootAfterAck(n)

RebootSpec == RebootInit /\ [][RebootNext]_rebootVars

\* A call that has begun runs on, and its deadline passes however many frames
\* keep it busy: timeLeft shrinks with millis(). Nothing is assumed of the
\* application (it need not poll), of the medium or of the power supply.
FairRebootSpec ==
  RebootSpec /\ \A n \in Node : /\ WF_rebootVars(InCall(n) /\ UNCHANGED reboots)
                               /\ SF_rebootVars(Timeout(n) /\ UNCHANGED reboots)

\* A restarted receiver forgets what it has seen and may be handed the message
\* being retransmitted again, but no application is handed one message more
\* often than its node has booted, nor an older message after a newer one.
OncePerBoot ==
  \A m, n \in Node :
     LET d == delivered[m][n] IN
     /\ \A i, j \in 1..Len(d) : i < j => d[i] <= d[j]
     /\ \A i \in 1..Len(d) :
           Cardinality({j \in 1..Len(d) : d[j] = d[i]}) <= 1 + reboots[m]
=============================================================================
