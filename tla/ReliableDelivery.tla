-------------------------- MODULE ReliableDelivery --------------------------
(***************************************************************************)
(* What RHReliableDatagram promises its callers, with no frames, ids,      *)
(* acknowledgements or timers: a node submits messages one after another;  *)
(* each addressee is handed a message at most once and never an older one  *)
(* after a newer one; messages may be skipped (the medium loses frames and *)
(* the retry count is finite); and a sender may be told that a message     *)
(* arrived only when it did.                                               *)
(*                                                                         *)
(* A message is identified by its sender and its serial, its position in   *)
(* the sequence of everything that sender ever submitted.                  *)
(***************************************************************************)
EXTENDS Integers, Sequences

CONSTANTS Node,        \* node addresses
          Broadcast    \* RH_BROADCAST_ADDRESS

VARIABLES sent,       \* sent[n]: the addresses n submitted messages to, in order
          delivered,  \* delivered[m][n]: serials of n's messages handed to m's application
          acked       \* acked[n]: serials n was told have arrived

vars == <<sent, delivered, acked>>

Address == Node \cup {Broadcast}

\* The serial of the last element of a delivery history, 0 before any.
LastOf(s) == IF s = <<>> THEN 0 ELSE s[Len(s)]

Init == /\ sent = [n \in Node |-> <<>>]
        /\ delivered = [m \in Node |-> [n \in Node |-> <<>>]]
        /\ acked = [n \in Node |-> {}]

\* n hands over a new message for address d.
Submit(n, d) == /\ sent' = [sent EXCEPT ![n] = Append(@, d)]
                /\ UNCHANGED <<delivered, acked>>

\* m's application gets n's message s, newer than any it got from n before.
Deliver(m, n, s) ==
  /\ sent[n][s] \in {m, Broadcast}
  /\ s > LastOf(delivered[m][n])
  /\ delivered' = [delivered EXCEPT ![m][n] = Append(@, s)]
  /\ UNCHANGED <<sent, acked>>

\* n learns that its latest message, sent to m alone, has reached m.
Confirm(n, m) ==
  LET s == Len(sent[n]) IN
  /\ s > 0
  /\ sent[n][s] = m
  /\ \E i \in 1..Len(delivered[m][n]) : delivered[m][n][i] = s
  /\ acked' = [acked EXCEPT ![n] = @ \cup {s}]
  /\ UNCHANGED <<sent, delivered>>

Next == \E n \in Node :
          \/ \E d \in Address : Submit(n, d)
          \/ \E m \in Node : \E s \in 1..Len(sent[n]) : Deliver(m, n, s)
          \/ \E m \in Node : Confirm(n, m)

Spec == Init /\ [][Next]_vars
=============================================================================
