---------------------------- MODULE RadioMailbox ----------------------------
(***************************************************************************)
(* What the datagram classes take a radio driver for: a box that holds at  *)
(* most one frame, addressed to this node, with its headers. A frame that  *)
(* is heard may be missed, and may replace the one in the box; taking it   *)
(* empties the box. ReliableDatagram builds on this: its rxBuf is the box. *)
(***************************************************************************)
EXTENDS Sequences

CONSTANTS Frame,     \* frames on the air
          NoFrame

VARIABLES box,     \* the frame held, or NoFrame
          handed,  \* payload (and whether whole) and headers handed over, in order
          mine     \* the frames sent so far that are addressed to this node

vars == <<box, handed, mine>>

Init == box = NoFrame /\ handed = <<>> /\ mine = {}

OnAir(f) == mine' = mine \cup {f} /\ UNCHANGED <<box, handed>>

Hear(f) == f \in mine /\ box' = f /\ UNCHANGED <<handed, mine>>

Take == /\ box # NoFrame
        /\ box' = NoFrame
        /\ handed' = Append(handed, [payload |-> box, whole |-> TRUE, from |-> box, id |-> box])
        /\ UNCHANGED mine

Next == (\E f \in Frame : OnAir(f) \/ Hear(f)) \/ Take
=============================================================================
