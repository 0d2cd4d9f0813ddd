----------------------------- MODULE RF95Driver -----------------------------
(***************************************************************************)
(* RH_RF95 on one node: the radio, the interrupt handler, and a thread that*)
(* calls available, send, and recv through RHDatagram::recvfrom. The radio *)
(* acts at any moment; an interrupt comes between two steps of the thread, *)
(* and a step of the thread is one register or variable that the handler   *)
(* or the radio can see, or one block with interrupts off.                 *)
(*                                                                         *)
(* A frame is the number of its arrival; mine are those addressed to this  *)
(* node or broadcast. Of a frame shorter than its headers only the length  *)
(* is kept apart from the frame before it, and of the length that recv     *)
(* computes only whether it is the frame's.                                *)
(***************************************************************************)
EXTENDS Integers, Sequences

CONSTANT MaxFrames   \* bound: frames heard

ASSUME MaxFramesAssumption == MaxFrames \in Nat

VARIABLES op, dio,        \* the radio: operating mode, and which event interrupts
          flags, fifo,    \* the radio: event flags, the last frame received
          mine, heard,    \* which frames are for this node; how many were heard
          broken,         \* history: frames with a checksum error, or shorter than headers
          mode,           \* _mode
          buf, short,     \* _buf: the frame whose payload it holds; _bufLen < 4
          hdr, valid,     \* _rxHeader...: the frame they are from; _rxBufValid
          pc, call, got,  \* the thread: where it is, in which call, what recvfrom has collected
          handed,         \* history: what recvfrom returned
          overrun         \* history: a frame came in on an unread one, see HandleRx

vars == <<op, dio, flags, fifo, mine, broken, heard,
          mode, buf, short, hdr, valid, pc, call, got, handed, overrun>>
radio == <<op, dio, flags, fifo, mine, broken, heard>>
driver == <<mode, buf, short, hdr, valid, overrun>>
thread == <<pc, call, got, handed>>

Frame == 1..MaxFrames
Mode == {"idle", "rx", "tx"}
Result == [payload : 0..MaxFrames, whole : BOOLEAN, from : 0..MaxFrames, id : 0..MaxFrames]
Nothing == [payload |-> 0, whole |-> FALSE, from |-> 0, id |-> 0]

\* The steps of setModeRx in available and recv, of recvfrom, and of send.
Step == {"out", "rxop", "rxdio", "rxmode", "test", "copy", "clear", "from", "id",
         "idleop", "idlemode", "txop", "txdio", "txmode"}

TypeOK == /\ op \in Mode /\ dio \in {"rx", "tx"} /\ mode \in Mode
          /\ flags \subseteq {"RxDone", "CrcError", "TxDone"}
          /\ fifo \in [frame : 0..MaxFrames, short : BOOLEAN]
          /\ mine \subseteq Frame /\ broken \subseteq Frame /\ heard \in 0..MaxFrames
          /\ buf \in 0..MaxFrames /\ hdr \in 0..MaxFrames
          /\ short \in BOOLEAN /\ valid \in BOOLEAN /\ overrun \in BOOLEAN
          /\ pc \in Step /\ call \in {"available", "recv"}
          /\ got \in Result /\ handed \in Seq(Result)

Init == /\ op = "idle" /\ dio = "rx" /\ flags = {}
        /\ fifo = [frame |-> 0, short |-> FALSE]
        /\ mine = {} /\ broken = {} /\ heard = 0
        /\ mode = "idle" /\ buf = 0 /\ short = TRUE /\ hdr = 0 /\ valid = FALSE
        /\ pc = "out" /\ call = "recv" /\ got = Nothing /\ handed = <<>> /\ overrun = FALSE

\* The interrupt pin is high.
Pending == (IF dio = "rx" THEN "RxDone" ELSE "TxDone") \in flags
-----------------------------------------------------------------------------
\* The radio: a frame is over, or its own transmission is. A transmission takes
\* longer than the two assignments that follow its start in setModeTx.
HearFrame(forMe, isShort, bad) ==
  /\ op = "rx" /\ ~Pending /\ heard < MaxFrames
  /\ heard' = heard + 1
  /\ mine' = IF forMe THEN mine \cup {heard + 1} ELSE mine
  /\ broken' = IF isShort \/ bad THEN broken \cup {heard + 1} ELSE broken
  /\ fifo' = [frame |-> heard + 1, short |-> isShort]
  /\ flags' = flags \cup {"RxDone"} \cup (IF bad THEN {"CrcError"} ELSE {})
  /\ UNCHANGED <<op, dio, driver, thread>>

TxOver == /\ op = "tx" /\ mode = "tx"
          /\ op' = "idle"
          /\ flags' = flags \cup {"TxDone"}
          /\ UNCHANGED <<dio, fifo, mine, broken, heard, driver, thread>>

\* Fault: the address is not looked at.
AcceptsAll(f) == TRUE

\* validateRxBuf: too short a frame changes neither headers nor the valid flag.
Accepts(f) == f \in mine

\* Between its payload and its last header a frame is half read.
HalfRead == pc \in {"clear", "from", "id"}

\* Fault: the register is not written.
SetModeIdleHalf == mode' = "idle" /\ UNCHANGED op

\* setModeIdle as the handler calls it, which nothing interrupts.
SetModeIdle == mode' = "idle" /\ op' = "idle"

\* A frame is copied out and its headers are looked at.
Receive ==
  /\ short' = fifo.short
  /\ IF fifo.short
       THEN UNCHANGED <<buf, hdr, valid>>
       ELSE /\ buf' = fifo.frame /\ hdr' = fifo.frame
            /\ valid' = (valid \/ Accepts(fifo.frame))
  /\ overrun' = (overrun \/ HalfRead \/ (valid /\ (fifo.short \/ ~Accepts(fifo.frame))))
  /\ IF valid' THEN SetModeIdle ELSE UNCHANGED <<mode, op>>
  /\ flags' = {}
  /\ UNCHANGED <<dio, fifo, mine, broken, heard, thread>>

\* Fault: a checksum error is not looked at.
HandleAnyRx == Pending /\ mode = "rx" /\ "RxDone" \in flags /\ Receive

\* The interrupt handler, whose last write clears all flags.
HandleRx ==
  /\ Pending /\ mode = "rx" /\ "RxDone" \in flags /\ "CrcError" \notin flags
  /\ Receive

\* Fault: the radio is put to sleep after a transmission.
HandleTxSleep == /\ Pending /\ mode = "tx" /\ "TxDone" \in flags
                 /\ mode' = "sleep" /\ op' = "sleep"
                 /\ flags' = {}
                 /\ UNCHANGED <<dio, fifo, mine, broken, heard, buf, short, hdr, valid, overrun, thread>>

HandleTx == /\ Pending /\ mode = "tx" /\ "TxDone" \in flags
            /\ SetModeIdle
            /\ flags' = {}
            /\ UNCHANGED <<dio, fifo, mine, broken, heard, buf, short, hdr, valid, overrun, thread>>

HandleOther == /\ Pending
               /\ ~(mode = "rx" /\ "RxDone" \in flags /\ "CrcError" \notin flags)
               /\ ~(mode = "tx" /\ "TxDone" \in flags)
               /\ flags' = {}
               /\ UNCHANGED <<op, dio, fifo, mine, broken, heard, driver, thread>>
-----------------------------------------------------------------------------
\* The thread runs while no interrupt is pending.
At(s) == pc = s /\ ~Pending

\* available and recv: nothing while transmitting, else setModeRx.
Call(c) == /\ At("out")
           /\ pc' = CASE mode = "tx" -> "out" [] mode = "rx" -> "test" [] OTHER -> "rxop"
           /\ call' = c
           /\ UNCHANGED <<radio, driver, got, handed>>
RxOp == /\ At("rxop")
        /\ op' = "rx" /\ pc' = "rxdio"
        /\ UNCHANGED <<dio, flags, fifo, mine, broken, heard, driver, call, got, handed>>
RxDio == /\ At("rxdio")
         /\ dio' = "rx" /\ pc' = "rxmode"
         /\ UNCHANGED <<op, flags, fifo, mine, broken, heard, driver, call, got, handed>>
RxMode == /\ At("rxmode")
          /\ mode' = "rx" /\ pc' = "test"
          /\ UNCHANGED <<radio, buf, short, hdr, valid, overrun, call, got, handed>>
Test == /\ At("test")
        /\ pc' = IF call = "recv" /\ valid THEN "copy" ELSE "out"
        /\ UNCHANGED <<radio, driver, call, got, handed>>

\* recv copies with interrupts off and clears with interrupts off. The length is
\* what is left of the frame behind its headers; when _bufLen is less than they
\* are it wraps, to 252 or more, and the copy is no frame's.
Copy == /\ At("copy")
        /\ got' = [got EXCEPT !.payload = buf, !.whole = ~short]
        /\ pc' = "clear"
        /\ UNCHANGED <<radio, driver, call, handed>>

\* Fault: only the length is cleared.
ClearLength == /\ At("clear")
               /\ short' = TRUE
               /\ pc' = "from"
               /\ UNCHANGED <<radio, mode, buf, hdr, valid, overrun, call, got, handed>>

ClearRxBuf == /\ At("clear")
              /\ valid' = FALSE /\ short' = TRUE
              /\ pc' = "from"
              /\ UNCHANGED <<radio, mode, buf, hdr, overrun, call, got, handed>>

\* recvfrom reads the headers one by one: here the first and the others.
HeaderFrom == /\ At("from")
              /\ got' = [got EXCEPT !.from = hdr]
              /\ pc' = "id"
              /\ UNCHANGED <<radio, driver, call, handed>>
HeaderId == /\ At("id")
            /\ handed' = Append(handed, [got EXCEPT !.id = hdr])
            /\ got' = Nothing
            /\ pc' = "out"
            /\ UNCHANGED <<radio, driver, call>>

\* send waits until the last frame is out, then goes idle, fills the FIFO and
\* starts the transmitter.
Send == /\ At("out") /\ mode # "tx"
        /\ pc' = IF mode = "idle" THEN "txop" ELSE "idleop"
        /\ UNCHANGED <<radio, driver, call, got, handed>>
IdleOp == /\ At("idleop")
          /\ op' = "idle" /\ pc' = "idlemode"
          /\ UNCHANGED <<dio, flags, fifo, mine, broken, heard, driver, call, got, handed>>
IdleMode == /\ At("idlemode")
            /\ mode' = "idle" /\ pc' = "txop"
            /\ UNCHANGED <<radio, buf, short, hdr, valid, overrun, call, got, handed>>
TxOp == /\ At("txop")
        /\ op' = "tx" /\ pc' = "txdio"
        /\ UNCHANGED <<dio, flags, fifo, mine, broken, heard, driver, call, got, handed>>

\* Fault: the interrupt is left on RxDone.
TxNoDio == /\ At("txdio")
           /\ pc' = "txmode"
           /\ UNCHANGED <<radio, driver, call, got, handed>>

TxDio == /\ At("txdio")
         /\ dio' = "tx" /\ pc' = "txmode"
         /\ UNCHANGED <<op, flags, fifo, mine, broken, heard, driver, call, got, handed>>
TxMode == /\ At("txmode")
          /\ mode' = "tx" /\ pc' = "out"
          /\ UNCHANGED <<radio, buf, short, hdr, valid, overrun, call, got, handed>>

Running == \/ RxOp \/ RxDio \/ RxMode \/ Test
           \/ Copy \/ ClearRxBuf \/ HeaderFrom \/ HeaderId
           \/ IdleOp \/ IdleMode \/ TxOp \/ TxDio \/ TxMode
Handle == HandleRx \/ HandleTx \/ HandleOther

Next == \/ \E forMe, isShort, bad \in BOOLEAN : HearFrame(forMe, isShort, bad)
        \/ TxOver \/ Handle \/ Running \/ Send
        \/ \E c \in {"available", "recv"} : Call(c)

Spec == Init /\ [][Next]_vars

\* A call comes to its end, an interrupt is served, a transmission is over.
FairSpec == Spec /\ WF_vars(Running) /\ WF_vars(Handle) /\ WF_vars(TxOver)
-----------------------------------------------------------------------------
\* Each frame is handed over once at most and in the order of arrival, whatever
\* comes in between available and recv.
PayloadsInOrder == \A i, j \in 1..Len(handed) :
                     i < j => handed[i].payload < handed[j].payload

\* What is handed over is a frame heard without a checksum error and with all its
\* headers, whatever broken frames come in, at any step of recv; and its length is
\* that frame's, until a frame has met an unread or half read one (a short frame
\* on an unread one makes the length wrap).
HandedWhole == \A i \in 1..Len(handed) : /\ handed[i].payload \in (1..heard) \ broken
                                         /\ handed[i].whole \/ overrun

\* As long as no foreign or short frame meets an unread one and none comes in
\* while one is half read, the driver is the box that the datagram classes expect.
Taken == [payload |-> got.payload, whole |-> got.whole, from |-> got.payload, id |-> got.payload]
Box == INSTANCE RadioMailbox WITH
         NoFrame <- 0,
         box <- IF valid THEN buf ELSE 0,
         handed <- IF pc \in {"from", "id"} THEN Append(handed, Taken) ELSE handed

ActsAsBox == Box!Init /\ [][overrun' \/ Box!Next]_(Box!vars)

\* What RH_RF95.h says recv returns: a complete message, received for this node.
ForThisNode == \A i \in 1..Len(handed) : handed[i].payload \in mine

\* When no event is left to serve and no call is in progress, the driver and the
\* radio agree on what the radio does, whichever step an interrupt came in.
ModesAgree == pc = "out" /\ flags = {} => mode = op

\* waitPacketSent, and a send that waits for it, come to an end.
TransmissionEnds == mode = "tx" ~> mode # "tx"
=============================================================================
