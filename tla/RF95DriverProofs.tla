-------------------------- MODULE RF95DriverProofs --------------------------
(***************************************************************************)
(* Proofs about RF95Driver, for any number of frames. The order in which   *)
(* the driver writes register, interrupt source and variable is what keeps *)
(* the two modes together (ModeInv). What it holds is always the last whole*)
(* frame, newer than everything handed over as long as it is marked valid  *)
(* (FrameInv), and heard without an error (WholeInv); the rest is that recv*)
(* never reads it once it is not marked.                                   *)
(***************************************************************************)
EXTENDS RF95Driver, TLAPS

\* Where the thread has no change of the mode half done.
Settled == {"out", "test", "copy", "clear", "from", "id", "idleop"}

\* Which mode radio and driver are in, and which event can be waiting, at each
\* step of the thread.
ModeInv ==
  /\ "TxDone" \in flags => pc = "out" /\ mode = "tx" /\ op = "idle"
  /\ "RxDone" \in flags => op = "rx" /\ (dio = "rx" \/ pc = "rxdio")
  /\ mode = "tx" => pc = "out" /\ dio = "tx"
  /\ mode = "rx" => dio = "rx"
  /\ pc \in Settled /\ "TxDone" \notin flags => mode = op
  /\ pc \in {"rxop", "txop"} => mode = "idle" /\ op = "idle"
  /\ pc \in {"rxdio", "rxmode"} => mode = "idle" /\ op = "rx"
  /\ pc = "rxmode" => dio = "rx"
  /\ pc = "idlemode" => op = "idle"
  /\ pc \in {"txdio", "txmode"} => mode = "idle" /\ op = "tx"
  /\ pc = "txmode" => dio = "tx"

\* The frame held, the one being handed over, and those handed over before.
FrameInv ==
  /\ hdr = buf /\ buf <= fifo.frame /\ fifo.frame <= heard
  /\ "RxDone" \in flags => buf < fifo.frame
  /\ valid => buf > 0
  /\ pc \in {"copy", "clear"} => valid
  /\ \A i \in 1..Len(handed) : /\ handed[i].payload <= buf
                               /\ valid => handed[i].payload < buf
  /\ HalfRead => /\ got.payload <= buf
                 /\ valid /\ pc # "clear" => got.payload < buf
                 /\ \A i \in 1..Len(handed) : handed[i].payload < got.payload
                 /\ ~overrun => got.payload = hdr
  /\ pc = "id" /\ ~overrun => got.from = got.payload

\* No broken frame gets into _buf, and while nothing was overrun _bufLen goes
\* with what is marked valid.
WholeInv ==
  /\ broken \subseteq 1..heard
  /\ buf \notin broken
  /\ "RxDone" \in flags /\ "CrcError" \notin flags => fifo.short \/ fifo.frame \notin broken
  /\ valid => overrun \/ ~short
  /\ HalfRead => /\ got.payload \in (1..heard) \ broken
                 /\ got.whole \/ overrun

DriverInv == TypeOK /\ ModeInv /\ FrameInv /\ PayloadsInOrder /\ WholeInv /\ HandedWhole
-----------------------------------------------------------------------------
LEMMA DriverInit == Init => DriverInv
<1> SUFFICES ASSUME Init PROVE DriverInv  OBVIOUS
<1> USE MaxFramesAssumption
<1>1. Nothing \in Result  BY DEF Nothing, Result
<1>2. <<>> \in Seq(Result) /\ Len(<<>>) = 0  OBVIOUS
<1>3. fifo \in [frame : 0..MaxFrames, short : BOOLEAN] /\ fifo.frame = 0  BY DEF Init
<1>4. TypeOK  BY <1>1, <1>2, <1>3 DEF Init, TypeOK, Mode, Step
<1>5. ModeInv  BY DEF Init, ModeInv, Settled
<1>6. FrameInv  BY <1>2, <1>3 DEF Init, FrameInv, HalfRead
<1>7. PayloadsInOrder  BY <1>2 DEF Init, PayloadsInOrder
<1>8. WholeInv /\ HandedWhole  BY <1>2 DEF Init, WholeInv, HandedWhole, HalfRead
<1> QED  BY <1>4, <1>5, <1>6, <1>7, <1>8 DEF DriverInv

\* Types, one group of actions at a time.
LEMMA TypeStep == TypeOK /\ [Next]_vars => TypeOK'
<1> SUFFICES ASSUME TypeOK, [Next]_vars PROVE TypeOK'  OBVIOUS
<1> USE MaxFramesAssumption
<1>1. ASSUME NEW forMe \in BOOLEAN, NEW isShort \in BOOLEAN, NEW bad \in BOOLEAN,
             HearFrame(forMe, isShort, bad)
      PROVE  TypeOK'
  <2>1. heard + 1 \in Frame  BY <1>1 DEF HearFrame, TypeOK, Frame
  <2>2. /\ heard' \in 0..MaxFrames /\ mine' \subseteq Frame /\ broken' \subseteq Frame
        /\ fifo' \in [frame : 0..MaxFrames, short : BOOLEAN]
    BY <1>1, <2>1 DEF HearFrame, TypeOK, Frame
  <2>3. flags' \subseteq {"RxDone", "CrcError", "TxDone"}  BY <1>1 DEF HearFrame, TypeOK
  <2> QED  BY <1>1, <2>2, <2>3 DEF HearFrame, TypeOK, driver, thread
<1>2. CASE TxOver  BY <1>2 DEF TxOver, TypeOK, Mode, driver, thread
<1>3. CASE Handle
  <2>1. CASE HandleRx
    <3>1. fifo.frame \in 0..MaxFrames /\ fifo.short \in BOOLEAN  BY DEF TypeOK
    <3>2. /\ buf' \in 0..MaxFrames /\ hdr' \in 0..MaxFrames
          /\ short' \in BOOLEAN /\ valid' \in BOOLEAN
      BY <2>1, <3>1 DEF HandleRx, Receive, TypeOK
    <3>3. overrun' \in BOOLEAN  BY <2>1 DEF HandleRx, Receive
    <3>4. mode' \in Mode /\ op' \in Mode  BY <2>1 DEF HandleRx, Receive, SetModeIdle, TypeOK, Mode
    <3> QED  BY <2>1, <3>2, <3>3, <3>4 DEF HandleRx, Receive, TypeOK, thread
  <2>2. CASE HandleTx  BY <2>2 DEF HandleTx, SetModeIdle, TypeOK, Mode, thread
  <2>3. CASE HandleOther  BY <2>3 DEF HandleOther, TypeOK, driver, thread
  <2> QED  BY <1>3, <2>1, <2>2, <2>3 DEF Handle
<1>4. CASE RxOp \/ RxDio \/ RxMode \/ Test
  <2>1. CASE RxOp  BY <2>1 DEF RxOp, TypeOK, Mode, Step, driver
  <2>2. CASE RxDio  BY <2>2 DEF RxDio, TypeOK, Step, driver
  <2>3. CASE RxMode  BY <2>3 DEF RxMode, TypeOK, Mode, Step, radio
  <2>4. CASE Test  BY <2>4 DEF Test, TypeOK, Step, radio, driver
  <2> QED  BY <1>4, <2>1, <2>2, <2>3, <2>4
<1>5. CASE IdleOp \/ IdleMode \/ TxOp \/ TxDio \/ TxMode \/ Send
  <2>1. CASE IdleOp  BY <2>1 DEF IdleOp, TypeOK, Mode, Step, driver
  <2>2. CASE IdleMode  BY <2>2 DEF IdleMode, TypeOK, Mode, Step, radio
  <2>3. CASE TxOp  BY <2>3 DEF TxOp, TypeOK, Mode, Step, driver
  <2>4. CASE TxDio  BY <2>4 DEF TxDio, TypeOK, Step, driver
  <2>5. CASE TxMode  BY <2>5 DEF TxMode, TypeOK, Mode, Step, radio
  <2>6. CASE Send  BY <2>6 DEF Send, TypeOK, Step, radio, driver
  <2> QED  BY <1>5, <2>1, <2>2, <2>3, <2>4, <2>5, <2>6
<1>6. CASE Copy
  <2>1. /\ got' = [got EXCEPT !.payload = buf, !.whole = ~short]
        /\ got \in Result /\ buf \in 0..MaxFrames
    BY <1>6 DEF Copy, TypeOK
  <2>2. got' \in Result  BY <2>1 DEF Result
  <2> QED  BY <1>6, <2>2 DEF Copy, TypeOK, Step, radio, driver
<1>7. CASE ClearRxBuf  BY <1>7 DEF ClearRxBuf, TypeOK, Step, radio
<1>8. CASE HeaderFrom
  <2>1. got' = [got EXCEPT !.from = hdr] /\ got \in Result /\ hdr \in 0..MaxFrames
    BY <1>8 DEF HeaderFrom, TypeOK
  <2>2. got' \in Result  BY <2>1 DEF Result
  <2> QED  BY <1>8, <2>2 DEF HeaderFrom, TypeOK, Step, radio, driver
<1>9. CASE HeaderId
  <2> DEFINE r == [got EXCEPT !.id = hdr]
  <2>1. r \in Result  BY DEF TypeOK, Result
  <2>2. handed' = Append(handed, r) /\ handed \in Seq(Result)  BY <1>9 DEF HeaderId, TypeOK
  <2> HIDE DEF r
  <2>3. handed' \in Seq(Result)  BY <2>1, <2>2
  <2>4. Nothing \in Result  BY DEF Nothing, Result
  <2> QED  BY <1>9, <2>3, <2>4 DEF HeaderId, TypeOK, Step, radio, driver
<1>10. ASSUME NEW c \in {"available", "recv"}, Call(c) PROVE TypeOK'
  BY <1>10 DEF Call, TypeOK, Step, radio, driver
<1>11. CASE UNCHANGED vars  BY <1>11 DEF vars, TypeOK
<1> QED  BY <1>1, <1>2, <1>3, <1>4, <1>5, <1>6, <1>7, <1>8, <1>9, <1>10, <1>11
         DEF Next, Running

\* Register, interrupt source and variable, in the order of the code.
LEMMA ModeStep == TypeOK /\ ModeInv /\ [Next]_vars => ModeInv'
<1> SUFFICES ASSUME TypeOK, ModeInv, [Next]_vars PROVE ModeInv'  OBVIOUS
<1> USE DEF ModeInv, Settled
<1>1. ASSUME NEW forMe \in BOOLEAN, NEW isShort \in BOOLEAN, NEW bad \in BOOLEAN,
             HearFrame(forMe, isShort, bad)
      PROVE  ModeInv'
  <2>1. /\ op = "rx" /\ UNCHANGED <<op, dio, mode, pc>>
        /\ "TxDone" \in flags' <=> "TxDone" \in flags
    BY <1>1 DEF HearFrame, driver, thread
  <2>2. dio = "rx" \/ pc = "rxdio"  BY <2>1 DEF TypeOK, Step, Mode
  <2> QED  BY <2>1, <2>2
<1>2. CASE TxOver
  <2>1. /\ op = "tx" /\ mode = "tx" /\ op' = "idle" /\ flags' = flags \cup {"TxDone"}
        /\ UNCHANGED <<dio, mode, pc>>
    BY <1>2 DEF TxOver, driver, thread
  <2> QED  BY <2>1
<1>3. CASE Handle
  BY <1>3 DEF Handle, HandleRx, Receive, HandleTx, HandleOther, SetModeIdle, Pending, TypeOK,
              driver, thread, Mode
<1>4. CASE RxOp \/ RxDio \/ RxMode \/ Test
  BY <1>4 DEF RxOp, RxDio, RxMode, Test, At, Pending, TypeOK, radio, driver
<1>5. CASE IdleOp \/ IdleMode \/ TxOp \/ TxDio \/ TxMode \/ Send
  BY <1>5 DEF IdleOp, IdleMode, TxOp, TxDio, TxMode, Send, At, Pending, TypeOK, Mode, radio, driver
<1>6. CASE Copy \/ ClearRxBuf \/ HeaderFrom \/ HeaderId
  BY <1>6 DEF Copy, ClearRxBuf, HeaderFrom, HeaderId, At, radio, driver
<1>7. ASSUME NEW c \in {"available", "recv"}, Call(c) PROVE ModeInv'
  BY <1>7 DEF Call, At, Pending, TypeOK, Mode, radio, driver
<1>8. CASE UNCHANGED vars  BY <1>8 DEF vars
<1> QED  BY <1>1, <1>2, <1>3, <1>4, <1>5, <1>6, <1>7, <1>8 DEF Next, Running

\* A step that touches no frame, and takes the thread neither into recv nor out.
LEMMA FramesAlone ==
  ASSUME FrameInv, UNCHANGED <<fifo, heard, buf, hdr, valid, got, handed, overrun>>,
         "RxDone" \in flags' => "RxDone" \in flags,
         \/ pc' = pc
         \/ pc \notin {"copy", "clear", "from", "id"} /\ pc' \notin {"copy", "clear", "from", "id"}
  PROVE  FrameInv'
BY DEF FrameInv, HalfRead

\* Reception may come at any step of recv, and what recv copies is read in four.
LEMMA FrameStep ==
  TypeOK /\ FrameInv /\ PayloadsInOrder /\ [Next]_vars => FrameInv' /\ PayloadsInOrder'
<1> SUFFICES ASSUME TypeOK, FrameInv, PayloadsInOrder, [Next]_vars
             PROVE  FrameInv' /\ PayloadsInOrder'
  OBVIOUS
<1>0. /\ buf \in Nat /\ hdr \in Nat /\ heard \in Nat /\ fifo.frame \in Nat
      /\ got.payload \in Nat /\ got.from \in Nat
      /\ Len(handed) \in Nat /\ \A i \in 1..Len(handed) : handed[i].payload \in Nat
  <2>1. /\ buf \in Nat /\ hdr \in Nat /\ heard \in Nat /\ fifo.frame \in Nat
        /\ got.payload \in Nat /\ got.from \in Nat
    BY MaxFramesAssumption DEF TypeOK, Result
  <2>2. handed \in Seq(Result)  BY DEF TypeOK
  <2>3. \A i \in 1..Len(handed) : handed[i] \in Result  BY <2>2
  <2>4. \A r \in Result : r.payload \in Nat  BY MaxFramesAssumption DEF Result
  <2> QED  BY <2>1, <2>2, <2>3, <2>4
<1>1. ASSUME NEW forMe \in BOOLEAN, NEW isShort \in BOOLEAN, NEW bad \in BOOLEAN,
             HearFrame(forMe, isShort, bad)
      PROVE  FrameInv' /\ PayloadsInOrder'
  <2>1. /\ fifo'.frame = heard + 1 /\ heard' = heard + 1
        /\ UNCHANGED <<buf, hdr, valid, got, handed, overrun, pc>>
    BY <1>1 DEF HearFrame, driver, thread
  <2>2. FrameInv'  BY <1>0, <2>1 DEF FrameInv, HalfRead
  <2> QED  BY <2>1, <2>2 DEF PayloadsInOrder
<1>2. CASE HandleRx
  <2>1. /\ "RxDone" \in flags /\ flags' = {}
        /\ UNCHANGED <<fifo, heard, got, handed, pc>>
    BY <1>2 DEF HandleRx, Receive, thread
  <2>2. buf < fifo.frame  BY <2>1 DEF FrameInv
  <2>3. overrun' = (overrun \/ HalfRead \/ (valid /\ (fifo.short \/ ~Accepts(fifo.frame))))
    BY <1>2 DEF HandleRx, Receive
  <2>4. CASE fifo.short
    <3>1. buf' = buf /\ hdr' = hdr /\ (valid' <=> valid)  BY <1>2, <2>4 DEF HandleRx, Receive
    <3>2. overrun => overrun'  BY <2>3
    <3>3. FrameInv'  BY <2>1, <3>1, <3>2 DEF FrameInv, HalfRead
    <3> QED  BY <2>1, <3>3 DEF PayloadsInOrder
  <2>5. CASE ~fifo.short
    <3>1. buf' = fifo.frame /\ hdr' = fifo.frame /\ (valid => valid')
      BY <1>2, <2>5 DEF HandleRx, Receive
    <3>2. overrun' \/ ~HalfRead  BY <2>3
    <3>3. \A i \in 1..Len(handed) : handed[i].payload < fifo.frame
      BY <1>0, <2>2 DEF FrameInv
    <3>4. HalfRead => /\ got.payload < fifo.frame
                      /\ \A i \in 1..Len(handed) : handed[i].payload < got.payload
      BY <1>0, <2>2 DEF FrameInv
    <3>5. pc \in {"copy", "clear"} => valid'  BY <3>1 DEF FrameInv
    <3>6. fifo.frame > 0 /\ fifo.frame <= heard  BY <1>0, <2>2 DEF FrameInv
    <3>7. (HalfRead' <=> HalfRead) /\ (pc' = "id" => HalfRead)  BY <2>1 DEF HalfRead
    <3>8. FrameInv'
      BY <1>0, <2>1, <3>1, <3>2, <3>3, <3>4, <3>5, <3>6, <3>7 DEF FrameInv
    <3> QED  BY <2>1, <3>8 DEF PayloadsInOrder
  <2> QED  BY <2>4, <2>5
<1>3. CASE TxOver \/ HandleTx \/ HandleOther
  <2>1. /\ UNCHANGED <<fifo, heard, buf, hdr, valid, got, handed, overrun, pc>>
        /\ "RxDone" \in flags' => "RxDone" \in flags
    BY <1>3 DEF TxOver, HandleTx, HandleOther, driver, thread
  <2> QED  BY <2>1, FramesAlone DEF PayloadsInOrder
<1>4. CASE RxOp \/ RxDio \/ RxMode \/ IdleOp \/ IdleMode \/ TxOp \/ TxDio \/ TxMode \/ Send
  <2>1. /\ UNCHANGED <<fifo, heard, buf, hdr, valid, got, handed, overrun, flags>>
        /\ pc \notin {"copy", "clear", "from", "id"} /\ pc' \notin {"copy", "clear", "from", "id"}
    BY <1>4 DEF RxOp, RxDio, RxMode, IdleOp, IdleMode, TxOp, TxDio, TxMode, Send, At, radio, driver
  <2> QED  BY <2>1, FramesAlone DEF PayloadsInOrder
<1>5. ASSUME NEW c \in {"available", "recv"}, Call(c) PROVE FrameInv' /\ PayloadsInOrder'
  <2>1. /\ UNCHANGED <<fifo, heard, buf, hdr, valid, got, handed, overrun, flags>>
        /\ pc \notin {"copy", "clear", "from", "id"} /\ pc' \notin {"copy", "clear", "from", "id"}
    BY <1>5 DEF Call, At, radio, driver
  <2> QED  BY <2>1, FramesAlone DEF PayloadsInOrder
<1>6. CASE Test
  <2>1. /\ UNCHANGED <<fifo, heard, buf, hdr, valid, got, handed, overrun, flags>>
        /\ pc = "test" /\ pc' \in {"copy", "out"} /\ (pc' = "copy" => valid)
    BY <1>6 DEF Test, At, radio, driver
  <2> QED  BY <2>1 DEF FrameInv, HalfRead, PayloadsInOrder
<1>7. CASE Copy
  <2>1. /\ UNCHANGED <<fifo, heard, buf, hdr, valid, handed, overrun, flags>>
        /\ pc = "copy" /\ pc' = "clear"
        /\ got' = [got EXCEPT !.payload = buf, !.whole = ~short]
    BY <1>7 DEF Copy, At, radio, driver
  <2>2. got'.payload = buf  BY <2>1 DEF TypeOK, Result
  <2> HIDE DEF TypeOK
  <2>3. FrameInv'  BY <1>0, <2>1, <2>2 DEF FrameInv, HalfRead
  <2> QED  BY <2>1, <2>3 DEF PayloadsInOrder
<1>8. CASE ClearRxBuf
  <2>1. /\ UNCHANGED <<fifo, heard, buf, hdr, got, handed, overrun, flags>>
        /\ pc = "clear" /\ pc' = "from" /\ ~valid'
    BY <1>8 DEF ClearRxBuf, At, radio
  <2> QED  BY <1>0, <2>1 DEF FrameInv, HalfRead, PayloadsInOrder
<1>9. CASE HeaderFrom
  <2>1. /\ UNCHANGED <<fifo, heard, buf, hdr, valid, handed, overrun, flags>>
        /\ pc = "from" /\ pc' = "id" /\ got' = [got EXCEPT !.from = hdr]
    BY <1>9 DEF HeaderFrom, At, radio, driver
  <2>2. got'.payload = got.payload /\ got'.from = hdr  BY <2>1 DEF TypeOK, Result
  <2>3. FrameInv'  BY <1>0, <2>1, <2>2 DEF FrameInv, HalfRead
  <2> QED  BY <2>1, <2>3 DEF PayloadsInOrder
<1>10. CASE HeaderId
  <2> DEFINE r == [got EXCEPT !.id = hdr]
  <2>1. /\ UNCHANGED <<fifo, heard, buf, hdr, valid, overrun, flags>>
        /\ pc = "id" /\ pc' = "out" /\ handed' = Append(handed, r)
    BY <1>10 DEF HeaderId, At, radio, driver
  <2>2. r \in Result /\ r.payload = got.payload  BY DEF TypeOK, Result
  <2> HIDE DEF r
  <2>3. /\ Len(handed') = Len(handed) + 1 /\ handed'[Len(handed) + 1] = r
        /\ \A i \in 1..Len(handed) : handed'[i] = handed[i]
    <3>1. handed \in Seq(Result)  BY DEF TypeOK
    <3> QED  BY <2>1, <2>2, <3>1
  <2>4. /\ got.payload <= buf /\ (valid => got.payload < buf)
        /\ \A i \in 1..Len(handed) : handed[i].payload < got.payload
    BY <2>1 DEF FrameInv, HalfRead
  <2>5. \A i \in 1..Len(handed') : /\ handed'[i].payload <= buf
                                   /\ valid => handed'[i].payload < buf
    BY <1>0, <2>2, <2>3, <2>4 DEF FrameInv
  <2>6. FrameInv'  BY <2>1, <2>5 DEF FrameInv, HalfRead
  <2>7. PayloadsInOrder'  BY <1>0, <2>2, <2>3, <2>4 DEF PayloadsInOrder
  <2> QED  BY <2>6, <2>7
<1>11. CASE UNCHANGED vars
  BY <1>11 DEF vars, FrameInv, HalfRead, PayloadsInOrder
<1> QED  BY <1>1, <1>2, <1>3, <1>4, <1>5, <1>6, <1>7, <1>8, <1>9, <1>10, <1>11
         DEF Next, Running, Handle

\* A step that copies no frame out of the radio and hands none over.
LEMMA WholeAlone ==
  ASSUME WholeInv, HandedWhole,
         UNCHANGED <<broken, heard, fifo, buf, short, valid, overrun, handed>>,
         flags' = flags \/ "RxDone" \notin flags',
         got'.payload = got.payload /\ got'.whole = got.whole,
         HalfRead' => HalfRead
  PROVE  WholeInv' /\ HandedWhole'
<1>1. WholeInv'  BY DEF WholeInv, HalfRead
<1>2. HandedWhole'  BY DEF HandedWhole
<1> QED  BY <1>1, <1>2

\* A broken frame sets its event flag when it comes in, and the handler drops it.
LEMMA WholeStep ==
  TypeOK /\ FrameInv /\ WholeInv /\ HandedWhole /\ [Next]_vars => WholeInv' /\ HandedWhole'
<1> SUFFICES ASSUME TypeOK, FrameInv, WholeInv, HandedWhole, [Next]_vars
             PROVE  WholeInv' /\ HandedWhole'
  OBVIOUS
<1>0. buf \in Nat /\ heard \in Nat /\ fifo.frame \in Nat /\ got.payload \in Nat
  BY MaxFramesAssumption DEF TypeOK, Result
<1>1. ASSUME NEW forMe \in BOOLEAN, NEW isShort \in BOOLEAN, NEW bad \in BOOLEAN,
             HearFrame(forMe, isShort, bad)
      PROVE  WholeInv' /\ HandedWhole'
  <2>1. /\ heard' = heard + 1 /\ fifo'.frame = heard + 1 /\ fifo'.short = isShort
        /\ broken' = IF isShort \/ bad THEN broken \cup {heard + 1} ELSE broken
        /\ flags' = flags \cup {"RxDone"} \cup (IF bad THEN {"CrcError"} ELSE {})
        /\ UNCHANGED <<buf, short, valid, got, handed, overrun, pc>>
    BY <1>1 DEF HearFrame, driver, thread
  <2>2. /\ broken' \subseteq 1..heard' /\ heard + 1 \notin broken
        /\ \A f \in 1..heard : f \notin broken => f \notin broken' /\ f \in 1..heard'
    BY <1>0, <2>1 DEF WholeInv
  <2>3. buf \notin broken'
    BY <1>0, <2>1 DEF WholeInv, FrameInv
  <2>4. "CrcError" \notin flags' => isShort \/ heard + 1 \notin broken'
    BY <2>1, <2>2
  <2>5. WholeInv'  BY <2>1, <2>2, <2>3, <2>4 DEF WholeInv, HalfRead
  <2>6. HandedWhole'  BY <2>1, <2>2 DEF HandedWhole
  <2> QED  BY <2>5, <2>6
<1>2. CASE HandleRx
  <2>1. /\ "RxDone" \in flags /\ "CrcError" \notin flags /\ flags' = {}
        /\ short' = fifo.short
        /\ overrun' = (overrun \/ HalfRead \/ (valid /\ (fifo.short \/ ~Accepts(fifo.frame))))
        /\ UNCHANGED <<fifo, broken, heard, got, handed, pc>>
    BY <1>2 DEF HandleRx, Receive, thread
  <2>2. CASE fifo.short
    <3>1. buf' = buf /\ (valid' <=> valid)  BY <1>2, <2>2 DEF HandleRx, Receive
    <3>2. WholeInv'  BY <2>1, <2>2, <3>1 DEF WholeInv, HalfRead
    <3> QED  BY <2>1, <3>2 DEF HandedWhole
  <2>3. CASE ~fifo.short
    <3>1. buf' = fifo.frame  BY <1>2, <2>3 DEF HandleRx, Receive
    <3>2. fifo.frame \notin broken  BY <2>1, <2>3 DEF WholeInv
    <3>3. WholeInv'  BY <2>1, <2>3, <3>1, <3>2 DEF WholeInv, HalfRead
    <3> QED  BY <2>1, <3>3 DEF HandedWhole
  <2> QED  BY <2>2, <2>3
<1>3. CASE TxOver \/ HandleTx \/ HandleOther
  <2>1. /\ UNCHANGED <<broken, heard, fifo, buf, short, valid, overrun, got, handed, pc>>
        /\ flags' = {} \/ flags' = flags \cup {"TxDone"}
    BY <1>3 DEF TxOver, HandleTx, HandleOther, driver, thread
  <2>2. WholeInv'  BY <2>1 DEF WholeInv, HalfRead
  <2> QED  BY <2>1, <2>2 DEF HandedWhole
<1>4. CASE \/ RxOp \/ RxDio \/ RxMode \/ IdleOp \/ IdleMode
           \/ TxOp \/ TxDio \/ TxMode \/ Send \/ Test
  <2>1. /\ UNCHANGED <<broken, heard, fifo, buf, short, valid, overrun, got, handed, flags>>
        /\ pc' \notin {"clear", "from", "id"}
    BY <1>4 DEF RxOp, RxDio, RxMode, IdleOp, IdleMode, TxOp, TxDio, TxMode, Send, Test, At,
                radio, driver
  <2> QED  BY <2>1, WholeAlone DEF HalfRead
<1>5. ASSUME NEW c \in {"available", "recv"}, Call(c) PROVE WholeInv' /\ HandedWhole'
  <2>1. /\ UNCHANGED <<broken, heard, fifo, buf, short, valid, overrun, got, handed, flags>>
        /\ pc' \notin {"clear", "from", "id"}
    BY <1>5 DEF Call, At, radio, driver
  <2> QED  BY <2>1, WholeAlone DEF HalfRead
<1>6. CASE Copy
  <2>1. /\ UNCHANGED <<broken, heard, fifo, buf, short, valid, overrun, handed, flags>>
        /\ pc = "copy" /\ got' = [got EXCEPT !.payload = buf, !.whole = ~short]
    BY <1>6 DEF Copy, At, radio, driver
  <2>2. got'.payload = buf /\ got'.whole = ~short  BY <2>1 DEF TypeOK, Result
  <2>3. valid /\ buf \in 1..heard  BY <1>0, <2>1 DEF FrameInv
  <2>4. got'.payload \in (1..heard) \ broken  BY <2>2, <2>3 DEF WholeInv
  <2>5. overrun \/ ~short  BY <2>3 DEF WholeInv
  <2>6. got'.whole \/ overrun  BY <2>2, <2>5
  <2>7. WholeInv'  BY <2>1, <2>4, <2>6 DEF WholeInv
  <2> QED  BY <2>1, <2>7 DEF HandedWhole
<1>7. CASE ClearRxBuf
  <2>1. /\ UNCHANGED <<broken, heard, fifo, buf, overrun, got, handed, flags>>
        /\ pc = "clear" /\ ~valid'
    BY <1>7 DEF ClearRxBuf, At, radio
  <2>2. HalfRead  BY <2>1 DEF HalfRead
  <2>3. WholeInv'  BY <2>1, <2>2 DEF WholeInv
  <2> QED  BY <2>1, <2>3 DEF HandedWhole
<1>8. CASE HeaderFrom
  <2>1. /\ UNCHANGED <<broken, heard, fifo, buf, short, valid, overrun, handed, flags>>
        /\ pc = "from" /\ got' = [got EXCEPT !.from = hdr]
    BY <1>8 DEF HeaderFrom, At, radio, driver
  <2>2. got'.payload = got.payload /\ got'.whole = got.whole  BY <2>1 DEF TypeOK, Result
  <2> QED  BY <2>1, <2>2, WholeAlone DEF HalfRead
<1>9. CASE HeaderId
  <2> DEFINE r == [got EXCEPT !.id = hdr]
  <2>1. /\ UNCHANGED <<broken, heard, fifo, buf, short, valid, overrun, flags>>
        /\ pc = "id" /\ pc' = "out" /\ handed' = Append(handed, r)
    BY <1>9 DEF HeaderId, At, radio, driver
  <2>2. r \in Result /\ r.payload = got.payload /\ r.whole = got.whole  BY DEF TypeOK, Result
  <2> HIDE DEF r
  <2>3. /\ Len(handed') = Len(handed) + 1 /\ handed'[Len(handed) + 1] = r
        /\ Len(handed) \in Nat /\ \A i \in 1..Len(handed) : handed'[i] = handed[i]
    <3>1. handed \in Seq(Result)  BY DEF TypeOK
    <3> QED  BY <2>1, <2>2, <3>1
  <2>4. r.payload \in (1..heard) \ broken /\ (r.whole \/ overrun)
    BY <2>1, <2>2 DEF WholeInv, HalfRead
  <2>5. WholeInv'  BY <2>1 DEF WholeInv, HalfRead
  <2>6. HandedWhole'  BY <2>1, <2>3, <2>4 DEF HandedWhole
  <2> QED  BY <2>5, <2>6
<1>10. CASE UNCHANGED vars
  <2>1. UNCHANGED <<broken, heard, fifo, buf, short, valid, overrun, got, handed, flags, pc>>
    BY <1>10 DEF vars
  <2> QED  BY <2>1, WholeAlone DEF HalfRead
<1> QED  BY <1>1, <1>2, <1>3, <1>4, <1>5, <1>6, <1>7, <1>8, <1>9, <1>10
         DEF Next, Running, Handle

LEMMA DriverStep == DriverInv /\ [Next]_vars => DriverInv'
BY TypeStep, ModeStep, FrameStep, WholeStep DEF DriverInv
-----------------------------------------------------------------------------
(* The refinement. *)

\* What the box sees of the thread: only the moment at which recv clears.
LEMMA BoxAlone ==
  ASSUME UNCHANGED <<mine, buf, valid, got, handed>>, pc' = pc \/ {pc, pc'} \cap {"from", "id"} = {}
  PROVE  UNCHANGED Box!vars
BY DEF Box!vars, Taken

LEMMA BoxStep ==
  DriverInv /\ [Next]_vars => overrun' \/ Box!Next \/ UNCHANGED Box!vars
<1> SUFFICES ASSUME DriverInv, [Next]_vars, ~overrun'
             PROVE  Box!Next \/ UNCHANGED Box!vars
  OBVIOUS
<1>0. TypeOK /\ FrameInv /\ WholeInv  BY DEF DriverInv
<1>1. ASSUME NEW forMe \in BOOLEAN, NEW isShort \in BOOLEAN, NEW bad \in BOOLEAN,
             HearFrame(forMe, isShort, bad)
      PROVE  Box!Next \/ UNCHANGED Box!vars
  <2>1. UNCHANGED <<buf, valid, got, handed, pc>>  BY <1>1 DEF HearFrame, driver, thread
  <2>2. CASE forMe
    <3>1. heard + 1 \in Frame
      BY <1>0, <1>1, MaxFramesAssumption DEF HearFrame, TypeOK, Frame
    <3>2. mine' = mine \cup {heard + 1}  BY <1>1, <2>2 DEF HearFrame
    <3>3. Box!OnAir(heard + 1)  BY <2>1, <3>2 DEF Box!OnAir, Taken
    <3> QED  BY <3>1, <3>3 DEF Box!Next
  <2>3. CASE ~forMe
    <3>1. mine' = mine  BY <1>1, <2>3 DEF HearFrame
    <3> QED  BY <2>1, <3>1, BoxAlone
  <2> QED  BY <2>2, <2>3
<1>2. CASE HandleRx
  <2>1. /\ ~overrun /\ ~HalfRead /\ ~(valid /\ (fifo.short \/ ~Accepts(fifo.frame)))
        /\ UNCHANGED <<mine, got, handed, pc>>
    BY <1>2 DEF HandleRx, Receive, thread
  <2>2. CASE fifo.short
    <3>1. buf' = buf /\ valid' = valid  BY <1>2, <2>2 DEF HandleRx, Receive
    <3> QED  BY <2>1, <3>1, BoxAlone
  <2>3. CASE ~fifo.short /\ Accepts(fifo.frame)
    <3>1. buf' = fifo.frame /\ valid'  BY <1>2, <2>3 DEF HandleRx, Receive
    <3>2. fifo.frame \in mine /\ fifo.frame \in Frame
      BY <1>0, <2>3 DEF Accepts, TypeOK
    <3>3. Box!Hear(fifo.frame)  BY <2>1, <3>1, <3>2 DEF Box!Hear, Taken
    <3> QED  BY <3>2, <3>3 DEF Box!Next
  <2>4. CASE ~fifo.short /\ ~Accepts(fifo.frame)
    <3>1. ~valid  BY <2>1, <2>4
    <3>2. ~valid'  BY <1>2, <2>4, <3>1 DEF HandleRx, Receive
    <3> QED  BY <2>1, <3>1, <3>2 DEF Box!vars, Taken
  <2> QED  BY <2>2, <2>3, <2>4
<1>3. CASE TxOver \/ HandleTx \/ HandleOther
  <2>1. UNCHANGED <<mine, buf, valid, got, handed, pc>>
    BY <1>3 DEF TxOver, HandleTx, HandleOther, driver, thread
  <2> QED  BY <2>1, BoxAlone
<1>4. CASE \/ RxOp \/ RxDio \/ RxMode \/ Test \/ IdleOp \/ IdleMode
           \/ TxOp \/ TxDio \/ TxMode \/ Send
  <2>1. /\ UNCHANGED <<mine, buf, valid, got, handed>>
        /\ pc \notin {"from", "id"} /\ pc' \notin {"from", "id"}
    BY <1>4 DEF RxOp, RxDio, RxMode, Test, IdleOp, IdleMode, TxOp, TxDio, TxMode, Send, At,
                radio, driver
  <2> QED  BY <2>1, BoxAlone
<1>5. ASSUME NEW c \in {"available", "recv"}, Call(c) PROVE Box!Next \/ UNCHANGED Box!vars
  <2>1. /\ UNCHANGED <<mine, buf, valid, got, handed>>
        /\ pc \notin {"from", "id"} /\ pc' \notin {"from", "id"}
    BY <1>5 DEF Call, At, radio, driver
  <2> QED  BY <2>1, BoxAlone
<1>6. CASE Copy
  <2>1. /\ UNCHANGED <<mine, buf, valid, handed>> /\ pc = "copy" /\ pc' = "clear"
    BY <1>6 DEF Copy, At, radio, driver
  <2> QED  BY <2>1 DEF Box!vars
<1>7. CASE ClearRxBuf
  <2>1. /\ UNCHANGED <<mine, buf, got, handed, overrun>> /\ pc = "clear" /\ pc' = "from" /\ ~valid'
    BY <1>7 DEF ClearRxBuf, At, radio
  <2>2. valid /\ buf > 0 /\ got.payload = buf /\ got.whole = TRUE
    BY <1>0, <2>1 DEF FrameInv, WholeInv, HalfRead, TypeOK, Result
  <2>3. buf # 0  BY <1>0, <2>2, MaxFramesAssumption DEF TypeOK
  <2>4. Box!Take  BY <2>1, <2>2, <2>3 DEF Box!Take, Taken
  <2> QED  BY <2>4 DEF Box!Next
<1>8. CASE HeaderFrom
  <2>1. /\ UNCHANGED <<mine, buf, valid, handed>> /\ pc = "from" /\ pc' = "id"
        /\ got' = [got EXCEPT !.from = hdr]
    BY <1>8 DEF HeaderFrom, At, radio, driver
  <2>2. got'.payload = got.payload /\ got'.whole = got.whole  BY <1>0, <2>1 DEF TypeOK, Result
  <2> QED  BY <2>1, <2>2 DEF Box!vars, Taken
<1>9. CASE HeaderId
  <2>1. /\ UNCHANGED <<mine, buf, valid, overrun>> /\ pc = "id" /\ pc' = "out"
        /\ handed' = Append(handed, [got EXCEPT !.id = hdr])
    BY <1>9 DEF HeaderId, At, radio, driver
  <2>2. got.from = got.payload /\ hdr = got.payload
    BY <1>0, <2>1 DEF FrameInv, HalfRead
  <2>3. [got EXCEPT !.id = hdr] = Taken
    <3>1. got \in [payload : 0..MaxFrames, whole : BOOLEAN,
                   from : 0..MaxFrames, id : 0..MaxFrames]
      BY <1>0 DEF TypeOK, Result
    <3>2. [got EXCEPT !.id = hdr]
            = [payload |-> got.payload, whole |-> got.whole, from |-> got.from, id |-> hdr]
      BY <3>1
    <3> QED  BY <2>2, <3>2 DEF Taken
  <2> QED  BY <2>1, <2>3 DEF Box!vars
<1>10. CASE UNCHANGED vars
  <2>1. UNCHANGED <<mine, buf, valid, got, handed, pc>>  BY <1>10 DEF vars
  <2> QED  BY <2>1, BoxAlone
<1> QED  BY <1>1, <1>2, <1>3, <1>4, <1>5, <1>6, <1>7, <1>8, <1>9, <1>10
         DEF Next, Running, Handle
-----------------------------------------------------------------------------
(* The theorems. *)

LEMMA InvHolds == Spec => []DriverInv
BY DriverInit, DriverStep, PTL DEF Spec

\* The types of radio, driver and thread, for any number of frames.
THEOREM DriverTypes == Spec => []TypeOK
<1>1. DriverInv => TypeOK  BY DEF DriverInv
<1> QED  BY <1>1, InvHolds, PTL

\* At whatever step of available, recv or send an interrupt comes, radio and
\* driver are in one mode again when it is served and the call has returned.
THEOREM OneMode == Spec => []ModesAgree
<1>1. DriverInv => ModesAgree  BY DEF DriverInv, ModeInv, Settled, ModesAgree
<1> QED  BY <1>1, InvHolds, PTL

\* No payload is handed over twice or after a younger one, even if frames come
\* in while one is read.
THEOREM PayloadsAscend == Spec => []PayloadsInOrder
<1>1. DriverInv => PayloadsInOrder  BY DEF DriverInv
<1> QED  BY <1>1, InvHolds, PTL

\* Only frames heard without an error and with all their headers are handed over;
\* until something was overrun, at their own length.
THEOREM OnlyWholeHanded == Spec => []HandedWhole
<1>1. DriverInv => HandedWhole  BY DEF DriverInv
<1> QED  BY <1>1, InvHolds, PTL

\* Until a frame meets an unread or half read one, interrupt handler and recv
\* together are the box that the datagram classes build on.
THEOREM DriverIsBox == Spec => ActsAsBox
<1>1. Init => Box!Init  BY DEF Init, Box!Init
<1>2. DriverInv /\ [Next]_vars => [overrun' \/ Box!Next]_(Box!vars)  BY BoxStep
<1> QED  BY <1>1, <1>2, InvHolds, PTL DEF Spec, ActsAsBox
=============================================================================
