-------------------------- MODULE UartPort_proofs --------------------------
(***************************************************************************)
(* Received frames keep their order, and Uart implements SerialPort: for   *)
(* every ring size, line behaviour and choice of calls.  The transmitting  *)
(* half rests on TxInOrder, which leaves the queue no freedom: it is what  *)
(* was accepted less what has left the pin.                                *)
(***************************************************************************)
EXTENDS UartSafety_proofs

-----------------------------------------------------------------------------
(* Sequences of frames in the order of the line *)

Rising(s) == \A i, j \in 1..Len(s) : i < j => s[i].id < s[j].id
Below(s, n) == \A i \in 1..Len(s) : s[i].id < n

LEMMA FrameFields == \A f \in Frame : f.id \in Nat
BY UartAssumption DEF Frame

LEMMA RisingAppend ==
    ASSUME NEW s \in Seq(Frame), NEW f \in Frame, Rising(s), Below(s, f.id)
    PROVE  /\ Rising(Append(s, f))
           /\ \A n \in Nat : f.id < n => Below(Append(s, f), n)
<1> DEFINE t == Append(s, f)
<1>1. /\ t \in Seq(Frame) /\ Len(t) = Len(s) + 1 /\ Len(s) \in Nat
      /\ \A i \in 1..Len(s) : t[i] = s[i]
      /\ t[Len(s) + 1] = f
  BY AppendProperties, LenProperties
<1>2. \A i \in 1..Len(s) : s[i].id \in Nat /\ s[i].id < f.id
  <2>1. \A i \in 1..Len(s) : s[i] \in Frame
    BY LenProperties
  <2> QED BY <2>1, FrameFields DEF Below
<1>3. f.id \in Nat
  BY FrameFields
<1> HIDE DEF t
<1>4. Rising(t)
  <2> SUFFICES ASSUME NEW i \in 1..Len(t), NEW j \in 1..Len(t), i < j
               PROVE  t[i].id < t[j].id
    BY DEF Rising
  <2>1. i \in 1..Len(s) /\ t[i] = s[i]
    BY <1>1
  <2>2. CASE j = Len(s) + 1
    BY <1>1, <1>2, <2>1, <2>2
  <2>3. CASE j \in 1..Len(s)
    BY <1>1, <2>1, <2>3 DEF Rising
  <2> QED BY <1>1, <2>2, <2>3
<1>5. \A n \in Nat : f.id < n => Below(t, n)
  BY <1>1, <1>2, <1>3 DEF Below
<1> QED BY <1>4, <1>5 DEF t

LEMMA AppendToConcat ==
    ASSUME NEW s \in Seq(Frame), NEW t \in Seq(Frame), NEW f \in Frame
    PROVE  s \o Append(t, f) = Append(s \o t, f)
<1>1. <<f>> \in Seq(Frame) /\ s \o t \in Seq(Frame)
  BY ConcatProperties
<1>2. Append(t, f) = t \o <<f>> /\ Append(s \o t, f) = (s \o t) \o <<f>>
  BY <1>1, AppendIsConcat
<1>3. (s \o t) \o <<f>> = s \o (t \o <<f>>)
  BY <1>1, ConcatAssociative
<1> QED BY <1>2, <1>3

LEMMA HeadMoves ==
    ASSUME NEW s \in Seq(Frame), NEW t \in Seq(Frame), t # <<>>
    PROVE  Append(s, Head(t)) \o Tail(t) = s \o t
<1>1. /\ Head(t) \in Frame /\ Tail(t) \in Seq(Frame) /\ Head(t) = t[1]
      /\ Len(Tail(t)) = Len(t) - 1 /\ Len(t) \in Nat /\ Len(t) > 0
      /\ \A i \in 1..Len(Tail(t)) : Tail(t)[i] = t[i + 1]
  BY HeadTailProperties, Lengths
<1> DEFINE a == Append(s, Head(t))
           u == a \o Tail(t)
           v == s \o t
<1>2. /\ a \in Seq(Frame) /\ Len(a) = Len(s) + 1 /\ Len(s) \in Nat
      /\ \A i \in 1..Len(s) : a[i] = s[i]
      /\ a[Len(s) + 1] = t[1]
  BY <1>1, AppendProperties, LenProperties
<1> HIDE DEF a
<1>3. /\ u \in Seq(Frame) /\ Len(u) = Len(a) + Len(Tail(t))
      /\ \A i \in 1..Len(a) + Len(Tail(t)) :
           u[i] = IF i <= Len(a) THEN a[i] ELSE Tail(t)[i - Len(a)]
  BY <1>1, <1>2, ConcatProperties
<1>4. /\ v \in Seq(Frame) /\ Len(v) = Len(s) + Len(t)
      /\ \A i \in 1..Len(s) + Len(t) :
           v[i] = IF i <= Len(s) THEN s[i] ELSE t[i - Len(s)]
  BY ConcatProperties
<1> HIDE DEF u, v
<1>5. Len(u) = Len(v)
  BY <1>1, <1>2, <1>3, <1>4
<1>6. ASSUME NEW i \in 1..Len(u) PROVE u[i] = v[i]
  <2>1. CASE i <= Len(s)
    BY <1>1, <1>2, <1>3, <1>4, <2>1
  <2>2. CASE i = Len(s) + 1
    BY <1>1, <1>2, <1>3, <1>4, <2>2
  <2>3. CASE i > Len(s) + 1
    <3> DEFINE k == i - Len(s) - 1
    <3>1. /\ k \in 1..Len(Tail(t)) /\ i - Len(a) = k /\ i - Len(s) = k + 1
          /\ i \in 1..Len(a) + Len(Tail(t)) /\ ~(i <= Len(a))
      BY <1>1, <1>2, <1>3, <2>3
    <3> HIDE DEF k
    <3>2. u[i] = IF i <= Len(a) THEN a[i] ELSE Tail(t)[i - Len(a)]
      BY <1>3, <3>1
    <3>4. u[i] = Tail(t)[k]
      BY <3>1, <3>2
    <3>3. v[i] = t[k + 1]
      BY <1>2, <1>3, <1>4, <1>5, <2>3, <3>1
    <3> QED BY <1>1, <3>1, <3>3, <3>4
  <2> QED BY <1>2, <2>1, <2>2, <2>3, <1>1, <1>3
<1>7. u = v
  BY <1>3, <1>4, <1>5, <1>6, SeqEqual
<1> QED BY <1>7 DEF u, v, a

-----------------------------------------------------------------------------
(* The order of received frames *)

Delivered == got \o rx_buf_

(* What the receive register holds is newer than all that was delivered,   *)
(* and what the line will bring newer still.                               *)
RxAhead == /\ Rising(Delivered) /\ Below(Delivered, frames + 1)
           /\ rxne => Below(Delivered, rdr.id) /\ rdr.id <= frames

(* The three things that can happen to received frames. *)
NothingReceived ==
    /\ UNCHANGED <<got, rx_buf_>>
    /\ \/ frames' = frames /\ (rxne' => rxne /\ rdr' = rdr)
       \/ /\ frames' = frames + 1
          /\ rxne' => \/ rxne /\ rdr' = rdr
                      \/ rdr'.id = frames + 1
FrameTaken == /\ rxne /\ ~rxne' /\ Len(rx_buf_) < Capacity
              /\ rx_buf_' = Append(rx_buf_, rdr)
              /\ UNCHANGED <<got, frames, rdr>>
FrameReturned == /\ pc = "pop" /\ rx_buf_ # <<>> /\ isr = "none"
                 /\ got' = Append(got, Head(rx_buf_))
                 /\ rx_buf_' = Tail(rx_buf_)
                 /\ UNCHANGED <<frames, rxne, rdr>>

RxStep == NothingReceived \/ FrameTaken \/ FrameReturned

LEMMA RxSteps == IInv /\ [Next]_vars => RxStep
<1> SUFFICES ASSUME IInv, [Next]_vars PROVE RxStep
  OBVIOUS
<1> USE DEF RxStep
<1>1. CASE CallBegins
  BY <1>1 DEF CallBegins, InitCall, SendCall, FlushCall, ReceiveCall, Call,
     ErrorsCall, StartWait, ReadSR, NothingReceived, usartVars, rxRegs,
     driver, history
<1>2. CASE ReceivePop
  BY <1>2 DEF ReceivePop, At, FrameReturned, usartVars, rxRegs
<1>3. CASE CallGoesOn /\ ~ReceivePop
  BY <1>3 DEF CallGoesOn, ConfigureUsart, ConfigureNvic, Register, InitDone,
     SendRefused, SendPush, KickLoad, KickStore, FlushDrain, FlushTc,
     FlushTrue, ReceiveEmpty, TimeTest, ReturnFalse, CountLoad, CountStore,
     ErrorsClear, ClearErrors, ReadSR, ReadDR, NothingReceived,
     usartVars, rxRegs, driver, history
<1>4. CASE IsrReceive
  <2>1. rxne
    BY <1>4 DEF IInv, Decided, IsrReceive
  <2> QED BY <1>4, <2>1 DEF IsrReceive, ReadDR, FrameTaken, NothingReceived,
          history
<1>5. CASE Isr /\ ~IsrReceive
  BY <1>5 DEF Isr, IsrEnter, IsrUnregistered, IsrErrors, IsrClear, IsrDecide,
     IsrPop, IsrWrite, IsrDrained, IsrReturn, ClearErrors, ReadSR, ReadDR,
     NothingReceived, usartVars, rxRegs, driver, history
<1>6. CASE SysTick \/ UNCHANGED vars
  BY <1>6 DEF SysTick, vars, NothingReceived, usartVars, rxRegs, driver,
     history
<1>7. CASE Shift
  BY <1>7 DEF Shift, ShiftLoad, ShiftDone, NothingReceived, rxRegs, driver,
     history
<1>8. CASE \E bad \in LineFaults : Line(bad)
  BY <1>8 DEF Line, LineFrame, NothingReceived, driver, history
<1> QED BY <1>1, <1>2, <1>3, <1>4, <1>5, <1>6, <1>7, <1>8 DEF Next

LEMMA RxTypes ==
    TypeOK => /\ got \in Seq(Frame) /\ rx_buf_ \in Seq(Frame)
              /\ Delivered \in Seq(Frame) /\ rdr \in Frame
              /\ frames \in Nat /\ rdr.id \in Nat
<1> HAVE TypeOK
<1>1. got \in Seq(Frame) /\ rx_buf_ \in Seq(Frame) /\ rdr \in Frame
      /\ frames \in Nat
  BY UartAssumption DEF TypeOK, UsartTypeOK, DriverTypeOK, HistoryTypeOK
<1> QED BY <1>1, ConcatProperties, FrameFields DEF Delivered

LEMMA BelowMore ==
    ASSUME NEW s \in Seq(Frame), NEW n \in Nat, NEW k \in Nat, n <= k,
           Below(s, n)
    PROVE  Below(s, k)
<1>1. \A i \in 1..Len(s) : s[i] \in Frame
  BY LenProperties
<1> QED BY <1>1, FrameFields DEF Below

LEMMA NextRxAhead == IInv /\ RxAhead /\ [Next]_vars => RxAhead'
<1> SUFFICES ASSUME TypeOK, RxAhead, RxStep PROVE RxAhead'
  BY RxSteps DEF IInv
<1>0. /\ got \in Seq(Frame) /\ rx_buf_ \in Seq(Frame)
      /\ Delivered \in Seq(Frame) /\ rdr \in Frame
      /\ frames \in Nat /\ rdr.id \in Nat
  BY RxTypes
<1>1. CASE NothingReceived
  <2>1. Delivered' = Delivered
    BY <1>1 DEF NothingReceived, Delivered
  <2>2. Below(Delivered, frames + 2) /\ frames + 1 \in Nat
    BY <1>0, BelowMore DEF RxAhead
  <2> QED BY <1>0, <1>1, <2>1, <2>2 DEF NothingReceived, RxAhead, Rising, Below
<1>2. CASE FrameTaken
  <2>1. Delivered' = Append(Delivered, rdr)
    BY <1>0, <1>2, AppendToConcat DEF FrameTaken, Delivered
  <2>2. Rising(Append(Delivered, rdr)) /\ Below(Append(Delivered, rdr), frames + 1)
    BY <1>0, <1>2, RisingAppend DEF FrameTaken, RxAhead
  <2> QED BY <1>2, <2>1, <2>2 DEF FrameTaken, RxAhead, Rising, Below
<1>3. CASE FrameReturned
  <2>1. Delivered' = Delivered
    BY <1>0, <1>3, HeadMoves DEF FrameReturned, Delivered
  <2> QED BY <1>3, <2>1 DEF FrameReturned, RxAhead, Rising, Below
<1> QED BY <1>1, <1>2, <1>3 DEF RxStep

LEMMA AlwaysRxAhead == Spec => []RxAhead
<1>1. Init => RxAhead
  <2> SUFFICES ASSUME Init PROVE RxAhead
    OBVIOUS
  <2>1. Delivered = <<>>
    BY EmptySeqs, ConcatEmptySeq DEF Init, Delivered
  <2> QED BY <2>1, EmptySeqs DEF Init, UsartInit, RxAhead, Rising, Below
<1>2. IInv /\ RxAhead /\ [Next]_vars => RxAhead'
  BY NextRxAhead
<1> QED BY <1>1, <1>2, AlwaysIInv, PTL DEF Spec

(* Received frames reach the application in the order of the line, and no  *)
(* frame twice, for every behaviour of the line and of main.               *)
THEOREM FramesKeepOrder == Spec => []RxInOrder
<1>1. TypeOK /\ RxAhead => RxInOrder
  <2> SUFFICES ASSUME TypeOK, RxAhead PROVE RxInOrder
    OBVIOUS
  <2>0. Delivered \in Seq(Frame) /\ rdr \in Frame
    BY RxTypes
  <2> DEFINE last == IF rxne THEN <<rdr>> ELSE <<>>
             path == Delivered \o last
  <2>1. Rising(path)
    <3>1. CASE rxne
      <4>1. path = Append(Delivered, rdr)
        BY <2>0, <3>1, AppendIsConcat
      <4>2. Rising(Append(Delivered, rdr))
        BY <2>0, <3>1, RisingAppend DEF RxAhead
      <4> QED BY <4>1, <4>2
    <3>2. CASE ~rxne
      <4>1. path = Delivered
        BY <2>0, <3>2, ConcatEmptySeq
      <4> QED BY <4>1 DEF RxAhead
    <3> QED BY <3>1, <3>2
  <2> QED BY <2>1 DEF RxInOrder, Rising, Delivered
<1>2. IInv => TypeOK
  BY DEF IInv
<1> QED BY <1>1, <1>2, AlwaysIInv, AlwaysRxAhead, PTL

-----------------------------------------------------------------------------
(* Corrupt bytes, when nothing is sent *)

(* Without send() the transmit interrupt stays off: the handler runs for   *)
(* a received frame only, and has seen the flags that came with it.        *)
ReceiveOnly == "send" \notin Calls

CleanSoFar ==
    /\ pc \notin {"push", "kick_load", "kick_store"} /\ "TXEIE" \notin cr1
    /\ rxne => rdr.bad \subseteq err
    /\ isr = "entry" => rxne \/ "ORE" \in err
    /\ isr = "clear" => ierr # {}
    /\ isr = "decide" /\ ierr = {} => rxne /\ rdr.bad = {}
    /\ isr = "rx" => rdr.bad = {}
    /\ NoCorruptDelivered

LEMMA NextCleanSoFar ==
    ASSUME ReceiveOnly, IInv, CleanSoFar, [Next]_vars
    PROVE  CleanSoFar'
<1> DEFINE Sending == {"push", "kick_load", "kick_store"}
           clean == <<cr1, rxne, rdr, err, isr, ierr, rx_buf_>>
<1>0. pc' \notin Sending /\ UNCHANGED clean => CleanSoFar'
  BY DEF CleanSoFar, NoCorruptDelivered
<1>1. CASE CallBegins
  <2>1. UNCHANGED clean
    BY <1>1 DEF CallBegins, InitCall, SendCall, FlushCall, ReceiveCall,
       ErrorsCall, ReadSR, usartVars, rxRegs, driver, isrVars
  <2>2. pc' \notin Sending
    BY <1>1 DEF CallBegins, InitCall, SendCall, FlushCall, ReceiveCall, Call,
       Goto, ErrorsCall, Return, StartWait, ReceiveOnly
  <2> QED BY <1>0, <2>1, <2>2
<1>2. CASE /\ CallGoesOn
           /\ ~ReceivePop /\ ~ConfigureUsart /\ ~ErrorsClear
  <2>1. ~SendRefused /\ ~SendPush /\ ~KickLoad /\ ~KickStore
    BY DEF CleanSoFar, SendRefused, SendPush, KickLoad, KickStore, At
  <2>2. UNCHANGED clean
    BY <1>2, <2>1 DEF CallGoesOn, ConfigureNvic, Register, InitDone,
       FlushDrain, FlushTc, FlushTrue, ReceiveEmpty, TimeTest, ReturnFalse,
       CountLoad, CountStore, ReadSR, usartVars, rxRegs, driver, isrVars
  <2>3. pc' \notin Sending
    BY <1>2, <2>1 DEF CallGoesOn, ConfigureNvic, Register, InitDone,
       FlushDrain, FlushTc, FlushTrue, ReceiveEmpty, TimeTest, ReturnFalse,
       CountLoad, CountStore, Goto, Return
  <2> QED BY <1>0, <2>2, <2>3
<1> USE DEF CleanSoFar, NoCorruptDelivered
<1>3. CASE ReceivePop
  <2>1. /\ rx_buf_ \in Seq(Frame) /\ rx_buf_ # <<>> /\ rx_buf_' = Tail(rx_buf_)
    BY <1>3 DEF ReceivePop, IInv, TypeOK, DriverTypeOK
  <2>2. /\ Len(rx_buf_') = Len(rx_buf_) - 1 /\ Len(rx_buf_) \in Nat
        /\ \A i \in 1..Len(rx_buf_') : rx_buf_'[i] = rx_buf_[i + 1]
    BY <2>1, HeadTailProperties, Lengths
  <2>3. \A i \in 1..Len(rx_buf_') : rx_buf_'[i].bad = {}
    BY <2>2
  <2> QED BY <1>3, <2>3 DEF ReceivePop, At, Return, usartVars, rxRegs, isrVars
<1>4. CASE ConfigureUsart
  BY <1>4 DEF ConfigureUsart, At, Goto, rxRegs, driver, isrVars
<1>5. CASE ErrorsClear
  BY <1>5 DEF ErrorsClear, At, Return, ClearErrors, ReadDR, driver, isrVars
<1>6. CASE IsrEnter
  BY <1>6 DEF IsrEnter, IrqLine, usartVars, rxRegs, driver, mainVars
<1>7. CASE IsrErrors
  BY <1>7 DEF IsrErrors, ReadSR, mainVars
<1>8. CASE IsrClear
  BY <1>8 DEF IsrClear, ClearErrors, ReadDR, driver, mainVars
<1>9. CASE IsrDecide
  BY <1>9 DEF IsrDecide, ReadSR, driver, mainVars
<1>10. CASE IsrReceive
  <2>1. \A i \in 1..Len(rx_buf_') : rx_buf_'[i].bad = {}
    <3>1. CASE rx_buf_' = Append(rx_buf_, rdr)
      <4>1. /\ rx_buf_ \in Seq(Frame) /\ rdr \in Frame
            /\ Len(rx_buf_) \in Nat /\ rdr.bad = {}
        BY <1>10, Lengths
           DEF IInv, TypeOK, DriverTypeOK, UsartTypeOK, IsrReceive
      <4>2. /\ Len(rx_buf_') = Len(rx_buf_) + 1
            /\ \A i \in 1..Len(rx_buf_) : rx_buf_'[i] = rx_buf_[i]
            /\ rx_buf_'[Len(rx_buf_) + 1] = rdr
        BY <3>1, <4>1, AppendProperties
      <4> QED BY <4>1, <4>2
    <3>2. CASE rx_buf_' = rx_buf_
      BY <3>2
    <3> QED BY <1>10, <3>1, <3>2 DEF IsrReceive
  <2> QED BY <1>10, <2>1 DEF IsrReceive, ReadDR, mainVars
<1>11. CASE IsrUnregistered \/ IsrPop \/ IsrWrite \/ IsrDrained \/ IsrReturn
  BY <1>11 DEF IsrUnregistered, IsrPop, IsrWrite, IsrDrained, IsrReturn,
     IsrExit, WriteDR, usartVars, rxRegs, driver, mainVars
<1>12. CASE SysTick \/ UNCHANGED vars
  BY <1>12 DEF SysTick, vars, usartVars, rxRegs, driver, mainVars, isrVars
<1>13. CASE Shift
  BY <1>13 DEF Shift, ShiftLoad, ShiftDone, rxRegs, driver, mainVars, isrVars
<1>14. CASE \E bad \in LineFaults : Line(bad)
  <2>1. PICK bad \in LineFaults : Line(bad)
    BY <1>14
  <2>2. CASE rxne
    BY <2>1, <2>2 DEF Line, LineFrame, driver, mainVars, isrVars
  <2>3. CASE ~rxne
    <3>1. rdr'.bad = bad /\ err' = err \cup bad
      BY <2>1, <2>3 DEF Line, LineFrame
    <3>2. isr # "rx" /\ ~(isr = "decide" /\ ierr = {})
      BY <2>3 DEF IInv, Decided
    <3> QED BY <2>1, <3>1, <3>2 DEF Line, LineFrame, driver, mainVars, isrVars
  <2> QED BY <2>2, <2>3
<1> QED BY <1>1, <1>3, <1>4, <1>5, <1>2, <1>6, <1>7, <1>8, <1>9, <1>10,
           <1>11, <1>12, <1>13, <1>14 DEF Next, CallGoesOn, Isr

(* A program that only receives is never given a byte that came with an    *)
(* error.  (One that also sends may be: the run uart_corrupt.)             *)
THEOREM ReceiverNeverCorrupt ==
    ASSUME ReceiveOnly PROVE Spec => []NoCorruptDelivered
<1>1. Init => CleanSoFar
  BY EmptySeqs DEF Init, UsartInit, CleanSoFar, NoCorruptDelivered
<1>2. IInv /\ CleanSoFar /\ [Next]_vars => CleanSoFar'
  BY ReceiveOnly, NextCleanSoFar
<1>3. CleanSoFar => NoCorruptDelivered
  BY DEF CleanSoFar
<1> QED BY <1>1, <1>2, <1>3, AlwaysIInv, PTL DEF Spec

-----------------------------------------------------------------------------
(* The error counters, while main leaves the error flags to the handler *)

ErrorCounters == {"overrun_errors", "framing_errors", "noise_errors"}
ErrorTotal == stats_["overrun_errors"] + stats_["framing_errors"]
                + stats_["noise_errors"]

NoErrorCall == pc \notin {"count_load", "count_store", "clear"}

(* The frame the handler is about to discard has been counted already.     *)
CountedFirst == cleared + (IF isr = "clear" THEN 1 ELSE 0) <= ErrorTotal

(* FE and NE stand only as long as the byte they came with, and a read of  *)
(* that byte clears them.                                                  *)
FaultFlags == err \cap {"FE", "NE"}
FaultsGoWithByte ==
    /\ FaultFlags # {} => rxne /\ rdr.bad # {}
    /\ isr = "clear" => rxne /\ rdr.bad # {} /\ FaultFlags \subseteq seen
    /\ isr = "rx" => rxne /\ FaultFlags \subseteq seen

HandlerOnly ==
    errorCalls = 0 => /\ NoErrorCall /\ CountedFirst
                      /\ stats_["overrun_errors"] = 0 => FaultsGoWithByte

(* A step that leaves the flags, the byte and their counters alone.        *)
Unconcerned == /\ UNCHANGED <<cleared, err, rxne, rdr>>
               /\ \A c \in ErrorCounters : stats_'[c] = stats_[c]
               /\ isr' \notin {"clear", "rx"} \/ UNCHANGED <<isr, seen>>

LEMMA ErrorNumbers ==
    TypeOK => /\ cleared \in Nat /\ ErrorTotal \in Nat
              /\ \A c \in ErrorCounters : stats_[c] \in Nat
<1> HAVE TypeOK
<1>1. cleared \in Nat /\ \A c \in ErrorCounters : stats_[c] \in Nat
  BY DEF TypeOK, HistoryTypeOK, DriverTypeOK, ErrorCounters, Counters
<1> QED BY <1>1 DEF ErrorTotal, ErrorCounters

(* The other counters are bumped beside them. *)
LEMMA OtherBumps ==
    TypeOK => \A d \in {"bytes_sent", "bytes_received", "tx_buffer_overflows",
                        "rx_buffer_overflows"}, c \in ErrorCounters :
                Bump(stats_, d)[c] = stats_[c]
<1> SUFFICES ASSUME TypeOK,
                    NEW d \in {"bytes_sent", "bytes_received",
                               "tx_buffer_overflows", "rx_buffer_overflows"},
                    NEW c \in ErrorCounters
             PROVE  Bump(stats_, d)[c] = stats_[c]
  OBVIOUS
<1>1. /\ stats_ \in [Counters -> Nat] /\ c \in Counters /\ d \in Counters
      /\ c # d
  BY DEF TypeOK, DriverTypeOK, Counters, ErrorCounters
<1> QED BY <1>1, BumpType

LEMMA HandlerSteps ==
    ASSUME TypeOK, NoErrorCall, errorCalls = 0, errorCalls' = 0, [Next]_vars
    PROVE  /\ NoErrorCall'
           /\ \/ Unconcerned
              \/ \E bad \in LineFaults : Line(bad)
              \/ IsrErrors \/ IsrClear \/ IsrDecide \/ IsrReceive
<1> DEFINE kept == <<cleared, err, rxne, rdr, stats_>>
<1>0. UNCHANGED kept /\ (isr' \notin {"clear", "rx"} \/ UNCHANGED <<isr, seen>>)
        => Unconcerned
  BY DEF Unconcerned
<1> USE DEF NoErrorCall
<1>1. CASE CallBegins
  <2>1. ~ErrorsCall
    BY DEF ErrorsCall
  <2> QED BY <1>0, <1>1, <2>1 DEF CallBegins, InitCall, SendCall, FlushCall,
          ReceiveCall, Call, Goto, StartWait, usartVars, rxRegs, driver,
          isrVars, history
<1>2. CASE SendRefused
  <2>1. Unconcerned
    BY <1>2, OtherBumps DEF SendRefused, Unconcerned, usartVars, rxRegs,
       isrVars, history
  <2> QED BY <1>2, <2>1 DEF SendRefused, Return
<1>3. CASE KickLoad
  <2>1. Unconcerned
    BY <1>3, OtherBumps DEF KickLoad, Unconcerned, usartVars, rxRegs,
       isrVars, history
  <2> QED BY <1>3, <2>1 DEF KickLoad
<1>4. CASE CallGoesOn /\ ~SendRefused /\ ~KickLoad
  <2>1. ~ErrorsClear /\ \A f \in Flags : ~CountLoad(f) /\ ~CountStore(f)
    BY DEF ErrorsClear, CountLoad, CountStore, At
  <2>2. UNCHANGED kept /\ (isr' \notin {"clear", "rx"} \/ UNCHANGED <<isr, seen>>)
    BY <1>4, <2>1 DEF CallGoesOn, ConfigureUsart, ConfigureNvic, Register,
       InitDone, SendPush, KickStore, FlushDrain, FlushTc, FlushTrue,
       ReceivePop, ReceiveEmpty, TimeTest, ReturnFalse, At, ReadSR, usartVars,
       rxRegs, driver, isrVars, history
  <2>3. NoErrorCall'
    BY <1>4, <2>1 DEF CallGoesOn, ConfigureUsart, ConfigureNvic, Register,
       InitDone, SendPush, KickStore, FlushDrain, FlushTc, FlushTrue,
       ReceivePop, ReceiveEmpty, TimeTest, ReturnFalse, Goto, Return
  <2> QED BY <1>0, <2>2, <2>3
<1>5. CASE Isr
  BY <1>0, <1>5 DEF Isr, IsrEnter, IsrUnregistered, IsrErrors, IsrClear,
     IsrDecide, IsrReceive, IsrPop, IsrWrite, IsrDrained, IsrReturn, IsrExit,
     ClearErrors, WriteDR, usartVars, rxRegs, driver, mainVars, history
<1>6. CASE SysTick \/ UNCHANGED vars
  BY <1>0, <1>6 DEF SysTick, vars, usartVars, rxRegs, driver, mainVars,
     isrVars, history
<1>7. CASE Shift
  BY <1>0, <1>7 DEF Shift, ShiftLoad, ShiftDone, rxRegs, driver, mainVars,
     isrVars, history
<1>8. CASE \E bad \in LineFaults : Line(bad)
  BY <1>8 DEF Line, mainVars
<1> QED BY <1>1, <1>2, <1>3, <1>4, <1>5, <1>6, <1>7, <1>8 DEF Next

(* Each flag the handler reads is counted, and no counter falls. *)
LEMMA HandlerCounts ==
    ASSUME TypeOK, IsrErrors
    PROVE  /\ \A c \in ErrorCounters : /\ stats_'[c] \in Nat
                                       /\ stats_'[c] >= stats_[c]
           /\ \A f \in err : stats_'[CounterOf[f]] = stats_[CounterOf[f]] + 1
<1>1. stats_ \in [Counters -> Nat] /\ err \subseteq Flags
  BY DEF TypeOK, DriverTypeOK, UsartTypeOK
<1>2. \A c \in Counters :
        stats_'[c] = IF \E f \in err : c = CounterOf[f]
                       THEN stats_[c] + 1 ELSE stats_[c]
  BY DEF IsrErrors
<1>3. \A f \in err : CounterOf[f] \in Counters
  BY <1>1, CounterOfType
<1>4. \A c \in Counters : stats_[c] \in Nat
  BY <1>1
<1>5. ErrorCounters \subseteq Counters
  BY DEF ErrorCounters, Counters
<1>6. \A f \in err : stats_'[CounterOf[f]] = stats_[CounterOf[f]] + 1
  BY <1>2, <1>3
<1>7. \A c \in Counters : stats_'[c] \in Nat /\ stats_'[c] >= stats_[c]
  BY <1>2, <1>4
<1> QED BY <1>5, <1>6, <1>7

LEMMA FlagCounters ==
    /\ \A f \in Flags : CounterOf[f] \in ErrorCounters
    /\ CounterOf["ORE"] = "overrun_errors"
BY DEF Flags, CounterOf, ErrorCounters

LEMMA ErrorsAddUp ==
    ASSUME TypeOK, IsrErrors
    PROVE  /\ ErrorTotal' \in Nat /\ ErrorTotal' >= ErrorTotal
           /\ err # {} => ErrorTotal' >= ErrorTotal + 1
<1>1. \A c \in ErrorCounters : /\ stats_[c] \in Nat /\ stats_'[c] \in Nat
                               /\ stats_'[c] >= stats_[c]
  BY ErrorNumbers, HandlerCounts
<1>2. err # {} => \E c \in ErrorCounters : stats_'[c] = stats_[c] + 1
  <2> SUFFICES ASSUME err # {}
               PROVE  \E c \in ErrorCounters : stats_'[c] = stats_[c] + 1
    OBVIOUS
  <2>1. PICK f \in err : TRUE
    OBVIOUS
  <2>2. CounterOf[f] \in ErrorCounters
    BY <2>1, FlagCounters DEF TypeOK, UsartTypeOK
  <2> QED BY <2>1, <2>2, HandlerCounts
<1> QED BY <1>1, <1>2 DEF ErrorTotal, ErrorCounters

LEMMA NextCountedFirst ==
    ASSUME TypeOK, HandlerOnly, errorCalls = 0, errorCalls' = 0, [Next]_vars
    PROVE  CountedFirst'
<1>1. cleared \in Nat /\ ErrorTotal \in Nat /\ NoErrorCall
  BY ErrorNumbers DEF HandlerOnly
<1>2. /\ cleared + (IF isr = "clear" THEN 1 ELSE 0) <= ErrorTotal
      /\ cleared <= ErrorTotal
  BY <1>1 DEF HandlerOnly, CountedFirst
<1>3. CASE Unconcerned
  <2>1. ErrorTotal' = ErrorTotal /\ cleared' = cleared
    BY <1>3 DEF Unconcerned, ErrorTotal, ErrorCounters
  <2>2. isr' # "clear" \/ isr' = isr
    BY <1>3 DEF Unconcerned
  <2> QED BY <1>1, <1>2, <2>1, <2>2 DEF CountedFirst
<1>4. CASE \E bad \in LineFaults : Line(bad)
  <2>1. UNCHANGED <<stats_, cleared, isr>>
    BY <1>4 DEF Line, driver, history, isrVars
  <2> QED BY <1>2, <2>1 DEF CountedFirst, ErrorTotal
<1>5. CASE IsrErrors
  <2>1. /\ cleared' = cleared
        /\ isr' = IF err = {} THEN "decide" ELSE "clear"
    BY <1>5 DEF IsrErrors, history
  <2> QED BY <1>1, <1>2, <1>5, <2>1, ErrorsAddUp DEF CountedFirst
<1>6. CASE IsrClear
  <2>1. /\ isr = "clear" /\ isr' = "decide" /\ UNCHANGED stats_
        /\ cleared' = cleared \/ cleared' = cleared + 1
    BY <1>6 DEF IsrClear, ClearErrors, driver
  <2>2. ErrorTotal' = ErrorTotal
    BY <2>1 DEF ErrorTotal
  <2> QED BY <1>1, <1>2, <2>1, <2>2 DEF CountedFirst
<1>7. CASE IsrDecide
  <2>1. UNCHANGED <<stats_, cleared>> /\ isr' # "clear"
    BY <1>7 DEF IsrDecide, driver, history
  <2> QED BY <1>1, <1>2, <2>1 DEF CountedFirst, ErrorTotal
<1>8. CASE IsrReceive
  <2>1. /\ cleared' = cleared /\ isr' # "clear"
        /\ \A c \in ErrorCounters : stats_'[c] = stats_[c]
    BY <1>8, OtherBumps DEF IsrReceive, history
  <2>2. ErrorTotal' = ErrorTotal
    BY <2>1 DEF ErrorTotal, ErrorCounters
  <2> QED BY <1>1, <1>2, <2>1, <2>2 DEF CountedFirst
<1> QED BY <1>1, <1>3, <1>4, <1>5, <1>6, <1>7, <1>8, HandlerSteps

LEMMA NextFaultsGoWithByte ==
    ASSUME IInv, HandlerOnly, errorCalls = 0, errorCalls' = 0, [Next]_vars,
           stats_["overrun_errors"]' = 0
    PROVE  FaultsGoWithByte'
<1>1. TypeOK /\ NoErrorCall
  BY DEF IInv, HandlerOnly
<1>2. stats_["overrun_errors"] \in Nat
  BY <1>1, ErrorNumbers DEF ErrorCounters
<1> USE DEF FaultsGoWithByte, FaultFlags
<1>3. CASE Unconcerned
  <2>1. FaultsGoWithByte
    BY <1>3 DEF Unconcerned, ErrorCounters, HandlerOnly
  <2> QED BY <1>3, <2>1 DEF Unconcerned
<1>4. CASE \E bad \in LineFaults : Line(bad)
  <2>1. PICK bad \in LineFaults : Line(bad)
    BY <1>4
  <2>2. FaultsGoWithByte /\ bad \subseteq {"FE", "NE"}
    BY <2>1, UartAssumption DEF Line, driver, HandlerOnly
  <2>3. UNCHANGED <<isr, seen>>
    BY <2>1 DEF Line, LineFrame, isrVars
  <2>4. CASE rxne
    <3>1. /\ rxne' = rxne /\ rdr' = rdr /\ err' = err \cup {"ORE"}
      BY <2>1, <2>4 DEF Line, LineFrame
    <3> QED BY <2>2, <2>3, <3>1
  <2>5. CASE ~rxne
    <3>1. rxne' = TRUE /\ rdr'.bad = bad /\ err' = err \cup bad
      BY <2>1, <2>5 DEF Line, LineFrame
    <3> QED BY <2>2, <2>3, <2>5, <3>1
  <2> QED BY <2>4, <2>5
<1>5. CASE IsrErrors
  <2>1. /\ stats_["overrun_errors"] = 0
        /\ "ORE" \notin err
    <3>1. /\ stats_'["overrun_errors"] >= stats_["overrun_errors"]
          /\ "ORE" \in err => stats_'["overrun_errors"]
                                = stats_["overrun_errors"] + 1
      BY <1>1, <1>5, HandlerCounts, FlagCounters DEF ErrorCounters
    <3> QED BY <1>2, <3>1
  <2>2. FaultsGoWithByte /\ err \subseteq {"FE", "NE"}
    BY <1>1, <2>1 DEF HandlerOnly, TypeOK, UsartTypeOK, Flags
  <2> QED BY <1>5, <2>2 DEF IsrErrors, ReadSR
<1>6. CASE IsrClear
  <2>1. FaultsGoWithByte
    BY <1>6 DEF IsrClear, ClearErrors, driver, HandlerOnly
  <2> QED BY <1>6, <2>1 DEF IsrClear, ClearErrors, ReadDR
<1>7. CASE IsrDecide
  <2>1. FaultsGoWithByte
    BY <1>7 DEF IsrDecide, driver, HandlerOnly
  <2> QED BY <1>7, <2>1 DEF IsrDecide, ReadSR
<1>8. CASE IsrReceive
  <2>1. \A c \in ErrorCounters : stats_'[c] = stats_[c]
    BY <1>1, <1>8, OtherBumps DEF IsrReceive
  <2>2. FaultsGoWithByte
    BY <2>1 DEF ErrorCounters, HandlerOnly
  <2> QED BY <1>8, <2>2 DEF IsrReceive, ReadDR
<1> QED BY <1>1, <1>3, <1>4, <1>5, <1>6, <1>7, <1>8, HandlerSteps

LEMMA ErrorCallsGrow ==
    TypeOK /\ [Next]_vars => errorCalls' = errorCalls \/ errorCalls' > 0
<1> SUFFICES ASSUME TypeOK, [Next]_vars
             PROVE  errorCalls' = errorCalls \/ errorCalls' > 0
  OBVIOUS
<1>1. errorCalls \in Nat
  BY UartAssumption DEF TypeOK, HistoryTypeOK
<1>2. CASE CallBegins
  BY <1>1, <1>2 DEF CallBegins, InitCall, SendCall, FlushCall, ReceiveCall,
     ErrorsCall, history
<1>3. CASE CallGoesOn
  BY <1>3 DEF CallGoesOn, ConfigureUsart, ConfigureNvic, Register, InitDone,
     SendRefused, SendPush, KickLoad, KickStore, FlushDrain, FlushTc,
     FlushTrue, ReceivePop, ReceiveEmpty, TimeTest, ReturnFalse, CountLoad,
     CountStore, ErrorsClear, ClearErrors, history
<1>4. CASE Isr
  BY <1>4 DEF Isr, IsrEnter, IsrUnregistered, IsrErrors, IsrClear, IsrDecide,
     IsrReceive, IsrPop, IsrWrite, IsrDrained, IsrReturn, ClearErrors, history
<1>5. CASE SysTick \/ Shift \/ (\E bad \in LineFaults : Line(bad))
           \/ UNCHANGED vars
  BY <1>5 DEF SysTick, Shift, Line, vars, history
<1> QED BY <1>2, <1>3, <1>4, <1>5 DEF Next

LEMMA AlwaysHandlerOnly == Spec => []HandlerOnly
<1>1. Init => HandlerOnly
  BY DEF Init, UsartInit, HandlerOnly, NoErrorCall, CountedFirst, ErrorTotal,
     Counters, FaultsGoWithByte, FaultFlags
<1>2. IInv /\ HandlerOnly /\ [Next]_vars => HandlerOnly'
  <2> SUFFICES ASSUME IInv, HandlerOnly, [Next]_vars, errorCalls' = 0
               PROVE  /\ NoErrorCall' /\ CountedFirst'
                      /\ stats_["overrun_errors"]' = 0 => FaultsGoWithByte'
    BY DEF HandlerOnly
  <2>1. TypeOK /\ errorCalls = 0
    BY ErrorCallsGrow DEF IInv
  <2>2. NoErrorCall'
    BY <2>1, HandlerSteps DEF HandlerOnly
  <2>3. CountedFirst'
    BY <2>1, NextCountedFirst
  <2>4. stats_["overrun_errors"]' = 0 => FaultsGoWithByte'
    BY <2>1, NextFaultsGoWithByte
  <2> QED BY <2>2, <2>3, <2>4
<1> QED BY <1>1, <1>2, AlwaysIInv, PTL DEF Spec

(* As long as main makes no call of get_and_clear_errors(), every frame    *)
(* discarded with an error shows in a counter (when it does make them, not *)
(* always: the run uart_lost_count).                                       *)
THEOREM HandlerCountsEveryLoss == Spec => []HandlerAccounts
<1>1. TypeOK /\ HandlerOnly => HandlerAccounts
  <2> SUFFICES ASSUME TypeOK, HandlerOnly, errorCalls = 0 PROVE RxAccounted
    BY DEF HandlerAccounts
  <2>1. cleared \in Nat /\ ErrorTotal \in Nat
    BY ErrorNumbers
  <2>2. cleared <= ErrorTotal
    BY <2>1 DEF HandlerOnly, CountedFirst
  <2> QED BY <2>2 DEF RxAccounted, ErrorTotal
<1>2. IInv => TypeOK
  BY DEF IInv
<1> QED BY <1>1, <1>2, AlwaysHandlerOnly, AlwaysIInv, PTL

(* And it is only after an overrun that an intact byte falls victim to the *)
(* handler's clearing of errors.                                           *)
THEOREM IntactLostOnlyToOverrun == Spec => []IntactLostAfterOverrun
<1>1. TypeOK /\ HandlerOnly => IntactLostAfterOverrun
  <2> SUFFICES ASSUME TypeOK, HandlerOnly, isr = "clear", rdr.bad = {},
                      errorCalls = 0
               PROVE  stats_["overrun_errors"] > 0
    BY DEF IntactLostAfterOverrun
  <2>1. stats_["overrun_errors"] \in Nat
    BY ErrorNumbers DEF ErrorCounters
  <2>2. stats_["overrun_errors"] # 0
    BY DEF HandlerOnly, FaultsGoWithByte
  <2> QED BY <2>1, <2>2
<1>2. IInv => TypeOK
  BY DEF IInv
<1> QED BY <1>1, <1>2, AlwaysHandlerOnly, AlwaysIInv, PTL

-----------------------------------------------------------------------------
(* The queue of bytes to be sent *)

TxQueue == shift \o tdr \o ibyte \o tx_buf_

(* A sequence of ordinals divides into one from 1 and one that follows. *)
LEMMA OrdinalsSplit ==
    \A w, q \in Seq(Nat), n \in Nat : w \o q = Ordinals(n) =>
      /\ Len(w) + Len(q) = n /\ w = Ordinals(Len(w))
      /\ q = [k \in 1..n - Len(w) |-> Len(w) + k]
<1> SUFFICES ASSUME NEW w \in Seq(Nat), NEW q \in Seq(Nat), NEW n \in Nat,
                    w \o q = Ordinals(n)
             PROVE  /\ Len(w) + Len(q) = n /\ w = Ordinals(Len(w))
                    /\ q = [k \in 1..n - Len(w) |-> Len(w) + k]
  OBVIOUS
<1>1. /\ Len(w) \in Nat /\ Len(q) \in Nat /\ Len(w \o q) = Len(w) + Len(q)
      /\ w = [k \in 1..Len(w) |-> w[k]] /\ q = [k \in 1..Len(q) |-> q[k]]
      /\ \A i \in 1..Len(w) + Len(q) :
           (w \o q)[i] = IF i <= Len(w) THEN w[i] ELSE q[i - Len(w)]
  BY ConcatProperties, LenProperties
<1>2. Len(Ordinals(n)) = n /\ \A i \in 1..n : Ordinals(n)[i] = i
  BY DEF Ordinals
<1>3. Len(w) + Len(q) = n
  BY <1>1, <1>2
<1>4. ASSUME NEW k \in 1..Len(w) PROVE w[k] = k
  BY <1>1, <1>2, <1>3
<1>5. ASSUME NEW k \in 1..Len(q) PROVE q[k] = Len(w) + k
  <2> DEFINE i == Len(w) + k
  <2>1. i \in 1..n /\ ~(i <= Len(w)) /\ i - Len(w) = k
    BY <1>1, <1>3
  <2> HIDE DEF i
  <2>2. (w \o q)[i] = q[k]
    BY <1>1, <1>3, <2>1
  <2>3. Ordinals(n)[i] = i
    BY <1>2, <2>1
  <2> QED BY <2>2, <2>3 DEF i
<1>6. w = Ordinals(Len(w))
  BY <1>1, <1>4 DEF Ordinals
<1>7. q = [k \in 1..Len(q) |-> Len(w) + k]
  BY <1>1, <1>5
<1> QED BY <1>1, <1>3, <1>6, <1>7

LEMMA ConcatFive ==
    \A a, b, c, d, e \in Seq(Nat) :
      a \o (b \o c \o d \o e) = a \o b \o c \o d \o e
<1> SUFFICES ASSUME NEW a \in Seq(Nat), NEW b \in Seq(Nat), NEW c \in Seq(Nat),
                    NEW d \in Seq(Nat), NEW e \in Seq(Nat)
             PROVE  a \o (b \o c \o d \o e) = a \o b \o c \o d \o e
  OBVIOUS
<1>1. \A t, u \in Seq(Nat) : (a \o t) \o u = a \o (t \o u)
  BY ConcatAssoc
<1>2. b \o c \in Seq(Nat)
  BY Concats
<1>3. (b \o c) \o d \in Seq(Nat)
  BY <1>2, Concats
<1>4. (a \o b) \o c = a \o (b \o c)
  BY <1>1
<1>5. (a \o (b \o c)) \o d = a \o ((b \o c) \o d)
  BY <1>1, <1>2
<1>6. (a \o ((b \o c) \o d)) \o e = a \o (((b \o c) \o d) \o e)
  BY <1>1, <1>3
<1> QED BY <1>4, <1>5, <1>6

(* Bytes wait from the first that has not left the pin to the last one     *)
(* accepted: what the queue holds is a function of those two.              *)
Queued == /\ wire \in Seq(Nat) /\ Len(wire) \in Nat /\ accepted \in Nat
          /\ Len(wire) + Len(TxQueue) = accepted /\ TxQueue \in Seq(Nat)
          /\ wire = Ordinals(Len(wire))
          /\ TxQueue = [k \in 1..accepted - Len(wire) |-> Len(wire) + k]

LEMMA IInvQueued == IInv => Queued
<1> SUFFICES ASSUME IInv PROVE Queued
  OBVIOUS
<1>1. /\ wire \in Seq(Nat) /\ shift \in Seq(Nat) /\ tdr \in Seq(Nat)
      /\ ibyte \in Seq(Nat) /\ tx_buf_ \in Seq(Nat) /\ accepted \in Nat
  BY DEF IInv, TypeOK, UsartTypeOK, DriverTypeOK, IsrTypeOK, HistoryTypeOK
<1>2. TxQueue \in Seq(Nat) /\ Len(wire) \in Nat
  BY <1>1, Concats, Lengths DEF TxQueue
<1>3. wire \o TxQueue = wire \o shift \o tdr \o ibyte \o tx_buf_
  <2>1. \A b, c, d, e \in Seq(Nat) :
          wire \o (b \o c \o d \o e) = wire \o b \o c \o d \o e
    BY <1>1, ConcatFive
  <2>2. \A d, e \in Seq(Nat) :
          wire \o (shift \o tdr \o d \o e) = wire \o shift \o tdr \o d \o e
    BY <1>1, <2>1
  <2> QED BY <1>1, <2>2 DEF TxQueue
<1>4. wire \o TxQueue = Ordinals(accepted)
  BY <1>3 DEF IInv, TxInOrder, Ordinals
<1>5. \A q \in Seq(Nat), n \in Nat : wire \o q = Ordinals(n) =>
        /\ Len(wire) + Len(q) = n /\ wire = Ordinals(Len(wire))
        /\ q = [k \in 1..n - Len(wire) |-> Len(wire) + k]
  BY <1>1, OrdinalsSplit
<1>6. \A q \in Seq(Nat) : wire \o q = Ordinals(accepted) =>
        /\ Len(wire) + Len(q) = accepted /\ wire = Ordinals(Len(wire))
        /\ q = [k \in 1..accepted - Len(wire) |-> Len(wire) + k]
  BY <1>1, <1>5
<1>7. /\ Len(wire) + Len(TxQueue) = accepted /\ wire = Ordinals(Len(wire))
      /\ TxQueue = [k \in 1..accepted - Len(wire) |-> Len(wire) + k]
  BY <1>2, <1>4, <1>6
<1> QED BY <1>1, <1>2, <1>7 DEF Queued

(* The three things that can happen to bytes to be sent. *)
NothingSent == UNCHANGED <<accepted, wire>>
ByteAccepted == /\ initialized_ /\ Len(tx_buf_) < Capacity /\ isr = "none"
                /\ accepted' = accepted + 1 /\ UNCHANGED wire
ByteSent == /\ shift # <<>> /\ wire' = wire \o shift
            /\ UNCHANGED accepted

(* main receives only after init(). *)
OpenFirst == pc \in {"pop", "pop_time"} => initialized_

TxStep == NothingSent \/ ByteAccepted \/ ByteSent

LEMMA TxSteps == [Next]_vars => TxStep
<1> SUFFICES ASSUME [Next]_vars PROVE TxStep
  OBVIOUS
<1> USE DEF TxStep
<1>1. CASE CallBegins
  BY <1>1 DEF CallBegins, InitCall, SendCall, FlushCall, ReceiveCall,
     ErrorsCall, NothingSent, usartVars, history
<1>2. CASE SendPush
  BY <1>2 DEF SendPush, At, ByteAccepted, usartVars
<1>3. CASE CallGoesOn /\ ~SendPush
  BY <1>3 DEF CallGoesOn, ConfigureUsart, ConfigureNvic, Register, InitDone,
     SendRefused, KickLoad, KickStore, FlushDrain, FlushTc, FlushTrue,
     ReceivePop, ReceiveEmpty, TimeTest, ReturnFalse, CountLoad, CountStore,
     ErrorsClear, ClearErrors, NothingSent, usartVars, history
<1>4. CASE Isr
  BY <1>4 DEF Isr, IsrEnter, IsrUnregistered, IsrErrors, IsrClear, IsrDecide,
     IsrReceive, IsrPop, IsrWrite, IsrDrained, IsrReturn, ClearErrors,
     NothingSent, usartVars, history
<1>5. CASE SysTick \/ UNCHANGED vars
  BY <1>5 DEF SysTick, vars, NothingSent, usartVars, history
<1>6. CASE Shift
  BY <1>6 DEF Shift, ShiftLoad, ShiftDone, NothingSent, ByteSent, history
<1>7. CASE \E bad \in LineFaults : Line(bad)
  BY <1>7 DEF Line, LineFrame, NothingSent, history
<1> QED BY <1>1, <1>2, <1>3, <1>4, <1>5, <1>6, <1>7 DEF Next

-----------------------------------------------------------------------------
(* Uart implements SerialPort *)

LEMMA NextOpenFirst == OpenFirst /\ [Next]_vars => OpenFirst'
<1> SUFFICES ASSUME OpenFirst, [Next]_vars PROVE OpenFirst'
  OBVIOUS
<1> USE DEF OpenFirst, Goto, Return, At
<1>1. CASE CallBegins
  BY <1>1 DEF CallBegins, InitCall, SendCall, FlushCall, ReceiveCall,
     StartWait, ErrorsCall, driver
<1>2. CASE CallGoesOn
  BY <1>2 DEF CallGoesOn, ConfigureUsart, ConfigureNvic, Register, InitDone,
     SendRefused, SendPush, KickLoad, KickStore, FlushDrain, FlushTc,
     FlushTrue, ReceivePop, ReceiveEmpty, TimeTest, ReturnFalse, CountLoad,
     CountStore, ErrorsClear, ClearErrors, driver
<1>3. CASE Isr
  BY <1>3 DEF Isr, IsrEnter, IsrUnregistered, IsrErrors, IsrClear, IsrDecide,
     IsrReceive, IsrPop, IsrWrite, IsrDrained, IsrReturn, ClearErrors,
     mainVars, driver
<1>4. CASE SysTick \/ Shift \/ (\E bad \in LineFaults : Line(bad))
           \/ UNCHANGED vars
  BY <1>4 DEF SysTick, Shift, Line, vars, mainVars, driver
<1> QED BY <1>1, <1>2, <1>3, <1>4 DEF Next

(* initialized_ changes once, and with nothing else that the user sees.    *)
OpenStep == \/ UNCHANGED initialized_
            \/ /\ initialized_' = TRUE
               /\ UNCHANGED <<accepted, wire, got, rx_buf_>>

LEMMA OpenSteps == [Next]_vars => OpenStep
<1> SUFFICES ASSUME [Next]_vars PROVE OpenStep
  OBVIOUS
<1> USE DEF OpenStep
<1>1. CASE CallBegins
  BY <1>1 DEF CallBegins, InitCall, SendCall, FlushCall, ReceiveCall,
     ErrorsCall, driver
<1>2. CASE CallGoesOn
  BY <1>2 DEF CallGoesOn, ConfigureUsart, ConfigureNvic, Register, InitDone,
     SendRefused, SendPush, KickLoad, KickStore, FlushDrain, FlushTc,
     FlushTrue, ReceivePop, ReceiveEmpty, TimeTest, ReturnFalse, CountLoad,
     CountStore, ErrorsClear, ClearErrors, driver, usartVars, history
<1>3. CASE Isr
  BY <1>3 DEF Isr, IsrEnter, IsrUnregistered, IsrErrors, IsrClear, IsrDecide,
     IsrReceive, IsrPop, IsrWrite, IsrDrained, IsrReturn, ClearErrors, driver
<1>4. CASE SysTick \/ Shift \/ (\E bad \in LineFaults : Line(bad))
           \/ UNCHANGED vars
  BY <1>4 DEF SysTick, Shift, Line, vars, driver
<1> QED BY <1>1, <1>2, <1>3, <1>4 DEF Next

(* No step is seen from both sides at once. *)
OneSide == \/ UNCHANGED <<accepted, wire>>
           \/ UNCHANGED <<got, rx_buf_, initialized_>>

LEMMA OneSides == [Next]_vars => OneSide
<1> SUFFICES ASSUME [Next]_vars PROVE OneSide
  OBVIOUS
<1> USE DEF OneSide
<1>1. CASE CallBegins
  BY <1>1 DEF CallBegins, InitCall, SendCall, FlushCall, ReceiveCall,
     ErrorsCall, driver, usartVars, history
<1>2. CASE CallGoesOn
  BY <1>2 DEF CallGoesOn, ConfigureUsart, ConfigureNvic, Register, InitDone,
     SendRefused, SendPush, KickLoad, KickStore, FlushDrain, FlushTc,
     FlushTrue, ReceivePop, ReceiveEmpty, TimeTest, ReturnFalse, CountLoad,
     CountStore, ErrorsClear, ClearErrors, driver, usartVars, history
<1>3. CASE Isr
  BY <1>3 DEF Isr, IsrEnter, IsrUnregistered, IsrErrors, IsrClear, IsrDecide,
     IsrReceive, IsrPop, IsrWrite, IsrDrained, IsrReturn, ClearErrors,
     usartVars, history
<1>4. CASE SysTick \/ Shift \/ (\E bad \in LineFaults : Line(bad))
           \/ UNCHANGED vars
  BY <1>4 DEF SysTick, Shift, Line, vars, driver, history, usartVars
<1> QED BY <1>1, <1>2, <1>3, <1>4 DEF Next

LEMMA InitPort == Init => Port!Init
<1> SUFFICES ASSUME Init PROVE Port!Init
  OBVIOUS
<1>1. shift \o tdr \o ibyte \o tx_buf_ = <<>>
  BY EmptySeqs, ConcatEmpty DEF Init, UsartInit
<1> QED BY <1>1 DEF Init, UsartInit, Port!Init

(* What the port's variables are. *)
PortStutters == UNCHANGED <<initialized_, TxQueue, wire, rx_buf_, got>>

(* Bytes w+1 to n wait. *)
QueueOf(w, n) == [k \in 1..n - w |-> w + k]

LEMMA QueueLaws ==
    ASSUME NEW w \in Nat, NEW n \in Nat, w <= n
    PROVE  /\ QueueOf(w, n) \in Seq(Nat) /\ Len(QueueOf(w, n)) = n - w
           /\ \A i \in 1..n - w : QueueOf(w, n)[i] = w + i
<1>1. n - w \in Nat
  OBVIOUS
<1> DEFINE d == n - w
<1> HIDE DEF d
<1>2. \A i \in 1..d : w + i \in Nat
  OBVIOUS
<1>3. /\ [k \in 1..d |-> w + k] \in Seq(Nat)
      /\ Len([k \in 1..d |-> w + k]) = d
      /\ \A i \in 1..d : [k \in 1..d |-> w + k][i] = w + i
  BY <1>1, <1>2 DEF d
<1> QED BY <1>3 DEF QueueOf, d

LEMMA QueueGrows ==
    ASSUME NEW w \in Nat, NEW n \in Nat, w <= n
    PROVE  QueueOf(w, n + 1) = Append(QueueOf(w, n), n + 1)
<1> DEFINE q == QueueOf(w, n)
           r == QueueOf(w, n + 1)
           a == Append(q, n + 1)
<1>1. /\ q \in Seq(Nat) /\ Len(q) = n - w
      /\ \A i \in 1..n - w : q[i] = w + i
  BY QueueLaws
<1>2. /\ r \in Seq(Nat) /\ Len(r) = n + 1 - w
      /\ \A i \in 1..n + 1 - w : r[i] = w + i
  BY QueueLaws
<1> HIDE DEF q, r
<1>3. /\ a \in Seq(Nat) /\ Len(a) = n - w + 1
      /\ \A i \in 1..n - w : a[i] = q[i]
      /\ a[n - w + 1] = n + 1
  BY <1>1, AppendProperties
<1> HIDE DEF a
<1>4. ASSUME NEW i \in 1..Len(r) PROVE r[i] = a[i]
  <2>1. i \in 1..n + 1 - w /\ r[i] = w + i
    BY <1>2
  <2>2. CASE i \in 1..n - w
    BY <1>1, <1>3, <2>1, <2>2
  <2>3. CASE i = n - w + 1
    BY <1>3, <2>1, <2>3
  <2> QED BY <2>1, <2>2, <2>3
<1>5. Len(r) = Len(a)
  BY <1>2, <1>3
<1>6. r = a
  BY <1>2, <1>3, <1>4, <1>5, SeqEqual
<1> QED BY <1>6 DEF a, r, q

LEMMA QueueShrinks ==
    ASSUME NEW w \in Nat, NEW n \in Nat, w < n
    PROVE  /\ QueueOf(w, n) # <<>> /\ Head(QueueOf(w, n)) = w + 1
           /\ QueueOf(w + 1, n) = Tail(QueueOf(w, n))
<1> DEFINE q == QueueOf(w, n)
           r == QueueOf(w + 1, n)
           t == Tail(q)
<1>1. /\ q \in Seq(Nat) /\ Len(q) = n - w
      /\ \A i \in 1..n - w : q[i] = w + i
  BY QueueLaws
<1>2. /\ r \in Seq(Nat) /\ Len(r) = n - (w + 1)
      /\ \A i \in 1..n - (w + 1) : r[i] = (w + 1) + i
  <2>1. w + 1 \in Nat /\ w + 1 <= n
    OBVIOUS
  <2> QED BY <2>1, QueueLaws
<1> HIDE DEF q, r
<1>3. q # <<>>
  BY <1>1, EmptySeqs
<1>4. /\ Head(q) = q[1] /\ t \in Seq(Nat) /\ Len(t) = n - w - 1
      /\ \A i \in 1..n - w - 1 : t[i] = q[i + 1]
  BY <1>1, <1>3, HeadTailProperties
<1> HIDE DEF t
<1>5. ASSUME NEW i \in 1..Len(r) PROVE r[i] = t[i]
  <2>1. i \in 1..n - w - 1 /\ r[i] = (w + 1) + i
    BY <1>2
  <2>2. i + 1 \in 1..n - w /\ t[i] = q[i + 1]
    BY <1>4, <2>1
  <2>3. q[i + 1] = w + (i + 1)
    BY <1>1, <2>2
  <2> QED BY <2>1, <2>2, <2>3
<1>6. r = t
  BY <1>2, <1>4, <1>5, SeqEqual
<1>7. Head(q) = w + 1
  BY <1>1, <1>4
<1> QED BY <1>3, <1>6, <1>7 DEF q, r, t

LEMMA QueueSteps ==
    ASSUME Queued, Queued'
    PROVE  /\ NothingSent => TxQueue' = TxQueue
           /\ ByteAccepted =>
                TxQueue' = Append(TxQueue, Len(wire) + Len(TxQueue) + 1)
           /\ Len(wire') = Len(wire) + 1 /\ accepted' = accepted =>
                /\ TxQueue # <<>> /\ TxQueue' = Tail(TxQueue)
                /\ wire' = Append(wire, Head(TxQueue))
<1>0. /\ Len(wire) \in Nat /\ accepted \in Nat /\ Len(wire) <= accepted
      /\ Len(wire) + Len(TxQueue) = accepted
      /\ TxQueue = QueueOf(Len(wire), accepted)
      /\ wire = Ordinals(Len(wire))
  <2>1. /\ Len(wire) \in Nat /\ accepted \in Nat /\ TxQueue \in Seq(Nat)
        /\ Len(wire) + Len(TxQueue) = accepted
    BY DEF Queued
  <2>2. Len(TxQueue) \in Nat
    BY <2>1, LenProperties
  <2>3. Len(wire) <= accepted
    BY <2>1, <2>2
  <2>4. /\ wire = Ordinals(Len(wire))
        /\ TxQueue = QueueOf(Len(wire), accepted)
    BY DEF Queued, QueueOf
  <2> QED BY <2>1, <2>3, <2>4
<1>1. /\ Len(wire') \in Nat /\ accepted' \in Nat
      /\ TxQueue' = QueueOf(Len(wire'), accepted')
      /\ wire' = Ordinals(Len(wire'))
  BY DEF Queued, QueueOf
<1>2. Len(wire') = Len(wire) + 1 /\ accepted' = accepted
        => Len(wire) < accepted
  <2>1. Len(wire') + Len(TxQueue') = accepted' /\ Len(TxQueue') \in Nat
    <3>1. Len(wire') + Len(TxQueue') = accepted' /\ TxQueue' \in Seq(Nat)
      BY DEF Queued
    <3> QED BY <3>1, LenProperties
  <2> QED BY <1>0, <2>1
<1> DEFINE w == Len(wire)
           n == accepted
<1>3. w \in Nat /\ n \in Nat /\ w <= n
  BY <1>0
<1>4. ASSUME NothingSent PROVE TxQueue' = TxQueue
  BY <1>0, <1>1, <1>4 DEF NothingSent
<1>5. ASSUME ByteAccepted
      PROVE  TxQueue' = Append(TxQueue, Len(wire) + Len(TxQueue) + 1)
  <2>1. TxQueue' = QueueOf(w, n + 1)
    BY <1>1, <1>5 DEF ByteAccepted
  <2>2. TxQueue = QueueOf(w, n) /\ Len(wire) + Len(TxQueue) = n
    BY <1>0
  <2> HIDE DEF w, n
  <2>3. QueueOf(w, n + 1) = Append(QueueOf(w, n), n + 1)
    BY <1>3, QueueGrows
  <2> QED BY <2>1, <2>2, <2>3
<1>6. ASSUME Len(wire') = Len(wire) + 1, accepted' = accepted
      PROVE  /\ TxQueue # <<>> /\ TxQueue' = Tail(TxQueue)
             /\ wire' = Append(wire, Head(TxQueue))
  <2>1. TxQueue' = QueueOf(w + 1, n) /\ TxQueue = QueueOf(w, n)
    BY <1>0, <1>1, <1>6
  <2>2. w < n
    BY <1>2, <1>6
  <2>3. wire = Ordinals(w) /\ wire' = Ordinals(w + 1)
    BY <1>0, <1>1, <1>6
  <2> HIDE DEF w, n
  <2>4. /\ QueueOf(w, n) # <<>> /\ Head(QueueOf(w, n)) = w + 1
        /\ QueueOf(w + 1, n) = Tail(QueueOf(w, n))
    BY <1>3, <2>2, QueueShrinks
  <2>5. Ordinals(w + 1) = Append(Ordinals(w), w + 1)
    BY <1>3, OrdinalsGrow
  <2> QED BY <2>1, <2>3, <2>4, <2>5
<1> QED BY <1>4, <1>5, <1>6

LEMMA NextPort ==
    IInv /\ IInv' /\ RxAhead /\ OpenFirst /\ [Next]_vars
      => [Port!Next]_Port!vars
<1> SUFFICES ASSUME IInv, IInv', RxAhead, OpenFirst, [Next]_vars
             PROVE  Port!Next \/ PortStutters
  BY DEF PortStutters, Port!vars, TxQueue
<1> USE DEF Port!Next
<1>0. Queued /\ Queued' /\ TypeOK
  <2>1. Queued /\ TypeOK
    BY IInvQueued DEF IInv
  <2>2. Queued'
    BY IInvQueued, PTL
  <2> QED BY <2>1, <2>2
<1>1. TxStep /\ RxStep /\ OpenStep /\ OneSide
  BY TxSteps, RxSteps, OpenSteps, OneSides
<1>2. /\ initialized_ \in BOOLEAN /\ rdr \in Frame /\ accepted \in Nat
      /\ Len(shift) \in Nat /\ Len(shift) <= 1 /\ shift \in Seq(Nat)
      /\ wire \in Seq(Nat) /\ Len(wire) \in Nat
  BY <1>0, Lengths
     DEF TypeOK, DriverTypeOK, UsartTypeOK, HistoryTypeOK, Queued
<1>3. CASE initialized_' # initialized_
  <2>1. /\ ~initialized_ /\ initialized_' = TRUE
        /\ UNCHANGED <<accepted, wire, got, rx_buf_>>
    BY <1>1, <1>2, <1>3 DEF OpenStep
  <2>2. TxQueue' = TxQueue
    BY <1>0, <2>1, QueueSteps DEF NothingSent
  <2> QED BY <2>1, <2>2 DEF Port!Open, TxQueue
<1>4. CASE UNCHANGED initialized_ /\ NothingSent
  <2>1. TxQueue' = TxQueue /\ wire' = wire
    BY <1>0, <1>4, QueueSteps DEF NothingSent
  <2>2. CASE NothingReceived
    BY <1>4, <2>1, <2>2 DEF NothingReceived, PortStutters
  <2>3. CASE FrameTaken
    <3>1. Port!Newer(rdr)
      BY <2>3 DEF FrameTaken, RxAhead, Below, Delivered, Port!Newer
    <3>2. Port!Take(rdr)
      BY <1>4, <2>1, <2>3, <3>1
         DEF FrameTaken, Port!Take, Capacity, TxQueue
    <3> QED BY <1>2, <3>2
  <2>4. CASE FrameReturned
    <3>1. Port!Receive
      BY <1>4, <2>1, <2>4 DEF FrameReturned, OpenFirst, Port!Receive, TxQueue
    <3> QED BY <3>1
  <2> QED BY <1>1, <2>2, <2>3, <2>4 DEF RxStep
<1>5. CASE UNCHANGED initialized_ /\ ByteAccepted
  <2>1. UNCHANGED <<got, rx_buf_>>
    BY <1>1, <1>2, <1>5 DEF ByteAccepted, OneSide
  <2>2. TxQueue' = Append(TxQueue, Len(wire) + Len(TxQueue) + 1)
    BY <1>0, <1>5, QueueSteps
  <2>3. Len(TxQueue) < N + 1
    <3>1. /\ shift \in Seq(Nat) /\ tdr \in Seq(Nat) /\ ibyte \in Seq(Nat)
          /\ tx_buf_ \in Seq(Nat) /\ Len(shift) <= 1 /\ Len(tdr) <= 1
          /\ ibyte = <<>> /\ Len(tx_buf_) < N - 1
      BY <1>0, <1>5 DEF TypeOK, UsartTypeOK, DriverTypeOK, IsrTypeOK,
         ByteAccepted, Capacity
    <3>2. \A s, t \in Seq(Nat) : /\ s \o t \in Seq(Nat)
                                 /\ Len(s \o t) = Len(s) + Len(t)
      BY ConcatProperties
    <3>3. shift \o tdr \in Seq(Nat) /\ Len(shift \o tdr) <= 2
      BY <3>1, <3>2, Lengths
    <3>4. shift \o tdr \o ibyte = shift \o tdr
      BY <3>1, <3>3, ConcatEmpty
    <3>5. Len(TxQueue) = Len(shift \o tdr) + Len(tx_buf_)
      BY <3>1, <3>2, <3>3, <3>4 DEF TxQueue
    <3> QED BY <3>1, <3>3, <3>5, Lengths, UartAssumption
  <2>4. Port!Accept
    BY <1>5, <2>1, <2>2, <2>3 DEF ByteAccepted, Port!Accept, TxQueue
  <2> QED BY <2>4
<1>6. CASE UNCHANGED initialized_ /\ ByteSent
  <2>1. Len(shift) = 1
    <3>1. Len(shift) > 0
      <4>1. shift # <<>>
        BY <1>6 DEF ByteSent
      <4> QED BY <1>2, <4>1, Lengths
    <3> DEFINE n == Len(shift)
    <3>2. n \in Nat /\ n <= 1 /\ n > 0
      BY <1>2, <3>1
    <3> HIDE DEF n
    <3>3. n = 1
      BY <3>2
    <3> QED BY <3>3 DEF n
  <2>2. Len(wire') = Len(wire) + 1 /\ accepted' = accepted
    <3>1. Len(wire \o shift) = Len(wire) + Len(shift)
      BY <1>2, ConcatProperties
    <3> QED BY <1>6, <2>1, <3>1 DEF ByteSent
  <2>3. wire' # wire
    BY <1>2, <2>2
  <2>4. UNCHANGED <<got, rx_buf_>>
    BY <1>1, <2>3 DEF OneSide
  <2>5. /\ TxQueue # <<>> /\ TxQueue' = Tail(TxQueue)
        /\ wire' = Append(wire, Head(TxQueue))
    BY <1>0, <2>2, QueueSteps
  <2>6. Port!Transmit
    BY <1>6, <2>4, <2>5 DEF Port!Transmit, TxQueue
  <2> QED BY <2>6
<1> QED BY <1>1, <1>3, <1>4, <1>5, <1>6 DEF TxStep

(* To its user the driver is a pair of queues, for every ring size, every  *)
(* interleaving of main, handler, line and shift register, and all calls.  *)
THEOREM UartImplementsPort == Spec => ImplementsPort
<1>1. Init => OpenFirst
  BY DEF Init, OpenFirst
<1>2. Spec => []OpenFirst
  BY <1>1, NextOpenFirst, PTL DEF Spec
<1> QED BY <1>2, InitPort, NextPort, AlwaysIInv, AlwaysRxAhead, PTL
        DEF Spec, ImplementsPort, Port!Spec
=============================================================================
