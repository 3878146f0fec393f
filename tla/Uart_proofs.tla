---------------------------- MODULE Uart_proofs ----------------------------
(***************************************************************************)
(* What holds of Uart for every ring size, counter width, line behaviour   *)
(* and choice of calls.                                                    *)
(***************************************************************************)
EXTENDS Uart, SequenceTheorems, TLAPS

-----------------------------------------------------------------------------
(* Types *)

(* The sequences of the model are of bytes (numbers) or of frames.         *)
LEMMA EmptySeqs == <<>> \in Seq(Nat) /\ <<>> \in Seq(Frame) /\ Len(<<>>) = 0
BY EmptySeq

LEMMA Singletons == \A b \in Nat : /\ <<b>> \in Seq(Nat) /\ Len(<<b>>) = 1
                                   /\ <<b>> # <<>> /\ <<b>>[1] = b
<1> TAKE b \in Nat
<1>1. <<b>> \in Seq(Nat) /\ Len(<<b>>) = 1 /\ <<b>>[1] = b
  OBVIOUS
<1>2. <<b>> # <<>>
  BY <1>1, EmptySeqs
<1> QED BY <1>1, <1>2

LEMMA Appends ==
    /\ \A s \in Seq(Nat), b \in Nat :
         Append(s, b) \in Seq(Nat) /\ Len(Append(s, b)) = Len(s) + 1
    /\ \A s \in Seq(Frame), f \in Frame :
         Append(s, f) \in Seq(Frame) /\ Len(Append(s, f)) = Len(s) + 1
BY AppendProperties

LEMMA HeadTails ==
    /\ \A s \in Seq(Nat) : s # <<>> =>
         Head(s) \in Nat /\ Tail(s) \in Seq(Nat) /\ Len(Tail(s)) = Len(s) - 1
    /\ \A s \in Seq(Frame) : s # <<>> =>
         Head(s) \in Frame /\ Tail(s) \in Seq(Frame)
         /\ Len(Tail(s)) = Len(s) - 1
BY HeadTailProperties

LEMMA Lengths == /\ \A s \in Seq(Nat) : /\ Len(s) \in Nat
                                         /\ s # <<>> => Len(s) > 0
                 /\ \A s \in Seq(Frame) : /\ Len(s) \in Nat
                                           /\ s # <<>> => Len(s) > 0
<1>1. ASSUME NEW S, NEW s \in Seq(S)
      PROVE  Len(s) \in Nat /\ (s # <<>> => Len(s) > 0)
  BY EmptySeq, LenProperties
<1> QED BY <1>1

LEMMA BumpType == \A s \in [Counters -> Nat], c \in Counters :
                      /\ Bump(s, c) \in [Counters -> Nat]
                      /\ Bump(s, c)[c] = s[c] + 1
                      /\ \A d \in Counters \ {c} : Bump(s, c)[d] = s[d]
BY DEF Bump

LEMMA CounterOfType == \A f \in Flags : CounterOf[f] \in Counters
BY DEF Flags, CounterOf, Counters

LEMMA InitTypeOK == Init => TypeOK
<1> SUFFICES ASSUME Init PROVE TypeOK
  OBVIOUS
<1> USE UartAssumption DEF Init
<1>1. UsartTypeOK
  <2>1. rdr \in Frame
    BY DEF UsartInit, Frame, Flags
  <2>2. tdr \in Seq(Nat) /\ shift \in Seq(Nat) /\ wire \in Seq(Nat)
    BY EmptySeqs DEF UsartInit
  <2>3. Len(tdr) <= 1 /\ Len(shift) <= 1
    BY EmptySeqs DEF UsartInit
  <2>4. frames \in 0..MaxFrames /\ loaded \in 0..frames
    BY DEF UsartInit
  <2>5. /\ cr1 \subseteq {"UE", "RXNEIE", "TXEIE"} /\ rxne \in BOOLEAN
        /\ err \subseteq Flags /\ seen \subseteq Flags /\ tc \in BOOLEAN
    BY DEF UsartInit
  <2> QED BY <2>1, <2>2, <2>3, <2>4, <2>5 DEF UsartTypeOK
<1>2. DriverTypeOK
  <2>1. tx_buf_ \in Seq(Nat) /\ rx_buf_ \in Seq(Frame)
    BY EmptySeqs
  <2>2. Len(tx_buf_) <= Capacity /\ Len(rx_buf_) <= Capacity
    BY EmptySeqs DEF Capacity
  <2> QED BY <2>1, <2>2 DEF DriverTypeOK
<1>3. TimeTypeOK /\ MainTypeOK
  BY DEF TimeTypeOK, MainTypeOK, NoLocals, Labels, Flags
<1>4. IsrTypeOK /\ HistoryTypeOK
  <2>1. ibyte \in Seq(Nat) /\ got \in Seq(Frame)
    BY EmptySeqs
  <2>2. Len(ibyte) <= 1
    BY EmptySeqs
  <2>3. isr = "write" <=> ibyte # <<>>
    OBVIOUS
  <2>4. isr \in IsrLabels /\ ierr \subseteq Flags /\ itx \in BOOLEAN
    BY DEF IsrLabels
  <2> QED BY <2>1, <2>2, <2>3, <2>4 DEF IsrTypeOK, HistoryTypeOK
<1> QED BY <1>1, <1>2, <1>3, <1>4 DEF TypeOK

(* Each part of the invariant depends on its own variables only. *)
LEMMA TypeFrames ==
    /\ UsartTypeOK /\ UNCHANGED usartVars => UsartTypeOK'
    /\ DriverTypeOK /\ UNCHANGED driver => DriverTypeOK'
    /\ TimeTypeOK /\ UNCHANGED time => TimeTypeOK'
    /\ MainTypeOK /\ UNCHANGED mainVars => MainTypeOK'
    /\ IsrTypeOK /\ UNCHANGED isrVars => IsrTypeOK'
    /\ HistoryTypeOK /\ UNCHANGED history => HistoryTypeOK'
BY DEF UsartTypeOK, usartVars, rxRegs, txRegs, DriverTypeOK, driver,
   TimeTypeOK, time, MainTypeOK, mainVars, IsrTypeOK, isrVars,
   HistoryTypeOK, history

(* Every step keeps the types; a step of the proof names the parts of      *)
(* TypeOK that the action touches, the others follow from TypeFrames.      *)
LEMMA NextTypeOK == TypeOK /\ [Next]_vars => TypeOK'
<1> SUFFICES ASSUME TypeOK, [Next]_vars PROVE TypeOK'
  OBVIOUS
<1> USE UartAssumption DEF TypeOK
<1>1. CASE InitCall
  <2>1. MainTypeOK'
    BY <1>1 DEF InitCall, Goto, MainTypeOK, Labels
  <2> QED BY <1>1, <2>1, TypeFrames DEF InitCall, Goto
<1>2. CASE ConfigureUsart
  <2>1. UsartTypeOK'
    BY <1>2 DEF ConfigureUsart, Goto, UsartTypeOK, rxRegs, txRegs
  <2>2. MainTypeOK'
    BY <1>2 DEF ConfigureUsart, Goto, MainTypeOK, Labels
  <2> QED BY <1>2, <2>1, <2>2, TypeFrames DEF ConfigureUsart, Goto
<1>3. CASE ConfigureNvic
  <2>1. DriverTypeOK'
    BY <1>3 DEF ConfigureNvic, Goto, DriverTypeOK
  <2>2. MainTypeOK'
    BY <1>3 DEF ConfigureNvic, Goto, MainTypeOK, Labels
  <2> QED BY <1>3, <2>1, <2>2, TypeFrames DEF ConfigureNvic, Goto
<1>4. CASE Register
  <2>1. DriverTypeOK'
    BY <1>4 DEF Register, Goto, DriverTypeOK
  <2>2. MainTypeOK'
    BY <1>4 DEF Register, Goto, MainTypeOK, Labels
  <2> QED BY <1>4, <2>1, <2>2, TypeFrames DEF Register, Goto
<1>5. CASE InitDone
  <2>1. DriverTypeOK'
    BY <1>5 DEF InitDone, Return, DriverTypeOK
  <2>2. TimeTypeOK'
    BY <1>5 DEF InitDone, Return, TimeTypeOK
  <2>3. MainTypeOK'
    BY <1>5 DEF InitDone, Return, NoLocals, MainTypeOK, Labels
  <2> QED BY <1>5, <2>1, <2>2, <2>3, TypeFrames DEF InitDone, Return
<1>6. ASSUME NEW n \in 1..MaxLen, SendCall(n)
      PROVE  TypeOK'
  <2>1. MainTypeOK'
    BY <1>6 DEF SendCall, MainTypeOK, Labels
  <2> QED BY <1>6, <2>1, TypeFrames DEF SendCall
<1>7. CASE SendRefused
  <2>1. DriverTypeOK'
    BY <1>7, BumpType DEF SendRefused, Return, Capacity, DriverTypeOK,
       Counters
  <2>2. TimeTypeOK'
    BY <1>7 DEF SendRefused, Return, TimeTypeOK
  <2>3. MainTypeOK'
    BY <1>7 DEF SendRefused, Return, NoLocals, MainTypeOK, Labels
  <2> QED BY <1>7, <2>1, <2>2, <2>3, TypeFrames DEF SendRefused, Return
<1>8. CASE SendPush
  <2>1. DriverTypeOK'
    BY <1>8, Appends, Lengths DEF SendPush, Goto, Capacity, DriverTypeOK,
       HistoryTypeOK
  <2>2. MainTypeOK'
    BY <1>8 DEF SendPush, Goto, MainTypeOK, Labels
  <2>3. HistoryTypeOK'
    BY <1>8 DEF SendPush, Goto, HistoryTypeOK
  <2> QED BY <1>8, <2>1, <2>2, <2>3, TypeFrames DEF SendPush, Goto
<1>9. CASE KickLoad
  <2>1. DriverTypeOK'
    BY <1>9, BumpType DEF KickLoad, DriverTypeOK, Counters
  <2>2. MainTypeOK'
    BY <1>9 DEF KickLoad, MainTypeOK, Labels, UsartTypeOK
  <2> QED BY <1>9, <2>1, <2>2, TypeFrames DEF KickLoad
<1>10. CASE KickStore
  <2>1. UsartTypeOK'
    BY <1>10 DEF KickStore, Return, UsartTypeOK, rxRegs, txRegs, MainTypeOK
  <2>2. TimeTypeOK'
    BY <1>10 DEF KickStore, Return, TimeTypeOK
  <2>3. MainTypeOK'
    <3>1. m.left > 1 => m.left - 1 \in 0..MaxLen
      BY DEF MainTypeOK
    <3>2. CASE m.left > 1 /\ m' = [m EXCEPT !.left = @ - 1, !.reg = {}]
               /\ pc' = "push"
      BY <3>1, <3>2 DEF MainTypeOK, Labels
    <3>3. CASE Return
      BY <3>3 DEF Return, NoLocals, MainTypeOK, Labels
    <3> QED BY <1>10, <3>2, <3>3 DEF KickStore
  <2> QED BY <1>10, <2>1, <2>2, <2>3, TypeFrames DEF KickStore, Return
<1>11. ASSUME NEW tmo \in Timeouts, FlushCall(tmo)
      PROVE  TypeOK'
  <2>1. TimeTypeOK'
    BY <1>11 DEF FlushCall, StartWait, TimeTypeOK
  <2>2. MainTypeOK'
    BY <1>11 DEF FlushCall, StartWait, MainTypeOK, Labels, TimeTypeOK
  <2> QED BY <1>11, <2>1, <2>2, TypeFrames DEF FlushCall, StartWait
<1>12. ASSUME NEW tmo \in Timeouts, ReceiveCall(tmo)
      PROVE  TypeOK'
  <2>1. TimeTypeOK'
    BY <1>12 DEF ReceiveCall, StartWait, TimeTypeOK
  <2>2. MainTypeOK'
    BY <1>12 DEF ReceiveCall, StartWait, MainTypeOK, Labels, TimeTypeOK
  <2> QED BY <1>12, <2>1, <2>2, TypeFrames DEF ReceiveCall, StartWait
<1>13. ASSUME NEW l, NEW loop \in Labels, TimeTest(l, loop)
      PROVE  TypeOK'
  <2>1. MainTypeOK'
    BY <1>13 DEF TimeTest, Goto, MainTypeOK, Labels
  <2> QED BY <1>13, <2>1, TypeFrames DEF TimeTest, Goto
<1>14. CASE ReturnFalse
  <2>1. TimeTypeOK'
    BY <1>14 DEF ReturnFalse, Return, TimeTypeOK
  <2>2. MainTypeOK'
    BY <1>14 DEF ReturnFalse, Return, NoLocals, MainTypeOK, Labels
  <2> QED BY <1>14, <2>1, <2>2, TypeFrames DEF ReturnFalse, Return
<1>15. CASE FlushDrain
  <2>1. MainTypeOK'
    BY <1>15 DEF FlushDrain, Goto, MainTypeOK, Labels
  <2> QED BY <1>15, <2>1, TypeFrames DEF FlushDrain, Goto
<1>16. CASE FlushTc
  <2>1. UsartTypeOK'
    BY <1>16 DEF FlushTc, Goto, ReadSR, UsartTypeOK, rxRegs, txRegs
  <2>2. MainTypeOK'
    BY <1>16 DEF FlushTc, Goto, ReadSR, MainTypeOK, Labels
  <2> QED BY <1>16, <2>1, <2>2, TypeFrames DEF FlushTc, Goto, ReadSR
<1>17. CASE FlushTrue
  <2>1. TimeTypeOK'
    BY <1>17 DEF FlushTrue, Return, TimeTypeOK
  <2>2. MainTypeOK'
    BY <1>17 DEF FlushTrue, Return, NoLocals, MainTypeOK, Labels
  <2> QED BY <1>17, <2>1, <2>2, TypeFrames DEF FlushTrue, Return
<1>18. CASE ReceivePop
  <2>1. DriverTypeOK'
    <3>1. rx_buf_' \in Seq(Frame) /\ Len(rx_buf_') = Len(rx_buf_) - 1
      BY <1>18, HeadTails DEF ReceivePop, DriverTypeOK
    <3>2. Len(rx_buf_') <= Capacity
      BY <3>1, Lengths DEF DriverTypeOK, Capacity
    <3> QED BY <1>18, <3>1, <3>2 DEF ReceivePop, DriverTypeOK
  <2>2. TimeTypeOK'
    BY <1>18 DEF ReceivePop, Return, TimeTypeOK
  <2>3. MainTypeOK'
    BY <1>18 DEF ReceivePop, Return, NoLocals, MainTypeOK, Labels
  <2>4. HistoryTypeOK'
    BY <1>18, HeadTails, Appends DEF ReceivePop, Return,
       HistoryTypeOK, DriverTypeOK
  <2> QED BY <1>18, <2>1, <2>2, <2>3, <2>4, TypeFrames DEF ReceivePop, Return
<1>19. CASE ReceiveEmpty
  <2>1. MainTypeOK'
    BY <1>19 DEF ReceiveEmpty, Goto, MainTypeOK, Labels
  <2> QED BY <1>19, <2>1, TypeFrames DEF ReceiveEmpty, Goto
<1>20. CASE ErrorsCall
  <2>1. UsartTypeOK'
    BY <1>20 DEF ErrorsCall, Return, ReadSR, UsartTypeOK, rxRegs, txRegs
  <2>2. TimeTypeOK'
    BY <1>20 DEF ErrorsCall, Return, ReadSR, TimeTypeOK
  <2>3. MainTypeOK'
    <3>1. CASE pc' = "count_load" /\ m' = [m EXCEPT !.todo = err]
      BY <3>1 DEF MainTypeOK, Labels, UsartTypeOK
    <3>2. CASE Return
      BY <3>2 DEF Return, NoLocals, MainTypeOK, Labels
    <3> QED BY <1>20, <3>1, <3>2 DEF ErrorsCall
  <2>4. HistoryTypeOK'
    BY <1>20 DEF ErrorsCall, Return, ReadSR, HistoryTypeOK
  <2> QED BY <1>20, <2>1, <2>2, <2>3, <2>4, TypeFrames DEF ErrorsCall,
     Return, ReadSR
<1>21. ASSUME NEW f \in Flags, CountLoad(f)
      PROVE  TypeOK'
  <2>1. MainTypeOK'
    <3>1. stats_[CounterOf[f]] \in Nat /\ {f} \subseteq Flags
      BY CounterOfType DEF DriverTypeOK
    <3> QED BY <1>21, <3>1 DEF CountLoad, MainTypeOK, Labels
  <2> QED BY <1>21, <2>1, TypeFrames DEF CountLoad
<1>22. ASSUME NEW f \in Flags, CountStore(f)
      PROVE  TypeOK'
  <2>1. DriverTypeOK'
    BY <1>22, CounterOfType DEF CountStore, DriverTypeOK, MainTypeOK
  <2>2. MainTypeOK'
    BY <1>22 DEF CountStore, MainTypeOK, Labels
  <2> QED BY <1>22, <2>1, <2>2, TypeFrames DEF CountStore
<1>23. CASE ErrorsClear
  <2>1. UsartTypeOK'
    BY <1>23 DEF ErrorsClear, Return, ClearErrors, ReadDR, UsartTypeOK,
       rxRegs, txRegs
  <2>2. TimeTypeOK'
    BY <1>23 DEF ErrorsClear, Return, ClearErrors, ReadDR, TimeTypeOK
  <2>3. MainTypeOK'
    BY <1>23 DEF ErrorsClear, Return, NoLocals, ClearErrors, ReadDR,
       MainTypeOK, Labels
  <2>4. HistoryTypeOK'
    BY <1>23 DEF ErrorsClear, Return, ClearErrors, ReadDR, HistoryTypeOK
  <2> QED BY <1>23, <2>1, <2>2, <2>3, <2>4, TypeFrames DEF ErrorsClear, Return,
     ClearErrors, ReadDR
<1>24. CASE IsrEnter
  <2>1. IsrTypeOK'
    BY <1>24 DEF IsrEnter, IsrTypeOK, IsrLabels
  <2> QED BY <1>24, <2>1, TypeFrames DEF IsrEnter
<1>25. CASE IsrUnregistered
  <2>1. IsrTypeOK'
    BY <1>25 DEF IsrUnregistered, IsrExit, IsrTypeOK, IsrLabels
  <2> QED BY <1>25, <2>1, TypeFrames DEF IsrUnregistered, IsrExit
<1>26. CASE IsrErrors
  <2>1. UsartTypeOK'
    BY <1>26 DEF IsrErrors, ReadSR, UsartTypeOK, rxRegs, txRegs
  <2>2. DriverTypeOK'
    BY <1>26 DEF IsrErrors, ReadSR, DriverTypeOK
  <2>3. IsrTypeOK'
    BY <1>26 DEF IsrErrors, ReadSR, IsrTypeOK, IsrLabels, UsartTypeOK
  <2> QED BY <1>26, <2>1, <2>2, <2>3, TypeFrames DEF IsrErrors, ReadSR
<1>27. CASE IsrClear
  <2>1. UsartTypeOK'
    BY <1>27 DEF IsrClear, ClearErrors, ReadDR, UsartTypeOK, rxRegs, txRegs
  <2>2. HistoryTypeOK'
    BY <1>27 DEF IsrClear, ClearErrors, ReadDR, HistoryTypeOK
  <2>3. IsrTypeOK'
    BY <1>27 DEF IsrClear, ClearErrors, ReadDR, IsrTypeOK, IsrLabels
  <2> QED BY <1>27, <2>1, <2>2, <2>3, TypeFrames DEF IsrClear, ClearErrors,
     ReadDR
<1>28. CASE IsrDecide
  <2>1. UsartTypeOK'
    BY <1>28 DEF IsrDecide, ReadSR, UsartTypeOK, rxRegs, txRegs
  <2>2. IsrTypeOK'
    BY <1>28 DEF IsrDecide, ReadSR, IsrTypeOK, IsrLabels
  <2> QED BY <1>28, <2>1, <2>2, TypeFrames DEF IsrDecide, ReadSR
<1>29. CASE IsrReceive
  <2>1. UsartTypeOK'
    BY <1>29 DEF IsrReceive, ReadDR, UsartTypeOK, rxRegs, txRegs
  <2>2. DriverTypeOK'
    <3>1. stats_' \in [Counters -> Nat]
      <4>1. /\ Bump(stats_, "bytes_received") \in [Counters -> Nat]
            /\ Bump(stats_, "rx_buffer_overflows") \in [Counters -> Nat]
        BY BumpType DEF DriverTypeOK, Counters
      <4> QED BY <1>29, <4>1 DEF IsrReceive
    <3>2. rx_buf_' \in Seq(Frame) /\ Len(rx_buf_') <= Capacity
      <4>1. CASE UNCHANGED rx_buf_
        BY <4>1 DEF DriverTypeOK
      <4>2. CASE Len(rx_buf_) < Capacity /\ rx_buf_' = Append(rx_buf_, rdr)
        <5>1. /\ rx_buf_' \in Seq(Frame) /\ Len(rx_buf_) \in Nat
              /\ Len(rx_buf_') = Len(rx_buf_) + 1
          BY <4>2, Appends, Lengths DEF DriverTypeOK, UsartTypeOK
        <5> QED BY <4>2, <5>1 DEF Capacity
      <4> QED BY <1>29, <4>1, <4>2 DEF IsrReceive
    <3> QED BY <1>29, <3>1, <3>2 DEF IsrReceive, DriverTypeOK
  <2>3. IsrTypeOK'
    BY <1>29 DEF IsrReceive, ReadDR, IsrTypeOK, IsrLabels
  <2> QED BY <1>29, <2>1, <2>2, <2>3, TypeFrames DEF IsrReceive, ReadDR
<1>30. CASE IsrPop
  <2>1. DriverTypeOK'
    <3>1. tx_buf_' \in Seq(Nat) /\ Len(tx_buf_') = Len(tx_buf_) - 1
      BY <1>30, HeadTails DEF IsrPop, DriverTypeOK
    <3>2. Len(tx_buf_') <= Capacity
      BY <3>1, Lengths DEF DriverTypeOK, Capacity
    <3> QED BY <1>30, <3>1, <3>2 DEF IsrPop, DriverTypeOK
  <2>2. IsrTypeOK'
    <3>1. Head(tx_buf_) \in Nat
      BY <1>30, HeadTails DEF IsrPop, DriverTypeOK
    <3> QED BY <1>30, <3>1, Singletons DEF IsrPop, IsrTypeOK, IsrLabels
  <2> QED BY <1>30, <2>1, <2>2, TypeFrames DEF IsrPop
<1>31. CASE IsrWrite
  <2>1. UsartTypeOK'
    <3>1. Len(ibyte) = 1
      <4>1. ibyte # <<>>
        BY <1>31 DEF IsrWrite, IsrTypeOK
      <4>2. Len(ibyte) \in Nat /\ Len(ibyte) > 0 /\ Len(ibyte) <= 1
        BY <4>1, Lengths DEF IsrTypeOK
      <4>3. \A n \in Nat : n > 0 /\ n <= 1 => n = 1
        OBVIOUS
      <4> QED BY <4>2, <4>3
    <3>2. ibyte[1] \in Nat
      BY <3>1, ElementOfSeq DEF IsrTypeOK
    <3>3. tdr' \in Seq(Nat) /\ Len(tdr') <= 1
      BY <1>31, <3>2, Singletons DEF IsrWrite, WriteDR
    <3> QED BY <1>31, <3>3 DEF IsrWrite, WriteDR, UsartTypeOK, rxRegs
  <2>2. IsrTypeOK'
    BY <1>31, EmptySeqs DEF IsrWrite, IsrTypeOK, IsrLabels
  <2> QED BY <1>31, <2>1, <2>2, TypeFrames DEF IsrWrite, WriteDR
<1>32. CASE IsrDrained
  <2>1. UsartTypeOK'
    BY <1>32 DEF IsrDrained, UsartTypeOK, rxRegs, txRegs
  <2>2. IsrTypeOK'
    BY <1>32 DEF IsrDrained, IsrTypeOK, IsrLabels
  <2> QED BY <1>32, <2>1, <2>2, TypeFrames DEF IsrDrained
<1>33. CASE IsrReturn
  <2>1. IsrTypeOK'
    BY <1>33 DEF IsrReturn, IsrExit, IsrTypeOK, IsrLabels
  <2> QED BY <1>33, <2>1, TypeFrames DEF IsrReturn, IsrExit
<1>34. CASE SysTick
  <2>1. TimeTypeOK'
    BY <1>34 DEF SysTick, Waiting, TimeTypeOK
  <2> QED BY <1>34, <2>1, TypeFrames DEF SysTick
<1>35. ASSUME NEW bad \in LineFaults, Line(bad)
      PROVE  TypeOK'
  <2>1. UsartTypeOK'
    <3>1. frames' \in 0..MaxFrames /\ loaded' \in 0..frames'
      BY <1>35 DEF Line, LineFrame, UsartTypeOK
    <3>2. bad \subseteq Flags
      BY DEF Flags
    <3>3. rdr' \in Frame /\ rxne' \in BOOLEAN /\ err' \subseteq Flags
      <4>1. CASE rdr' = [id |-> frames + 1, bad |-> bad]
        <5>1. rdr' \in Frame
          BY <1>35, <3>1, <3>2, <4>1 DEF Line, LineFrame, Frame
        <5>2. rxne' \in BOOLEAN
          BY <1>35 DEF Line, LineFrame, UsartTypeOK
        <5>3. err' \subseteq Flags
          BY <1>35, <3>2 DEF Line, LineFrame, UsartTypeOK, Flags
        <5> QED BY <5>1, <5>2, <5>3
      <4>2. CASE UNCHANGED rdr
        BY <1>35, <3>2, <4>2 DEF Line, LineFrame, UsartTypeOK, Flags
      <4> QED BY <1>35, <4>1, <4>2 DEF Line, LineFrame
    <3> QED BY <1>35, <3>1, <3>3 DEF Line, LineFrame, UsartTypeOK, txRegs
  <2> QED BY <1>35, <2>1, TypeFrames DEF Line, LineFrame
<1>36. CASE Shift
  <2>1. UsartTypeOK'
    <3>1. CASE ShiftLoad
      BY <3>1, EmptySeqs DEF ShiftLoad, UsartTypeOK, rxRegs
    <3>2. CASE ShiftDone
      <4>1. wire \o shift \in Seq(Nat)
        BY ConcatProperties DEF UsartTypeOK
      <4> QED BY <3>2, <4>1, EmptySeqs DEF ShiftDone, UsartTypeOK, rxRegs
    <3> QED BY <1>36, <3>1, <3>2 DEF Shift
  <2> QED BY <1>36, <2>1, TypeFrames DEF Shift, ShiftLoad, ShiftDone
<1>37. CASE UNCHANGED vars
  BY <1>37, TypeFrames DEF vars
<1> QED BY <1>1, <1>2, <1>3, <1>4, <1>5, <1>6, <1>7, <1>8, <1>9, <1>10, <1>11,
    <1>12, <1>13, <1>14, <1>15, <1>16, <1>17, <1>18, <1>19, <1>20, <1>21,
    <1>22, <1>23, <1>24, <1>25, <1>26, <1>27, <1>28, <1>29, <1>30, <1>31,
    <1>32, <1>33, <1>34, <1>35, <1>36, <1>37
    DEF Next, CallBegins, CallGoesOn, Isr, Labels

(* The variables always have their types, and neither ring ever holds more *)
(* than N-1 elements.                                                      *)
THEOREM UartTypeCorrect == Spec => []TypeOK
BY InitTypeOK, NextTypeOK, PTL DEF Spec
=============================================================================
