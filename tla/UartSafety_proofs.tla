------------------------- MODULE UartSafety_proofs -------------------------
(***************************************************************************)
(* The safety properties of Uart, for every ring size, counter width, line *)
(* behaviour and choice of calls.  They are parts of one inductive         *)
(* invariant, IInv: NoLostKick and RxConserved need only the types beside  *)
(* them, the others need each other and the four facts defined first.      *)
(***************************************************************************)
EXTENDS Uart_proofs

(* What the handler read from SR before it chose a branch is still true    *)
(* when it acts on it: nothing but the handler itself empties the receive  *)
(* register or fills the transmit register.                                *)
Decided == /\ isr = "rx" => rxne
           /\ isr \in {"tx", "write"} \/ (isr = "rx" /\ itx) => tdr = <<>>

(* TC is low from the write of a byte to its last bit.                     *)
TcMeansSent == tc => tdr = <<>> /\ shift = <<>>

(* What flush_tx() has seen stays so: main adds nothing while it waits.    *)
Draining == /\ pc \in {"tc", "tc_time", "flushed"} => tx_buf_ = <<>>
            /\ pc = "flushed" => tdr = <<>> /\ shift = <<>> /\ ibyte = <<>>

(* The unsigned difference of two ticks is the time between them.          *)
TicksWaited == /\ Waiting => (s_tick_ms - m.start) % TickMod = waited
               /\ TimeoutNotEarly

IInv == /\ TypeOK /\ NoLostKick /\ TxInOrder /\ Decided /\ TcMeansSent
        /\ Draining /\ TicksWaited /\ RxConserved

-----------------------------------------------------------------------------
(* The way of a byte from send() to the pin *)

TxPath == wire \o shift \o tdr \o ibyte \o tx_buf_
Ordinals(n) == [k \in 1..n |-> k]

LEMMA Concats == \A s, t \in Seq(Nat) : s \o t \in Seq(Nat)
BY ConcatProperties

LEMMA ConcatEmpty == \A s \in Seq(Nat) : s \o <<>> = s /\ <<>> \o s = s
BY ConcatEmptySeq

LEMMA ConcatAssoc ==
    \A s, t, u \in Seq(Nat) : (s \o t) \o u = s \o (t \o u)
<1> TAKE s, t, u \in Seq(Nat)
<1> QED BY ConcatAssociative, SMTT(30)

LEMMA PathType == TypeOK => TxPath \in Seq(Nat)
<1> SUFFICES ASSUME TypeOK PROVE TxPath \in Seq(Nat)
  OBVIOUS
<1>1. /\ wire \in Seq(Nat) /\ shift \in Seq(Nat) /\ tdr \in Seq(Nat)
      /\ ibyte \in Seq(Nat) /\ tx_buf_ \in Seq(Nat)
  BY DEF TypeOK, UsartTypeOK, DriverTypeOK, IsrTypeOK
<1> QED BY <1>1, Concats DEF TxPath

LEMMA OrdinalsGrow ==
    \A n \in Nat : Append(Ordinals(n), n + 1) = Ordinals(n + 1)
<1> SUFFICES ASSUME NEW n \in Nat
             PROVE  Append(Ordinals(n), n + 1) = Ordinals(n + 1)
  OBVIOUS
<1>1. Ordinals(n) \in Seq(Nat) /\ Len(Ordinals(n)) = n
  BY DEF Ordinals
<1>2. Ordinals(n + 1) \in Seq(Nat) /\ Len(Ordinals(n + 1)) = n + 1
  BY DEF Ordinals
<1> DEFINE s == Append(Ordinals(n), n + 1)
<1>3. /\ s \in Seq(Nat) /\ Len(s) = n + 1 /\ s[n + 1] = n + 1
      /\ \A i \in 1..n : s[i] = Ordinals(n)[i]
  BY <1>1, AppendProperties
<1>4. \A i \in 1..n+1 : s[i] = Ordinals(n + 1)[i]
  BY <1>3 DEF Ordinals
<1> HIDE DEF s
<1>5. s = Ordinals(n + 1)
  BY <1>2, <1>3, <1>4, SeqEqual
<1> QED BY <1>5 DEF s

(* The steps a byte makes, on any path. *)
LEMMA PathAppend ==
    ASSUME TypeOK, NEW b \in Nat, tx_buf_' = Append(tx_buf_, b),
           UNCHANGED <<wire, shift, tdr, ibyte>>
    PROVE  TxPath' = Append(TxPath, b)
<1> DEFINE p == wire \o shift \o tdr \o ibyte
<1>1. p \in Seq(Nat) /\ tx_buf_ \in Seq(Nat)
  BY Concats DEF TypeOK, UsartTypeOK, DriverTypeOK, IsrTypeOK
<1>2. TxPath = p \o tx_buf_ /\ TxPath' = p \o Append(tx_buf_, b)
  BY DEF TxPath
<1> HIDE DEF p
<1>3. /\ Append(tx_buf_, b) = tx_buf_ \o <<b>>
      /\ Append(p \o tx_buf_, b) = (p \o tx_buf_) \o <<b>>
  BY <1>1, Concats, AppendIsConcat
<1>4. (p \o tx_buf_) \o <<b>> = p \o (tx_buf_ \o <<b>>)
  BY <1>1, Singletons, ConcatAssoc
<1> QED BY <1>2, <1>3, <1>4

LEMMA HeadConcatTail ==
    \A s \in Seq(Nat) : s # <<>> => <<Head(s)>> \o Tail(s) = s
<1> SUFFICES ASSUME NEW s \in Seq(Nat), s # <<>>
             PROVE  <<Head(s)>> \o Tail(s) = s
  OBVIOUS
<1>1. /\ Head(s) \in Nat /\ Tail(s) \in Seq(Nat) /\ Len(Tail(s)) = Len(s) - 1
      /\ \A i \in 1..Len(Tail(s)) : Tail(s)[i] = s[i + 1]
  BY HeadTailProperties
<1>2. Len(s) \in Nat /\ Len(s) > 0 /\ Head(s) = s[1]
  BY Lengths
<1> DEFINE t == <<Head(s)>> \o Tail(s)
<1>3. /\ t \in Seq(Nat) /\ Len(t) = 1 + Len(Tail(s))
      /\ \A i \in 1..1+Len(Tail(s)) :
           t[i] = IF i <= 1 THEN <<Head(s)>>[i] ELSE Tail(s)[i - 1]
  BY <1>1, Singletons, ConcatProperties
<1>4. Len(t) = Len(s)
  BY <1>1, <1>2, <1>3
<1>5. ASSUME NEW i \in 1..Len(t)
      PROVE  t[i] = s[i]
  <2>1. CASE i = 1
    BY <1>1, <1>2, <1>3, <2>1, Singletons
  <2>2. CASE i > 1
    <3>1. t[i] = Tail(s)[i - 1] /\ i - 1 \in 1..Len(Tail(s))
      BY <1>1, <1>2, <1>3, <1>4, <2>2
    <3>2. Tail(s)[i - 1] = s[(i - 1) + 1]
      BY <1>1, <3>1
    <3> QED BY <3>1, <3>2
  <2> QED BY <1>2, <1>4, <2>1, <2>2
<1> HIDE DEF t
<1>6. t = s
  BY <1>3, <1>4, <1>5, SeqEqual
<1> QED BY <1>6 DEF t

LEMMA PathPop ==
    ASSUME TypeOK, tx_buf_ # <<>>, ibyte = <<>>, ibyte' = <<Head(tx_buf_)>>,
           tx_buf_' = Tail(tx_buf_), UNCHANGED <<wire, shift, tdr>>
    PROVE  TxPath' = TxPath
<1> DEFINE p == wire \o shift \o tdr
<1>1. p \in Seq(Nat) /\ tx_buf_ \in Seq(Nat)
  BY Concats DEF TypeOK, UsartTypeOK, DriverTypeOK
<1>2. <<Head(tx_buf_)>> \in Seq(Nat) /\ Tail(tx_buf_) \in Seq(Nat)
  BY <1>1, HeadTails, Singletons
<1>3. /\ TxPath = (p \o <<>>) \o tx_buf_
      /\ TxPath' = (p \o <<Head(tx_buf_)>>) \o Tail(tx_buf_)
  BY DEF TxPath
<1> HIDE DEF p
<1>4. (p \o <<Head(tx_buf_)>>) \o Tail(tx_buf_)
        = p \o (<<Head(tx_buf_)>> \o Tail(tx_buf_))
  BY <1>1, <1>2, ConcatAssoc
<1>5. <<Head(tx_buf_)>> \o Tail(tx_buf_) = tx_buf_ /\ p \o <<>> = p
  BY <1>1, HeadConcatTail, ConcatEmpty
<1> QED BY <1>3, <1>4, <1>5

LEMMA ByteIs == \A s \in Seq(Nat) : s # <<>> /\ Len(s) <= 1 => <<s[1]>> = s
<1> SUFFICES ASSUME NEW s \in Seq(Nat), s # <<>>, Len(s) <= 1
             PROVE  <<s[1]>> = s
  OBVIOUS
<1>1. Len(s) \in Nat /\ Len(s) > 0
  BY Lengths
<1>2. \A n \in Nat : n > 0 /\ n <= 1 => n = 1
  OBVIOUS
<1>3. Len(s) = 1
  BY <1>1, <1>2
<1>4. s[1] \in Nat
  BY <1>3, ElementOfSeq
<1>5. /\ <<s[1]>> \in Seq(Nat) /\ Len(<<s[1]>>) = Len(s)
      /\ \A i \in 1..Len(<<s[1]>>) : <<s[1]>>[i] = s[i]
  BY <1>3, <1>4, Singletons
<1> QED BY <1>5, SeqEqual

LEMMA PathWrite ==
    ASSUME TypeOK, tdr = <<>>, tdr' = ibyte, ibyte' = <<>>,
           UNCHANGED <<wire, shift, tx_buf_>>
    PROVE  TxPath' = TxPath
<1> DEFINE p == wire \o shift
<1>1. p \in Seq(Nat) /\ ibyte \in Seq(Nat)
  BY Concats DEF TypeOK, UsartTypeOK, IsrTypeOK
<1>2. /\ TxPath = ((p \o <<>>) \o ibyte) \o tx_buf_
      /\ TxPath' = ((p \o ibyte) \o <<>>) \o tx_buf_
  BY DEF TxPath
<1> HIDE DEF p
<1>3. p \o <<>> = p /\ (p \o ibyte) \o <<>> = p \o ibyte
  BY <1>1, Concats, ConcatEmpty
<1> QED BY <1>2, <1>3

LEMMA PathShift ==
    ASSUME TypeOK, ShiftLoad \/ ShiftDone, UNCHANGED <<ibyte, tx_buf_>>
    PROVE  TxPath' = TxPath
<1>1. wire \in Seq(Nat) /\ shift \in Seq(Nat) /\ tdr \in Seq(Nat)
  BY DEF TypeOK, UsartTypeOK
<1>2. CASE ShiftLoad
  <2>1. /\ TxPath = (((wire \o <<>>) \o tdr) \o ibyte) \o tx_buf_
        /\ TxPath' = (((wire \o tdr) \o <<>>) \o ibyte) \o tx_buf_
    BY <1>2 DEF ShiftLoad, TxPath
  <2>2. wire \o <<>> = wire /\ (wire \o tdr) \o <<>> = wire \o tdr
    BY <1>1, Concats, ConcatEmpty
  <2> QED BY <2>1, <2>2
<1>3. CASE ShiftDone
  <2>1. TxPath' = ((((wire \o shift) \o <<>>) \o tdr) \o ibyte) \o tx_buf_
    BY <1>3 DEF ShiftDone, TxPath
  <2>2. (wire \o shift) \o <<>> = wire \o shift
    BY <1>1, Concats, ConcatEmpty
  <2> QED BY <2>1, <2>2 DEF TxPath
<1> QED BY <1>2, <1>3

-----------------------------------------------------------------------------
(* Ticks *)

LEMMA NoTicks == \A s \in 0..TickMod-1 : (s - s) % TickMod = 0
BY UartAssumption

(* One tick more, wherever the counter wraps. *)
LEMMA OneTick ==
    \A s, st \in 0..TickMod-1 :
        ((s - st) % TickMod) + 1 < TickMod =>
            (((s + 1) % TickMod) - st) % TickMod = ((s - st) % TickMod) + 1
<1> SUFFICES ASSUME NEW s \in 0..TickMod-1, NEW st \in 0..TickMod-1,
                    ((s - st) % TickMod) + 1 < TickMod
             PROVE  (((s + 1) % TickMod) - st) % TickMod
                      = ((s - st) % TickMod) + 1
  OBVIOUS
<1>1. \A i, j \in 0..TickMod-1 :
         (i - j) % TickMod = IF j <= i THEN i - j ELSE (i - j) + TickMod
  BY UartAssumption
<1>2. /\ (s + 1) % TickMod = IF s = TickMod - 1 THEN 0 ELSE s + 1
      /\ (s + 1) % TickMod \in 0..TickMod-1
  BY UartAssumption
<1> QED BY <1>1, <1>2, UartAssumption

-----------------------------------------------------------------------------
(* Counters *)

LEMMA Bumps ==
    DriverTypeOK =>
      /\ LET s == Bump(stats_, "bytes_received")
         IN  /\ s["bytes_received"] = stats_["bytes_received"] + 1
             /\ s["rx_buffer_overflows"] = stats_["rx_buffer_overflows"]
      /\ LET s == Bump(stats_, "rx_buffer_overflows")
         IN  /\ s["rx_buffer_overflows"] = stats_["rx_buffer_overflows"] + 1
             /\ s["bytes_received"] = stats_["bytes_received"]
      /\ \A c \in {"bytes_sent", "tx_buffer_overflows"} :
           LET s == Bump(stats_, c)
           IN  /\ s["bytes_received"] = stats_["bytes_received"]
               /\ s["rx_buffer_overflows"] = stats_["rx_buffer_overflows"]
<1>1. /\ "bytes_received" \in Counters /\ "rx_buffer_overflows" \in Counters
      /\ "bytes_sent" \in Counters /\ "tx_buffer_overflows" \in Counters
  BY DEF Counters
<1> HAVE DriverTypeOK
<1>2. \A c \in Counters : Bump(stats_, c)[c] = stats_[c] + 1
  BY BumpType DEF DriverTypeOK
<1>3. \A c, d \in Counters : c # d => Bump(stats_, c)[d] = stats_[d]
  BY BumpType DEF DriverTypeOK
<1> QED BY <1>1, <1>2, <1>3

LEMMA RxNumbers ==
    TypeOK => /\ loaded \in Nat /\ cleared \in Nat
              /\ stats_["bytes_received"] \in Nat
              /\ stats_["rx_buffer_overflows"] \in Nat
              /\ Len(got) \in Nat /\ Len(rx_buf_) \in Nat
<1> HAVE TypeOK
<1>1. loaded \in Nat /\ cleared \in Nat
  BY UartAssumption DEF TypeOK, UsartTypeOK, HistoryTypeOK
<1>2. "bytes_received" \in Counters /\ "rx_buffer_overflows" \in Counters
  BY DEF Counters
<1>3. /\ stats_["bytes_received"] \in Nat
      /\ stats_["rx_buffer_overflows"] \in Nat
  BY <1>2 DEF TypeOK, DriverTypeOK
<1>4. Len(got) \in Nat /\ Len(rx_buf_) \in Nat
  BY Lengths DEF TypeOK, DriverTypeOK, HistoryTypeOK
<1> QED BY <1>1, <1>3, <1>4

(* Reading DR to clear errors moves a frame from the register to cleared.  *)
LEMMA ClearConserves ==
    ASSUME TypeOK, RxConserved, ClearErrors
    PROVE  RxConserved'
<1>1. ~rxne' /\ UNCHANGED <<loaded, stats_, got, rx_buf_>>
  BY DEF ClearErrors, ReadDR, driver
<1>2. CASE rxne
  <2>1. cleared' = cleared + 1
    BY <1>2 DEF ClearErrors
  <2> QED BY <1>1, <1>2, <2>1, RxNumbers DEF RxConserved
<1>3. CASE ~rxne
  <2>1. cleared' = cleared
    BY <1>3 DEF ClearErrors
  <2> QED BY <1>1, <1>3, <2>1 DEF RxConserved
<1> QED BY <1>2, <1>3

-----------------------------------------------------------------------------
(* The inductive invariant *)

LEMMA InitIInv == Init => IInv
<1> SUFFICES ASSUME Init PROVE IInv
  OBVIOUS
<1>1. TypeOK
  BY InitTypeOK
<1>2. TxInOrder
  <2>1. wire \o shift \o tdr \o ibyte \o tx_buf_ = <<>>
    BY EmptySeqs, ConcatEmpty DEF Init, UsartInit
  <2>2. [k \in 1..accepted |-> k] = <<>>
    BY DEF Init
  <2> QED BY <2>1, <2>2 DEF TxInOrder
<1>3. RxConserved
  BY EmptySeqs DEF Init, UsartInit, RxConserved, Counters
<1> QED BY <1>1, <1>2, <1>3 DEF Init, UsartInit, IInv, NoLostKick, Decided,
           TcMeansSent, Draining, TicksWaited, Waiting, TimeoutNotEarly

(* Each part of the invariant depends on its own variables only. *)
LEMMA SafetyFrames ==
    /\ NoLostKick /\ UNCHANGED <<tx_buf_, cr1, pc>> => NoLostKick'
    /\ TxInOrder /\ UNCHANGED <<wire, shift, tdr, ibyte, tx_buf_, accepted>>
         => TxInOrder'
    /\ Decided /\ UNCHANGED <<isr, itx, rxne, tdr>> => Decided'
    /\ TcMeansSent /\ UNCHANGED <<tc, tdr, shift>> => TcMeansSent'
    /\ Draining /\ UNCHANGED <<pc, tx_buf_, tdr, shift, ibyte>> => Draining'
    /\ TicksWaited /\ UNCHANGED <<pc, m, s_tick_ms, waited>> => TicksWaited'
    /\ RxConserved /\ UNCHANGED <<loaded, rxne, stats_, cleared, got, rx_buf_>>
         => RxConserved'
BY DEF NoLostKick, TxInOrder, Decided, TcMeansSent, Draining, TicksWaited,
   Waiting, TimeoutNotEarly, RxConserved

(* Every step keeps the invariant; a step of the proof names the parts     *)
(* that the action touches, the others follow from SafetyFrames.           *)
LEMMA NextIInv == IInv /\ [Next]_vars => IInv'
<1> SUFFICES ASSUME IInv, [Next]_vars PROVE IInv'
  OBVIOUS
<1> USE UartAssumption DEF IInv, TypeOK, usartVars, rxRegs, txRegs, driver,
        time, mainVars, isrVars, history
<1>1. CASE InitCall
  <2>1. NoLostKick'
    BY <1>1 DEF InitCall, Goto, At, NoLostKick
  <2>2. Draining'
    BY <1>1 DEF InitCall, Goto, At, Draining
  <2>3. TicksWaited'
    BY <1>1 DEF InitCall, Goto, At, TicksWaited, Waiting, TimeoutNotEarly
  <2> QED BY <1>1, <2>1, <2>2, <2>3, NextTypeOK, SafetyFrames DEF InitCall,
         Goto
<1>2. CASE ConfigureUsart
  <2>1. NoLostKick'
    BY <1>2 DEF ConfigureUsart, Goto, At, NoLostKick
  <2>2. Draining'
    BY <1>2 DEF ConfigureUsart, Goto, At, Draining
  <2>3. TicksWaited'
    BY <1>2 DEF ConfigureUsart, Goto, At, TicksWaited, Waiting,
       TimeoutNotEarly
  <2> QED BY <1>2, <2>1, <2>2, <2>3, NextTypeOK, SafetyFrames DEF
         ConfigureUsart, Goto
<1>3. CASE ConfigureNvic
  <2>1. NoLostKick'
    BY <1>3 DEF ConfigureNvic, Goto, At, NoLostKick
  <2>2. Draining'
    BY <1>3 DEF ConfigureNvic, Goto, At, Draining
  <2>3. TicksWaited'
    BY <1>3 DEF ConfigureNvic, Goto, At, TicksWaited, Waiting, TimeoutNotEarly
  <2> QED BY <1>3, <2>1, <2>2, <2>3, NextTypeOK, SafetyFrames DEF
         ConfigureNvic, Goto
<1>4. CASE Register
  <2>1. NoLostKick'
    BY <1>4 DEF Register, Goto, At, NoLostKick
  <2>2. Draining'
    BY <1>4 DEF Register, Goto, At, Draining
  <2>3. TicksWaited'
    BY <1>4 DEF Register, Goto, At, TicksWaited, Waiting, TimeoutNotEarly
  <2> QED BY <1>4, <2>1, <2>2, <2>3, NextTypeOK, SafetyFrames DEF Register,
         Goto
<1>5. CASE InitDone
  <2>1. NoLostKick'
    BY <1>5 DEF InitDone, Return, At, NoLostKick
  <2>2. Draining'
    BY <1>5 DEF InitDone, Return, At, Draining
  <2>3. TicksWaited'
    BY <1>5 DEF InitDone, Return, At, TicksWaited, Waiting, TimeoutNotEarly
  <2> QED BY <1>5, <2>1, <2>2, <2>3, NextTypeOK, SafetyFrames DEF InitDone,
         Return
<1>6. ASSUME NEW n \in 1..MaxLen, SendCall(n)
      PROVE  IInv'
  <2>1. NoLostKick'
    BY <1>6 DEF SendCall, At, Call, NoLostKick
  <2>2. Draining'
    BY <1>6 DEF SendCall, At, Call, Draining
  <2>3. TicksWaited'
    BY <1>6 DEF SendCall, At, Call, TicksWaited, Waiting, TimeoutNotEarly
  <2> QED BY <1>6, <2>1, <2>2, <2>3, NextTypeOK, SafetyFrames DEF SendCall
<1>7. CASE SendRefused
  <2>1. NoLostKick'
    BY <1>7 DEF SendRefused, Return, At, NoLostKick
  <2>2. Draining'
    BY <1>7 DEF SendRefused, Return, At, Draining
  <2>3. TicksWaited'
    BY <1>7 DEF SendRefused, Return, At, TicksWaited, Waiting, TimeoutNotEarly
  <2>4. RxConserved'
    BY <1>7, Bumps DEF SendRefused, RxConserved
  <2> QED BY <1>7, <2>1, <2>2, <2>3, <2>4, NextTypeOK, SafetyFrames DEF
         SendRefused, Return
<1>8. CASE SendPush
  <2>1. NoLostKick'
    BY <1>8 DEF SendPush, Goto, At, NoLostKick
  <2>2. TxInOrder'
    <3>1. accepted \in Nat /\ TxPath \in Seq(Nat) /\ TxPath = Ordinals(accepted)
      BY PathType DEF HistoryTypeOK, TxInOrder, TxPath, Ordinals
    <3>2. TxPath' = Append(TxPath, accepted + 1)
      BY <1>8, <3>1, PathAppend DEF SendPush
    <3> QED BY <1>8, <3>1, <3>2, OrdinalsGrow DEF SendPush, TxInOrder, TxPath,
               Ordinals
  <2>3. Draining'
    BY <1>8 DEF SendPush, Goto, At, Draining
  <2>4. TicksWaited'
    BY <1>8 DEF SendPush, Goto, At, TicksWaited, Waiting, TimeoutNotEarly
  <2> QED BY <1>8, <2>1, <2>2, <2>3, <2>4, NextTypeOK, SafetyFrames DEF
         SendPush, Goto
<1>9. CASE KickLoad
  <2>1. NoLostKick'
    BY <1>9 DEF KickLoad, At, NoLostKick
  <2>2. Draining'
    BY <1>9 DEF KickLoad, At, Draining
  <2>3. TicksWaited'
    BY <1>9 DEF KickLoad, At, TicksWaited, Waiting, TimeoutNotEarly
  <2>4. RxConserved'
    BY <1>9, Bumps DEF KickLoad, RxConserved
  <2> QED BY <1>9, <2>1, <2>2, <2>3, <2>4, NextTypeOK, SafetyFrames DEF
         KickLoad
<1>10. CASE KickStore
  <2>1. NoLostKick'
    BY <1>10 DEF KickStore, Return, At, NoLostKick
  <2>2. Draining'
    BY <1>10 DEF KickStore, Return, At, Draining
  <2>3. TicksWaited'
    BY <1>10 DEF KickStore, Return, At, TicksWaited, Waiting, TimeoutNotEarly
  <2> QED BY <1>10, <2>1, <2>2, <2>3, NextTypeOK, SafetyFrames DEF KickStore,
         Return
<1>11. ASSUME NEW tmo \in Timeouts, FlushCall(tmo)
      PROVE  IInv'
  <2>1. NoLostKick'
    BY <1>11 DEF FlushCall, StartWait, At, Call, NoLostKick
  <2>2. Draining'
    BY <1>11 DEF FlushCall, StartWait, At, Call, Draining
  <2>3. TicksWaited'
    BY <1>11, NoTicks DEF FlushCall, StartWait, At, Call, TicksWaited,
       Waiting, TimeoutNotEarly, MainTypeOK, TimeTypeOK
  <2> QED BY <1>11, <2>1, <2>2, <2>3, NextTypeOK, SafetyFrames DEF FlushCall,
         StartWait
<1>12. ASSUME NEW tmo \in Timeouts, ReceiveCall(tmo)
      PROVE  IInv'
  <2>1. NoLostKick'
    BY <1>12 DEF ReceiveCall, StartWait, At, Call, NoLostKick
  <2>2. Draining'
    BY <1>12 DEF ReceiveCall, StartWait, At, Call, Draining
  <2>3. TicksWaited'
    BY <1>12, NoTicks DEF ReceiveCall, StartWait, At, Call, TicksWaited,
       Waiting, TimeoutNotEarly, MainTypeOK, TimeTypeOK
  <2> QED BY <1>12, <2>1, <2>2, <2>3, NextTypeOK, SafetyFrames DEF
         ReceiveCall, StartWait
<1>13. CASE TimeTest("drain_time", "drain")
  <2>1. NoLostKick'
    BY <1>13 DEF TimeTest, Goto, At, NoLostKick
  <2>2. Draining'
    BY <1>13 DEF TimeTest, Goto, At, Draining
  <2>3. TicksWaited'
    BY <1>13 DEF TimeTest, Goto, At, TicksWaited, Waiting, TimeoutNotEarly,
       Expired
  <2> QED BY <1>13, <2>1, <2>2, <2>3, NextTypeOK, SafetyFrames DEF TimeTest,
         Goto
<1>14. CASE TimeTest("tc_time", "tc")
  <2>1. NoLostKick'
    BY <1>14 DEF TimeTest, Goto, At, NoLostKick
  <2>2. Draining'
    BY <1>14 DEF TimeTest, Goto, At, Draining
  <2>3. TicksWaited'
    BY <1>14 DEF TimeTest, Goto, At, TicksWaited, Waiting, TimeoutNotEarly,
       Expired
  <2> QED BY <1>14, <2>1, <2>2, <2>3, NextTypeOK, SafetyFrames DEF TimeTest,
         Goto
<1>15. CASE TimeTest("pop_time", "pop")
  <2>1. NoLostKick'
    BY <1>15 DEF TimeTest, Goto, At, NoLostKick
  <2>2. Draining'
    BY <1>15 DEF TimeTest, Goto, At, Draining
  <2>3. TicksWaited'
    BY <1>15 DEF TimeTest, Goto, At, TicksWaited, Waiting, TimeoutNotEarly,
       Expired
  <2> QED BY <1>15, <2>1, <2>2, <2>3, NextTypeOK, SafetyFrames DEF TimeTest,
         Goto
<1>16. CASE ReturnFalse
  <2>1. NoLostKick'
    BY <1>16 DEF ReturnFalse, Return, At, NoLostKick
  <2>2. Draining'
    BY <1>16 DEF ReturnFalse, Return, At, Draining
  <2>3. TicksWaited'
    BY <1>16 DEF ReturnFalse, Return, At, TicksWaited, Waiting,
       TimeoutNotEarly
  <2> QED BY <1>16, <2>1, <2>2, <2>3, NextTypeOK, SafetyFrames DEF
         ReturnFalse, Return
<1>17. CASE FlushDrain
  <2>1. NoLostKick'
    BY <1>17 DEF FlushDrain, Goto, At, NoLostKick
  <2>2. Draining'
    BY <1>17 DEF FlushDrain, Goto, At, Draining
  <2>3. TicksWaited'
    BY <1>17 DEF FlushDrain, Goto, At, TicksWaited, Waiting, TimeoutNotEarly
  <2> QED BY <1>17, <2>1, <2>2, <2>3, NextTypeOK, SafetyFrames DEF FlushDrain,
         Goto
<1>18. CASE FlushTc
  <2>1. NoLostKick'
    BY <1>18 DEF FlushTc, Goto, At, NoLostKick
  <2>2. Draining'
    BY <1>18 DEF FlushTc, Goto, At, Draining, TcMeansSent, IsrTypeOK
  <2>3. TicksWaited'
    BY <1>18 DEF FlushTc, Goto, At, TicksWaited, Waiting, TimeoutNotEarly
  <2> QED BY <1>18, <2>1, <2>2, <2>3, NextTypeOK, SafetyFrames DEF FlushTc,
         Goto, ReadSR
<1>19. CASE FlushTrue
  <2>1. NoLostKick'
    BY <1>19 DEF FlushTrue, Return, At, NoLostKick
  <2>2. Draining'
    BY <1>19 DEF FlushTrue, Return, At, Draining
  <2>3. TicksWaited'
    BY <1>19 DEF FlushTrue, Return, At, TicksWaited, Waiting, TimeoutNotEarly
  <2> QED BY <1>19, <2>1, <2>2, <2>3, NextTypeOK, SafetyFrames DEF FlushTrue,
         Return
<1>20. CASE ReceivePop
  <2>1. NoLostKick'
    BY <1>20 DEF ReceivePop, Return, At, NoLostKick
  <2>2. Draining'
    BY <1>20 DEF ReceivePop, Return, At, Draining
  <2>3. TicksWaited'
    BY <1>20 DEF ReceivePop, Return, At, TicksWaited, Waiting, TimeoutNotEarly
  <2>4. RxConserved'
    <3>1. Len(got') = Len(got) + 1 /\ Len(rx_buf_') = Len(rx_buf_) - 1
      BY <1>20, HeadTails, Appends DEF ReceivePop, DriverTypeOK, HistoryTypeOK
    <3>2. Len(got) \in Nat /\ Len(rx_buf_) \in Nat
      BY Lengths DEF DriverTypeOK, HistoryTypeOK
    <3> QED BY <1>20, <3>1, <3>2 DEF ReceivePop, RxConserved, usartVars, rxRegs
  <2> QED BY <1>20, <2>1, <2>2, <2>3, <2>4, NextTypeOK, SafetyFrames DEF
         ReceivePop, Return
<1>21. CASE ReceiveEmpty
  <2>1. NoLostKick'
    BY <1>21 DEF ReceiveEmpty, Goto, At, NoLostKick
  <2>2. Draining'
    BY <1>21 DEF ReceiveEmpty, Goto, At, Draining
  <2>3. TicksWaited'
    BY <1>21 DEF ReceiveEmpty, Goto, At, TicksWaited, Waiting, TimeoutNotEarly
  <2> QED BY <1>21, <2>1, <2>2, <2>3, NextTypeOK, SafetyFrames DEF
         ReceiveEmpty, Goto
<1>22. CASE ErrorsCall
  <2>1. NoLostKick'
    BY <1>22 DEF ErrorsCall, Return, At, Call, NoLostKick
  <2>2. Draining'
    BY <1>22 DEF ErrorsCall, Return, At, Call, Draining
  <2>3. TicksWaited'
    BY <1>22 DEF ErrorsCall, Return, At, Call, TicksWaited, Waiting,
       TimeoutNotEarly
  <2> QED BY <1>22, <2>1, <2>2, <2>3, NextTypeOK, SafetyFrames DEF ErrorsCall,
         Return, ReadSR
<1>23. ASSUME NEW f \in Flags, CountLoad(f)
      PROVE  IInv'
  <2>1. NoLostKick'
    BY <1>23 DEF CountLoad, At, NoLostKick
  <2>2. Draining'
    BY <1>23 DEF CountLoad, At, Draining
  <2>3. TicksWaited'
    BY <1>23 DEF CountLoad, At, TicksWaited, Waiting, TimeoutNotEarly
  <2> QED BY <1>23, <2>1, <2>2, <2>3, NextTypeOK, SafetyFrames DEF CountLoad
<1>24. ASSUME NEW f \in Flags, CountStore(f)
      PROVE  IInv'
  <2>1. NoLostKick'
    BY <1>24 DEF CountStore, At, NoLostKick
  <2>2. Draining'
    BY <1>24 DEF CountStore, At, Draining
  <2>3. TicksWaited'
    BY <1>24 DEF CountStore, At, TicksWaited, Waiting, TimeoutNotEarly
  <2>4. RxConserved'
    <3>1. /\ stats_["bytes_received"]' = stats_["bytes_received"]
          /\ stats_["rx_buffer_overflows"]' = stats_["rx_buffer_overflows"]
      BY <1>24 DEF CountStore, Counters, CounterOf, Flags, DriverTypeOK
    <3> QED BY <1>24, <3>1 DEF CountStore, RxConserved
  <2> QED BY <1>24, <2>1, <2>2, <2>3, <2>4, NextTypeOK, SafetyFrames DEF
         CountStore
<1>25. CASE ErrorsClear
  <2>1. NoLostKick'
    BY <1>25 DEF ErrorsClear, Return, ClearErrors, At, NoLostKick
  <2>2. Draining'
    BY <1>25 DEF ErrorsClear, Return, ClearErrors, At, Draining
  <2>3. TicksWaited'
    BY <1>25 DEF ErrorsClear, Return, ClearErrors, At, TicksWaited, Waiting,
       TimeoutNotEarly
  <2>4. Decided'
    BY <1>25 DEF ErrorsClear, Decided, At
  <2>5. RxConserved'
    BY <1>25, ClearConserves DEF ErrorsClear
  <2> QED BY <1>25, <2>1, <2>2, <2>3, <2>4, <2>5, NextTypeOK, SafetyFrames DEF
     ErrorsClear, Return, ClearErrors, ReadDR
<1>26. CASE IsrEnter
  <2>1. Decided'
    BY <1>26 DEF IsrEnter, Decided
  <2> QED BY <1>26, <2>1, NextTypeOK, SafetyFrames DEF IsrEnter
<1>27. CASE IsrUnregistered
  <2>1. TxInOrder'
    BY <1>27 DEF IsrUnregistered, IsrExit, TxInOrder, IsrTypeOK
  <2>2. Decided'
    BY <1>27 DEF IsrUnregistered, IsrExit, Decided
  <2>3. Draining'
    BY <1>27 DEF IsrUnregistered, IsrExit, Draining, IsrTypeOK
  <2> QED BY <1>27, <2>1, <2>2, <2>3, NextTypeOK, SafetyFrames DEF
         IsrUnregistered, IsrExit
<1>28. CASE IsrErrors
  <2>1. Decided'
    BY <1>28 DEF IsrErrors, Decided
  <2>2. RxConserved'
    <3>1. /\ stats_["bytes_received"]' = stats_["bytes_received"]
          /\ stats_["rx_buffer_overflows"]' = stats_["rx_buffer_overflows"]
      <4>1. err \subseteq Flags
        BY DEF UsartTypeOK
      <4>2. \A f \in err :
               CounterOf[f] \notin {"bytes_received", "rx_buffer_overflows"}
        BY <4>1 DEF CounterOf, Flags
      <4>3. {"bytes_received", "rx_buffer_overflows"} \subseteq Counters
        BY DEF Counters
      <4> QED BY <1>28, <4>2, <4>3 DEF IsrErrors
    <3> QED BY <1>28, <3>1 DEF IsrErrors, ReadSR, RxConserved, history
  <2> QED BY <1>28, <2>1, <2>2, NextTypeOK, SafetyFrames DEF IsrErrors, ReadSR
<1>29. CASE IsrClear
  <2>1. Decided'
    BY <1>29 DEF IsrClear, Decided
  <2>2. RxConserved'
    BY <1>29, ClearConserves DEF IsrClear
  <2> QED BY <1>29, <2>1, <2>2, NextTypeOK, SafetyFrames DEF IsrClear,
         ClearErrors, ReadDR
<1>30. CASE IsrDecide
  <2>1. Decided'
    BY <1>30 DEF IsrDecide, Decided, TXE, ReadSR, txRegs
  <2> QED BY <1>30, <2>1, NextTypeOK, SafetyFrames DEF IsrDecide, ReadSR
<1>31. CASE IsrReceive
  <2>1. Decided'
    BY <1>31 DEF IsrReceive, Decided, txRegs
  <2>2. RxConserved'
    <3>1. rxne /\ ~rxne'
      BY <1>31 DEF IsrReceive, ReadDR, Decided
    <3>2. /\ loaded = 1 + stats_["bytes_received"]
                        + stats_["rx_buffer_overflows"] + cleared
          /\ stats_["bytes_received"] = Len(got) + Len(rx_buf_)
      BY <3>1 DEF RxConserved
    <3>3. CASE /\ rx_buf_' = Append(rx_buf_, rdr)
               /\ stats_' = Bump(stats_, "bytes_received")
      <4>1. Len(rx_buf_') = Len(rx_buf_) + 1
        BY <3>3, Appends DEF DriverTypeOK, UsartTypeOK
      <4>2. /\ stats_["bytes_received"]' = stats_["bytes_received"] + 1
            /\ stats_["rx_buffer_overflows"]' = stats_["rx_buffer_overflows"]
        BY <3>3, Bumps
      <4>3. UNCHANGED <<loaded, cleared, got>>
        BY <1>31 DEF IsrReceive
      <4>4. /\ loaded' = 0 + stats_["bytes_received"]'
                           + stats_["rx_buffer_overflows"]' + cleared'
            /\ stats_["bytes_received"]' = Len(got') + Len(rx_buf_')
        BY <3>2, <4>1, <4>2, <4>3, RxNumbers
      <4> QED BY <3>1, <4>4 DEF RxConserved
    <3>4. CASE /\ UNCHANGED rx_buf_
               /\ stats_' = Bump(stats_, "rx_buffer_overflows")
      <4>1. /\ stats_["bytes_received"]' = stats_["bytes_received"]
            /\ stats_["rx_buffer_overflows"]'
                 = stats_["rx_buffer_overflows"] + 1
        BY <3>4, Bumps
      <4>2. UNCHANGED <<loaded, cleared, got>>
        BY <1>31 DEF IsrReceive
      <4>3. loaded' = 0 + stats_["bytes_received"]'
                        + stats_["rx_buffer_overflows"]' + cleared'
        BY <3>2, <4>1, <4>2, RxNumbers
      <4> QED BY <3>1, <3>2, <3>4, <4>1, <4>2, <4>3 DEF RxConserved
    <3> QED BY <1>31, <3>3, <3>4 DEF IsrReceive
  <2> QED BY <1>31, <2>1, <2>2, NextTypeOK, SafetyFrames DEF IsrReceive,
         ReadDR
<1>32. CASE IsrPop
  <2>1. NoLostKick'
    BY <1>32 DEF IsrPop, NoLostKick
  <2>2. TxInOrder'
    <3>1. ibyte = <<>>
      BY <1>32 DEF IsrPop, IsrTypeOK
    <3> QED BY <1>32, <3>1, PathPop DEF IsrPop, TxInOrder, TxPath
  <2>3. Decided'
    BY <1>32 DEF IsrPop, Decided
  <2>4. Draining'
    BY <1>32 DEF IsrPop, Draining
  <2> QED BY <1>32, <2>1, <2>2, <2>3, <2>4, NextTypeOK, SafetyFrames DEF
         IsrPop
<1>33. CASE IsrWrite
  <2>1. TxInOrder'
    <3>1. tdr = <<>> /\ tdr' = ibyte /\ ibyte' = <<>>
      BY <1>33, ByteIs DEF IsrWrite, WriteDR, Decided, IsrTypeOK
    <3> QED BY <1>33, <3>1, PathWrite DEF IsrWrite, WriteDR, TxInOrder, TxPath
  <2>2. Decided'
    BY <1>33 DEF IsrWrite, WriteDR, Decided
  <2>3. TcMeansSent'
    BY <1>33 DEF IsrWrite, WriteDR, TcMeansSent
  <2>4. Draining'
    BY <1>33 DEF IsrWrite, WriteDR, Draining, IsrTypeOK
  <2> QED BY <1>33, <2>1, <2>2, <2>3, <2>4, NextTypeOK, SafetyFrames DEF
         IsrWrite, WriteDR
<1>34. CASE IsrDrained
  <2>1. NoLostKick'
    BY <1>34 DEF IsrDrained, NoLostKick
  <2>2. Decided'
    BY <1>34 DEF IsrDrained, Decided
  <2> QED BY <1>34, <2>1, <2>2, NextTypeOK, SafetyFrames DEF IsrDrained
<1>35. CASE IsrReturn
  <2>1. TxInOrder'
    BY <1>35 DEF IsrReturn, IsrExit, TxInOrder, IsrTypeOK
  <2>2. Decided'
    BY <1>35 DEF IsrReturn, IsrExit, Decided
  <2>3. Draining'
    BY <1>35 DEF IsrReturn, IsrExit, Draining, IsrTypeOK
  <2> QED BY <1>35, <2>1, <2>2, <2>3, NextTypeOK, SafetyFrames DEF IsrReturn,
         IsrExit
<1>36. CASE SysTick
  <2>1. TicksWaited'
    <3>1. CASE Waiting
      <4>1. waited + 1 < TickMod /\ m.start \in 0..TickMod-1
        BY <1>36, <3>1 DEF SysTick, TimeTypeOK, MainTypeOK
      <4>2. (s_tick_ms' - m.start) % TickMod = waited + 1
        <5>1. /\ (s_tick_ms - m.start) % TickMod = waited
              /\ s_tick_ms \in 0..TickMod-1
          BY <3>1 DEF TicksWaited, TimeTypeOK
        <5>2. s_tick_ms' = (s_tick_ms + 1) % TickMod
          BY <1>36 DEF SysTick
        <5> QED BY <4>1, <5>1, <5>2, OneTick
      <4> QED BY <1>36, <3>1, <4>2 DEF SysTick, TicksWaited, Waiting,
                 TimeoutNotEarly
    <3>2. CASE ~Waiting
      BY <1>36, <3>2 DEF SysTick, TicksWaited, Waiting, TimeoutNotEarly
    <3> QED BY <3>1, <3>2
  <2> QED BY <1>36, <2>1, NextTypeOK, SafetyFrames DEF SysTick
<1>37. ASSUME NEW bad \in LineFaults, Line(bad)
      PROVE  IInv'
  <2>1. Decided'
    BY <1>37 DEF Line, LineFrame, Decided, isrVars, txRegs
  <2>2. RxConserved'
    <3>1. UNCHANGED <<cleared, stats_, got, rx_buf_>>
      BY <1>37 DEF Line
    <3>2. CASE ~rxne /\ rxne' /\ loaded' = loaded + 1
      BY <3>1, <3>2, RxNumbers DEF RxConserved
    <3>3. CASE UNCHANGED <<rxne, loaded>>
      BY <3>1, <3>3 DEF RxConserved
    <3> QED BY <1>37, <3>2, <3>3 DEF Line, LineFrame
  <2> QED BY <1>37, <2>1, <2>2, NextTypeOK, SafetyFrames DEF Line, LineFrame
<1>38. CASE Shift
  <2>1. TxInOrder'
    <3>1. UNCHANGED <<ibyte, tx_buf_, accepted>>
      BY <1>38 DEF Shift
    <3> QED BY <1>38, <3>1, PathShift DEF Shift, TxInOrder, TxPath
  <2>2. Decided'
    BY <1>38 DEF Shift, ShiftLoad, ShiftDone, Decided
  <2>3. TcMeansSent'
    <3>1. CASE ShiftLoad
      BY <3>1 DEF ShiftLoad, TcMeansSent
    <3>2. CASE ShiftDone /\ tdr = <<>>
      BY <3>2 DEF ShiftDone, TcMeansSent
    <3>3. CASE ShiftDone /\ tdr # <<>>
      BY <3>3 DEF ShiftDone, TcMeansSent, TXE, UsartTypeOK
    <3> QED BY <1>38, <3>1, <3>2, <3>3 DEF Shift
  <2>4. Draining'
    BY <1>38 DEF Shift, ShiftLoad, ShiftDone, Draining
  <2> QED BY <1>38, <2>1, <2>2, <2>3, <2>4, NextTypeOK, SafetyFrames DEF
         Shift, ShiftLoad, ShiftDone
<1>39. CASE UNCHANGED vars
  BY <1>39, NextTypeOK, SafetyFrames DEF vars
<1> QED BY <1>1, <1>2, <1>3, <1>4, <1>5, <1>6, <1>7, <1>8, <1>9, <1>10, <1>11,
    <1>12, <1>13, <1>14, <1>15, <1>16, <1>17, <1>18, <1>19, <1>20, <1>21,
    <1>22, <1>23, <1>24, <1>25, <1>26, <1>27, <1>28, <1>29, <1>30, <1>31,
    <1>32, <1>33, <1>34, <1>35, <1>36, <1>37, <1>38, <1>39
    DEF Next, CallBegins, CallGoesOn, Isr

LEMMA AlwaysIInv == Spec => []IInv
BY InitIInv, NextIInv, PTL DEF Spec

-----------------------------------------------------------------------------

(* Bytes never wait in the ring with the TXE interrupt off, however main's *)
(* and the handler's read-modify-writes of CR1 interleave.                 *)
THEOREM KickIsNeverLost == Spec => []NoLostKick
<1>1. IInv => NoLostKick
  BY DEF IInv
<1> QED BY <1>1, AlwaysIInv, PTL

(* Bytes leave the pin in the order send() accepted them, none lost or     *)
(* repeated.                                                               *)
THEOREM BytesAreSentInOrder == Spec => []TxInOrder
<1>1. IInv => TxInOrder
  BY DEF IInv
<1> QED BY <1>1, AlwaysIInv, PTL

(* When flush_tx() returns true, every accepted byte has left the pin.     *)
THEOREM FlushedIsSent == Spec => []FlushMeansSent
<1>1. IInv => FlushMeansSent
  <2> SUFFICES ASSUME IInv, pc = "flushed" PROVE Len(wire) = accepted
    BY DEF FlushMeansSent
  <2>1. /\ shift = <<>> /\ tdr = <<>> /\ ibyte = <<>> /\ tx_buf_ = <<>>
        /\ wire \in Seq(Nat) /\ accepted \in Nat
    BY DEF IInv, Draining, TypeOK, UsartTypeOK, HistoryTypeOK
  <2>2. wire \o shift \o tdr \o ibyte \o tx_buf_ = wire
    BY <2>1, ConcatEmpty
  <2>3. wire = Ordinals(accepted)
    BY <2>2 DEF IInv, TxInOrder, Ordinals
  <2> QED BY <2>1, <2>3 DEF Ordinals
<1> QED BY <1>1, AlwaysIInv, PTL

(* A wait never ends before its time, for any width of the tick counter    *)
(* and wherever it wraps.                                                  *)
THEOREM WaitsAreNotCutShort == Spec => []TimeoutNotEarly
<1>1. IInv => TimeoutNotEarly
  BY DEF IInv, TicksWaited
<1> QED BY <1>1, AlwaysIInv, PTL

(* Every frame the receiver took in is accounted for exactly once.         *)
THEOREM FramesAreConserved == Spec => []RxConserved
<1>1. IInv => RxConserved
  BY DEF IInv
<1> QED BY <1>1, AlwaysIInv, PTL
=============================================================================
