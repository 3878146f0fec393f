---------------------------- MODULE Demo_proofs ----------------------------
(***************************************************************************)
(* Theorems about receive_line() and get_stats() as the demo uses them,    *)
(* for any ring sizes, arguments, bytes and width of the tick counter.     *)
(***************************************************************************)
EXTENDS Demo, SequenceTheorems, TLAPS

-----------------------------------------------------------------------------
(* Unsigned differences of ticks *)

LEMMA Quotients ==
    \A x \in Nat : /\ x % TickMod \in 0..TickMod-1
                   /\ x \div TickMod \in Nat
                   /\ x = TickMod * (x \div TickMod) + (x % TickMod)
BY LineAssumption

LEMMA Products ==
    \A p, q \in Nat : /\ p = q => TickMod * p = TickMod * q
                      /\ p > q => TickMod * p >= TickMod * q + TickMod
<1> SUFFICES ASSUME NEW p \in Nat, NEW q \in Nat, p > q
             PROVE  TickMod * p >= TickMod * q + TickMod
  BY LineAssumption
<1>1. PICK k \in Nat : p = q + 1 + k
  <2>1. p - q - 1 \in Nat /\ p = q + 1 + (p - q - 1)
    OBVIOUS
  <2> QED BY <2>1
<1>2. TickMod * p = TickMod * q + TickMod + TickMod * k
  BY <1>1, LineAssumption
<1>3. TickMod * k >= 0
  BY LineAssumption
<1> QED BY <1>2, <1>3, LineAssumption

(* The difference of two readings of the counter is never more than the    *)
(* ticks between them, and no less while they are fewer than its range.    *)
LEMMA TicksBetween ==
    \A x, y \in Nat : y <= x =>
      LET d == ((x % TickMod) - (y % TickMod)) % TickMod
      IN  d \in Nat /\ d <= x - y /\ (x - y < TickMod => d = x - y)
<1> SUFFICES ASSUME NEW x \in Nat, NEW y \in Nat, y <= x
             PROVE  LET d == ((x % TickMod) - (y % TickMod)) % TickMod
                    IN  /\ d \in Nat /\ d <= x - y
                        /\ x - y < TickMod => d = x - y
  OBVIOUS
<1> DEFINE rx == x % TickMod
           ry == y % TickMod
           qx == x \div TickMod
           qy == y \div TickMod
<1>1. rx \in 0..TickMod-1 /\ ry \in 0..TickMod-1
  BY Quotients
<1>2. qx \in Nat /\ x = TickMod * qx + rx
  BY Quotients
<1>3. qy \in Nat /\ y = TickMod * qy + ry
  BY Quotients
<1>4. (rx - ry) % TickMod = IF ry <= rx THEN rx - ry ELSE (rx - ry) + TickMod
  <2> HIDE DEF rx, ry
  <2> QED BY <1>1, LineAssumption
<1>5. TickMod * qx \in Nat /\ TickMod * qy \in Nat
  BY LineAssumption
<1> HIDE DEF rx, ry, qx, qy
<1>6. CASE qx = qy
  <2>1. TickMod * qx = TickMod * qy
    BY <1>6
  <2>2. rx - ry = x - y
    BY <1>1, <1>2, <1>3, <1>5, <2>1
  <2> QED BY <1>1, <1>4, <2>2, LineAssumption DEF rx, ry
<1>7. CASE qx > qy
  <2>1. TickMod * qx >= TickMod * qy + TickMod
    BY <1>2, <1>3, <1>7, Products
  <2>2. x - y >= TickMod + (rx - ry)
    BY <1>1, <1>2, <1>3, <1>5, <2>1, LineAssumption
  <2>3. ry <= rx => x - y >= TickMod
    BY <1>1, <2>2, LineAssumption
  <2>4. ry > rx /\ x - y < TickMod => qx = qy + 1
    <3> SUFFICES ASSUME x - y < TickMod, ry > rx, qx # qy + 1 PROVE FALSE
      OBVIOUS
    <3>1. TickMod * qx >= TickMod * (qy + 1) + TickMod
      BY <1>2, <1>3, <1>7, Products
    <3>2. TickMod * (qy + 1) = TickMod * qy + TickMod
      BY <1>3, LineAssumption
    <3> QED BY <1>1, <1>2, <1>3, <1>5, <3>1, <3>2, LineAssumption
  <2>5. qx = qy + 1 => TickMod * qx = TickMod * qy + TickMod
    BY <1>3, LineAssumption
  <2>6. ry > rx /\ x - y < TickMod => x - y = (rx - ry) + TickMod
    BY <1>1, <1>2, <1>3, <1>5, <2>4, <2>5, LineAssumption
  <2> QED BY <1>1, <1>4, <2>2, <2>3, <2>6, LineAssumption DEF rx, ry
<1>8. CASE qx < qy
  <2>1. TickMod * qy >= TickMod * qx + TickMod
    BY <1>2, <1>3, <1>8, Products
  <2> QED BY <1>1, <1>2, <1>3, <1>5, <2>1, LineAssumption
<1> QED BY <1>2, <1>3, <1>6, <1>7, <1>8

-----------------------------------------------------------------------------
(* Steps and types *)

(* Nothing happens to receive_line(), though main may have made a step. *)
Quiet == /\ UNCHANGED <<uartVars, waited, lpc, l, lineHistory>>
         /\ slack' \in {0, slack}

ReaderSteps ==
    \/ Quiet \/ LineGoesOn \/ LineResult \/ SysTick
    \/ ReceiveLine(args.max_len, args.tmo) \/ \E b \in Bytes : Arrive(b)

LEMMA Steps == [Next]_vars => args' = args /\ ReaderSteps
<1> SUFFICES ASSUME [Next]_vars PROVE args' = args /\ ReaderSteps
  OBVIOUS
<1> USE DEF ReaderSteps
<1>1. CASE SendByte \/ Stats \/ PrintStats \/ \E c \in Counters : Copy(c)
  BY <1>1 DEF SendByte, Stats, PrintStats, Copy, Main, Quiet
<1>2. CASE Transmit \/ UNCHANGED vars
  BY <1>2 DEF Transmit, vars, lineVars, timeVars, demoVars, Quiet
<1>3. CASE LineStep
  BY <1>3 DEF LineStep, demoVars
<1>4. CASE CallLine \/ Reply
  BY <1>4 DEF CallLine, Reply
<1>5. CASE SysTick /\ Around
  BY <1>5 DEF Around, demoVars
<1>6. CASE \E b \in Bytes : Arrive(b) /\ Around
  BY <1>6 DEF Around, demoVars
<1> QED BY <1>1, <1>2, <1>3, <1>4, <1>5, <1>6 DEF Next, MainSteps

(* The look that LoopHead took is past when receive() begins. *)
LookedBefore == lpc = "receive" => looked <= waited

ReaderTypes == LineTypeOK /\ Seen <= MaxFrames /\ args \in Args /\ LookedBefore

LEMMA EmptySeqs == <<>> \in Seq(Bytes) /\ <<>> \in Seq(Others) /\ Len(<<>>) = 0
OBVIOUS

LEMMA Appends ==
    ASSUME NEW S, NEW s \in Seq(S), NEW e \in S
    PROVE  Append(s, e) \in Seq(S) /\ Len(Append(s, e)) = Len(s) + 1
OBVIOUS

LEMMA HeadTails ==
    ASSUME NEW S, NEW s \in Seq(S), s # <<>>
    PROVE  /\ Head(s) \in S /\ Tail(s) \in Seq(S)
           /\ Len(Tail(s)) = Len(s) - 1
OBVIOUS

LEMMA CounterTypes ==
    ASSUME ReaderTypes
    PROVE  /\ stats_["bytes_received"] \in Nat
           /\ stats_["rx_buffer_overflows"] \in Nat
BY LineAssumption DEF ReaderTypes, LineTypeOK, Counters

LEMMA InitReaderTypes == Init => ReaderTypes
BY LineAssumption, EmptySeqs
   DEF Init, LineInit, ReaderTypes, LookedBefore, LineTypeOK, NoCall, Seen, Counters

(* Each part of the types has its own variables. *)
BufferTypes == /\ rx_buf_ \in Seq(Bytes) /\ Len(rx_buf_) <= N - 1
               /\ stats_ \in [Counters -> 0..MaxFrames]
               /\ Seen <= MaxFrames
TimeTypes == slack \in 0..Slack /\ waited \in Nat
Locals == [line : Seq(Others), max_len : Nat, tmo : Nat,
           start : 0..TickMod-1, rtmo : Nat, rstart : 0..TickMod-1]
CallTypes ==
    /\ lpc \in {"idle", "head", "receive", "pop", "time", "returned"}
    /\ l \in Locals
    /\ segment \in Seq(Bytes) /\ looked \in Nat /\ due \in Nat
    /\ cause \in {"none", "line", "timeout", "full"}

LEMMA TypeParts ==
    ReaderTypes <=> /\ BufferTypes /\ TimeTypes /\ CallTypes
                    /\ LookedBefore /\ args \in Args
BY DEF ReaderTypes, LineTypeOK, BufferTypes, TimeTypes, CallTypes, Locals

(* What is done to the locals of a call. *)
LEMMA LocalUpdates ==
    /\ \A max_len, tmo \in Nat, start \in 0..TickMod-1 :
         [NoCall EXCEPT !.max_len = max_len, !.tmo = tmo, !.start = start]
           \in Locals
    /\ NoCall \in Locals
    /\ \A x \in Locals :
         /\ [x EXCEPT !.rtmo = 0, !.rstart = 0] \in Locals
         /\ \A d \in Nat : [x EXCEPT !.rtmo = d] \in Locals
         /\ \A t \in 0..TickMod-1 : [x EXCEPT !.rstart = t] \in Locals
         /\ \A b \in Others :
              [[x EXCEPT !.rtmo = 0, !.rstart = 0] EXCEPT !.line = Append(@, b)]
                \in Locals
<1>0. 0 \in Nat /\ 0 \in 0..TickMod-1
  BY LineAssumption
<1>1. \A x \in Locals, v \in Nat : /\ [x EXCEPT !.max_len = v] \in Locals
                                  /\ [x EXCEPT !.tmo = v] \in Locals
                                  /\ [x EXCEPT !.rtmo = v] \in Locals
  BY DEF Locals
<1>2. \A x \in Locals, t \in 0..TickMod-1 :
         [x EXCEPT !.start = t] \in Locals /\ [x EXCEPT !.rstart = t] \in Locals
  BY DEF Locals
<1>3. \A x \in Locals, s \in Seq(Others) : [x EXCEPT !.line = s] \in Locals
  BY DEF Locals
<1>4. NoCall \in Locals
  BY <1>0, EmptySeqs DEF NoCall, Locals
<1>5. ASSUME NEW x \in Locals
      PROVE  [x EXCEPT !.rtmo = 0, !.rstart = 0] \in Locals
  <2>1. [x EXCEPT !.rtmo = 0, !.rstart = 0]
          = [[x EXCEPT !.rtmo = 0] EXCEPT !.rstart = 0]
    OBVIOUS
  <2> QED BY <1>0, <1>1, <1>2, <2>1
<1>6. ASSUME NEW max_len \in Nat, NEW tmo \in Nat, NEW start \in 0..TickMod-1
      PROVE  [NoCall EXCEPT !.max_len = max_len, !.tmo = tmo, !.start = start]
               \in Locals
  <2>1. [NoCall EXCEPT !.max_len = max_len, !.tmo = tmo, !.start = start]
          = [[[NoCall EXCEPT !.max_len = max_len] EXCEPT !.tmo = tmo]
                      EXCEPT !.start = start]
    OBVIOUS
  <2> QED BY <1>1, <1>2, <1>4, <2>1
<1>7. ASSUME NEW x \in Locals, NEW b \in Others
      PROVE  [[x EXCEPT !.rtmo = 0, !.rstart = 0] EXCEPT !.line = Append(@, b)]
               \in Locals
  <2> DEFINE y == [x EXCEPT !.rtmo = 0, !.rstart = 0]
  <2>1. y \in Locals
    BY <1>5
  <2> HIDE DEF y
  <2>2. Append(y.line, b) \in Seq(Others)
    BY <2>1, Appends DEF Locals
  <2>3. [y EXCEPT !.line = Append(y.line, b)] \in Locals
    BY <1>3, <2>1, <2>2
  <2> QED BY <2>3 DEF y
<1> QED BY <1>1, <1>2, <1>4, <1>5, <1>6, <1>7

LEMMA ArriveTypes ==
    ASSUME BufferTypes, NEW b \in Bytes, Arrive(b)
    PROVE  BufferTypes'
<1> USE LineAssumption DEF BufferTypes
<1>1. "bytes_received" \in Counters /\ "rx_buffer_overflows" \in Counters
      /\ \A c \in Counters : c \in {"bytes_received", "rx_buffer_overflows"}
  BY DEF Counters
<1>2. CASE /\ Len(rx_buf_) < N - 1
           /\ rx_buf_' = Append(rx_buf_, b)
           /\ stats_' = [stats_ EXCEPT !["bytes_received"] = @ + 1]
  <2>1. rx_buf_' \in Seq(Bytes) /\ Len(rx_buf_') = Len(rx_buf_) + 1
    BY <1>2, Appends
  <2>2. stats_'["bytes_received"] = stats_["bytes_received"] + 1
        /\ stats_'["rx_buffer_overflows"] = stats_["rx_buffer_overflows"]
    BY <1>1, <1>2
  <2> QED BY <1>1, <1>2, <2>1, <2>2 DEF Arrive, Seen
<1>3. CASE /\ stats_' = [stats_ EXCEPT !["rx_buffer_overflows"] = @ + 1]
           /\ UNCHANGED rx_buf_
  <2>1. stats_'["bytes_received"] = stats_["bytes_received"]
        /\ stats_'["rx_buffer_overflows"] = stats_["rx_buffer_overflows"] + 1
    BY <1>1, <1>3
  <2> QED BY <1>1, <1>3, <2>1 DEF Arrive, Seen
<1> QED BY <1>2, <1>3 DEF Arrive

(* No loop of the reader is ever without the arguments it was called with. *)
LEMMA ElapsedTypes ==
    ASSUME CallTypes, TimeTypes, NEW t \in 0..TickMod-1
    PROVE  Elapsed(t) \in 0..TickMod-1 /\ s_tick_ms \in 0..TickMod-1
<1>1. l.start + waited \in Nat
  BY LineAssumption DEF CallTypes, TimeTypes, Locals
<1>2. s_tick_ms \in 0..TickMod-1
  BY <1>1, LineAssumption DEF s_tick_ms
<1>3. s_tick_ms - t \in Int
  BY <1>2
<1> QED BY <1>2, <1>3, LineAssumption DEF Elapsed

(* The locals of a call are of their types after any of its steps. *)
LEMMA LocalsStay ==
    ASSUME CallTypes, TimeTypes, BufferTypes, args \in Args, ReaderSteps
    PROVE  l' \in Locals
<1> USE DEF Goto
<1>0. l \in Locals /\ 0 \in 0..TickMod-1
  BY LineAssumption DEF CallTypes
<1>1. CASE Quiet \/ SysTick \/ \E b \in Bytes : Arrive(b)
  BY <1>0, <1>1 DEF Quiet, SysTick, Arrive
<1>2. CASE ReceiveLine(args.max_len, args.tmo)
  <2>1. args.max_len \in Nat /\ args.tmo \in Nat
    BY DemoAssumption
  <2> DEFINE m == args.max_len
             t == args.tmo
  <2>2. PICK start \in 0..TickMod-1 :
          l' = [NoCall EXCEPT !.max_len = m, !.tmo = t, !.start = start]
    BY <1>2 DEF ReceiveLine
  <2>3. m \in Nat /\ t \in Nat
    BY <2>1
  <2> HIDE DEF m, t
  <2> QED BY <2>2, <2>3, LocalUpdates
<1>3. CASE LoopHead
  <2>1. l.tmo \in Nat
    BY <1>0 DEF Locals
  <2>2. Elapsed(l.start) \in 0..TickMod-1
    BY <1>0, ElapsedTypes DEF Locals
  <2>3. Elapsed(l.start) < l.tmo => l.tmo - Elapsed(l.start) \in Nat
    BY <2>1, <2>2, LineAssumption
  <2>4. \/ l' = [l EXCEPT !.rtmo = 0, !.rstart = 0]
        \/ /\ Elapsed(l.start) < l.tmo
           /\ l' = [l EXCEPT !.rtmo = l.tmo - Elapsed(l.start)]
    BY <1>3 DEF LoopHead, GiveUp
  <2> DEFINE d == l.tmo - Elapsed(l.start)
  <2>5. l' = [l EXCEPT !.rtmo = 0, !.rstart = 0]
        \/ (d \in Nat /\ l' = [l EXCEPT !.rtmo = d])
    BY <2>3, <2>4
  <2> HIDE DEF d
  <2> QED BY <1>0, <2>5, LocalUpdates
<1>4. CASE Receive
  <2>1. s_tick_ms \in 0..TickMod-1
    BY <1>0, ElapsedTypes
  <2>2. l' = [l EXCEPT !.rstart = s_tick_ms]
    BY <1>4 DEF Receive
  <2> QED BY <1>0, <2>1, <2>2, LocalUpdates
<1>5. CASE Pop
  <2>1. Head(rx_buf_) \in Bytes
    BY <1>5, HeadTails DEF Pop, BufferTypes
  <2> DEFINE b == Head(rx_buf_)
  <2>2. \/ l' = [l EXCEPT !.rtmo = 0, !.rstart = 0]
        \/ /\ b \in Others
           /\ l' = [[l EXCEPT !.rtmo = 0, !.rstart = 0]
                      EXCEPT !.line = Append(@, b)]
    BY <1>5, <2>1 DEF Pop, Store, Received, Bytes
  <2> HIDE DEF b
  <2> QED BY <1>0, <2>2, LocalUpdates
<1>6. CASE PopEmpty
  BY <1>0, <1>6 DEF PopEmpty
<1>7. CASE TimeTest
  <2>1. l' = l \/ l' = [l EXCEPT !.rtmo = 0, !.rstart = 0]
    BY <1>7 DEF TimeTest, GiveUp
  <2> QED BY <1>0, <2>1, LocalUpdates
<1>8. CASE LineResult
  BY <1>8, LocalUpdates DEF LineResult
<1> QED BY <1>1, <1>2, <1>3, <1>4, <1>5, <1>6, <1>7, <1>8
        DEF ReaderSteps, LineGoesOn

LEMMA BuffersStay ==
    ASSUME BufferTypes, ReaderSteps
    PROVE  BufferTypes'
<1> USE DEF uartVars
<1>1. CASE UNCHANGED uartVars
  BY <1>1 DEF BufferTypes, Seen
<1>2. CASE Pop
  <2>1. rx_buf_' \in Seq(Bytes) /\ Len(rx_buf_') = Len(rx_buf_) - 1
    BY <1>2, HeadTails DEF Pop, BufferTypes
  <2>2. Len(rx_buf_) \in Nat
    BY DEF BufferTypes
  <2> QED BY <1>2, <2>1, <2>2, LineAssumption DEF Pop, BufferTypes, Seen
<1>3. CASE \E b \in Bytes : Arrive(b)
  BY <1>3, ArriveTypes
<1> QED BY <1>1, <1>2, <1>3
        DEF ReaderSteps, LineGoesOn, Quiet, LineResult, SysTick, ReceiveLine,
            LoopHead, Receive, PopEmpty, TimeTest

LEMMA TimesStay ==
    ASSUME TimeTypes, ReaderSteps
    PROVE  TimeTypes'
<1>1. slack' \in {0, slack} \/ (slack < Slack /\ slack' = slack + 1)
  BY DEF ReaderSteps, LineGoesOn, Quiet, LineResult, SysTick, ReceiveLine,
         LoopHead, Receive, Pop, PopEmpty, TimeTest, Arrive, Main, timeVars
<1>2. waited' \in {0, waited, waited + 1}
  BY DEF ReaderSteps, LineGoesOn, Quiet, LineResult, SysTick, ReceiveLine,
         LoopHead, Receive, Pop, PopEmpty, TimeTest, Arrive, timeVars
<1> QED BY <1>1, <1>2, LineAssumption DEF TimeTypes

LEMMA CallsStay ==
    ASSUME CallTypes, TimeTypes, BufferTypes, LookedBefore, args \in Args,
           ReaderSteps
    PROVE  CallTypes' /\ LookedBefore'
<1> USE DEF Goto, uartVars, timeVars, lineHistory, Main
<1>1. l' \in Locals
  BY LocalsStay
<1>2. l.tmo \in Nat /\ waited \in Nat /\ looked \in Nat
  BY DEF CallTypes, TimeTypes, Locals
<1>3. segment' \in Seq(Bytes)
  <2>1. CASE Pop
    <3>1. segment \in Seq(Bytes) /\ Head(rx_buf_) \in Bytes
      BY <2>1, HeadTails DEF Pop, BufferTypes, CallTypes
    <3> QED BY <2>1, <3>1, Appends DEF Pop
  <2>2. CASE segment' \in {segment, <<>>}
    BY <2>2, EmptySeqs DEF CallTypes
  <2> QED BY <2>1, <2>2
          DEF ReaderSteps, LineGoesOn, Quiet, LineResult, SysTick, ReceiveLine,
              LoopHead, GiveUp, Receive, PopEmpty, TimeTest, Arrive
<1>4. looked' \in Nat /\ due' \in Nat /\ LookedBefore'
  <2>1. CASE LoopHead
    BY <1>2, <2>1 DEF LoopHead, GiveUp, LookedBefore
  <2>2. CASE Receive
    <3>1. due' = l.tmo + (waited - looked) /\ looked <= waited
      BY <2>2 DEF Receive, LookedBefore
    <3> QED BY <1>2, <2>2, <3>1 DEF Receive, LookedBefore
  <2>3. CASE LineResult \/ ReceiveLine(args.max_len, args.tmo)
    BY <1>2, <2>3 DEF LineResult, ReceiveLine, LookedBefore, CallTypes
  <2>4. CASE Pop
    BY <2>4 DEF Pop, Store, LookedBefore
  <2>5. CASE PopEmpty
    BY <1>2, <2>5 DEF PopEmpty, LookedBefore, CallTypes
  <2>6. CASE TimeTest
    BY <1>2, <2>6 DEF TimeTest, GiveUp, LookedBefore, CallTypes
  <2>7. CASE Quiet \/ \E b \in Bytes : Arrive(b)
    BY <1>2, <2>7 DEF Quiet, Arrive, LookedBefore, CallTypes
  <2>8. CASE SysTick
    BY <1>2, <2>8 DEF SysTick, LookedBefore, CallTypes
  <2> QED BY <2>1, <2>2, <2>3, <2>4, <2>5, <2>6, <2>7, <2>8
          DEF ReaderSteps, LineGoesOn
<1>5. /\ lpc' \in {"idle", "head", "receive", "pop", "time", "returned"}
      /\ cause' \in {"none", "line", "timeout", "full"}
  BY DEF ReaderSteps, LineGoesOn, Quiet, LineResult, SysTick, ReceiveLine,
         LoopHead, GiveUp, Receive, Pop, Store, PopEmpty, TimeTest, Arrive,
         CallTypes
<1> QED BY <1>1, <1>3, <1>4, <1>5 DEF CallTypes

LEMMA NextReaderTypes == ReaderTypes /\ [Next]_vars => ReaderTypes'
<1> SUFFICES ASSUME BufferTypes, TimeTypes, CallTypes, LookedBefore,
                    args \in Args, args' = args, ReaderSteps
             PROVE  /\ BufferTypes' /\ TimeTypes' /\ CallTypes'
                    /\ LookedBefore'
  BY TypeParts, Steps DEF ReaderTypes, LineTypeOK, BufferTypes, TimeTypes,
     CallTypes, Locals
<1> QED BY BuffersStay, TimesStay, CallsStay

LEMMA AlwaysReaderTypes == Spec => []ReaderTypes
<1>1. Init => ReaderTypes
  BY InitReaderTypes
<1>2. ReaderTypes /\ [Next]_vars => ReaderTypes'
  BY NextReaderTypes
<1> QED BY <1>1, <1>2, PTL DEF Spec

(* The reader's variables keep their types, and its counters their bound,  *)
(* for every stream of bytes and every division of it into calls.          *)
THEOREM ReaderTypesKept == Spec => []LineTypeOK
<1>1. ReaderTypes => LineTypeOK
  BY DEF ReaderTypes
<1> QED BY <1>1, AlwaysReaderTypes, PTL

-----------------------------------------------------------------------------
(* The caller's buffer *)

(* While receive_line() waits for a byte there is room for it and for the  *)
(* terminator; at the head of the loop only for the terminator.            *)
RoomKept ==
    /\ InBounds
    /\ InLine => l.max_len \in 1..SizeMod-1
    /\ lpc \in {"receive", "pop", "time"} => Room

(* The subtraction does not wrap for a buffer that has a byte. *)
LEMMA RoomIs ==
    ASSUME l.max_len \in 1..SizeMod-1
    PROVE  Room <=> Len(l.line) < l.max_len - 1
<1> DEFINE n == l.max_len - 1
<1>1. n \in 0..SizeMod-1
  BY LineAssumption
<1> HIDE DEF n
<1>2. n % SizeMod = n
  BY <1>1, LineAssumption
<1> QED BY <1>2 DEF Room, n

LEMMA NextRoomKept == ReaderTypes /\ RoomKept /\ [Next]_vars => RoomKept'
<1> SUFFICES ASSUME ReaderTypes, RoomKept, ReaderSteps PROVE RoomKept'
  BY Steps
<1> USE DEF RoomKept, InBounds, InLine, Room, Goto
<1>1. CASE UNCHANGED <<lpc, l>>
  BY <1>1
<1>2. CASE ReceiveLine(args.max_len, args.tmo)
  <2>1. PICK start \in 0..TickMod-1 :
          l' = [NoCall EXCEPT !.max_len = args.max_len, !.tmo = args.tmo,
                              !.start = start]
    BY <1>2 DEF ReceiveLine
  <2>2. l'.line = <<>> /\ l'.max_len = args.max_len
    BY <2>1 DEF NoCall
  <2>3. args.max_len \in 0..SizeMod-1
    BY DemoAssumption DEF ReaderTypes
  <2> QED BY <1>2, <2>2, <2>3, EmptySeqs, LineAssumption DEF ReceiveLine
<1>3. l \in Locals /\ Len(l.line) \in Nat /\ l.max_len \in Nat
  BY DEF ReaderTypes, LineTypeOK, Locals
<1>4. CASE LoopHead
  <2>1. l'.line = l.line /\ l'.max_len = l.max_len
    BY <1>3, <1>4 DEF LoopHead, GiveUp, Locals
  <2> QED BY <1>3, <1>4, <2>1 DEF LoopHead, GiveUp
<1>5. CASE Receive
  <2>1. l'.line = l.line /\ l'.max_len = l.max_len
    BY <1>3, <1>5 DEF Receive, Locals
  <2> QED BY <1>3, <1>5, <2>1 DEF Receive
<1>6. CASE Pop
  <2>1. Head(rx_buf_) \in Bytes
    BY <1>6, HeadTails DEF Pop, ReaderTypes, LineTypeOK
  <2>2. CASE Head(rx_buf_) \in {"CR", "LF"}
    <3>1. l' = Received
      BY <1>6, <2>2, LineAssumption DEF Pop, Store
    <3>2. l'.line = l.line /\ l'.max_len = l.max_len
      BY <1>3, <3>1 DEF Received, Locals
    <3> QED BY <1>3, <1>6, <2>2, <3>2 DEF Pop, Store
  <2>3. CASE Head(rx_buf_) \in Others
    <3> DEFINE b == Head(rx_buf_)
               y == [l EXCEPT !.rtmo = 0, !.rstart = 0]
    <3>1. l' = [y EXCEPT !.line = Append(@, b)] /\ lpc' = "head"
      BY <1>6, <2>3, LineAssumption DEF Pop, Store, Received
    <3>2. /\ y \in Locals /\ y.line = l.line /\ y.max_len = l.max_len
          /\ l.line \in Seq(Others)
      BY <1>3, LocalUpdates DEF Locals
    <3>3. b \in Others
      BY <2>3
    <3> HIDE DEF b, y
    <3>4. l'.line = Append(l.line, b) /\ l'.max_len = l.max_len
      BY <3>1, <3>2 DEF Locals
    <3>5. Len(l'.line) = Len(l.line) + 1
      BY <3>2, <3>3, <3>4, Appends
    <3>6. Len(l.line) < l.max_len - 1 /\ l.max_len \in 1..SizeMod-1
      BY <1>6, RoomIs DEF Pop
    <3> QED BY <1>3, <3>1, <3>4, <3>5, <3>6, LineAssumption
  <2> QED BY <2>1, <2>2, <2>3 DEF Bytes
<1>7. CASE PopEmpty
  BY <1>7 DEF PopEmpty
<1>8. CASE TimeTest
  <2>1. l'.line = l.line /\ l'.max_len = l.max_len
    BY <1>3, <1>8 DEF TimeTest, GiveUp, Locals
  <2> QED BY <1>3, <1>8, <2>1 DEF TimeTest, GiveUp
<1>9. CASE LineResult
  BY <1>9 DEF LineResult
<1> QED BY <1>1, <1>2, <1>4, <1>5, <1>6, <1>7, <1>8, <1>9
        DEF ReaderSteps, LineGoesOn, Quiet, SysTick, Arrive

(* receive_line() never writes outside the caller's buffer, for every size *)
(* of it and every stream of bytes (uart.cpp, lines 316-349).              *)
THEOREM LineInBounds == Spec => []InBounds
<1>1. Init => RoomKept
  BY DEF Init, LineInit, RoomKept, InBounds, InLine
<1>2. ReaderTypes /\ RoomKept /\ [Next]_vars => RoomKept'
  BY NextRoomKept
<1>3. RoomKept => InBounds
  BY DEF RoomKept
<1> QED BY <1>1, <1>2, <1>3, AlwaysReaderTypes, PTL DEF Spec

-----------------------------------------------------------------------------
(* Time-outs *)

(* What unsigned arithmetic makes of the ticks since the look at w. *)
LEMMA ElapsedSince ==
    ASSUME ReaderTypes, NEW w \in 0..waited
    PROVE  LET e == Elapsed((l.start + w) % TickMod)
           IN  /\ e \in Nat /\ e <= waited - w
               /\ waited - w < TickMod => e = waited - w
<1>1. l.start \in Nat /\ waited \in Nat
  BY LineAssumption DEF ReaderTypes, LineTypeOK
<1>2. l.start + waited \in Nat /\ l.start + w \in Nat
      /\ l.start + w <= l.start + waited
  BY <1>1
<1> DEFINE x == l.start + waited
           y == l.start + w
<1>3. x - y = waited - w
  BY <1>1
<1> HIDE DEF x, y
<1>4. LET d == ((x % TickMod) - (y % TickMod)) % TickMod
      IN  d \in Nat /\ d <= x - y /\ (x - y < TickMod => d = x - y)
  BY <1>2, TicksBetween DEF x, y
<1> QED BY <1>3, <1>4 DEF Elapsed, s_tick_ms, x, y

LEMMA ElapsedOfCall ==
    ASSUME ReaderTypes
    PROVE  /\ Elapsed(l.start) \in Nat /\ Elapsed(l.start) <= waited
           /\ waited < TickMod => Elapsed(l.start) = waited
<1>1. l.start \in 0..TickMod-1 /\ waited \in Nat
  BY DEF ReaderTypes, LineTypeOK
<1>2. (l.start + 0) % TickMod = l.start
  BY <1>1, LineAssumption
<1>3. 0 \in 0..waited /\ waited - 0 = waited
  BY <1>1
<1>4. LET e == Elapsed((l.start + 0) % TickMod)
      IN  /\ e \in Nat /\ e <= waited - 0
          /\ waited - 0 < TickMod => e = waited - 0
  BY <1>3, ElapsedSince
<1> QED BY <1>2, <1>3, <1>4

(* receive() began its wait at the tick w0 of the call. *)
BeganAt(w0) == l.rstart = (l.start + w0) % TickMod

(* The time left for receive() is never less than what is left of the      *)
(* call's, whatever the counter's wrapping does to the subtractions.       *)
TimeLeft ==
    /\ lpc = "receive" => l.rtmo + looked >= l.tmo
    /\ lpc \in {"pop", "time"} =>
         \E w0 \in 0..waited : BeganAt(w0) /\ l.rtmo + w0 >= l.tmo
    /\ LineNotEarly

LEMMA NextTimeLeft == ReaderTypes /\ TimeLeft /\ [Next]_vars => TimeLeft'
<1> SUFFICES ASSUME ReaderTypes, TimeLeft, ReaderSteps PROVE TimeLeft'
  BY Steps
<1> USE DEF TimeLeft, LineNotEarly, BeganAt, Goto
<1>0. /\ l \in Locals /\ l.tmo \in Nat /\ l.rtmo \in Nat /\ l.start \in Nat
      /\ waited \in Nat /\ looked \in Nat
      /\ lpc = "receive" => looked <= waited
  BY LineAssumption
     DEF ReaderTypes, LineTypeOK, Locals, LookedBefore
<1>1. CASE UNCHANGED <<lpc, l, looked, cause>> /\ waited' \in {waited, waited + 1}
  BY <1>0, <1>1
<1>2. CASE ReceiveLine(args.max_len, args.tmo)
  BY <1>2 DEF ReceiveLine
<1>3. CASE LoopHead
  <2>1. /\ l'.tmo = l.tmo
        /\ lpc' = "receive" =>
             /\ l'.rtmo = l.tmo - Elapsed(l.start) /\ looked' = waited
             /\ cause' = cause
    BY <1>0, <1>3 DEF LoopHead, GiveUp, Locals
  <2>2. /\ waited' = waited /\ lpc' \in {"receive", "returned"}
        /\ lpc' = "returned" /\ cause' = "timeout" =>
               Elapsed(l.start) >= l.tmo
    BY <1>3 DEF LoopHead, GiveUp
  <2> QED BY <1>0, <2>1, <2>2, ElapsedOfCall
<1>4. CASE Receive
  <2>1. /\ l'.tmo = l.tmo /\ l'.rtmo = l.rtmo /\ l'.start = l.start
        /\ l'.rstart = s_tick_ms
    BY <1>0, <1>4 DEF Receive, Locals
  <2>2. /\ waited' = waited /\ lpc' = "pop" /\ cause' = cause
        /\ l.rtmo + waited >= l.tmo
    BY <1>0, <1>4 DEF Receive
  <2>3. waited' \in 0..waited' /\ l'.rstart = (l'.start + waited') % TickMod
        /\ l'.rtmo + waited' >= l'.tmo
    BY <1>0, <2>1, <2>2 DEF s_tick_ms
  <2> QED BY <1>0, <2>1, <2>2, <2>3
<1>5. CASE Pop
  <2>1. /\ waited' = waited /\ lpc' \in {"head", "returned"}
        /\ cause' \in {cause, "line"}
    BY <1>5 DEF Pop, Store
  <2>2. l'.tmo = l.tmo
    BY <1>0, <1>5 DEF Pop, Store, Received, Locals
  <2> QED BY <2>1, <2>2
<1>6. CASE PopEmpty
  BY <1>6 DEF PopEmpty, lineHistory
<1>7. CASE TimeTest /\ lpc' = "pop"
  BY <1>7 DEF TimeTest, GiveUp
<1>8. CASE TimeTest /\ lpc' = "returned"
  <2>1. PICK w0 \in 0..waited : BeganAt(w0) /\ l.rtmo + w0 >= l.tmo
    BY <1>8 DEF TimeTest
  <2>2. Elapsed(l.rstart) >= l.rtmo /\ l'.tmo = l.tmo /\ waited' = waited
    BY <1>0, <1>8 DEF TimeTest, GiveUp, Locals
  <2>3. LET e == Elapsed((l.start + w0) % TickMod)
        IN  e \in Nat /\ e <= waited - w0
    BY ElapsedSince
  <2>4. l.tmo <= waited
    BY <1>0, <2>1, <2>2, <2>3
  <2> QED BY <1>8, <2>2, <2>4
<1>9. CASE LineResult
  BY <1>9 DEF LineResult
<1> QED BY <1>1, <1>2, <1>3, <1>4, <1>5, <1>6, <1>7, <1>8, <1>9
        DEF ReaderSteps, LineGoesOn, Quiet, SysTick, Arrive, lineHistory,
            timeVars, TimeTest, GiveUp

(* No time-out is reported early, for every time-out, every width of the   *)
(* tick counter, wherever it stands when the call begins and however many  *)
(* receive()s the call is divided into.                                    *)
THEOREM NeverEarly == Spec => []LineNotEarly
<1>1. Init => TimeLeft
  BY DEF Init, LineInit, TimeLeft, LineNotEarly
<1>2. ReaderTypes /\ TimeLeft /\ [Next]_vars => TimeLeft'
  BY NextTimeLeft
<1>3. TimeLeft => LineNotEarly
  BY DEF TimeLeft
<1> QED BY <1>1, <1>2, <1>3, AlwaysReaderTypes, PTL DEF Spec

(* Main is in receive_line() or elsewhere, not both. *)
OneThread == /\ lpc # "idle" <=> pc = "line"
             /\ pc = "line" => say = <<>>

LEMMA NextOneThread == OneThread /\ [Next]_vars => OneThread'
<1> SUFFICES ASSUME OneThread, [Next]_vars PROVE OneThread'
  OBVIOUS
<1> USE DEF OneThread, Goto
<1>1. CASE SendByte \/ Stats \/ PrintStats \/ \E c \in Counters : Copy(c)
  BY <1>1 DEF SendByte, Stats, PrintStats, Copy, At
<1>2. CASE Transmit \/ UNCHANGED vars
  BY <1>2 DEF Transmit, vars, lineVars, demoVars
<1>3. CASE LineStep
  BY <1>3 DEF LineStep, LineGoesOn, LoopHead, GiveUp, Receive, Pop, Store,
     PopEmpty, TimeTest, demoVars
<1>4. CASE CallLine \/ Reply
  BY <1>4 DEF CallLine, ReceiveLine, Reply, LineResult, At
<1>5. CASE SysTick /\ Around
  BY <1>5 DEF Around, SysTick, demoVars
<1>6. CASE \E b \in Bytes : Arrive(b) /\ Around
  BY <1>6 DEF Around, Arrive, demoVars
<1> QED BY <1>1, <1>2, <1>3, <1>4, <1>5, <1>6 DEF Next, MainSteps

(* Hence main's steps elsewhere leave the time of no call in progress. *)
TimedSteps ==
    \/ Quiet /\ (slack' = slack \/ ~InLine)
    \/ LineGoesOn \/ LineResult \/ SysTick
    \/ ReceiveLine(args.max_len, args.tmo) \/ \E b \in Bytes : Arrive(b)

LEMMA StepsTimed == OneThread /\ [Next]_vars => TimedSteps
<1> SUFFICES ASSUME OneThread, [Next]_vars PROVE TimedSteps
  OBVIOUS
<1> USE DEF TimedSteps
<1>1. CASE SendByte \/ Stats \/ PrintStats \/ \E c \in Counters : Copy(c)
  <2>1. Quiet
    BY <1>1 DEF SendByte, Stats, PrintStats, Copy, Main, Quiet
  <2>2. pc # "line"
    BY <1>1 DEF SendByte, Stats, PrintStats, Copy, At, OneThread
  <2> QED BY <2>1, <2>2 DEF OneThread, InLine
<1>2. CASE Transmit \/ UNCHANGED vars
  BY <1>2 DEF Transmit, vars, lineVars, timeVars, demoVars, Quiet
<1>3. CASE LineStep
  BY <1>3 DEF LineStep
<1>4. CASE CallLine \/ Reply
  BY <1>4 DEF CallLine, Reply
<1>5. CASE SysTick \/ \E b \in Bytes : Arrive(b)
  BY <1>5
<1> QED BY <1>1, <1>2, <1>3, <1>4, <1>5 DEF Next, MainSteps

(* A tick counter wide enough for every time-out the program asks for, and *)
(* for the ticks that go by between the looks at it.                       *)
TimeOutsFit == \A a \in Args : a.tmo + 3 * Slack <= TickMod

(* How late the call can be at each point, and when receive()'s own wait   *)
(* began and ends; no difference of ticks wraps on the way.                *)
NeverLong ==
    /\ InLine => l.tmo + 3 * Slack <= TickMod
    /\ lpc = "head" => waited < l.tmo + 2 * Slack + slack
    /\ lpc = "receive" =>
         /\ due = l.tmo /\ l.rtmo + looked = l.tmo
         /\ looked < due /\ looked <= waited /\ waited <= looked + slack
    /\ lpc \in {"pop", "time"} =>
         /\ due <= l.tmo + Slack
         /\ \E w0 \in 0..waited : BeganAt(w0) /\ l.rtmo + w0 = due
    /\ lpc = "pop" => looked < due /\ waited < due + slack
    /\ lpc = "time" => waited < due + Slack + slack

LEMMA NextNeverLong ==
    ASSUME TimeOutsFit, ReaderTypes, OneThread, NeverLong, [Next]_vars
    PROVE  NeverLong'
<1> SUFFICES ASSUME TimedSteps PROVE NeverLong'
  BY StepsTimed
<1> USE DEF NeverLong, BeganAt, Goto, InLine
<1>0. /\ l \in Locals /\ l.tmo \in Nat /\ l.rtmo \in Nat /\ l.start \in Nat
      /\ waited \in Nat /\ looked \in Nat /\ due \in Nat
      /\ slack \in 0..Slack /\ Slack \in Nat \ {0} /\ TickMod \in Nat \ {0}
  BY LineAssumption DEF ReaderTypes, LineTypeOK, Locals
<1>1. CASE UNCHANGED <<lpc, l, looked, due>> /\ waited' = waited
           /\ slack' = slack
  BY <1>1
<1>2. CASE Quiet /\ ~InLine
  BY <1>2 DEF Quiet
<1>3. CASE SysTick
  BY <1>0, <1>3 DEF SysTick, lineHistory
<1>4. CASE ReceiveLine(args.max_len, args.tmo)
  <2>1. PICK start \in 0..TickMod-1 :
          l' = [NoCall EXCEPT !.max_len = args.max_len, !.tmo = args.tmo,
                              !.start = start]
    BY <1>4 DEF ReceiveLine
  <2>2. l'.tmo = args.tmo
    BY <2>1 DEF NoCall
  <2>3. args.tmo \in Nat /\ args.tmo + 3 * Slack <= TickMod
    BY DemoAssumption DEF ReaderTypes, TimeOutsFit
  <2> QED BY <1>0, <1>4, <2>2, <2>3 DEF ReceiveLine, Main
<1>5. CASE LoopHead
  <2>1. CASE lpc' = "returned"
    BY <2>1
  <2>2. CASE lpc' = "receive"
    <3>1. Elapsed(l.start) = waited
      BY <1>0, <1>5, ElapsedOfCall DEF LoopHead
    <3>2. /\ l'.tmo = l.tmo /\ l'.rtmo = l.tmo - waited /\ waited < l.tmo
          /\ looked' = waited /\ due' = l.tmo /\ waited' = waited
      BY <1>0, <1>5, <2>2, <3>1 DEF LoopHead, GiveUp, Locals
    <3> QED BY <1>0, <1>5, <2>2, <3>2 DEF LoopHead, Main
  <2> QED BY <1>5, <2>1, <2>2 DEF LoopHead, GiveUp
<1>6. CASE Receive
  <2>1. /\ l'.tmo = l.tmo /\ l'.rtmo = l.rtmo /\ l'.start = l.start
        /\ l'.rstart = s_tick_ms
    BY <1>0, <1>6 DEF Receive, Locals
  <2>2. /\ waited' = waited /\ lpc' = "pop" /\ looked' = looked
        /\ due' = l.tmo + (waited - looked) /\ slack' = 0
    BY <1>6 DEF Receive, Main
  <2>3. /\ due = l.tmo /\ l.rtmo + looked = l.tmo
        /\ looked < due /\ looked <= waited /\ waited <= looked + slack
    BY <1>6 DEF Receive
  <2>4. waited' \in 0..waited' /\ l'.rstart = (l'.start + waited') % TickMod
        /\ l'.rtmo + waited' = due'
    BY <1>0, <2>1, <2>2, <2>3 DEF s_tick_ms
  <2>5. due' <= l'.tmo + Slack /\ looked' < due' /\ waited' < due'
    BY <1>0, <2>1, <2>2, <2>3
  <2> QED BY <1>0, <1>6, <2>1, <2>2, <2>4, <2>5 DEF Receive
<1>7. CASE Pop
  <2>1. waited' = waited /\ lpc' \in {"head", "returned"} /\ slack' = 0
    BY <1>7 DEF Pop, Store, Main
  <2>2. l'.tmo = l.tmo
    BY <1>0, <1>7 DEF Pop, Store, Received, Locals
  <2>3. waited < l.tmo + 2 * Slack /\ l.tmo + 3 * Slack <= TickMod
    BY <1>0, <1>7 DEF Pop
  <2> QED BY <1>0, <2>1, <2>2, <2>3
<1>8. CASE PopEmpty
  <2>1. UNCHANGED <<waited, l, looked, due>> /\ lpc = "pop" /\ lpc' = "time"
        /\ slack' = 0
    BY <1>8 DEF PopEmpty, lineHistory, Main
  <2>2. waited < due + Slack
    BY <1>0, <2>1
  <2> QED BY <1>0, <2>1, <2>2
<1>9. CASE TimeTest
  <2>1. CASE lpc' = "returned"
    BY <2>1
  <2>2. CASE lpc' = "pop"
    <3>1. PICK w0 \in 0..waited : BeganAt(w0) /\ l.rtmo + w0 = due
      BY <1>9 DEF TimeTest
    <3>2. waited - w0 < TickMod
      BY <1>0, <1>9, <3>1 DEF TimeTest
    <3>3. LET e == Elapsed((l.start + w0) % TickMod)
          IN  waited - w0 < TickMod => e = waited - w0
      BY ElapsedSince
    <3>4. Elapsed(l.rstart) < l.rtmo
      BY <1>9, <2>2 DEF TimeTest, GiveUp
    <3>5. waited < due
      BY <1>0, <3>1, <3>2, <3>3, <3>4
    <3>6. UNCHANGED <<waited, l, due>> /\ looked' = waited /\ slack' = 0
      BY <1>9, <2>2 DEF TimeTest, GiveUp, Main
    <3> QED BY <1>0, <1>9, <2>2, <3>5, <3>6 DEF TimeTest
  <2> QED BY <1>9, <2>1, <2>2 DEF TimeTest, GiveUp
<1>10. CASE LineResult
  BY <1>10 DEF LineResult
<1> QED BY <1>1, <1>2, <1>3, <1>4, <1>5, <1>6, <1>7, <1>8, <1>9, <1>10
        DEF TimedSteps, LineGoesOn, Quiet, Arrive, lineHistory, timeVars

(* timeout_ms is a bound on the whole call: a look that finds it gone ends *)
(* the call, however many bytes trickle in, provided the tick counter is   *)
(* wide enough for the time-outs asked for.                                *)
THEOREM NeverLate == ASSUME TimeOutsFit PROVE Spec => []LineNotLate
<1>1. Init => OneThread /\ NeverLong
  BY DEF Init, LineInit, NeverLong, InLine, OneThread
<1>2. ReaderTypes /\ OneThread /\ NeverLong /\ [Next]_vars
        => OneThread' /\ NeverLong'
  BY TimeOutsFit, NextOneThread, NextNeverLong
<1>3. ReaderTypes /\ NeverLong => LineNotLate
  BY DEF NeverLong, LineNotLate
<1> QED BY <1>1, <1>2, <1>3, AlwaysReaderTypes, PTL DEF Spec

-----------------------------------------------------------------------------
(* The statistics *)

Received_ == stats_["bytes_received"]
Lost_ == stats_["rx_buffer_overflows"]

(* What the counters were when get_stats() began is a lower bound of the   *)
(* copies, and what they are now an upper one.                             *)
CopiesBetween ==
    /\ snap \in [Counters -> Nat]
    /\ pc = "copy" =>
         \E x, y \in Nat :
           /\ since = x + y /\ x <= Received_ /\ y <= Lost_
           /\ "bytes_received" \notin todo =>
                x <= snap["bytes_received"] /\ snap["bytes_received"] <= Received_
           /\ "rx_buffer_overflows" \notin todo =>
                /\ y <= snap["rx_buffer_overflows"]
                /\ snap["rx_buffer_overflows"] <= Lost_

(* The handler only counts up, and nobody else writes. *)
LEMMA CountersGrow ==
    ASSUME ReaderTypes, ReaderSteps
    PROVE  /\ Received_ \in Nat /\ Lost_ \in Nat
           /\ Received_' \in Nat /\ Lost_' \in Nat
           /\ Received_ <= Received_' /\ Lost_ <= Lost_'
<1> USE DEF Received_, Lost_
<1>1. Received_ \in Nat /\ Lost_ \in Nat
  BY CounterTypes
<1>2. CASE UNCHANGED stats_
  BY <1>1, <1>2
<1>3. CASE \E b \in Bytes : Arrive(b)
  <2>1. stats_ \in [Counters -> 0..MaxFrames]
    BY DEF ReaderTypes, LineTypeOK
  <2>2. /\ Received_' \in {Received_, Received_ + 1}
        /\ Lost_' \in {Lost_, Lost_ + 1}
    BY <1>3, <2>1 DEF Arrive, Counters
  <2> QED BY <1>1, <2>2
<1> QED BY <1>2, <1>3
        DEF ReaderSteps, LineGoesOn, Quiet, LineResult, SysTick, ReceiveLine,
            LoopHead, Receive, Pop, PopEmpty, TimeTest, uartVars

LEMMA NextCopiesBetween ==
    ReaderTypes /\ CopiesBetween /\ [Next]_vars => CopiesBetween'
<1> SUFFICES ASSUME ReaderTypes, CopiesBetween, [Next]_vars
             PROVE  CopiesBetween'
  OBVIOUS
<1>1. /\ Received_ \in Nat /\ Lost_ \in Nat
      /\ Received_' \in Nat /\ Lost_' \in Nat
      /\ Received_ <= Received_' /\ Lost_ <= Lost_'
  BY Steps, CountersGrow
<1> USE DEF CopiesBetween
<1>2. CASE UNCHANGED <<pc, todo, snap, since>>
  <2>1. CASE pc = "copy"
    <3>1. PICK x, y \in Nat :
           /\ since = x + y /\ x <= Received_ /\ y <= Lost_
           /\ "bytes_received" \notin todo =>
                x <= snap["bytes_received"] /\ snap["bytes_received"] <= Received_
           /\ "rx_buffer_overflows" \notin todo =>
                /\ y <= snap["rx_buffer_overflows"]
                /\ snap["rx_buffer_overflows"] <= Lost_
      BY <2>1
    <3>2. snap["bytes_received"] \in Nat /\ snap["rx_buffer_overflows"] \in Nat
      BY DEF Counters
    <3> QED BY <1>1, <1>2, <3>1, <3>2
  <2> QED BY <1>2, <2>1
<1>3. CASE Stats /\ pc' = "copy"
  <2>1. since' = Received_ + Lost_ /\ todo' = Counters /\ snap' = snap
    BY <1>3 DEF Stats, At, Seen, Received_, Lost_
  <2>2. Received_' = Received_ /\ Lost_' = Lost_
    BY <1>3 DEF Stats, Received_, Lost_, uartVars
  <2> QED BY <1>1, <2>1, <2>2 DEF Counters
<1>4. CASE pc' # "copy" /\ snap' = snap
  BY <1>4
<1>5. CASE PrintStats
  BY <1>5 DEF PrintStats
<1>6. CASE \E c \in Counters : Copy(c)
  <2>1. PICK c \in Counters : Copy(c)
    BY <1>6
  <2>2. PICK x, y \in Nat :
           /\ since = x + y /\ x <= Received_ /\ y <= Lost_
           /\ "bytes_received" \notin todo =>
                x <= snap["bytes_received"] /\ snap["bytes_received"] <= Received_
           /\ "rx_buffer_overflows" \notin todo =>
                /\ y <= snap["rx_buffer_overflows"]
                /\ snap["rx_buffer_overflows"] <= Lost_
    BY <2>1 DEF Copy, At
  <2>3. /\ snap' = [snap EXCEPT ![c] = stats_[c]] /\ stats_' = stats_
        /\ todo' = todo \ {c} /\ since' = since /\ pc' = pc
    BY <2>1 DEF Copy, uartVars, demoHistory
  <2>4. stats_[c] \in Nat
    BY <1>1, <2>1 DEF Counters, Received_, Lost_
  <2>5. snap' \in [Counters -> Nat]
    BY <2>3, <2>4
  <2>6. Received_' = Received_ /\ Lost_' = Lost_
    BY <2>3 DEF Received_, Lost_
  <2>7. "bytes_received" \notin todo' =>
          x <= snap'["bytes_received"] /\ snap'["bytes_received"] <= Received_
    BY <1>1, <2>2, <2>3 DEF Received_, Counters
  <2>8. "rx_buffer_overflows" \notin todo' =>
          /\ y <= snap'["rx_buffer_overflows"]
          /\ snap'["rx_buffer_overflows"] <= Lost_
    BY <1>1, <2>2, <2>3 DEF Lost_, Counters
  <2> QED BY <2>2, <2>3, <2>5, <2>6, <2>7, <2>8
<1>7. CASE SendByte \/ CallLine \/ LineStep \/ Reply \/ Transmit
           \/ (SysTick /\ Around) \/ (\E b \in Bytes : Arrive(b) /\ Around)
           \/ UNCHANGED vars
  <2>1. UNCHANGED <<pc, todo, snap, since>> \/ (pc' # "copy" /\ snap' = snap)
    BY <1>7 DEF SendByte, CallLine, LineStep, Reply, Transmit, Around, vars,
       demoVars, demoHistory
  <2> QED BY <1>2, <1>4, <2>1
<1>8. CASE Stats /\ pc' # "copy"
  BY <1>4, <1>8 DEF Stats
<1> QED BY <1>3, <1>5, <1>6, <1>7, <1>8 DEF Next, MainSteps

(* The bytes the printed statistics account for lie between those seen     *)
(* before the copy and those seen after it, for every interleaving of the  *)
(* copy with the handler.                                                  *)
THEOREM StatsRight == Spec => []StatsOfTheMoment
<1>1. Init => CopiesBetween
  BY DEF Init, CopiesBetween
<1>2. ReaderTypes /\ CopiesBetween /\ [Next]_vars => CopiesBetween'
  BY NextCopiesBetween
<1>3. ReaderTypes /\ CopiesBetween => StatsOfTheMoment
  <2> SUFFICES ASSUME ReaderTypes, CopiesBetween, pc = "copy", todo = {}
               PROVE  LET sum == snap["bytes_received"]
                                   + snap["rx_buffer_overflows"]
                      IN  since <= sum /\ sum <= Seen
    BY DEF StatsOfTheMoment
  <2>1. snap["bytes_received"] \in Nat /\ snap["rx_buffer_overflows"] \in Nat
    BY DEF CopiesBetween, Counters
  <2>2. Received_ \in Nat /\ Lost_ \in Nat /\ Seen = Received_ + Lost_
    BY CounterTypes DEF Received_, Lost_, Seen
  <2> QED BY <2>1, <2>2 DEF CopiesBetween
<1> QED BY <1>1, <1>2, <1>3, AlwaysReaderTypes, PTL DEF Spec
=============================================================================
