-------------------------------- MODULE Uart --------------------------------
(***************************************************************************)
(* One Uart object of src/uart.cpp on its peripheral: init(), send(),      *)
(* flush_tx(), receive() and get_and_clear_errors() called from main, the  *)
(* USARTx_IRQHandler and irq_handler() that interrupt them, and the        *)
(* SysTick that times them.                                                *)
(*                                                                         *)
(* main advances only while no handler runs; the handlers run to           *)
(* completion, though frames, shifted bytes and ticks go on meanwhile.     *)
(* main may execute a few more steps while an interrupt is pending: the    *)
(* handlers of the other USARTs share its priority and may delay it.       *)
(*                                                                         *)
(* tx_buf_ and rx_buf_ are queues of N-1 elements, which is what the       *)
(* access-by-access model RingBuffer is shown to implement (push() and     *)
(* pop() are one step each).                                               *)
(***************************************************************************)
EXTENDS Usart

CONSTANTS N,          (* size of the ring buffers; 256 in uart.hpp            *)
          Calls,      (* the member functions main calls in this instance     *)
          Timeouts,   (* the timeout_ms arguments                             *)
          TickMod,    (* s_tick_ms counts modulo TickMod; 2^32 on the target  *)
          QuietInit,  (* TRUE: the line is idle until init() has registered
                         the instance                                         *)
          MaxLen,     (* bound: bytes per send(data, len)                     *)
          MaxSend,    (* bound: bytes accepted                                *)
          MaxRejects, (* bound: bytes refused                                 *)
          MaxErrorCalls (* bound: calls of get_and_clear_errors() by main     *)

ASSUME UartAssumption ==
    /\ N \in Nat \ {0} /\ TickMod \in Nat \ {0}
    /\ Timeouts \subseteq 0..TickMod-1
    /\ Calls \subseteq {"send", "flush_tx", "receive", "get_and_clear_errors"}
    /\ QuietInit \in BOOLEAN
    /\ MaxLen \in Nat /\ MaxSend \in Nat /\ MaxRejects \in Nat
    /\ MaxErrorCalls \in Nat /\ MaxFrames \in Nat
    /\ LineFaults \subseteq SUBSET {"FE", "NE"}

VARIABLES tx_buf_, rx_buf_, stats_, initialized_,  \* members of the object
          inst, nvic,       \* s_usartN_inst is set; the NVIC line is enabled
          s_tick_ms,
          pc, m,            \* where main is, and the locals of its call
          isr, ierr, itx, ibyte, \* the same for the handler: err, whether it
                            \* is to serve TXE, and the byte popped for that
          accepted, got, cleared, errorCalls, waited
             \* history: bytes accepted by send(), frames returned by
             \* receive(), frames discarded by clearing errors, calls made,
             \* ticks since the call under way began to wait

driver == <<tx_buf_, rx_buf_, stats_, initialized_, inst, nvic>>
mainVars == <<pc, m>>
isrVars == <<isr, ierr, itx, ibyte>>
history == <<accepted, got, cleared, errorCalls>>
time == <<s_tick_ms, waited>>
vars == <<usartVars, driver, time, mainVars, isrVars, history>>

Capacity == N - 1

Counters == {"bytes_sent", "bytes_received", "tx_buffer_overflows",
             "rx_buffer_overflows", "overrun_errors", "framing_errors",
             "noise_errors"}

CounterOf_Bug == [ORE |-> "framing_errors", FE |-> "framing_errors",
                  NE |-> "noise_errors"]   \* a copied line

(* The counter an error flag is counted in. *)
CounterOf == [ORE |-> "overrun_errors", FE |-> "framing_errors",
              NE |-> "noise_errors"]

(* The locals of the calls: bytes of data still to send; the value loaded  *)
(* from CR1, and from a counter, by a read-modify-write; the error flags   *)
(* still to be counted and the one being counted; the tick at which the    *)
(* wait began and its limit.                                               *)
NoLocals == [left |-> 0, reg |-> {}, cnt |-> 0, todo |-> {}, flag |-> {},
             start |-> 0, tmo |-> 0]

Init == /\ UsartInit
        /\ tx_buf_ = <<>> /\ rx_buf_ = <<>>
        /\ stats_ = [c \in Counters |-> 0]
        /\ initialized_ = FALSE /\ inst = FALSE /\ nvic = FALSE
        /\ s_tick_ms = 0 /\ waited = 0
        /\ pc = "idle" /\ m = NoLocals
        /\ isr = "none" /\ ierr = {} /\ itx = FALSE /\ ibyte = <<>>
        /\ accepted = 0 /\ got = <<>> /\ cleared = 0 /\ errorCalls = 0

Bump(s, c) == [s EXCEPT ![c] = @ + 1]

(* Operators named X_...Bug are mutants: X with a plausible mistake in it. *)
(* No specification uses them; they show what each property would catch.   *)

(* main is at label l and no handler is running. *)
At(l) == pc = l /\ isr = "none"

(* A call of member function f begins. *)
Call(f) == At("idle") /\ f \in Calls

Goto(l) == pc' = l /\ UNCHANGED m

Return == pc' = "idle" /\ m' = NoLocals /\ waited' = 0

-----------------------------------------------------------------------------
(* init() *)

(* A second init() of the object returns at once and changes nothing. *)
InitCall == /\ At("idle") /\ ~initialized_
            /\ Goto("configure_usart")
            /\ UNCHANGED <<usartVars, driver, time, isrVars, history>>

(* configure_usart(): from here on the receiver runs. *)
ConfigureUsart == /\ At("configure_usart")
                  /\ cr1' = cr1 \cup {"RXNEIE", "UE"}
                  /\ Goto("configure_nvic")
                  /\ UNCHANGED <<rxRegs, txRegs, wire, frames, loaded, driver,
                                 time, isrVars, history>>

ConfigureNvic == /\ At("configure_nvic")
                 /\ nvic' = TRUE
                 /\ Goto("register")
                 /\ UNCHANGED <<usartVars, tx_buf_, rx_buf_, stats_,
                                initialized_, inst, time, isrVars, history>>

Register == /\ At("register")
            /\ inst' = TRUE
            /\ Goto("initialized")
            /\ UNCHANGED <<usartVars, tx_buf_, rx_buf_, stats_, initialized_,
                           nvic, time, isrVars, history>>

(* setup_systick(); initialized_ = true; *)
InitDone == /\ At("initialized")
            /\ initialized_' = TRUE
            /\ Return
            /\ UNCHANGED <<usartVars, tx_buf_, rx_buf_, stats_, inst, nvic,
                           s_tick_ms, isrVars, history>>

-----------------------------------------------------------------------------
(* send(data, len), which stops at the first byte send(byte) refuses *)

SendCall(n) == /\ Call("send")
               /\ accepted + n <= MaxSend
               /\ stats_["tx_buffer_overflows"] < MaxRejects
               /\ pc' = "push" /\ m' = [m EXCEPT !.left = n]
               /\ UNCHANGED <<usartVars, driver, time, isrVars, history>>

(* Not initialised, or the ring is full. *)
SendRefused == /\ At("push")
               /\ ~initialized_ \/ Len(tx_buf_) = Capacity
               /\ stats_' = Bump(stats_, "tx_buffer_overflows")
               /\ Return
               /\ UNCHANGED <<usartVars, tx_buf_, rx_buf_, initialized_, inst,
                              nvic, s_tick_ms, isrVars, history>>

(* The result of push() is ignored. *)
SendPush_Bug == /\ At("push") /\ initialized_
                /\ accepted' = accepted + 1
                /\ tx_buf_' = Append(tx_buf_, accepted + 1)
                /\ Goto("kick_load")
                /\ UNCHANGED <<usartVars, rx_buf_, stats_, initialized_, inst,
                               nvic, time, isrVars, got, cleared, errorCalls>>

SendPush == /\ At("push")
            /\ initialized_ /\ Len(tx_buf_) < Capacity
            /\ accepted' = accepted + 1
            /\ tx_buf_' = Append(tx_buf_, accepted + 1)
            /\ Goto("kick_load")
            /\ UNCHANGED <<usartVars, rx_buf_, stats_, initialized_, inst,
                           nvic, time, isrVars, got, cleared, errorCalls>>

(* ++bytes_sent, and the load of CR1 |= TXEIE *)
KickLoad == /\ At("kick_load")
            /\ stats_' = Bump(stats_, "bytes_sent")
            /\ pc' = "kick_store" /\ m' = [m EXCEPT !.reg = cr1]
            /\ UNCHANGED <<usartVars, tx_buf_, rx_buf_, initialized_, inst,
                           nvic, time, isrVars, history>>

(* One kick for the whole of send(data, len), after its last byte. *)
KickStore_Bug == /\ At("kick_store")
                 /\ cr1' = IF m.left = 1 THEN m.reg \cup {"TXEIE"} ELSE cr1
                 /\ \/ /\ m.left > 1
                       /\ pc' = "push"
                       /\ m' = [m EXCEPT !.left = @ - 1, !.reg = {}]
                       /\ UNCHANGED waited
                    \/ m.left = 1 /\ Return
                 /\ UNCHANGED <<rxRegs, txRegs, wire, frames, loaded, driver,
                                s_tick_ms, isrVars, history>>

KickStore == /\ At("kick_store")
             /\ cr1' = m.reg \cup {"TXEIE"}
             /\ \/ /\ m.left > 1
                   /\ pc' = "push"
                   /\ m' = [m EXCEPT !.left = @ - 1, !.reg = {}]
                   /\ UNCHANGED waited
                \/ m.left = 1 /\ Return
             /\ UNCHANGED <<rxRegs, txRegs, wire, frames, loaded, driver,
                            s_tick_ms, isrVars, history>>

-----------------------------------------------------------------------------
(* Waiting: uint32_t start = s_tick_ms, and the test in the loop *)

StartWait(l, tmo) == /\ pc' = l
                     /\ m' = [m EXCEPT !.start = s_tick_ms, !.tmo = tmo]
                     /\ waited' = 0
                     /\ UNCHANGED s_tick_ms

Expired_Bug == s_tick_ms >= m.start + m.tmo   \* a deadline that never wraps

(* A deadline that wraps, compared with a tick that has not. *)
Expired_EarlyBug == s_tick_ms >= (m.start + m.tmo) % TickMod

(* (s_tick_ms - start) >= timeout_ms, in unsigned arithmetic *)
Expired == (s_tick_ms - m.start) % TickMod >= m.tmo

(* The time test of a loop: give up, or go round again. *)
TimeTest(l, loop) == /\ At(l)
                     /\ \/ Expired /\ Goto("timed_out")
                        \/ ~Expired /\ Goto(loop)
                     /\ UNCHANGED <<usartVars, driver, time, isrVars, history>>

ReturnFalse == /\ At("timed_out")
               /\ Return
               /\ UNCHANGED <<usartVars, driver, s_tick_ms, isrVars, history>>

(* flush_tx(timeout_ms) *)
FlushCall(tmo) == /\ Call("flush_tx") /\ initialized_
                  /\ StartWait("drain", tmo)
                  /\ UNCHANGED <<usartVars, driver, isrVars, history>>

FlushDrain == /\ At("drain")
              /\ Goto(IF tx_buf_ = <<>> THEN "tc" ELSE "drain_time")
              /\ UNCHANGED <<usartVars, driver, time, isrVars, history>>

FlushTc_Bug == /\ At("tc")                    \* waits for TXE instead of TC
               /\ ReadSR
               /\ Goto(IF TXE THEN "flushed" ELSE "tc_time")
               /\ UNCHANGED <<cr1, txRegs, wire, frames, loaded, driver, time,
                              isrVars, history>>

FlushTc == /\ At("tc")
           /\ ReadSR
           /\ Goto(IF tc THEN "flushed" ELSE "tc_time")
           /\ UNCHANGED <<cr1, txRegs, wire, frames, loaded, driver, time,
                          isrVars, history>>

FlushTrue == /\ At("flushed")
             /\ Return
             /\ UNCHANGED <<usartVars, driver, s_tick_ms, isrVars, history>>

(* receive(out, timeout_ms) *)
ReceiveCall(tmo) == /\ Call("receive") /\ initialized_
                    /\ StartWait("pop", tmo)
                    /\ UNCHANGED <<usartVars, driver, isrVars, history>>

ReceivePop_Bug == /\ At("pop") /\ rx_buf_ # <<>>   \* tail_ is not advanced
                  /\ Len(got) < MaxFrames
                  /\ got' = Append(got, Head(rx_buf_))
                  /\ Return
                  /\ UNCHANGED <<usartVars, driver, s_tick_ms, isrVars,
                                 accepted, cleared, errorCalls>>

ReceivePop == /\ At("pop") /\ rx_buf_ # <<>>
              /\ got' = Append(got, Head(rx_buf_))
              /\ rx_buf_' = Tail(rx_buf_)
              /\ Return
              /\ UNCHANGED <<usartVars, tx_buf_, stats_, initialized_, inst,
                             nvic, s_tick_ms, isrVars, accepted, cleared,
                             errorCalls>>

ReceiveEmpty == /\ At("pop") /\ rx_buf_ = <<>>
                /\ Goto("pop_time")
                /\ UNCHANGED <<usartVars, driver, time, isrVars, history>>

-----------------------------------------------------------------------------
(* get_and_clear_errors(), called by main.  The counters are not volatile: *)
(* each ++ is a load and a store, in any order.                            *)

ErrorsCall == /\ Call("get_and_clear_errors")
              /\ errorCalls < MaxErrorCalls
              /\ errorCalls' = errorCalls + 1
              /\ ReadSR
              /\ IF err = {}
                   THEN Return
                   ELSE /\ pc' = "count_load" /\ UNCHANGED waited
                        /\ m' = [m EXCEPT !.todo = err]
              /\ UNCHANGED <<cr1, txRegs, wire, frames, loaded, driver,
                             s_tick_ms, isrVars, accepted, got, cleared>>

CountLoad(f) == /\ At("count_load") /\ f \in m.todo
                /\ pc' = "count_store"
                /\ m' = [m EXCEPT !.flag = {f}, !.cnt = stats_[CounterOf[f]]]
                /\ UNCHANGED <<usartVars, driver, time, isrVars, history>>

CountStore(f) == /\ At("count_store") /\ m.flag = {f}
                 /\ stats_' = [stats_ EXCEPT ![CounterOf[f]] = m.cnt + 1]
                 /\ pc' = IF m.todo = {f} THEN "clear" ELSE "count_load"
                 /\ m' = [m EXCEPT !.todo = @ \ {f}, !.flag = {}, !.cnt = 0]
                 /\ UNCHANGED <<usartVars, tx_buf_, rx_buf_, initialized_,
                                inst, nvic, time, isrVars, history>>

(* (void)usart_->DR; whatever the register holds by now is gone. *)
ClearErrors == /\ ReadDR
               /\ cleared' = IF rxne THEN cleared + 1 ELSE cleared
               /\ UNCHANGED <<cr1, txRegs, wire, frames, loaded, driver,
                              accepted, got, errorCalls>>

ErrorsClear == /\ At("clear")
               /\ ClearErrors
               /\ Return
               /\ UNCHANGED <<s_tick_ms, isrVars>>

-----------------------------------------------------------------------------
(* The interrupt handler *)

IsrEnter == /\ isr = "none" /\ nvic /\ IrqLine
            /\ isr' = "entry"
            /\ UNCHANGED <<usartVars, driver, time, mainVars, ierr, itx, ibyte,
                           history>>

IsrExit == isr' = "none" /\ ierr' = {} /\ itx' = FALSE /\ ibyte' = <<>>

(* No instance is registered: the handler does nothing. *)
IsrUnregistered == /\ isr = "entry" /\ ~inst
                   /\ IsrExit
                   /\ UNCHANGED <<usartVars, driver, time, mainVars, history>>

(* Framing errors are not counted. *)
IsrErrors_Bug ==
    /\ isr = "entry" /\ inst
    /\ ReadSR
    /\ stats_' = [c \in Counters |->
                    IF \E f \in err \ {"FE"} : c = CounterOf[f]
                      THEN stats_[c] + 1 ELSE stats_[c]]
    /\ ierr' = err
    /\ isr' = IF err = {} THEN "decide" ELSE "clear"
    /\ UNCHANGED <<cr1, txRegs, wire, frames, loaded, tx_buf_, rx_buf_,
                   initialized_, inst, nvic, time, mainVars, itx, ibyte,
                   history>>

(* get_and_clear_errors(): read SR and count; main cannot interfere. *)
IsrErrors == /\ isr = "entry" /\ inst
             /\ ReadSR
             /\ stats_' = [c \in Counters |->
                             IF \E f \in err : c = CounterOf[f]
                               THEN stats_[c] + 1 ELSE stats_[c]]
             /\ ierr' = err
             /\ isr' = IF err = {} THEN "decide" ELSE "clear"
             /\ UNCHANGED <<cr1, txRegs, wire, frames, loaded, tx_buf_,
                            rx_buf_, initialized_, inst, nvic, time, mainVars,
                            itx, ibyte, history>>

IsrClear == /\ isr = "clear"
            /\ ClearErrors
            /\ isr' = "decide"
            /\ UNCHANGED <<time, mainVars, ierr, itx, ibyte>>

(* The TX branch looks at TXEIE alone. *)
IsrDecide_TxBug ==
    LET rxBranch == ierr = {} /\ "RXNEIE" \in cr1 /\ rxne
        txBranch == "TXEIE" \in cr1
    IN  /\ isr = "decide"
        /\ ReadSR
        /\ itx' = txBranch
        /\ isr' = CASE rxBranch -> "rx" [] txBranch /\ ~rxBranch -> "tx"
                    [] OTHER -> "exit"
        /\ UNCHANGED <<cr1, txRegs, wire, frames, loaded, driver, time,
                       mainVars, ierr, ibyte, history>>

(* The RX branch does not look at the errors just cleared. *)
IsrDecide_RxBug ==
    LET rxBranch == "RXNEIE" \in cr1 /\ rxne
        txBranch == "TXEIE" \in cr1 /\ TXE
    IN  /\ isr = "decide"
        /\ ReadSR
        /\ itx' = txBranch
        /\ isr' = CASE rxBranch -> "rx" [] txBranch /\ ~rxBranch -> "tx"
                    [] OTHER -> "exit"
        /\ UNCHANGED <<cr1, txRegs, wire, frames, loaded, driver, time,
                       mainVars, ierr, ibyte, history>>

(* The second read of SR, and the read of CR1.  After an error the RXNE    *)
(* branch is skipped.                                                      *)
IsrDecide ==
    LET rxBranch == ierr = {} /\ "RXNEIE" \in cr1 /\ rxne
        txBranch == "TXEIE" \in cr1 /\ TXE
    IN  /\ isr = "decide"
        /\ ReadSR
        /\ itx' = txBranch
        /\ isr' = CASE rxBranch -> "rx" [] txBranch /\ ~rxBranch -> "tx"
                    [] OTHER -> "exit"
        /\ UNCHANGED <<cr1, txRegs, wire, frames, loaded, driver, time,
                       mainVars, ierr, ibyte, history>>

(* The result of push() is not looked at by the counters. *)
IsrReceive_CountBug ==
    /\ isr = "rx"
    /\ ReadDR
    /\ rx_buf_' = IF Len(rx_buf_) < Capacity THEN Append(rx_buf_, rdr)
                                             ELSE rx_buf_
    /\ stats_' = Bump(stats_, "bytes_received")
    /\ isr' = IF itx THEN "tx" ELSE "exit"
    /\ UNCHANGED <<cr1, txRegs, wire, frames, loaded, tx_buf_, initialized_,
                   inst, nvic, time, mainVars, ierr, itx, ibyte, history>>

(* byte = DR; push it, or count it as an overflow *)
IsrReceive == /\ isr = "rx"
              /\ ReadDR
              /\ \/ /\ Len(rx_buf_) < Capacity
                    /\ rx_buf_' = Append(rx_buf_, rdr)
                    /\ stats_' = Bump(stats_, "bytes_received")
                 \/ /\ Len(rx_buf_) = Capacity
                    /\ stats_' = Bump(stats_, "rx_buffer_overflows")
                    /\ UNCHANGED rx_buf_
              /\ isr' = IF itx THEN "tx" ELSE "exit"
              /\ UNCHANGED <<cr1, txRegs, wire, frames, loaded, tx_buf_,
                             initialized_, inst, nvic, time, mainVars, ierr,
                             itx, ibyte, history>>

IsrPop == /\ isr = "tx" /\ tx_buf_ # <<>>
          /\ ibyte' = <<Head(tx_buf_)>> /\ tx_buf_' = Tail(tx_buf_)
          /\ isr' = "write"
          /\ UNCHANGED <<usartVars, rx_buf_, stats_, initialized_, inst, nvic,
                         time, mainVars, ierr, itx, history>>

(* usart_->DR = byte; *)
IsrWrite == /\ isr = "write"
            /\ WriteDR(ibyte[1])
            /\ ibyte' = <<>> /\ isr' = "exit"
            /\ UNCHANGED <<cr1, rxRegs, wire, frames, loaded, driver, time,
                           mainVars, ierr, itx, history>>

IsrDrained_Bug == /\ isr = "tx" /\ tx_buf_ = <<>>   \* TXEIE stays set
                  /\ isr' = "exit"
                  /\ UNCHANGED <<usartVars, driver, time, mainVars, ierr, itx,
                                 ibyte, history>>

(* The ring is empty: usart_->CR1 &= ~TXEIE; *)
IsrDrained == /\ isr = "tx" /\ tx_buf_ = <<>>
              /\ cr1' = cr1 \ {"TXEIE"}
              /\ isr' = "exit"
              /\ UNCHANGED <<rxRegs, txRegs, wire, frames, loaded, driver,
                             time, mainVars, ierr, itx, ibyte, history>>

IsrReturn == /\ isr = "exit"
             /\ IsrExit
             /\ UNCHANGED <<usartVars, driver, time, mainVars, history>>

-----------------------------------------------------------------------------
(* The hardware on its own *)

Waiting == pc \in {"drain", "drain_time", "tc", "tc_time", "pop", "pop_time"}

(* SysTick preempts main and the USART handlers alike.  A loop of main is  *)
(* never starved for a whole turn of the counter: it looks at the tick     *)
(* again before the tick laps it.                                          *)
SysTick == /\ initialized_
           /\ Waiting => waited < TickMod - 1
           /\ s_tick_ms' = (s_tick_ms + 1) % TickMod
           /\ waited' = IF Waiting THEN waited + 1 ELSE waited
           /\ UNCHANGED <<usartVars, driver, mainVars, isrVars, history>>

Line(bad) == /\ QuietInit => inst
             /\ LineFrame(bad)
             /\ UNCHANGED <<driver, time, mainVars, isrVars, history>>

Shift == /\ ShiftLoad \/ ShiftDone
         /\ UNCHANGED <<driver, time, mainVars, isrVars, history>>

-----------------------------------------------------------------------------

CallBegins == \/ InitCall
              \/ \E n \in 1..MaxLen : SendCall(n)
              \/ \E tmo \in Timeouts : FlushCall(tmo) \/ ReceiveCall(tmo)
              \/ ErrorsCall

CallGoesOn == \/ ConfigureUsart \/ ConfigureNvic \/ Register \/ InitDone
              \/ SendRefused \/ SendPush \/ KickLoad \/ KickStore
              \/ FlushDrain \/ FlushTc \/ FlushTrue
              \/ ReceivePop \/ ReceiveEmpty
              \/ TimeTest("drain_time", "drain") \/ TimeTest("tc_time", "tc")
              \/ TimeTest("pop_time", "pop") \/ ReturnFalse
              \/ \E f \in Flags : CountLoad(f) \/ CountStore(f)
              \/ ErrorsClear

Isr == \/ IsrEnter \/ IsrUnregistered \/ IsrErrors \/ IsrClear \/ IsrDecide
       \/ IsrReceive \/ IsrPop \/ IsrWrite \/ IsrDrained \/ IsrReturn

Next == \/ CallBegins \/ CallGoesOn \/ Isr
        \/ SysTick \/ Shift \/ \E bad \in LineFaults : Line(bad)

(* The processor executes what it has begun, the hardware serves a pending *)
(* interrupt, shifts out what it was given, and ticks.  Nobody is obliged  *)
(* to make a call or to send a frame.                                      *)
Fairness == WF_vars(CallGoesOn) /\ WF_vars(Isr) /\ WF_vars(Shift)
            /\ WF_vars(SysTick)

Spec == Init /\ [][Next]_vars

FairSpec == Spec /\ Fairness

-----------------------------------------------------------------------------

Labels == {"idle", "configure_usart", "configure_nvic", "register",
           "initialized", "push", "kick_load", "kick_store", "drain",
           "drain_time", "tc", "tc_time", "flushed", "timed_out", "pop",
           "pop_time", "count_load", "count_store", "clear"}

IsrLabels == {"none", "entry", "clear", "decide", "rx", "tx", "write", "exit"}

DriverTypeOK ==
    /\ tx_buf_ \in Seq(Nat) /\ Len(tx_buf_) <= Capacity
    /\ rx_buf_ \in Seq(Frame) /\ Len(rx_buf_) <= Capacity
    /\ stats_ \in [Counters -> Nat]
    /\ initialized_ \in BOOLEAN /\ inst \in BOOLEAN /\ nvic \in BOOLEAN

TimeTypeOK == s_tick_ms \in 0..TickMod-1 /\ waited \in 0..TickMod-1

MainTypeOK ==
    /\ pc \in Labels
    /\ m \in [left : 0..MaxLen, reg : SUBSET {"UE", "RXNEIE", "TXEIE"},
              cnt : Nat, todo : SUBSET Flags, flag : SUBSET Flags,
              start : 0..TickMod-1, tmo : {0} \cup Timeouts]

IsrTypeOK ==
    /\ isr \in IsrLabels /\ ierr \subseteq Flags /\ itx \in BOOLEAN
    /\ ibyte \in Seq(Nat) /\ Len(ibyte) <= 1
    /\ isr = "write" <=> ibyte # <<>>

HistoryTypeOK ==
    /\ accepted \in Nat /\ got \in Seq(Frame)
    /\ cleared \in Nat /\ errorCalls \in 0..MaxErrorCalls

(* Types; the rings never hold more than N-1 elements (ring_buffer.hpp,    *)
(* lines 21-24).                                                           *)
TypeOK == /\ UsartTypeOK /\ DriverTypeOK /\ TimeTypeOK
          /\ MainTypeOK /\ IsrTypeOK /\ HistoryTypeOK

(* Every byte send() accepted is in exactly one place on its way out, and  *)
(* the bytes leave the pin in the order of the calls: none is lost,        *)
(* repeated or overtaken between the ring, the handler, the data register  *)
(* and the shift register (uart.cpp, lines 262 and 392-400).               *)
TxInOrder ==
    wire \o shift \o tdr \o ibyte \o tx_buf_ = [k \in 1..accepted |-> k]

(* Bytes in the ring always have the TXE interrupt to take them out, or    *)
(* main is about to turn it on: main's CR1 |= TXEIE (line 267) and the     *)
(* handler's CR1 &= ~TXEIE (line 398) are both read-modify-writes, and no  *)
(* interleaving of the two leaves bytes behind with the interrupt off.     *)
NoLostKick ==
    tx_buf_ # <<>> => "TXEIE" \in cr1 \/ pc \in {"kick_load", "kick_store"}

(* flush_tx() returns true only when the last bit of every accepted byte   *)
(* has left the pin (uart.hpp, lines 198-206).                             *)
FlushMeansSent == pc = "flushed" => Len(wire) = accepted

(* receive() and flush_tx() never give up early, wherever the tick wraps   *)
(* (uart.cpp, lines 299-300).                                              *)
TimeoutNotEarly == pc = "timed_out" => waited >= m.tmo

(* Received frames reach receive() in the order of the line, none twice.   *)
RxInOrder ==
    LET path == got \o rx_buf_ \o (IF rxne THEN <<rdr>> ELSE <<>>)
    IN  \A i, j \in 1..Len(path) : i < j => path[i].id < path[j].id

(* Every frame the peripheral took in is still in its data register, or    *)
(* was counted as received or as a ring overflow, or was discarded with an *)
(* error; and what was counted as received is in the ring or was returned. *)
RxConserved ==
    /\ loaded = (IF rxne THEN 1 ELSE 0) + stats_["bytes_received"]
                  + stats_["rx_buffer_overflows"] + cleared
    /\ stats_["bytes_received"] = Len(got) + Len(rx_buf_)

(* get_and_clear_errors() increments "the relevant Stats counters"         *)
(* (uart.hpp, lines 220-221): each frame it discards shows in one of them. *)
RxAccounted == cleared <= stats_["overrun_errors"] + stats_["framing_errors"]
                            + stats_["noise_errors"]

(* While main leaves the error flags to the handler, that is so.           *)
HandlerAccounts == errorCalls = 0 => RxAccounted

(* "If any flag is set the corrupt RX byte is discarded" (uart.hpp, line   *)
(* 220): a frame that came with FE or NE is not given to the application.  *)
NoCorruptDelivered == \A i \in 1..Len(rx_buf_) : rx_buf_[i].bad = {}

(* The same sentence, and uart.cpp, line 362 ("discards the corrupt        *)
(* byte"), the other way round: the byte the handler discards is one that  *)
(* came with an error.                                                     *)
OnlyCorruptDiscarded == isr = "clear" /\ rxne => rdr.bad # {}

(* While main leaves the error flags to the handler, an intact byte falls  *)
(* victim to it only when an overrun has been counted: no flag of a        *)
(* framing or noise error outlives the byte it came with (uart.cpp, lines  *)
(* 350-364 and 379).                                                       *)
IntactLostAfterOverrun ==
    isr = "clear" /\ rxne /\ rdr.bad = {} /\ errorCalls = 0
      => stats_["overrun_errors"] > 0

(* To its user the driver is a pair of queues: two handlers, four          *)
(* registers and two rings are, in each direction, one queue of the ring's *)
(* N-1 bytes (and two more on their way out), to which main and the        *)
(* interrupt add and from which they take, and nothing else ever happens   *)
(* to it (uart.hpp, lines 19-29).                                          *)
Port == INSTANCE SerialPort
          WITH open <- initialized_, sent <- wire, rxq <- rx_buf_,
               txq <- shift \o tdr \o ibyte \o tx_buf_,
               TxRoom <- N + 1, RxRoom <- N - 1

ImplementsPort == Port!Spec

(* Every call comes back: the waits end at their time-out at the latest,   *)
(* and interrupts do not keep main from running for ever.                  *)
CallsReturn == pc # "idle" ~> pc = "idle"

(* What send() accepted reaches the pin, although main never looks at it   *)
(* again ("drained by the TXE interrupt", uart.hpp, lines 20-21).          *)
AcceptedIsSent == \A k \in 1..MaxSend : accepted >= k ~> Len(wire) >= k

(* The interrupt request goes low again and again: the handler turns TXEIE *)
(* off on an empty ring and empties the receive register, so no request is *)
(* served for ever.                                                        *)
NoStorm == []<>(~IrqLine)
=============================================================================
