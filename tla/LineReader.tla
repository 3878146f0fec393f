----------------------------- MODULE LineReader -----------------------------
(***************************************************************************)
(* receive_line() of src/uart.cpp, and the receive() it calls for every    *)
(* byte, between the handler that fills rx_buf_ and the SysTick that both  *)
(* of them time.  Each read of s_tick_ms is a step of its own: the tick    *)
(* goes on between them.                                                   *)
(*                                                                         *)
(* rx_buf_ is a queue of N-1 bytes, as in Uart; here the handler's         *)
(* reception of a good frame is one step.                                  *)
(***************************************************************************)
EXTENDS Integers, Sequences

CONSTANTS Others,    (* the bytes that are neither CR nor LF                  *)
          N,         (* size of the ring buffer; 256 in uart.hpp              *)
          TickMod,   (* s_tick_ms counts modulo TickMod; 2^32 on the target   *)
          SizeMod,   (* size_t counts modulo SizeMod; 2^32 on the target      *)
          Slack,     (* ticks that may pass between two steps of main; the
                        tick is a millisecond and a step some instructions    *)
          MaxFrames  (* bound: bytes that arrive                              *)

Bytes == {"CR", "LF"} \cup Others

ASSUME LineAssumption ==
    /\ N \in Nat \ {0} /\ TickMod \in Nat \ {0} /\ SizeMod \in Nat \ {0}
    /\ Slack \in Nat \ {0} /\ MaxFrames \in Nat
    /\ {"CR", "LF"} \cap Others = {}

VARIABLES rx_buf_, stats_,  \* members of the object: the ring, and the two
                            \* counters of the bytes the handler has seen
          lpc, l,           \* where main is in receive_line(), and its locals
          waited,           \* ticks since the call began
          slack,            \* ticks since main's latest step
          segment, looked, due, cause
             \* history: bytes the call has taken from the ring; waited at
             \* its latest look at the tick, and at which a look must end
             \* it; why it returned

uartVars == <<rx_buf_, stats_>>
timeVars == <<slack, waited>>
lineHistory == <<segment, looked, due, cause>>
lineVars == <<uartVars, timeVars, lpc, l, lineHistory>>

Counters == {"bytes_received", "rx_buffer_overflows"}

Seen == stats_["bytes_received"] + stats_["rx_buffer_overflows"]

(* buf up to the write position, which is Len(line); the arguments; the    *)
(* value of s_tick_ms and the time-out of the call, and of receive().      *)
NoCall == [line |-> <<>>, max_len |-> 0, tmo |-> 0, start |-> 0,
           rtmo |-> 0, rstart |-> 0]

LineInit == /\ rx_buf_ = <<>> /\ stats_ = [c \in Counters |-> 0]
            /\ slack = 0 /\ waited = 0
            /\ lpc = "idle" /\ l = NoCall
            /\ segment = <<>> /\ looked = 0 /\ due = 0
            /\ cause = "none"

(* A call may begin at any tick, and looks at the counter only to compare  *)
(* it with earlier looks: between calls it need not be kept.               *)
s_tick_ms == (l.start + waited) % TickMod

(* A step of main: it was not kept waiting for longer than Slack. *)
Main == slack' = 0

Goto(next) == lpc' = next

-----------------------------------------------------------------------------

(* Operators named X_Bug are mutants: X with a plausible mistake in it.    *)
(* No specification uses them; they show what each property would catch.   *)

(* The test for max_len 0 is left out. *)
ReceiveLine_Bug(max_len, tmo) ==
    /\ lpc = "idle" /\ Main
    /\ \E start \in 0..TickMod-1 :
         l' = [NoCall EXCEPT !.max_len = max_len, !.tmo = tmo, !.start = start]
    /\ Goto("head") /\ cause' = "none"
    /\ waited' = 0
    /\ UNCHANGED <<uartVars, segment, looked, due>>

(* A buffer without room for a terminator is left alone. *)
ReceiveLine(max_len, tmo) ==
    /\ lpc = "idle" /\ Main
    /\ \E start \in 0..TickMod-1 :
         l' = [NoCall EXCEPT !.max_len = max_len, !.tmo = tmo, !.start = start]
    /\ \/ max_len = 0 /\ Goto("returned") /\ cause' = "full"
       \/ max_len > 0 /\ Goto("head") /\ cause' = "none"
    /\ waited' = 0
    /\ UNCHANGED <<uartVars, segment, looked, due>>

(* pos < max_len - 1u, in unsigned arithmetic *)
Room == Len(l.line) < (l.max_len - 1) % SizeMod

(* s_tick_ms - start, in unsigned arithmetic *)
Elapsed(start) == (s_tick_ms - start) % TickMod

GiveUp(why) == Goto("returned") /\ cause' = why
               /\ l' = [l EXCEPT !.rtmo = 0, !.rstart = 0]
               /\ looked' = 0 /\ due' = 0

(* receive() gets the whole time-out for every byte. *)
LoopHead_Bug ==
    /\ lpc = "head" /\ Main
    /\ \/ ~Room /\ GiveUp("full")
       \/ Room /\ Elapsed(l.start) >= l.tmo /\ GiveUp("timeout")
       \/ /\ Room /\ Elapsed(l.start) < l.tmo
          /\ Goto("receive")
          /\ l' = [l EXCEPT !.rtmo = l.tmo]
          /\ looked' = waited /\ due' = l.tmo
          /\ UNCHANGED cause
    /\ UNCHANGED <<uartVars, waited, segment>>

(* The head of the loop. *)
LoopHead ==
    /\ lpc = "head" /\ Main
    /\ \/ ~Room /\ GiveUp("full")
       \/ Room /\ Elapsed(l.start) >= l.tmo /\ GiveUp("timeout")
       \/ /\ Room /\ Elapsed(l.start) < l.tmo
          /\ Goto("receive")
          /\ l' = [l EXCEPT !.rtmo = l.tmo - Elapsed(l.start)]
          /\ looked' = waited /\ due' = l.tmo
          /\ UNCHANGED cause
    /\ UNCHANGED <<uartVars, waited, segment>>

(* receive() times from the beginning of the whole call. *)
Receive_Bug == /\ lpc = "receive" /\ Main
               /\ l' = [l EXCEPT !.rstart = l.start]
               /\ due' = l.tmo + (waited - looked)
               /\ Goto("pop")
               /\ UNCHANGED <<uartVars, waited, segment, looked, cause>>

(* receive() looks at the tick before it looks at the ring. *)
Receive_TimeBug == /\ lpc = "receive" /\ Main
                   /\ l' = [l EXCEPT !.rstart = s_tick_ms]
                   /\ due' = l.tmo + (waited - looked)
                   /\ Goto("time")
                   /\ UNCHANGED <<uartVars, waited, segment, looked, cause>>

(* receive(byte, timeout_ms - elapsed): start = s_tick_ms.  The ticks since *)
(* the loop's own look count twice.                                        *)
Receive == /\ lpc = "receive" /\ Main
           /\ l' = [l EXCEPT !.rstart = s_tick_ms]
           /\ due' = l.tmo + (waited - looked)
           /\ Goto("pop")
           /\ UNCHANGED <<uartVars, waited, segment, looked, cause>>

(* receive() has returned: its variables are gone. *)
Received == [l EXCEPT !.rtmo = 0, !.rstart = 0]

(* A CR ends up in the buffer. *)
Store_Bug(b) ==
    \/ b = "LF" /\ Goto("returned") /\ cause' = "line" /\ l' = Received
    \/ /\ b # "LF" /\ Goto("head") /\ UNCHANGED cause
       /\ l' = [Received EXCEPT !.line = Append(@, b)]

Store(b) ==
    \/ b = "CR" /\ Goto("head") /\ l' = Received /\ UNCHANGED cause
    \/ b = "LF" /\ Goto("returned") /\ cause' = "line" /\ l' = Received
    \/ /\ b \notin {"CR", "LF"} /\ Goto("head") /\ UNCHANGED cause
       /\ l' = [Received EXCEPT !.line = Append(@, b)]

Pop == /\ lpc = "pop" /\ Main
       /\ rx_buf_ # <<>>
       /\ rx_buf_' = Tail(rx_buf_)
       /\ segment' = Append(segment, Head(rx_buf_))
       /\ Store(Head(rx_buf_))
       /\ looked' = 0 /\ due' = 0
       /\ UNCHANGED <<stats_, waited>>

PopEmpty == /\ lpc = "pop" /\ Main
            /\ rx_buf_ = <<>>
            /\ Goto("time")
            /\ UNCHANGED <<uartVars, waited, l, lineHistory>>

TimeTest == /\ lpc = "time" /\ Main
            /\ \/ Elapsed(l.rstart) >= l.rtmo /\ GiveUp("timeout")
               \/ /\ Elapsed(l.rstart) < l.rtmo
                  /\ Goto("pop") /\ looked' = waited
                  /\ UNCHANGED <<l, due, cause>>
            /\ UNCHANGED <<uartVars, waited, segment>>

LineGoesOn == LoopHead \/ Receive \/ Pop \/ PopEmpty \/ TimeTest

(* The caller has the result. *)
LineResult == /\ lpc = "returned" /\ Main
              /\ Goto("idle") /\ l' = NoCall /\ cause' = "none"
              /\ segment' = <<>> /\ waited' = 0
              /\ UNCHANGED <<uartVars, looked, due>>

-----------------------------------------------------------------------------
(* The handler, and the tick *)

(* The ring is taken to hold N bytes. *)
Arrive_Bug(b) ==
    /\ Seen < MaxFrames
    /\ \/ /\ Len(rx_buf_) < N
          /\ rx_buf_' = Append(rx_buf_, b)
          /\ stats_' = [stats_ EXCEPT !["bytes_received"] = @ + 1]
       \/ /\ Len(rx_buf_) = N
          /\ stats_' = [stats_ EXCEPT !["rx_buffer_overflows"] = @ + 1]
          /\ UNCHANGED rx_buf_
    /\ UNCHANGED <<timeVars, lpc, l, segment, looked, due, cause>>

Arrive(b) ==
    /\ Seen < MaxFrames
    /\ \/ /\ Len(rx_buf_) < N - 1
          /\ rx_buf_' = Append(rx_buf_, b)
          /\ stats_' = [stats_ EXCEPT !["bytes_received"] = @ + 1]
       \/ /\ Len(rx_buf_) = N - 1
          /\ stats_' = [stats_ EXCEPT !["rx_buffer_overflows"] = @ + 1]
          /\ UNCHANGED rx_buf_
    /\ UNCHANGED <<timeVars, lpc, l, segment, looked, due, cause>>

InLine == lpc \in {"head", "receive", "pop", "time"}

(* s_tick_ms, incremented.  A tick while nobody is timed is left out. *)
SysTick == /\ InLine /\ slack < Slack
           /\ slack' = slack + 1 /\ waited' = waited + 1
           /\ UNCHANGED <<uartVars, lpc, l, lineHistory>>

-----------------------------------------------------------------------------

LineTypeOK ==
    /\ rx_buf_ \in Seq(Bytes) /\ Len(rx_buf_) <= N - 1
    /\ stats_ \in [Counters -> 0..MaxFrames]
    /\ slack \in 0..Slack
    /\ lpc \in {"idle", "head", "receive", "pop", "time", "returned"}
    /\ l \in [line : Seq(Others), max_len : Nat, tmo : Nat,
              start : 0..TickMod-1, rtmo : Nat, rstart : 0..TickMod-1]
    /\ segment \in Seq(Bytes)
    /\ waited \in Nat /\ looked \in Nat /\ due \in Nat
    /\ cause \in {"none", "line", "timeout", "full"}

(* Nothing is written outside the caller's buffer, the terminator neither: *)
(* pos is below max_len at every point of the loop, and the loop is never  *)
(* entered for a buffer of no bytes, where max_len - 1u would wrap and     *)
(* bound nothing (uart.hpp, lines 180-186; uart.cpp, lines 316 and 321).   *)
InBounds == InLine \/ (lpc = "returned" /\ l.max_len > 0) =>
              Len(l.line) < l.max_len

(* The bytes of s one after the other: step takes what came out so far,    *)
(* and the next byte, to what comes out with it.                           *)
Fold(step, base, s) ==
    LET acc[k \in 0..Len(s)] ==
          IF k = 0 THEN base ELSE step[<<acc[k - 1], s[k]>>]
    IN  acc[Len(s)]

Keep == [p \in Seq(Others) \X Bytes |->
           IF p[2] \in {"CR", "LF"} THEN p[1] ELSE Append(p[1], p[2])]

(* The bytes of s that belong to a line. *)
Text(s) == Fold(Keep, <<>>, s)

(* The call returns what it has taken from the ring and nothing else, with *)
(* no CR, also when it times out half-way through a line; and true exactly *)
(* when the last byte taken was a newline (uart.hpp, lines 180-189).       *)
LineIsWhatWasTaken ==
    lpc # "idle" =>
      /\ l.line = Text(segment)
      /\ cause = "line" <=> \E k \in 1..Len(segment) : segment[k] = "LF"
      /\ \A k \in 1..Len(segment) : segment[k] = "LF" => k = Len(segment)

(* No time-out is reported before timeout_ms ticks have passed, wherever   *)
(* the counter wraps and however the call is divided among receive()s.     *)
LineNotEarly == cause = "timeout" => waited >= l.tmo

(* "Maximum total wait" (uart.hpp, line 187): bytes that trickle in do not *)
(* prolong it.  After a look at the tick that finds timeout_ms gone the    *)
(* call does not go on, except for the ticks between two looks that        *)
(* LoopHead and receive() each take for its own (lines 322 and 297).       *)
LineNotLate == lpc \in {"receive", "pop"} => looked < due
=============================================================================
