----------------------------- MODULE SerialPort -----------------------------
(***************************************************************************)
(* What include/uart.hpp promises the user of one Uart object: two queues. *)
(* Bytes that send() accepts go out once, in order, and wait meanwhile;    *)
(* received ones wait for receive(), in the order of the line, though some *)
(* may be missing.  Registers, interrupts and TXEIE do not appear.  Uart   *)
(* implements it.                                                          *)
(***************************************************************************)
EXTENDS Integers, Sequences

CONSTANTS Frame,   (* received bytes, with their ordinals as field id *)
          TxRoom,  (* bytes that may wait to be sent                  *)
          RxRoom   (* bytes that may wait to be received              *)

VARIABLES open,      \* init() has returned
          txq, sent, \* accepted bytes, by ordinal: those that wait, those out
          rxq, got   \* received bytes: those that wait, those returned

vars == <<open, txq, sent, rxq, got>>

Init == open = FALSE /\ txq = <<>> /\ sent = <<>> /\ rxq = <<>> /\ got = <<>>

Open == /\ ~open /\ open' = TRUE
        /\ UNCHANGED <<txq, sent, rxq, got>>

Accept == /\ open /\ Len(txq) < TxRoom
          /\ txq' = Append(txq, Len(sent) + Len(txq) + 1)
          /\ UNCHANGED <<open, sent, rxq, got>>

Transmit == /\ txq # <<>>
            /\ sent' = Append(sent, Head(txq)) /\ txq' = Tail(txq)
            /\ UNCHANGED <<open, rxq, got>>

Newer(f) == \A k \in 1..Len(got \o rxq) : (got \o rxq)[k].id < f.id

(* A byte may come in while init() is still at work. *)
Take(f) == /\ Newer(f) /\ Len(rxq) < RxRoom
           /\ rxq' = Append(rxq, f)
           /\ UNCHANGED <<open, txq, sent, got>>

Receive == /\ open /\ rxq # <<>>
           /\ got' = Append(got, Head(rxq)) /\ rxq' = Tail(rxq)
           /\ UNCHANGED <<open, txq, sent>>

Next == Open \/ Accept \/ Transmit \/ Receive \/ \E f \in Frame : Take(f)

Spec == Init /\ [][Next]_vars
=============================================================================
