------------------------------- MODULE Usart -------------------------------
(***************************************************************************)
(* The USART peripheral as the driver meets it: the registers of           *)
(* USART_TypeDef that src/uart.cpp reads and writes, what each access does *)
(* to them, and what the hardware and the far end of the line do on their  *)
(* own.  Nothing of this is code of the repository; it is the part of      *)
(* reference manual RM0368 that the comments of uart.cpp and uart.hpp rely *)
(* on (SR-then-DR clears the error flags, TXE, TC, overrun).               *)
(*                                                                         *)
(* A received frame is an ordinal with the faults its arrival raised; a    *)
(* transmitted byte is its ordinal among the bytes send() accepted.        *)
(***************************************************************************)
EXTENDS Integers, Sequences

CONSTANTS LineFaults,  (* the sets of flags of {"FE", "NE"} a frame may raise *)
          MaxFrames    (* bound: frames the far end sends                     *)

VARIABLES cr1,               \* CR1: the bits set of UE, RXNEIE and TXEIE
          rxne, rdr,         \* SR.RXNE and the receive data register
          err, seen,         \* SR's error flags; those of the latest SR read
          tdr, shift, tc,    \* transmit data register, shift register, SR.TC
          wire,              \* the bytes that have left the TX pin
          frames, loaded     \* frames that arrived; those that reached rdr

rxRegs == <<rxne, rdr, err, seen>>
txRegs == <<tdr, shift, tc>>
usartVars == <<cr1, rxRegs, txRegs, wire, frames, loaded>>

Flags == {"ORE", "FE", "NE"}
Frame == [id : 0..MaxFrames, bad : SUBSET Flags]

TXE == tdr = <<>>

(* The interrupt request.  FE and NE raise none of their own (CR3.EIE is   *)
(* never set); ORE shares RXNEIE with RXNE.                                *)
IrqLine == \/ "RXNEIE" \in cr1 /\ (rxne \/ "ORE" \in err)
           \/ "TXEIE" \in cr1 /\ TXE

UsartInit == /\ cr1 = {}
             /\ rxne = FALSE /\ rdr = [id |-> 0, bad |-> {}]
             /\ err = {} /\ seen = {}
             /\ tdr = <<>> /\ shift = <<>> /\ tc = TRUE
             /\ wire = <<>> /\ frames = 0 /\ loaded = 0

(* Register accesses.  A read of DR clears RXNE and, of the error flags,   *)
(* those that an earlier read of SR returned.                              *)
ReadSR == seen' = err /\ UNCHANGED <<rxne, rdr, err>>

ReadDR == rxne' = FALSE /\ err' = err \ seen /\ seen' = {} /\ UNCHANGED rdr

WriteDR(b) == tdr' = <<b>> /\ tc' = FALSE /\ UNCHANGED shift

(* A frame arrives.  When the one before it is still in the register it is *)
(* lost and ORE is raised; the register keeps what it holds.               *)
LineFrame(bad) ==
    /\ "UE" \in cr1 /\ frames < MaxFrames
    /\ frames' = frames + 1
    /\ \/ /\ ~rxne
          /\ rxne' = TRUE /\ rdr' = [id |-> frames + 1, bad |-> bad]
          /\ err' = err \cup bad /\ loaded' = loaded + 1
       \/ /\ rxne
          /\ err' = err \cup {"ORE"}
          /\ UNCHANGED <<rxne, rdr, loaded>>
    /\ UNCHANGED <<cr1, seen, txRegs, wire>>

ShiftLoad == /\ tdr # <<>> /\ shift = <<>>
             /\ shift' = tdr /\ tdr' = <<>>
             /\ UNCHANGED <<cr1, rxRegs, tc, wire, frames, loaded>>

(* The last stop bit leaves: TC goes high unless another byte waits.       *)
ShiftDone == /\ shift # <<>>
             /\ wire' = wire \o shift /\ shift' = <<>>
             /\ tc' = (tc \/ TXE)
             /\ UNCHANGED <<cr1, rxRegs, tdr, frames, loaded>>

UsartTypeOK == /\ cr1 \subseteq {"UE", "RXNEIE", "TXEIE"}
               /\ rxne \in BOOLEAN /\ rdr \in Frame
               /\ err \subseteq Flags /\ seen \subseteq Flags
               /\ tdr \in Seq(Nat) /\ Len(tdr) <= 1
               /\ shift \in Seq(Nat) /\ Len(shift) <= 1
               /\ tc \in BOOLEAN
               /\ wire \in Seq(Nat)
               /\ frames \in 0..MaxFrames /\ loaded \in 0..frames
=============================================================================
