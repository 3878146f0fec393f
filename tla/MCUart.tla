------------------------------- MODULE MCUart -------------------------------
(* Constants of Uart for the model checker. *)
EXTENDS Uart

OneFault == {{}, {"FE"}}
AnyFault == {{}, {"FE"}, {"FE", "NE"}}
=============================================================================
