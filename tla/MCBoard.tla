------------------------------- MODULE MCBoard -------------------------------
(* Constants of Board for the model checker. *)
EXTENDS Board, TLC

CONSTANTS s_uart, rival, slow, fast, bad

Of(u, b, p, s) == [usart |-> u, baud |-> b, parity |-> p, stop |-> s]

(* The singleton, a second object on its USART, one on USART1 at a rate    *)
(* only the 16 MHz clock can express, and one on a peripheral the driver   *)
(* does not support.                                                       *)
AskedTwo == (s_uart :> Of("USART2", 115200, "None", "One"))
         @@ (rival :> Of("USART2", 9600, "Odd", "One"))
         @@ (slow :> Of("USART1", 1200, "Even", "Two"))
         @@ (bad :> Of("other", 9600, "None", "One"))

AskedSix == (s_uart :> Of("USART2", 115200, "None", "One"))
         @@ (fast :> Of("USART6", 230400, "None", "Two"))
==============================================================================
