--------------------------------- MODULE Brr ---------------------------------
(***************************************************************************)
(* The baud-rate arithmetic: uart_compute_brr() of include/uart.hpp, and   *)
(* the part of configure_usart() in src/uart.cpp that derives the clock of *)
(* the bus from SystemCoreClock and RCC->CFGR.                             *)
(*                                                                         *)
(* The sum is below 2^32 for every uint32_t baud and every clock up to     *)
(* 2^31, so that nothing wraps; a baud of 0 is a division by zero.         *)
(***************************************************************************)
EXTENDS Integers

(* The divider the three bits of PPRE1 or PPRE2 stand for. *)
ApbDivider(ppre) == IF ppre < 4 THEN 1 ELSE 2^(ppre - 3)

BusClock(sysclk, ppre) == sysclk \div ApbDivider(ppre)

(* (pclk + baud / 2u) / baud *)
uart_compute_brr(pclk, baud) == (pclk + baud \div 2) \div baud

(* USART_BRR holds 16 bits. *)
BrrRegister(value) == value % 2^16

Abs(x) == IF x < 0 THEN -x ELSE x

(* The rate the peripheral runs at is pclk / brr.  Its error against baud  *)
(* is under 2%, the bound uart.hpp gives ("Must be < 2% per UART spec").   *)
Within2Percent(pclk, brr, baud) == 50 * Abs(brr * baud - pclk) < pclk

(* The divisor fits the register, and is not so small (25, where the       *)
(* oversampling needs 16) that rounding it alone may cost 2%: 921600 baud  *)
(* on 16 MHz, with a divisor of 17, is 2.1% off.                           *)
Representable(pclk, baud) == /\ 25 * baud < pclk
                             /\ uart_compute_brr(pclk, baud) < 2^16
==============================================================================
