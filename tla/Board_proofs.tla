---------------------------- MODULE Board_proofs ----------------------------
(***************************************************************************)
(* Lemmas about Board: the error of the baud-rate arithmetic, the stages   *)
(* of rcc_init() against the clock hardware, and type correctness.  The    *)
(* theorems are in BoardSafety_proofs.                                     *)
(***************************************************************************)
EXTENDS Board, TLAPS

-----------------------------------------------------------------------------
(* The baud-rate arithmetic *)

LEMMA DivBounds ==
    \A a \in Nat, b \in Nat \ {0} :
        /\ a \div b \in Nat
        /\ (a \div b) * b <= a /\ a < (a \div b) * b + b
  OBVIOUS

(* The divisor is the nearest one: brr * baud is off by baud / 2 at most.  *)
LEMMA BrrIsNearest ==
    ASSUME NEW pclk \in Nat, NEW baud \in Nat \ {0}
    PROVE  /\ uart_compute_brr(pclk, baud) \in Nat
           /\ 2 * Abs(uart_compute_brr(pclk, baud) * baud - pclk) <= baud
<1> DEFINE h == baud \div 2
           b == uart_compute_brr(pclk, baud)
           p == b * baud
<1>1. h \in Nat /\ 2 * h <= baud /\ baud <= 2 * h + 1
  BY DEF h
<1>2. b \in Nat /\ p <= pclk + h /\ pclk + h < p + baud
  BY <1>1, DivBounds DEF uart_compute_brr
<1>3. p \in Nat
  BY <1>2
<1> HIDE DEF h, b, p
<1>4. Abs(p - pclk) <= h \/ 2 * Abs(p - pclk) <= baud
  BY <1>1, <1>2, <1>3 DEF Abs
<1>5. 2 * Abs(p - pclk) <= baud
  BY <1>1, <1>3, <1>4 DEF Abs
<1> QED BY <1>2, <1>5 DEF b, p

(* A rate that can be represented is met within 2%. *)
LEMMA BrrIsClose ==
    ASSUME NEW pclk \in Nat, NEW baud \in Nat \ {0},
           Representable(pclk, baud)
    PROVE  Within2Percent(pclk, BrrRegister(uart_compute_brr(pclk, baud)),
                          baud)
<1> DEFINE b == uart_compute_brr(pclk, baud)
           e == Abs(b * baud - pclk)
<1>1. b \in Nat /\ 2 * e <= baud
  BY BrrIsNearest
<1>2. b < 2^16 /\ 25 * baud < pclk
  BY DEF Representable
<1>3. 2^16 = 65536
  OBVIOUS
<1>4. BrrRegister(b) = b
  <2> HIDE DEF b
  <2> QED BY <1>1, <1>2, <1>3 DEF BrrRegister
<1>5. e \in Int
  <2>1. b * baud \in Int
    <3> HIDE DEF b
    <3> QED BY <1>1
  <2> HIDE DEF b
  <2> QED BY <2>1 DEF Abs
<1>6. 50 * e < pclk
  <2> HIDE DEF e
  <2> QED BY <1>1, <1>2, <1>5
<1> QED BY <1>4, <1>6 DEF Within2Percent

-----------------------------------------------------------------------------
(* rcc_init() and the clock hardware *)

Pll84 == [src |-> "HSE", m |-> 8, n |-> 336, p |-> 1]

LEMMA Pll84Clock == PllClock(Pll84) = FullSpeed
<1>1. HSE \div 8 = 1000000
  BY SMT DEF HSE
<1>2. (1000000 * 336) \div (2 * (1 + 1)) = 84000000
  BY SMT
<1> QED BY <1>1, <1>2, SMT DEF PllClock, Pll84, FullSpeed

AfterHse == {"flash", "pllcfgr", "cfgr", "pllon", "pll", "sw", "sws", "done"}

(* How far the registers have come when rcc_init() is at a label, and when *)
(* the PLL is on, ready or in use.                                         *)
RccInv ==
    /\ RccTypeOK
    /\ "PLLRDY" \in cr => "PLLON" \in cr
    /\ "PLLON" \in cr => /\ "HSERDY" \in cr /\ pllcfgr = Pll84
                         /\ acr = 2 /\ cfgr.ppre1 = 4
    /\ cfgr.sw = "PLL" \/ sws = "PLL" => "PLLRDY" \in cr
    /\ rpc \in AfterHse => "HSERDY" \in cr
    /\ rpc \in AfterHse \ {"flash"} => acr = 2
    /\ rpc \in AfterHse \ {"flash", "pllcfgr"} => pllcfgr = Pll84
    /\ rpc \in AfterHse \ {"flash", "pllcfgr", "cfgr"} => cfgr.ppre1 = 4
    /\ rpc \in {"pll", "sw", "sws", "done"} => "PLLON" \in cr
    /\ rpc \in {"sw", "sws", "done"} => "PLLRDY" \in cr
    /\ rpc \in {"sws", "done"} => cfgr.sw = "PLL"
    /\ rpc = "done" => sws = "PLL"

RccSteps == rcc_init \/ RccGoesOn \/ ClockHardware \/ UNCHANGED rccVars

LEMMA AfterResetInv ==
    AfterReset /\ SystemCoreClock \in {HSI, FullSpeed} => RccInv
BY PollsAssumption DEF AfterReset, RccInv, RccTypeOK, ResetPllcfgr, ResetCfgr,
   AfterHse

LEMMA RccResetInv == RccInv /\ RccReset => RccInv'
BY PollsAssumption DEF RccReset, RccInv, RccTypeOK, ResetPllcfgr, ResetCfgr,
   AfterHse

Waited == /\ UNCHANGED <<cr, pllcfgr, cfgr, sws, acr, SystemCoreClock>>
          /\ i' \in 0..Polls-1 /\ gaveUp' \in {"none", "hse", "pll", "sws"}

LEMMA WaitKeeps ==
    ASSUME RccInv, Waited, rpc' \in {"idle", rpc}
    PROVE  RccInv'
BY DEF Waited, RccInv, RccTypeOK, AfterHse

LEMMA RccStepsInv == RccInv /\ RccSteps => RccInv'
<1> SUFFICES ASSUME RccInv, RccSteps PROVE RccInv'
  OBVIOUS
<1>1. CASE rcc_init
  BY <1>1 DEF rcc_init, Step, RccInv, RccTypeOK, AfterHse
<1>2. CASE RccGoesOn
  <2>1. CASE Wait("hse", "HSERDY" \in cr, "flash")
    <3>1. /\ Waited /\ rpc = "hse"
          /\ rpc' \in {"idle", rpc} \/ ("HSERDY" \in cr /\ rpc' = "flash")
      BY <2>1, PollsAssumption DEF Wait, Waited, rccHw, RccInv, RccTypeOK
    <3> QED BY <3>1, WaitKeeps DEF Waited, RccInv, RccTypeOK, AfterHse
  <2>2. CASE SetFlashLatency
    BY <2>2 DEF SetFlashLatency, Step, RccInv, RccTypeOK, AfterHse
  <2>3. CASE ConfigurePll
    BY <2>3 DEF ConfigurePll, Step, RccInv, RccTypeOK, AfterHse, Pll84
  <2>4. CASE SetPrescalers
    BY <2>4 DEF SetPrescalers, Step, RccInv, RccTypeOK, AfterHse
  <2>5. CASE EnablePll
    BY <2>5 DEF EnablePll, Step, RccInv, RccTypeOK, AfterHse
  <2>6. CASE Wait("pll", "PLLRDY" \in cr, "sw")
    <3>1. /\ Waited /\ rpc = "pll"
          /\ rpc' \in {"idle", rpc} \/ ("PLLRDY" \in cr /\ rpc' = "sw")
      BY <2>6, PollsAssumption DEF Wait, Waited, rccHw, RccInv, RccTypeOK
    <3> QED BY <3>1, WaitKeeps DEF Waited, RccInv, RccTypeOK, AfterHse
  <2>7. CASE SwitchToPll
    BY <2>7 DEF SwitchToPll, Step, RccInv, RccTypeOK, AfterHse
  <2>8. CASE Wait("sws", sws = "PLL", "done")
    <3>1. /\ Waited /\ rpc = "sws"
          /\ rpc' \in {"idle", rpc} \/ (sws = "PLL" /\ rpc' = "done")
      BY <2>8, PollsAssumption DEF Wait, Waited, rccHw, RccInv, RccTypeOK
    <3> QED BY <3>1, WaitKeeps DEF Waited, RccInv, RccTypeOK, AfterHse
  <2>9. CASE RccDone
    BY <2>9 DEF RccDone, rccHw, RccInv, RccTypeOK, AfterHse
  <2> QED BY <1>2, <2>1, <2>2, <2>3, <2>4, <2>5, <2>6, <2>7, <2>8, <2>9
         DEF RccGoesOn
<1>3. CASE ClockHardware
  <2>1. CASE HseStarts
    BY <1>3, <2>1 DEF ClockHardware, HseStarts, RccInv, RccTypeOK, AfterHse
  <2>2. CASE PllLocks
    BY <1>3, <2>2 DEF ClockHardware, PllLocks, RccInv, RccTypeOK, AfterHse
  <2>3. CASE ClockSwitches
    BY <1>3, <2>3 DEF ClockHardware, ClockSwitches, RccInv, RccTypeOK, AfterHse
  <2> QED BY <1>3, <2>1, <2>2, <2>3 DEF ClockHardware
<1>4. CASE UNCHANGED rccVars
  BY <1>4 DEF rccVars, rccHw, RccInv, RccTypeOK
<1> QED BY <1>1, <1>2, <1>3, <1>4 DEF RccSteps

LEMMA SysclkIs ==
    RccInv => Sysclk = IF sws = "PLL" THEN FullSpeed ELSE HSI
BY Pll84Clock DEF RccInv, RccTypeOK, Sysclk

LEMMA LimitsHold == RccInv => ClockLimits
<1> SUFFICES ASSUME RccInv PROVE ClockLimits
  OBVIOUS
<1>1. /\ ApbDivider(0) = 1 /\ ApbDivider(4) = 2
  <2>1. 4 - 3 = 1 /\ 2^1 = 2
    OBVIOUS
  <2> QED BY <2>1 DEF ApbDivider
<1>2. /\ 84000000 \div 2 = 42000000 /\ 84000000 \div 1 = 84000000
      /\ 16000000 \div 2 = 8000000 /\ 16000000 \div 1 = 16000000
  BY SMT
<1>3. cfgr.ppre1 \in {0, 4} /\ cfgr.ppre2 = 0 /\ acr \in {0, 2}
  BY DEF RccInv, RccTypeOK
<1>4. CASE sws = "PLL"
  <2>1. Sysclk = 84000000 /\ acr = 2 /\ cfgr.ppre1 = 4
    BY <1>4, SysclkIs, SMT DEF RccInv, FullSpeed
  <2> QED BY <1>1, <1>2, <1>3, <2>1, SMT DEF ClockLimits, BusClock
<1>5. CASE sws # "PLL"
  <2>1. Sysclk = 16000000
    BY <1>5, SysclkIs, SMT DEF HSI
  <2> QED BY <1>1, <1>2, <1>3, <2>1, SMT DEF ClockLimits, BusClock
<1> QED BY <1>4, <1>5

(* Before its first PLL lock the board runs on the HSI; and while          *)
(* rcc_init() is not running the clock selected is the one in use, and     *)
(* SystemCoreClock tells which, except after a failure in the last wait.   *)
Known ==
    /\ "PLLRDY" \notin cr => SystemCoreClock = HSI
    /\ rpc = "idle" /\ gaveUp # "sws" =>
         /\ cfgr.sw = sws
         /\ SystemCoreClock = IF sws = "PLL" THEN FullSpeed ELSE HSI

LEMMA KnownClock == RccInv /\ Known => ClockIsKnown
BY SysclkIs DEF Known, ClockIsKnown

LEMMA RccStepsKnown == RccInv /\ Known /\ RccSteps => Known'
<1> SUFFICES ASSUME RccInv, Known, RccSteps PROVE Known'
  OBVIOUS
<1> USE DEF RccInv, Known
<1>1. CASE rcc_init
  BY <1>1 DEF rcc_init, Step
<1>2. CASE RccGoesOn
  <2>1. CASE Wait("hse", "HSERDY" \in cr, "flash")
    BY <2>1 DEF Wait, rccHw, RccTypeOK
  <2>2. CASE SetFlashLatency
    BY <2>2 DEF SetFlashLatency, Step
  <2>3. CASE ConfigurePll
    BY <2>3 DEF ConfigurePll, Step
  <2>4. CASE SetPrescalers
    BY <2>4 DEF SetPrescalers, Step
  <2>5. CASE EnablePll
    BY <2>5 DEF EnablePll, Step
  <2>6. CASE Wait("pll", "PLLRDY" \in cr, "sw")
    BY <2>6 DEF Wait, rccHw, RccTypeOK
  <2>7. CASE SwitchToPll
    BY <2>7 DEF SwitchToPll, Step
  <2>8. CASE Wait("sws", sws = "PLL", "done")
    BY <2>8 DEF Wait, rccHw
  <2>9. CASE RccDone
    BY <2>9 DEF RccDone, rccHw
  <2> QED BY <1>2, <2>1, <2>2, <2>3, <2>4, <2>5, <2>6, <2>7, <2>8, <2>9
         DEF RccGoesOn
<1>3. CASE ClockHardware
  <2>1. CASE HseStarts
    BY <1>3, <2>1 DEF ClockHardware, HseStarts
  <2>2. CASE PllLocks
    BY <1>3, <2>2 DEF ClockHardware, PllLocks
  <2>3. CASE ClockSwitches
    BY <1>3, <2>3 DEF ClockHardware, ClockSwitches
  <2> QED BY <1>3, <2>1, <2>2, <2>3 DEF ClockHardware
<1>4. CASE UNCHANGED rccVars
  BY <1>4 DEF rccVars, rccHw
<1> QED BY <1>1, <1>2, <1>3, <1>4 DEF RccSteps

-----------------------------------------------------------------------------
(* Types *)

LEMMA Pow16 == 2^16 = 65536
OBVIOUS

LEMMA PeriphTypes ==
    \A u \in Usarts :
      LET p == resolve_periph(u)
      IN  /\ p.af \in {7, 8} /\ p.ahb1 \in ClockBits /\ p.apb \in ClockBits
          /\ p.apb2 = (u # "USART2")
BY DEF Usarts, resolve_periph, ClockBits

LEMMA BusClockType ==
    \A f \in {HSI, FullSpeed}, ppre \in {0, 4} : BusClock(f, ppre) \in Nat
<1>1. ApbDivider(0) = 1 /\ ApbDivider(4) = 2
  <2>1. 4 - 3 = 1 /\ 2^1 = 2
    OBVIOUS
  <2> QED BY <2>1 DEF ApbDivider
<1> QED BY <1>1, SMT DEF BusClock, HSI, FullSpeed

(* What main can be doing: booting; idle or in rcc_init(); or in init() of *)
(* an object.                                                              *)
InInit == pc \in {"clocks", "configure_gpio", "configure_usart",
                 "configure_nvic", "register", "setup_systick", "initialized"}

ControlInv ==
    /\ pc # "main" => rpc = "idle"
    /\ InInit => self \in Objects /\ usart_ \in Usarts

BoardTypeOK == TypeOK /\ RccInv /\ ControlInv

LEMMA AskedTypes ==
    \A o \in Objects : /\ Asked[o].baud \in Nat \ {0}
                        /\ Asked[o].parity \in Parities
                        /\ Asked[o].stop \in {"One", "Two"}
BY BoardAssumption

LEMMA ConfiguredBrrType ==
    BoardTypeOK /\ InInit => ConfiguredBrr \in Nat
<1> SUFFICES ASSUME BoardTypeOK, InInit PROVE ConfiguredBrr \in Nat
  OBVIOUS
<1>1. SystemCoreClock \in {HSI, FullSpeed} /\ Ppre \in {0, 4}
  BY DEF BoardTypeOK, RccInv, RccTypeOK, Ppre
<1>2. Asked[self].baud \in Nat \ {0}
  BY AskedTypes DEF BoardTypeOK, ControlInv
<1> QED BY <1>1, <1>2, BusClockType, BrrIsNearest DEF ConfiguredBrr

LEMMA BrrRegisterType == \A v \in Nat : BrrRegister(v) \in 0..2^16-1
BY Pow16 DEF BrrRegister

LEMMA InitTypes == Init => BoardTypeOK
<1> SUFFICES ASSUME Init PROVE BoardTypeOK
  OBVIOUS
<1>1. RccInv
  BY AfterResetInv DEF Init
<1>2. ControlInv
  BY DEF Init, AfterReset, ControlInv, InInit
<1>3. gpio \in [Pins -> [mode : 0..3, speed : 0..3, pull : 0..2, af : 0..15]]
  BY DEF Init, ResetGpio, ResetPin
<1>4. regs \in [Usarts -> [cr1 : SUBSET Cr1Bits, stop : {0, 2},
                          brr : 0..2^16-1]]
  BY Pow16 DEF Init, ResetRegs, ResetUsart
<1>5. /\ inst \in [Usarts -> Objects \cup {None}]
      /\ initialized_ \in [Objects -> BOOLEAN]
      /\ queued \in [Objects -> 0..MaxQueue]
      /\ accepted \in 0..MaxSend /\ resets \in 0..MaxResets
  BY BoardAssumption DEF Init, Junk, NoBytes
<1> QED BY <1>1, <1>2, <1>3, <1>4, <1>5 DEF BoardTypeOK, TypeOK, RccInv, Init

(* What a step does to the clock: a step of rcc_init(),  *)
(* a reset, the copy of .data, or nothing.                                 *)
LEMMA NextClock ==
    [Next]_vars => RccSteps \/ RccReset \/ CopyData
<1> SUFFICES ASSUME [Next]_vars PROVE RccSteps \/ RccReset \/ CopyData
  OBVIOUS
<1>1. CASE MainGoesOn
  BY <1>1 DEF MainGoesOn, RccStep, ZeroBss, Constructors, EnableClocks,
     ConfigureGpio, ConfigureUsart, ConfigureNvic, Register, setup_systick,
     InitDone, RccSteps
<1>2. CASE MainCalls
  BY <1>2 DEF MainCalls, CallRcc, InitCall, Send, Write, RccSteps
<1>3. CASE Clocks
  BY <1>3 DEF Clocks, RccSteps
<1>4. CASE Reset
  BY <1>4 DEF Reset
<1>5. ASSUME NEW u \in Usarts, Frame(u) \/ Interrupt(u)
      PROVE  RccSteps
  BY <1>5 DEF Frame, Interrupt, RccSteps
<1>6. CASE UNCHANGED vars
  BY <1>6 DEF vars, RccSteps
<1> QED BY <1>1, <1>2, <1>3, <1>4, <1>5, <1>6 DEF Next

LEMMA Bounds == MaxQueue \in Nat \ {0} /\ MaxSend \in Nat /\ MaxResets \in Nat
BY BoardAssumption

LEMMA NoBytesType ==
    NoBytes \in [Objects -> 0..MaxQueue]
BY Bounds DEF NoBytes

(* An assignment to one component of an array. *)
LEMMA Assigned ==
    ASSUME NEW S, NEW T, NEW f \in [S -> T], NEW x \in S, NEW y \in T
    PROVE  [f EXCEPT ![x] = y] \in [S -> T]
OBVIOUS

LEMMA Cr1Assigned ==
    ASSUME NEW B, NEW u, NEW c, u \in Usarts => c \in SUBSET Cr1Bits,
           NEW f \in [Usarts -> [cr1 : SUBSET Cr1Bits, stop : {0, 2}, brr : B]]
    PROVE  /\ [f EXCEPT ![u].cr1 = c]
                \in [Usarts -> [cr1 : SUBSET Cr1Bits, stop : {0, 2}, brr : B]]
           /\ \A v \in Usarts : [f EXCEPT ![u].cr1 = c][v].brr = f[v].brr
<1>1. CASE u \in Usarts
  BY <1>1
<1>2. CASE u \notin Usarts
  <2>1. [f EXCEPT ![u].cr1 = c] = f
    BY <1>2
  <2> QED BY <2>1
<1> QED BY <1>1, <1>2

LEMMA NextRccInv == BoardTypeOK /\ [Next]_vars => RccInv'
<1> SUFFICES ASSUME BoardTypeOK, [Next]_vars PROVE RccInv'
  OBVIOUS
<1>1. CASE CopyData
  BY <1>1 DEF CopyData, rccHw, BoardTypeOK, RccInv, RccTypeOK
<1> QED BY <1>1, NextClock, RccStepsInv, RccResetInv DEF BoardTypeOK

(* Every step keeps the types; RccInv is NextRccInv. *)
LEMMA NextTypes == BoardTypeOK /\ [Next]_vars => BoardTypeOK'
<1> SUFFICES ASSUME BoardTypeOK, [Next]_vars PROVE BoardTypeOK'
  OBVIOUS
<1> USE DEF BoardTypeOK, boardHw, static, control, history
<1>0. RccInv' /\ RccTypeOK'
  BY NextRccInv DEF RccInv
<1>1. CASE CopyData
  <2>1. TypeOK'
    BY <1>0, <1>1 DEF CopyData, Goto, At, Idle, TypeOK
  <2>2. ControlInv'
    BY <1>1 DEF CopyData, Goto, At, Idle, TypeOK, ControlInv, InInit, usart_,
       rccVars, rccHw
  <2> QED BY <1>0, <2>1, <2>2
<1>2. CASE ZeroBss
  <2>1. TypeOK'
    BY <1>0, <1>2, NoBytesType DEF ZeroBss, Goto, At, Idle, TypeOK
  <2>2. ControlInv'
    BY <1>2 DEF ZeroBss, Goto, At, Idle, TypeOK, ControlInv, InInit, usart_,
       rccVars, rccHw
  <2> QED BY <1>0, <2>1, <2>2
<1>3. CASE Constructors
  <2>1. TypeOK'
    BY <1>0, <1>3, NoBytesType DEF Constructors, Goto, At, Idle, TypeOK
  <2>2. ControlInv'
    BY <1>3 DEF Constructors, Goto, At, Idle, TypeOK, ControlInv, InInit, usart_,
       rccVars, rccHw
  <2> QED BY <1>0, <2>1, <2>2
<1>4. CASE CallRcc
  <2>1. TypeOK'
    BY <1>0, <1>4 DEF CallRcc, Goto, At, Idle, TypeOK
  <2>2. ControlInv'
    BY <1>4 DEF CallRcc, Goto, At, Idle, TypeOK, ControlInv, InInit, usart_,
       rccVars, rccHw
  <2> QED BY <1>0, <2>1, <2>2
<1>5. CASE RccStep
  <2>1. TypeOK'
    BY <1>0, <1>5 DEF RccStep, Goto, At, Idle, TypeOK
  <2>2. ControlInv'
    BY <1>5 DEF RccStep, Goto, At, Idle, TypeOK, ControlInv, InInit, usart_,
       rccVars, rccHw
  <2> QED BY <1>0, <2>1, <2>2
<1>6. ASSUME NEW o \in Objects, InitCall(o)
      PROVE  BoardTypeOK'
  <2>1. TypeOK'
    BY <1>0, <1>6 DEF InitCall, Idle, TypeOK
  <2>2. ControlInv'
    BY <1>6 DEF InitCall, Idle, TypeOK, ControlInv, InInit, usart_, rccVars,
       rccHw
  <2> QED BY <1>0, <2>1, <2>2
<1>7. CASE EnableClocks
  <2>1. TypeOK'
    BY <1>0, <1>7, PeriphTypes DEF EnableClocks, Goto, At, Idle, TypeOK, ControlInv, InInit, Periph
  <2>2. ControlInv'
    BY <1>7 DEF EnableClocks, Goto, At, Idle, TypeOK, ControlInv, InInit, usart_,
       rccVars, rccHw
  <2> QED BY <1>0, <2>1, <2>2
<1>8. CASE ConfigureGpio
  <2>1. Periph.af \in 0..15
    BY <1>8, PeriphTypes DEF ConfigureGpio, At, ControlInv, InInit, Periph
  <2>2. /\ UsartPin(0, Periph.af)
             \in [mode : 0..3, speed : 0..3, pull : 0..2, af : 0..15]
        /\ UsartPin(1, Periph.af)
             \in [mode : 0..3, speed : 0..3, pull : 0..2, af : 0..15]
    BY <2>1 DEF UsartPin
  <2>3. gpio' \in [Pins -> [mode : 0..3, speed : 0..3, pull : 0..2,
                           af : 0..15]]
    BY <1>8, <2>2 DEF ConfigureGpio, TypeOK
  <2>4. TypeOK'
    BY <1>0, <1>8, <2>3 DEF ConfigureGpio, Goto, At, TypeOK
  <2>5. ControlInv'
    BY <1>8 DEF ConfigureGpio, Goto, At, ControlInv, InInit, usart_, rccVars,
       rccHw
  <2> QED BY <1>0, <2>4, <2>5
<1>9. CASE ConfigureUsart
  <2>1. ConfiguredBrr \in Nat /\ self \in Objects
    BY <1>9, ConfiguredBrrType DEF ConfigureUsart, At, InInit, ControlInv
  <2>2. /\ BrrRegister(ConfiguredBrr) \in 0..2^16-1
        /\ StopBits(Asked[self].stop) \in {0, 2}
        /\ ParityBits(Asked[self].parity) \subseteq Cr1Bits
    BY <2>1, BrrRegisterType, AskedTypes DEF StopBits, ParityBits, Parities,
       Cr1Bits
  <2>3. regs' \in [Usarts -> [cr1 : SUBSET Cr1Bits, stop : {0, 2},
                             brr : 0..2^16-1]]
    BY <1>9, <2>2 DEF ConfigureUsart, TypeOK, Cr1Bits
  <2>4. TypeOK'
    BY <1>0, <1>9, <2>3 DEF ConfigureUsart, Goto, At, TypeOK
  <2>5. ControlInv'
    BY <1>9 DEF ConfigureUsart, Goto, At, ControlInv, InInit, usart_, rccVars,
       rccHw
  <2> QED BY <1>0, <2>4, <2>5
<1>10. CASE ConfigureNvic
  <2>1. TypeOK'
    BY <1>0, <1>10 DEF ConfigureNvic, Goto, At, Idle, TypeOK, ControlInv, InInit
  <2>2. ControlInv'
    BY <1>10 DEF ConfigureNvic, Goto, At, Idle, TypeOK, ControlInv, InInit, usart_,
       rccVars, rccHw
  <2> QED BY <1>0, <2>1, <2>2
<1>11. CASE Register
  <2>1. TypeOK'
    BY <1>0, <1>11 DEF Register, Goto, At, Idle, TypeOK, ControlInv, InInit
  <2>2. ControlInv'
    BY <1>11 DEF Register, Goto, At, Idle, TypeOK, ControlInv, InInit, usart_,
       rccVars, rccHw
  <2> QED BY <1>0, <2>1, <2>2
<1>12. CASE setup_systick
  <2>1. SystemCoreClock \div 1000 \in Nat
    BY <1>0, SMT DEF RccInv, RccTypeOK, HSI, FullSpeed
  <2>2. TypeOK'
    BY <1>0, <1>12, <2>1 DEF setup_systick, Goto, At, TypeOK
  <2>3. ControlInv'
    BY <1>12 DEF setup_systick, Goto, At, ControlInv, InInit, usart_, rccVars,
       rccHw
  <2> QED BY <1>0, <2>2, <2>3
<1>13. CASE InitDone
  <2>1. TypeOK'
    BY <1>0, <1>13 DEF InitDone, Goto, At, Idle, TypeOK, ControlInv, InInit
  <2>2. ControlInv'
    BY <1>13 DEF InitDone, Goto, At, Idle, TypeOK, ControlInv, InInit, usart_,
       rccVars, rccHw
  <2> QED BY <1>0, <2>1, <2>2
<1>14. ASSUME NEW o \in Objects, Send(o)
      PROVE  BoardTypeOK'
  <2>1. queued' \in [Objects -> 0..MaxQueue]
    <3>a. queued[o] \in 0..MaxQueue /\ queued[o] < MaxQueue
      BY <1>14 DEF Send, TypeOK
    <3>1. queued[o] + 1 \in 0..MaxQueue
      BY <3>a, Bounds
    <3> QED BY <1>14, <3>1, Assigned DEF Send, TypeOK
  <2>2. accepted' \in 0..MaxSend
    <3>1. /\ accepted \in 0..MaxSend /\ accepted < MaxSend
          /\ accepted' = accepted + 1
      BY <1>14 DEF Send, TypeOK
    <3> QED BY <3>1, Bounds
  <2>3. regs' \in [Usarts -> [cr1 : SUBSET Cr1Bits, stop : {0, 2},
                             brr : 0..2^16-1]]
    <3> DEFINE u == Asked[o].usart
               c == regs[u].cr1 \cup {"TXEIE"}
    <3>1. regs' = [regs EXCEPT ![u].cr1 = c]
      BY <1>14 DEF Send, Kick
    <3>2. u \in Usarts => c \in SUBSET Cr1Bits
      BY DEF TypeOK, Cr1Bits
    <3> HIDE DEF u, c
    <3> QED BY <3>1, <3>2, Cr1Assigned DEF TypeOK
  <2>4. TypeOK'
    BY <1>0, <1>14, <2>1, <2>2, <2>3 DEF Send, Idle, TypeOK
  <2>5. ControlInv'
    BY <1>14 DEF Send, ControlInv, InInit, usart_, rccVars, rccHw
  <2> QED BY <1>0, <2>4, <2>5
<1>15. CASE Clocks
  <2>1. TypeOK'
    BY <1>0, <1>15 DEF Clocks, TypeOK
  <2>2. ControlInv'
    BY <1>15 DEF Clocks, ClockHardware, ControlInv, InInit, usart_
  <2> QED BY <1>0, <2>1, <2>2
<1>16. CASE Reset
  <2>1. gpio' \in [Pins -> [mode : 0..3, speed : 0..3, pull : 0..2,
                           af : 0..15]]
    BY <1>16 DEF Reset, ResetGpio, ResetPin
  <2>2. regs' \in [Usarts -> [cr1 : SUBSET Cr1Bits, stop : {0, 2},
                             brr : 0..2^16-1]]
    BY <1>16, Pow16 DEF Reset, ResetRegs, ResetUsart
  <2>3. accepted' \in 0..MaxSend /\ resets' \in 0..MaxResets
    <3>1. /\ resets \in 0..MaxResets /\ resets < MaxResets
          /\ resets' = resets + 1 /\ accepted' = 0
      BY <1>16 DEF Reset, TypeOK
    <3> QED BY <3>1, Bounds
  <2>4. TypeOK'
    BY <1>0, <1>16, <2>1, <2>2, <2>3 DEF Reset, TypeOK
  <2>5. ControlInv'
    BY <1>16 DEF Reset, RccReset, ControlInv, InInit
  <2> QED BY <1>0, <2>4, <2>5
<1>17. ASSUME NEW u \in Usarts, Interrupt(u)
      PROVE  BoardTypeOK'
  <2>1. /\ UNCHANGED <<rccVars, clocks, gpio, nvic, load, inst, s_systick_init,
                       initialized_, history, pc, self>>
        /\ cpu' \in {cpu, "hung"}
    BY <1>17 DEF Interrupt, Serve
  <2>2. queued' \in [Objects -> 0..MaxQueue]
    <3>1. ASSUME NEW o \in Objects, Serve(o)
          PROVE  queued' \in [Objects -> 0..MaxQueue]
      <4>1. CASE queued[o] > 0 /\ queued' = [queued EXCEPT ![o] = @ - 1]
        <5>a. queued[o] \in 0..MaxQueue /\ queued[o] > 0
          BY <4>1 DEF TypeOK
        <5>1. queued[o] - 1 \in 0..MaxQueue
          BY <5>a, Bounds
        <5> QED BY <4>1, <5>1, Assigned DEF TypeOK
      <4>2. CASE UNCHANGED queued
        BY <4>2 DEF TypeOK
      <4> QED BY <3>1, <4>1, <4>2 DEF Serve
    <3> QED BY <1>17, <3>1 DEF Interrupt, TypeOK
  <2>3. regs' \in [Usarts -> [cr1 : SUBSET Cr1Bits, stop : {0, 2},
                             brr : 0..2^16-1]]
    <3>1. ASSUME NEW o \in Objects, Serve(o)
          PROVE  regs' \in [Usarts -> [cr1 : SUBSET Cr1Bits, stop : {0, 2},
                                      brr : 0..2^16-1]]
      <4> DEFINE v == Asked[o].usart
                 c == regs[v].cr1 \ {"TXEIE"}
      <4>1. regs' = [regs EXCEPT ![v].cr1 = c] \/ UNCHANGED regs
        BY <3>1 DEF Serve
      <4>2. v \in Usarts => c \in SUBSET Cr1Bits
        BY DEF TypeOK
      <4>3. regs \in [Usarts -> [cr1 : SUBSET Cr1Bits, stop : {0, 2},
                                 brr : 0..2^16-1]]
        BY DEF TypeOK
      <4> HIDE DEF v, c
      <4>4. CASE regs' = [regs EXCEPT ![v].cr1 = c]
        BY <4>2, <4>3, <4>4, Cr1Assigned
      <4> QED BY <4>1, <4>3, <4>4
    <3> QED BY <1>17, <3>1 DEF Interrupt, TypeOK
  <2>4. rxne' \subseteq Usarts
    BY <1>17 DEF Interrupt, Serve, TypeOK
  <2>5. TypeOK'
    BY <1>0, <2>1, <2>2, <2>3, <2>4 DEF TypeOK
  <2>6. ControlInv'
    BY <2>1 DEF ControlInv, InInit, usart_, rccVars, rccHw
  <2> QED BY <1>0, <2>5, <2>6
<1>18. ASSUME NEW u \in Usarts, Frame(u)
       PROVE  BoardTypeOK'
  <2>1. TypeOK'
    BY <1>0, <1>18 DEF Frame, TypeOK
  <2>2. ControlInv'
    BY <1>18 DEF Frame, ControlInv, InInit, usart_, rccVars, rccHw
  <2> QED BY <1>0, <2>1, <2>2
<1>19. CASE UNCHANGED vars
  BY <1>0, <1>19 DEF vars, TypeOK, ControlInv, InInit, usart_, rccVars, rccHw
<1> QED BY <1>1, <1>2, <1>3, <1>4, <1>5, <1>6, <1>7, <1>8, <1>9,
       <1>10, <1>11, <1>12, <1>13, <1>14, <1>15, <1>16, <1>17, <1>18, <1>19,
       BoardAssumption DEF Next, MainGoesOn, MainCalls, Write
=============================================================================
