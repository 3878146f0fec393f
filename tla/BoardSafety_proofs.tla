-------------------------- MODULE BoardSafety_proofs --------------------------
(***************************************************************************)
(* The theorems about Board: the clock stays within the chip's limits,     *)
(* main knows it, every peripheral runs at the rate its object asked for,  *)
(* SysTick ticks every millisecond, no pin but the driver's is disturbed,  *)
(* as long as nobody uses USART6 no interrupt goes astray, an initialised  *)
(* object is set up as it asked, and only a takeover strands its bytes;    *)
(* for any objects, rates and clock hardware, and any number of resets.    *)
(***************************************************************************)
EXTENDS Board_proofs

LEMMA BoardTypesInductive == Spec => []BoardTypeOK
<1>1. Init => BoardTypeOK
  BY InitTypes
<1>2. BoardTypeOK /\ [Next]_vars => BoardTypeOK'
  BY NextTypes
<1> QED BY <1>1, <1>2, PTL DEF Spec

(* Type correctness of the board: registers, tables and objects hold what  *)
(* they may hold, at every point of booting, init() and the handlers.      *)
THEOREM BoardTypes == Spec => []TypeOK
<1>1. BoardTypeOK => TypeOK
  BY DEF BoardTypeOK
<1> QED BY <1>1, BoardTypesInductive, PTL

(* rcc_init() keeps flash wait states and APB1 divider ahead of the clock, *)
(* wherever it gives up and however often it is called again.              *)
THEOREM LimitsKept == Spec => []ClockLimits
<1>1. BoardTypeOK => ClockLimits
  BY LimitsHold DEF BoardTypeOK
<1> QED BY <1>1, BoardTypesInductive, PTL

-----------------------------------------------------------------------------
(* SystemCoreClock *)

(* Until Reset_Handler has copied .data, SystemCoreClock is what an        *)
(* earlier run has left, and the clock tree is as a reset leaves it.       *)
BootInv ==
    IF pc = "copy"
    THEN cr = {} /\ cfgr.sw = "HSI" /\ sws = "HSI" /\ gaveUp = "none"
    ELSE Known

LEMMA NextBootInv == BoardTypeOK /\ BootInv /\ [Next]_vars => BootInv'
<1> SUFFICES ASSUME BoardTypeOK, BootInv, [Next]_vars PROVE BootInv'
  OBVIOUS
<1>1. CASE CopyData
  BY <1>1 DEF CopyData, At, Goto, rccHw, BootInv, Known
<1>2. CASE Reset
  BY <1>2 DEF Reset, RccReset, ResetCfgr, BootInv
<1>3. CASE RccSteps /\ pc' # "copy" /\ pc # "copy"
  BY <1>3, RccStepsKnown DEF BootInv, BoardTypeOK
<1>4. CASE Clocks /\ pc = "copy"
  BY <1>4 DEF Clocks, ClockHardware, HseStarts, PllLocks, ClockSwitches,
     BootInv, control
<1>5. CASE UNCHANGED <<rccVars, pc>>
  BY <1>5 DEF rccVars, rccHw, BootInv, Known
<1>6. \/ CopyData \/ Reset \/ UNCHANGED <<rccVars, pc>>
      \/ Clocks /\ pc = "copy"
      \/ RccSteps /\ pc' # "copy" /\ pc # "copy"
  <2>1. CASE MainGoesOn
    BY <2>1 DEF MainGoesOn, RccStep, ZeroBss, Constructors, EnableClocks,
       ConfigureGpio, ConfigureUsart, ConfigureNvic, Register, setup_systick,
       InitDone, RccSteps, At, Goto, control
  <2>2. CASE MainCalls
    BY <2>2 DEF MainCalls, CallRcc, InitCall, Send, Write, RccSteps, Idle, At,
       control
  <2>3. CASE Clocks
    BY <2>3 DEF Clocks, RccSteps, control
  <2>4. ASSUME NEW u \in Usarts, Frame(u) \/ Interrupt(u)
        PROVE  UNCHANGED <<rccVars, pc>>
    BY <2>4 DEF Frame, Interrupt, Serve, control
  <2>5. CASE UNCHANGED vars
    BY <2>5 DEF vars, control
  <2> QED BY <2>1, <2>2, <2>3, <2>4, <2>5 DEF Next
<1> QED BY <1>1, <1>2, <1>3, <1>4, <1>5, <1>6

LEMMA BootInductive == Spec => [](BoardTypeOK /\ BootInv)
<1>1. Init => BootInv
  BY DEF Init, AfterReset, ResetCfgr, BootInv
<1>2. BoardTypeOK /\ BootInv /\ [Next]_vars => BootInv'
  BY NextBootInv
<1> QED BY <1>1, <1>2, BoardTypesInductive, PTL DEF Spec

(* main finds SystemCoreClock right after every reset, and rcc_init()      *)
(* keeps it right unless it gives up in its last wait.                     *)
THEOREM ClockKnown == Spec => []MainKnowsClock
<1>1. BoardTypeOK /\ BootInv => MainKnowsClock
  BY KnownClock DEF BoardTypeOK, BootInv, MainKnowsClock, At
<1> QED BY <1>1, BootInductive, PTL

-----------------------------------------------------------------------------
(* Rates and ticks *)

Booted == pc \notin {"copy", "zero"}

PpreOf(u) == IF u = "USART2" THEN cfgr.ppre1 ELSE cfgr.ppre2

(* The object for whose rate peripheral u was last set up. *)
Owner(u) == IF pc \in {"configure_nvic", "register"} /\ usart_ = u THEN self
            ELSE inst[u]

RateOf(u, o) ==
    regs[u].brr = BrrRegister(uart_compute_brr(
                    BusClock(SystemCoreClock, PpreOf(u)), Asked[o].baud))

(* Once an object is being initialised the clock tree stays as it is, so   *)
(* what was computed from it stays right.                                  *)
RateInv ==
    Booted =>
      /\ pc = "constructors" =>
           ~s_systick_init /\ \A u \in Usarts : inst[u] = None
      /\ \A u \in Usarts : inst[u] # None =>
           initialized_[inst[u]] \/ (InInit /\ self = inst[u])
      /\ (\E o \in Objects : initialized_[o]) => rpc = "idle"
      /\ pc \in {"configure_gpio", "configure_usart"} => Periph.apb \in clocks
      /\ \A u \in Usarts : Owner(u) # None => RateOf(u, Owner(u))
      /\ s_systick_init =>
           /\ load = SystemCoreClock \div 1000
           /\ pc = "initialized" \/ \E o \in Objects : initialized_[o]
      /\ pc = "constructors" \/ \A o \in Objects :
           initialized_[o] => s_systick_init
      /\ pc = "initialized" => s_systick_init

LEMMA RateKept ==
    ASSUME UNCHANGED <<cfgr, SystemCoreClock>>,
           \A u \in Usarts : regs'[u].brr = regs[u].brr
    PROVE  \A u \in Usarts : \A o : RateOf(u, o)' = RateOf(u, o)
BY DEF RateOf, PpreOf

(* A step that leaves the clock, the table, the objects and the divisors   *)
(* alone.                                                                  *)
LEMMA RateUndisturbed ==
    ASSUME RateInv, UNCHANGED <<cfgr, SystemCoreClock, rpc, clocks, load, inst,
                                s_systick_init, initialized_, pc, self>>,
           \A u \in Usarts : regs'[u].brr = regs[u].brr
    PROVE  RateInv'
<1>1. \A u \in Usarts : \A o : RateOf(u, o)' = RateOf(u, o)
  BY RateKept
<1>2. \A u : Owner(u)' = Owner(u)
  BY DEF Owner, usart_
<1> QED BY <1>1, <1>2 DEF RateInv, Booted, InInit, Periph, usart_

(* While no object has been initialised there is no rate to keep. *)
LEMMA NothingYet ==
    ASSUME RateInv, pc = "main", \A o \in Objects : ~initialized_[o], TypeOK
    PROVE  ~s_systick_init /\ \A u \in Usarts : inst[u] = None
BY DEF RateInv, Booted, InInit, TypeOK

LEMMA NextRateInv == BoardTypeOK /\ RateInv /\ [Next]_vars => RateInv'
<1> SUFFICES ASSUME BoardTypeOK, RateInv, [Next]_vars PROVE RateInv'
  OBVIOUS
<1> USE DEF boardHw, static, control, history, At
<1>0. TypeOK /\ ControlInv
  BY DEF BoardTypeOK
<1>1. CASE CopyData
  BY <1>1 DEF CopyData, Goto, RateInv, Booted
<1>2. CASE ZeroBss
  BY <1>2 DEF ZeroBss, Goto, RateInv, Booted, Owner, InInit
<1>3. CASE Constructors
  BY <1>3 DEF Constructors, Goto, RateInv, Booted, Owner, InInit
<1>4. CASE CallRcc \/ RccStep
  <2>1. /\ pc = "main" /\ UNCHANGED <<boardHw, static, control>>
        /\ \A o \in Objects : ~initialized_[o]
    <3>1. CASE CallRcc
      BY <3>1 DEF CallRcc, Idle
    <3>2. CASE RccStep
      BY <3>2 DEF RccStep, RccGoesOn, Wait, SetFlashLatency, ConfigurePll,
         SetPrescalers, EnablePll, SwitchToPll, RccDone, Step, RateInv, Booted
    <3> QED BY <1>4, <3>1, <3>2
  <2>2. ~s_systick_init /\ \A u \in Usarts : inst[u] = None
    BY <1>0, <2>1, NothingYet
  <2> QED BY <2>1, <2>2 DEF RateInv, Booted, Owner
<1>5. ASSUME NEW o \in Objects, InitCall(o)
      PROVE  RateInv'
  <2>1. \A u \in Usarts : \A p : RateOf(u, p)' = RateOf(u, p)
    BY <1>5, RateKept DEF InitCall, rccVars, rccHw
  <2>2. \A u : Owner(u)' = inst[u] /\ Owner(u) = inst[u]
    BY <1>5 DEF InitCall, Idle, Owner
  <2> QED BY <1>5, <2>1, <2>2 DEF InitCall, Idle, RateInv, Booted, rccVars,
         InInit
<1>6. CASE EnableClocks
  <2>1. \A u \in Usarts : \A p : RateOf(u, p)' = RateOf(u, p)
    BY <1>6, RateKept DEF EnableClocks, rccVars, rccHw
  <2>2. \A u : Owner(u)' = Owner(u)
    BY <1>6 DEF EnableClocks, Goto, Owner
  <2>3. (Periph.apb \in clocks)'
    BY <1>6 DEF EnableClocks, Goto, Periph, usart_
  <2> QED BY <1>6, <2>1, <2>2, <2>3 DEF EnableClocks, Goto, RateInv, Booted,
         rccVars, InInit
<1>7. CASE ConfigureGpio
  <2>1. \A u \in Usarts : \A p : RateOf(u, p)' = RateOf(u, p)
    BY <1>7, RateKept DEF ConfigureGpio, rccVars, rccHw
  <2>2. \A u : Owner(u)' = Owner(u)
    BY <1>7 DEF ConfigureGpio, Goto, Owner
  <2>3. (Periph.apb \in clocks)'
    BY <1>7 DEF ConfigureGpio, Goto, Periph, usart_, RateInv, Booted
  <2> QED BY <1>7, <2>1, <2>2, <2>3 DEF ConfigureGpio, Goto, RateInv, Booted,
         rccVars, InInit
<1>8. CASE ConfigureUsart
  <2>1. /\ self \in Objects /\ usart_ \in Usarts /\ Periph.apb \in clocks
        /\ UNCHANGED <<cfgr, SystemCoreClock, inst, self>>
        /\ pc = "configure_usart" /\ pc' = "configure_nvic"
    BY <1>0, <1>8 DEF ConfigureUsart, Goto, ControlInv, InInit, RateInv,
       Booted, rccVars, rccHw
  <2>2. Ppre = PpreOf(usart_)
    BY <2>1, PeriphTypes DEF Ppre, PpreOf, Periph
  <2>3. regs'[usart_].brr = BrrRegister(ConfiguredBrr)
    BY <1>0, <1>8, <2>1 DEF ConfigureUsart, TypeOK
  <2>4. RateOf(usart_, self)'
    BY <2>1, <2>2, <2>3 DEF RateOf, ConfiguredBrr, PpreOf, usart_
  <2>5. \A u \in Usarts \ {usart_} : regs'[u] = regs[u]
    BY <1>0, <1>8, <2>1 DEF ConfigureUsart, TypeOK
  <2>6. \A u \in Usarts \ {usart_} : \A o : RateOf(u, o)' = RateOf(u, o)
    BY <2>1, <2>5 DEF RateOf, PpreOf
  <2>7. \A u \in Usarts : Owner(u)' = IF u = usart_ THEN self ELSE Owner(u)
    BY <2>1 DEF Owner, usart_
  <2>8. \A u \in Usarts : (Owner(u) # None => RateOf(u, Owner(u)))'
    <3>1. TAKE u \in Usarts
    <3>2. CASE u = usart_
      BY <2>1, <2>4, <2>7, <3>2 DEF RateOf, usart_
    <3>3. CASE u # usart_
      BY <2>1, <2>6, <2>7, <3>3 DEF RateInv, Booted
    <3> QED BY <3>2, <3>3
  <2> QED BY <1>8, <2>8 DEF ConfigureUsart, Goto, RateInv, Booted, rccVars,
         InInit, RateOf, PpreOf
<1>9. CASE ConfigureNvic
  <2>1. \A u \in Usarts : \A p : RateOf(u, p)' = RateOf(u, p)
    BY <1>9, RateKept DEF ConfigureNvic, rccVars, rccHw
  <2>2. \A u : Owner(u)' = Owner(u)
    BY <1>9 DEF ConfigureNvic, Goto, Owner, usart_
  <2> QED BY <1>9, <2>1, <2>2 DEF ConfigureNvic, Goto, RateInv, Booted,
         rccVars, InInit
<1>10. CASE Register
  <2>1. \A u \in Usarts : \A p : RateOf(u, p)' = RateOf(u, p)
    BY <1>10, RateKept DEF Register, rccVars, rccHw
  <2>2. \A u \in Usarts : Owner(u)' = Owner(u)
    BY <1>0, <1>10 DEF Register, Goto, Owner, usart_, TypeOK
  <2>3. \A u \in Usarts : inst'[u] \in {inst[u], self} /\ self' = self
    BY <1>0, <1>10 DEF Register, Goto, TypeOK
  <2> QED BY <1>10, <2>1, <2>2, <2>3 DEF Register, Goto, RateInv, Booted,
         rccVars, InInit
<1>11. CASE setup_systick
  <2>1. \A u \in Usarts : \A p : RateOf(u, p)' = RateOf(u, p)
    BY <1>11, RateKept DEF setup_systick, rccVars, rccHw
  <2>2. \A u : Owner(u)' = Owner(u)
    BY <1>11 DEF setup_systick, Goto, Owner, usart_
  <2>3. load' = SystemCoreClock \div 1000
    BY <1>11 DEF setup_systick, RateInv, Booted
  <2> QED BY <1>11, <2>1, <2>2, <2>3 DEF setup_systick, Goto, RateInv, Booted,
         rccVars, rccHw, InInit
<1>12. CASE InitDone
  <2>1. /\ pc = "initialized" /\ pc' = "main" /\ self \in Objects
        /\ rpc = "idle" /\ inst \in [Usarts -> Objects \cup {None}]
        /\ UNCHANGED <<rpc, SystemCoreClock, clocks, load, inst,
                       s_systick_init>>
    BY <1>0, <1>12 DEF InitDone, At, ControlInv, InInit, TypeOK, rccVars,
       rccHw, boardHw
  <2>2. \A u \in Usarts : \A p : RateOf(u, p)' = RateOf(u, p)
    BY <1>12, RateKept DEF InitDone, rccVars, rccHw
  <2>3. \A u : Owner(u)' = Owner(u)
    BY <1>12 DEF InitDone, At, Owner, usart_
  <2>4. /\ initialized_'[self]
        /\ \A o \in Objects : initialized_[o] => initialized_'[o]
    BY <1>0, <1>12, <2>1 DEF InitDone, TypeOK
  <2>5. \A u \in Usarts : inst'[u] # None => initialized_'[inst'[u]]
    BY <2>1, <2>4 DEF RateInv, Booted
  <2>6. s_systick_init /\ load = SystemCoreClock \div 1000
    BY <2>1 DEF RateInv, Booted
  <2>7. \A u \in Usarts : Owner(u)' # None => RateOf(u, Owner(u))'
    <3> SUFFICES ASSUME NEW u \in Usarts, Owner(u)' # None
                 PROVE  RateOf(u, Owner(u))'
      OBVIOUS
    <3>1. RateOf(u, Owner(u))
      BY <2>1, <2>3 DEF RateInv, Booted
    <3> QED BY <2>2, <2>3, <3>1
  <2> QED BY <2>1, <2>4, <2>5, <2>6, <2>7 DEF RateInv, Booted
<1>13. ASSUME NEW o \in Objects, Send(o)
       PROVE  RateInv'
  <2>1. regs \in [Usarts -> [cr1 : SUBSET Cr1Bits, stop : {0, 2},
                            brr : 0..2^16-1]]
    BY <1>0 DEF TypeOK
  <2>2. \A u \in Usarts : regs'[u].brr = regs[u].brr
    BY <1>13, <2>1 DEF Send, Kick
  <2> QED BY <1>13, <2>2, RateUndisturbed DEF Send, rccVars, rccHw
<1>14. CASE Clocks
  <2>1. UNCHANGED <<cfgr, SystemCoreClock, rpc>>
    BY <1>14 DEF Clocks, ClockHardware, HseStarts, PllLocks, ClockSwitches
  <2> QED BY <1>14, <2>1, RateUndisturbed DEF Clocks
<1>15. CASE Reset
  BY <1>15 DEF Reset, RateInv, Booted
<1>16. ASSUME NEW u \in Usarts, Interrupt(u)
       PROVE  RateInv'
  <2>1. regs \in [Usarts -> [cr1 : SUBSET Cr1Bits, stop : {0, 2},
                            brr : 0..2^16-1]]
    BY <1>0 DEF TypeOK
  <2>2. \A v \in Usarts : regs'[v].brr = regs[v].brr
    <3>1. ASSUME NEW o, Serve(o)
          PROVE  \A v \in Usarts : regs'[v].brr = regs[v].brr
      <4> DEFINE p == Asked[o].usart
                 c == regs[p].cr1 \ {"TXEIE"}
      <4>1. regs' = [regs EXCEPT ![p].cr1 = c] \/ UNCHANGED regs
        BY <3>1 DEF Serve
      <4> HIDE DEF p, c
      <4>3. CASE regs' = [regs EXCEPT ![p].cr1 = c]
        <5>1. CASE p \in Usarts
          BY <2>1, <4>3, <5>1
        <5>2. CASE p \notin Usarts
          BY <2>1, <4>3, <5>2
        <5> QED BY <5>1, <5>2
      <4> QED BY <4>1, <4>3
    <3>2. (\E o : Serve(o)) \/ UNCHANGED regs
      BY <1>16 DEF Interrupt
    <3> QED BY <3>1, <3>2
  <2>3. UNCHANGED <<pc, self>>
    BY <1>16 DEF Interrupt, Serve
  <2> QED BY <1>16, <2>2, <2>3, RateUndisturbed DEF Interrupt, rccVars, rccHw
<1>17. ASSUME NEW u \in Usarts, Frame(u)
       PROVE  RateInv'
  BY <1>17, RateUndisturbed DEF Frame, rccVars, rccHw
<1>18. CASE UNCHANGED vars
  BY <1>18, RateUndisturbed DEF vars, rccVars, rccHw
<1> QED BY <1>1, <1>2, <1>3, <1>4, <1>5, <1>6, <1>7, <1>8, <1>9, <1>10, <1>11,
       <1>12, <1>13, <1>14, <1>15, <1>16, <1>17, <1>18, BoardAssumption
       DEF Next, MainGoesOn, MainCalls, Write

LEMMA RateInductive == Spec => [](BoardTypeOK /\ BootInv /\ RateInv)
<1>1. Init => RateInv
  BY DEF Init, RateInv, Booted
<1>2. BoardTypeOK /\ RateInv /\ [Next]_vars => RateInv'
  BY NextRateInv
<1> QED BY <1>1, <1>2, BootInductive, PTL DEF Spec

(* Whichever clock the board has ended up on, and whichever objects have   *)
(* been initialised in whichever order, every peripheral runs within 2% of *)
(* the rate its object asked for.                                          *)
THEOREM BaudRight == Spec => []BaudIsRight
<1>1. ASSUME BoardTypeOK, BootInv, RateInv
      PROVE  BaudIsRight
  <2>1. SUFFICES ASSUME Idle, gaveUp # "sws", NEW u \in Usarts, inst[u] # None,
                        Representable(BusClock(Sysclk, PpreOf(u)),
                                      Asked[inst[u]].baud)
                 PROVE  Within2Percent(BusClock(Sysclk, PpreOf(u)), regs[u].brr,
                                       Asked[inst[u]].baud)
    BY DEF BaudIsRight, PpreOf
  <2>2. Sysclk = SystemCoreClock
    BY <1>1, <2>1, KnownClock DEF BoardTypeOK, BootInv, Idle, At, ClockIsKnown
  <2>3. RateOf(u, inst[u])
    BY <1>1, <2>1 DEF RateInv, Booted, Owner, Idle, At
  <2>4. Asked[inst[u]].baud \in Nat \ {0}
    BY <1>1, <2>1, AskedTypes DEF BoardTypeOK, TypeOK
  <2>5. SystemCoreClock \in {HSI, FullSpeed} /\ PpreOf(u) \in {0, 4}
    BY <1>1 DEF BoardTypeOK, RccInv, RccTypeOK, PpreOf
  <2>6. BusClock(SystemCoreClock, PpreOf(u)) \in Nat
    BY <2>5, BusClockType
  <2> QED BY <2>1, <2>2, <2>3, <2>4, <2>6, BrrIsClose DEF RateOf
<1> QED BY <1>1, RateInductive, PTL

(* Once an object is initialised SysTick ticks, and every millisecond.     *)
THEOREM TickRight == Spec => []TickIsOneMs
<1>1. ASSUME BoardTypeOK, BootInv, RateInv
      PROVE  TickIsOneMs
  <2>1. SUFFICES ASSUME Idle, gaveUp # "sws", NEW o \in Objects,
                        initialized_[o]
                 PROVE  load > 0 /\ load * 1000 = Sysclk
    BY DEF TickIsOneMs
  <2>2. Sysclk = SystemCoreClock
    BY <1>1, <2>1, KnownClock DEF BoardTypeOK, BootInv, Idle, At, ClockIsKnown
  <2>3. load = SystemCoreClock \div 1000
    BY <1>1, <2>1 DEF RateInv, Booted, Idle, At
  <2>4. SystemCoreClock \in {16000000, 84000000}
    BY <1>1, SMT DEF BoardTypeOK, RccInv, RccTypeOK, HSI, FullSpeed
  <2>5. /\ 16000000 \div 1000 = 16000 /\ 84000000 \div 1000 = 84000
        /\ 16000 * 1000 = 16000000 /\ 84000 * 1000 = 84000000
    BY SMT
  <2> QED BY <2>2, <2>3, <2>4, <2>5, SMT
<1> QED BY <1>1, RateInductive, PTL

-----------------------------------------------------------------------------
(* Interrupts and pins *)

(* The lines init() enables. *)
OnlyAsked == \A n \in nvic : \E o \in Objects : /\ Asked[o].usart \in Usarts
                                               /\ n = Irqn[Asked[o].usart]

NoUsart6 == \A o \in Objects : Asked[o].usart # "USART6"

LEMMA Irqns == Irqn["USART1"] = 37 /\ Irqn["USART2"] = 38 /\ Irqn["USART6"] = 71
BY DEF Irqn, Usarts

LEMMA Vectors == vector_table[37] = "USART1" /\ vector_table[38] = "USART2"
BY DEF vector_table, Reserved

LEMMA NextOnlyAsked ==
    BoardTypeOK /\ OnlyAsked /\ [Next]_vars => OnlyAsked'
<1> SUFFICES ASSUME BoardTypeOK, OnlyAsked, [Next]_vars PROVE OnlyAsked'
  OBVIOUS
<1>1. CASE ConfigureNvic
  <2>1. self \in Objects /\ Asked[self].usart \in Usarts
    BY <1>1 DEF ConfigureNvic, At, BoardTypeOK, ControlInv, InInit, usart_
  <2> QED BY <1>1, <2>1 DEF ConfigureNvic, OnlyAsked, usart_
<1>2. CASE Reset
  BY <1>2 DEF Reset, OnlyAsked
<1>3. CASE UNCHANGED nvic
  BY <1>3 DEF OnlyAsked
<1>4. ConfigureNvic \/ Reset \/ UNCHANGED nvic
  BY DEF Next, MainGoesOn, MainCalls, vars, boardHw, CopyData, ZeroBss,
     Constructors, CallRcc, RccStep, InitCall, EnableClocks, ConfigureGpio,
     ConfigureUsart, Register, setup_systick, InitDone, Send, Write, Clocks,
     Frame, Interrupt
<1> QED BY <1>1, <1>2, <1>3, <1>4

(* A board that leaves USART6 alone never takes an interrupt without a     *)
(* handler: the entries of vector_table for the other two peripherals and  *)
(* the lines init() enables for them agree.                                *)
THEOREM NothingHangs == NoUsart6 => (Spec => []NoHang)
<1> SUFFICES ASSUME NoUsart6 PROVE Spec => []NoHang
  OBVIOUS
<1>1. Init => OnlyAsked /\ NoHang
  BY DEF Init, OnlyAsked, NoHang
<1>2. BoardTypeOK /\ OnlyAsked /\ NoHang /\ [Next]_vars => OnlyAsked' /\ NoHang'
  <2> SUFFICES ASSUME BoardTypeOK, OnlyAsked, NoHang, [Next]_vars
               PROVE  NoHang'
    BY NextOnlyAsked
  <2>1. ASSUME NEW u \in Usarts, Interrupt(u)
        PROVE  NoHang'
    <3>1. Irqn[u] \in nvic
      BY <2>1 DEF Interrupt, IrqPending
    <3>2. u # "USART6"
      BY <3>1, Irqns DEF OnlyAsked, NoUsart6, Usarts
    <3>3. vector_table[Irqn[u]] \in Usarts
      BY <3>2, Irqns, Vectors DEF Usarts
    <3> QED BY <2>1, <3>3 DEF Interrupt, Serve, NoHang
  <2>2. CASE \A u \in Usarts : ~Interrupt(u)
    BY <2>2 DEF Next, MainGoesOn, MainCalls, vars, control, CopyData, ZeroBss,
       Constructors, CallRcc, RccStep, InitCall, EnableClocks, ConfigureGpio,
       ConfigureUsart, ConfigureNvic, Register, setup_systick, InitDone, Send,
       Write, Clocks, Frame, Reset, Goto, NoHang
  <2> QED BY <2>1, <2>2
<1> QED BY <1>1, <1>2, BoardTypesInductive, PTL DEF Spec

(* No pin but the driver's ever changes its configuration. *)
THEOREM PinsKept == Spec => []OtherPinsUntouched
<1>1. Init => OtherPinsUntouched
  BY DEF Init, ResetGpio, OtherPinsUntouched
<1>2. BoardTypeOK /\ OtherPinsUntouched /\ [Next]_vars => OtherPinsUntouched'
  <2> SUFFICES ASSUME BoardTypeOK, OtherPinsUntouched, [Next]_vars
               PROVE  OtherPinsUntouched'
    OBVIOUS
  <2>1. CASE ConfigureGpio
    <3> DEFINE mine == {<<Periph.port, Periph.tx>>, <<Periph.port, Periph.rx>>}
    <3>1. self \in Objects /\ usart_ \in Usarts
      BY <2>1 DEF ConfigureGpio, At, BoardTypeOK, ControlInv, InInit
    <3>2. \A pin \in mine : pin \in {Periph.port} \X {Periph.tx, Periph.rx}
      OBVIOUS
    <3>3. \A pin \in Pins \ mine : gpio'[pin] = gpio[pin]
      BY <2>1 DEF ConfigureGpio, BoardTypeOK, TypeOK
    <3> HIDE DEF mine
    <3>4. ASSUME NEW pin \in Pins, pin \in mine
          PROVE  \E o \in Objects :
                   /\ Asked[o].usart \in Usarts
                   /\ LET p == resolve_periph(Asked[o].usart)
                      IN  pin \in {p.port} \X {p.tx, p.rx}
      BY <3>1, <3>2, <3>4 DEF Periph, usart_
    <3> QED BY <3>3, <3>4 DEF OtherPinsUntouched
  <2>2. CASE Reset
    BY <2>2 DEF Reset, ResetGpio, OtherPinsUntouched
  <2>3. CASE UNCHANGED gpio
    BY <2>3 DEF OtherPinsUntouched
  <2>4. ConfigureGpio \/ Reset \/ UNCHANGED gpio
    BY DEF Next, MainGoesOn, MainCalls, vars, boardHw, CopyData, ZeroBss,
       Constructors, CallRcc, RccStep, InitCall, EnableClocks, ConfigureUsart,
       ConfigureNvic, Register, setup_systick, InitDone, Send, Write, Clocks,
       Frame, Interrupt
  <2> QED BY <2>1, <2>2, <2>3, <2>4
<1> QED BY <1>1, <1>2, BoardTypesInductive, PTL DEF Spec
-----------------------------------------------------------------------------
(* Objects and registers: initialized_ tells the truth, however the calls  *)
(* of init() on several objects and the resets are mixed, and bytes are    *)
(* stranded only by a takeover.                                            *)

(* SetUp in the parts that the stages of init() establish one by one. *)
ClocksOn(u) == {resolve_periph(u).ahb1, resolve_periph(u).apb} \subseteq clocks

Tx(u) == <<resolve_periph(u).port, resolve_periph(u).tx>>
Rx(u) == <<resolve_periph(u).port, resolve_periph(u).rx>>

PinsSet(u) == /\ gpio[Tx(u)] = UsartPin(0, resolve_periph(u).af)
              /\ gpio[Rx(u)] = UsartPin(1, resolve_periph(u).af)

RegsSet(u, o) ==
    /\ regs[u].cr1 \ {"TXEIE"} =
         {"UE", "TE", "RE", "RXNEIE"} \cup ParityBits(Asked[o].parity)
    /\ regs[u].stop = StopBits(Asked[o].stop)

(* A peripheral in the dispatch table is set up, for its owner. *)
Registered ==
    /\ \A u \in Usarts : inst[u] # None =>
         /\ Asked[inst[u]].usart = u
         /\ ClocksOn(u) /\ PinsSet(u) /\ Irqn[u] \in nvic
    /\ \A u \in Usarts : Owner(u) # None => RegsSet(u, Owner(u))
    /\ \A o \in Objects : initialized_[o] =>
         Asked[o].usart \in Usarts /\ inst[Asked[o].usart] # None

(* How far init() has come with the peripheral of its object. *)
Progress ==
    InInit =>
      /\ ~initialized_[self]
      /\ pc # "clocks" => ClocksOn(usart_)
      /\ pc \notin {"clocks", "configure_gpio"} => PinsSet(usart_)
      /\ pc \in {"register", "setup_systick", "initialized"} =>
           Irqn[usart_] \in nvic
      /\ pc \in {"setup_systick", "initialized"} => inst[usart_] = self

(* Only an initialised object holds bytes, and its interrupt stays enabled *)
(* as long as it is the registered one.                                    *)
Pending ==
    \A o \in Objects : queued[o] > 0 =>
      /\ initialized_[o]
      /\ inst[Asked[o].usart] = o => "TXEIE" \in regs[Asked[o].usart].cr1

SetUpInv == Booted => Registered /\ Progress /\ Pending

-----------------------------------------------------------------------------

(* No two peripherals share a pin. *)
LEMMA Pinout ==
    \A u \in Usarts :
      /\ Tx(u) \in Pins /\ Rx(u) \in Pins /\ Tx(u) # Rx(u)
      /\ \A v \in Usarts : u # v => {Tx(u), Rx(u)} \cap {Tx(v), Rx(v)} = {}
BY DEF Usarts, Tx, Rx, resolve_periph, Pins, Jtag

LEMMA OwnerIs ==
    \A u \in Usarts :
      Owner(u) \in {inst[u], IF pc \in {"configure_nvic", "register"} THEN self
                             ELSE inst[u]}
BY DEF Owner

(* What the handlers and send() change of a USART. *)
OnlyTxeie == \A u \in Usarts : /\ regs'[u].cr1 \ {"TXEIE"} = regs[u].cr1 \ {"TXEIE"}
                               /\ regs'[u].stop = regs[u].stop

LEMMA RegsKept ==
    OnlyTxeie => \A u \in Usarts : \A o : RegsSet(u, o)' = RegsSet(u, o)
BY DEF OnlyTxeie, RegsSet

LEMMA RegisteredKept ==
    ASSUME Registered, OnlyTxeie,
           UNCHANGED <<clocks, gpio, nvic, inst, initialized_, pc, self>>
    PROVE  Registered'
<1>1. \A u \in Usarts : Owner(u)' = Owner(u)
  BY DEF Owner, usart_
<1> QED BY <1>1, RegsKept DEF Registered, ClocksOn, PinsSet

LEMMA ProgressKept ==
    ASSUME Progress,
           UNCHANGED <<clocks, gpio, nvic, inst, initialized_, pc, self>>
    PROVE  Progress'
BY DEF Progress, InInit, usart_, ClocksOn, PinsSet

LEMMA PendingKept ==
    ASSUME Registered, Pending, UNCHANGED <<inst, initialized_, queued>>,
           \A u \in Usarts : "TXEIE" \in regs[u].cr1 => "TXEIE" \in regs'[u].cr1
    PROVE  Pending'
BY DEF Registered, Pending

-----------------------------------------------------------------------------
(* The stages of init() *)

(* Main goes from one stage of init() to the next. *)
Stage(l, m) == /\ pc = l /\ pc' = m /\ self' = self
               /\ UNCHANGED <<initialized_, queued>>

LEMMA StageClocks ==
    ASSUME BoardTypeOK, Registered, Progress, Pending, EnableClocks
    PROVE  Registered' /\ Progress' /\ Pending'
<1>1. /\ Stage("clocks", "configure_gpio")
      /\ UNCHANGED <<gpio, regs, nvic, inst>>
      /\ clocks' = clocks \cup {Periph.ahb1, Periph.apb}
  BY DEF EnableClocks, At, Goto, static, Stage
<1>2. \A u : ClocksOn(u) => ClocksOn(u)'
  BY <1>1 DEF ClocksOn
<1>3. ClocksOn(usart_)'
  BY <1>1 DEF ClocksOn, Periph, usart_, Stage
<1>4. \A u \in Usarts : Owner(u)' = Owner(u)
  BY <1>1 DEF Owner, usart_, Stage
<1>5. Registered'
  BY <1>1, <1>2, <1>4 DEF Registered, RegsSet, PinsSet, Stage
<1>6. Progress'
  BY <1>1, <1>3 DEF Progress, InInit, Stage
<1> QED BY <1>1, <1>5, <1>6, PendingKept DEF Stage

LEMMA StageGpio ==
    ASSUME BoardTypeOK, Registered, Progress, Pending, ConfigureGpio
    PROVE  Registered' /\ Progress' /\ Pending'
<1>1. /\ Stage("configure_gpio", "configure_usart")
      /\ UNCHANGED <<clocks, regs, nvic, inst>>
      /\ usart_ \in Usarts
  BY DEF ConfigureGpio, At, Goto, static, Stage, BoardTypeOK, ControlInv, InInit
<1>2. Periph.ahb1 \in clocks
  BY <1>1 DEF Progress, InInit, ClocksOn, Periph, Stage
<1>3. gpio' = [gpio EXCEPT ![Tx(usart_)] = UsartPin(0, Periph.af),
                           ![Rx(usart_)] = UsartPin(1, Periph.af)]
  BY <1>2 DEF ConfigureGpio, Tx, Rx, Periph
<1>4. PinsSet(usart_)'
  <2>1. gpio'[Tx(usart_)] = UsartPin(0, Periph.af)
        /\ gpio'[Rx(usart_)] = UsartPin(1, Periph.af)
    BY <1>1, <1>3, Pinout DEF BoardTypeOK, TypeOK
  <2> QED BY <1>1, <2>1 DEF PinsSet, Periph, usart_, Stage
<1>5. \A u \in Usarts \ {usart_} : PinsSet(u) => PinsSet(u)'
  <2>1. \A u \in Usarts \ {usart_} : /\ gpio'[Tx(u)] = gpio[Tx(u)]
                                     /\ gpio'[Rx(u)] = gpio[Rx(u)]
    BY <1>1, <1>3, Pinout DEF BoardTypeOK, TypeOK
  <2> QED BY <2>1 DEF PinsSet
<1>6. usart_' = usart_
  BY <1>1 DEF usart_, Stage
<1>7. \A u \in Usarts : Owner(u)' = Owner(u)
  BY <1>1 DEF Owner, Stage
<1>8. Registered'
  <2>1. \A u \in Usarts : PinsSet(u) => PinsSet(u)'
    BY <1>4, <1>5, <1>6
  <2> QED BY <1>1, <1>7, <2>1 DEF Registered, RegsSet, ClocksOn, Stage
<1>9. Progress'
  BY <1>1, <1>4, <1>6 DEF Progress, InInit, Stage, ClocksOn
<1> QED BY <1>1, <1>8, <1>9, PendingKept DEF Stage

LEMMA StageUsart ==
    ASSUME BoardTypeOK, Registered, Progress, Pending, ConfigureUsart
    PROVE  Registered' /\ Progress' /\ Pending'
<1> DEFINE new == [cr1 |-> (regs[usart_].cr1 \cap {"TXEIE"})
                             \cup ParityBits(Asked[self].parity)
                             \cup {"RXNEIE", "TE", "RE", "UE"},
                   stop |-> StopBits(Asked[self].stop),
                   brr |-> BrrRegister(ConfiguredBrr)]
<1>1. /\ Stage("configure_usart", "configure_nvic")
      /\ UNCHANGED <<clocks, gpio, nvic, inst>>
      /\ usart_ \in Usarts /\ self \in Objects
  BY DEF ConfigureUsart, At, Goto, static, Stage, BoardTypeOK, ControlInv,
     InInit
<1>2. Periph.apb \in clocks
  BY <1>1 DEF Progress, InInit, ClocksOn, Periph, Stage
<1>3. regs' = [regs EXCEPT ![usart_] = new]
  BY <1>2 DEF ConfigureUsart
<1>4. regs'[usart_] = new /\ \A u \in Usarts \ {usart_} : regs'[u] = regs[u]
  BY <1>1, <1>3 DEF BoardTypeOK, TypeOK
<1>5. usart_' = usart_
  BY <1>1 DEF usart_, Stage
<1>6. RegsSet(usart_, self)'
  <2>1. "TXEIE" \notin ParityBits(Asked[self].parity)
    BY <1>1, AskedTypes DEF ParityBits, Parities
  <2>2. new.cr1 \ {"TXEIE"} = {"UE", "TE", "RE", "RXNEIE"}
                                \cup ParityBits(Asked[self].parity)
    BY <2>1
  <2>3. new.stop = StopBits(Asked[self].stop)
    OBVIOUS
  <2> HIDE DEF new
  <2> QED BY <1>1, <1>4, <1>5, <2>2, <2>3 DEF RegsSet, Stage
<1>7. \A u \in Usarts \ {usart_} : \A o : RegsSet(u, o) => RegsSet(u, o)'
  BY <1>4 DEF RegsSet
<1>8. \A u \in Usarts : "TXEIE" \in regs[u].cr1 => "TXEIE" \in regs'[u].cr1
  BY <1>4
<1> HIDE DEF new
<1>9. \A u \in Usarts : Owner(u)' = IF u = usart_ THEN self ELSE Owner(u)
  BY <1>1, <1>5 DEF Owner, Stage
<1>10. Registered'
  <2>1. \A u \in Usarts : (Owner(u) # None => RegsSet(u, Owner(u)))'
    <3>1. TAKE u \in Usarts
    <3>2. CASE u = usart_
      BY <1>1, <1>5, <1>6, <1>9, <3>2 DEF RegsSet, Stage
    <3>3. CASE u # usart_
      BY <1>7, <1>9, <3>3 DEF Registered, RegsSet
    <3> QED BY <3>2, <3>3
  <2> QED BY <1>1, <2>1 DEF Registered, ClocksOn, PinsSet, Stage
<1>11. Progress'
  BY <1>1, <1>5 DEF Progress, InInit, Stage, ClocksOn, PinsSet
<1> QED BY <1>1, <1>8, <1>10, <1>11, PendingKept DEF Stage

LEMMA StageNvic ==
    ASSUME BoardTypeOK, Registered, Progress, Pending, ConfigureNvic
    PROVE  Registered' /\ Progress' /\ Pending'
<1>1. /\ Stage("configure_nvic", "register")
      /\ UNCHANGED <<clocks, gpio, regs, inst>>
      /\ nvic' = nvic \cup {Irqn[usart_]}
  BY DEF ConfigureNvic, At, Goto, static, Stage
<1>2. usart_' = usart_
  BY <1>1 DEF usart_, Stage
<1>3. \A u \in Usarts : Owner(u)' = Owner(u)
  BY <1>1, <1>2 DEF Owner, Stage
<1>4. Registered'
  BY <1>1, <1>3 DEF Registered, RegsSet, ClocksOn, PinsSet, Stage
<1>5. Progress'
  BY <1>1, <1>2 DEF Progress, InInit, Stage, ClocksOn, PinsSet
<1> QED BY <1>1, <1>4, <1>5, PendingKept DEF Stage

LEMMA StageRegister ==
    ASSUME BoardTypeOK, Registered, Progress, Pending, Register
    PROVE  Registered' /\ Progress' /\ Pending'
<1>1. /\ Stage("register", "setup_systick")
      /\ UNCHANGED <<clocks, gpio, regs, nvic>>
      /\ usart_ \in Usarts /\ self \in Objects
  BY DEF Register, At, Goto, boardHw, Stage, BoardTypeOK, ControlInv, InInit
<1>2. \A u \in Usarts : inst'[u] = IF u = usart_ THEN self ELSE inst[u]
  BY <1>1 DEF Register, BoardTypeOK, TypeOK
<1>3. usart_' = usart_
  BY <1>1 DEF usart_, Stage
<1>4. \A u \in Usarts : Owner(u)' = Owner(u)
  BY <1>1, <1>2, <1>3 DEF Owner, Stage
<1>5. self # None
  BY <1>1, BoardAssumption
<1>6. /\ Asked[self].usart = usart_ /\ ClocksOn(usart_) /\ PinsSet(usart_)
      /\ Irqn[usart_] \in nvic /\ ~initialized_[self]
  BY <1>1 DEF Progress, InInit, Stage, usart_
<1>7. Registered'
  BY <1>1, <1>2, <1>4, <1>5, <1>6 DEF Registered, RegsSet, ClocksOn, PinsSet,
     Stage
<1>8. Progress'
  BY <1>1, <1>2, <1>3, <1>6 DEF Progress, InInit, Stage, ClocksOn, PinsSet
<1>9. Pending'
  BY <1>1, <1>2, <1>6 DEF Registered, Pending, Stage
<1> QED BY <1>7, <1>8, <1>9

LEMMA StageSysTick ==
    ASSUME BoardTypeOK, Registered, Progress, Pending, setup_systick
    PROVE  Registered' /\ Progress' /\ Pending'
<1>1. /\ Stage("setup_systick", "initialized")
      /\ UNCHANGED <<clocks, gpio, regs, nvic, inst>>
  BY DEF setup_systick, At, Goto, Stage
<1>2. usart_' = usart_
  BY <1>1 DEF usart_, Stage
<1>3. \A u \in Usarts : Owner(u)' = Owner(u)
  BY <1>1 DEF Owner, Stage
<1>4. Registered'
  BY <1>1, <1>3 DEF Registered, RegsSet, ClocksOn, PinsSet, Stage
<1>5. Progress'
  BY <1>1, <1>2 DEF Progress, InInit, Stage, ClocksOn, PinsSet
<1> QED BY <1>1, <1>4, <1>5, PendingKept DEF Stage

LEMMA StageDone ==
    ASSUME BoardTypeOK, Registered, Progress, Pending, InitDone
    PROVE  Registered' /\ Progress' /\ Pending'
<1>1. /\ pc = "initialized" /\ pc' = "main"
      /\ UNCHANGED <<clocks, gpio, regs, nvic, inst, queued>>
      /\ usart_ \in Usarts /\ self \in Objects
  BY DEF InitDone, At, boardHw, BoardTypeOK, ControlInv, InInit
<1>2. \A o \in Objects : initialized_'[o] <=> initialized_[o] \/ o = self
  BY <1>1 DEF InitDone, BoardTypeOK, TypeOK
<1>3. \A u \in Usarts : Owner(u)' = inst[u] /\ Owner(u) = inst[u]
  BY <1>1 DEF Owner
<1>4. self # None /\ inst[usart_] = self /\ ~initialized_[self]
  BY <1>1, BoardAssumption DEF Progress, InInit
<1>5. Registered'
  BY <1>1, <1>2, <1>3, <1>4 DEF Registered, RegsSet, ClocksOn, PinsSet, usart_
<1>6. Progress'
  BY <1>1 DEF Progress, InInit
<1>7. Pending'
  BY <1>1, <1>2, <1>4 DEF Pending
<1> QED BY <1>5, <1>6, <1>7

-----------------------------------------------------------------------------
(* send() and the handlers *)

LEMMA SendKeeps ==
    ASSUME BoardTypeOK, Registered, Progress, Pending,
           NEW o \in Objects, Send(o)
    PROVE  Registered' /\ Progress' /\ Pending'
<1> DEFINE p == Asked[o].usart
<1>1. /\ UNCHANGED <<clocks, gpio, nvic, inst, initialized_, pc, self>>
      /\ regs' = [regs EXCEPT ![p].cr1 = @ \cup {"TXEIE"}]
      /\ queued' = [queued EXCEPT ![o] = @ + 1] /\ initialized_[o]
  BY DEF Send, Kick, control
<1>2. p \in Usarts
  BY <1>1 DEF Registered
<1>3. regs \in [Usarts -> [cr1 : SUBSET Cr1Bits, stop : {0, 2}, brr : 0..2^16-1]]
  BY DEF BoardTypeOK, TypeOK
<1> HIDE DEF p
<1>4. /\ regs'[p].cr1 = regs[p].cr1 \cup {"TXEIE"}
      /\ regs'[p].stop = regs[p].stop
      /\ \A u \in Usarts \ {p} : regs'[u] = regs[u]
  BY <1>1, <1>2, <1>3
<1>5. OnlyTxeie
  BY <1>4 DEF OnlyTxeie
<1>6. \A q \in Objects \ {o} : queued'[q] = queued[q]
  BY <1>1 DEF BoardTypeOK, TypeOK
<1>7. Pending'
  BY <1>1, <1>4, <1>6 DEF Pending, Registered, p
<1> QED BY <1>1, <1>5, <1>7, RegisteredKept, ProgressKept

(* The vectored handler serves the object of its own peripheral, so it     *)
(* turns off no other object's interrupt.                                  *)
LEMMA InterruptKeeps ==
    ASSUME BoardTypeOK, Registered, Progress, Pending,
           NEW u \in Usarts, Interrupt(u)
    PROVE  Registered' /\ Progress' /\ Pending'
<1>1. UNCHANGED <<clocks, gpio, nvic, inst, initialized_, pc, self>>
  BY DEF Interrupt, Serve
<1>2. CASE UNCHANGED <<regs, queued>>
  BY <1>1, <1>2, RegisteredKept, ProgressKept, PendingKept DEF OnlyTxeie
<1>3. ASSUME NEW v \in Usarts, inst[v] # None, Serve(inst[v])
      PROVE  Registered' /\ Progress' /\ Pending'
  <2> DEFINE o == inst[v]
  <2>1. o \in Objects /\ Asked[o].usart = v
    BY <1>3 DEF Registered, BoardTypeOK, TypeOK
  <2> HIDE DEF o
  <2>2. \/ UNCHANGED <<regs, queued>>
        \/ queued' = [queued EXCEPT ![o] = @ - 1] /\ UNCHANGED regs
        \/ queued[o] = 0 /\ UNCHANGED queued
           /\ regs' = [regs EXCEPT ![v].cr1 = @ \ {"TXEIE"}]
    BY <1>3, <2>1 DEF Serve, o
  <2>3. CASE queued' = [queued EXCEPT ![o] = @ - 1] /\ UNCHANGED regs
    <3>1. queued \in [Objects -> 0..MaxQueue]
      BY DEF BoardTypeOK, TypeOK
    <3>2. \A q \in Objects : queued'[q] > 0 => queued[q] > 0
      BY <2>1, <2>3, <3>1, Bounds
    <3>3. Pending'
      BY <1>1, <2>3, <3>2 DEF Pending
    <3> QED BY <1>1, <2>3, <3>3, RegisteredKept, ProgressKept DEF OnlyTxeie
  <2>4. CASE queued[o] = 0 /\ UNCHANGED queued
             /\ regs' = [regs EXCEPT ![v].cr1 = @ \ {"TXEIE"}]
    <3>1. regs \in [Usarts -> [cr1 : SUBSET Cr1Bits, stop : {0, 2},
                              brr : 0..2^16-1]]
      BY DEF BoardTypeOK, TypeOK
    <3>2. /\ regs'[v].cr1 = regs[v].cr1 \ {"TXEIE"}
          /\ regs'[v].stop = regs[v].stop
          /\ \A w \in Usarts \ {v} : regs'[w] = regs[w]
      BY <2>4, <3>1
    <3>3. OnlyTxeie
      BY <3>2 DEF OnlyTxeie
    <3>4. \A q \in Objects : queued[q] > 0 => inst[v] # q
      BY <2>4 DEF o
    <3>5. Pending'
      BY <1>1, <2>4, <3>2, <3>4 DEF Pending, Registered
    <3> QED BY <1>1, <3>3, <3>5, RegisteredKept, ProgressKept
  <2> QED BY <1>2, <2>2, <2>3, <2>4
<1> QED BY <1>2, <1>3 DEF Interrupt

-----------------------------------------------------------------------------

LEMMA NextSetUpInv ==
    BoardTypeOK /\ RateInv /\ SetUpInv /\ [Next]_vars => SetUpInv'
<1> SUFFICES ASSUME BoardTypeOK, RateInv, SetUpInv, [Next]_vars
             PROVE  SetUpInv'
  OBVIOUS
<1> DEFINE Parts == Registered /\ Progress /\ Pending
<1>1. CASE CopyData
  BY <1>1 DEF CopyData, Goto, SetUpInv, Booted
<1>2. CASE ZeroBss
  BY <1>2 DEF ZeroBss, Goto, SetUpInv, Booted, Registered, Progress, Pending,
     Owner, InInit, NoBytes
<1>3. CASE Constructors
  <2>1. \A u \in Usarts : inst'[u] = None
    BY <1>3 DEF Constructors, At, RateInv, Booted
  <2> QED BY <1>3, <2>1 DEF Constructors, At, Goto, SetUpInv, Registered,
          Progress, Pending, Owner, InInit, NoBytes
<1>4. CASE Reset
  BY <1>4 DEF Reset, SetUpInv, Booted
<1>5. CASE UNCHANGED <<clocks, gpio, regs, nvic, static, control>>
  <2>1. UNCHANGED <<clocks, gpio, regs, nvic, inst, initialized_, queued, pc,
                    self>>
    BY <1>5 DEF static, control
  <2>2. Parts => Parts'
    BY <2>1, RegisteredKept, ProgressKept, PendingKept DEF OnlyTxeie
  <2> QED BY <2>1, <2>2 DEF SetUpInv, Booted
<1>6. ASSUME NEW o \in Objects, InitCall(o)
      PROVE  SetUpInv'
  <2>1. /\ pc = "main" /\ pc' = "clocks" /\ self' = o /\ ~initialized_[o]
        /\ UNCHANGED <<clocks, gpio, regs, nvic, inst, initialized_, queued>>
    BY <1>6 DEF InitCall, Idle, At, boardHw, static
  <2>2. \A u \in Usarts : Owner(u)' = Owner(u)
    BY <2>1 DEF Owner
  <2>3. Registered => Registered'
    BY <2>1, <2>2 DEF Registered, RegsSet, ClocksOn, PinsSet
  <2>4. Progress'
    BY <2>1 DEF Progress
  <2>5. Pending => Pending'
    BY <2>1 DEF Pending
  <2> QED BY <2>1, <2>3, <2>4, <2>5 DEF SetUpInv, Booted
<1>7. CASE \/ EnableClocks \/ ConfigureGpio \/ ConfigureUsart \/ ConfigureNvic
           \/ Register \/ setup_systick \/ InitDone
  <2>1. Booted
    BY <1>7 DEF EnableClocks, ConfigureGpio, ConfigureUsart, ConfigureNvic,
       Register, setup_systick, InitDone, At, Booted
  <2> QED BY <1>7, <2>1, StageClocks, StageGpio, StageUsart, StageNvic,
          StageRegister, StageSysTick, StageDone DEF SetUpInv
<1>8. ASSUME NEW o \in Objects, Send(o)
      PROVE  SetUpInv'
  BY <1>8, SendKeeps DEF SetUpInv, Send, Idle, At, Booted
<1>9. ASSUME NEW u \in Usarts, Interrupt(u)
      PROVE  SetUpInv'
  BY <1>9, InterruptKeeps DEF SetUpInv, Interrupt, Serve, Booted
<1>10. CASE MainCalls
  BY <1>5, <1>6, <1>8, <1>10, BoardAssumption
  DEF MainCalls, CallRcc, Write, boardHw
<1>11. CASE MainGoesOn
  BY <1>1, <1>2, <1>3, <1>5, <1>7, <1>11 DEF MainGoesOn, RccStep,
     boardHw
<1>12. CASE Clocks \/ UNCHANGED vars \/ \E u \in Usarts : Frame(u)
  BY <1>5, <1>12 DEF Clocks, Frame, vars, boardHw
<1> QED BY <1>4, <1>9, <1>10, <1>11, <1>12 DEF Next

LEMMA SetUpInductive == Spec => [](BoardTypeOK /\ RateInv /\ SetUpInv)
<1>1. Init => SetUpInv
  BY DEF Init, SetUpInv, Booted
<1>2. BoardTypeOK /\ RateInv /\ SetUpInv /\ [Next]_vars => SetUpInv'
  BY NextSetUpInv
<1> QED BY <1>1, <1>2, RateInductive, PTL DEF Spec

(* In the main loop an initialised object is registered, or the one that   *)
(* took its place is initialised.                                          *)
LEMMA Served ==
    ASSUME BoardTypeOK, RateInv, SetUpInv, Idle,
           NEW o \in Objects, initialized_[o]
    PROVE  LET u == Asked[o].usart
           IN  /\ u \in Usarts /\ inst[u] \in Objects /\ initialized_[inst[u]]
               /\ SetUp(u, inst[u])
<1> DEFINE u == Asked[o].usart
<1>1. Booted /\ pc = "main"
  BY DEF Idle, At, Booted
<1>2. u \in Usarts /\ inst[u] # None
  BY <1>1 DEF SetUpInv, Registered
<1>3. inst[u] \in Objects /\ initialized_[inst[u]]
  BY <1>1, <1>2 DEF RateInv, InInit, BoardTypeOK, TypeOK
<1>4. /\ Asked[inst[u]].usart = u /\ ClocksOn(u) /\ PinsSet(u)
      /\ Irqn[u] \in nvic /\ RegsSet(u, inst[u])
  BY <1>1, <1>2 DEF SetUpInv, Registered, Owner
<1> HIDE DEF u
<1>5. SetUp(u, inst[u])
  BY <1>4 DEF SetUp, ClocksOn, PinsSet, RegsSet, Tx, Rx
<1> QED BY <1>2, <1>3, <1>5 DEF u

(* initialized_ tells the truth: whatever resets and init() calls of other *)
(* objects came in between, the peripheral of an initialised object is     *)
(* clocked, pinned, configured and enabled in the NVIC as the object that  *)
(* serves it asked for.                                                    *)
THEOREM InitializedSetUp == Spec => []InitializedIsSetUp
<1>1. ASSUME BoardTypeOK, RateInv, SetUpInv
      PROVE  InitializedIsSetUp
  <2>1. SUFFICES ASSUME Idle, NEW o \in Objects, initialized_[o]
                 PROVE  LET u == Asked[o].usart
                        IN  /\ inst[u] # None /\ initialized_[inst[u]]
                            /\ SetUp(u, inst[u])
    BY DEF InitializedIsSetUp
  <2> QED BY <1>1, <2>1, Served, BoardAssumption
<1> QED BY <1>1, SetUpInductive, PTL

(* Bytes that an object has accepted have an interrupt that will send      *)
(* them, or another object has taken over the peripheral and is            *)
(* initialised: nothing else strands them.                                 *)
THEOREM OnlyTakeoverStrands == Spec => []StrandedOnlyByTakeover
<1>1. ASSUME BoardTypeOK, RateInv, SetUpInv
      PROVE  StrandedOnlyByTakeover
  <2>1. SUFFICES ASSUME Idle, NEW o \in Objects, queued[o] > 0
                 PROVE  LET u == Asked[o].usart
                        IN  \/ inst[u] = o /\ TxRequest(u) /\ Irqn[u] \in nvic
                            \/ \E rival \in Objects \ {o} :
                                 inst[u] = rival /\ initialized_[rival]
    BY DEF StrandedOnlyByTakeover
  <2> DEFINE u == Asked[o].usart
  <2>2. /\ initialized_[o]
        /\ inst[u] = o => "TXEIE" \in regs[u].cr1
    BY <1>1, <2>1 DEF SetUpInv, Pending, Booted, Idle, At
  <2>3. /\ inst[u] \in Objects /\ initialized_[inst[u]]
        /\ SetUp(u, inst[u])
    BY <1>1, <2>1, <2>2, Served
  <2>4. "UE" \in regs[u].cr1 /\ Irqn[u] \in nvic
    BY <2>3 DEF SetUp
  <2> QED BY <2>2, <2>3, <2>4 DEF TxRequest
<1> QED BY <1>1, SetUpInductive, PTL
=============================================================================
