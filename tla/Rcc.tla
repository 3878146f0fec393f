--------------------------------- MODULE Rcc ---------------------------------
(***************************************************************************)
(* rcc_init() of src/rcc.cpp: from the internal 16 MHz oscillator (HSI) to *)
(* 84 MHz from the crystal (HSE) through the PLL, in seven steps with      *)
(* three time-outs, against the clock hardware, which starts, locks and    *)
(* switches when it likes or never.                                        *)
(*                                                                         *)
(* rcc_init() may be called again, after a failure or a success: what it   *)
(* finds then is what the call before has left.                            *)
(***************************************************************************)
EXTENDS Brr

CONSTANT Polls   (* iterations of a waiting loop: HSE_TIMEOUT, PLL_TIMEOUT *)

ASSUME PollsAssumption == Polls \in Nat \ {0}

VARIABLES cr,       \* RCC->CR: those set of HSEON, HSERDY, PLLON, PLLRDY
          pllcfgr,  \* RCC->PLLCFGR: source and factors
          cfgr,     \* RCC->CFGR: SW, PPRE1, PPRE2 (HPRE is 0 all along)
          sws,      \* RCC->CFGR.SWS: the clock in use
          acr,      \* FLASH->ACR: wait states
          SystemCoreClock,
          rpc, i,   \* where main is in rcc_init(), and its loop counter
          gaveUp    \* history: the wait in which the latest call returned
                    \* false; "none" when it returned true

rccHw == <<cr, pllcfgr, cfgr, sws, acr>>
rccVars == <<rccHw, SystemCoreClock, rpc, i, gaveUp>>

HSI == 16000000
HSE == 8000000
FullSpeed == 84000000

(* The output of the PLL; bits p of PLLP divide by 2(p + 1). *)
PllClock(f) == (((IF f.src = "HSE" THEN HSE ELSE HSI) \div f.m) * f.n)
                  \div (2 * (f.p + 1))

(* The clock the chip really runs on. *)
Sysclk == IF sws = "PLL" THEN PllClock(pllcfgr) ELSE HSI

(* The registers after a reset (RM0368); rcc_init() has not been called. *)
ResetPllcfgr == [src |-> "HSI", m |-> 16, n |-> 192, p |-> 0]
ResetCfgr == [sw |-> "HSI", ppre1 |-> 0, ppre2 |-> 0]

AfterReset == /\ cr = {} /\ pllcfgr = ResetPllcfgr /\ cfgr = ResetCfgr
              /\ sws = "HSI" /\ acr = 0
              /\ rpc = "idle" /\ i = 0 /\ gaveUp = "none"

RccInit == AfterReset /\ SystemCoreClock = HSI

(* A reset leaves the memory, and SystemCoreClock in it, as it is. *)
RccReset == /\ cr' = {} /\ pllcfgr' = ResetPllcfgr /\ cfgr' = ResetCfgr
            /\ sws' = "HSI" /\ acr' = 0
            /\ rpc' = "idle" /\ i' = 0 /\ gaveUp' = "none"
            /\ UNCHANGED SystemCoreClock

-----------------------------------------------------------------------------
(* rcc_init() *)

Step(l, next) == rpc = l /\ rpc' = next /\ UNCHANGED <<i, gaveUp>>

(* Operators named X_Bug are mutants: X with a plausible mistake in it.    *)
(* No specification uses them; they show what each property would catch.   *)

(* No time-out. *)
Wait_Bug(l, ready, next) ==
    /\ rpc = l /\ ready /\ rpc' = next /\ i' = 0
    /\ UNCHANGED <<gaveUp, rccHw, SystemCoreClock>>

(* The loops of steps 1, 5 and 6: leave when ready; after Polls reads that *)
(* found it not ready, return false.                                       *)
Wait(l, ready, next) ==
    /\ rpc = l
    /\ \/ ready /\ rpc' = next /\ i' = 0 /\ UNCHANGED gaveUp
       \/ ~ready /\ i < Polls - 1 /\ i' = i + 1 /\ UNCHANGED <<rpc, gaveUp>>
       \/ ~ready /\ i = Polls - 1 /\ rpc' = "idle" /\ i' = 0 /\ gaveUp' = l
    /\ UNCHANGED <<rccHw, SystemCoreClock>>

rcc_init == /\ Step("idle", "hse")
            /\ cr' = cr \cup {"HSEON"}
            /\ UNCHANGED <<pllcfgr, cfgr, sws, acr, SystemCoreClock>>

SetFlashLatency == /\ Step("flash", "pllcfgr")
                   /\ acr' = 2
                   /\ UNCHANGED <<cr, pllcfgr, cfgr, sws, SystemCoreClock>>

(* The register cannot be written while the PLL is on. *)
ConfigurePll ==
    /\ Step("pllcfgr", "cfgr")
    /\ pllcfgr' = IF "PLLON" \in cr THEN pllcfgr
                  ELSE [src |-> "HSE", m |-> 8, n |-> 336, p |-> 1]
    /\ UNCHANGED <<cr, cfgr, sws, acr, SystemCoreClock>>

(* APB1 is not divided. *)
SetPrescalers_Bug ==
    /\ Step("cfgr", "pllon")
    /\ cfgr' = [sw |-> "HSI", ppre1 |-> 0, ppre2 |-> 0]
    /\ UNCHANGED <<cr, pllcfgr, sws, acr, SystemCoreClock>>

(* An assignment, not |=: SW is set back to HSI. *)
SetPrescalers ==
    /\ Step("cfgr", "pllon")
    /\ cfgr' = [sw |-> "HSI", ppre1 |-> 4, ppre2 |-> 0]
    /\ UNCHANGED <<cr, pllcfgr, sws, acr, SystemCoreClock>>

EnablePll == /\ Step("pllon", "pll")
             /\ cr' = cr \cup {"PLLON"}
             /\ UNCHANGED <<pllcfgr, cfgr, sws, acr, SystemCoreClock>>

SwitchToPll == /\ Step("sw", "sws")
               /\ cfgr' = [cfgr EXCEPT !.sw = "PLL"]
               /\ UNCHANGED <<cr, pllcfgr, sws, acr, SystemCoreClock>>

RccDone == /\ rpc = "done" /\ rpc' = "idle" /\ gaveUp' = "none"
           /\ SystemCoreClock' = FullSpeed
           /\ UNCHANGED <<rccHw, i>>

RccGoesOn == \/ Wait("hse", "HSERDY" \in cr, "flash")
             \/ SetFlashLatency \/ ConfigurePll \/ SetPrescalers \/ EnablePll
             \/ Wait("pll", "PLLRDY" \in cr, "sw")
             \/ SwitchToPll
             \/ Wait("sws", sws = "PLL", "done")
             \/ RccDone

-----------------------------------------------------------------------------
(* The clock hardware *)

HseStarts == /\ "HSEON" \in cr /\ cr' = cr \cup {"HSERDY"}
             /\ UNCHANGED <<pllcfgr, cfgr, sws, acr>>

PllLocks == /\ "PLLON" \in cr /\ cr' = cr \cup {"PLLRDY"}
            /\ pllcfgr.src = "HSE" => "HSERDY" \in cr
            /\ UNCHANGED <<pllcfgr, cfgr, sws, acr>>

(* The selected clock is taken over once it is ready. *)
ClockSwitches == /\ cfgr.sw = "PLL" => "PLLRDY" \in cr
                 /\ sws' = cfgr.sw
                 /\ UNCHANGED <<cr, pllcfgr, cfgr, acr>>

ClockHardware == /\ HseStarts \/ PllLocks \/ ClockSwitches
                 /\ UNCHANGED <<SystemCoreClock, rpc, i, gaveUp>>

-----------------------------------------------------------------------------

RccNext == rcc_init \/ RccGoesOn \/ ClockHardware

RccSpec == RccInit /\ [][RccNext]_rccVars

RccTypeOK ==
    /\ cr \subseteq {"HSEON", "HSERDY", "PLLON", "PLLRDY"}
    /\ pllcfgr \in [src : {"HSI", "HSE"}, m : {8, 16}, n : {192, 336},
                    p : {0, 1}]
    /\ cfgr \in [sw : {"HSI", "PLL"}, ppre1 : {0, 4}, ppre2 : {0}]
    /\ sws \in {"HSI", "PLL"} /\ acr \in {0, 2}
    /\ SystemCoreClock \in {HSI, FullSpeed}
    /\ rpc \in {"idle", "hse", "flash", "pllcfgr", "cfgr", "pllon", "pll",
                "sw", "sws", "done"}
    /\ i \in 0..Polls-1
    /\ gaveUp \in {"none", "hse", "pll", "sws"}

(* Whatever the hardware does and wherever rcc_init() stops, the chip is   *)
(* never outside its limits: the flash has its wait states before the      *)
(* clock is raised (30 MHz per access cycle), and APB1 its divider         *)
(* (42 MHz) (rcc.cpp, lines 26-28 and 40-43).                              *)
ClockLimits == /\ Sysclk <= 30000000 * (acr + 1)
               /\ BusClock(Sysclk, cfgr.ppre1) <= 42000000
               /\ BusClock(Sysclk, cfgr.ppre2) <= 84000000

(* While rcc_init() is not running, SystemCoreClock is the clock in use    *)
(* (rcc.cpp, lines 4-7), so that a caller may go on with the HSI after a   *)
(* failure (rcc.hpp, lines 23-24); unless the call gave up in its last     *)
(* wait, which leaves the PLL selected.                                    *)
ClockIsKnown == rpc = "idle" /\ gaveUp # "sws" => Sysclk = SystemCoreClock
==============================================================================
