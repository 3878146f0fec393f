-------------------------------- MODULE Board --------------------------------
(***************************************************************************)
(* The whole program around the Uart objects: Reset_Handler and the vector *)
(* table of src/startup.cpp, rcc_init(), several objects of src/uart.cpp   *)
(* on the three USARTs, with the registers they share (RCC, GPIO, NVIC),   *)
(* the ISR dispatch table, SystemCoreClock, SysTick, and _write() of       *)
(* src/syscalls.cpp.  The board may be reset at any moment.                *)
(*                                                                         *)
(* What one object and its handler do to each other access by access is    *)
(* the subject of Uart; here a send(), a handler and the configuration of  *)
(* one group of registers are one step each.  Frames arrive and raise      *)
(* their interrupt; what becomes of their bytes is left to Uart.           *)
(***************************************************************************)
EXTENDS Rcc

CONSTANTS Objects,   (* the Uart objects, all static                          *)
          Singleton, (* s_uart                                                *)
          Asked,     (* the arguments of each object's constructor: a record
                        [usart, baud, parity, stop]                           *)
          None,      (* nullptr                                               *)
          QuietInit, (* TRUE: the line of a USART is idle until init() has
                        registered an object for it                           *)
          MaxQueue,  (* bound: bytes in a tx_buf_                             *)
          MaxSend,   (* bound: bytes accepted after a reset                   *)
          MaxResets  (* bound: resets                                         *)

Usarts == {"USART1", "USART2", "USART6"}
Parities == {"None", "Even", "Odd"}

ASSUME BoardAssumption ==
    /\ Singleton \in Objects /\ None \notin Objects
    /\ Asked \in [Objects -> [usart : Usarts \cup {"other"}, baud : Nat \ {0},
                              parity : Parities, stop : {"One", "Two"}]]
    /\ Asked[Singleton].usart = "USART2" /\ QuietInit \in BOOLEAN
    /\ MaxQueue \in Nat \ {0} /\ MaxSend \in Nat /\ MaxResets \in Nat

VARIABLES clocks,          \* the bits set in AHB1ENR, APB1ENR and APB2ENR
          gpio,            \* the configuration of each pin <<port, number>>
          regs,            \* CR1, CR2.STOP and BRR of each USART
          nvic,            \* the interrupt lines enabled
          load,            \* SysTick's period in cycles; 0 while it is off
          rxne,            \* the USARTs with RXNE or ORE set
          inst,            \* s_usart1_inst, s_usart2_inst, s_usart6_inst
          s_systick_init,
          initialized_, queued, \* of each object; bytes in its tx_buf_
          pc, self,        \* where main is, and the object init() is called on
          cpu,             \* "running", or "hung" in a handler that spins
          accepted, resets \* history: bytes accepted since the reset; resets

boardHw == <<clocks, gpio, regs, nvic, load, rxne>>
static == <<inst, s_systick_init, initialized_, queued>>
control == <<pc, self, cpu>>
history == <<accepted, resets>>
vars == <<rccVars, boardHw, static, control, history>>

-----------------------------------------------------------------------------
(* Tables *)

(* USARTx_IRQn: the lines on which the chip raises the requests. *)
Irqn == [u \in Usarts |-> CASE u = "USART1" -> 37 [] u = "USART2" -> 38
                            [] u = "USART6" -> 71]

(* The entries of vector_table from IRQ0 on. *)
Reserved == (19..22) \cup {39} \cup (43..46) \cup {48} \cup (52..55)
              \cup {61, 62} \cup (70..76) \cup {78, 79, 81}

(* One entry too many above it. *)
vector_table_Bug == [n \in 0..81 |-> CASE n = 37 -> "USART1"
                                       [] n = 39 -> "USART2"
                                       [] n = 67 -> "USART6"
                                       [] n \in Reserved \ {39} -> "nullptr"
                                       [] OTHER -> "Default_Handler"]

vector_table == [n \in 0..81 |-> CASE n = 37 -> "USART1"
                                   [] n = 38 -> "USART2"
                                   [] n = 67 -> "USART6"
                                   [] n \in Reserved -> "nullptr"
                                   [] OTHER -> "Default_Handler"]

(* PeriphInfo: pins, alternate function, clock bits, bus. *)
resolve_periph(u) ==
    CASE u = "USART1" -> [port |-> "GPIOA", tx |-> 9, rx |-> 10, af |-> 7,
                          ahb1 |-> "GPIOAEN", apb |-> "USART1EN", apb2 |-> TRUE]
      [] u = "USART2" -> [port |-> "GPIOA", tx |-> 2, rx |-> 3, af |-> 7,
                          ahb1 |-> "GPIOAEN", apb |-> "USART2EN", apb2 |-> FALSE]
      [] u = "USART6" -> [port |-> "GPIOC", tx |-> 6, rx |-> 7, af |-> 8,
                          ahb1 |-> "GPIOCEN", apb |-> "USART6EN", apb2 |-> TRUE]

(* The pins of the two ports that are somebody's: the driver's, the debug  *)
(* port's, and the LED and the button of the Nucleo board.                 *)
Jtag == {"GPIOA"} \X {13, 14, 15}
Pins == ({"GPIOA"} \X {2, 3, 5, 9, 10}) \cup Jtag \cup ({"GPIOC"} \X {6, 7, 13})

(* The debug port's pins are alternate functions from reset on. *)
ResetPin(pin) == [mode |-> IF pin \in Jtag THEN 2 ELSE 0, speed |-> 0,
                  pull |-> IF pin = <<"GPIOA", 14>> THEN 2
                           ELSE IF pin \in Jtag THEN 1 ELSE 0,
                  af |-> 0]
ResetUsart == [cr1 |-> {}, stop |-> 0, brr |-> 0]

UsartPin(pull, af) == [mode |-> 2, speed |-> 2, pull |-> pull, af |-> af]

-----------------------------------------------------------------------------

ResetGpio == [pin \in Pins |-> ResetPin(pin)]
ResetRegs == [u \in Usarts |-> ResetUsart]
NoBytes == [o \in Objects |-> 0]

(* At power-up the memory of the static objects holds anything (bound: the *)
(* same thing in every cell of an array, which nobody reads).              *)
Junk(S, T) == {[x \in S |-> t] : t \in T}

Init == /\ AfterReset /\ SystemCoreClock \in {HSI, FullSpeed}
        /\ clocks = {} /\ gpio = ResetGpio /\ regs = ResetRegs
        /\ nvic = {} /\ load = 0 /\ rxne = {}
        /\ inst \in Junk(Usarts, Objects \cup {None})
        /\ s_systick_init \in BOOLEAN
        /\ initialized_ \in Junk(Objects, BOOLEAN)
        /\ queued \in Junk(Objects, {0, MaxQueue})
        /\ pc = "copy" /\ self = None /\ cpu = "running"
        /\ accepted = 0 /\ resets = 0

(* A reset at any moment: the registers start afresh, memory keeps what it *)
(* held.                                                                   *)
Reset == /\ resets < MaxResets
         /\ resets' = resets + 1
         /\ RccReset
         /\ clocks' = {} /\ gpio' = ResetGpio /\ regs' = ResetRegs
         /\ nvic' = {} /\ load' = 0 /\ rxne' = {}
         /\ pc' = "copy" /\ self' = None /\ cpu' = "running"
         /\ accepted' = 0
         /\ UNCHANGED static

(* main is at label l of Reset_Handler or of init(). *)
At(l) == pc = l /\ cpu = "running"

(* main is between two calls. *)
Idle == At("main") /\ rpc = "idle"

Goto(l) == pc' = l /\ UNCHANGED <<self, cpu>>

-----------------------------------------------------------------------------
(* Reset_Handler() *)

(* The loop over .data is left out of the image. *)
CopyData_Bug == /\ At("copy")
                /\ Goto("zero")
                /\ UNCHANGED <<rccVars, boardHw, static, history>>

(* .data: the only initialised variable is SystemCoreClock. *)
CopyData == /\ At("copy")
            /\ SystemCoreClock' = HSI
            /\ Goto("zero")
            /\ UNCHANGED <<rccHw, rpc, i, gaveUp, boardHw, static, history>>

(* The loop stops before the flag of the time base. *)
ZeroBss_Bug == /\ At("zero")
               /\ inst' = [u \in Usarts |-> None]
               /\ initialized_' = [o \in Objects |-> FALSE]
               /\ queued' = NoBytes
               /\ Goto("constructors")
               /\ UNCHANGED <<rccVars, boardHw, s_systick_init, history>>

(* .bss: the table, the flag and the objects. *)
ZeroBss == /\ At("zero")
           /\ inst' = [u \in Usarts |-> None] /\ s_systick_init' = FALSE
           /\ initialized_' = [o \in Objects |-> FALSE]
           /\ queued' = NoBytes
           /\ Goto("constructors")
           /\ UNCHANGED <<rccVars, boardHw, history>>

(* __libc_init_array() *)
Constructors == /\ At("constructors")
                /\ initialized_' = [o \in Objects |-> FALSE]
                /\ queued' = NoBytes
                /\ Goto("main")
                /\ UNCHANGED <<rccVars, boardHw, inst, s_systick_init, history>>

-----------------------------------------------------------------------------
(* main calls rcc_init(), as often as it likes, before it initialises a    *)
(* Uart object: SysTick and BRR are not adjusted afterwards.               *)

CallRcc == /\ Idle /\ \A o \in Objects : ~initialized_[o]
           /\ rcc_init
           /\ UNCHANGED <<boardHw, static, control, history>>

RccStep == /\ At("main") /\ RccGoesOn
           /\ UNCHANGED <<boardHw, static, control, history>>

-----------------------------------------------------------------------------
(* init() of object self *)

usart_ == Asked[self].usart
Periph == resolve_periph(usart_)

(* An object that is initialised returns true at once, one on another      *)
(* peripheral false; neither changes anything.                             *)
InitCall(o) == /\ Idle /\ ~initialized_[o] /\ Asked[o].usart \in Usarts
               /\ pc' = "clocks" /\ self' = o /\ UNCHANGED cpu
               /\ UNCHANGED <<rccVars, boardHw, static, history>>

EnableClocks == /\ At("clocks")
                /\ clocks' = clocks \cup {Periph.ahb1, Periph.apb}
                /\ Goto("configure_gpio")
                /\ UNCHANGED <<rccVars, gpio, regs, nvic, load, rxne, static,
                                history>>

(* The port's registers are assigned as a whole. *)
ConfigureGpio_Bug ==
    /\ At("configure_gpio")
    /\ gpio' = [pin \in Pins |->
                  CASE pin = <<Periph.port, Periph.tx>> -> UsartPin(0, Periph.af)
                    [] pin = <<Periph.port, Periph.rx>> -> UsartPin(1, Periph.af)
                    [] pin[1] = Periph.port /\ pin[2] \notin {Periph.tx, Periph.rx}
                         -> [mode |-> 0, speed |-> 0, pull |-> 0, af |-> 0]
                    [] OTHER -> gpio[pin]]
    /\ Goto("configure_usart")
    /\ UNCHANGED <<rccVars, clocks, regs, nvic, load, rxne, static, history>>

(* A write to a port without a clock has no effect. *)
ConfigureGpio ==
    /\ At("configure_gpio")
    /\ gpio' = IF Periph.ahb1 \notin clocks THEN gpio
               ELSE [gpio EXCEPT
                       ![<<Periph.port, Periph.tx>>] = UsartPin(0, Periph.af),
                       ![<<Periph.port, Periph.rx>>] = UsartPin(1, Periph.af)]
    /\ Goto("configure_usart")
    /\ UNCHANGED <<rccVars, clocks, regs, nvic, load, rxne, static, history>>

ParityBits(parity) == CASE parity = "None" -> {}
                        [] parity = "Even" -> {"PCE"}
                        [] parity = "Odd" -> {"PCE", "PS"}

StopBits(stop) == IF stop = "Two" THEN 2 ELSE 0

Ppre == IF Periph.apb2 THEN cfgr.ppre2 ELSE cfgr.ppre1

(* APB2's divider for every USART. *)
ConfiguredBrr_Bug == uart_compute_brr(BusClock(SystemCoreClock, cfgr.ppre2),
                                      Asked[self].baud)

ConfiguredBrr == uart_compute_brr(BusClock(SystemCoreClock, Ppre),
                                  Asked[self].baud)

(* TXEIE, which the handler of another object may have set, is left alone. *)
ConfigureUsart ==
    /\ At("configure_usart")
    /\ regs' = IF Periph.apb \notin clocks THEN regs
               ELSE [regs EXCEPT ![usart_] =
                       [cr1 |-> (@.cr1 \cap {"TXEIE"})
                                  \cup ParityBits(Asked[self].parity)
                                  \cup {"RXNEIE", "TE", "RE", "UE"},
                        stop |-> StopBits(Asked[self].stop),
                        brr |-> BrrRegister(ConfiguredBrr)]]
    /\ Goto("configure_nvic")
    /\ UNCHANGED <<rccVars, clocks, gpio, nvic, load, rxne, static, history>>

(* NVIC_EnableIRQ(); the priorities are all 5, so no handler interrupts    *)
(* another.                                                                *)
ConfigureNvic == /\ At("configure_nvic")
                 /\ nvic' = nvic \cup {Irqn[usart_]}
                 /\ Goto("register")
                 /\ UNCHANGED <<rccVars, clocks, gpio, regs, load, rxne,
                                static, history>>

Register == /\ At("register")
            /\ inst' = [inst EXCEPT ![usart_] = self]
            /\ Goto("setup_systick")
            /\ UNCHANGED <<rccVars, boardHw, s_systick_init, initialized_,
                           queued, history>>

(* LOAD = SystemCoreClock / 1000 - 1 makes that many cycles and one. *)
setup_systick == /\ At("setup_systick")
                 /\ s_systick_init' = TRUE
                 /\ load' = IF s_systick_init THEN load
                            ELSE SystemCoreClock \div 1000
                 /\ Goto("initialized")
                 /\ UNCHANGED <<rccVars, clocks, gpio, regs, nvic, rxne, inst,
                                initialized_, queued, history>>

InitDone == /\ At("initialized")
            /\ initialized_' = [initialized_ EXCEPT ![self] = TRUE]
            /\ pc' = "main" /\ self' = None /\ UNCHANGED cpu
            /\ UNCHANGED <<rccVars, boardHw, inst, s_systick_init, queued,
                           history>>

-----------------------------------------------------------------------------
(* send() *)

(* The singleton's peripheral, whichever object sends. *)
Kick_Bug(u) == regs' = [regs EXCEPT !["USART2"].cr1 = @ \cup {"TXEIE"}]

Kick(u) == regs' = [regs EXCEPT ![u].cr1 = @ \cup {"TXEIE"}]

(* The result of push() is ignored. *)
Send_Bug(o) == /\ Idle /\ initialized_[o] /\ accepted < MaxSend
               /\ queued' = [queued EXCEPT ![o] = @ + 1]
               /\ accepted' = accepted + 1
               /\ Kick(Asked[o].usart)
               /\ UNCHANGED <<rccVars, clocks, gpio, nvic, load, rxne, inst,
                              s_systick_init, initialized_, control, resets>>

(* Without init(), or on a full ring, the byte is refused. *)
Send(o) == /\ Idle /\ initialized_[o]
           /\ queued[o] < MaxQueue /\ accepted < MaxSend
           /\ queued' = [queued EXCEPT ![o] = @ + 1]
           /\ accepted' = accepted + 1
           /\ Kick(Asked[o].usart)
           /\ UNCHANGED <<rccVars, clocks, gpio, nvic, load, rxne, inst,
                          s_systick_init, initialized_, control, resets>>

(* printf() and its like end here; other file descriptors are ignored. *)
Write(fd) == fd \in {1, 2} /\ Send(Singleton)

-----------------------------------------------------------------------------
(* Reception and interrupts *)

(* A frame, at any moment after the receiver was turned on.  Another that  *)
(* arrives before DR is read only changes RXNE to ORE.  A handler takes a  *)
(* small part of a frame's time: once its frame has been read, a USART     *)
(* receives the next only after those of the others have been read too.    *)
(* Frames that wait together may have come in any order, which rxne does   *)
(* not keep; here they come in that of their interrupt numbers.            *)
Frame(u) == /\ {"UE", "RE"} \subseteq regs[u].cr1
            /\ QuietInit => inst[u] # None
            /\ \A v \in rxne : Irqn[v] < Irqn[u]
            /\ rxne' = rxne \cup {u}
            /\ UNCHANGED <<rccVars, clocks, gpio, regs, nvic, load, static,
                           control, history>>

RxRequest(u) == {"UE", "RXNEIE"} \subseteq regs[u].cr1 /\ u \in rxne

(* The data register is taken to be empty whenever it is asked for. *)
TxRequest(u) == {"UE", "TXEIE"} \subseteq regs[u].cr1

Request(u) == RxRequest(u) \/ TxRequest(u)

IrqPending(u) == Irqn[u] \in nvic /\ Request(u)

(* The interrupt is turned off with the last byte, not after it. *)
Serve_Bug(o) ==
    LET u == Asked[o].usart
    IN  /\ rxne' = rxne \ {u}
        /\ \/ /\ ~TxRequest(u)
              /\ UNCHANGED <<queued, regs>>
           \/ /\ TxRequest(u) /\ queued[o] > 1
              /\ queued' = [queued EXCEPT ![o] = @ - 1]
              /\ UNCHANGED regs
           \/ /\ TxRequest(u) /\ queued[o] <= 1
              /\ regs' = [regs EXCEPT ![u].cr1 = @ \ {"TXEIE"}]
              /\ UNCHANGED queued
        /\ UNCHANGED <<cpu, pc, self>>

(* The bytes of an object that is not initialised yet are left in DR. *)
Serve_RxBug(o) ==
    LET u == Asked[o].usart
    IN  /\ rxne' = IF initialized_[o] THEN rxne \ {u} ELSE rxne
        /\ \/ /\ ~TxRequest(u)
              /\ UNCHANGED <<queued, regs>>
           \/ /\ TxRequest(u) /\ queued[o] > 0
              /\ queued' = [queued EXCEPT ![o] = @ - 1]
              /\ UNCHANGED regs
           \/ /\ TxRequest(u) /\ queued[o] = 0
              /\ regs' = [regs EXCEPT ![u].cr1 = @ \ {"TXEIE"}]
              /\ UNCHANGED queued
        /\ UNCHANGED <<cpu, pc, self>>

(* irq_handler() of the registered object, which serves its own            *)
(* peripheral: one of its two branches reads DR if there is something in   *)
(* it; then, if TXEIE asks for it, write the next byte or turn TXEIE off.  *)
Serve(o) ==
    LET u == Asked[o].usart
    IN  /\ rxne' = rxne \ {u}
        /\ \/ /\ ~TxRequest(u)
              /\ UNCHANGED <<queued, regs>>
           \/ /\ TxRequest(u) /\ queued[o] > 0
              /\ queued' = [queued EXCEPT ![o] = @ - 1]
              /\ UNCHANGED regs
           \/ /\ TxRequest(u) /\ queued[o] = 0
              /\ regs' = [regs EXCEPT ![u].cr1 = @ \ {"TXEIE"}]
              /\ UNCHANGED queued
        /\ UNCHANGED <<cpu, pc, self>>

(* The request is vectored.  HardFault_Handler, to which a null vector     *)
(* leads, and Default_Handler never return.  A handler without an object   *)
(* does nothing, so its request stays.                                     *)
Interrupt(u) ==
    LET handler == vector_table[Irqn[u]]
    IN  /\ cpu = "running" /\ IrqPending(u)
        /\ \/ /\ handler \in Usarts /\ inst[handler] # None
              /\ Serve(inst[handler])
           \/ /\ handler \notin Usarts
              /\ cpu' = "hung" /\ UNCHANGED <<queued, regs, rxne, pc, self>>
        /\ UNCHANGED <<rccVars, clocks, gpio, nvic, load, inst, s_systick_init,
                       initialized_, history>>

Clocks == ClockHardware /\ UNCHANGED <<boardHw, static, control, history>>

-----------------------------------------------------------------------------

MainGoesOn == \/ CopyData \/ ZeroBss \/ Constructors \/ RccStep
              \/ EnableClocks \/ ConfigureGpio \/ ConfigureUsart
              \/ ConfigureNvic \/ Register \/ setup_systick \/ InitDone

MainCalls == \/ CallRcc
             \/ \E o \in Objects : InitCall(o) \/ Send(o)
             \/ \E fd \in 0..2 : Write(fd)

Next == \/ MainGoesOn \/ MainCalls \/ Clocks \/ Reset
        \/ \E u \in Usarts : Frame(u) \/ Interrupt(u)

Spec == Init /\ [][Next]_vars

(* The processor takes the interrupts that are pending, and only while     *)
(* none is it obliged to go on with what main has begun.  Frames may come  *)
(* for ever, but a handler takes a small part of a frame's time: main has  *)
(* its turn again and again, hence SF.  The far end owes the board no      *)
(* frame, and neither crystal nor PLL owes it anything.                    *)
FairSpec == /\ Spec
            /\ SF_vars(MainGoesOn /\ \A u \in Usarts : ~IrqPending(u))
            /\ \A u \in Usarts : WF_vars(Interrupt(u))

-----------------------------------------------------------------------------

ClockBits == {"GPIOAEN", "GPIOCEN", "USART1EN", "USART2EN", "USART6EN"}
Cr1Bits == {"UE", "TE", "RE", "RXNEIE", "TXEIE", "PCE", "PS"}

TypeOK ==
    /\ RccTypeOK
    /\ clocks \subseteq ClockBits
    /\ gpio \in [Pins -> [mode : 0..3, speed : 0..3, pull : 0..2, af : 0..15]]
    /\ regs \in [Usarts -> [cr1 : SUBSET Cr1Bits, stop : {0, 2},
                            brr : 0..2^16-1]]
    /\ nvic \subseteq {Irqn[u] : u \in Usarts} /\ load \in Nat
    /\ rxne \subseteq Usarts
    /\ inst \in [Usarts -> Objects \cup {None}]
    /\ s_systick_init \in BOOLEAN
    /\ initialized_ \in [Objects -> BOOLEAN]
    /\ queued \in [Objects -> 0..MaxQueue]
    /\ pc \in {"copy", "zero", "constructors", "main", "clocks",
               "configure_gpio", "configure_usart", "configure_nvic",
               "register", "setup_systick", "initialized"}
    /\ self \in Objects \cup {None}
    /\ cpu \in {"running", "hung"}
    /\ accepted \in 0..MaxSend /\ resets \in 0..MaxResets

(* Peripheral u is set up as object o asked for. *)
SetUp(u, o) ==
    LET p == resolve_periph(u)
    IN  /\ Asked[o].usart = u
        /\ {p.ahb1, p.apb} \subseteq clocks
        /\ gpio[<<p.port, p.tx>>] = UsartPin(0, p.af)
        /\ gpio[<<p.port, p.rx>>] = UsartPin(1, p.af)
        /\ regs[u].cr1 \ {"TXEIE"} =
             {"UE", "TE", "RE", "RXNEIE"} \cup ParityBits(Asked[o].parity)
        /\ regs[u].stop = StopBits(Asked[o].stop)
        /\ Irqn[u] \in nvic

(* Whatever came before the reset, main finds SystemCoreClock right, and   *)
(* rcc_init() keeps it so (rcc.cpp, lines 4-8; startup.cpp, 249-253).      *)
MainKnowsClock == At("main") => ClockIsKnown

(* initialized_ tells the truth, after any resets and whichever objects    *)
(* were initialised in between: the peripheral is set up as the object     *)
(* that serves it asked for, though its port and clock registers are       *)
(* shared (uart.cpp, lines 101-199).                                       *)
InitializedIsSetUp ==
    Idle => \A o \in Objects : initialized_[o] =>
              LET u == Asked[o].usart
              IN  inst[u] # None /\ initialized_[inst[u]] /\ SetUp(u, inst[u])

(* Initialising a Uart disturbs no pin but its own, not the debug port's   *)
(* either (uart.cpp, lines 104-132).                                       *)
OtherPinsUntouched ==
    \A pin \in Pins :
      \/ gpio[pin] = ResetPin(pin)
      \/ \E o \in Objects : /\ Asked[o].usart \in Usarts
                            /\ LET p == resolve_periph(Asked[o].usart)
                               IN  pin \in {p.port} \X {p.tx, p.rx}

(* Every peripheral runs at the rate its object asked for, on the clock    *)
(* that is really there, "even if rcc_init() is not called" or has failed  *)
(* (uart.cpp, lines 174-176), as long as the rate can be expressed.        *)
BaudIsRight ==
    Idle /\ gaveUp # "sws" =>
      \A u \in Usarts : inst[u] # None =>
        LET baud == Asked[inst[u]].baud
            pclk == BusClock(Sysclk, IF u = "USART2" THEN cfgr.ppre1
                                                     ELSE cfgr.ppre2)
        IN  Representable(pclk, baud) =>
              Within2Percent(pclk, regs[u].brr, baud)

(* Once an object is initialised SysTick ticks, and every millisecond      *)
(* (uart.hpp, lines 115-116).                                              *)
TickIsOneMs ==
    Idle /\ gaveUp # "sws" /\ (\E o \in Objects : initialized_[o]) =>
      load > 0 /\ load * 1000 = Sysclk

(* The interrupts that init() enables have a handler: table, line numbers  *)
(* and peripherals agree (uart.hpp, lines 13-17; startup.cpp, 145-245).    *)
NoHang == cpu = "running"

(* Accepted bytes have an interrupt that will send them, unless a second   *)
(* object has taken over the peripheral (uart.cpp, lines 242-245).         *)
StrandedOnlyByTakeover ==
    Idle => \A o \in Objects : queued[o] > 0 =>
              LET u == Asked[o].usart
              IN  \/ inst[u] = o /\ TxRequest(u) /\ Irqn[u] \in nvic
                  \/ \E rival \in Objects \ {o} :
                       inst[u] = rival /\ initialized_[rival]

(* On a line that is quiet until the object is registered, booting and     *)
(* every call come to an end: the three waits of rcc_init() are bounded,   *)
(* and no frame, takeover or byte to be sent leaves a request that keeps   *)
(* main from running (rcc.cpp, lines 19-56; uart.cpp, lines 372-401).      *)
(* Without such a line it is not so: init() turns on receiver, RXNEIE and  *)
(* NVIC before it registers the object (uart.cpp, lines 239-245), and the  *)
(* handler of a frame in between does nothing and is entered again.        *)
MainComesBack == QuietInit => (~Idle ~> Idle)

(* On such a line, what a registered object has accepted is sent, whatever *)
(* is received meanwhile.                                                  *)
RegisteredDrains ==
    QuietInit =>
      \A o \in Objects \ {p \in Objects : Asked[p].usart = "other"} :
        inst[Asked[o].usart] = o /\ initialized_[o] ~>
          queued[o] = 0 \/ inst[Asked[o].usart] # o \/ pc = "copy"
==============================================================================
