# A verified model of the STM32F4 UART driver

TLA+ modules, TLC runs and TLAPS proofs for the bare-metal UART driver in
`src/` and `include/`: an interrupt-driven driver for USART1/2/6 of the
STM32F401, its lock-free ring buffers, its SysTick time base, the clock
start-up, the start-up code, and a small demonstration program. Paths below are
relative to the repository.

    tlc -config MCUartTx.cfg MCUart.tla       # one run
    tlapm UartSafety_proofs.tla               # the proofs of one module

## 1. The system

| Component | Source | State it keeps | Operations | Modelled in |
|---|---|---|---|---|
| Ring buffer | `include/ring_buffer.hpp` | `head_`, `tail_` (volatile), `buf_[N]` | `push`, `pop`, `empty`, `size` | `RingBuffer` |
| UART driver | `src/uart.cpp`, `include/uart.hpp` | `initialized_`, `stats_`, `tx_buf_`, `rx_buf_` of each object | `init`, `send` (4 forms), `receive`, `rx_ready`, `flush_tx`, `get_and_clear_errors`, `irq_handler` | `Uart` |
| Line reader | `src/uart.cpp:314-343` | locals of the call | `receive_line` | `LineReader` |
| Statistics | `src/uart.cpp:407-415` | `stats_` | `get_stats`, `reset_stats` | `Demo` (not `reset_stats`) |
| Dispatch table | `src/uart.cpp:46-48, 445-458` | one object pointer per USART | written by `init`, read by `USARTx_IRQHandler` | `Board` |
| Shared registers | `src/uart.cpp:75-214` | GPIO, RCC enables, NVIC | `resolve_periph`, `configure_gpio`, `configure_usart`, `configure_nvic` | `Board` |
| Time base | `src/uart.cpp:16-36` | `s_tick_ms` (32 bits, volatile), `s_systick_init` | `setup_systick`, `SysTick_Handler` | `Board`, `Uart`, `LineReader` |
| Peripheral | hardware | CR1, SR, DR, shift registers, the line | register accesses, arrival and departure of frames | `Usart` |
| Baud rate | `include/uart.hpp:307` | none | `uart_compute_brr` | `Brr` |
| Clock tree | `src/rcc.cpp` | RCC and FLASH registers, `SystemCoreClock` | `rcc_init` | `Rcc` |
| Demo program | `src/main.cpp` | line count, line buffer | line echo, statistics every 100 lines | `Demo` |
| newlib glue | `src/syscalls.cpp` | none | `_write` | `Board` |
| Start-up | `src/startup.cpp` | vector table | `Reset_Handler` | `Board` |
| Linker script, build | `linker/`, `CMakeLists.txt` | none | | no |
| Host tests | `tests/` | register mock | unit tests, one thread | no |

How they interact. `main` calls the member functions; `USARTx_IRQHandler`
interrupts it between any two instructions, finds the object in the dispatch
table and runs `irq_handler()`; `SysTick_Handler` preempts both. `main` and the
handler share the two ring buffers (each the producer of one, the consumer of
the other), the register CR1, the pair SR/DR and the counters in `stats_`. The
peripheral moves on its own: a frame may arrive, a byte may leave, a flag may
change between any two accesses. Several objects share the registers of ports,
clocks and NVIC, the dispatch table and the tick; what `init()` computes from
`SystemCoreClock` depends on what `rcc_init()` has made of the clock tree, and
both on what `Reset_Handler` found in memory.

What is hard about it: two contexts updating head and tail without a lock;
read-modify-writes of CR1 from both; register reads with side effects (reading
SR and then DR clears flags, perhaps other ones than those that were read);
level-triggered requests that come back at once when their cause is not removed;
snapshots that are stale when used; rings at their limit; the wrapping tick; the
order of the steps of `init()` while the line is already active; a clock sequence
that may stop anywhere and be entered again; memory that survives a reset while
the registers do not.

What makes each part correct:

- *ring*: a FIFO of N-1 elements, no slot in use by both contexts at once, no
  index outside `buf_`;
- *transmission*: bytes leave in the order of the calls, none lost or repeated;
  accepted bytes always have an interrupt to fetch them and are sent in the end;
  `flush_tx()` does not return true early;
- *reception*: order kept, no frame twice, every frame accounted for, faulty
  frames kept from the application;
- *waiting*: no wait ends early, every call returns;
- *interrupts*: no request is served for ever, each finds its handler;
- *clock tree*: never outside the chip's limits; after a failure the program
  runs on the clock it believes in;
- *baud rate*: the rate asked for, on the clock that is there;
- *several objects*: the peripheral of an initialised object is set up as the
  object that serves it asked, and nobody else's pins are touched;
- *line reader*: never writes past the buffer, returns what it took from the
  ring, and its total wait is bounded;
- *echo*: whole, in order and once, or the loss is reported.

## 2. The modules

| Module | What it is |
|---|---|
| `BoundedFifo` | abstract specification of the ring: a queue of bounded capacity |
| `RingBuffer` | `push()` and `pop()` access by access |
| `SerialPort` | abstract specification of one object: a queue in each direction |
| `Usart` | the peripheral and the line (no code of the repository) |
| `Uart` | one driver object on its peripheral, access by access; EXTENDS `Usart` |
| `Brr` | `uart_compute_brr()` and the bus clock it is given |
| `Rcc` | `rcc_init()` against the clock hardware; EXTENDS `Brr` |
| `Board` | start-up, several objects, shared registers, requests, vector table; EXTENDS `Rcc` |
| `LineReader` | `receive_line()` and the `receive()` in it against bytes and ticks |
| `Demo` | main's loop, `send()` of texts, `get_stats()`; EXTENDS `LineReader` |
| `MCRingBuffer`, `MCUart`, `MCBoard`, `MCDemo` | constants for TLC |
| `RingBuffer_proofs` | types, slot ownership, refinement of `BoundedFifo` |
| `Uart_proofs` | types of `Uart` |
| `UartSafety_proofs` | its safety properties, one inductive invariant |
| `UartPort_proofs` | order of reception, faulty frames, error counters, refinement of `SerialPort` |
| `Board_proofs` | types of `Board`, the clock tree, rounding of the divisor |
| `BoardSafety_proofs` | its safety properties |
| `Demo_proofs` | bounds, time-outs and statistics of `Demo` |
| `DemoEcho_proofs` | lines, echoes and the remaining types of `Demo`; induction and folds |

The system is modelled at three scales. `Uart` looks at one object through every
access that two contexts share. `Board` looks at several of them: a `send()`, a
handler and the configuration of one group of registers are a step each, and the
subject is what they share. `Demo` looks at a program that uses one object: the
rings are queues, which is what the finer levels show they are.

### RingBuffer and BoundedFifo

The producer is at `ppc` in `push()`, the consumer at `cpc` in `pop()`; each
action is one access of the source: load `head_`, compare with `tail_`, write
the slot, store `head_`; and the same for `pop()`. The masks `& MASK` are
`% N`; N is a power of two, as the `static_assert` demands.

The indices are volatile, the slots are not. The compiler must keep the order of
the volatile accesses, and may move the access to a slot past one of them.
`Spec` allows that for `pop()` (`PopAdvanceFirst`, `PopReadLate`): it is
harmless as long as the handler runs `pop()` to completion or main is the
consumer and the producer finds one slot more in between; the proof covers it.
`SpecUnordered` allows it for `push()` too, and there it is not harmless (section 5).

The refinement (`ImplementsFifo`) maps the slots between the indices to the
queue. `push()` takes effect at the store to `head_` and a failing one at its
comparison; `pop()` at the store to `tail_`. When `pop()` has given its slot
back and not read it yet, the mapping takes the value it is going to read.

### Usart

Registers as `uart.cpp` meets them. `ReadSR` remembers which error flags it
returned, `ReadDR` clears RXNE and those flags; `LineFrame` puts a frame into an
empty register, or raises ORE and loses it; `ShiftLoad` and `ShiftDone` move a
byte from DR to the shift register to the pin and maintain TC. A received frame
is an ordinal with the faults its arrival raised; a transmitted byte is its
ordinal among the accepted bytes, so that order, loss and repetition show. Left
out: parity errors, break, idle, CR2, CR3, DMA; the driver never uses them.

### Uart

`pc` and the record `m` are main's place in a member function and its locals
(`left` bytes of a `send(data, len)`, the value `reg` loaded from CR1, the
counter value `cnt` between the load and the store of a `++`, `start`, `tmo`);
`isr`, `ierr`, `itx`, `ibyte` are the handler's. `tx_buf_` and `rx_buf_` are
queues of N-1 elements with atomic `push()` and `pop()`: that is what
`RingIsFifo` allows. Every other access that the two contexts share is a step of its own:

| Code | Actions |
|---|---|
| `init()` | `InitCall`, `ConfigureUsart` (receiver on), `ConfigureNvic`, `Register`, `InitDone` |
| `send()` | `SendCall`, then for each byte `SendRefused` or `SendPush`, `KickLoad`, `KickStore` (`CR1 \|= TXEIE` is a load and a store) |
| `receive()` | `ReceiveCall`, `ReceivePop` or `ReceiveEmpty`, `TimeTest`, `ReturnFalse` |
| `flush_tx()` | `FlushCall`, `FlushDrain`, `FlushTc`, `TimeTest`, `FlushTrue`, `ReturnFalse` |
| `get_and_clear_errors()` from main | `ErrorsCall`, `CountLoad`/`CountStore` for each flag in any order, `ErrorsClear` |
| handler | `IsrEnter`, `IsrUnregistered`, `IsrErrors`, `IsrClear`, `IsrDecide` (second SR read and CR1), `IsrReceive`, `IsrPop`, `IsrWrite`, `IsrDrained`, `IsrReturn` |
| hardware | `SysTick`, `Line`, `Shift` |

main takes a step only when no handler runs; the handler runs to completion
while the hardware goes on. An interrupt may stay pending for a few of main's
steps (the other USARTs' handlers have the same priority); a request that main
itself withdraws by reading DR is not served. `++bytes_sent` and
`++tx_buffer_overflows` are done by main alone and are one step with their
neighbours; the handler's counter updates are one step because main cannot run.
The DR read and the `push()` of the receive branch are one step: the receive
register can only be refilled by a frame, which the model allows right after.

The history variables `accepted`, `got`, `cleared`, `errorCalls`, `waited`, and
the peripheral's `wire`, `frames`, `loaded`, are not in the code; they record
what the properties speak of. `MaxLen`, `MaxSend`, `MaxRejects`,
`MaxErrorCalls` and `MaxFrames` bound calls and frames in the guards.

`QuietInit = TRUE` says the line is idle until `init()` has registered the
object. With `FALSE` a frame may arrive as soon as the receiver is on; the
interrupt storm of section 5 is then possible, so the liveness run assumes TRUE.

A wait of main looks at the tick at least once in each turn of the counter
(`SysTick` is blocked for a loop that would be lapped: 49 days without an
instruction of main). A second `init()` of the object returns at once.

### SerialPort

What `include/uart.hpp` promises the user: accepted bytes go out once and in
order, received ones wait in the order of the line though some may be missing.
The refinement `ImplementsPort` maps the bytes on their way out (`shift \o tdr
\o ibyte \o tx_buf_`) to one queue of at most N+1: the ring's N-1, one in the data
register or in the handler, one in the shift register. Registers, flags, TXEIE
and the handler's steps become stutters.

### Brr, Rcc and Board

`Brr` has the rounding division, the decoding of PPRE1/PPRE2 and the truncation
to the 16 bits of the register. `Rcc` has the seven steps of `rcc_init()`; `rpc`
is its place, `i` its loop counter, `cr`, `pllcfgr`, `cfgr`, `sws`, `acr` the
registers. `Wait` is the loop of steps 1, 5 and 6, with `Polls` reads before it
gives up. `HseStarts`, `PllLocks` and `ClockSwitches` may happen at any moment
after they were asked for, or never. `rcc_init()` may be called again.

| Code | Actions of `Board` |
|---|---|
| power-up, reset at any moment | `Init` (memory holds anything), `Reset` (registers afresh, memory as it was) |
| `Reset_Handler` | `CopyData`, `ZeroBss`, `Constructors` |
| `rcc_init()` | `CallRcc` (before any object is initialised), `RccStep` |
| `init()` | `InitCall`, `EnableClocks`, `ConfigureGpio`, `ConfigureUsart`, `ConfigureNvic`, `Register`, `setup_systick`, `InitDone` |
| `send()`, `_write()` | `Send`, `Write` |
| handlers | `Interrupt`: the request goes through `vector_table` and the dispatch table; `Serve` reads DR, and writes a byte or turns TXEIE off; a null entry or the default handler hangs; without an object nothing is done and the request stays |
| hardware | `Clocks`, `Frame` |

`clocks` is the set of bits in the enable registers, `gpio` the configuration of
each pin, `regs` CR1, stop bits and divisor per USART, `load` the period of
SysTick, `rxne` the USARTs with RXNE or ORE set. A port or peripheral without its clock ignores writes. `InitCall` is
enabled only for objects it does anything for: an initialised one returns true
at once, one on another peripheral false, and neither changes anything.
`CallRcc` is enabled only before the first `init()`, the order `main()` keeps:
rates and ticks are not adjusted when the clock changes afterwards.

A `Frame` sets RXNE (or ORE) on a USART whose receiver is on, at any moment and
as often as the line likes. With RXNEIE it raises a request, as an empty data
register does with TXEIE; a request is pending while its line is enabled in the
NVIC, and stays pending until a handler with an object has read DR. The bytes
themselves, the flags and the receive rings are `Uart`'s. `Frame` assumes that
handlers are short against the time of a frame, so that a USART receives its
next frame only after those of the other USARTs have been read. With
`QuietInit = TRUE` a USART's line is idle until an object is registered for it.
`accepted` counts the bytes all objects have accepted since the reset.

### LineReader and Demo

`lpc` is main's place in `receive_line()` or in the `receive()` it calls, `l` the
locals of both. Each look at `s_tick_ms` and each look at the ring is a step, so
the tick moves between them: `LoopHead` (321-328), `Receive` (297), `Pop` or
`PopEmpty` (298), `TimeTest` (300). `Slack` is an assumption about speed: at
most so many ticks (milliseconds) pass between two steps of main, which are a
few instructions apart; the handler's reception of a good frame, `Arrive`, is
one step. `Room` is the test of line 321: `max_len - 1u` is taken modulo
`SizeMod`, so that it would wrap for a `max_len` of 0; the test of line 316 is
what keeps it from doing so. The counter is kept as ticks since the call began, from any starting
value, modulo `TickMod`.

`Demo` is the program: `say` are the texts main has yet to send, one `send()`
each, which `SendByte` puts into the ring byte by byte and cuts off when the
ring is full; `Transmit` is the handler's half. `CallLine`, `Reply`, `Stats`,
`Copy` (one counter of `get_stats()`, in any order) and `PrintStats` are the
loop. A text is a few tokens, the line's own bytes stand for themselves, and
`UpToNul` is what `strlen()` finds of a line with a zero byte in it.

## 3. The runs

| Run | Spec | Checks | Shows |
|---|---|---|---|
| `ring` | `RingBuffer!Spec` | `TypeOK`, `SlotOwnership`, `ImplementsFifo` | any interleaving of the accesses is a FIFO |
| `ring_late_push` | `SpecUnordered` | `SlotOwnership` violated | what the missing `volatile` on `buf_` permits |
| `uart_tx` | `Uart!Spec` | `TypeOK`, `TxInOrder`, `NoLostKick`, `FlushMeansSent`, `TimeoutNotEarly`, `ImplementsPort` | sending and flushing against the handler, with a frame arriving at any moment |
| `uart_rx` | `Uart!Spec` | `RxInOrder`, `RxConserved`, `NoCorruptDelivered`, `HandlerAccounts`, `IntactLostAfterOverrun`, `ImplementsPort` | faults, overruns, full ring, frames during `init()` |
| `uart_live` | `Uart!FairSpec` | `CallsReturn`, `AcceptedIsSent`, `NoStorm` | everything that must happen happens |
| `uart_corrupt` | `Uart!Spec` | `NoCorruptDelivered` violated | section 5 |
| `uart_intact` | `Uart!Spec` | `OnlyCorruptDiscarded` violated | section 5 |
| `uart_lost_count` | `Uart!Spec` | `RxAccounted` violated | section 5 |
| `uart_init_storm` | `Uart!FairSpec` | `CallsReturn` violated | section 5 |
| `board` | `Board!FairSpec` | `TypeOK`, `ClockLimits`, `MainKnowsClock`, `InitializedIsSetUp`, `OtherPinsUntouched`, `BaudIsRight`, `TickIsOneMs`, `NoHang`, `StrandedOnlyByTakeover`, `MainComesBack`, `RegisteredDrains` | power-up, a reset anywhere, a clock that may fail anywhere, four objects on shared registers |
| `board_usart6` | `Board!Spec` | `NoHang` violated | section 5 |
| `demo` | `Demo!Spec` | `TypeOK`, `InBounds`, `LineIsWhatWasTaken`, `LineNotEarly`, `LineNotLate`, `EchoIsFaithful`, `StatsOfTheMoment`, `EveryByteRead` | the program against bytes, transmitter and a wrapping tick |

Every property of a passing run comes with a mutant: an operator `X_...Bug`
next to `X`, with a mistake one could make in that line, under which TLC finds
the property violated.

*Bounds of `ring` and `uart_*`.* N = 4 gives three usable slots: empty, partly
full, full and a wrapped index all occur, and `send()` of three bytes fills the
ring, a fourth byte is refused. In the `ring` run the counters wrap without
bound. TickMod = 3 (2 for reception) lets the tick wrap during a wait and makes
time-outs of 0 and 1 distinct from a whole turn. Four frames are a full receive
ring and one more, or three and an overrun. One frame, possibly faulty, is
enough in `uart_tx` to put the error and the receive branch in front of the
transmit branch at every point of a transmission. `uart_live` uses N = 2 (a ring
of one byte) so that two bytes already meet a full ring.

*Bounds of `board`.* The singleton and a rival on USART2, an object on USART1 at
1200 baud (a rate whose divisor fits the register on 16 MHz and not on 84 MHz)
and one on no supported peripheral: takeover, shared port and both buses occur.
Two polls per wait distinguish the last one. Rings of one byte and three bytes
in all after a reset let a ring be full, drain and fill again while another
object's holds a byte. Frames are not bounded. `QuietInit` is TRUE, which
`MainComesBack` and `RegisteredDrains` need (below) and the invariants do not:
they are proved for both values. One reset, with memory as any
earlier run can have left it, is as good as more: the state after it does
not depend on how many came before. `board_usart6` swaps the rival for an object
on USART6, the only peripheral of which `NoHang` is false, and lets frames
arrive from the moment the receiver is on.

*Bounds of `demo`.* N = 3 and a transmit ring of two tokens, where an echo of a
line is three or more, so that it is cut off if the handler is slow. Three bytes
out of CR, LF, a letter and a zero byte make every line of up to two characters,
a line too long for the buffer of three, and an overflow. TickMod = 5 with a
time-out of 2 and `Slack` = 1 is the smallest counter for which a call's ticks
(time-out and three times `Slack`) do not exceed a turn, from every starting
value; so wraparound happens at every point. `SizeMod` = 8 is larger than any buffer,
so that a wrapped size would let all three bytes in. Buffers of 1 and 0, which take no
byte, and a time-out of 0 are among `Args`.

Deadlock is checked in all runs: idle states with all bounds used up still tick,
or the clock hardware can still step.

`NoCorruptDelivered` passes in `uart_rx` because nothing is sent there: the
handler is then only entered for RXNE or ORE, and a frame that arrives during
the handler finds the register full. `uart_corrupt` adds a `send()`.
`HandlerAccounts` and `IntactLostAfterOverrun` speak of the time before main's
first `get_and_clear_errors()`: they say how much of the sentences that
`uart_lost_count` and `uart_intact` refute is left when the handler alone reads
the error flags. `MaxErrorCalls` is 1 in `uart_rx`, so both halves occur.

*Fairness.* `Uart!FairSpec`: weak fairness of main's next step within a call
(the processor executes what it began; it is disabled while a handler runs), of
the handler, of the shift register and of the tick. Nothing obliges main to
call, or the far end to send. Weak fairness of main alone would not do if
handlers could follow each other without end; that they do not is `NoStorm`.
`Board!FairSpec`: weak fairness of each USART's interrupt, and strong fairness of
what main has begun, but only of its steps while no interrupt is pending: a
request that never goes low starves main. Strong, because frames may follow each
other for ever and interrupt main again and again; that main gets its turn
between them is the assumption that a handler is short against a frame. So what
`MainComesBack` shows is that the waits of `rcc_init()` are bounded (neither
crystal nor PLL need ever come up) and that each request is cleared by the
handler it reaches, after takeovers and before `initialized_` is set too: a
handler that leaves DR unread for an object still in `init()` violates it. It
holds on a line that is quiet until the registration, and says so; without
`QuietInit` it is false, for the reason `uart_init_storm` shows: the handler
that finds no object clears nothing.
`Demo!Spec`: weak fairness of main, of the transmitter and of the tick; no byte
need arrive.

## 4. The proofs

Proved by TLAPS for every value of the constants. The assumptions are the named
ones of the modules (`NAssumption`, `UartAssumption`, `PollsAssumption`,
`BoardAssumption`, `LineAssumption`, `DemoAssumption`, which TLC also evaluates)
and, where a theorem states one, a condition on the program that uses the driver.

| Theorem | Says |
|---|---|
| `RingBuffer_proofs!TypeCorrect` | indices and locals stay in range |
| `RingBuffer_proofs!SlotsAreOwned` | no slot is in use by both contexts |
| `RingBuffer_proofs!RingIsFifo` | `Spec` implements `BoundedFifo` |
| `Uart_proofs!UartTypeCorrect` | types; rings within N-1 |
| `UartSafety_proofs!KickIsNeverLost` | `NoLostKick` |
| `UartSafety_proofs!BytesAreSentInOrder` | `TxInOrder` |
| `UartSafety_proofs!FlushedIsSent` | `FlushMeansSent` |
| `UartSafety_proofs!WaitsAreNotCutShort` | `TimeoutNotEarly` |
| `UartSafety_proofs!FramesAreConserved` | `RxConserved` |
| `UartPort_proofs!FramesKeepOrder` | `RxInOrder` |
| `UartPort_proofs!ReceiverNeverCorrupt` | `NoCorruptDelivered`, if the program never calls `send()` (`ReceiveOnly`) |
| `UartPort_proofs!HandlerCountsEveryLoss` | `HandlerAccounts` |
| `UartPort_proofs!IntactLostOnlyToOverrun` | `IntactLostAfterOverrun` |
| `UartPort_proofs!UartImplementsPort` | `Uart` implements `SerialPort` |
| `BoardSafety_proofs!BoardTypes` | types |
| `BoardSafety_proofs!LimitsKept` | `ClockLimits` |
| `BoardSafety_proofs!ClockKnown` | `MainKnowsClock` |
| `BoardSafety_proofs!BaudRight` | `BaudIsRight`, for every rate |
| `BoardSafety_proofs!TickRight` | `TickIsOneMs` |
| `BoardSafety_proofs!NothingHangs` | `NoHang`, if no object is on USART6 (`NoUsart6`) |
| `BoardSafety_proofs!PinsKept` | `OtherPinsUntouched` |
| `BoardSafety_proofs!InitializedSetUp` | `InitializedIsSetUp` |
| `BoardSafety_proofs!OnlyTakeoverStrands` | `StrandedOnlyByTakeover` |
| `Demo_proofs!ReaderTypesKept` | types of `LineReader` |
| `Demo_proofs!LineInBounds` | `InBounds`, for every size of the buffer |
| `Demo_proofs!NeverEarly` | `LineNotEarly` |
| `Demo_proofs!NeverLate` | `LineNotLate`, if every time-out and 3 `Slack` fit the counter (`TimeOutsFit`) |
| `Demo_proofs!StatsRight` | `StatsOfTheMoment` |
| `DemoEcho_proofs!LineRight` | `LineIsWhatWasTaken` |
| `DemoEcho_proofs!DemoTypes` | types of `Demo` |
| `DemoEcho_proofs!EchoRight` | `EchoIsFaithful` |

*The ring.* `SlotOwnership` is not inductive: it says nothing of what the locals
mean. The invariant `IInv` adds that between its first load and its last store
the producer's `h` equals `head_`, that once past the test the ring is not full
(the consumer can only make more room), and the mirror image for the consumer,
including the state in which the slot is read after it was given back. With it,
the refinement is one case per action: the content between the indices grows by
the written slot when `head_` moves and loses its first element when `tail_`
moves, every other step stutters.

*The driver.* `NoLostKick` needs nothing but types: bytes enter the ring only
with a kick to follow, and TXEIE goes off only on an empty ring, in a handler
that main cannot interrupt. `TxInOrder` needs to know that DR is empty when the
handler writes it: the SR snapshot of `irq_handler()` is still true then,
because only the handler fills DR. That is `Decided`, which also says that RXNE is
still set when the receive branch reads DR. `FlushMeansSent` is not inductive:
`Draining` carries what `flush_tx()` has seen (the ring stays empty while main
waits) and `TcMeansSent` what TC means (low from the write of DR to the last
bit, also while a byte moves from DR to the shift register); at the TC test no
handler runs, so no byte is on its way either. `TimeoutNotEarly` needs
`TicksWaited`: the unsigned difference of two ticks is the time between them,
as long as that time is less than a turn; lemma `OneTick` is that arithmetic,
for every modulus. `RxConserved` needs `Decided` for the receive branch.

*The port.* `RxInOrder` follows from `RxAhead`: the register is newer than all
that was delivered and the line newer still; a step either delivers nothing,
takes the register into the ring, or moves a byte from ring to caller.
`CleanSoFar` says why a program that only receives is safe from the fault of
section 5: with TXEIE off the handler is entered for a frame in the register,
whose flags its first look at SR shows.

*The error counters.* `HandlerOnly` holds until main's first
`get_and_clear_errors()`. `CountedFirst` says that the frame about to be discarded
is in a counter before it is counted as cleared. `FaultsGoWithByte` holds until
the first overrun is counted: FE or NE stands only while the byte it came with
is in the register, and the handler has seen the flag whenever it is about to read
that byte, so the read takes both away. With an overrun this ends: ORE condemns
the byte in the register for a frame that never reached it.

*The refinement.* `Queued` turns `TxInOrder` round: what is on its way out is exactly the ordinals after those
sent up to those accepted, so it is a function of two numbers, and the three
kinds of step (`TxSteps`: nothing, a byte accepted, a byte sent) are steps of the
queue or leave it alone. `OneSides` says that a step moves one of the two
directions at most.

*The board.* `RccInv` says how far the registers have come at each label of
`rcc_init()`: the PLL is only ever on with HSE ready, its factors set, the wait
states and the APB1 divider in force; therefore `ClockLimits`, also when the
call gave up half-way and is repeated. `Known` and `BootInv` carry
`SystemCoreClock`: until `.data` is copied it may be anything and the clock is
the HSI, from then on it names the clock in use. `RateInv` adds that once an
object is being initialised the clock stays, so that divisor and SysTick period,
computed from it, stay right. `BrrIsNearest` and `BrrIsClose` are the
arithmetic: rounding is off by at most half a divisor step, which is under 2% if
the divisor is 25 or more.

*Objects and registers.* `InitializedIsSetUp` is true between calls and false
within most of them. `SetUpInv` follows `init()` step by step: `Progress` says
which of its clocks, pins and registers stand at each label, `Registered` that a
USART in the dispatch table keeps them, although `init()` of another object
changes the same registers (no two USARTs share a pin, clock bits are only set)
or sets the USART up anew for the object that takes it over, and `Pending` that an
object with bytes in its ring has TXEIE on as long as it is the one in the table.
`RateInv` supplies that the table names initialised objects only.

*The demo.* `RoomKept` is the buffer argument: within the loop `max_len` is at
least 1, so its subtraction does not wrap (`RoomIs`). `TimeLeft` says that what
`receive()` is given plus the tick it begins at is never less than the end of the
call's time, whatever wraps; `TicksBetween` is the unsigned arithmetic that
makes it so: the difference of two readings never exceeds the ticks between
them. For the other direction, `NeverLong` bounds at each label how many ticks
can have passed, and is where `TimeOutsFit` is needed: a call of 2^32 - 1
milliseconds may see the counter go round between two looks and wait another turn.
`CopiesBetween` says that the counters of `get_stats()` lie between those of two
moments, each on its own.

*Lines and echoes.* These properties compute something from a whole stream (`Text`,
`EchoOf`), so their proofs need induction over sequences. The library's induction
rule takes an operator as its parameter, which the provers cannot instantiate;
`AllNumbers` is the rule for a set of numbers instead, proved from least elements
(`LeastNumber`, by way of the well-foundedness of finite sets under inclusion).
`Fold` is a recursive function; `FoldIs`, `FoldEmpty` and `FoldAppend` say that
it is defined for every sequence and what one more element does to it, and
everything else uses those alone. `LineInv` is then one step per byte: the line
is the text of what the call has taken. `HeardSoFar` carries it to the stream of
the whole run: what was heard and what is being taken amount to the echoes due
so far and the line begun. `SaidSoFar` says that what went into the transmit ring
and what waits in `say` are exactly those echoes, or else that statistics are
being sent, which are no part of an echo. `Counted` bounds the lines by the
bytes that came, which the type of `line_count` needs.

*Model-checked only.* Every invariant of a passing run, and both refinements, are
theorems; `NoCorruptDelivered`, `NoHang` and `LineNotLate` under the conditions the
table names. What stays with TLC is liveness, which like ENABLED is out of the
prover's reach (`CallsReturn`, `AcceptedIsSent`, `NoStorm`, `MainComesBack`,
`RegisteredDrains`, `EveryByteRead`), and the violations.

## 5. Where code and documentation part

1. **`volatile` is not on the slots** (`ring_late_push`). `ring_buffer.hpp:15-19`
   derives from the volatile indices that no barrier is needed. `buf_` (line 36) is
   not volatile: a compiler may store `head_` before the slot, and an
   interrupt in between pops a byte that was never written. Compilers at hand
   keep this order for these lines, though they do move other plain stores past
   the volatile one; nothing in the source obliges them.
2. **A corrupt byte is delivered** (`uart_corrupt`). The handler takes the error
   flags from one read of SR (`uart.cpp:350`) and RXNE from another (`:378`). A
   frame with FE that arrives between them, while the handler serves TXE, is pushed
   as good, and its flags vanish uncounted with the DR read.
3. **An intact byte is discarded** (`uart_intact`). On overrun DR still holds the
   earlier, intact byte; `uart.cpp:363` throws it away as "the corrupt byte".
   That an overrun was counted first is `IntactLostAfterOverrun`.
4. **A counter update is lost** (`uart_lost_count`). `get_and_clear_errors()` is
   public; called from main, its `++` races with the handler's, and its DR
   read discards whatever has arrived since the SR read. `uart.hpp:28-29` says
   counters are written in the handler only (`bytes_sent` and
   `tx_buffer_overflows` are not, either). Until main makes the call no count is
   lost: `HandlerAccounts`.
5. **A byte during `init()` hangs the program** (`uart_init_storm`). RXNEIE and
   the NVIC line are on before the object is in the dispatch table
   (`uart.cpp:239-245`); the handler that "does nothing" leaves RXNE set and is
   re-entered at once, for ever. The liveness properties of `uart_live` and
   `board` therefore assume `QuietInit`.
6. **USART6 has no vector** (`board_usart6`). Its interrupt is 71
   (`uart.hpp:17`, `stm32f401xe.h:128`); `vector_table` has the handler at 67
   (`startup.cpp:230`) and a null entry at 71 (`:234`). The first interrupt ends
   in the hard-fault handler's loop.

Smaller things the modelling met, which the properties exempt or no document
speaks of:

- `rcc_init()` that gives up in its last wait leaves SW=PLL. The switch may
  complete later, with `SystemCoreClock` still 16 MHz; `rcc.hpp:23-24` lets the
  caller go on with the HSI. The properties exempt `gaveUp = "sws"`.
- A second `init()` returns true; `uart.hpp:119-121` says false.
- 1200 baud on an 84 MHz bus needs a divisor beyond 16 bits; `init()` truncates
  it and returns true. 921600 baud on 16 MHz is 2.1% off, where `uart.hpp` asks
  for less than 2%. `Representable` excludes both.
- A second object on a USART takes it over; what the first still holds, or
  accepts later, is not sent. `StrandedOnlyByTakeover` says this is the only case.
- "Maximum total wait" (`uart.hpp:187`) is exceeded by the ticks between the
  looks of lines 322 and 297, at most `Slack` each; `LineNotLate` allows for that.
- "Always null-terminated" is not so for `max_len` 0, where nothing is written.
- main prints "[timeout...]" for a line that is too long as well, and prints the
  statistics again after every time-out while `line_count` is a multiple of 100.
- `_write()` returns `len` whatever `send()` has taken.

## 6. Not modelled

- `reset_stats()`: no code of the repository but a test calls it. Its seven
  stores of zero can each be cut by the handler; a count between a `get_stats()`
  and it is in neither.
- The width of received data with parity (M=0 leaves seven bits) and SR.PE, which
  the driver never reads: frames have FE and NE only.
- The system calls other than `_write()`: the toolchain's stubs, not in the repository.
- In `Board`, what becomes of received bytes; a frame there is a request.
- Linker script and build files: `Board` takes it that the sections are where
  `Reset_Handler` expects them and that the static constructors run. (The script
  collects `.init_array` but defines none of the `__init_array_start` and
  `__init_array_end` that newlib's `__libc_init_array()` reads.)
- The vendored CMSIS headers: register layouts and intrinsics, over nine tenths
  of the repository's lines of C and C++. What the driver uses of them is in `Usart`, `Rcc`
  and `Board`, mapped to the types it stands for; the rest has no
  behaviour to model.
- The host tests: single-threaded, read as statements of intent.

Worth doing next, were the project to go on: the several handlers of `Board`
access by access, as `Uart` has one of them; and `reset_stats()`, should the
program come to call it.
