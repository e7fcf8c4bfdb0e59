# T500 arm firmware: TLA+ models and proofs

The repository is the firmware of a robot arm on an STM32F446: four stepper
motors driven by timer interrupts, and an Ethernet interface (an ENC28J60 on
SPI) over which a host discovers the arm and commands the motors with UDP
packets.  There is no operating system.  `main` initialises everything and then
calls `manager_poll` for ever; everything else happens in interrupt handlers.

This directory models the parts in which these two meet.  TLC checks every
property on small instances; TLAPS proves most of the safety properties for all
values of the constants.  `PROJECT.json` lists the runs, the lines of source
behind every definition, the findings, the hazards and the theorems.

## How the program runs

One core, two levels:

* **thread mode** ("main"): `main` -> `manager_poll` -> packet handlers ->
  `stepper_*`, `enc28j60_*`;
* **interrupt handlers**: `TIM2/3/4_IRQHandler` (one `STEPPER_ISR` per motor)
  and `EXTI0_IRQHandler` (the interrupt pin of the ENC28J60).

No handler is given a priority (`NVIC_ISER` is all that is written), so all have
the same one and none preempts another.  Nothing in the program masks
interrupts, so a handler may run between any two instructions of thread mode,
and thread mode executes only when no enabled interrupt is pending.  These two
facts are the concurrency model of every module here: an action of main is the
code between two accesses to state that a handler shares, a handler's action is
guarded by what the handler tests, and actions of main carry the guard
`MainRuns`.

The memory accesses are those of the program as it is built: fields of
`stepper_t` are not volatile, the Debug configuration of `.cproject` compiles
without optimisation and the Release configuration with `-Os`.  Both turn the
assignment of a bit-field into a load, a change and a store of its byte, and
`|=` on a GPIO register into the same on its word.

## Inventory

| component | state | operations | meets others through |
|---|---|---|---|
| stepper driver (`stepper.c`, `stepper.h`, `main.c`) | per motor: position, direction, current operation, flag byte; `GPIOB_ODR`; timers | `stepper_init`, `_enable`, `_disable`, `_set_dir`, `_simple_move`, `STEPPER_ISR` | the flag byte, `cop` and `GPIOB_ODR` are written by main and by the handlers |
| control requests (`main.c`, `control.c`) | none | STATUS, ENABLE, DISABLE, MOVE_TO, MOTOR_INFO | calls the stepper driver, reads its state, writes a reply |
| receive FIFOs (`enc28j60.c`) | two rings of bytes | write in the handler, read in main | ring memory and its two pointers |
| reception (`enc28j60.c`, `manager.c`) | the chip's buffer, flags and interrupt pin; EXTI; the watchdog's counts | `EXTI0_IRQHandler`, `manager_poll`, `enc28j60_init` | edge-triggered interrupt, FIFOs |
| chip configuration (`enc28j60.c`, `enc28j60_registers.h`) | four banks of registers, the PHY behind them | `enc28j60_init`, `manager_init`, `phy_read`, `phy_write` | the same registers and the bank selection, used by main and handler |
| step timing and delays (`stepper.h`, `delay.c`) | TIM_CNT, TIM_ARR, TIM_PSC, UIF of each timer | `STEPPER_ISR`, `delay_us` | handlers are served late while others run |
| transmission (`enc28j60.c`) | ECON1 (bank and TXRTS), ETXST, ETXND, EWRPT, the transmit buffer | `enc28j60_write`, `enc28j60_bank_select`, `enc28j60_packet_count` | registers of the chip, which the handler uses too |
| SPI transfers (`enc28j60.c`) | chip select, bytes on the bus | `wcr`, `rcr`, `bfs`, `bfc`, `rbm`, `wbm` | shared by main and handler |
| packet contents (`manager.c`, `packet-builder.c`, `checksum.c`, `icmp.c`, `udp.c`, `ip.c`) | `read_buffer`, `write_buffer` | ARP, ICMP echo, discovery and control replies | called by `manager_poll` |
| boot (`clock_init.c`, `uart.c`, `servo.c`) | peripheral registers | run once | - |
| unused (`bootp.c`, `dns.c`, `tcp.h`) | none | no caller | - |

What is hard here is concurrency without locks: read-modify-writes torn by
handlers (flag byte, `GPIOB_ODR`, `ECON1`), an edge-triggered interrupt that must
find its line high again, buffers that fill up during bursts, a bank register
that both levels switch; and arithmetic at its edges: ramps of short and odd
distances, `uint16_t` speeds, `int32_t` distances, ring pointers.

What makes each component correct:

* stepper driver: every accepted move ends at its target (or the even step
  behind it), with symmetric ramps within the limits the arm reports, the DIR pin
  agreeing with the counted direction, no move taken over by another, and the
  motor ready again afterwards;
* FIFOs: packets come out whole, in order, each one once; one is refused only
  for want of room;
* reception: no packet waits in the chip unnoticed; if it does the watchdog
  recovers; a flood of one kind does not starve the other;
* transmission: what is sent is the packet that was written, it is not touched
  or called off while it is sent, and main's wait ends;
* SPI transfers: one that is not interrupted is exact in both directions, the tail
  of one that is reaches nobody, and no wait for a byte lasts for ever;
* chip configuration: from the moment the chip may interrupt it is configured as
  `enc28j60_init` means it, and no access that reaches the wrong bank changes that;
  boot and resets end;
* step timing: a motor keeps its speed though its period is changed under a
  running counter, and delays last;
* STATUS: a reply describes one motion, and a motor reported at rest rests there;
* packet contents: main does exactly what a request asks for, the lengths and
  checksums of a reply agree with its bytes, no reply carries bytes of another,
  and any valid checksum is accepted.

## Modules

| module | models | see |
|---|---|---|
| `Stepper` | driver, timer handlers and the requests that call it | below |
| `Motion` | abstract: a motor accepts a target and runs to it | |
| `StepperMotion` | `Stepper` implements `Motion` (refinement mapping) | |
| `StepperInvariant` | the inductive invariant, in four parts, and one more for polite hosts | |
| `StepperStatus` | STATUS requests on top of `Stepper` | below |
| `StepperProofs` | theorems about the two, and about `Timers` | |
| `Timers` | a motor's timer, and TIM1 with `delay_us` | below |
| `PacketFifo` | a receive FIFO, byte by byte | |
| `PacketQueue` | abstract: a queue of packets | |
| `PacketFifoProofs` | its theorems, the refinement among them | |
| `EthReceive` | chip, EXTI0, handler, poll, watchdog | |
| `EthReceiveProofs` | its theorems | |
| `EthTransmit` | `enc28j60_write`, bank switching and the watchdog's reset, register by register | |
| `EthTransmitProofs` | its theorems | |
| `EthInit` | `enc28j60_init`, the LED modes, PHY accesses; where every store lands | below |
| `EthInitProofs` | its theorem | |
| `SpiBus` | chip select and SPI1, byte by byte, shared by main and the handler | below |
| `SpiBusProofs` | its theorems | |
| `Checksum` | the three internet checksums, sent and received | |
| `ChecksumProofs` | its theorems | |
| `Replies` | what main does with a packet: checks, arguments, dispatch, replies | |
| `RepliesProofs` | its theorems | |
| `MC*` | constants for TLC | |

A definition `Name_X` is `Name` with a plausible mistake `X` in it.  No
specification uses it; put in the place of `Name` it makes a run fail, which
shows that the run's properties depend on that line of code.

### Stepper

The four motors are `Motors`; a motor's `stepper_t` is `position[m]`,
`current_dir[m]`, `cop[m]` and `flags[m]`, the byte of bit-fields as the set of
its bits (`auto_enable_disable` never changes and is the constant
`AutoMotors`).  `odr` is `GPIOB_ODR`, shared by all motors; `cen` and `uif` are
the timers' CEN and UIF bits.  `pc`, `req`, `byte` and `word` are main: where
it is, the request it executes, and the copies of a flag byte and of
`GPIOB_ODR` it has loaded and not yet stored.

`stepper_simple_move` is five actions, cut where it shares state with a
handler: `MoveBusy`/`MoveClaim` (test and set of `stepper_moving`, distance and
direction, load of ODR), `MovePlan` (store of ODR, rounding, ramps),
`StoreEnabled` and `StoreMf` (`stepper_enable` for AUTO motors; the same two
actions are ENABLE and DISABLE), `MoveStart`.  The test and the set of
`stepper_moving` share a load: once the test has found it clear, no handler of
this motor changes the byte until the timer is started.  `STEPPER_ISR` is
`IsrStop` or `IsrStep`, atomic as no handler is interrupted.

Time is abstracted: `Overflow` may happen whenever the timer runs.
`TimerMotors` are the motors whose timer is clocked and has a handler;
`stepper3` is not one of them.

A request may name any `int32_t` (main.c:234-250 looks at none).  The distance is
computed in `int32_t` and stored in a `uint32_t`; where the subtraction overflows,
which C leaves undefined, the model takes the value that a build that wraps leaves,
the true distance.  `RoundUp` and `Stepped` wrap at 2^32 and at the ends of
`int32_t`: the distance from one end to the other rounds up to no step at all, and
an odd distance to an end leads one step behind it, that is to the other end.
`LandsNearTarget` says so (`WrappedAround`), and holds for every target.  The
refinement of `Motion` and the STATUS replies, whose positions are plain integers,
are proved for requests that name neither end of the range (`InnerTargets`).

Properties: `RunningImpliesMoving`, `LandsNearTarget`, `SymmetricRamp`,
`PinsMatch`, `PlanIsFixed`, `AutoPoweredWhileRunning`, and the
refinement `ImplementsMotion`/`CompletesMotion`.

### StepperStatus

Extends `Stepper` with the STATUS request.  `asked` is the motor, `todo` the
fields not yet read, `reply` what has been read.  The fields are not volatile, so
`Read` takes them in any order; handlers run between the reads.  `inOrder` is
history: the order of the source, MOVING before speed and position, which is the
one `RestIsExact` needs.  `StatusExact` says what a host may conclude: position
and target belong to one motion, a speed is one of that motion, a motor reported
at rest stands where the reply says.  It may not conclude that ENABLED of an AUTO
motor still holds, nor that speed and position are of the same moment.

### Timers

`mcnt`, `marr`, `mcen`, `muif` are the registers of a motor's timer, `d...` those of
TIM1 in one-pulse mode.  `Tick` is a tick of the divided clock; the handler
(`ServedStep`, `ServedStop`) is served up to `MaxLate` ticks late, since all handlers
have one priority.  It sets any period: which one is `Stepper`'s concern.
`loaded` is whether TIM_PSC has taken effect, at the first update, as the comment
at servo.c:43-46 says of such registers; until then the counter runs undivided
(`FastCount`, `FastCountOnce`).  `gap`, `late`, `prev`, `timed`, `elapsed` and
`exact` are history.  `Overflows` is what `Stepper` assumes by its fairness.

### PacketFifo

`enc28j60_fifo_write_packet` runs in the handler and is one action
(`WritePacket` or `DropPacket`); `enc28j60_fifo_read_packet` runs in main and is
an action per byte, since the handler may run in between.  `pending` is a
history variable, the queue the ring stands for.  `RingHoldsStream` says that
what main has taken of the packet it reads, followed by what the ring holds, is
the encoding of `pending`, byte by byte.

### EthReceive

`rx` is the chip's receive buffer as a sequence of kinds: `"ip"` and `"arp"` are
packets for us, `"foreign"` ones at which the handler returns early
(enc28j60.c:156, 164, 179, 185), `"other"` those of other types.  `flags` is EIR
without PKTIF; `Asserted` is the level of the interrupt pin and `Edge` the EXTI
flip-flop: every action that changes the level sets `pending` on a falling edge
and on nothing else.  The handler is `Enter`, `ReadEir`, `ClearEvent`,
`ReadPacket`, `NoMorePackets`, `Finish`, so packets and events can arrive
between any two of its register accesses.  Main is `manager_poll`: the watchdog
(`Poll`, `SelectBank`, `ReadCount`, `Check`, then the actions of `enc28j60_init`), and
the two read loops with their budget.  A FIFO is its number of packets here.  `bank1`
is the one bit of ECON1 that matters to main's own count: a handler that returns early
between `SelectBank` and `ReadCount` leaves bank 0, and main reads 0.

`HandlerInside` is a handler that begins inside an access of main (see below): it may
take any number of packets or none, clear events or none, put anything in RXEN and
INTIE, and main's count may be any byte.  `Hang` is one that never leaves its packet
loop, since the byte it takes for EPKTCNT stays the same.  After either, `torn` is
true until the chip is reset.  `DeafHasCause` and `ResetsOnlyWhenDeaf` name `torn` as a
cause of its own; `Recovers` does not: whatever made a chip that holds packets deaf,
the watchdog gets it out.  A handler that hangs is no stall in this sense, as main does
not run any more; `ServesBoth` holds unless one does.

That LINKIF can be cleared in EIR is taken from the code, which clears it with
`enc28j60_bfc`.

### Handlers inside an access

No access to the chip is atomic: `SpiBus` has it byte by byte, with a handler that
begins anywhere in it.  What follows from that for the registers is in `EthReceive`,
`EthTransmit` and `EthInit`, which have two kinds of handler.  One begins between two
accesses of main and does what the code says.  The other, `HandlerInside`, begins inside
an access, in one of three ways:

* between two bytes of main: its first byte, 0x1C (`rcr` of EIR), is taken for main's
  data, in ECON1 it sets TXRTS, in ERXFCON it replaces the filters (`Overheard` in
  `EthInit`);
* while a byte of main is under way: it takes that byte for its own answer and reads
  every register one byte late, EIR, EPKTCNT and the ECON1 that its `bank_select` then
  stores;
* between any of main's tests, writes and reads of SPI1: a byte of main or of the handler
  is cut when chip select changes under it.

In all three nobody hears the rest of main's access, as the handler has raised chip
select (`TailIsUnheard` of `SpiBus`).

What the chip holds afterwards is left open: `txrts`, `rxen`, `bank` take any value,
pointers, buffer and registers keep theirs or become what a constant `Junk` says, which
the proofs leave arbitrary and the runs fill with values main never writes.
A byte main was to read is junk, and main goes on.  `torn` is history:
such a handler has begun since the last reset of the chip.

So the properties of these modules say two things.  Until a handler begins inside an
access of main, and again from the next reset on, the registers are safe: that is what
`~torn` means in them.  And a reset does repair what was left, in every register that is
compared.  Nothing is claimed of transmission and configuration in between, because
nothing holds there: a frame may be sent half programmed, a transmission be called off,
the filters be wrong, and main may wait for ever.  The typical place is
`enc28j60_write`, which spends its time in `wbm` while packets arrive.

### EthTransmit

One access to a register of the chip, of one byte or of a pair, is one step.
`bank` and `txrts` are ECON1; a register of bank 0 that is accessed while
another bank is selected is not changed, and reads as anything.  The handler is
reduced to what matters to main: which bank it leaves and the
read-modify-writes of ECON1 it makes.  `clean`, `committed` and `intact` are
history: whether a handler ran since the write began, the packet whose
transmission main started last, and whether that write was clean.  After
`enc28j60_packet_count` the watchdog may reset the chip (`Reset`), in the middle of
a transmission too; `FiltersStore` is the one `bank_select` of `enc28j60_init` a
handler can interrupt.  How the two watchdog counts decide is in `EthReceive`.
`Order` lists which access follows which; `HandlerInside` takes main from one to the
next whatever the chip has heard, for the reset too, which then has not happened.

### EthInit

The driver's functions are sequences of accesses, and `Program` what main runs:
`enc28j60_init`, the rest of `manager_init`, then packet counts, answers and resets
by the watchdog.  `regs` maps a bank and an address to the bits that are 1, with
the addresses of `enc28j60_registers.h`: an access of main reaches the register at
its address in the bank that is selected, which is another one after a handler.
`mii` is the transaction between MAC and PHY under way.  The handler between two
accesses (`Handler`) is one step; it leaves bank 1 or 0, may move ERXRDPT and may use
the PHY.  PHSTAT2, which only the handler reads, is not kept: reading it gives link up
or link down (`LinkStatus`).  The handler inside an access is `HandlerInside`.
`ConfigKept` compares the chip with what `enc28j60_init` means to store, whenever
interrupts are enabled and no handler has begun inside an access since the last reset.
What such a handler left in the PHY a reset may leave there; `phy_init` sets full
duplex again all the same, and `ConfigKept` compares that bit alone of PHCON1.  `ProgramsEnd` holds by a coincidence worth knowing: a
handler in the wait for MISTAT.BUSY makes main poll ERXNDL instead, whose bit 0 is
that of `rx_buff_end`, 6688; with an odd one main could hang (`rx_init_Odd`).

Not claimed, because it does not hold: that the LED modes survive.  A handler with
a link event inside `enc28j60_ledb_mode` makes main compute PHLCON from PHSTAT2 or
lose its write, and after a reset by the watchdog nobody sets the modes again.

### SpiBus

`tx`, `shift`, `dr`, `rxne` and `ovr` are SPI1, which the program sets to full
duplex master; `cs` is PA8, `cmd` what the chip has received since it was
selected.  A byte is named by who sent it and where it stood in its transfer, and
a byte that comes in by the byte that went out meanwhile.  Main's transfer is cut
between every access to SPI1 (`Select`, `TestTxe`, `WriteByte`, `TestRxne`,
`ReadByte`, `Deselect`); the handler is a series of transfers that begins anywhere
in it.

Two facts about time are assumed.  A byte takes 64 cycles of the processor (PCLK2
is HCLK / 2, the divisor 4): a handler fetches a byte before the next is through
(`Fetching`); and the NOPs of the last `enc28j60_spi_deselect`, the rest of the
handler and the return from it last longer than a byte (`Return`).  The second
holds for the Debug configuration with room to spare; with `-Os` it is close.
Without it main can read the data register before the handler's last byte is in,
stays one byte behind, loses the next in an overrun and waits for RXNE for ever.

### Checksum

`d` is a datagram, `buf` the memory it stands in, with what was there before
behind it.  `Send` clears what the reply functions clear and then adds word after
word (`AddWord`) as `ip_calc_cs`, `icmp_calc_cs` and `udp_calc_cs` do, in the byte
order of the processor, over the lengths they use; `Store` puts the complement in
place.  `Receive` takes a datagram with a valid checksum of either form of zero,
possibly with one byte changed, and `Judge` decides as `manager.c` does.
`PeerAccepts` is the reference definition: all words in network order add up to a
multiple of 0xFFFF.  `total` and `carries` are history.

### Replies

A packet is a record of what the checks look at.  `Take` copies it over what
earlier packets have left in `read_buffer` (`args`), of which any part may stand
behind its END (`Behind`).  A request may have no argument: the loop then takes END for
one and goes on behind it, with what earlier packets have left (main.c:129-134,
control.c:46-52).  `DoesAsAsked` says what is left of a request's meaning in that case:
the operation is the one asked for, on a motor there is, or there is none.
`ParseArgument` is one round
of the `do`-`while` over the arguments, `Refuse` and `Command` the dispatch,
`Status`, `Build`, `Payload`, `Lengths`, `UdpSum`, `IpSum`, `IcmpSum` and
`enc28j60_write` the reply, in the order it is built.  `write_buffer` is two sets
of offsets: written for this reply (`fresh`), or left by an earlier one (`stale`).
A checksum enters `right` when it is computed over bytes none of which is stale
and stays there while nothing under it is written.

## Runs

| run | instance | properties | states |
|---|---|---|---|
| `stepper_races` | an AUTO and a MANUAL motor, all requests, targets at the ends of -4..3 and inside | types, five safety properties, `PlanIsFixed` | 412 000 |
| `stepper_polite` | the same motors with STATUS requests, a host that leaves ENABLE/DISABLE of the AUTO motor alone | `AutoPoweredWhileRunning`, `StatusExact`, refinement with liveness | 1.1 million |
| `timers` | three periods, a range of 9 counts, delays of 1 and 4, handlers up to 6 ticks late | `StepsInTime`, `DelayLasts`, `Overflows` | 9 000 |
| `packet_fifo` | ring of 8 slots, packets of 1, 2, 3 and 6 bytes, bytes of three values | types, stream, refusal, refinement with delivery | 2 000 |
| `eth_watchdog` | packets of all four kinds, link events, handlers inside accesses, chip 2, FIFO 1 | `DeafHasCause`, `ResetsOnlyWhenDeaf`, `Recovers`, `ServesBoth` | 682 000 |
| `eth_transmit` | buffer of 4 bytes, packets of 1 and 2 bytes, three bank switches of handlers per write, between accesses and inside them, resets | the sent packet, stability, no transmission called off, the wait | 1.9 million |
| `eth_init` | `manager.c`'s configuration, two runs of the handler, between accesses and inside them | `ConfigKept`, `ProgramsEnd` | 1.1 million |
| `spi_bus` | transfers of 1, 2 and 3 bytes, two handlers of up to two transfers each | types, `RestsBetween`, `AloneIsExact`, `TailIsUnheard`, `WaitEnds` | 27 000 |
| `checksum` | bytes of four values, IP headers, echoes of 0-2 and UDP messages of 0, 1 and 3 bytes | `SumIsResidue`, `PeersAccept`, `VerdictRight` | 374 000 |
| `replies` | two motors, packets of every kind, good and bad, none to three arguments, END first included | `ChecksumsRight`, `LengthsAgree`, `NothingStale`, `DoesAsAsked` | 20 000 |
| `bad_*` | the instance in which the finding shows | one statement of a comment each | |

Where the types are proved, the runs leave them out.

Why the bounds are enough:

* *Steppers.*  Two motors are what a race takes: one main works on and one that
  a handler stops.  They differ in mode and in ramps (2 steps and 1 step), and the
  distances give motions with no plateau, with one, with ramps cut off, even and
  odd, both ways.  `INT32_MAX = 3` makes a range of eight positions: motor `m` goes
  from end to end, over distances that overflow, that round up to none, and behind
  either end; motor `a` over those its longer ramp needs.  In `stepper_polite`
  `INT32_MAX = 8` keeps the targets off the ends, as the refinement needs it.
* *Timers.*  The periods lie below, at and above the lateness of a handler, so the
  counter is met before, at and behind a lowered TIM_ARR, and `StepMax` makes it
  run round; the delays end at once and after several ticks.
* *FIFO.*  Every packet wraps around somewhere, the packets of three bytes need a
  high length byte that is not zero, the ring fills up to its last slot and the
  packet of six bytes never fits together with another.
* *Reception.*  `Burst` bounds how much arrives between two steps of main: an
  unbounded burst keeps the handler running for ever and main from running at
  all, on the hardware as in the model.  Two is enough to
  overrun the chip and the FIFOs of the instance.  `MaxReads = CheckEvery = 1`
  reach both exits of every loop.  One event is enough for the two of which one stays:
  the other is RXERIF, which the chip raises itself.  `Garbled` is what a handler inside
  an access finds when it reads at a wrong place: a packet that is not for us, which
  stalls reception again.
* *Transmission.*  `Handlers` bounds the bank switches of handlers during one
  call, so that main makes progress; with three a handler counts, reads a packet
  and counts again, as it does when it empties the chip, or returns early and
  runs a second time.  A handler inside an access makes two, so one of each kind fits
  into a call, in either order, and others into the calls after it.
* *Configuration.*  `Runs` bounds the handler's runs in a behaviour: what a run
  leaves for main is the selected bank and MIREGADR, MICMD, MIWR, and a second run
  can meet main's next access to the PHY in the state the first left it in.  Two
  cover a handler inside an access in any reset and another one behind the repair.
* *SPI.*  One, two and three bytes are the shortest transfers that have a first, a
  last and an inner byte.  A handler of two transfers enters both with main's chip
  select low and with its own high; two handlers give one that begins where another
  has just ended, in the same wait or the same transfer.
* *Checksums.*  `ByteBase = 4` makes 0xFFFF 15, so that sums of a few words carry,
  meet both forms of zero exactly and are odd or even; nothing depends on the size
  of a byte, which the proofs leave open.
* *Replies.*  Two motors, a third that does not exist, arguments of all three types
  in every order of two, an unknown type in front of them or none at all, behind them
  nothing, one argument or two of an earlier packet, and after every packet any other,
  so that what one leaves in either buffer meets every kind that follows.

Fairness.  `Stepper`: a running timer overflows, a pending interrupt is served,
and main executes what it has begun; handlers are far shorter than the shortest
timer period, so they leave main time, and the host owes no request.
`PacketFifo`: main polls for ever.  `EthReceive`: a pending or running handler
goes on, main never waits; nothing is assumed of the network.  `Timers`: ticks go
by and a pending handler is served.  `EthInit`: main goes on, the oscillator starts,
the MAC finishes a transaction; the handler and the link owe nothing.  `EthTransmit`: the
chip finishes a transmission unless its registers are torn, a handler ends, main
finishes a call.  `SpiBus`: the
SPI clock runs, a handler goes on, main goes on when none runs; `Handlers` bounds
the handlers per transfer, as the handler needs a new edge each time.  All of it
is weak fairness.

## Findings

Two runs show a statement of the sources that the program does not keep:

* `bad_stuck_moving`: ENABLE or DISABLE while the motor finishes stores an
  outdated flag byte; MOVING stays set for ever.
* `bad_final_byte`: a handler inside `enc28j60_write` leaves another bank
  selected, and the end of the frame is computed from the wrong register.

Noted while modelling, without a run of their own: a packet that is not for us ends
the handler with packets left in the chip (enc28j60.c:156, 164, 179, 185), and
reception stalls until the watchdog resets it (the second cause in
`DeafHasCause`); TIM_PSC is not loaded when `enc28j60_init` first calls
`delay_ms(1)` (enc28j60.c:656), so that delay counts an undivided clock and is far
shorter than the 300 us the comment asks for, and the first step of each motor's
first motion comes early (`exact` and `timed` in `Timers`); the DIR pins start at the level
of BACKWARD (stepper.c:30-33); a MOVE_TO to a moving motor is dropped, not kept
waiting (stepper.c:74-75); ENABLE and DISABLE act on AUTO motors
(control.h:32); after an odd distance `target_pos` is one step short of where the
motor rests (stepper.c:77, 96-102); a poll handles up to eleven packets of a kind,
not ten (manager.c:79, 104); `stepper3`'s timer has no clock and no handler, so its
first MOVE_TO is its last; a read-modify-write of `GPIOB_ODR` for one motor can
undo the switching off of an AUTO motor, which then rests powered; of two events
raised at once one stays flagged and keeps the pin low; a request whose first
argument is END is read past its end, as the loop tests after its first round
(control.c:46-52), and may move a motor that an earlier packet named; the distance
between two far positions overflows `int32_t` (stepper.c:87, 92), which C leaves
undefined, the whole range makes a motion of no steps, and a target at either end may
lead the position counter to the other; an ARP reply is 15 bytes too long (manager.c:258); the checksum
of a received UDP packet is not looked at; `ENC28J60_ECON2_AUTOINC` is passed as a
mask without `_BV` (enc28j60.c:874, 931), harmless as a reset sets that bit
(`ConfigKept`); a handler that
begins inside one of main's transfers sends its first command as that transfer's
data and reads all answers one byte late (see *Handlers inside an access*): it can set
or clear TXRTS and RXEN, replace the packet filters, leave packets in the chip, or hang,
until the watchdog resets the chip, and a chip it makes deaf while EPKTCNT is 0 is one
the watchdog never notices (manager.c:66).

## What is proved

All theorems hold for every value of the constants that satisfies the named
assumptions: `MotorAssumption`, `SpeedAssumption` (speeds positive, min <= max),
`RequestAssumption` (targets are `int32_t`s, any of them), `FifoAssumption`,
`ReceiveAssumption`, `TransmitAssumption`, `ConfigAssumption`, `JunkAssumption` (what a
torn handler leaves has the type of a register), `ChecksumAssumption` (a byte has at least two values, buffers
hold the datagram and the eight bytes behind it, an IP header has whole words and a
UDP datagram its own length in it, as `pkt_builder_*` write them),
`RepliesAssumption` (the zeroed part of the buffer holds every reply over UDP and
eight bytes more).

**StepperProofs.**  None of the safety properties is inductive: that a running
motor is marked MOVING, say, depends on the copy of the flag byte main holds.
`IInv` adds what is missing, in four parts, each proved relative to `TypeOK` and
the parts before it: `OwnerInv` (who owns a motor; no copy of a flag byte lacks a
MOVING bit that is set), `PlanInv` (position and remaining steps add up to a
destination at or just behind the target, ramps as computed), `SpeedInv` (the
speed is the one the step number gives), `PinInv` (pins agree, main's copy of ODR
is outdated at most in MF pins of AUTO motors).  From it follow `RunningMarked`,
`LandsThere`, `RampsSymmetric`, `SpeedsInRange`, `PinsRight` and the action property
`PlansFixed`, for all `int32_t` targets, with `WrappedAround` as the one case in which
position and steps do not add up; and `Refinement`: the driver implements `Motion`.  That
has the hypothesis `InnerTargets`, under which no motion touches an end of the range
(`InnerInv`) and nothing wraps.

`PoweredWhileRunning` has a hypothesis, `PoliteHost`: the host sends no ENABLE or
DISABLE for a motor in AUTO mode, as control.h:32 has it.  Without it the property
is false: DISABLE takes the power from a running motor.  Its invariant `PowerInv`
follows the power from `stepper_enable` in `stepper_simple_move` to the start of the
timer, and says of the copy of `GPIOB_ODR` in main's hands that it shows the MF pin
of every AUTO motor that runs, so storing it back takes the power from none.

`StatusReplies`: what main has read of a motion stays true of
it until the reply goes out, because only main starts another one and main is busy.
The invariant relates each field read to the motion under way and uses `IInv` of
`Stepper`.  It has the hypothesis `InnerTargets` too.  `StatusKeepsMotion`: the refinement survives the new requests, which
leave the driver's variables alone.

Of `Timers`, `StepsAreInTime`: the counter is the ticks since the last overflow,
and the handler's lateness is the part of it that belongs to the next period; a
counter above TIM_ARR therefore has a handler later than the new period.
`DelaysLast`: UIF of TIM1 is clear from the start of a delay to its overflow, as
`delay_us` clears it after the counter and the timer has stopped by itself.

**PacketFifoProofs.**  `Pointers`; `RefusalExact`: the loop over `fake_write`,
which walks the ring until it meets `read`, accepts a packet exactly if a slot
stays free; `WriteTakesItsRoom`; `TypeCorrect`.  `RingHoldsStream` is
nearly inductive: `RingInv` adds the types and what the reader's place says of the
queue (a packet is being read only if there is one).  The work is in the lemmas:
that the recursive definition of the stream of a queue unfolds at its end
(`StreamAppends`), where a packet is written, and at its head
(`StreamBeginsWithFirst`), where one is taken; that the slots from `read` to `write`
are moved by one when a byte is taken and extended by the encoding when a packet is
written, which `RefusalExact` keeps off the old bytes (`ContentsAdvance`,
`ContentsWrite`); that the length the reader puts together from two bytes is that of
the first packet (`ReturnsFirst`).  `RingIsExact` is `RingHoldsStream` at every step;
`QueueImplemented`: every step of the ring is a step of `PacketQueue` or a stutter.

**EthReceiveProofs.**  `TypeCorrect`; `Phases`, which ties main's and the handler's
places to the chip's state; `WatchdogJustified`: the watchdog resets only a chip
that has stalled, whatever arrives between its look at EPKTCNT and its decision
(the key: main runs only with no interrupt pending, so a count above zero that
main sees is a stalled one; a handler between the choice of the bank and the read
leaves bank 1 or makes main read 0); `StallsHaveCause`: a stall has an event left
behind or an early return as its cause; `NoLostWakeup`: under `Quiet` (no events, no
packets for others, room for two bursts) the handler never returns with the pin low.
All three up to a handler that begins inside an access, which sets `torn`, and again
from the reset that clears it; what is invariant of a torn chip is only its types and
the places of main and the handler.

**EthInitProofs.**  `ConfigurationKept` is `ConfigKept` for every configuration and any
number of runs of the handler, between accesses and inside them.  `KeptInv` is its
types and, while no handler has begun inside an access since the last reset, `Safe`: a
reset brings about `Safe` from any state there is (`ResetOnly`).  `ConfigKept` alone says nothing before the interrupts
are on, and of what main still has in hand after; so `Safe` has two halves.  Up to the store of EIE, the 59th access of `init`, no handler runs,
and the bank, main's local variable, the registers and the transaction with the PHY
are those of the access main is at (`BankAt`, `BootAcc`, `BootRegs`, `BootPhy`): every
store of the configuration finds its bank selected (`InitLands`), no other store finds
one of its registers (`InitMisses`), and main goes on behind a wait for MISTAT.BUSY
only with the PHY's answer there.  From that store on the configuration stands
(`Kept`), because the stores that are left cannot reach it: `enc28j60_write` uses
addresses that hold no configuration in the two banks a handler leaves, the LED modes
addresses that hold none in any bank, and the address of ERXFCON holds configuration
only in bank 1, with the value that is stored.  A store to MIWRH starts a write to the PHY only in bank 2, where main
has put PHLCON into MIREGADR since the last handler (`Placed`).  The lists of accesses
(`InitAccesses`, `LedsAccesses`, `WriteAccesses`) are evaluated by the prover.

**EthTransmitProofs.**  `Rmw` is the invariant of the read-modify-writes of ECON1:
main programs a transmission only with TXRTS clear, a handler that holds a set
TXRTS finds main elsewhere, one that is to store it clear finds it clear.  From
it `NoneCancelled` and `FramesStable`, both up to a reset, and up to a handler inside an
access: `Rmw` is claimed while not `torn` and re-established by `Reset`.  `FrameInv` follows an uninterrupted write
from register to register; with it `PacketSent`.  `TypeCorrect`.

**ChecksumProofs.**  `Inv` says what the accumulator is in every place of the loop:
the integer sum of the words less its carries, below 0xFFFF (`ResidueKept`).  From
it: no datagram leaves with a checksum of zero (`ChecksumsNotZero`), and a received
one is handled exactly if its words add up to a multiple of 0xFFFF
(`VerdictIsResidue`).  `TypeCorrect` includes that no sum reads outside of its
buffer.  The size of a byte is a constant throughout.

`SentIsValid` and `JudgedRight` compare the program's sum with that of RFC 1071.
`DataInv` says that `total` is the sum of the words passed so far and that the buffer
holds the datagram, up to the checksum that is cleared or the one byte that is
damaged.  Four facts make the two sums agree: the words of memory are the bytes
weighted 1 and `ByteBase` in turn (`TotalWords`, `AddendsTotal`), the network's are
weighted the other way round, so either sum is `ByteBase` times the other modulo
0xFFFF (`MemNetwork`, `MultipleSwap`), the eight bytes `udp_calc_cs` reads too far
are zero, and a change of one byte changes the sum by less than 0xFFFF
(`ChangeIsSeen`).

**RepliesProofs.**  `ReplyInv` follows a reply from step to step: which offsets are
fresh, that all stale ones below `ClearedTo` are gone once a UDP reply has been
begun, which lengths are final, which sums hold.  It gives `ChecksumsAlwaysRight`,
`LengthsAlwaysAgree` and `NothingStaleEver`, for any number of motors and any
vendor string.  `AskInv` follows the loop over the arguments: what it has found is
the last argument of each type among those read, and END stops it before what an
earlier packet has left, unless END comes first; hence `AlwaysDoesAsAsked`, for lists of
any length, the empty one with the weaker claim of `NamesNone`.

**SpiBusProofs.**  `BusInv` has six parts besides the types: `FlowInv`, that SPI1
holds as many bytes as have been written and not read, one for each of main and the
handler at most, so that a handler that takes main's byte leaves its own;
`PlaceInv`, where the handler is and the level of the chip select, which stays low for
main only as long as no handler began; `MainInv` and `HandlerInv`, how far a transfer
nobody interrupted has come, byte sent by byte read; `TailInv`, that main's byte on its
way to a selected chip is the next one of its transfer; and `TailIsUnheard` itself.
From it `BusTypes`, `NothingInherited`, `AloneExact` and `TailUnheard`, for transfers
of any length and any number of handlers.

**Induction.**  Sums over sequences of any length and offsets in a queue of any
length need an induction over the naturals.  The library's theorem takes the
predicate as a parameter, which the provers cannot instantiate; `SetInduction`, in the
two modules that need it, takes a set instead and is proved from the library's
`NatLessThanWellFounded` and `WFMin`.  Recursive functions are unfolded with lemmas
of their own (`SumUnfolds` and its like).

Only model-checked: all liveness (`CompletesMotion`, `Overflows`, delivery in
`ImplementsQueue` of the FIFO, whose safety part is `QueueImplemented`, `Recovers`,
`ServesBoth`, `WaitEnds`, `ProgramsEnd`), which is beyond the prover.  Every other
property of a run is a theorem.

## Not modelled

Left out for good: clock tree, UART and servo (register writes at boot that nothing
reads or changes later), `delay_ns` (a counting loop), vendor start-up code,
DHCP/BOOTP, DNS and TCP (nothing calls them), half duplex (`config.full_duplex` is
1 and nothing stores it), and the C library behind `LOGGER_INFO`, which main and the
handler both enter.  Of a handler inside an access: the memory of the program, which a
length it reads one byte late lets it write beyond its buffer (enc28j60.c:937), and bits
of the chip's registers that no module names.  Bits of PHCON1 other than full duplex may
stay as it left them, as a reset may keep the PHY.
