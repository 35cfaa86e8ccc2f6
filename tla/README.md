# Verification of the osom speedometer firmware

The repository (`src/`) holds the firmware of an optical speedometer: a PIC32MX
that drives two lasers across a track, watches two infrared receivers, and talks
to a phone through an HM10 Bluetooth module. The application code is in
`src/firmware/src`; the drivers and the system services (SYS_MSG, SYS_TMR,
DRV_USART) come from Microchip Harmony, of which the repository contains only the
generated, static parts.

Everything runs in one super-loop (`SYS_Tasks`, `system_tasks.c`) and in
interrupt routines that preempt it. There are no threads; what is hard about the
program is interrupts between two hardware accesses, callbacks that arrive after
the state they were armed for has gone, queues and tables that fill up, and bytes
lost on a serial line.

## 1. Inventory

### 1.1 Components

| component | source | state it keeps | operations |
|---|---|---|---|
| laser channels | `channels.c`, `modulator.c`, `fake_watchdog.c`, `LaserInput.c` | `enabled` and `status` of each channel; carrier generator, output pins, timers 4/5, external interrupts 2/3 | `Channel_Get`, `Channel_SetCallback`, `Channel_Enable`; interrupt routines `fakewd_*`, `laserInput*` |
| exception handler | `system_exceptions.c` | none: it never returns | outputs off, blink for ever |
| main application | `mainapp.c` | `runMode`, `activeChannels`, `phase`, a mailbox | parsers of MODE, START_POS, DONE_POS, GET_CHANNEL_STS; `ChannelStatusCallback`, `wdcb` |
| BLE receiver | `bleapp.c` | receive buffer, packet guard timer, state | `BLEAPP_Tasks`, `rxPacketTimeout`, `reregisterBuffer`, `restartApp` |
| BLE sender | `bleapp.c` | `out_queue`, 10 slots of (buffer, handle) | `bleOutgoingCallback`, `hm10EventHandler` |
| mailbox helper | `mailbox.c` | none | `SendPacketToBle` |
| battery gauge application | `powerapp.c` | table of 10 requests, the current one, state | `BQ27441_GetData`, `POWERAPP_Tasks` |
| packet codec | `somparser.c` | packets, payloads and byte arrays on the heap | encode, decode, validity, getters, setters, replies, allocation, freeing |
| I2C driver | `drv_i2c_static_buffer_model.c` | queue of buffer objects, state of the transfer | `DRV_I2C0_*`, `DRV_I2C0_Tasks` |
| super-loop, start-up | `system_tasks.c`, `system_init.c`, `system_interrupt.c`, `main.c` | `sysObj`, the interrupt enable | `SYS_Initialize`, `SYS_Tasks`, interrupt routines, change notice |
| EEPROM, port expander | `eeprom.c`, `PCF8574.c` | none | linked, never called |
| clock, ports, device control | `framework/system` | registers | services: unlock and lock, performance, power modes, clocks, pins |
| console and logger | `logger.h` | none | output |

### 1.2 How they interact

    phone --bytes--> BLE receiver --SYS_MSG--> main application --enableLaser--> channels
                          |                         |   ^  ^                        |
                          | BQ27441_GetData         |   |  +---- wdcb (interrupt) ---+
                          v                         |   +------- SYS_TMR callback
                    battery gauge --I2C             v
                          |                     SendPacketToBle --SYS_MSG--> BLE sender --bytes--> phone
                          +--- powercb ---------------^

Shared between components: the pool of SYS_TMR timer objects (packet guard, status
probes), the SYS_MSG queues, the heap (a packet is allocated by its sender and
freed by its receiver), and `Channel.status`, written by interrupt routines.

### 1.3 What is hard, and what makes each component correct

`PROJECT.json` lists every hazard at its line. In short:

- **Laser channels.** `Channel_Enable` makes four hardware accesses, each of which an
  interrupt may follow. The two clients share one carrier, stopped on the AND of
  their flags, one of them read past the object. Correct: output, watchdog and
  input follow `enabled`; the carrier does not outlive the last enabled channel;
  no call lights another laser; status follows the beam.
- **Main application.** A probe switches lasers on and a timer switches them off
  100 ms later, while other commands arrive. Status reports come from interrupts
  and read `runMode`. Correct: no laser is left on unattended, positioning mode
  keeps its channels lit, the phone is told the current status.
- **BLE receiver.** The byte count must equal a packet's length at the instant of a
  poll. Bytes get lost, packets run into each other, the guard timer cleans up.
  Correct: no byte is used twice, packets get through on a clean line, a
  corrupted packet does not block the receiver.
- **BLE sender.** The UART interrupt frees copies by handle while the callback
  fills a slot; handles of finished writes stay in the slots. Correct: a copy lives
  while it is transmitted, slots come back, order is kept.
- **Battery gauge.** New requests enter the table while one is served; the error state
  answers for ever. Correct: no request is lost or answered with data twice.
- **I2C driver.** A transfer is queued from the main loop and started and finished by
  interrupts; the routine may run between the steps of a call, and bus events may
  come while the routine runs. Correct: a queued transfer is started and finished in the
  end, its status tells what happened, pointers stay within the buffers.
- **Packet codec and the heap.** A packet is allocated by one application and freed by
  another, its copy by an interrupt; battery requests keep a pointer to a packet that is
  freed at once; every restart opens one more mailbox. Correct: encode then decode gives the
  packet back; each block has one owner; an answer carries its command's transaction.
- **Start-up, clock, ports, device control.** Services disable and restore interrupts
  around key sequences; drivers enable their source before their handle is stored; pins
  become outputs with undefined latches. Correct: every protected register takes what is
  written, interrupts are neither early nor left off, no laser is driven before it is meant to
  be, the channels find the timers in the proportion their watchdog needs.

## 2. Modules

| module | what it is | source |
|---|---|---|
| `ChannelCommon` | channel numbers and statuses | `channel_common.h` |
| `LaserPanel` | abstract specification: what laser control promises to its caller | `channels.h`, `enableLaser` |
| `Channels` | the detailed model: one hardware access per step, interrupts, ticks | `channels.c` and the three parts |
| `ChannelsProps`, `ChannelsProofs` | its properties; its theorems | |
| `MainApp`, `MainAppProps`, `MainAppProofs` | the main application, EXTENDS `LaserPanel` | `mainapp.c`, `mailbox.c` |
| `BleRx`, `BleRxProps`, `BleRxProofs` | the receiver | `bleapp.c` |
| `OutChannel` | abstract specification: what sending promises | |
| `BleOut`, `BleOutProps`, `BleOutProofs` | the sender | `bleapp.c`, `mailbox.c` |
| `PowerApp`, `PowerAppProps`, `PowerAppProofs` | battery requests | `powerapp.c` |
| `I2cDriver`, `I2cDriverProps`, `I2cDriverMC`, `I2cDriverProofs` | queue and interrupt routine of the driver | `drv_i2c_static_buffer_model.c`, `drv_i2c_mapping.c` |
| `SomParser` | the packet codec as operators | `somparser.c`, `somparser.h` |
| `Packets`, `PacketsProps`, `PacketsMC`, `PacketsProofs` | the life of a packet on the heap, across the applications | `somparser.c`, `bleapp.c`, `mainapp.c`, `mailbox.c` |
| `DeviceControl`, `Ports`, `ChannelSetUp` | services and set-up routines as the sequences of accesses they make | `sys_devcon*.c`, `sys_clk_pic32mx.c`, `sys_ports_static.c`, `channels.c` and its parts |
| `StartUp`, `StartUpProps`, `StartUpProofs` | runs those sequences, with interrupts between any two accesses | `system_init.c`, `system_tasks.c`, `system_interrupt.c`, `main.c` |

The composition is by contract. `Channels` implements `LaserPanel` (checked with a
refinement mapping and proved), and `MainApp` is written on `LaserPanel`, so the handlers are
checked on a panel that does everything the detailed model may do, without its
timers and flags. In the same way `BleOut` implements `OutChannel`. `Packets` crosses
the applications once more, for the one thing they share and no module of a single
application shows, the heap; lasers, buffers and bus are left to the others. `StartUp` ends where
`Channels` begins: `ChannelsAsModelled` states what `Channels` takes for granted of the hardware.

Operators introduced by a comment `Fault:` are plausible bugs of the definition
that follows them. No specification uses them; replacing the definition by one of
them must violate a property (`mutants` in `PROJECT.json`).

### 2.1 Channels

State and actions follow the code: `enabled` and `status` are the fields of
`Channel`; `modulating`, `pin`, `wdRunning`, `wdCount`, `wdFlag`, `inputOn`, `inFlag`
are the registers the PLIB calls write. `LaserModulatorIfc.enabled` is written in
the same call as `Channel.enabled`, before anything else reads either, and is not a
variable of its own.

- `enableLaser` starts a call; `SetModulator`, `SetEnabler`, `SetWatchdog`,
  `SetInput` are the four parts of `Channel_Enable`, run for the right channel and then the
  left one. Each is one action because an interrupt can come between any two.
- `fakewd` and `laserInput` are the routine up to the end of the callback,
  `IsrReturn` clears the flag. An event in between is lost, as in the code.
- `Tick` is one period of the carrier: running watchdog timers count, and each receiver
  whose laser emits latches an edge or, covered, does not.
- `StopCarrier` reads `clients[1]`, which the initialiser
  `.clients = modulatorIfc` leaves out. What the read yields depends on the memory behind
  the object: a set flag, a clear flag or a trap (`StrayReads`).

### 2.2 MainApp

A handler that calls `enableLaser` begins in one action (`Mode`, `StartPos`,
`DonePos`, `GetChannelSts`, `ChannelStatusCallback`), lets the steps of the panel
run, and ends in another (`Reply`, `ProbeReply`, `SendChStatus`); `job` says which is
open. `StatusIsr` is a report of the panel with `wdcb` inside it and may come at any
point. Packets are counted, not stored: `queued` is the
number of messages in SYS_MSG, `Deliver` takes one out. `lastCmd` and `told` are
history variables for the properties.

`PACKET_GetPayload` copies a whole payload into a local of one byte (GET_CHANNEL_STS) or two (MODE).
With a longer one the handler either goes on as written, having read what it wanted, or its stack
is gone: `Overrun` stands for that, and for the program as for a trap nothing further is claimed.

### 2.3 BleRx

The line carries packets of tagged bytes; the tags (position, bytes left of the packet) are
for the properties, the code sees values only. A pass of `BLEAPP_Tasks` is two
steps, `Poll` (the count is read) and `Process` (the rest), so that bytes arrive in
between. Timers may run out, the UART may refuse a buffer, bytes get lost, and the phone, which sees
none of it, sends whenever it likes (`Send`), to a receiver without a buffer too. A buffer refused in the
INIT state leaves the receiver deaf (`InitTask`): its state is overwritten with
COLLECT_PACKET and nothing registers a buffer again, unless a guard of before is still running and fires. The history
variable `clean` is true as long as no byte was lost and each packet was sent to a receiver that listens: it
has a buffer with nothing in it, and is done with the packet before (`Listening`). `Arm` is the start of the
guard. A poll that finds no timer object arms none, and as a full buffer counts as empty, none is ever
armed for it; `GuardInTime` says that this has not happened. `rxPacketTimeout` runs from SYS_TMR_Tasks, between passes. `Forward`
covers the commands handled here, the ones sent to the main application, and a full mailbox.

### 2.4 BleOut

`bleOutgoingCallback` claims a slot, `AddWrite` hands the copy to the driver and stores
the handle; `Transmitted` is the UART interrupt with `hm10EventHandler`, possible
between the two. There is one outgoing mailbox, as until BleApp is restarted. A restart opens another one
(`bleapp.c:272`), and from then on each packet is copied and sent once for each: what `OutChannel` promises,
at most once, holds of the program until its first restart. The further mailboxes are in `Packets`.

### 2.5 PowerApp

One action per state of `POWERAPP_Tasks`, `BQ27441_GetData` at any moment, `BusDone`
for the I2C interrupt. `answers` keeps whether a callback was the first one a
request got.

### 2.6 I2cDriver

The calls (`DRV_I2C0_Transmit`, `Receive`, `TransmitThenReceive`, `TransmitForced`) differ in the
fields they fill only and are one sequence of steps: `SlotGet`, `Fill`, `LookAtBus`,
`StartIfQuiet`. The lengths a client gives are stored in eight bits (`Count`): a write of 256 bytes ends COMPLETE
with nothing sent, a read of 256 never ends. `flag` is the flag of the master and of the error interrupt;
after a collision, when it may be the latter, it need not hold a start back. `DRV_I2C0_Tasks` is one action for each case of its switch, followed by
`Tail`. `BusEvent` ends the command on the bus and raises the interrupt, also while the
routine runs, which has the lowest priority. `mishaps` keeps what a race or the bus did: an
event cleared unseen, an object taken before it was filled, a start that came late, a
collision, a request whose length was cut (`oversized`).

The project file (`speedometer.X/nbproject/configurations.xml:190`) compiles the framework's
dynamic driver, which is not in the repository; the static driver is the one the repository
contains, with the same interface. The module says what `powerapp.c` may expect of it.

### 2.7 StartUp, with DeviceControl, Ports and ChannelSetUp

A service is a sequence of accesses (`mask`, `unlock`, `write`, `port`, ...), and the main
program (`todo`) the sequence of those it still has to make; `StartUp` has one action per kind
of access. `SYS_Initialize` is the initial sequence, a pass of the loop (`SYS_Tasks`) puts the next one
there: the attachment of the channels, a call of any one service with arguments on a pin the
application owns (`ServiceCalls`), or nothing, and then the heartbeat. `Raise` and `PGoodChange` are the
devices and the charger; `Enter`, `ChangeNotification`, `SetLed` and `Return` the interrupt
routines, possible between any two accesses as soon as interrupts are enabled. A write counts only if
the register allows it (`Lands`): `asked` is what was meant, `reg` what is there. A key
sequence that an interrupt may break has both outcomes. Pin remapping needs two of them: the system key,
then a lock bit of its own (`remapLock`), each an access, as is the remapping itself.

### 2.8 SomParser and Packets

`SomParser` has a packet as a record of its fields, the 32-bit numbers as four bytes in memory order, and
encoding and decoding between the record with its payload and the bytes on the line. `Packets`
has the heap (`live`, `mem`) and who holds each block. A handler of the main loop is one step, or
several where it allocates at one end and frees at the other (`Take`, `Parse`, `End`), with
`Report`, the interrupt, in between. The phone sends any command: one that ends up behind
the parser table finds a null pointer there and is answered NOT_SUPPORTED, or something else, which is called
(`Stray`: the program is `astray`), and a payload longer than its parser's local
goes on or goes astray as in `MainApp` (`ParseFails`). `Malloc` may return any free block; what a freed block holds
is remembered only while a battery request points to it. `Found` is what `powercb` then reads:
the old packet, the allocator's links, or whatever has been allocated there since (of a copy, its header).
It has a case for three gauge commands; the reply made for any other is neither sent nor freed
(`CreateAndForget`). `CallbackAgain` is the next of the further mailboxes that restarts have opened (`left` of
them). When the first has freed the packet, it copies what it finds there and hands it to the UART before it
frees the packet again (`CopyStale`); the heap is then corrupt, and what has been handed over still goes
out (`Transmitted`). `Halt` ends the run with its reason: `trap`, `astray`, `double free`.

## 3. What the runs check

| run | specification and bounds | shows |
|---|---|---|
| `channels` | two channels, `WdPeriod` 3, late interrupts, all stray reads, fairness | `TypeOK`, `Settled`, `CarrierOff`, `NoStrayLight`; `Channels` implements `LaserPanel` (`ImplementsPanel`); `BeamSeen`, `BeamLost`: with prompt interrupts the status settles on what the receiver sees |
| `channels_emits` | stray read yields a clear flag | violation of `PoweredOnEmits` |
| `mainapp` | all commands, payloads missing, right and too long, 3 timers, queue of 2, fairness | `MainTypeOK`, `LitHasOwner`, `PositioningLit`, `ToldCurrent`, `ProbeEnds` |
| `mainapp_keeplight` | as above | violation of `StartPosKeepsLight` |
| `blerx` | 3 packets, sent whether or not anybody listens, back to back or apart, 1 byte lost, UART refuses, timers run out, fairness | `AcceptedOnce`; `NoFalseAlarm` and `PacketsGetThrough` while nothing is lost and packets go to a receiver that listens; `FirstCorruptionCleared` where a guard is armed before the buffer is full |
| `blerx_unstuck` | 2 bytes lost; a guard is armed before the buffer is full | violation of `Unstuck` |
| `bleout` | 7 packets, one outgoing mailbox, queue 2, 3 slots, transmission errors, fairness | `CopyAlive`, `SlotsReturn`, `EveryPacketSettled`; `BleOut` implements `OutChannel` (`ImplementsChannel`) |
| `powerapp` | 6 requests, 3 slots, a bus that refuses and fails, fairness | `ServedIsUnanswered`, `DataOnce`, `NoneOverwritten`, `ServedIsAnswered`; `AllAnswered` while the bus works |
| `i2c` | 3 transfers of 1, 2 or 256 bytes, 3 objects, one lost event or collision, fairness | `AloneIsSafe`: the driver's races need a second client; `WithinBuffers`; `StatusTellsOutcome` and `TransfersEnd` as long as nothing at all goes wrong: no event lost, no collision, no race of the driver, no request of 256 bytes |
| `packets` | 2 packets from the phone, of every kind of command (`SomeInputs`), 3 reports, 2 restarts, 5 heap blocks, queue 2, 2 slots | `OneOwner`: the only leaks are refused and forgotten packets and the replies to gauge commands without a case, the only double free that of a further mailbox; `WellFormed`; `AnswersMatch`, once until a packet is freed twice; `ProbeNamed`, `PkTypeOK` |
| `startup` | 2 service calls, interrupts between any two accesses | `WritesLand`, `InterruptsAsBefore`, `IsrFindsObjects`, `OutputsQuiet`, `LedShowsPower`, `ChannelsAsModelled`; no deadlock |
| `startup_period` | no service calls | violation of `PeriodAsStated` |

Each property is stated in words above its definition.

### 3.1 What was found

The violation runs show where the code and what is written about it disagree
(`findings` quotes the lines):

1. Enabling the right laser alone leaves it dark: `enableLaser` then disables the left
   channel, which stops the common carrier (`modulator.c:84`).
2. The callback of a probe made before START_POS switches off the lasers START_POS has
   switched on (`mainapp.c:43`).
3. The packet guard works once: its handle is not reset when it fires, so a second
   corrupted packet blocks the receiver (`bleapp.c:297`).
4. The watchdog matches after 2.75 ms, not after 550 us as its comment says: prescaler and
   period are those of a 40 MHz bus, and the bus runs at 8 MHz (`fake_watchdog.c:59`). The
   proportion to the carrier, which has the same clock, is right.

Seen while modelling, without a run of their own. Of the main application:

- DONE_POS does not leave positioning mode, START_POS does not enter it (README.md:103).
- MODE with a payload of one byte, as README.md:66 describes it, changes nothing:
  `PACKET_GetRunMode` needs two (`somparser.c:214`).
- POS_STATUS has a payload of two bytes where README.md:117 gives a length of one, and the header is
  14 bytes where README.md:9 draws 6.
- NOT_SUPPORTED has no destination and is discarded (`bleapp.c:132`), while README.md:29 calls such
  messages "sent by the system".

Of the Bluetooth application:

- A packet refused by a full mailbox is freed by nobody (`bleapp.c:338`; the comment two lines
  below says otherwise), nor is one that finds no slot (`bleapp.c:141`).
- A restart asked for in the initial state is overwritten (`bleapp.c:284` against the comment at
  line 37); the receiver then has no buffer for good, unless a guard of before is still running.
- After a restart two mailboxes (after each further one another) deliver, copy and free each outgoing
  packet (`bleapp.c:272`): the phone gets it twice, and the second free is of a freed block.
- The reply made for a gauge command other than the three of `powercb` is neither sent nor freed (`bleapp.c:208`).
- When no timer object is free until the receive buffer is full, no packet guard is ever armed (`bleapp.c:299`).
- `powercb` builds the battery answer from a packet that has been freed (`bleapp.c:206`).
- A packet of the greatest length would fill the receive buffer, which the driver then gives back:
  it would never be seen. `BufferAssumption` excludes it.

- Behind the parser table, for commands 0x14 to 0xF1, whatever is there is called (`mainapp.c:253`); a payload
  longer than the one or two bytes its parser has room for is copied over the stack (`mainapp.c:109`, `somparser.c:214`).

Of drivers and services:

- The I2C driver keeps lengths in eight bits (`drv_i2c_static_buffer_model.c:283`): a write of 256 bytes is reported
  COMPLETE without a byte sent.

- The I2C routine clears its interrupt flag after it has given a command, so that an interrupt
  routine of the lasers in between can make it lose the end of a start or stop, and the
  transfer then never ends (`WithinBuffers` holds even then).
- `DRV_I2C0_BytesTransferred` adds up over the transfers of an object unless they are
  TransmitThenReceive; `DRV_I2C0_ByteWrite` reports success without sending when the bus is busy;
  `EEPROM_Write` and `PCF_BankWrite` hand a buffer on the stack to the asynchronous driver. None of
  them is called.
- `SYS_PORTS_RemapInput` takes the key with interrupts on, so that one of them may leave the pin as it
  was (which `WritesLand` excepts), and leaves the system unlocked (`sys_ports_static.c:1077`). No application
  calls it.

### 3.2 Bounds, and why they are enough

- `WdPeriod` = 3: the watchdog matches after 2.75 ms, an edge comes every millisecond, so a
  timer survives two edges and not three (`ChannelsAsModelled` of `StartUp`).
- `TimerSlots` 3 for 5, `Slots` and `DriverMax` 3 for 10, `MaxBqRequests` 3 for 10,
  `QueueMax` 1 or 2 for 64: with three of a kind there is a lowest, a middle and
  a last one, a full and a nearly full table, and slots that are
  reused out of order. Slots and driver queue are equal, as in the configuration.
- `BufLen` 7 for 269, a header of 4 for 14: what matters is that packets with and without
  payload fit, that two of them may not, and that the buffer can be filled by a packet and
  part of the next.
- `PktMax` 3, `LossMax` 1 (2 in `blerx_unstuck`): corruption, recovery and a good packet; with two
  lost bytes corruption again. `PostMax`, `ReqMax`: more than twice the number of slots, so
  each is reused.
- `TransferMax`, `BufferObjects` 3, `Lengths` of 1, 2 and 256 bytes: one transfer running, one queued, one refused; a
  first byte, a last byte, both directions, a count that is cut to zero. `Derailed` ends the run of a driver that has taken
  the wrong object: nothing is claimed of what it does then. At most one event is lost
  or disturbed, which the driver may meet in any state.
- `Packets`: five blocks are two packets with payload and a copy, and run out when a report
  comes; a queue of two can be full, two slots can be taken; of two packets and three reports a later one can be
  put where a freed one was while a battery request still points there; two restarts make three mailboxes, so
  that one that finds the packet freed may be the second or the third. The two packets are any two of `SomeInputs`,
  in any order: one of each way a command can go, not one of each command. More of them, and
  more of everything else, is in the proofs.
- `CallMax` = 2 in `StartUp`: two services one after the other find what the first has left (the
  interrupt enable, the lock, a pin). Of each service the calls differ in their arguments by what the
  code distinguishes.
- `RunModes` in the cfg files has two members: the code only compares with
  POSITIONING.

`CHECK_DEADLOCK FALSE` is set where the system does stop: in the exception handler
(`MainApp`), or when the bounded environment has sent everything (`BleRx`,
`BleOut`, `PowerApp`, `I2cDriver`, `Packets`). `Channels` and `StartUp` are checked for deadlock.

### 3.3 Fairness

- `SYS_Tasks` calls every task in turn for ever, and no task blocks. Tasks have weak
  fairness; where the action of a task can be disabled for a while by
  another step of the loop (a timer callback while a handler is open) it is strong
  fairness, which a loop that reaches the task in every round provides.
- `MainStep` of `Channels` has strong fairness: interrupts disable it again and again, but
  each ends and the main loop goes on where it was.
- Interrupt routines and `Tick` have weak fairness: a raised flag is served, time
  passes. `BeamSeen` and `BeamLost` also need `PromptIsrs`, the premise that from some time on
  a routine of a few instructions has run before the next carrier period (1 ms); `Settled` and
  the other safety properties do not.
- The probe's or the guard's use of a timer object ends after 100 ms or a second, so that
  `Arm`, tried at every pass, finds one again and again: strong fairness.
- The I2C peripheral ends each command (weak fairness of `BusEvent`); the interrupted call and the
  client that asks for its transfer go on whenever no interrupt routine runs (strong
  fairness).
- `PowerApp` takes for granted that a transfer ends (weak fairness of `BusDone`). `TransfersEnd` is
  what the driver contributes to that: true as long as nothing goes wrong, which besides lost events and
  collisions includes the driver's own races (an object taken unfilled, a start given late) and lengths
  of more than 255 bytes. One client that waits for its transfers meets no race (`AloneIsSafe`).
- The phone, the person who covers the beam and the loss of bytes have no fairness.
- `StartUp` and `Packets` are checked for safety only and state none.

### 3.4 Assumptions about what is not in the repository

- SYS_MSG delivers in order, and refuses a message when its queue is full. SYS_TMR calls a
  single-shot callback once, from the main loop, and refuses when no object is free.
- DRV_USART transmits queued writes in order and gives each a handle that has not been used before
  (handles do not wrap in the run). A receive buffer that is full is given back: its handle
  is unknown and the count is -1.
- Of a clean line, besides that it loses nothing: the phone sends to a receiver that listens. Nothing is promised of
  packets sent to a receiver that has no buffer, or has not handled the packet before.
- For `FirstCorruptionCleared` and `Unstuck`: a timer object is found before the buffer is full (`GuardInTime`).
- `OutChannel`, and `BleOut`, are about one outgoing mailbox, that is about the program until the first restart of BleApp.
- A packet takes less than the second of the packet guard to arrive. The phone sends no packet
  that fills the whole buffer.
- A payload that overflows its parser's local (GET_CHANNEL_STS with more than one byte, MODE with more than two)
  and a call behind the end of the parser table are undefined: the handler goes on as written, or the program
  has lost its way and is not followed any further.
- The processor runs at the 72 MHz `SYS_CLK_FREQ` states, the peripheral bus at what
  `SYS_CLK_Initialize` divides that to (9, hence 8 MHz).
- `malloc` and SYS_MSG are not interrupted half-way: `Report` comes between the steps of a
  handler. The second free of a block is undefined; only what the UART has been given by then is followed (`halted`).
- `InputsAssumption`: a payload fits the length byte of its packet, and the phone, which numbers its
  packets in four bytes, sends no more of them than one of these bytes counts.
- START_POS without payload reads through a null pointer, which the processor traps.

## 4. What is proved

A proof is about every value of the constants: the length of queues, tables and buffers, the number of
packets, requests, transfers and bytes, the watchdog's period. The assumptions are the named ASSUMEs of
the modules, which the runs evaluate. Every module with theorems rests on an inductive
invariant that was first checked by TLC.

| module | theorems |
|---|---|
| `ChannelsProofs` | `Typing`, `Invariance`, `AlwaysSettled`, `AlwaysCarrierOff`, `NeverStrayLight`, `ChannelsImplementPanel` |
| `MainAppProofs` | `MainTyping`, `MainInvariance`, `AlwaysLitHasOwner`, `AlwaysPositioningLit`, `AlwaysToldCurrent` |
| `BleRxProofs` | `RxTyping`, `RxInvariance`, `NeverFalseAlarm`, `AlwaysAcceptedOnce` |
| `BleOutProofs` | `OutInvariance`, `AlwaysCopyAlive`, `AlwaysSlotsReturn`, `AlwaysLeaksKnown`, `SenderImplementsChannel` |
| `PowerAppProofs` | `PoTyping`, `PoInvariance`, `AlwaysServedIsUnanswered`, `AlwaysDataOnce`, `NeverOverwritten` |
| `I2cDriverProofs` | `I2cTyping`, `I2cInvariance`, `AlwaysWithinBuffers`, `AlwaysStatusTellsOutcome`, `AlwaysAloneIsSafe` |
| `PacketsProofs` | `SwapTwice`, `FieldsReadBack`, `ReplyMatches`, `RoundTrip`; `OwnersInvariance`, `PkTypes`, `OneOwnerAlways`; `PkInvariance`, `WellFormedAlways`, `AnswersMatchAlways`, `ProbeNamedAlways` |
| `StartUpProofs` | `SuInvariance`, `WritesLanding`, `InterruptsKept`, `ObjectsFound`, `OutputsStayQuiet`, `LedTrue`, `ChannelsSetUp` |

### 4.1 Channels

Assumed: a period of at least 2. `Settled` and `CarrierOff` speak of moments between calls and are
not inductive. `IInv` adds what holds inside a call:

- `InLine`: only the channel being switched may lag behind its `enabled` flag, and only in
  the parts `Channel_Enable` has not reached; after an exception both outputs are off.
- `RightFirst`: while the left channel is switched the right one already is what the
  call wants; a left channel that is enabled keeps the carrier on, except between the right
  channel's turn and its own. This is why `CarrierOff` holds although the stop condition reads the
  right channel's flag only.
- `Attached`: nothing is enabled and no call runs before both channels are attached.

Steps of interrupts, hardware and outside world leave everything in these conjuncts
alone (`Elsewhere`), which leaves one step of the proof for each action of the main
loop. `NoStrayLight` follows from the invariant and the two actions that
touch carrier or output.

`ChannelsImplementPanel` maps the four accesses to a channel to one step of the panel: `Progress`
says which phase of the abstract call the detailed one is in, and moves on with the first access, in
which `enabled` is written. The other three are stutters, as are hardware and ticks; an
interrupt routine up to its callback is a `Report`, which needs `InLine` where the channel it
reports is not switched on.

### 4.2 MainApp

The properties hold between handlers; `MainInv` says what holds while one runs. `InCall`: a call is made by
an open handler and has switched the channels behind it. `Wanted`: what the call of each
handler asks for. `Owned`: the two laser properties, also in the middle of a callback that switches nothing.
`ToldFresh`: a positioning session begins with nothing told, without which `ToldCurrent` would
not survive the interrupt that reports into a mode just entered.

### 4.3 BleRx

`Ordered`: bytes accepted come before those in the buffer, and these before the ones on the air.
`Polled`: what the last pass counted was, or was not, a packet. `AcceptedOnce` follows from the first
alone: whatever is lost or runs into each other, an accepted packet begins after the one before.
The rest is for `NoFalseAlarm`: on a clean line there is either nothing at all and no guard
(`AtRest`), or one packet, partly in the buffer and partly on the air, with the guard armed
for it or none (`InFlight`), as the phone sends to a receiver that listens; when its last byte is there the next poll takes it, so a guard that fires
had nothing to wait for.

### 4.4 BleOut

`Paired`: every write of the driver has a slot with its handle and its copy, other than the one
being filled. `OneHandle`: no two writes and no two slots have the same handle, the finished ones that stay in
the slots included, so that an event frees the copy it is about. `Numbered` keeps new handles
apart from old ones. That the driver has room for a claimed slot is a matter of counting: the
writes map one to one to the slots other than the claimed one (`Room`).

`SenderImplementsChannel`: what waits for the phone is the driver's queue, the copy being handed
over and the mailbox, in this order (`Waiting`). The slots do not appear in it: whichever is taken,
order is that of the queues. Copying is a stutter, a packet dropped for want of a slot
is `Drop`, the end of a transmission `Transmit`. All of it is about one mailbox, until a restart opens another.

### 4.5 PowerApp

`Current`: the states that serve a request have one, in a slot that stays pending; `PendingUnanswered`:
what is pending has not been answered and is in one slot only; `OnlyData`: the error state, which is
never left and answers over and over, does so for a request that got no data.

### 4.6 I2cDriver

`I2cInv` has three layers. Until the driver takes a wrong object (`Derailed`): the
routine works on the oldest object of the ring, which is filled; those behind it are not finished;
the state fits the operation. Lengths and losses do not matter for `Bounded`: the count of an object is
no more than what is left of its client's buffer, which gives `WithinBuffers`. As long as nothing
went wrong (`mishaps` is empty): the count is just what is left, and the status tells it (`OutcomeTrue`);
something is left to transfer until the bus falls silent, and the bus works for the routine or the
routine has its answer, so that no event is taken for another. For a client that waits for its
transfer: at most one handle, and between a call's first access and its last nothing moves on
bus, flag or routine (`AloneInv`); this is why the races of the queue need a second client.

### 4.7 SomParser and Packets

Of the codec, facts about the operators for all fields and every payload: a reply has the request's
transaction and goes back to its source; decoding undoes encoding.

Of the heap, two inductive invariants, for any number of blocks, slots, messages, commands and
restarts. What they say of owners, answers and well-formed copies holds as long as the program runs; once it is in
the exception handler, has gone astray or has freed a block twice, only types and `Named` are claimed. So
after a restart, when a further mailbox comes to a packet that has been freed, `AnswersMatch` does not exclude
that the phone gets the answer again, which it does. The lost blocks of `OneOwner` are
the refused and the forgotten packets and the replies to gauge commands without a case.

- `OwnersInv`, for `OneOwner`. `OneOwner` counts blocks and holders; what is inductive is that the
  packets of queue, mailbox and handler (`Roots`), the copies in the slots and the lost blocks make up
  the allocated blocks and share none (`Owns`). A step must not only keep them apart but know that
  nothing is in two places of one queue (`Separate`), that the line and the slots agree (`InSlots`), that
  the packet a further mailbox looks at again has been lost and not freed (`JobMatches`), and that a
  packet that has a payload has its length too (`Sound`), because `PACKET_Free` goes by the length. Counting then is a bijection from the holders to the blocks (`OwnersCounted`).
  Each step has a lemma that says what it does to the owners and that everything owned before
  and after is left as it was (`Remains`), which the second invariant uses.
- `PkInv`, for the rest. `Results`: what waits to be sent and is a response has a length, so that
  either it has its result or the copy traps on the missing one (`WellFormed`). `Awaited`: every
  command not yet answered, every reply in the queue that is an answer, and every such copy has a
  transaction that the phone waits for, and no two have the same; `ReplyFits` says so of the reply
  that is being made. A step moves a transaction from one block to another (`AwaitedMoves`), brings a
  new one (`AwaitedNew`), or takes one away with the answer (`AwaitedAnswered`); packets that
  `powercb` makes out of a freed block cannot be taken for an answer, because of their length.
  `Named`: a probe that has not been overtaken names the channels asked for last.

### 4.8 StartUp

What has been done so far says little about a program that is a sequence of accesses: the invariant has
to say what the rest of it (`todo`) will do. `SuInv` does so in two ways.

- *In time.* A fact something relies on either holds, or an access that establishes it comes in `todo`
  before the first access that relies on it (`Ordered`); and no access left in `todo` undoes it
  (`Free`). So objects are initialised before interrupts are opened (`ObjectsInTime`), latches and open
  drains settled before pins become outputs (`PinsInTime`, `DrainsInTime`), the charger's pin made
  digital before its notice can come (`PGoodInTime`), timers, watchdog sources and the bus divisor as
  they should be before the channels count as attached (`ConfiguredInTime`, `WatchdogsInTime`,
  `DivisorInTime`). `Undisturbed`: once interrupts are open, nothing touches the flag and the LED of
  the notice but its routine.
- *Phases.* Interrupt enable, key and start-up form six phases; an access is allowed in some of them and
  leads to another (`Leads`). `InPhase` says that `todo` runs from the present phase to that of the
  loop. A write to a protected register is allowed only with the key, and where the cache is
  configured only with interrupts off, which is `WritesLand`; a service ends in the phase it found.

Lemmas about `Ordered`, `Free` and phases of a concatenation, and of what is left after an access, carry
both over every step. For each service of `DeviceControl`, `Ports` and `ChannelSetUp` one lemma says
that it goes back to the phase of the loop and undoes none of the facts (`InLoop`), and for the
start-up as a whole that it establishes them all (`BootSeq`). The number of service calls does not appear.

### 4.9 What is only model-checked

- Liveness under fairness (`BeamSeen`, `BeamLost`, `ProbeEnds`, `PacketsGetThrough`, `FirstCorruptionCleared`,
  `EveryPacketSettled`, `AllAnswered`, `ServedIsAnswered`, `TransfersEnd`): out of the prover's reach.
- Facts that would need induction over data: the library's induction theorems take an operator as a
  parameter and cannot be instantiated. Where a proof needed the lowest number of a set,
  `LowestExists` gets it from the well-foundedness of the naturals.

## 5. What is not modelled

EEPROM and port expander (never called), console and logger (output only), the states of `bleapp.c`
and `powerapp.c` that are declared and never entered, slave mode of the I2C driver (never
selected) and its byte model (`drv_i2c_static.c`, no caller), the blink code of the exception handler,
`BSP_Delay` and the getters of the system services, the values read from the battery gauge, and
`PACKET_Init`, `copyPacket` and `PACKET_CreateBatteryPacket` (no caller). The internals of the
message, timer and UART services are not in the repository: a stopped guard whose timer object
may by then serve a status probe (`bleapp.c:80`) depends on them.

## 6. Plan

Done: laser safety (`LaserPanel`, `Channels`), `MainApp`, `BleRx`, `BleOut` with `OutChannel`, `PowerApp`,
`I2cDriver`, the codec and the heap (`SomParser`, `Packets`), the system services and start-up
(`DeviceControl`, `Ports`, `ChannelSetUp`, `StartUp`), proofs of the safety properties of all of these, and of both refinements.

What would come next:

1. `PowerApp` with `I2cDriver` underneath: the outcomes `PowerApp` takes as `BusOutcomes` are those of the
   driver, a transfer that never ends included.
2. The order of the tasks in a pass of the super-loop as a schedule of its own, to bound how late a
   poll of the receive buffer can be.
