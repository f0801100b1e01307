# TLA+ models of the KEYPAD_GD firmware

The repository is the firmware of an eight-key CANopen keypad: a GD32F103
microcontroller, FreeRTOS, the CANopenNode v4 stack and about 2500 lines of
the product's own code. This directory holds TLA+ modules that model the
places where its tasks, interrupt handlers, the CAN controller, the flash and
the user's fingers meet, and the services of the stack, also those that the
product does not switch on; TLC configurations that check them on small
instances; and modules of theorems that TLAPS proves for every instance.

## 1. Inventory

### Threads of control

| Who | Where | Priority | Waits in |
| --- | --- | --- | --- |
| ProcessTask | `process.c` `vProcessTask` | High | `vTaskDelay(1)` |
| CanOpenProcess | `CanOpenNode.c` `vCanOpenProcess` | Normal1 | task notification, 10 ms at most |
| CanOpenPeriodic | `CanOpenNode.c` `vCanOpenPeriodicProcess` | Normal | task notification, 10 ms at most |
| KeyboardTask | `keyboard.c` `vKeyboardTask` | Normal | `vTaskDelay(period * 10)`, a full event queue |
| default task | `main.c` `StartDefaultTask` | Normal | `osDelay(500)`, the restart event flag |
| CAN RX0/RX1, TX, EWMC, TIMER3 interrupts | `gd32f10x_it.c` | all 6, so none preempts another | - |

CanOpenProcess and CanOpenPeriodic share a recursive mutex ("co"); the
driver's critical sections mask interrupts. ProcessTask and KeyboardTask take
no lock at all. `main` runs `vFDInit`, `vLedInit` and `vProceesInit` before
the scheduler starts.

### Components

- **Keyboard scanner** (`keyboard.c`). State: per key a status (off, on,
  repeating) and a sample counter; a queue of 16 events. Every period it
  samples the pins one after another and sends MAKECODE or BRAKECODE events,
  blocking while the queue is full. Correct when each debounced press and
  release becomes one event, in order, none lost.
- **Key processing** (`process.c`, `vProcessTask`). Takes an event per tick,
  sets or clears the key's bit of object 0x2000:1 and requests the TPDO.
  Correct when 0x2000 follows the keyboard and the bus follows 0x2000.
- **Object write handlers** (`process.c`, `OD_write*`). SDO and RPDO writes to
  0x2001-0x2005 and 0x2010-0x2013: range checks, LED state, stored settings.
- **Settings store** (`flash_data.c`). A 16-byte RAM image and a flash page;
  each accepted write erases the page and programs it again word by word.
  Correct when a power loss at any point leaves a page the node can start from.
- **LED output** (`led.c`). LED_ON, LED_BLINK and brightness set by tasks, read
  and modified by the TIMER3 interrupt, which sends 24 bits by SPI.
- **Start-up, watchdog and restart** (`main.c`, `init.c`, `systick.c`,
  `CanOpenNode.c`). The default task feeds the watchdog while an event flag is
  set; bus-off and bit-rate errors clear the flag so that the node restarts;
  an NMT reset ends in `NVIC_SystemReset`.
- **CAN driver, transmit** (`CO_driver_ST32F103.c`, TX interrupt). Five buffers
  with `bufferFull`, the counter CANtxCount, three hardware mailboxes without
  retransmission. Correct when a marked message is sent and none is torn.
- **CAN driver, receive and errors** (same file, RX and EWMC interrupts).
  Filters and matches frames with receive buffers, tracks the error state. A
  buffer is set up field by field while frames come in. Correct when each frame
  reaches the object that has its identifier and no other.
- **Emergency** (`CO_Emergency.c`). Error status bits, a ring of pending
  messages (17 entries) with an overflow protocol, the error register.
- **NMT and heartbeat** (`CO_NMT_Heartbeat.c`). State machine of the node, one
  slot for a command from the bus.
- **PDO** (`CO_PDO.c`). TPDO: request flag, event and inhibit timer, SYNC
  counter. RPDO: receive buffers filled by the interrupt and read by the
  periodic task. COB-ID and mapping entries of the object dictionary. Correct
  when the newest frame is what is sent and applied, in time, and a refused
  write of a parameter leaves the PDO as it was.
- **SDO server and client** (`CO_SDOserver.c`, `CO_SDOclient.c`). Expedited,
  segmented and block transfers over one-slot mailboxes, timeouts, aborts.
  Correct when what is confirmed has been transferred.
- **CANopen.c**. Allocation of the objects, their CAN buffers, their
  initialisation at every communication reset, and the calls of one cycle.
- **Object dictionary access** (`CO_ODinterface.c`, `OD.c`). Search of an object
  by index, a stream for a sub-object, transfers in pieces. Correct when every
  byte of the right sub-object, and no other, is reached.
- **LSS slave and master** (`CO_LSSslave.c`, `CO_LSSmaster.c`), **SYNC**
  (`CO_SYNC.c`), **heartbeat consumer** (`CO_HBconsumer.c`), **fifo**
  (`CO_fifo.c`), **ASCII gateway** (`CO_gateway_ascii.c`), **SRDO**
  (`CO_SRDO.c`). Sources of the repository that this product's `CO_config.h`
  leaves out (the LSS slave is compiled, but the acceptance filters keep its
  requests away).
- Neither compiled nor modelled: TIME, GFC, LED indicators, trace, storage.
  Third party: the GD32 library, FreeRTOS, CMSIS.

### Hard behaviours

Preemption without locks (ProcessTask against CO_TPDOsend); interrupts that
share counters with tasks (CANtxCount); a producer blocked on a full queue;
power loss and failing flash operations during a write; frames that the
controller drops without a retry; a full emergency ring; a restart that
depends on an event flag set and cleared by different contexts; one-slot
mailboxes (NMT command, SDO request, LSS request) overwritten or left behind;
answers that arrive after the time-out that gave them up; data that are passed
on in pieces through buffers that fill up; supervision timers that meet the
message they wait for.

## 2. Plan

The order is that of the product's purpose: a key must reach the bus, the bus
must reach the LEDs, the node must survive errors and power cuts, and then the
services around that.

Done, in this order: `CanTx`; `KeyMirror` (abstract), `Keyboard`, `KeyTpdo`
and their composition `Keypad`; `FlashSettings` and `ObjectWrites` on top of
it; `Emergency`; `NmtHeartbeat`; `RpdoReceive`; `Restart`; `LedOutput`;
`HbConsumer`; `SdoServer`, `SdoClient` and their composition `Sdo`; `Lss`;
`SyncPdo`, `TpdoTypes` and `PdoConfig`; `FifoQueue` (abstract), `Fifo` and
`FifoText`; `Gateway`; `Srdo`; `CanOpenObjects`; `CanRx`; `ObjectDictionary`.
`Driver`, `Device` and `Services` put those side by side that share no state.

Left to model: GFC, TIME, the LED indicators; the transfers
of an SDO client to its own dictionary; conversions of numbers in the fifo; that
an SDO transfer ends (which needs the time-outs of both sides as fairness).

Theorem still to prove: `TextSurvives`, the only safety property of `services`
that none states; the types of both sides of the conversion and the room it
needs are proved with `TypeOK`.

## 3. The modules

Actions are named for the function they model when they model all of it, and
for their part of it otherwise. An action is as much of a function as runs
without anybody being able to observe or disturb it; a function is cut exactly
where another thread of control can come in. History variables (named in the
comments) record what a property needs to remember and influence nothing.
Operators called a mutant are ways in which the code could be wrong; each
stands before the definition it would replace, and no specification uses them.

### CanTx

| TLA+ | code |
| --- | --- |
| `bufferFull`, `CANtxCount`, `firstCANtxMessage`, `overflow` | fields of `CO_CANtx_t` and `CO_CANmodule_t` |
| `busy`, `mtf` | TMEx and MTFx of the CAN controller |
| `VerifyOverflow`, `CriticalSend` | `CO_CANsend` before, and inside, its critical section |
| `EnterHandler`, `TestFlag`, `TryBuffer` | `USBD_HP_CAN0_TX_IRQHandler`, one turn of the loop of `CAN_SendMessage` |
| `Finish` | the controller (external) |

At most one task is inside `CO_CANsend`, because all of its callers hold "co".
`Polite` buffers belong to owners that test `bufferFull` first. The controller
does not repeat a frame (`init.c`), so a sent frame and a lost one look the
same to the handler. `CO_CANclearPendingSyncPDOs` has no caller in this build.

### CanRx, Driver

`Arrive` is the controller with the filters of `CO_CANmodule_init` (`Accepts`);
`prv_read_can_received_msg` is the interrupt of a FIFO with `GetRxMessage`, the
copy into the static buffer, and `Receiver`, the search. `CO_CANrxBufferInit` is
one store a step, so that the interrupt can meet a buffer that is half set up;
`StartNext` calls it at the start, in the order of `CO_LSSinit`,
`CO_CANopenInit` and `CO_CANopenInitPDO`, `WriteCobId` from `OD_write_14xx`. The
stores are taken to come in the order of the source. A buffer without identifier
has 0, which is also the identifier of NMT commands; what keeps them apart is
the order of the buffers, the mask and the missing callback. `handed` and
`moved` are history. `Driver` puts both directions side by side; they share no
state.

### KeyMirror, Keyboard

`KeyMirror` is the promise: debounced keys, a backlog of events, object 0x2000.
`Keyboard` is the code: `WakeScanner`, `ScanKey` (one turn of the loop of
`vKeyboardTask`, in which `SampleRelease`, `SamplePress`, `SampleHold` and
`SampleIdle` are its branches), `QueueSend`/`Unblock` (`xQueueSend` with
portMAX_DELAY), `ProcessEvent` (a turn of `vProcessTask`). A turn is one step
because all that others see of it is the pin it reads and the event it sends.
The refinement maps `pressed` to the keys whose STATUS is not OFF and `backlog`
to the queue followed by the event the scanner is blocked on. `Threshold` holds
the values that the delay, hold and repeat registers may have; any sample may
meet any of them, since an SDO write can change a register at any time.

### KeyTpdo, Keypad

`CheckRequest`, `CopyObject`, `SetFlag` and `SendFrame` cut `CO_TPDO_process`
and `CO_TPDOsend` where ProcessTask can preempt them and it matters: the
decision to send, the read of the object, the write of its flagsPDO bit, the
hand-over to `CO_CANsend`. `KeyEvent` is what ProcessTask does to the object
and its bit. Transmission type 0xFE (the default) without inhibit time.
`Keypad` joins a turn of `vProcessTask` in both modules into one step and
interleaves everything else.

### FlashSettings

`ram` is `SettingsREG`, `flash` the page, both as one register for each use of
a flash word: `CODE` and `ID` share the first word as bit rate, node id, NMT
state and valid code do. `SetReg` is a write handler up to `vFDWtiteReg`;
`ErasePage` and `ProgramWord` are its two loops; `PowerOn` and `Load` are
`vFDInit`. `PowerLoss` can hit between any two of them. Erasing a page and
programming a word are taken as atomic: they happen or they fail.

### ObjectWrites

What the client of a write sees of `FlashSettings`: `Accept` and `Refuse` are a
handler up to its answer or its call of `vFDWtiteReg`, `Return` is what follows
that call (the copy in the dictionary, the answer), `LoadObjects` the end of
`vFDInit`, `Forget` a loss of power. `vFDInit` sets 0x2005 with the wrong
length, so after every loss of power that object is what it was built with,
whatever is stored, until it is written again: `ObjectIsRegister` says exactly
when which of the two objects shows its register.

### Emergency

The record `em` is `CO_EM_t`. `CO_error` is an operator on it. `CO_EM_process`
runs under "co" as a whole, but the driver and its interrupts come in between:
`Begin` takes the change of the driver's errors, `VerifyDriver` is one call of
`CO_error` for an error of `DriverOrder`, `Send` the rest of the pass. `log` and
`missed` are history. `Report` and `Reset` are the calls of other code (PDO length errors).
The build has PRODUCER and HISTORY, no consumer, no status bits object.

### NmtHeartbeat

`CO_NMT_processSwitch` and `CO_NMT_processClear` cut `CO_NMT_process` between
the switch that reads `internalCommand` and the assignment that clears it, the
only place where the receive interrupt (`CO_NMT_receive`) makes a difference.
`CO_CANmodule_process` and the error register are part of the first half, as
they are called before it in `CO_process`. The register has one source here:
the transmit overflow. The driver's error counters are assigned nowhere, so the
warning and passive bits cannot appear, and the error of a wrong PDO length is
in a part of the register that NMT_CONTROL does not select. The boot-up message
cannot overflow, as `CO_CANsend` does not report it for the first message
(`firstCANtxMessage`); every later one can. The default of
0x1017 is 0; `OD_write_1017` switches the heartbeat on and off.

### RpdoReceive

`CO_PDO_receive` is the interrupt. The periodic task is cut at every place
where the interrupt can come: `Verify` (look at `receiveError`, report),
`Acknowledge` (overwrite it), `Loop` (look at and clear `CANrxNew`),
`WriteObject` (one mapped object), `Discard` (PDO not usable). The NMT state and
the COB-ID change only between passes, under the mutex. A mapped object takes
its value from the receive buffer as it is at the moment of the write. The
time-out of an RPDO is not in this object dictionary.

### Restart

`SetBit`, `WaitReturns` and `Reload` are the turns of `StartDefaultTask`,
`StartStack` is the start of `vCanOpenProcess` that may end in `Error_Handler`,
`BusOff` is the EWMC interrupt, which hands the clearing of the event bit to the
timer daemon (`Daemon`, a queue of TIMER_QUEUE commands), `Tick` and `Bite` are
the watchdog. It is assumed that a bus-off raises the interrupt: the driver
enables CAN_INT_BO (`CO_driver_ST32F103.c:197`) but not the error interrupt
CAN_INT_ERR, and `init.c:107` lets the controller recover from bus-off by itself.
`RestartsForCause` does not depend on it, `DeviceRecovers` says what follows an
interrupt. `WritePeriod` sets KEYBOARD_PERIOD: with 0 the scanner does not block
and starves the daemon, which is how a bus-off can be forgotten.

### LedOutput

`LED_ON` and `LED_BLINK` as sets of lamps. `vLedProcess` is the TIMER3
interrupt with `Blink` and `Packet`; an SDO write of 0x2001 is one step for it
(`WriteLed`), an RPDO write two (`vSetLedOn`, `WriteOriginal`).

### HbConsumer

`CO_HBconsumer_process` goes through the entries in `Forget`, `Message`,
`Clear` and `Timeout`; `HbReceive`, the interrupt, comes between any two of
them. `Subscribe` is a write of 0x1016.

### SdoServer, SdoClient, Sdo

A unit of data is what a segment carries; a string ends between two units. The
server's buffer of 32 bytes is four units and a rest that is not modelled, the
client's threshold for block transfers is PST units. A read looks for the end of
a string in what it has just brought (`Terminators`, `Brought`) and counts one
unit always, so an upload of a string may bring the zero that ends it when the
end lies where a read began: `UploadedIsStored` says so. `CO_SDOserver_process` is cut where
`CO_SDO_receive`, which runs in the interrupt, can disturb it: after each read
of the state; `seen` is the state as a switch statement has read it. A frame
may wait in the bus (CHANNEL) or be lost (LOSSES), time-outs are counted in
calls. `SdoClient` has the client's calls with its fifo and an application
that reads it; transfers are kept apart by their number in the data (`Data`),
so that data of another transfer can be told from data of this one.

### Lss

A master and slaves, each with a one-message mailbox; `Expire` and `FsExpire`
are its time-outs, which may come before an answer (`disturbed` remembers).
Addresses have `Parts` numbers of `Bits` bits, 4 and 32 in the code. `Supported`
and `kept` are the answers of the application's callbacks: which bit rates a
slave takes, and whether it has stored. A confirmed service is one call that
starts it (`Select`, `ConfigureNodeId`, `ConfigureBitTiming`, `ConfigureStore`,
`Inquire`, `Fastscan`) and the calls that go on with it (`Confirmed`, `Expire`,
`FsExpire`); `SelectAll`, `ActivateBit` and `Deselect` are not confirmed.
`LssReachesChosen` says what the master may believe when no frame was lost; a
slave that still works at a request drops the next one, so an activation that
follows a global change of the node ids too soon counts as disturbed.

### SyncPdo, TpdoTypes, PdoConfig

`SyncPdo` is `CO_SYNC_receive` and `CO_SYNC_process` with a synchronous RPDO of
two buffers and its time-out, `OD_write_14xx` for the COB-ID (`WriteCobId`), the
type (`WriteType`) and the event timer (`WriteEventTimer`); the interrupts come
between any two steps of the periodic task. `TpdoTypes` is one pass of `CO_TPDO_process` with transmission
type, event timer, inhibit time, SYNC counter and start value, the writes of
those parameters, and the driver's frame that waits, may be overtaken or is
taken back by `CO_CANclearPendingSyncPDOs`. Its histories are not touched by a
write: `elapsed` is the time since the last frame whatever was written since, and
`excused` says that the code has cleared the inhibit timer in between, by a write
of the type or of the inhibit time or by a pass that was not operational. The
SYNC counter of a consumer is what the message says. `PdoConfig` is one PDO's COB-ID and
mapping entries: what the dictionary holds, what is in effect, what the CAN
buffer was set up with, and `Reset`, a communication reset.

### FifoQueue, Fifo, FifoText

`FifoQueue` is the promise: a bounded queue with a reader that may read ahead.
`Fifo` is the ring with its three pointers, which implements it. `FifoText` is
the conversion of bytes to text and back, each side going on from what it has
memorised when the other fifo is full or empty.

### Gateway

A line is one token, the value of a `write` is a header with units of data.
`Call` to `ParseDone` are `CO_GTWA_process` up to the switch over its state,
one action for each group of commands; `Upload`, `Download`, `Write`, `Purge`,
`Lss`, `Fastscan`, `AllNodes`, `Deselect`, `Log`, `Help` and `Led` its
branches. `Respond` hands a response to an application that takes c pieces of
it. The SDO client and the LSS master are what their interfaces leave open.

### Srdo

A sender and a receiver with their parameters, `Guarded` is
`CO_SRDOGuard_process` with the checksum, `Transmit` and `Monitor` with `Copy`
are the two halves of `CO_SRDO_process`, `CO_SRDO_requestSend` asks for a pair
ahead of its time. A pass that enters operational counts the timer and may send,
as the code does. `stage` is the receiver between the
comparison of the two frames and their copy, where another frame can come in.
`ghost.torn` remembers a frame that was lost, or that came while the pair before
was not taken: only then may two frames in hand differ (`UnequalHasCause`).
`Nmt` lets `CO_SRDO_process` run between two commands.

### CanOpenObjects

`CO_new` allocates one block a step, so that `CO_delete` can meet it after any
of them; `CO_CANinit`, `CO_LSSinit`, `CO_CANopenInit` and `InitObject` are the
start and every communication reset, which may stop at any object. The buffers
of the objects follow one another, and `Ends` is where those of each kind end, a
running sum of what is `Reserved` for the kinds before.

### ObjectDictionary

`OD_find` with its loop, a pass a step (`Twice` in a power of two bounds their
number); `SubObject` is the switch of `OD_getSub` over the type of an entry, which
makes the stream that
`Piece` reads or writes through, as the SDO server does, with `Touch` for a task
that writes the object in between; `Value` is `OD_get_value` and `OD_set_value`,
and `OD_getPtr` gives the address. A byte that is written is its position in the
transfer, so that what is out of place can be told; `OwnerOf` is the layout
of the memory, given beside the dictionary that is checked against it.

### Device, Services

Compositions of parts that do not act on one another within the properties
stated of them. A behaviour exercises one, the `subject`; the others rest where
they start, so the number of states is the sum of theirs and not the product.

## 4. Runs

| Run | What it asks | Bounds |
| --- | --- | --- |
| `cantx` | Is every counted message scanned by an interrupt to come? Does a received frame reach the object it is meant for? | 3 buffers (one polite), 2 mailboxes, counter modulo 4; 5 receive buffers, 2 frames in a FIFO, 7 identifiers |
| `cantx_stranded` | Is a marked message sent once the module is free? **No.** | transmit side: the same, counter modulo 65536 |
| `keypad` | From the contact to the bus: does the keyboard implement `KeyMirror`, does each key reach the bus, when is the bus left stale? | 2 keys, 2 slots, thresholds {0, 2} |
| `key_tpdo_lost` | Is every requested TPDO transmitted with the current object? **No.** | 3 key states |
| `settings` | Can a power cut or a failing flash leave a page the node must not start from, and does the dictionary show what is stored? | 2 legal values, 5 register classes in 4 words |
| `device` | Do the messages tell the errors, are heartbeats judged rightly, does the watchdog restart a node for a reason and only then, do the lamps show what the bus has written? | see below |
| `nmt` | Does the error register rule, does the heartbeat tell the state, when is a command lost? | all commands and an unknown one |
| `nmt_command_lost` | Is each received command processed? **No.** | the same |
| `nmt_overflow` | Is a transmit overflow ever cleared? **No.** | the same |
| `rpdo` | Do the objects end as the last frame, whatever interrupts whom? | 2 PDOs, 2 + 1 objects, 2 values |
| `sdo` | Is what a transfer confirms what was transferred, through loss, delay, time-out and abort? | 2 transfers, object of 3 units, downloads of 1 to 3, both buffers of 2, threshold of 3, 1 loss |
| `services` | Ten services of the stack, each on its own, see below | see below |

`device` is four models: `Emergency` with one driver error, one reported and a
ring that holds two messages; `HbConsumer` with two entries and two other nodes;
`Restart` with a watchdog of three periods and a queue of two commands;
`LedOutput` with one LED of two colours. Its properties are `ErrorsAreTold`
(messages sent and waiting tell the error bits, through overflow and wrap),
`HeartbeatsAreJudged`, `RestartsForCause`, `LampsShowObject`, and
`DeviceRecovers`, what each of the four comes to in the end.

`services` is ten: `Lss` (`LssReachesChosen`), `SyncPdo` and `TpdoTypes`
(`PdosKeepTime`), `PdoConfig` (`PdoIsInEffect`), `Fifo` (`ImplementsQueue`),
`FifoText` (`TextSurvives`), `Gateway` (`GatewayAnswers`), `Srdo`
(`SrdoIsSafe`), `CanOpenObjects` (`ObjectsAreWhole`) and `ObjectDictionary`
(`DictionaryIsSound`). Each of these is a conjunction of named parts that stand,
with what they mean, in the module.

Why the bounds are enough. *cantx*: every mailbox busy, two buffers waiting at
once, a buffer counted twice and a counter that wraps all need no more than
this; the real counter wraps at 65536 by the same code, and the violation run
keeps the real width so that it does not rest on a short counter; on the receive
side one RPDO for each FIFO, identifiers that the filters pass and one they do
not, and all formats of frames, between any two stores. *keypad*: two keys fill
two slots, in either order, with the scanner blocked on a third event while the
other key changes; a threshold of 2 has a sample that only counts and one that
fires, a threshold of 0 fires at every sample. *key_tpdo_lost*: the state
before, the one being sent and the one that overtakes it. *settings*: two values
tell an old image from a new one in every register, and each word keeps its own
fate. *rpdo*: two objects in one PDO are enough for an interrupt between two
writes, two PDOs for the shared error bit. *sdo*: three units make two blocks of
a buffer of two, a transfer is followed by another so that what is left of the
first can meet it, and one loss is enough to bring a time-out of either side.
*device*: two changes overflow the ring, and the overflow error itself can find
it full again; two entries for one node show that a message goes to the first
that accepts it, and two nodes that one which comes back leaves the time-out of
the other reported. *services*: three slaves of which two share a vendor and two
bits of a number are enough for a scan to branch wrongly at a bit and at a part;
timers of two or three periods meet their limit, pass it and restart; a ring of
four places wraps with a reader ahead; texts of four characters open, close and
cut every token; commands that fill the gateway's buffers; safety parameters
that fit, do not, and are changed between two commands; the objects of this
device, and all of them with two SRDOs, whose buffers are counted in another way
with several dictionaries. Losses, calls, changes and transfers are bounded in
the guards of the actions, by constants that say so; nothing is bounded by a
state constraint, and all state spaces are explored completely.

Deadlock is checked where there is always a step, because buttons, masters and
time never stop. It is not in `sdo` and `services`: when the bounded transfers,
calls or lines are used up the models really stop.

## 5. Fairness

- Tasks (`Scanner`, `ProcessEvent`, `CheckRequest` and the rest of the periodic
  task, `CO_process`, `CO_EM_process`, `Periodic`, `HbTask`): weak fairness.
  Each waits for at most a tick, a scan period or 10 ms and no task above it
  runs for ever; the wake-up by notification is not relied on. The exception is
  a scanner with KEYBOARD_PERIOD 0, which starves the timer daemon: `Daemon` is
  fair only while the scanner does not spin.
- Interrupts (`Handler` of `CanTx`, `vLedProcess`): weak fairness, as
  interrupts that are pending are taken. The controller (`Finish`) ends every
  frame it has, which holds when the bus is not off and retransmission is
  disabled.
- Time (`Tick` and `Bite`, `CheckRequest(TRUE)`): weak fairness.
- `Processor` of `FlashSettings` and `Running` of `ObjectWrites`: the CPU goes
  on while it has power.
- Nobody has to press a key, send a frame or a command, or cut the power.

Where a liveness property needs more than that, it says so itself instead of
assuming it: `LossIsTold` presumes a node that stays out of stopped and a
driver that empties its buffer again and again; `QuietBusSettles` a bus that
falls silent; `ComesUp` power that stays; `KeysReachBus` a node that stays
operational with an event timer; `HeartbeatFollows` a heartbeat that stays on;
`BlinkingAlternates` an SPI that does not time out for ever; `BusOffRestarts` a
scanner that does not spin for ever. The services and the SDO transfers are
checked for safety only: their timers are bounded counters, and what must
happen in time is stated as a bound on them.

## 6. Proofs

All proofs hold for every value of the constants, under the ASSUMEs of the
modules, which say no more than the code provides:

- a key, a queue slot, a CAN buffer, a mailbox, an LED level, a value exist; sizes,
  times and counts are natural numbers, rings have two places (`CanTxAssumption`,
  `KeyboardAssumption`, `RpdoAssumption`, `EmergencyAssumption`,
  `HeartbeatsAssumption`, `RestartAssumption`, `LampsAssumption`,
  `FifoAssumption`, `ObjectsAssumption`); so does a unit of an SDO object and of the
  buffers its data pass, and the application's requests are of the four kinds
  (`SdoAssumption`);
- `FlashAssumption`: an erased byte is neither legal nor the valid code;
- `NmtAssumption`: an unknown command is none of the known ones;
- `RxAssumption`: the predefined identifiers differ, and each but that of the LSS
  slave passes a filter; the start sets up every object, NMT before all others;
- `SrdoAssumption`: the times that the write handlers refuse are not stored, some
  stored parameters can be used, and the delay is within the refresh time it is
  subtracted from;
- `SyncAssumption`, `TpdoAssumption`: an RPDO's time is a whole number of calls,
  a cyclic transmission type is at most 240, timers may be off;
- `PdoConfigAssumption`, `DictionaryAssumption`: a mapping entry tells a length;
  a dictionary is ordered by index, and the bytes of a sub-object adjoin in a
  memory that is finite;
- `TextAssumption`: bytes and characters are in a byte's range, and a newline is not
  part of a string;
- `GatewayAssumption`: the application numbers its lines in order, data stand behind a
  `write` only, and the response buffer holds a final response with the piece that
  ends it;
- `LssAssumption`: slaves and targets are addresses, the slaves' of the given number
  of bits; a fastscan takes in the first part and another one, as the header asks, and
  the parts it skips are not needed to tell the slaves apart.

The shape of every proof is the same: an invariant that is inductive, a lemma for
its first state, one for each action (with a step for each conjunct the action can
disturb), one that it implies the property. The invariants, and what they add to
the properties:

- `Driver_proofs`. Transmit: `CountedHasWake` and `CountedIsMarked` are inductive
  given the types: they claim nothing in the middle of a scan, and a scan ends by
  clearing the counter. Receive: `RxInv` says how far a buffer has got
  (`BufferInv`), what the call under way has stored (`SetupInv`) and that a FIFO
  holds data frames only (`FrameInv`); `FirstIndex` finds the buffer the search
  stops at by the well-founded order of the numbers.
- `Keypad_proofs`. `MirrorAlways`: the last event waiting for a key tells its
  state; it is kept by appending an event that tells the new state of its key and by
  delivering the oldest one. `KeyboardImplementsMirror` is a step simulation under
  type correctness, which says that the scanner blocks with one event at most:
  wherever an event goes, the backlog grows at its end and shrinks at its head.
  `StaleOnlyIfPreempted` together with `FreshFrame` is inductive: a quiet TPDO owes
  its value to the frame it sent, and that frame was fresh when it was read. Every
  step of the composition is a step of `Keyboard`, of `KeyTpdo`, or of both, so
  the invariants of the parts hold in it, and together they give
  `BusMirrorsKeysAlways`.
- `ObjectWrites_proofs`. Its steps are steps of `FlashSettings` or leave that alone
  (`WriteStep`). `IdentityInv`: code and identity lie in one word, and the RAM image
  has an identity behind its code, so the page has one. `StoredSoFar`: up to the
  next word the page is the image. `OneSource`: a page that had a code and could
  not be erased refuses its first word. `CopiesInv`: outside a handler the
  dictionary shows the image, except for the object that is loaded with a wrong
  length; inside, except also for the one that is written.
- `NmtRpdo_proofs`. `SlotHoldsDue` adds to `CommandLostOnlyInWindow` that after a
  switch that has taken a command a command that is due has overtaken it; the other
  two properties of `NmtHeartbeat` are inductive as they are. `NewestInv`: a
  flagged frame lies in the buffer; while unflagged, the rest of it still lies there
  and the first objects have it. `UsableInside`: behind the test of
  `CO_RPDO_process` the PDO stays usable, because those who could change that wait
  for the mutex. `CauseInv`: between report and acknowledgement the bit is what was
  found.
- `Device_proofs`. `EmergencyInv`: of the messages waiting for an error the newest
  tells its bit, and if none waits the one sent last does; the ring's used part is
  the head of the log. A call of `CO_error` keeps that (`ErrorIsTold`,
  `ErrorIsListed`) as often as it is made. `HbInv`: where the loop over the
  entries stands, the error bit is that of the entries behind it. `RestartInv`: before a
  bus-off nobody clears the bit and the default task is never more than a period
  late. `LampInv`: an RPDO write under way is the only difference between the object
  and the lamps that have not blinked since.
- `Services_proofs`. A step of a service that is not the subject changes none of
  its variables, so each has an invariant of its own. `SrdoInv`: how long a
  receiver has been without a pair and how long it still waits are together within
  the bound; `SrdoIsSafe` follows with `PairInv` (below). `PdoInv`: a count of mapped objects that is not zero is the one in the
  dictionary, and the entries behind it were looked at when it was written. `RingInv`: the places between the
  pointers are the queue; on it rest the lemmas by which the loops over the ring
  (lines, comments, tokens) find what the same loop finds in one piece.
  `SyncInv`: the frames of this cycle are in one buffer and those of the last in the
  other. `TpInv`: what a timer shows and the time since the last frame cover its
  period; the SYNC counter and the SYNCs since then add up to the type. `DictInv`: what is sought
  lies inside the bounds of the search, and the width of these times 2^n, after n
  passes, is within the length; a transfer has moved what it counts. `ObjInv`: what
  is on the heap is what `CO_new` takes, and an object that is initialised has its
  buffers (`BuffersDiffer`: no two objects reserve the same one). `LssInv`: unless a
  frame was lost or a time-out came too early, the state of the master tells what the
  frames on the bus, the slaves' mailboxes and the slaves are in: at rest all wait or
  are about to be told so (`RestInv`), after a global switch none may be without its
  frame (`GlobalInv`), a selection has come so far in every slave (`SwitchInv`), one slave
  has a service before it, in hand or behind it (`SelectedInv`), and a scan
  (`ScanInv`) keeps with it exactly the slaves whose numbers are those found so
  far, the number in work being theirs down to the bit that is asked. That a bit is found from
  the answers, or from none coming, is arithmetic of the powers of two (`Twice`);
  that only one slave is left in the end is what `LssAssumption` says of the skipped
  parts.
- `Gateway_proofs`, which goes on from `Services_proofs`. `GatewayInv`: `HeldInv` says what
  part of the response buffer is `due`, also in the middle of a read that fills it
  piece by piece; `StreamOk`, that the lines not yet read, in the fifo and still with the
  application, are numbered above the command in work, and that data stand behind
  data or behind a `write` that has not ended, so that a line is never taken for a
  value nor a value for a line; `AnswersOk`, that the command in work has not been
  answered and the one before it has; `MasterOk`, for each state of the gateway what
  the LSS master may be doing and whether its time-out is the default.
  `TextTypes`: the reading side stands in what has arrived of the text, a first hex digit
  that is memorised is below 16, and a turn of the loop puts out no more bytes (`Puts`)
  than it has made sure of (`Need`, three for base64 and one otherwise). `PairInv`: on the
  bus an inverted frame repeats the normal one before it, the last normal one is
  what the sender repeats next, and to a normal frame in hand the inverted one has
  come, comes next or is sent next. `SrdoBounds`: a
  timer is within the longer of the two times it is started with, and the frames on
  the bus are no more than fit. `DictBounds`: a stream is at the beginning of its object or inside it, and
  the place of a byte in a transfer is within the memory. With these two and the other
  services' invariants, `TypeOKAlways` follows.
- `Sdo_proofs`. `SdoInv`: `Joint` says for each state of the client in which states
  the server can be, what the one request or the one response under way is, and what
  the data in the object, in the buffers of both and in that frame add up to. There
  is one of each at most, as the client sends the next request on an answer only;
  `ClientArrives` and the lemmas before it take the transfers one answer at a time.
  Segments of a block and their acknowledgements may come in any number, also those
  of an earlier block: nothing is claimed of them but their form (`Formed`), and
  `Joint` says instead that both sides' checksums are those of what they have sent
  and stored (`Stored`, `Sent`, `Rcvd`), so that the comparison at the end is what
  makes the data equal. `Joint` is claimed while the transfer is `Live`: a transfer that
  fails leaves its result only, and of one that starts before the answer to the last
  one has come (`late`) neither property says anything. `Whole`: the object keeps its length
  whatever is written.

The provers cannot instantiate the library's induction schemes, which take an
operator. `Services_proofs` therefore begins with induction over sets:
`LeastNatural` (from the well-founded order of the numbers), `NaturalInduction` (a
set of numbers with 0 and every successor has all), and `Recursion` and
`RecursOnce` (a function that is defined by its value at 0 and a step exists and
is the only one). That is how the running sums of `CanOpenObjects`, the powers of
two of `ObjectDictionary` and the loops of `Fifo` are reasoned about.

Model-checked only: all liveness properties (`BacklogIsScanned`, `KeysReachBus`,
`ComesUp`, `DeviceRecovers`, `HeartbeatFollows`, `QuietBusSettles`), which need
fairness and ENABLED; `TextSurvives`, in which a text read in pieces is compared with the
result of a loop over the whole of it; `UnitsInPlace`, which bounds
buffers by the size of the instance's channel, and which speaks of late transfers
too, of which `Joint` claims nothing.

## 7. What the runs have found

- `CAN_SendMessage` (`CO_driver_ST32F103.c:487`) clears `CANtxCount` whenever
  its loop ends; a buffer that found no mailbox stays marked and nobody scans
  for it until another message is counted (`cantx_stranded`). What does hold is
  the weaker `CountedHasWake`.
- A key event that preempts `CO_TPDOsend` between its read of 0x2000 and its
  write of flagsPDO is not transmitted (`key_tpdo_lost`, `process.c:391`). It is
  the only such window (`StaleOnlyIfPreempted`), and a nonzero event timer,
  0 by default, repairs it (`KeysReachBus`).
- An NMT command received between the switch and the clear of `CO_NMT_process`
  is dropped (`nmt_command_lost`, `CO_NMT_Heartbeat.c:281`), and only there
  (`CommandLostOnlyInWindow`).
- `CO_CAN_ERRTX_OVERFLOW` is never cleared, because the counters that would
  cause it to be recalculated are never assigned; with this NMT_CONTROL the node
  then leaves operational until it is reset (`nmt_overflow`,
  `CO_driver_ST32F103.c:416`).

Besides these, the models had to follow the code in the following places, where
the properties say what holds in spite of it:

- *Product.* `vFDInit` sets 0x2005 with a length of one byte for a parameter of
  two, so the object shows its built-in value until it is written.
  `OD_writeBRIGTH` answers ODR_SUB_NOT_EXIST for subindexes 5 and 6 that it has
  stored (`process.c:326`). KEYBOARD_PERIOD 0 makes a bus-off go unnoticed.
  A lamp keeps the phase in which blinking stopped until 0x2001 is written.
- *PDO.* The RPDO time-out is compared with `>` after a `<`, so it fires only if
  a period is not hit exactly, and one that was reported is not withdrawn when
  the node leaves operational, the RPDO is switched off or its event timer is
  written (`unlinked`). A write of the transmission type, and a pass that is not
  operational, clear the inhibit timer and ask for a frame, which is then sent
  within the inhibit time (`excused`). A start value above the overflow of the SYNC
  counter is never reached. An event frame that waits in the driver when the
  type is changed to synchronous is dropped as a late one. Writing the COB-ID
  as it reads pins the node-ID into it (`pinned`), and the default identifier
  without node-ID reads back with it. A wrong entry beyond the count of mapped
  objects disables the PDO at the start, and an entry of a dummy object keeps
  the request flag of its predecessor.
- *SDO.* A string that ends where the server's buffer is full goes on with one
  zero: `readFromOd` does not look beyond what it has read, and one byte is the
  least of the next read. Its size is not announced then. The client does not reduce the transferred size when a block is sent
  again (`CO_SDOclient.c:786`). Its abort replaces the server's when the
  transmit buffer is full (1212). After the last segment of an upload the data
  may be told from the end only by the caller (1385). An answer that belongs to
  a block given up is kept out by the checksum only.
- *Heartbeat consumer.* A heartbeat that meets the clearing of its flag leaves a
  node active with an unknown state (`UnknownOnlyByRace`), and
  `allMonitoredActive` stays TRUE while the consumer's own node is stopped.
- *Fifo.* One character after a quoted string is accepted (`CO_fifo.c:1233`), a
  newline in a visible string cannot be read back, and blanks in front of a
  word that are longer than the buffer become part of it.
- *Gateway.* A response formed while another is held replaces it
  (`past.overrun`). A wrong value in a long `write` can swallow the next command
  or take the rest of the value for one, or answer OK after an error. The
  time-out of a state is not restarted during a `write`. `lss_allnodes` refused
  for its last argument, or a gateway that is disabled in a scan, leaves the
  LSS master with a changed time-out. A command whose sequence number is
  malformed is answered with the number before.
- *SRDO.* `toogle` is not reset when the node leaves operational, so the next
  operation may open with a single inverted frame (`ghost.resumed`). A frame
  between comparison and copy splits a pair (`ghost.split`).
  `CO_SRDOcalcCrc` and `CO_SRDOconfigCom` add the node-ID differently to a
  default identifier. With several SRDOs a wrong checksum of a later one does
  not stop an earlier one. Two NMT commands with a write between them, all
  between two calls of `CO_SRDO_process`, would put unverified parameters in
  operation; the model, as the stack's cycle does, has a call between any two
  commands.
- *Receive filters.* They are set once and do not follow a write of a COB-ID
  (`CO_driver_ST32F103.c:250`), so an RPDO that is moved may hear nothing, and
  of two with one identifier only the first hears it (`DeafOnlyIfMoved`). The
  identifier of LSS requests is in no filter: the LSS slave is never reached.
- *Object dictionary.* `ODR_OD_MISSING` has the value of `ODR_DATA_DEV_STATE`
  (`CO_ODinterface.h:197`), so its abort code is never sent. A write in pieces
  that turns out too long has changed the object when it is refused, and an
  object that others write between the pieces is read or left as a mixture.
- *CANopen.c.* With several dictionaries the indexes set aside four buffers for
  an SRDO that takes two, and `CO_delete` frees the caller's NMT object when the
  node has none of its own (`callersNmt`). `SDOclient` is freed with `free` and
  not with `CO_free`, the buffers of the trace are not allocated with a heap.

## 8. Not modelled

TIME, GFC, LED indicators and trace are short sequences of
steps without a second party, and not in the build. Of the modelled services:
what the application does when LSS activates a bit rate; the
SDO client's transfers to its own dictionary; the conversions of numbers in the
fifo, which are arithmetic; which digits of a gateway command make which
number; the termination of SDO transfers. Contents of messages are values that
the properties tell apart, checksums tell equal from different. Vendor code,
FreeRTOS and the library are outside; where the product depends on them (queue,
mailboxes, flash controller, timer daemon) they are modelled by how it uses
them.
