# Verification of the i.MX IoT Core drivers

TLA+ specifications of the concurrent parts of the Windows IoT Core drivers for
i.MX processors, their TLC configurations, and TLAPS proofs. Paths below are
relative to `src/imx-iotcore/`.

## 1. The system

The repository is a board support package: about twenty Windows drivers, HAL
extensions, and build files. They hardly talk to each other; each is called by
its class framework (NDIS, SerCx2, SpbCx, GpioClx, portcls, sdport, WDF) and owns
its hardware. The inventory, with what makes each part hard:

| Part | State it keeps | Operations | What is hard |
|---|---|---|---|
| ENET miniport, transmit (`driver/net/ndis/imxnetmini/mp_data_path.c`, `mp_hw.c`) | two frame queues, the ring of DMA descriptors with its software twin, NBL and NB counters, hang counter | `MpSendNetBufferLists`, `MpCancelSendNetBufferLists`, `MpCheckForHangEx`, `EnetIsr`, `EnetDpc`, `MpHandleTxInterrupt`, `MpTxCancelAll`, `MpTxInit` | senders, DPC, cancel and stop on several processors; frames unwound outside the lock; the MAC that clears READY and TDAR behind the driver's back |
| ENET miniport, receive (same files) | ring, free and pending index, list of free frames, counts of frames in the ring and at NDIS, saved interrupt flags | `MpHandleRecvInterrupt`, `MpReturnNetBufferLists`, `MpRxInit`, `IsRxFramePandingInNdis` | frames come back in any order, at any time, also after a stop; throttled DPCs; low resources |
| ENET miniport, state machine (`mp_sm.c`, `mp_main.c`, `mp_req.c`) | current and next state, one-shot timer, reset flag, power state, link state | `MpRestart`, `MpPause`, `MpResetEx`, `MpHaltEx`, `MpSetPower`, the dispatcher and five state handlers | a single slot for the wanted state with several writers; late timer DPCs; a reset that runs through the states of a pause |
| ENET miniport, MDIO and PHY (`mp_mdio.c`, `mp_enet_phy.c`) | bus list, devices, a free list of frames, the command in progress; the engine's state, the registers as read, the link | `MDIOBus_Open/Close`, `MDIOBus_AddDevice/RemoveDevice`, `MDIODev_QueueCommand`, `MDIOBus_Main`, `MII_StateEngine` | adapters share one bus, its thread and its controller; they come and go during transfers; a free list that runs dry inside a command; a link that changes between two reads, and a negotiation the engine itself restarts |
| ENET miniport, initialisation and OIDs (`mp_init.c`, `mp_req.c`, `mp_acpi.c`, `mp_dbg.c`) | the adapter block | allocation, registers, information requests | little: sequential |
| UART (`driver/serial/imxuart`) | receive and transmit buffers with one writer and one reader each, a state per notification (`RxState`, `TxState`, `TxDrainState`, `TxPurgeState`), the masks of enabled interrupts, a cyclic DMA buffer with its counters | SerCx2's callbacks (`PioReceive…`, `PioTransmit…`, `CustomReceive…`), ISR and DPC, DMA progress timer, DMA completion callback, WDF cancellation | buffers used without a lock on one side; notifications that race their cancellation; interrupts masked at one place and needed at another; three parties that read one DMA buffer |
| ECSPI (`driver/spi/imxecspi`) | the current request, two slots of prepared transfers, cancellation state, idle flag, controller lock, chip select pin | SpbCx callbacks, ISR, DPC, cancel, completion of GPIO writes | the ISR uses prepared transfers up while the DPC prepares more; DPCs on several processors; whoever answers the request last has to negate the pin |
| I2C (`driver/i2c/imxi2c`) | the current transfer, bus state | SpbCx callbacks, ISR, DPC, cancel | cancel against interrupt |
| PWM (`driver/pwm/imxpwm`) | controller and pin: lock, owner, running | open, close, IOCTLs, ISR | exclusive write opens that have to be undone on every error path |
| GPIO, SD host (`driver/gpio`, `driver/sd`) | registers | class callbacks | the framework serialises |
| Power engine plug-in (`driver/power/imx6pep`) | reference counts of clock gates, device power states | PEP notifications | order of notifications |
| HAL extensions (`hals/halext`) | timers and SDMA channels | HAL callbacks | registers |
| TrEE / OP-TEE (`driver/TrEE`) | sessions, shared memory, RPC in progress | service calls, RPC | interleaved RPCs |
| Audio controllers and codecs (`driver/audio`) | stream state, DMA position | portcls stream calls | stop against DMA interrupt |
| USB Type-C client, display, video (`driver/usb`, `driver/video`) | pass-through state | framework callbacks | mostly third-party or sample code |

`PROJECT.json` lists the same parts with their status. Modelled so far are the
ENET miniport, the part with the most processors, queues and hardware in play
at once, and the two serial controllers with the most intricate interrupt
routines, UART and ECSPI.

```
        NDIS:  send  cancel  check-for-hang        return            restart pause reset halt power
                 |     |        |                     |                  |     |     |     |    |
             +---v-----v--------v---+         +-------v-------+     +----v-----v-----v-----v----v--+
             |   EnetTx             |         |  EnetRx       |     |  EnetSm: SM_NextState, timer |
             |   queues, ring       |         |  ring, counts |     |  dispatcher, handlers        |
             +--^----------^--------+         +--^---------^--+     +--+------------+--------------+
                |          |                     |         |           |            |
             MAC DMA    EnetIsr / EnetDpc (shared)      MAC DMA     EnetStart,   MII_StateEngine
                                                                    EnetStop,    (link state)
                                                                    MpTxCancelAll     |
                                                                                   EnetPhy
                                                                                      |
                                                                                 +----v----------+
                                    the other adapter's MII_StateEngine -------> |  MdioBus      |
                                                                                 +---------------+
```

`EnetTx` and `EnetRx` contain the calls the state machine makes into them
(`EnetStart`, `EnetStop`, `MpTxCancelAll`, the poll while pausing); `EnetSm` has
of the data path only that there are, or are no, frames in flight (`busy`).

UART and ECSPI talk to their frameworks and to hardware only (ECSPI besides to
the GPIO driver, for the chip select):

```
   SerCx2: write  drain  cancel  purge       SerCx2: read  notify  cancel       SpbCx: request  lock  unlock
             |      |      |       |                   |      |      |                   |       |      |
          +--v------v------v-------v--+          +-----v------v------v---+         +-----v-------v------v---+
          | UartTx: buffer, states    |          | UartRx: buffer, state |         | Ecspi: request, slots  |
          +--^--------+---------------+          +--^-----------+--------+         +--^-------+--------+----+
        ISR, DPC   TX FIFO -> line             ISR, DPC   line -> RX FIFO         ISR, DPCs  burst   GPIO driver
                                                 UartRxDma: DMA buffer,                               (chip select)
                                                 timer, callback, cancel
```

## 2. Modules

| Module | What it is |
|---|---|
| `RingIndex` | index arithmetic of a ring of `ItemCount` descriptors: `Wrap`, `Ahead`, `InOrder` |
| `EnetTx` | the transmit path |
| `EnetTxProofs` | its theorems |
| `EnetRx` | the receive path |
| `EnetRxProofs` | its theorems |
| `EnetPhy` | the engine that follows the link, and the PHY it follows |
| `EnetSm` | the state machine and NDIS's requests; extends `EnetPhy`, whose engine runs on each of its turns |
| `EnetSmProofs` | its theorems |
| `MdioBus` | the MDIO bus objects, their threads, and the commands of the PHY engines |
| `MdioBusProofs` | its theorems |
| `UartRing` | `IMX_UART_RING_BUFFER` (`imxuart.h`, `imxuart.cpp:46-146`): count, room, and the two pieces that an enqueue or dequeue copies around the buffer's end |
| `BytePipe` | the abstract specification: what one direction of a serial port promises |
| `UartTx` | programmed transmission; implements `BytePipe` |
| `UartRx` | programmed reception; implements `BytePipe` |
| `UartTxProofs`, `UartRxProofs` | their theorems, the refinement of `BytePipe` among them, and those about the enqueue and the dequeue of `UartRing` |
| `UartRxDma` | reception by DMA and the programmed read after it; implements `BytePipe` |
| `UartRxDmaProofs` | its theorems |
| `Ecspi` | the ECSPI controller driver |
| `EcspiProofs` | its theorems |
| `MCEnetTx`, `MCEnetRx`, `MCEnetSm`, `MCMdioBus`, `MCUartTx`, `MCUartRx`, `MCUartRxDma`, `MCEcspi` | instances for TLC |

### EnetTx

One action per critical section of `Tx_SpinLock` or `Dev_SpinLock`, or per
interlocked step between two of them. `MpSendNetBufferLists` is a process per
call (`snd[c].pc`): `Send` reads `NdisStatus`; for every NET_BUFFER `AllocTxBD`
counts it and takes a descriptor (`alloc`), `MapNB` maps and queues it under the
lock (`map`), `CountNB` increments `Tx_PendingNBs` after the lock (`count`), or
`FailNB` discards it; `KickSend` is the final `MpSendNextNB`. The DPC is
`EnetDpc` (read and clear EIR), `MpHandleTxInterrupt` (reap under the lock),
`MpTxUnwindNetBuffer("dpc")` once per frame, `DpcSendNext`, `DpcEnable`.
`unwinding[u]` is the private list of frames that DPC, state machine or cancel
have taken from the queues and unwind after releasing the lock. The MAC is
`HwTransmit` and `HwTxError`: it clears READY, raises TXF, and drops TDAR at a
descriptor that is not ready.

`MpTxUnwindNetBuffer` decrements the NBL's counter (264) and, after the completion
it may bring, `Tx_PendingNBs` (276) in one step: nobody waits for the second one and
acts on the first, and the pause that reads the second asks for both. `HwTransmit`
fetches one descriptor per step and drops TDAR with the fetch that finds none ready;
the hardware's own order between the two is not documented in the source.

What is abstracted: addresses, SG lists, copying and padding, packet filters,
statistics, completion status and flags. An NBL completed "with an error" and one
completed normally count the same in `completions`.

`Overlap` names what the state machine may find in progress when it stops or
starts the MAC: `"dpc"` a DPC between two critical sections, `"send"` a call of
`MpSendNetBufferLists`, `"cancel"` a cancel that has frames to unwind,
`"running"` a MAC that is running already (a changed link speed), `"stale"`
slots whose frames a stop cancelled, `"pausing"` a call of
`MpSendNetBufferLists` during the poll of `MpOnPausingStateHandler` (NDIS does not
pass frames to a pausing miniport; a call that it let in before may still run). The
code excludes none of them. The passing run has `"send"` and `"running"`; the others
break a property: `"cancel"` in the run `tx_pause`, the rest as section 5 says.

### EnetRx

`frames` are numbered; a frame is in a slot of the ring, with NDIS, in a private
list of the DPC, or loose (returned while the MAC is stopped). `MpHandleRecvInterrupt` takes the
received frames under `Rx_SpinLock`, then the frames with errors go back
(`ReturnErrors`), the good ones are indicated (`Indicate`), and, with low
resources, go back with the call (`ReturnSync`). A throttled DPC keeps its flags
and leaves the interrupts masked (`Throttled`, `KeptFlags`).

### EnetSm

`SmSetState` is `SetByNdis` and `SetByDispatcher`; `TimerExpires` lets the DPC of
`SM_hTimer` be queued, and `due` counts those that have not got `SM_SpinLock`
yet; each handler is an action guarded by the state that becomes current.
`ASSERT(0)` in a handler's `switch` sets `asserted`. Beside the code there is the
miniport as NDIS sees it (`ndis`, `resetting`): the guards of the requests are
the order in which NDIS calls (pause only a running miniport, halt or power a
paused one). `Concurrent = FALSE` adds that NDIS does not reset an adapter while
it pauses, restarts or powers it; `TRUE` drops that.

`link` is the adapter's `LinkState`, `phyLink` the PHY's, which the handler of
RUNNING copies; `told` says whether NDIS was told of the last change.

### EnetPhy

`MII_StateEngine` is called by the dispatcher under `SM_SpinLock`; each case of its
`switch` is an alternative (`NotInitialized` to `LinkUp`), taken when no command
is pending (`cmd`). What it queues is a record: what `MII_SetLinkPropertiesCmd`
writes, if it is called, and whether the configuration is read before the status.
The MDIO bus carries it out in three steps (`WriteConfig`, `ReadConfig`,
`ReadStatus`), between which the link may change; that it does so at last is
`MdioBus`'s `CommandDone`. `regs` is what was read, `wire` the PHY: writing C restarts
the negotiation, LINK_STATUS stays low once the link was lost until it is read
(IEEE 802.3, 22.2.4.2), and the boot loader leaves any configuration and link.
Link properties are reduced to what the engine decides on: 1000 Mbs, anything
slower, and the partner's pause frames. The PHY has auto-negotiation and
1000BASE-T, and `SpeedSelect` its default. (`MpInitializeEx` always asks for
auto-negotiation; the branch of `MII_SetLinkPropertiesCmd` without it is for PHYs
that have none.)

### MdioBus

A bus object is known by the device that created it. `adapter[d]` says where
`MDIODev_InitDevice` and `MDIODev_DeinitDevice` are: one action for the search
under the driver's lock (`OpenBus`), for the allocation without it (`CreateBus`),
for the listing (`LinkBus`), for `AddDevice`, `RemoveDevice`, `CloseBus`, and
`FreeBus` when the thread has gone. A round of `MDIOBus_Main` is split where it
takes or releases a device's lock: the end of a transfer (`FinishTransfer` or
`NothingDone`), the callbacks (`Callback`), one `ScanDevice` per device it looks
at, and `RearmTimer`. `QueueCommand` is one action, under the device's lock;
`MII_StateEngine` may queue a configuration first (`Configs`, the frames of a
command without callback) and always queues a read (`Reads`, a command whose last
frame calls `PHYCmd_CmdDone_Callback`). A frame is TRUE if it has that callback.
The controller is `HwTransferDone`; `hw` remembers whose frame is on the wire.
The registers, the clock divider and the engine's states are abstracted.
`Overlap` has `"open"` if one adapter may open or close the bus while another
does, `"wire"` if one may be removed while its frame is on the wire, `"map"` if the
registers of a new bus may fail to be mapped: the bus is freed and the device keeps
its address (`adapter[d] = "lost"`; what becomes of it after that is undefined, and
nothing of it is modelled). The code excludes none of them. The passing run has
none, and each has a configuration in which TLC refutes a property with it
(section 5).

### UartTx, UartRx

SerCx2 makes one write (read) request at a time; `request.pc` is where it is. A
write is `WriteBuffer` (states reset under the interrupt's lock), `WriteTxd`
(one byte to the FIFO at a time, while the buffer is empty), `EnqueueCopy` and
`Publish` (`EnqueueBytes`: the copy, then the new `HeadIndex`; no lock),
`WriteEnablesTrdy` (under the lock) and `WriteReturns`; then
`EnableReadyNotification` or `DrainFifo`. Cancellation runs on another thread
(`request.cancelled`), and is followed by `PurgeFifo`. A read is `ReadBuffer`,
`Dequeue`, `Copy`, `Release` (`DequeueBytes` without a lock), then
`EnableReadyNotification`. The interrupt routine is split as the code reads and
publishes: `IsrEnter` (status registers and indices into locals), one `IsrMove`
per byte, `IsrMoved` (the index published), `IsrNotify`. It holds the
interrupt's lock throughout: actions that take that lock need `Unlocked`. The DPC
checks each state on its own, without a lock. One DPC at a time is assumed, as
when the interrupt is routed to one processor; two would both find
WAITING_FOR_DPC and call SerCx2 back twice.
Bytes are numbers, given when the driver (`UartTx`) or the FIFO (`UartRx`)
accepts them.

SerCx2 is modelled from its contract and the driver's use of it: one request at a
time, cancellation only of a notification asked for, a purge after a
cancellation, `CloseAndOpen` only when no request is outstanding.

`HwShift` takes a byte off the FIFO at any time, so that the FIFO may run empty in
the middle of the interrupt routine and while bytes are in the buffer. The
properties of the passing run do not mind; `DrainedWhenComplete` does, and TLC
refutes it (`UartTxDrain.cfg`).

### UartRxDma

A custom receive transaction is `StartRxDma`, four unlocked stores
(`AssignRequest` to `AssignCounts`), `EnableRxDma` under the lock with
`WdfRequestMarkCancelableEx`, then `StartCopies`, `StartCompletes`, `StartArms`;
`Cleanup` after the completion. The two callbacks (`"timer"`, `"complete"`) are
`GetBytesTransferred`, `CallbackCopies`, `CallbackCompletes`, `CallbackRearms`,
each a section of the transaction's `Lock`, with the bytes counted in the first
carried as a local (`call[c].bytes`). A programmed read takes the residue
(`PioRead`, `PioTakes`, `PioStops`).

Assumed of the environment: the DMA is never a whole buffer ahead of the driver
(`HwStore`); the transfer does not end with an error; SerCx2 calls cleanup only
after start returned; callbacks of one transaction have ended before the next
one stores its fields (`MayCall`, `Settled`), which the code does not enforce but
the timer's period makes overwhelmingly likely; and (`CancelledAtStart = FALSE`)
no request is cancelled before it has been marked. The request's buffer is one MDL.

`taken` is history, the bytes taken out of the cyclic buffer for the request; `user`
is what its buffer holds. They differ where `IMXUartRxDmaCopyToUserBuffer` copies in
two pieces (`Landed`): its loop advances the offset in the MDL, not the address it
copies to, so that the second piece, from the beginning of the cyclic buffer, goes
where the first went. `TakesInOrder` is about `taken`, the reading position and the
counts; `BufferFilled` is about `user`, and has the violated run `uart_rx_dma_wrap`.

With `CancelledAtStart = TRUE`
TLC refutes `RequestHeld`, and `TakesInOrder`: the failing branch of
`WdfRequestMarkCancelableEx` (1442) forgets the request but leaves
`BufferMdlPtr`, and the next callback copies into a completed request's buffer.

### BytePipe

Three actions: numbered bytes go in, come out in order, and the newest may be
discarded. The detailed modules are mapped by `pipe <- Pipe`, the bytes in FIFO,
buffer and the interrupt routine's or reader's hands, in order; `next` and
`last` are history of the detailed module with the same names. The refinement
says that nothing is lost, doubled or overtaken while one side of each buffer
works without a lock.

### Ecspi

Requests are numbered as SpbCx makes them, one at a time. Sections under
`DeviceLock` are steps. `Prepare`, `AssertCS`, `EnableRequestCancellation` and
`StartTransferSafe` are the way of a request to the hardware, on whatever thread
(`io[r]`); `TransferEnds`, `BurstEnds` and `MarkIdle` are the interrupt routine;
`DpcStart` to `DpcCompletes` are one instance of the DPC, by processor
(`dpc.cpu[c]`); `GpioAssertCompletion` and `GpioNegateCompletion` are the
completion routines of the chip select's writes, which share one buffer
(`GpioData`). `wdf` is WDF's side of cancellation; `RequestCancel` is the
routine, `CancelAnswers` its end after the lock. Words and FIFO levels are left
out: a transfer, of any type, is one or two bursts. The refused marking completes the
request while it holds `DeviceLock` (`ECSPIdevice.cpp:974-975`), which
`ECSPIEvtRequestCancel` takes care not to do (485-488: "to avoid getting a new request
while the device lock is held"); a locked section is one step here, so a call back
from inside it cannot be expressed.

`Cpus` is the set of processors on which the DPC may run at once. `Races` names
what the environment does besides; the passing run has `"mark"` and `"timeout"`
and one processor. The others are possible as far as the code goes, and each
refutes something:

| Race | What it is | What TLC then finds |
|---|---|---|
| two `Cpus` | instances of the DPC overlap | `RequestAnswered` (`EcspiDpc.cfg`) |
| `burst` | a transfer of a sequence of two bursts | `SuccessWhole` (`EcspiBurst.cfg`) |
| `again` | the next request comes between the two completions of one that was cancelled before it was marked (`ECSPIdevice.cpp:975`, `ECSPIspb.cpp:1220`) | `CompletesOwn` (run `ecspi_again`), and with it `Quiet` and `CsReleased`: the next request is answered while it starts or runs |
| `start` | a cancellation between the marking and `ECSPISpbStartTransferSafe` (`ECSPIdevice.cpp:1756-1765`) | `SuccessWhole`: the thread answers the request, and the pin write of the cancellation answers the next one, with success |
| `locked` | a cancellation while the controller is locked | `RequestAnswered`: the aborted controller is off, and nothing selects it again before the unlock |
| `dpc` | the next request comes while a DPC of the last one has not returned | `SuccessWhole`: that DPC takes the new request for done |
| `outrun` | the controller runs through all that is prepared between the DPC's preparation and its look at `IsIdle` | `RequestAnswered` |
| `prepare` | preparation fails in the DPC, in mid-sequence | `Quiet`: answered with transfers running |
| `gpio` | the GPIO driver refuses or fails a write | `CsReleased` |

Only the first three contradict words of the source; the others are timing or
failures that the source does not speak of. What they refute is mostly that a
request is answered. The safety properties survive more than the run allows
them: section 4 proves them for any number of processors, with `locked`, `outrun`,
`mark` and `timeout`, and with `burst` and `gpio` but for the one property that
each refutes.

## 3. Runs

| Run | Result | Shows |
|---|---|---|
| `tx` (`EnetTx.cfg`) | passes, about 1.0 million states | the seven properties below |
| `rx` (`EnetRx.cfg`) | passes, about 106 000 states | the five properties below |
| `sm` (`EnetSm.cfg`) | passes, about 0.33 million states | the four properties below |
| `mdio` (`MdioBus.cfg`) | passes, about 0.43 million states | the four properties below |
| `uart_tx` (`UartTx.cfg`) | passes, about 0.68 million states | the four properties below |
| `uart_rx` (`UartRx.cfg`) | passes, about 0.46 million states | the four properties below |
| `uart_rx_dma` (`UartRxDma.cfg`) | passes, about 0.38 million states | the five properties below |
| `ecspi` (`Ecspi.cfg`) | passes, about 0.15 million states | the six properties below |
| `tx_pause`, `uart_rx_ready`, `uart_rx_dma_wrap`, `ecspi_again` | violations of one property each | section 5 |

Six more configurations, `UartTxDrain.cfg`, `MdioBusWire.cfg`, `MdioBusOpen.cfg`,
`MdioBusMap.cfg`, `EcspiDpc.cfg` and `EcspiBurst.cfg`, are not runs of the project; TLC
refutes the one property of each, as section 5 says
(`tlc -config MdioBusWire.cfg MCMdioBus`).

Transmit:
`FrameInOnePlace` (a frame is linked into one list, once: `MP_TX_BD` has one
`Link`), `RingMatchesQueue` (the slots from `Tx_EnetPendingBDIdx` on are
`Tx_qDmaOwnedBDs`, so the DPC may drop the queue's head for each slot it reaps),
`CompletedOnce` (an NBL of one frame; see section 5 for several), `PausedDrained`
(the driver's own ASSERT, and no frame held), `FillOnlyWhenStarted`, and the
liveness property `DmaDrains` (no lost interrupt).

Receive: `FrameHasOneOwner` (with the counts), `RingInOrder` (with the MAC
restarted by whoever refills a full ring), `PausedDrained`, and
`ReceivedIndicated` (liveness, across throttled DPCs).

State machine: `Quiet` (a paused or freed adapter is left alone by timer, DPC and
MAC), and the liveness properties `RequestsComplete` (pauses and resets) and
`LinkReported`: with a partner that stays, the engine stops restarting the
negotiation, adapter and NDIS know the speed both sides support (1000 Mbs only
with a partner that has pause frames), and the MAC runs.

MDIO bus: `FramesConserved`, `OneTransfer` (MMFR is not written during a
transfer; here while the adapters' frames are not on the wire when they go), and the liveness property `CommandDone` (no lost wake-up, no starved
device). `TypeOK` includes that reference count, handles and thread agree. The further
configurations have `OneTransfer` with removals, `OneInstance` (one bus per controller)
and `HandleLives` (a device's bus has not been freed).

UART: `SendsInOrder`, `ReceivesInOrder` and, for what is taken out of the DMA's buffer,
`TakesInOrder` (refinement of `BytePipe`),
`CallbackExpected` (a cancellation that returned TRUE is not overtaken),
`BytesAccounted` (each byte of the DMA buffer is pending, counted by one party, or
not yet counted), `RequestHeld` (the driver finds a request as long as WDF has
not got it back, and no longer), and the liveness properties `RequestAnswered`
(no lost TRDY or TXFE), `FifoReported` (no lost RRDY or AGTIM) and
`FilledCompletes` (callbacks that stop and start each other's timer).

ECSPI: `TransfersInOrder` (the slot the controller uses holds the transfer whose
turn it is), `SuccessWhole` (success means that all transfers were carried out),
`Quiet` (an answered request's buffers are no longer used), `CsReleased`, and
`RequestAnswered` (no lost idle mark).

Each property of a passing run has a slip: an operator beside the right one that
a plausible mistake would have written, with which TLC finds the property
violated (`PROJECT.json`, "mutants").

### Bounds

- `ItemCount` is 2 for transmit and 3 for receive. Two descriptors are the
  smallest ring in which full, empty, wrapped and half-full differ; the three
  frames to send overfill it, so a frame waits and the ring goes around. With
  three receive frames NDIS can return two in either order while one is still in
  the ring. (These are also the smallest rings the driver accepts, `TX_DESC_COUNT_MIN` and
  `RX_DESC_COUNT_MIN`; the proofs of section 4 have any size.)
- The chains: one call with an NBL of two frames followed by one of one frame,
  and a call with an NBL of one frame. That is one NBL with several NBs, one chain
  with several NBLs, and two concurrent senders.
- `MaxStarts = 2`: the second start meets what the first left behind; nothing but
  the ring's contents carries over from one start to the next.
- `LowWater = 0` for receive: `Rx_NBLLowWatermark` is a fifth of the ring,
  rounded down, which is 0 for three frames; low resources then means that the
  last frame is being taken.
- `Throttles = {1, 3}`: NDIS lets the DPC indicate one frame, or all.
- `MaxDue = 2` expiries of the timer may wait for `SM_SpinLock`; the hang counter
  stops at 3, the value at which `MpCheckForHangEx` reports a hang.
- PHY: no partner, one with 1000 Mbs and pause frames, one with 1000 Mbs but
  without them; the last makes the engine give 1000 Mbs up, and gives the slower
  link. Partners change any number of times. (With a slower partner besides, all
  four properties hold as well, in 0.8 million states.)
- MDIO: two adapters, with equal and with different PHY addresses; three frames
  instead of `MDIO_FRAME_LIST_SIZE` (64), which a configuration of one frame and a
  read of two fill exactly. `MdioAssumption` says that a configuration and a read
  always fit, as they do with the driver's own commands; a command that does not
  fit would lose its frames.
- UART: buffers of three slots (two bytes of room), smaller than a request, so
  that they fill, wrap and leave a remainder; a FIFO of two (transmit) or three
  (receive) with a level in between; requests of up to five or three bytes, seven
  or six bytes altogether, so that a second request meets what the first left.
  DMA: a buffer of three, requests of two bytes, four bytes: the counter wraps,
  and a second transaction begins with bytes pending.
- ECSPI: two slots, the value of the source; sequences of up to five transfers,
  which use each slot twice and leave one over; three requests.
- Deadlock checking is off: NDIS, SerCx2 and SpbCx may ask for nothing more, and
  NDIS may leave the miniport paused, or halt it.

### Fairness

- Transmit and receive: weak fairness of the MAC, the interrupt, the DPC and the
  state machine's DPC. A DPC that was queued runs to its end on Windows, an
  enabled pending interrupt is taken, and the MAC is external and assumed to
  work. Nothing is assumed of NDIS's calls, but that a call that has begun goes on
  where a property needs it.
- State machine: the timer expires, its DPC runs, a reset that has set its flag
  goes on to `SmSetState`, and frames in flight drain. The last is what
  `MpTxCancelAll` and NDIS's contract (returning indicated frames) provide. The
  MDIO bus carries out what was queued (`CommandDone` of `MdioBus`), and PHY and
  partner agree on a link when they are left alone; nothing makes the partner stay.

- MDIO bus: the thread and its timer run, the second of two commands queued in a
  row is queued, the controller ends a transfer. `CommandDone` supposes besides
  that adapters stop coming and going at last.
- UART: the interrupt is taken while it is asserted, a queued DPC and the calling
  thread go on (strongly fair where the interrupt's lock is taken away and given
  back again and again: a spin lock is granted in order), received bytes age, the
  progress timer expires. The line sends only while the peer's CTS does not hold
  it back, so `RequestAnswered` supposes that it does not, or that SerCx2 cancels.
  Nothing makes the peer send or SerCx2 ask.
- ECSPI: a burst ends, the interrupt is taken, DPCs run, the GPIO driver answers,
  threads go on. Nothing makes a client send, cancel, lock or unlock.

## 4. Proofs

Each theorem is about every value of the constants that the module's assumptions
admit: every number of NBLs, frames, calls, adapters, every size of ring, buffer and
FIFO. What it needs beyond that is a hypothesis of the theorem, on the constant that
names what may be in progress (`Overlap`, `Undrained`, `Concurrent`, `CancelledAtStart`,
`Races`); sections 2, 3 and 5 have what each of them stands for. Of what the code does
not keep there is no theorem: `DrainedWhenComplete`, `BufferFilled`, `OneTransfer` and
the `PausedDrained` of transmission are left to TLC, which refutes them. The assumptions (`TxAssumption`, `NBLSentOnce`,
`RingAssumption`, `MdioAssumption`, `SizeAssumption`, ...) are evaluated by the runs.

| Module | Theorems | Hypothesis |
|---|---|---|
| `EnetTxProofs` | `TypeCorrect` (`TypeOK`), `NoEarlyFill` (`FillOnlyWhenStarted`) | none |
| | `RingInOrder` (`RingMatchesQueue`) | no `"stale"` |
| | `OnePlace` (`FrameInOnePlace`), `CompletesOnce` (`CompletedOnce`) | no `"stale"`, no `"dpc"` |
| `EnetRxProofs` | `TypeCorrect` (`TypeOK`), `OneOwner` (`FrameHasOneOwner`), `RingStaysInOrder` (`RingInOrder`), `PauseDrains` (`PausedDrained`) | `~Undrained` |
| `EnetSmProofs` | `TypeCorrect` (`TypeOK`: no handler reaches `ASSERT(0)`), `QuietWhenPaused` (`Quiet`) | `~Concurrent` |
| `UartTxProofs` | `EnqueueFillsRoom`, `EnqueueAppends` (about `UartRing`), `TypeCorrect`, `CallbackOnlyWhenExpected` (`CallbackExpected`), `TransmissionInOrder` (`SendsInOrder`) | none |
| `UartRxProofs` | `DequeueTakesAvailable`, `DequeueInOrder` (about `UartRing`), `TypeCorrect`, `CallbackOnlyWhenExpected` (`CallbackExpected`), `ReceptionInOrder` (`ReceivesInOrder`) | none |
| `UartRxDmaProofs` | `TypeCorrect` (`TypeOK`), `EveryByteAccounted` (`BytesAccounted`), `RequestFound` (`RequestHeld`), `TakenInOrder` (`TakesInOrder`) | `~CancelledAtStart` |
| `MdioBusProofs` | `TypeCorrect` (`TypeOK`), `FramesKept` (`FramesConserved`) | no `"open"`, no `"map"` |
| `EcspiProofs` | `TypeCorrect` (`TypeOK`), `RunsInOrder` (`TransfersInOrder`), `QuietWhenAnswered` (`Quiet`) | no `"start"`, `"dpc"`, `"prepare"`, `"again"` |
| | `CsReleasedAfter` (`CsReleased`) | nor `"gpio"` |
| | `SuccessOnlyWhole` (`SuccessWhole`) | nor `"burst"` (`"gpio"` may be) |

Every component's module states its inductive invariant, `Inv`, as named
parts, lemmas about lists and indices, then a lemma per action or group of
actions that preserves it, and ends with the theorems; a lemma about rings or lists
stands in each module that cites it. None of the properties is
inductive by itself; what each needs besides:

- **Transmit, types.** `CountNB` and `NextNbl` step through a chain, so that the
  frame `MapNB` queues is one of the NBL's needs `CallsInBounds` (a call that is not
  done is at a position inside its chain and its NBL). `FillOnlyWhenStarted` needs
  that before the first start `Tx_EnetFreeBDCount` is zero (`NoSlotBeforeStart`), which
  is what saves the driver from the zeroed `NdisStatus` that reads
  NDIS_STATUS_SUCCESS.
- **Transmit, ring.** `RingMatches`: from `Tx_EnetPendingBDIdx` on, first the slots the
  MAC is through with, then those it owns (`SentBefore(s)`, with the MAC's own index),
  and slot for slot the frames of the queue (`SlotsMatch`). `MpSendNextNB` may go
  around the ring; `Filled` and `Ahead` are reduced to linear arithmetic
  first. While the MAC is stopped the queue is empty (`Running`).
- **Transmit, frames.** The five lists are `Apart` (no frame twice in one, or in two);
  every frame in a list has been passed on by its sender (`FramesPassed`), so that the
  frame a sender queues is in none; `Counted` is the counter as a cardinality less the
  senders that have yet to count; `Completions` ties an NBL's counter and completions
  to where its call and its frame are. `Emptied` says which private list belongs to
  which section of the DPC or the state machine; `"dpc"` in `Overlap` breaks it.
  `NBLSentOnce` is NDIS's promise not to pass an NBL that is still the driver's.
- **Receive.** `Stages` (which of the DPC's lists may be non-empty when), `Apart` and
  `AwayCounted` (the frames outside of the ring, once each, and counted), and for a
  running MAC `RingParts`: `SlotsHold`, `SlotsApart`, and for some r `ReceivedBefore(r)`,
  r received descriptors and then the empty ones, which is stronger than the order
  that `RingInOrder` states. `States` relates `EnetStarted`, `NdisStatus` and the state
  machine; that a pause leaves nothing away (`sm.state = "paused"`) is what the next
  start relies on.
- **State machine.** `SM_NextState` is one slot with two writers, and a timer armed for
  one state may expire for the next. `Phases` goes by NDIS's requests (`Paused`, `Halting`,
  `Starting`, `Running`, `PauseAsked`, `ResetAsked`, `Draining`) and states for each the
  pairs of `CurrentState` and `NextState` and how many turns of the dispatcher are still
  to come (`NoTurn` to `UpToTwoTurns`: a request of NDIS may arm the timer although a
  turn is due already). A handler is entered in a state it has a case for as no other
  pair occurs. `MacOff` and `Ended` give `Quiet`; that no turn is to come when the
  adapter is freed is `Halting`. The link needs no more than its types here.
- **UART.** One party works on a copy of an index that the other one moves on.
  Transmission: the interrupt routine is between the tail it has read and a head that
  has since only moved away (`RoutineInside`); what `EnqueueBytes` has copied and not
  published lies behind the head, in room that nobody has taken (`CopiedNotPublished`);
  bytes bypass the buffer only while it is empty (`PastTheBuffer`). Reception:
  `RoutineInside` with the interrupt as the writer, and `ReaderInside` for
  `DequeueBytes`. `StatesMatch` gives `CallbackExpected`.
  For the refinement each action is shown to map to a step of `BytePipe` or to a
  stutter under `pipe <- Pipe`; the contents are carried by `EnqueueAppends` and
  `DequeueInOrder`, whose pieces go around the end of the buffer.
- **UART, DMA.** Everybody takes the `Lock` for a part of what they do, and the
  invariant says what holds in between. `DmaOn`: who uses the buffer finds the DMA
  started. `InHand`: bytes that were counted and not yet copied are in the hands of a
  callback, or of the reader who takes the residue; with it `BytesAccounted` is a sum
  that each step moves terms of. `AtRest` and `Assigning`: between two requests there
  is nothing to complete, and nobody else looks while `CustomReceiveStart` stores its
  fields without the lock. `Request` relates `WdfRequest`, `BufferMdlPtr`,
  `BytesTransferred` and the bytes taken for the request; a completed request with a
  buffer is full, so that a late callback copies nothing into it. Positions are
  reduced to linear arithmetic (`Step`, `Gap`), and the buffer's contents are `From` a
  position, so that a copy cuts a prefix off the pipe (`Taken`). `RequestHeld` and the
  steps of `BytePipe` follow. The hypothesis is the one of section 2: without it TLC
  refutes `RequestHeld`.
- **ECSPI.** The interrupt routine runs beside the DPCs without the lock, and any
  number of instances of the DPC may be under way. `Roles`: at most one of them has
  the request to itself (`Serving`: it has made it not cancelable), and what the
  others may rely on at their place. `Token`: at most one party may start the next
  transfer - the interrupt routine that has found nothing prepared, whoever finds
  `IsIdle`, the instance that has found it, or the controller itself when it ends one.
  `Sequence`: either the prepared transfers are the next ones, in the slots from
  `TransferOut` on (`InSlots`), with the request's own indices behind them or, while
  an instance fills slots, the indices it carries (`Filling`), and there is no more
  prepared than left to do (`Counted`); or a DPC or a cancellation that lost the race
  has aborted them (`Stopped`) and nothing runs. The slots are those of a ring of
  `MAX_PREPARED_TRANSFERS_COUNT`, reduced to linear arithmetic (`SlotIs`,
  `SlotsAfter`); `FirstDone`, `OneMore` and `FirstOnes` are what using one up, preparing
  one and preparing the first does to `InSlots` and `Filling`. `Single` says for requests
  of one transfer that one instance of the DPC at most is about. `Holder`, `Cancellation`
  and `Starting` tie the request, the thread that starts it, WDF's view and the driver's
  together; `Writes` has the one write to the pin at most that is under way, and whose it
  is. `Wholly` and `Negated` are what `SuccessWhole` and `CsReleased` need besides.
  The hypothesis `Orderly` excludes four races of section 2, each of which refutes
  `Quiet` on a small instance (`again` by the second completion of a refused request:
  what is proved of it is that it finds no request to answer until the next one comes); `start`, on two processors, refutes `TypeOK` and
  `TransfersInOrder` as well, and `prepare` the latter. Two requests with `dpc` and two
  processors TLC finds to keep these two; of that there is no theorem.
- **MDIO bus.** `OneMoves` (one adapter at a time comes or goes; one that creates or
  frees the bus is alone), `Handles` and `BusLives` (all handles are of one bus, which
  is listed, has a thread, and is not told to stop while they exist; the count is their
  cardinality), `Listed` (the list holds the adapters that are in, once each, and the
  thread deals with these only), `Commands` (the frames of a command: the callback is
  in the last one, and the next command is not queued before it).
  With `"open"` or `"map"` a device may hold a bus that is not listed, or not there, and
  `TypeOK` fails.

`UartTxProofs` and `UartRxProofs` prove of the UART's buffer, for every size, every
content and every length, that the two pieces of a copy add up to the smaller of what
was asked for and the room (the bytes) there is, that an enqueue leaves the bytes that
were there where they were and puts the new ones behind them in order, and that a
dequeue takes the oldest, in order. They rest on `AdvanceValue` (the index arithmetic without
`%`), `FullValue`, `CountAfterEnqueue` and `CountAfterDequeue`; the two statements about
contents go by the piece a byte is copied with.

Only model-checked: `OneTransfer`, `PausedDrained` of transmission, and the liveness properties (`DmaDrains`, `ReceivedIndicated`,
`RequestsComplete`, `LinkReported`, `CommandDone`, `RequestAnswered`, `FifoReported`,
`FilledCompletes`), as TLAPS does not reason about fairness here.

## 5. Where the code and its words differ

Shown by a run each:

1. `tx_pause`: `ASSERT(pAdapter->Tx_PendingNBs == 0)` (`mp_sm.c:163`) fails when
   NDIS's cancel is between taking frames off the queue and unwinding them. The
   same happens with the DPC (`Overlap = {"dpc"}`).
2. `uart_rx_ready`: "If there are bytes available and RX notifications are
   enabled, queue the receive ready notification" (`imxuart.cpp:265-266`): if the
   interrupt moved the FIFO's last bytes to the buffer before the notification was
   enabled, none is given until another byte comes; the inline notification looks
   at RRDYEN, and goes by an interrupt that an empty FIFO does not raise.
3. `uart_rx_dma_wrap`: "We do not pause the DMA transfer to avoid loosing data"
   (`imxuart.cpp:1467-1468`): a copy that spans the end of the cyclic buffer puts its
   second piece over the first, as `mdlAddr` (1935) is not advanced in the loop (1966);
   the end of the request's buffer stays unwritten, and the request is completed as
   filled. `IMXUartPioDequeueDmaBytes` advances its pointer (2067).
4. `ecspi_again`: "If the process fails the routine completes the request."
   (`ECSPIspb.cpp:1155`): a request cancelled before it is marked has been completed
   already by `ECSPIDeviceEnableRequestCancellation` when the status reaches
   `ECSPIpSpbInitiateIo`, whose completion (1220) then goes to whatever request is
   current.

Shown by one of the further configurations each:

5. `UartTxDrain.cfg`: "Notifying TX FIFO drain complete" (`imxuart.cpp:504`) is said with
   bytes in the FIFO: the interrupt routine reads USR2.TXFE on entry (161), fills the
   FIFO from the buffer (303-315), and then takes the TXFE it has read for the end of
   the drain (360-372). The hardware interrupts at `TrdyLevel`, before the FIFO is
   empty; that the routine always comes in time is nowhere ensured.
6. `MdioBusWire.cfg`: "If no transfer is pending, try to start new transfer."
   (`mp_mdio.c:151`): removing a device clears `MDIOBus_TransferInProgress` (295) while
   its frame may be on the wire, and the next frame is written to MMFR during that
   transfer.
7. `MdioBusOpen.cfg`: "Find existing or create new MDIO bus instance" (`mp_mdio.c:321`): the
   lock is released (333) before a new bus is listed (360-362), so that two adapters
   may create one each.
8. `MdioBusMap.cfg`: "Check if MDIO device is initialized" (`mp_mdio.c:500`): after a failed
   `MmMapIoSpaceEx` the address of the freed bus is stored in the device (347, 367), and
   passes that check.
9. `EcspiDpc.cfg`: "This is a benign case, in which we can just leave..."
   (`ECSPIdevice.cpp:799-802`): the instance of the DPC that leaves may be the one
   queued for the last transfer, and the request is never answered.
10. `EcspiBurst.cfg`: "TRUE: transfer is done, otherwise FALSE" (`ECSPIhw.cpp:634`):
   TRUE is also returned when a burst is due and could not be started yet; a
   sequence's transfer is then taken for done.

Further environments, which the constants admit and the passing runs exclude, and
what TLC finds with them:

- `EnetTx`, `Overlap` with `"stale"`: `MpTxInit` leaves the software descriptors of
  cancelled frames in place (`mp_data_path.c:742`); the first interrupt after the
  next start reaps slots that were never filled (`RingMatchesQueue`, `DmaDrains`).
- `EnetTx`, NBLs of several frames: the NB counter is raised frame by frame (582),
  so an NBL can be completed with its first frame; `CompletedOnce` is about NBLs
  of one frame.
- `EnetRx`, `Undrained = TRUE`: `MpRxInit` takes back frames that NDIS holds when the
  link goes and comes back; their return meets an occupied slot
  (`ASSERT`, `mp_data_path.c:837`; `FrameHasOneOwner`).
- `EnetSm`, `Concurrent = TRUE`: NDIS resets while it pauses, restarts or powers the
  adapter; requests override each other in `SM_NextState` and handlers meet
  states they `ASSERT(0)` at (`TypeOK`, `Quiet`, `RequestsComplete`).
- `EnetTx`, `Overlap` with `"dpc"` or `"pausing"`: what `tx_pause` shows of a cancel
  happens with a DPC, or a call that NDIS let in before the pause, in its place.
- `UartRxDma`, `Ecspi`: see section 2.

What `LinkReported` does not say, because TLC refutes it: that NDIS is told of a link
that is gone for good. The handler of RUNNING, entered from PAUSED without a link,
stores the new link state but neither indicates it nor stops a MAC that the end of
a reset has started (`mp_sm.c:97-110`, 212); on its next turn the link has not
changed. NDIS goes on to take the cable for connected until it comes back.

Also seen while modelling: `Tx_PendingNBs` may pass through -1 (a frame is sent
before its sender counts it), against `ASSERT(pAdapter->Tx_PendingNBs >= 0)`
(`mp_data_path.c:277`); `EnetStart` and a partly failed chain leave frames waiting
until the next send.

## 6. Not modelled

- Of the ENET miniport: `MpShutdownEx`; the TDAR restart after a pause frame
  (GRA) and the bus-error branch of `EnetDpc`, whose interrupts the driver does
  not enable; flow control; multicast and information OIDs; statistics; the
  failure paths of initialisation.
- Of the PHY: duplex, the speeds below 1000 Mbs, PHYs without auto-negotiation or
  1000BASE-T, and the initialisation commands from ACPI (`MdioBus` has their
  frames, `EnetPhy` not their effect).
- Of the UART: transmission by DMA, ioctls and configuration (baud rate, flow
  control lines), wait masks and modem status, error bits of received bytes,
  initialisation and power.
- Of ECSPI: the words of a burst and the FIFO levels, MDL arithmetic, targets and
  their settings, initialisation.
- The other drivers: listed in `PROJECT.json` with the reason.

## 7. Plan

1. `I2c` (transfer, interrupt and cancel), `PwmPin` (opens, owners and errors).
