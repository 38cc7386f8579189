------------------------------ MODULE MdioBus ------------------------------
(***************************************************************************)
(* The MDIO bus of the ENET NDIS miniport (mp_mdio.c) and the use that     *)
(* MII_StateEngine (mp_enet_phy.c) makes of it.                            *)
(*                                                                         *)
(* Adapters whose PHYs hang on the same MDIO controller share one bus      *)
(* object: a reference count, a list of devices, and a thread that sends   *)
(* one frame at a time, round-robin over the devices.  Each device has a   *)
(* fixed set of frames; a command takes some of them, appends them to the  *)
(* device's pending list and, its last frame done, tells the engine.       *)
(*                                                                         *)
(* The engine's sixteen registers and what it does with them are left out: *)
(* a frame is TRUE if it carries the CmdDone callback, FALSE otherwise.    *)
(***************************************************************************)
EXTENDS FiniteSets, Integers, Sequences, SequencesExt

CONSTANTS
  Devices,      \* the MDIO devices, one per adapter, of one MDIO controller
  Addresses,    \* PHY addresses on the bus
  FrameCount,   \* MDIO_FRAME_LIST_SIZE
  Configs,      \* numbers of frames of commands without a callback: from ACPI,
                \* and MII_SetLinkPropertiesCmd
  Reads,        \* numbers of frames of the commands that end with the callback
  Overlap,      \* what else may be going on: see Overlaps
  NULL          \* no device, no bus

\* A device may open or close the bus while another does; a device may be removed
\* while its frame is on the wire; the registers of a new bus may fail to be mapped.
\* The code rules out none of them.
Overlaps == {"open", "wire", "map"}

ASSUME MdioAssumption ==
  /\ Configs \subseteq Nat \ {0} /\ Reads \subseteq Nat \ {0}
  /\ FrameCount \in Nat
  /\ \A c \in Configs \cup {0}, r \in Reads : c + r <= FrameCount
  /\ Overlap \subseteq Overlaps
  /\ IsFiniteSet(Devices) /\ NULL \notin Devices

\* A bus object is known by the device that allocated it.
Buses == Devices

VARIABLES
  address,    \* MDIODev_PhyDevice_Address
  adapter,    \* where the adapter is between MDIODev_InitDevice and _DeinitDevice
  at,         \* MDIODev_pBus, and MDIODev_DeinitDevice's copy of it until the bus is closed
  free,       \* the length of MDIODev_pFreeFrameListHead's list
  pending,    \* MDIODev_pPendingFrameListHead's list
  CmdPending, \* MDIODev_CmdPending
  engine,     \* what MII_StateEngine still has to queue: 0, or a read command
  bus,        \* the bus objects
  thread,     \* MDIOBus_Main of each bus
  hw          \* the controller: EIR.MII, the device whose frame was last written
              \* to MMFR, and whether that frame is on the wire

devs  == <<address, adapter, at>>
lists == <<free, pending, CmdPending>>
vars  == <<devs, lists, engine, bus, thread, hw>>

NoBus == [listed |-> FALSE, refs |-> 0, first |-> <<>>, active |-> NULL,
          inProgress |-> FALSE, event |-> FALSE, timer |-> "off", kill |-> FALSE]

-----------------------------------------------------------------------------
(* Slips: each is an operator below as a plausible mistake would have it.  *)
(* No action uses them; a run with one in place of the right operator      *)
(* shows that the property it is paired with can fail.                     *)

\* A frame that is done is not put back into the free list.
FreedSlip(d) == free[d]
\* Any wake-up of the thread ends the transfer.
TransferDoneSlip == TRUE
\* After each transfer the thread starts again at the head of the list.
TurnSlip(b, d) == NULL
\* A bus that is found is not counted once more.
FoundSlip(b) == bus[b].refs

-----------------------------------------------------------------------------
Init ==
  /\ address \in [Devices -> Addresses]
  /\ adapter = [d \in Devices |-> "out"]
  /\ at = [d \in Devices |-> NULL]
  /\ free = [d \in Devices |-> 0]
  /\ pending = [d \in Devices |-> <<>>]
  /\ CmdPending = [d \in Devices |-> FALSE]
  /\ engine = [d \in Devices |-> 0]
  /\ bus = [b \in Buses |-> NoBus]
  /\ thread = [b \in Buses |-> [pc |-> "none", dev |-> NULL, start |-> NULL, last |-> FALSE]]
  /\ hw = [mii |-> FALSE, mmfr |-> NULL, busy |-> FALSE]

Adapter(d, from, to) == adapter[d] = from /\ adapter' = [adapter EXCEPT ![d] = to]

\* MDIOBus_BusSpinLock is free: the thread holds it from its wake-up to its wait.
Unlocked(b) == thread[b].pc \notin {"callback", "scan", "rearm"}

-----------------------------------------------------------------------------
(* MDIODev_InitDevice: MDIOBus_Open and MDIOBus_AddDevice.                 *)

Settled(d) == "open" \in Overlap \/ \A e \in Devices \ {d} : adapter[e] \in {"out", "in", "lost"}

\* All frames are free; the adapter block is new.
InitFrameLists(d) ==
  /\ free' = [free EXCEPT ![d] = FrameCount]
  /\ pending' = [pending EXCEPT ![d] = <<>>]
  /\ CmdPending' = [CmdPending EXCEPT ![d] = FALSE]

Found(b) == bus[b].refs + 1

\* The bus is looked for under the driver's lock.
OpenBus(d) ==
  /\ Settled(d)
  /\ IF \E b \in Buses : bus[b].listed
     THEN \E b \in Buses :
            /\ bus[b].listed
            /\ Adapter(d, "out", "add")
            /\ bus' = [bus EXCEPT ![b].refs = Found(b)]
            /\ at' = [at EXCEPT ![d] = b]
     ELSE Adapter(d, "out", "create") /\ UNCHANGED <<bus, at>>
  /\ InitFrameLists(d)
  /\ UNCHANGED <<address, engine, thread, hw>>

\* Without the lock, a new bus is allocated and its thread started, unless the
\* one or the other fails, ...  Where the registers are not mapped the bus is freed and
\* the device keeps its address: what MDIODev_DeinitDevice then does with it is
\* undefined, and the adapter is lost.
CreateBus(d) ==
  /\ \/ /\ Adapter(d, "create", "link")
        /\ bus' = [bus EXCEPT ![d] = [NoBus EXCEPT !.refs = 1]]
        /\ thread' = [thread EXCEPT ![d].pc = "wait"]
        /\ at' = [at EXCEPT ![d] = d]
     \/ Adapter(d, "create", "out") /\ UNCHANGED <<bus, thread, at>>
     \/ /\ "map" \in Overlap /\ Adapter(d, "create", "lost")
        /\ at' = [at EXCEPT ![d] = d] /\ UNCHANGED <<bus, thread>>
  /\ UNCHANGED <<address, lists, engine, hw>>

\* ... and put into the list.
LinkBus(d) ==
  /\ Adapter(d, "link", "add")
  /\ bus' = [bus EXCEPT ![d].listed = TRUE]
  /\ UNCHANGED <<address, at, lists, engine, thread, hw>>

\* The bus refuses a second device with the same address.
AddDevice(d) ==
  LET b == at[d]
      taken == \E e \in ToSet(bus[b].first) : address[e] = address[d]
  IN  /\ Adapter(d, "add", IF taken THEN "close" ELSE "in")
      /\ Unlocked(b)
      /\ bus' = IF taken THEN bus ELSE [bus EXCEPT ![b].first = <<d>> \o @]
      /\ UNCHANGED <<address, at, lists, engine, thread, hw>>

-----------------------------------------------------------------------------
(* MDIODev_DeinitDevice: MDIOBus_RemoveDevice and MDIOBus_Close.           *)

\* Where a device is in the bus's list.
Place(b, d) == CHOOSE j \in DOMAIN bus[b].first : bus[b].first[j] = d

\* The thread is woken to go on with the other devices.
RemoveDevice(d) ==
  LET b == at[d]
      isActive == bus[b].active = d
  IN  /\ Adapter(d, "in", "close")
      /\ engine[d] = 0 /\ Unlocked(b) /\ Settled(d)
      /\ "wire" \in Overlap \/ ~(hw.busy /\ hw.mmfr = d)
      /\ bus' = [bus EXCEPT ![b] =
           [bus[b] EXCEPT !.first = RemoveAt(@, Place(b, d)),
                          !.active = IF isActive THEN NULL ELSE @,
                          !.inProgress = @ /\ ~isActive,
                          !.event = @ \/ isActive]]
      /\ UNCHANGED <<address, at, lists, engine, thread, hw>>

CloseBus(d) ==
  LET b == at[d]
      isLast == bus[b].refs = 1
  IN  /\ Adapter(d, "close", IF isLast THEN "stop" ELSE "out")
      /\ bus' = [bus EXCEPT ![b].refs = @ - 1, ![b].kill = isLast]
      /\ at' = IF isLast THEN at ELSE [at EXCEPT ![d] = NULL]
      /\ UNCHANGED <<address, lists, engine, thread, hw>>

\* The thread has gone: the bus leaves the list and is freed.
FreeBus(d) ==
  LET b == at[d]
  IN  /\ Adapter(d, "stop", "out")
      /\ thread[b].pc = "none"
      /\ bus' = [bus EXCEPT ![b] = NoBus]
      /\ at' = [at EXCEPT ![d] = NULL]
      /\ UNCHANGED <<address, lists, engine, thread, hw>>

-----------------------------------------------------------------------------
(* MDIODev_QueueCommand under MDIODev_DeviceSpinLock: n frames, the last   *)
(* of which has the callback if cmdDone says so.  A command that needs     *)
(* more frames than are free loses those it has taken.                     *)
QueueCommand(d, n, cmdDone) ==
  IF n <= free[d]
  THEN /\ free' = [free EXCEPT ![d] = @ - n]
       /\ pending' = [pending EXCEPT ![d] = @ \o [i \in 1 .. n |-> cmdDone /\ i = n]]
       /\ CmdPending' = [CmdPending EXCEPT ![d] = TRUE]
       /\ bus' = [bus EXCEPT ![at[d]].event = @ \/ pending[d] = <<>>]
  ELSE /\ free' = [free EXCEPT ![d] = 0]
       /\ UNCHANGED <<pending, CmdPending, bus>>

\* MII_StateEngine, called by the adapter's dispatcher: when its last command is
\* done, it may queue a configuration, and queues a read.
MII_StateEngine(d) ==
  /\ adapter[d] = "in" /\ engine[d] = 0 /\ ~CmdPending[d]
  /\ \/ \E n \in Configs, r \in Reads :
          QueueCommand(d, n, FALSE) /\ engine' = [engine EXCEPT ![d] = r]
     \/ \E r \in Reads : QueueCommand(d, r, TRUE) /\ UNCHANGED engine
  /\ UNCHANGED <<devs, thread, hw>>

QueueRead(d) ==
  /\ engine[d] > 0
  /\ QueueCommand(d, engine[d], TRUE)
  /\ engine' = [engine EXCEPT ![d] = 0]
  /\ UNCHANGED <<devs, thread, hw>>

-----------------------------------------------------------------------------
(* MDIOBus_Main.  A round of its loop holds MDIOBus_BusSpinLock, and takes *)
(* and releases the locks of devices.                                      *)
Thread(b, from, to) == thread[b].pc = from /\ thread' = [thread EXCEPT ![b].pc = to]

\* KillEvent, which comes first when several objects are signaled.
KillThread(b) ==
  /\ bus[b].kill
  /\ Thread(b, "wait", "none")
  /\ bus' = [bus EXCEPT ![b].timer = "off"]
  /\ UNCHANGED <<devs, lists, engine, hw>>

TransferDone == hw.mii
MiiCleared == FALSE
Freed(d) == free[d] + 1

\* The device to try first: the active one, or the first in the list.
Candidate(b) == IF bus[b].active # NULL THEN bus[b].active
                ELSE IF bus[b].first # <<>> THEN bus[b].first[1] ELSE NULL
\* Where the round goes when the end of a transfer has been dealt with.
TryStart(b, busy, d) ==
  thread' = [thread EXCEPT ![b] =
    [pc |-> IF busy \/ d = NULL THEN "rearm" ELSE "scan",
     dev |-> d, start |-> d, last |-> FALSE]]

\* The timer or StartTransferEvent, in this order; the wait resets the one it takes.
Woken(b) == bus[b].timer = "signaled" \/ bus[b].event
AfterWait(b) == IF bus[b].timer = "signaled" THEN [bus[b] EXCEPT !.timer = "off"]
                                             ELSE [bus[b] EXCEPT !.event = FALSE]

\* The active device's oldest frame is done and goes back to the free list.
FinishTransfer(b) ==
  LET d == bus[b].active
      isFrame == pending[d] # <<>>
  IN  /\ thread[b].pc = "wait" /\ Woken(b) /\ ~bus[b].kill
      /\ TransferDone /\ d # NULL
      /\ hw' = [hw EXCEPT !.mii = MiiCleared]
      /\ pending' = IF isFrame THEN [pending EXCEPT ![d] = Tail(@)] ELSE pending
      /\ free' = IF isFrame THEN [free EXCEPT ![d] = Freed(d)] ELSE free
      /\ bus' = [bus EXCEPT ![b] = [AfterWait(b) EXCEPT !.inProgress = FALSE]]
      /\ thread' = [thread EXCEPT ![b] =
           [pc |-> "callback", dev |-> d, start |-> d,
            last |-> isFrame /\ Head(pending[d])]]
      /\ UNCHANGED <<devs, CmdPending, engine>>

\* No transfer has ended, or nobody waits for its end.
NothingDone(b) ==
  /\ thread[b].pc = "wait" /\ Woken(b) /\ ~bus[b].kill
  /\ TransferDone => bus[b].active = NULL
  /\ hw' = [hw EXCEPT !.mii = MiiCleared]
  /\ bus' = [bus EXCEPT ![b] = AfterWait(b)]
  /\ TryStart(b, bus[b].inProgress, Candidate(b))
  /\ UNCHANGED <<devs, lists, engine>>

\* MDIODev_pNextDevice, and the device that becomes active after d's transfer.
NextDevice(b, d) ==
  LET i == Place(b, d)
  IN  IF i < Len(bus[b].first) THEN bus[b].first[i + 1] ELSE NULL
Turn(b, d) == NextDevice(b, d)

\* MIIFunction is PHYCmd_CmdDone_Callback in the last frame of a read command.
TellsEngine(d) == thread[at[d]].last

\* The callbacks, outside of the device's lock; the next device gets its turn.
Callback(b) ==
  LET d == thread[b].dev
      next == Turn(b, d)
      dev == IF next # NULL THEN next ELSE bus[b].first[1]
  IN  /\ thread[b].pc = "callback"
      /\ CmdPending' = [CmdPending EXCEPT ![d] = @ /\ ~TellsEngine(d)]
      /\ bus' = [bus EXCEPT ![b].active = next]
      /\ TryStart(b, FALSE, dev)
      /\ UNCHANGED <<devs, free, pending, engine, hw>>

\* Under the lock of one device after the other: the first one that has a frame
\* to send becomes the active one.
ScanDevice(b) ==
  LET d == thread[b].dev
      next == IF NextDevice(b, d) # NULL THEN NextDevice(b, d) ELSE bus[b].first[1]
  IN  /\ thread[b].pc = "scan"
      /\ IF pending[d] # <<>>
         THEN /\ hw' = [hw EXCEPT !.mmfr = d, !.busy = TRUE]
              /\ bus' = [bus EXCEPT ![b].active = d, ![b].inProgress = TRUE]
              /\ thread' = [thread EXCEPT ![b].pc = "rearm"]
         ELSE /\ thread' = IF next = thread[b].start
                           THEN [thread EXCEPT ![b].pc = "rearm"]
                           ELSE [thread EXCEPT ![b].dev = next]
              /\ UNCHANGED <<bus, hw>>
      /\ UNCHANGED <<devs, lists, engine>>

\* As long as a transfer is in progress the timer is set again.
RearmTimer(b) ==
  /\ Thread(b, "rearm", "wait")
  /\ bus' = [bus EXCEPT ![b].timer = IF bus[b].inProgress THEN "set" ELSE @]
  /\ UNCHANGED <<devs, lists, engine, hw>>

TimerExpires(b) ==
  /\ bus[b].timer = "set" /\ bus' = [bus EXCEPT ![b].timer = "signaled"]
  /\ UNCHANGED <<devs, lists, engine, thread, hw>>

\* The controller (external): the frame is through, EIR.MII is raised.
HwTransferDone ==
  /\ hw.busy /\ hw' = [hw EXCEPT !.busy = FALSE, !.mii = TRUE]
  /\ UNCHANGED <<devs, lists, engine, bus, thread>>

-----------------------------------------------------------------------------
AdapterStep(d) ==
  \/ OpenBus(d) \/ CreateBus(d) \/ LinkBus(d) \/ AddDevice(d)
  \/ RemoveDevice(d) \/ CloseBus(d) \/ FreeBus(d)
  \/ MII_StateEngine(d) \/ QueueRead(d)

MDIOBus_Main(b) ==
  \/ KillThread(b) \/ FinishTransfer(b) \/ NothingDone(b) \/ Callback(b)
  \/ ScanDevice(b) \/ RearmTimer(b)

Next == \/ \E d \in Devices : AdapterStep(d)
        \/ \E b \in Buses : MDIOBus_Main(b) \/ TimerExpires(b)
        \/ HwTransferDone

\* The thread and its timer run, the engine's call goes on, and the controller
\* ends what it was given.  Nothing obliges an adapter to come or to go.
Fairness ==
  /\ \A b \in Buses : WF_vars(MDIOBus_Main(b)) /\ WF_vars(TimerExpires(b))
  /\ \A d \in Devices : WF_vars(QueueRead(d))
  /\ WF_vars(HwTransferDone)

Spec == Init /\ [][Next]_vars /\ Fairness

-----------------------------------------------------------------------------
(* Properties.                                                             *)

\* The devices that hold a handle of the bus.
HandlesOf(b) == {d \in Devices : at[d] = b /\ adapter[d] # "stop"}

\* Every variable has its type; all devices share one bus and one thread, which lives
\* as long as one of them has a handle, and the reference count is the number of handles.
TypeOK ==
  /\ address \in [Devices -> Addresses]
  /\ adapter \in [Devices -> {"out", "create", "link", "add", "in", "close", "stop",
                           "lost"}]
  /\ at \in [Devices -> Buses \cup {NULL}]
  /\ free \in [Devices -> 0 .. FrameCount]
  /\ \A d \in Devices : pending[d] \in Seq(BOOLEAN)
  /\ CmdPending \in [Devices -> BOOLEAN]
  /\ engine \in [Devices -> Reads \cup {0}]
  /\ \A b \in Buses :
       /\ bus[b].listed \in BOOLEAN /\ bus[b].refs = Cardinality(HandlesOf(b))
       /\ HandlesOf(b) # {} =>
            thread[b].pc # "none" /\ \A c \in Buses \ {b} : HandlesOf(c) = {}
       /\ bus[b].first \in Seq(Devices) /\ bus[b].active \in Devices \cup {NULL}
       /\ {bus[b].inProgress, bus[b].event, bus[b].kill} \subseteq BOOLEAN
       /\ bus[b].timer \in {"off", "set", "signaled"}
  /\ thread \in [Buses -> [pc : {"none", "wait", "callback", "scan", "rearm"},
                           dev : Devices \cup {NULL}, start : Devices \cup {NULL},
                           last : BOOLEAN]]
  /\ hw \in [mii : BOOLEAN, mmfr : Devices \cup {NULL}, busy : BOOLEAN]

\* A device neither loses frames nor gets some twice: each is free or pending.
FramesConserved ==
  \A d \in Devices : adapter[d] = "in" => free[d] + Len(pending[d]) = FrameCount

\* "If no transfer is pending, try to start new transfer." (MDIOBus_Main): MMFR is
\* not written while the controller sends a frame.
OneTransfer ==
  [][\A b \in Buses :
       thread[b].pc = "scan" /\ thread'[b].pc = "rearm" /\ bus'[b].inProgress
         => ~hw.busy]_vars

\* "Find existing or create new MDIO bus instance": adapters on one controller get one bus
\* (mp_mdio.c:321-358).
OneInstance == \A b, c \in Buses : bus[b].listed /\ bus[c].listed => b = c

\* Who has a handle has a bus: "Check if MDIO device is initialized" looks at the handle
\* only (mp_mdio.c:500).
HandleLives == \A b \in Buses : HandlesOf(b) # {} => bus[b].refs # 0

\* Once adapters neither come nor go, every command of an engine gets done: the
\* thread misses no frame that is queued while it looks at another device or
\* stops the clock, and no device keeps the others from being served.  (Each
\* adapter that comes is put at the head of the list, and one that goes makes the
\* thread start there: adapters that come and go for ever could starve another.)
CommandDone ==
  <>[][FALSE]_adapter =>
    \A d \in Devices :
      adapter[d] = "in" /\ CmdPending[d] ~> ~CmdPending[d] \/ adapter[d] # "in"
=============================================================================
