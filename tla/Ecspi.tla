-------------------------------- MODULE Ecspi --------------------------------
(***************************************************************************)
(* The ECSPI controller driver (ECSPIspb.cpp, ECSPIdevice.cpp): requests   *)
(* of SpbCx, one at a time, single transfers or sequences whose transfers  *)
(* are prepared a few ahead; the interrupt routine, which ends a transfer  *)
(* and starts the next one; the DPC, which prepares more and answers the   *)
(* request; WDF's cancellation; the chip select, a GPIO pin written        *)
(* asynchronously through another driver; and the controller lock.         *)
(*                                                                         *)
(* A section that holds DeviceLock is one step, and so is a turn of the    *)
(* interrupt routine up to its hand-over to the DPC.  A transfer's words   *)
(* are left out: the controller runs a burst, and ends it.                 *)
(***************************************************************************)
EXTENDS Integers, FiniteSets

CONSTANTS
  MAX_PREPARED_TRANSFERS_COUNT,
  Cpus,           \* the processors that run the DPC: its instances overlap on several
  MaxTransfers,   \* bound: transfers in a sequence
  MaxRequests,    \* bound: requests, other than lock and unlock
  Races           \* what the environment may do besides, see RaceKinds

(***************************************************************************)
(* mark:    a request is cancelled before it is marked cancelable;         *)
(* again:   the next request comes before the thread that started the last *)
(*          one, and could not, has completed the current request again;   *)
(* start:   WDF cancels between the marking and StartTransferSafe;         *)
(* locked:  a request is cancelled while the controller is locked;         *)
(* dpc:     a request comes while a DPC for the last one has not returned; *)
(* outrun:  the controller runs through all prepared transfers between the *)
(*          DPC's preparation of more and its look at IsIdle;              *)
(* burst:   a transfer of a sequence has more than one burst;              *)
(* prepare: the preparation fails in the DPC, in the middle of a sequence; *)
(* gpio:    the GPIO driver refuses or fails a request;                    *)
(* timeout: the controller never ends a burst.                             *)
(***************************************************************************)
RaceKinds == {"mark", "again", "start", "locked", "dpc", "outrun", "burst", "prepare", "gpio",
              "timeout"}

ASSUME EcspiAssumption ==
  /\ MAX_PREPARED_TRANSFERS_COUNT \in Nat \ {0, 1} /\ IsFiniteSet(Cpus)
  /\ MaxTransfers \in Nat \ {0} /\ MaxRequests \in Nat
  /\ Races \subseteq RaceKinds

Requests == 1 .. MaxRequests
Slots == 0 .. MAX_PREPARED_TRANSFERS_COUNT - 1
Types == {"READ", "WRITE", "SEQUENCE", "FULL_DUPLEX"}
NoRequest == 0

VARIABLES
  \* CurrentRequest
  SpbRequest, Type, State, TransferCount, NextTransferIndex, TransfersLeft,
  IsIdle, ReadyTransferCount, TransferIn, TransferOut,
  Transfers,           \* per slot: the index of the transfer prepared in it, from 1
  gpio,                \* the target's chip select is a GPIO pin
  bursts, burst,       \* bursts per transfer, and how many the active one has left
  \* the device
  IsControllerLocked, LockUnlockRequest,
  engine,              \* the controller: disabled, selected, running a burst, or between two
  cs, GpioData,        \* the pin: asserted, and what the next write to it sets it to
  sent,                \* the GPIO writes under way
  isr,                 \* the interrupt routine has found no prepared transfer
  dpc,                 \* whether it is queued, and where its instances are
  io,                  \* per request: where the thread that starts it is
  wdf,                 \* WDF's view of the current request's cancellation
  canceller,           \* the request the cancellation routine is about to answer itself
  answer,              \* per request: how SpbRequestComplete was called
  count,               \* requests received
  served               \* transfers of the current request carried out whole

prep    == <<TransferIn, NextTransferIndex>>
params  == <<TransferCount, gpio, bursts>>
pin     == <<cs, GpioData, sent>>
control == <<IsControllerLocked, LockUnlockRequest>>
vars == <<SpbRequest, Type, State, prep, params, TransfersLeft, IsIdle, ReadyTransferCount,
          TransferOut, Transfers, burst, control, engine, pin, isr, dpc, io, wdf,
          canceller, answer, count, served>>

Least(a, b) == IF a <= b THEN a ELSE b
Next1(slot) == (slot + 1) % MAX_PREPARED_TRANSFERS_COUNT

-----------------------------------------------------------------------------
(* Slips: each is an operator below as a plausible mistake would have it.  *)
(* No action uses them; a run with one in place of the right operator      *)
(* shows that the property it is paired with can fail.                     *)

\* Transfers already prepared are not counted.
RoomSlip == MAX_PREPARED_TRANSFERS_COUNT
\* The DPC fills the slot that the request's last preparation has left off at.
SlotSlip(c) == TransferIn
\* A sequence is done when nothing is prepared.
RequestDoneSlip == ReadyTransferCount = 0
\* The interrupt routine leaves the restart to the DPC and does not say so.
MarkedIdleSlip == IsIdle
\* Aborting forgets the prepared transfers and lets the active one run.
AbortedSlip == engine
\* The cancellation leaves the chip select as it is.
CancelNegatesSlip == FALSE

-----------------------------------------------------------------------------
Off == [pc |-> "off", slot |-> 0, left |-> 0, prepared |-> 0]

Init ==
  /\ SpbRequest = NoRequest /\ Type = "INVALID" /\ State = "INACTIVE"
  /\ TransferCount = 0 /\ NextTransferIndex = 0 /\ TransfersLeft = 0
  /\ IsIdle = FALSE /\ ReadyTransferCount = 0 /\ TransferIn = 0 /\ TransferOut = 0
  /\ Transfers = [s \in Slots |-> 0]
  /\ gpio = FALSE /\ bursts = 1 /\ burst = 0
  /\ IsControllerLocked = FALSE /\ LockUnlockRequest = FALSE
  /\ engine = "off" /\ cs = FALSE /\ GpioData = FALSE /\ sent = {}
  /\ isr = "off" /\ dpc = [queued |-> FALSE, cpu |-> [c \in Cpus |-> Off]]
  /\ io = [r \in Requests |-> "no"]
  /\ wdf = "plain" /\ canceller = NoRequest
  /\ answer = [r \in Requests |-> "none"] /\ count = 0 /\ served = 0

Answered == \A r \in 1 .. count : answer[r] # "none"
DpcOver == ~ dpc.queued /\ \A c \in Cpus : dpc.cpu[c].pc = "off"
Queued == dpc' = [dpc EXCEPT !.queued = TRUE]

\* The thread that starts a request is about to complete the current one with this status.
Failures == {"failed", "cancelled"}

\* ECSPISpbCompleteTransferRequest: whoever takes SpbRequest answers the request in it.
CompleteTransferRequest(status) ==
  /\ SpbRequest' = NoRequest
  /\ IF SpbRequest = NoRequest
     THEN UNCHANGED <<answer, Type, State>>
     ELSE /\ answer' = [answer EXCEPT ![SpbRequest] = status]
          /\ Type' = "INVALID" /\ State' = "INACTIVE"

\* ECSPISpbAbortAllTransfers, under the interrupt's lock.
Aborted == "off"
AbortAllTransfers ==
  /\ isr = "off"
  /\ engine' = Aborted /\ ReadyTransferCount' = 0

\* ECSPISpbStartNextTransfer with a transfer prepared.  A controller that is disabled
\* stays so: only ECSPIHwSelectTarget enables it.
StartNextTransfer ==
  /\ engine' = IF engine = "off" THEN "off" ELSE "busy"
  /\ burst' = bursts

\* ECSPIpDeviceSetGpioPin: the write is sent, and completes later; both share one buffer.
SetGpioPin(write) ==
  /\ sent' = sent \cup {write}
  /\ GpioData' = (write = "assert")

-----------------------------------------------------------------------------
(* SpbCx's requests.                                                       *)

\* The first section of ECSPIpSpbPrepareRequest.
Receive(type, n, b, pinned) ==
  /\ count < MaxRequests /\ Answered /\ ~ LockUnlockRequest
  /\ "dpc" \in Races \/ DpcOver
  /\ "again" \in Races \/ \A r \in Requests : io[r] \notin Failures
  /\ type = "FULL_DUPLEX" => n = 2
  /\ type \in {"READ", "WRITE"} => n = 1
  /\ b = 2 /\ type = "SEQUENCE" => "burst" \in Races
  /\ IsControllerLocked => pinned = gpio
  /\ count' = count + 1
  /\ SpbRequest' = count + 1 /\ Type' = type /\ State' = "INACTIVE"
  /\ TransferCount' = n /\ NextTransferIndex' = 0 /\ TransfersLeft' = n
  /\ IsIdle' = FALSE /\ ReadyTransferCount' = 0 /\ TransferIn' = 0 /\ TransferOut' = 0
  /\ Transfers' = [s \in Slots |-> 0]
  /\ gpio' = pinned /\ bursts' = b /\ burst' = 0
  /\ io' = [io EXCEPT ![count + 1] = "prepare"]
  /\ wdf' = "plain" /\ served' = 0
  /\ UNCHANGED <<control, engine, pin, isr, dpc, canceller, answer>>

Room == MAX_PREPARED_TRANSFERS_COUNT - ReadyTransferCount
ToPrepare == Least(TransferCount - NextTransferIndex, Room)

\* ECSPISpbPrepareNextTransfer for a request that has not been started, and what
\* ECSPIpSpbInitiateIo makes of its result.
Prepare(r) ==
  /\ io[r] = "prepare"
  /\ \/ /\ Transfers' = [s \in Slots |-> IF s < ToPrepare THEN s + 1 ELSE 0]
        /\ ReadyTransferCount' = ReadyTransferCount + ToPrepare
        /\ NextTransferIndex' = ToPrepare
        /\ TransferIn' = ToPrepare % MAX_PREPARED_TRANSFERS_COUNT
        /\ io' = [io EXCEPT ![r] = IF IsControllerLocked THEN "mark" ELSE "cs"]
        /\ UNCHANGED <<SpbRequest, answer, Type, State>>
     \/ /\ CompleteTransferRequest("failed")
        /\ io' = [io EXCEPT ![r] = "over"]
        /\ UNCHANGED <<Transfers, ReadyTransferCount, prep>>
  /\ UNCHANGED <<params, TransfersLeft, IsIdle, TransferOut, burst, control, engine, pin, isr,
                 dpc, wdf, canceller, count, served>>

\* ECSPIDeviceAssertCS
AssertCS(r) ==
  /\ io[r] = "cs"
  /\ engine' = "on"
  /\ \/ /\ ~ gpio
        /\ io' = [io EXCEPT ![r] = "mark"]
        /\ UNCHANGED <<sent, GpioData, SpbRequest, answer, Type, State>>
     \/ /\ gpio /\ SetGpioPin("assert")
        /\ io' = [io EXCEPT ![r] = "pin"]
        /\ UNCHANGED <<SpbRequest, answer, Type, State>>
     \/ /\ gpio /\ "gpio" \in Races /\ CompleteTransferRequest("failed")
        /\ io' = [io EXCEPT ![r] = "over"]
        /\ UNCHANGED <<sent, GpioData>>
  /\ UNCHANGED <<prep, params, TransfersLeft, IsIdle, ReadyTransferCount, TransferOut, Transfers,
                 burst, control, cs, isr, dpc, wdf, canceller, count, served>>

\* The caller that gets the status back completes the request: ECSPIpSpbInitiateIo does
\* unless a GPIO write is under way or the controller locked.
InitiatesAlone == ~ gpio /\ ~ IsControllerLocked

\* ECSPIDeviceEnableRequestCancellation on the thread that starts the request; a request
\* already cancelled is answered here, and the status goes back to the caller.
EnableRequestCancellation(r) ==
  /\ io[r] = "mark"
  /\ IF wdf = "cancelled"
     THEN /\ AbortAllTransfers /\ CompleteTransferRequest("cancelled")
          /\ io' = [io EXCEPT ![r] = IF InitiatesAlone THEN "cancelled" ELSE "refused"]
          /\ UNCHANGED wdf
     ELSE /\ wdf' = "marked" /\ State' = "CANCELABLE"
          /\ io' = [io EXCEPT ![r] = "start"]
          /\ UNCHANGED <<SpbRequest, answer, Type, engine, ReadyTransferCount>>
  /\ UNCHANGED <<prep, params, TransfersLeft, IsIdle, TransferOut, Transfers, burst, control, pin,
                 isr, dpc, canceller, count, served>>

\* ECSPISpbStartTransferSafe; without a prepared transfer the caller completes the
\* request, unless the controller is locked.
StartTransferSafe(r) ==
  /\ io[r] = "start"
  /\ IF ReadyTransferCount # 0
     THEN StartNextTransfer /\ io' = [io EXCEPT ![r] = "over"]
     ELSE /\ io' = [io EXCEPT ![r] = IF IsControllerLocked THEN "over" ELSE "failed"]
          /\ UNCHANGED <<engine, burst>>
  /\ UNCHANGED <<SpbRequest, answer, Type, State, prep, params, TransfersLeft, IsIdle,
                 ReadyTransferCount, TransferOut, Transfers, control, pin, isr, dpc, wdf,
                 canceller, count, served>>

AfterFailure(status) == IF status = "cancelled" THEN "refused" ELSE "over"

\* ECSPIpSpbInitiateIo, or the completion routine of the GPIO write, with the status of a
\* request that could not be started: it completes the one that is current now.
CompletesCurrent(r) ==
  /\ io[r] \in Failures
  /\ CompleteTransferRequest(io[r])
  /\ io' = [io EXCEPT ![r] = AfterFailure(@)]
  /\ UNCHANGED <<prep, params, TransfersLeft, IsIdle, ReadyTransferCount, TransferOut, Transfers,
                 burst, control, engine, pin, isr, dpc, wdf, canceller, count, served>>

-----------------------------------------------------------------------------
(* The controller and ECSPIEvtInterruptIsr.                                *)

\* The controller does not run through what is prepared while a DPC that has prepared
\* more has not looked at IsIdle yet.
Outruns == /\ ReadyTransferCount = 1 /\ TransfersLeft > 1
           /\ \E c \in Cpus : dpc.cpu[c].pc \in {"mark", "idle"}

\* ECSPISpbCompleteSequenceTransfer: the next prepared transfer is started here.
CompleteSequenceTransfer(whole) ==
  /\ "outrun" \in Races \/ ~ Outruns
  /\ ReadyTransferCount' = ReadyTransferCount - 1
  /\ TransfersLeft' = TransfersLeft - 1
  /\ TransferOut' = Next1(TransferOut)
  /\ served' = IF whole THEN served + 1 ELSE served
  /\ IF TransfersLeft = 1
     THEN engine' = "on" /\ Queued /\ UNCHANGED <<burst, isr>>
     ELSE IF ReadyTransferCount = 1
     THEN engine' = "on" /\ isr' = "idle" /\ UNCHANGED <<burst, dpc>>
     ELSE StartNextTransfer /\ Queued /\ UNCHANGED isr

\* The last burst of a transfer ends.
TransferEnds ==
  /\ engine = "busy" /\ burst = 1 /\ isr = "off"
  /\ \/ /\ Type \in {"READ", "WRITE", "FULL_DUPLEX"}
        /\ engine' = "on" /\ served' = TransferCount /\ Queued
        /\ UNCHANGED <<ReadyTransferCount, TransfersLeft, TransferOut, burst, isr>>
     \/ Type = "SEQUENCE" /\ CompleteSequenceTransfer(TRUE)
  /\ UNCHANGED <<SpbRequest, Type, State, prep, params, IsIdle, Transfers, control, pin, io, wdf,
                 canceller, answer, count>>

\* Another burst follows: it is started if the controller is ready for it.  If not, the
\* DPC has to start a READ's; a sequence's transfer is taken for done.
BurstEnds ==
  /\ engine = "busy" /\ burst > 1 /\ isr = "off"
  /\ \/ /\ burst' = burst - 1
        /\ UNCHANGED <<engine, served, ReadyTransferCount, TransfersLeft, TransferOut, isr, dpc>>
     \/ /\ Type = "READ"
        /\ burst' = burst - 1 /\ engine' = "held" /\ Queued
        /\ UNCHANGED <<served, ReadyTransferCount, TransfersLeft, TransferOut, isr>>
     \/ Type = "SEQUENCE" /\ CompleteSequenceTransfer(FALSE)
  /\ UNCHANGED <<SpbRequest, Type, State, prep, params, IsIdle, Transfers, control, pin, io, wdf,
                 canceller, answer, count>>

MarkedIdle == TRUE

\* "Mark that transfer is idle due to lack of prepared transfers".
MarkIdle ==
  /\ isr = "idle" /\ isr' = "off"
  /\ IsIdle' = MarkedIdle /\ Queued
  /\ UNCHANGED <<SpbRequest, Type, State, prep, params, TransfersLeft, ReadyTransferCount,
                 TransferOut, Transfers, burst, control, engine, pin, io, wdf, canceller, answer,
                 count, served>>

-----------------------------------------------------------------------------
(* ECSPIEvtInterruptDpc; its instances may overlap.                        *)

At(c, pc) == dpc.cpu[c].pc = pc
Goto(c, pc) == dpc' = [dpc EXCEPT !.cpu[c].pc = pc]
Return(c) == dpc' = [dpc EXCEPT !.cpu[c] = Off]
Answer == <<SpbRequest, answer, Type, State>>

DpcStart(c) ==
  /\ dpc.queued /\ At(c, "off")
  /\ dpc' = [dpc EXCEPT !.queued = FALSE,
       !.cpu[c].pc = IF Type = "READ" /\ engine = "held" THEN "burst" ELSE "disable"]
  /\ UNCHANGED <<Answer, prep, params, TransfersLeft, IsIdle, ReadyTransferCount, TransferOut,
                 Transfers, burst, control, engine, pin, isr, io, wdf, canceller, count, served>>

\* XCH is polled; a controller that a cancellation has disabled is not started by it.
DpcStartsBurst(c) ==
  /\ At(c, "burst")
  /\ \/ Return(c) /\ engine' = IF engine = "held" THEN "busy" ELSE engine
     \/ "timeout" \in Races /\ Goto(c, "timeout") /\ UNCHANGED engine
  /\ UNCHANGED <<Answer, prep, params, TransfersLeft, IsIdle, ReadyTransferCount, TransferOut,
                 Transfers, burst, control, pin, isr, io, wdf, canceller, count, served>>

\* ECSPIDeviceDisableRequestCancellation, and the branch taken after it.  "More than one
\* instance of the DPC may have been scheduled": the others leave.
DpcDisable(c) ==
  /\ At(c, "disable") \/ At(c, "timeout")
  /\ IF SpbRequest = NoRequest \/ State # "CANCELABLE"
     THEN Return(c) /\ UNCHANGED <<Answer, wdf, engine, ReadyTransferCount>>
     ELSE IF wdf # "marked"
     THEN AbortAllTransfers /\ Return(c) /\ UNCHANGED <<Answer, wdf>>
     ELSE /\ wdf' = "plain"
          /\ IF At(c, "timeout")
             THEN CompleteTransferRequest("failed") /\ Return(c)
             ELSE /\ State' = "NOT_CANCELABLE"
                  /\ Goto(c, IF Type = "SEQUENCE" THEN "look" ELSE "complete")
                  /\ UNCHANGED <<SpbRequest, answer, Type>>
          /\ UNCHANGED <<engine, ReadyTransferCount>>
  /\ UNCHANGED <<prep, params, TransfersLeft, IsIdle, TransferOut, Transfers, burst, control, pin,
                 isr, io, canceller, count, served>>

\* ECSPISpbIsRequestDone
RequestDone == TransfersLeft = 0

DpcLooks(c) ==
  /\ At(c, "look")
  /\ IF RequestDone THEN Goto(c, "complete")
     ELSE IF ToPrepare = 0 THEN Goto(c, "mark")
     ELSE dpc' = [dpc EXCEPT !.cpu[c] = [pc |-> "prepare", slot |-> TransferIn,
                                         left |-> ToPrepare, prepared |-> 0]]
  /\ UNCHANGED <<Answer, prep, params, TransfersLeft, IsIdle, ReadyTransferCount, TransferOut,
                 Transfers, burst, control, engine, pin, isr, io, wdf, canceller, count, served>>

Slot(c) == dpc.cpu[c].slot

\* ECSPISpbPrepareNextTransfer, transfer by transfer, while the interrupt routine uses up
\* those prepared before.
DpcPrepares(c) ==
  LET d == dpc.cpu[c]
  IN  /\ At(c, "prepare")
      /\ \/ /\ Transfers' = [Transfers EXCEPT ![Slot(c)] = NextTransferIndex + d.prepared + 1]
            /\ ReadyTransferCount' = ReadyTransferCount + 1
            /\ IF d.left = 1
               THEN /\ TransferIn' = Next1(d.slot)
                    /\ NextTransferIndex' = NextTransferIndex + d.prepared + 1
                    /\ Goto(c, "mark")
               ELSE /\ dpc' = [dpc EXCEPT !.cpu[c] = [pc |-> "prepare", slot |-> Next1(d.slot),
                                            left |-> d.left - 1, prepared |-> d.prepared + 1]]
                    /\ UNCHANGED prep
         \/ "prepare" \in Races /\ Goto(c, "failed") /\ UNCHANGED <<Transfers, ReadyTransferCount, prep>>
      /\ UNCHANGED <<Answer, params, TransfersLeft, IsIdle, TransferOut, burst, control, engine, pin,
                     isr, io, wdf, canceller, count, served>>

\* ECSPIDeviceEnableRequestCancellation
DpcEnable(c) ==
  /\ At(c, "mark")
  /\ IF wdf = "cancelled"
     THEN /\ AbortAllTransfers /\ CompleteTransferRequest("cancelled") /\ Return(c)
          /\ io' = [io EXCEPT ![SpbRequest] = "refused"]
          /\ UNCHANGED wdf
     ELSE /\ wdf' = "marked" /\ State' = "CANCELABLE" /\ Goto(c, "idle")
          /\ UNCHANGED <<SpbRequest, answer, Type, engine, ReadyTransferCount, io>>
  /\ UNCHANGED <<prep, params, TransfersLeft, IsIdle, TransferOut, Transfers, burst, control, pin,
                 isr, canceller, count, served>>

\* InterlockedExchange(&requestPtr->IsIdle, 0),
DpcTakesIdle(c) ==
  /\ At(c, "idle")
  /\ IsIdle' = FALSE
  /\ IF IsIdle THEN Goto(c, "start") ELSE Return(c)
  /\ UNCHANGED <<Answer, prep, params, TransfersLeft, ReadyTransferCount, TransferOut, Transfers,
                 burst, control, engine, pin, isr, io, wdf, canceller, count, served>>

\* and ECSPISpbStartTransferSafe.
DpcStartsTransfer(c) ==
  /\ At(c, "start") /\ Return(c)
  /\ IF ReadyTransferCount # 0 THEN StartNextTransfer ELSE UNCHANGED <<engine, burst>>
  /\ UNCHANGED <<Answer, prep, params, TransfersLeft, IsIdle, ReadyTransferCount, TransferOut,
                 Transfers, control, pin, isr, io, wdf, canceller, count, served>>

\* "Request completion"; the result of a failed preparation is forgotten unless the
\* controller is locked.
DpcCompletes(c) ==
  /\ At(c, "complete") \/ At(c, "failed")
  /\ Return(c)
  /\ \/ /\ IsControllerLocked \/ ~ gpio
        /\ CompleteTransferRequest(IF IsControllerLocked /\ At(c, "failed") THEN "failed"
                                   ELSE "success")
        /\ UNCHANGED <<sent, GpioData>>
     \/ ~ IsControllerLocked /\ gpio /\ SetGpioPin("negate") /\ UNCHANGED Answer
     \/ /\ ~ IsControllerLocked /\ gpio /\ "gpio" \in Races
        /\ CompleteTransferRequest("failed") /\ UNCHANGED <<sent, GpioData>>
  /\ UNCHANGED <<prep, params, TransfersLeft, IsIdle, ReadyTransferCount, TransferOut, Transfers,
                 burst, control, engine, cs, isr, io, wdf, canceller, count, served>>

-----------------------------------------------------------------------------
(* The GPIO driver, and the completion routines.                           *)

Written(write, ok) ==
  /\ write \in sent /\ sent' = sent \ {write}
  /\ ok \/ "gpio" \in Races
  /\ cs' = IF ok THEN GpioData ELSE cs

\* Either routine first looks for a lock or unlock request to answer.
AnswersLock ==
  /\ LockUnlockRequest /\ LockUnlockRequest' = FALSE
  /\ UNCHANGED <<Answer, io>>

\* ECSPIpGpioAssertCompletionRoutine
GpioAssertCompletion(ok) ==
  /\ Written("assert", ok)
  /\ \/ AnswersLock
     \/ /\ ~ LockUnlockRequest /\ UNCHANGED LockUnlockRequest
        /\ IF ok /\ SpbRequest # NoRequest
           THEN io' = [io EXCEPT ![SpbRequest] = "mark"] /\ UNCHANGED Answer
           ELSE CompleteTransferRequest("failed") /\ UNCHANGED io
  /\ UNCHANGED <<prep, params, TransfersLeft, IsIdle, ReadyTransferCount, TransferOut, Transfers,
                 burst, IsControllerLocked, engine, GpioData, isr, dpc, wdf, canceller, count, served>>

\* ECSPIpGpioNegateCompletionRoutine: it answers the request that is current now.
GpioNegateCompletion(ok) ==
  /\ Written("negate", ok)
  /\ \/ AnswersLock
     \/ /\ ~ LockUnlockRequest /\ UNCHANGED <<LockUnlockRequest, io>>
        /\ CompleteTransferRequest(IF State = "CANCELED" THEN "cancelled"
                                   ELSE IF ok THEN "success" ELSE "failed")
  /\ UNCHANGED <<prep, params, TransfersLeft, IsIdle, ReadyTransferCount, TransferOut, Transfers,
                 burst, IsControllerLocked, engine, GpioData, isr, dpc, wdf, canceller, count, served>>

-----------------------------------------------------------------------------
(* Cancellation.                                                           *)

\* SpbCx's client, or its end, cancels the current request.
ClientCancels ==
  /\ SpbRequest # NoRequest
  /\ IsControllerLocked => "locked" \in Races
  /\ \/ wdf = "plain" /\ "mark" \in Races /\ wdf' = "cancelled"
     \/ wdf = "marked" /\ wdf' = "calling"
  /\ UNCHANGED <<Answer, prep, params, TransfersLeft, IsIdle, ReadyTransferCount, TransferOut,
                 Transfers, burst, control, engine, pin, isr, dpc, io, canceller, count, served>>

CancelNegates == gpio /\ ~ IsControllerLocked

\* ECSPIEvtRequestCancel, its section; the negation's completion answers the request, or
\* this routine does, having let go of the lock.
RequestCancel ==
  /\ wdf = "calling" /\ wdf' = "plain"
  /\ "start" \in Races \/ \A r \in Requests : io[r] # "start"
  /\ AbortAllTransfers
  /\ State' = "CANCELED"
  /\ \/ /\ CancelNegates /\ SetGpioPin("negate")
        /\ UNCHANGED <<SpbRequest, canceller>>
     \/ /\ ~ CancelNegates \/ "gpio" \in Races
        /\ SpbRequest' = NoRequest /\ canceller' = SpbRequest
        /\ UNCHANGED <<sent, GpioData>>
  /\ UNCHANGED <<Type, answer, prep, params, TransfersLeft, IsIdle, TransferOut, Transfers, burst,
                 control, cs, isr, dpc, io, count, served>>

CancelAnswers ==
  /\ canceller # NoRequest /\ canceller' = NoRequest
  /\ Type' = "INVALID" /\ State' = "INACTIVE"
  /\ answer' = [answer EXCEPT ![canceller] = "cancelled"]
  /\ UNCHANGED <<SpbRequest, prep, params, TransfersLeft, IsIdle, ReadyTransferCount, TransferOut,
                 Transfers, burst, control, engine, pin, isr, dpc, io, wdf, count, served>>

-----------------------------------------------------------------------------
(* The controller lock.                                                    *)

\* The chip select of a target without a GPIO pin needs no write: the request is
\* answered at once.
LockOrUnlock(write) ==
  \/ ~ gpio' /\ UNCHANGED <<LockUnlockRequest, sent, GpioData>>
  \/ gpio' /\ LockUnlockRequest' = TRUE /\ SetGpioPin(write)
  \/ /\ gpio' /\ "gpio" \in Races
     /\ LockUnlockRequest' = TRUE /\ UNCHANGED <<sent, GpioData>>

\* ECSPIEvtSpbControllerLock
ControllerLock(pinned) ==
  /\ Answered /\ ~ LockUnlockRequest /\ ~ IsControllerLocked
  /\ "dpc" \in Races \/ DpcOver
  /\ IsControllerLocked' = TRUE /\ gpio' = pinned /\ engine' = "on"
  /\ LockOrUnlock("assert")
  /\ UNCHANGED <<Answer, prep, TransferCount, bursts, TransfersLeft, IsIdle, ReadyTransferCount,
                 TransferOut, Transfers, burst, cs, isr, dpc, io, wdf, canceller, count, served>>

\* ECSPIEvtSpbControllerUnlock
ControllerUnlock ==
  /\ Answered /\ ~ LockUnlockRequest /\ IsControllerLocked
  /\ "dpc" \in Races \/ DpcOver
  /\ IsControllerLocked' = FALSE /\ gpio' = gpio /\ engine' = "off"
  /\ LockOrUnlock("negate")
  /\ UNCHANGED <<Answer, prep, TransferCount, bursts, TransfersLeft, IsIdle, ReadyTransferCount,
                 TransferOut, Transfers, burst, cs, isr, dpc, io, wdf, canceller, count, served>>

-----------------------------------------------------------------------------
Starts(r) == \/ Prepare(r) \/ AssertCS(r) \/ EnableRequestCancellation(r) \/ StartTransferSafe(r)
             \/ CompletesCurrent(r)
Isr == TransferEnds \/ BurstEnds \/ MarkIdle
Dpc(c) == \/ DpcStartsBurst(c) \/ DpcDisable(c) \/ DpcLooks(c) \/ DpcPrepares(c)
          \/ DpcEnable(c) \/ DpcTakesIdle(c) \/ DpcStartsTransfer(c) \/ DpcCompletes(c)
Gpio == \E ok \in BOOLEAN : GpioAssertCompletion(ok) \/ GpioNegateCompletion(ok)
Cancel == RequestCancel \/ CancelAnswers

Next ==
  \/ \E type \in Types, n \in 1 .. MaxTransfers, b \in 1 .. 2, pinned \in BOOLEAN :
       Receive(type, n, b, pinned)
  \/ \E r \in Requests : Starts(r)
  \/ Isr \/ Gpio \/ ClientCancels \/ Cancel
  \/ \E c \in Cpus : DpcStart(c) \/ Dpc(c)
  \/ \E pinned \in BOOLEAN : ControllerLock(pinned)
  \/ ControllerUnlock

\* A burst ends, the interrupt is taken, DPCs run, the GPIO driver answers, threads go on.
\* Nothing makes a client send, cancel, lock or unlock.
Fairness ==
  /\ \A r \in Requests : WF_vars(Starts(r))
  /\ \A c \in Cpus : WF_vars(Dpc(c))
  /\ WF_vars(\E c \in Cpus : DpcStart(c))
  /\ WF_vars(Isr) /\ WF_vars(Gpio) /\ WF_vars(Cancel)

Spec == Init /\ [][Next]_vars /\ Fairness

-----------------------------------------------------------------------------
(* Properties.                                                             *)

\* No more transfers are prepared than there are slots, whoever prepares and uses them
\* (the NT_ASSERT of ECSPISpbGetReadyTransferCount).
TypeOK ==
  /\ SpbRequest \in Requests \cup {NoRequest} /\ canceller \in Requests \cup {NoRequest}
  /\ Type \in Types \cup {"INVALID"}
  /\ State \in {"INACTIVE", "CANCELABLE", "NOT_CANCELABLE", "CANCELED"}
  /\ {TransferCount, NextTransferIndex, TransfersLeft, served} \subseteq 0 .. MaxTransfers
  /\ ReadyTransferCount \in 0 .. MAX_PREPARED_TRANSFERS_COUNT
  /\ {TransferIn, TransferOut} \subseteq Slots /\ Transfers \in [Slots -> 0 .. MaxTransfers]
  /\ {IsIdle, gpio, IsControllerLocked, LockUnlockRequest, cs, GpioData} \subseteq BOOLEAN
  /\ bursts \in 1 .. 2 /\ burst \in 0 .. 2
  /\ engine \in {"off", "on", "busy", "held"} /\ sent \subseteq {"assert", "negate"}
  /\ isr \in {"off", "idle"}
  /\ dpc \in [queued: BOOLEAN,
              cpu: [Cpus -> [pc: {"off", "burst", "timeout", "disable", "look", "prepare", "mark",
                                  "idle", "start", "complete", "failed"},
                             slot: Slots, left: 0 .. MAX_PREPARED_TRANSFERS_COUNT,
                             prepared: 0 .. MAX_PREPARED_TRANSFERS_COUNT]]]
  /\ io \in [Requests -> {"no", "prepare", "cs", "pin", "mark", "start", "over", "refused"}
                         \cup Failures]
  /\ wdf \in {"plain", "marked", "cancelled", "calling"}
  /\ answer \in [Requests -> {"none", "success", "failed", "cancelled"}]
  /\ count \in 0 .. MaxRequests

\* A sequence's transfers run in the client's order, none left out and none twice, though
\* the interrupt routine takes slots while DPCs fill them, without a lock
\* (ECSPIspb.cpp:655-775, 1052-1080).
TransfersInOrder ==
  (engine = "busy" /\ Type = "SEQUENCE") =>
    Transfers[TransferOut] = TransferCount - TransfersLeft + 1

\* A request answered with success has had all of its transfers carried out to the last
\* word: "TRUE: transfer is done" (ECSPIhw.cpp:634), and the DPC and the completion of a
\* GPIO write answer the request they belong to (ECSPIdevice.cpp:811-925, 1824-1868).
SuccessWhole ==
  [][\A r \in Requests : answer[r] # "success" /\ answer'[r] = "success" => served = TransferCount]_vars

\* When a request is answered the controller runs no transfer for it any more: its buffers
\* are gone (ECSPIdevice.cpp:460, 1016, 1041).
Quiet == Answered => engine # "busy"

\* When the controller is not locked and every request has been answered the chip select is
\* negated, whoever answered the last one; only a request that timed out, or was cancelled
\* before it was marked cancelable, leaves it asserted, until the next one that gets as
\* far as the controller (ECSPIdevice.cpp:486, 912, 978).
CsReleased ==
  (Answered /\ ~ IsControllerLocked /\ ~ LockUnlockRequest /\ gpio /\ cs) =>
    \E r \in 1 .. count : /\ io[r] = "refused" \/ answer[r] = "failed"
                          /\ \A q \in r + 1 .. count : answer[q] = "failed"

\* A thread that could not start its request answers no other one: "If the process fails
\* the routine completes the request." (ECSPIspb.cpp:1155).
CompletesOwn ==
  [][\A r, q \in Requests : io[r] \in Failures /\ io'[r] # io[r] /\ answer'[q] # answer[q] => q = r]_vars

\* Every request is answered: when the prepared transfers run out the controller waits for
\* the DPC, and somebody must start it again ("When a request is marked as 'idle', DPC
\* knows it needs to start the next transfer after preparing it", ECSPIspb.cpp:1076).
RequestAnswered == \A r \in Requests : (r <= count /\ answer[r] = "none") ~> answer[r] # "none"
=============================================================================
