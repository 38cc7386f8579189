-------------------------------- MODULE UartTx -------------------------------
(***************************************************************************)
(* Programmed transmission in the UART driver (imxuart.cpp): SerCx2's      *)
(* calls, the intermediate buffer, the transmit FIFO, the interrupt and    *)
(* its DPC.  SerCx2 makes one write request at a time:                     *)
(*                                                                         *)
(*   WriteBuffer; while bytes are left: EnableReadyNotification, the ready *)
(*   callback, WriteBuffer; then DrainFifo and the drain callback.  While  *)
(*   it asks for a callback or waits for one it may cancel, from another   *)
(*   thread; then it calls PurgeFifo and waits for the purge callback.     *)
(*                                                                         *)
(* Bytes are numbered in the order in which WriteBuffer accepts them.  No  *)
(* transmit DMA is active and no wait mask is set.  UCR1 and UCR2 and the  *)
(* driver's masks of enabled interrupts always change together: Enabled.   *)
(***************************************************************************)
EXTENDS UartRing, FiniteSets

CONSTANTS
  FifoCount,      \* IMX_UART_FIFO_COUNT
  TrdyLevel,      \* TRDY is asserted at or below this level of the FIFO (UFCR.TXTL)
  TxDpcThreshold, \* the intermediate buffer's level at which more bytes are asked for
  MaxLength,      \* bound: bytes per request
  MaxBytes        \* bound: bytes accepted altogether

ASSUME UartTxAssumption ==
  /\ FifoCount \in Nat \ {0}
  /\ TrdyLevel \in 0 .. FifoCount - 1
  /\ TxDpcThreshold \in 0 .. Capacity
  /\ MaxLength \in Nat /\ MaxBytes \in Nat

\* IMX_UART_STATE; STOPPING is only used for receive DMA.
States == {"STOPPED", "IDLE", "CANCELLED", "WAITING_FOR_INTERRUPT", "WAITING_FOR_DPC", "COMPLETE"}
Interrupts == {"TRDY", "TXFE"}

VARIABLES
  HeadIndex, TailIndex, slots,      \* TxBuffer
  Enabled,                          \* UCR1.TRDYEN and TXMPTYEN, and Usr1/2EnabledInterruptsMask
  IRTS,                             \* UCR2.IRTS: the CTS line is ignored
  TxState, TxDrainState, TxPurgeState,
  fifo,                             \* the transmit FIFO
  isr,                              \* where the interrupt routine is, and its locals
  dpc,                              \* the DPC: whether it is queued, and where it is
  request,                          \* SerCx2's write request: where it is, the bytes not yet
                                    \* accepted and those accepted, and whether it is cancelled
  newHead,                          \* EnqueueBytes' newHeadIndex
  next,                             \* the number of the next byte to be accepted
  last                              \* the number of the last byte on the line

ring   == <<HeadIndex, TailIndex, slots>>
states == <<TxState, TxDrainState, TxPurgeState>>
vars   == <<ring, Enabled, IRTS, states, fifo, isr, dpc, request, newHead, next, last>>

-----------------------------------------------------------------------------
(* Slips: each is an operator below as a plausible mistake would have it.  *)
(* No action uses them; a run with one in place of the right operator      *)
(* shows that the property it is paired with can fail.                     *)

\* A cancelled notification keeps its state.
AfterCancelSlip(s) == s
\* The ready notification relies on TRDY being enabled already.
ReadyEnablesSlip == Enabled
\* The routine starts at the slot behind the oldest byte.
FromSlotSlip == slots[Advance(isr.tail, 1)]
\* The buffer's index runs past its end.
NewTailSlip == isr.tail + 1

-----------------------------------------------------------------------------
Idle == [pc |-> "idle", left |-> 0, done |-> 0, cancelled |-> FALSE]

Init ==
  /\ HeadIndex = 0 /\ TailIndex = 0 /\ slots = [s \in Slots |-> 0]
  /\ Enabled = {} /\ IRTS \in BOOLEAN
  /\ TxState = "STOPPED" /\ TxDrainState = "STOPPED" /\ TxPurgeState = "STOPPED"
  /\ fifo = <<>>
  /\ isr = [pc |-> "off", usr |-> {}, head |-> 0, tail |-> 0]
  /\ dpc = [queued |-> FALSE, pc |-> "off"]
  /\ request = Idle
  /\ newHead = 0 /\ next = 1 /\ last = 0

\* WdfInterruptAcquireLock: the routine runs with the lock held.
Unlocked == isr.pc = "off"

FifoFull == Len(fifo) >= FifoCount     \* UTS.TXFULL
FifoEmpty == fifo = <<>>               \* USR2.TXFE

At(pc) == request.pc = pc
Goto(pc) == request' = [request EXCEPT !.pc = pc]
Purging == request' = [request EXCEPT !.pc = "purge", !.cancelled = TRUE]
Answered == request' = Idle

-----------------------------------------------------------------------------
(* IMXUartEvtSerCx2PioTransmitWriteBuffer, on SerCx2's thread; no lock.    *)

Write(n) ==
  /\ At("idle") /\ next + n - 1 <= MaxBytes
  /\ request' = [pc |-> "write", left |-> n, done |-> 0, cancelled |-> FALSE]
  /\ UNCHANGED <<ring, Enabled, IRTS, states, fifo, isr, dpc, newHead, next, last>>

\* TxBuffer.IsEmpty() decides whether bytes may go past the buffer.
WriteBuffer ==
  /\ At("write")
  /\ TxState' = "IDLE" /\ TxDrainState' = "IDLE"
  /\ Goto(IF HeadIndex = TailIndex THEN "fifo" ELSE "enqueue")
  /\ UNCHANGED <<ring, Enabled, IRTS, TxPurgeState, fifo, isr, dpc, newHead, next, last>>

\* One more byte is written "directly to TX FIFO".
WriteTxd ==
  /\ At("fifo") /\ request.left > 0 /\ ~ FifoFull
  /\ fifo' = Append(fifo, next) /\ next' = next + 1
  /\ request' = [request EXCEPT !.left = @ - 1, !.done = @ + 1]
  /\ UNCHANGED <<ring, Enabled, IRTS, states, isr, dpc, newHead, last>>

FifoWritten ==
  /\ At("fifo") /\ (request.left = 0 \/ FifoFull)
  /\ Goto("enqueue")
  /\ UNCHANGED <<ring, Enabled, IRTS, states, fifo, isr, dpc, newHead, next, last>>

\* EnqueueBytes up to its last statement: what the reader may not look at yet.
EnqueueCopy ==
  /\ At("enqueue")
  /\ slots' = Enqueued(slots, HeadIndex, TailIndex, [i \in 1 .. request.left |-> next + i - 1])
  /\ newHead' = Advance(HeadIndex, EnqueueCount(HeadIndex, TailIndex, request.left))
  /\ Goto("publish")
  /\ UNCHANGED <<HeadIndex, TailIndex, Enabled, IRTS, states, fifo, isr, dpc, next, last>>

\* WriteULongRelease(&this->HeadIndex, newHeadIndex)
Publish ==
  LET bytes == Count(newHead, HeadIndex)
  IN  /\ At("publish")
      /\ HeadIndex' = newHead /\ next' = next + bytes
      /\ request' = [request EXCEPT !.pc = IF bytes # 0 THEN "trdy" ELSE "return",
                                    !.left = @ - bytes, !.done = @ + bytes]
      /\ UNCHANGED <<TailIndex, slots, Enabled, IRTS, states, fifo, isr, dpc, newHead, last>>

\* "If we put bytes in the intermediate TX buffer, enable TX interrupts".
WriteEnablesTrdy ==
  /\ At("trdy") /\ Unlocked
  /\ Enabled' = Enabled \cup {"TRDY"}
  /\ Goto("return")
  /\ UNCHANGED <<ring, IRTS, states, fifo, isr, dpc, newHead, next, last>>

\* SerCx2 asks to be told when it may write more, or that all bytes are sent.
WriteReturns ==
  /\ At("return")
  /\ Goto(IF request.left > 0 THEN "enable" ELSE "drain")
  /\ UNCHANGED <<ring, Enabled, IRTS, states, fifo, isr, dpc, newHead, next, last>>

-----------------------------------------------------------------------------
(* The ready and the drain notification, and their cancellation.           *)

ReadyEnables == Enabled \cup {"TRDY"}

\* IMXUartEvtSerCx2PioTransmitEnableReadyNotification
EnableReadyNotification ==
  /\ At("enable") /\ Unlocked
  /\ IF TxState = "CANCELLED"
     THEN Purging /\ UNCHANGED <<Enabled, TxState>>
     ELSE /\ Enabled' = ReadyEnables
          /\ TxState' = "WAITING_FOR_INTERRUPT"
          /\ Goto("ready")
  /\ UNCHANGED <<ring, IRTS, TxDrainState, TxPurgeState, fifo, isr, dpc, newHead, next, last>>

\* IMXUartEvtSerCx2PioTransmitDrainFifo; the FIFO alone is looked at.
DrainFifo ==
  /\ At("drain") /\ Unlocked
  /\ IF TxDrainState = "CANCELLED"
     THEN Purging /\ UNCHANGED <<Enabled, TxDrainState>>
     ELSE IF FifoEmpty
     THEN TxDrainState' = "COMPLETE" /\ Answered /\ UNCHANGED Enabled
     ELSE /\ Enabled' = Enabled \cup {"TXFE"}
          /\ TxDrainState' = "WAITING_FOR_INTERRUPT"
          /\ Goto("drained")
  /\ UNCHANGED <<ring, IRTS, TxState, TxPurgeState, fifo, isr, dpc, newHead, next, last>>

AfterCancel(s) == "CANCELLED"
Cancellable == {"STOPPED", "CANCELLED", "IDLE", "WAITING_FOR_INTERRUPT"}

\* SerCx2 cancels at most once; the call for the notification may still be under way.
\* TRUE: there will be no callback, FALSE: SerCx2 waits for it.
Cancel(state, asking, waiting) ==
  /\ request.pc \in {asking, waiting} /\ ~ request.cancelled /\ Unlocked
  /\ IF state \in Cancellable /\ At(waiting)
     THEN Purging
     ELSE request' = [request EXCEPT !.cancelled = TRUE]

\* IMXUartEvtSerCx2PioTransmitCancelReadyNotification
CancelReadyNotification ==
  /\ Cancel(TxState, "enable", "ready")
  /\ TxState' = IF TxState \in Cancellable THEN AfterCancel(TxState) ELSE TxState
  /\ UNCHANGED <<ring, Enabled, IRTS, TxDrainState, TxPurgeState, fifo, isr, dpc, newHead, next, last>>

\* IMXUartEvtSerCx2PioTransmitCancelDrainFifo
CancelDrainFifo ==
  /\ Cancel(TxDrainState, "drain", "drained")
  /\ TxDrainState' = IF TxDrainState \in Cancellable THEN AfterCancel(TxDrainState) ELSE TxDrainState
  /\ UNCHANGED <<ring, Enabled, IRTS, TxState, TxPurgeState, fifo, isr, dpc, newHead, next, last>>

-----------------------------------------------------------------------------
(* Purging.                                                                *)

\* IMXUartEvtSerCx2PioTransmitPurgeFifo: the buffer is emptied at once; the bytes in
\* the FIFO are sent, unless the peer's CTS may hold them back forever.
PurgeFifo ==
  /\ At("purge") /\ Unlocked
  /\ HeadIndex' = 0 /\ TailIndex' = 0
  /\ IF FifoEmpty \/ ~ IRTS
     THEN /\ Enabled' = Enabled \ {"TRDY"}
          /\ Answered /\ UNCHANGED TxPurgeState
     ELSE /\ Enabled' = (Enabled \ {"TRDY"}) \cup {"TXFE"}
          /\ TxPurgeState' = "WAITING_FOR_INTERRUPT"
          /\ Goto("purged")
  /\ UNCHANGED <<slots, IRTS, TxState, TxDrainState, fifo, isr, dpc, newHead, next, last>>

\* IMXUartEvtSerCx2PurgeFifos with PurgeTxFifo, between requests: a UART whose FIFO is
\* not empty is reset; the interrupts stay enabled.
PurgeFifos ==
  /\ At("idle") /\ Unlocked
  /\ HeadIndex' = 0 /\ TailIndex' = 0 /\ fifo' = <<>>
  /\ UNCHANGED <<slots, Enabled, IRTS, states, isr, dpc, request, newHead, next, last>>

-----------------------------------------------------------------------------
(* IMXUartEvtInterruptIsr, the transmit half, with the interrupt lock held *)
(* from its first step to its last.                                        *)

Asserted ==
  {i \in Enabled : (i = "TRDY" /\ Len(fifo) <= TrdyLevel) \/ (i = "TXFE" /\ FifoEmpty)}

\* The status is read once, at the beginning, and so is the buffer's head.
IsrEnter ==
  /\ isr.pc = "off" /\ Asserted # {}
  /\ isr' = [pc |-> "move", usr |-> Asserted, head |-> HeadIndex, tail |-> TailIndex]
  /\ UNCHANGED <<ring, Enabled, IRTS, states, fifo, dpc, request, newHead, next, last>>

FromSlot == slots[isr.tail]

\* "Take bytes from the intermediate buffer and put them in the TX FIFO".
IsrMove ==
  /\ isr.pc = "move" /\ isr.tail # isr.head /\ ~ FifoFull
  /\ fifo' = Append(fifo, FromSlot)
  /\ isr' = [isr EXCEPT !.tail = Advance(@, 1)]
  /\ UNCHANGED <<ring, Enabled, IRTS, states, dpc, request, newHead, next, last>>

NewTail == isr.tail

IsrMoved ==
  /\ isr.pc = "move" /\ (isr.tail = isr.head \/ FifoFull)
  /\ TailIndex' = NewTail
  /\ isr' = [isr EXCEPT !.pc = "notify"]
  /\ UNCHANGED <<HeadIndex, slots, Enabled, IRTS, states, fifo, dpc, request, newHead, next, last>>

\* TRDY is masked when the buffer is empty, TXFE whenever it was asserted.
Masked == (IF isr.tail = isr.head THEN {"TRDY"} ELSE {}) \cup {"TXFE"}

AskedMore == TxState = "WAITING_FOR_INTERRUPT" /\ Count(isr.head, isr.tail) <= TxDpcThreshold

ForDpc(state, asked) == IF asked /\ state = "WAITING_FOR_INTERRUPT" THEN "WAITING_FOR_DPC" ELSE state

IsrNotify ==
  /\ isr.pc = "notify"
  /\ Enabled' = Enabled \ (Masked \cap isr.usr)
  /\ TxState' = ForDpc(TxState, AskedMore)
  /\ TxDrainState' = ForDpc(TxDrainState, "TXFE" \in isr.usr)
  /\ TxPurgeState' = ForDpc(TxPurgeState, "TXFE" \in isr.usr)
  /\ dpc' = [dpc EXCEPT !.queued = @ \/ states' # states]
  /\ isr' = [isr EXCEPT !.pc = "off"]
  /\ UNCHANGED <<ring, IRTS, fifo, request, newHead, next, last>>

-----------------------------------------------------------------------------
(* IMXUartEvtInterruptDpc, the transmit half; no lock.  It runs on one     *)
(* processor at a time, but may be queued again while it runs.             *)

DpcStart ==
  /\ dpc.queued /\ dpc.pc = "off"
  /\ dpc' = [queued |-> FALSE, pc |-> "ready"]
  /\ UNCHANGED <<ring, Enabled, IRTS, states, fifo, isr, request, newHead, next, last>>

DpcStep(from, to) == dpc.pc = from /\ dpc' = [dpc EXCEPT !.pc = to]

\* SerCx2PioTransmitReady: SerCx2 writes on, or purges if it has cancelled meanwhile.
DpcReady ==
  /\ DpcStep("ready", "drained")
  /\ IF TxState = "WAITING_FOR_DPC"
     THEN TxState' = "COMPLETE" /\ Goto(IF request.cancelled THEN "purge" ELSE "write")
     ELSE UNCHANGED <<TxState, request>>
  /\ UNCHANGED <<ring, Enabled, IRTS, TxDrainState, TxPurgeState, fifo, isr, newHead, next, last>>

\* SerCx2PioTransmitDrainFifoComplete: the request is answered, cancelled or not.
DpcDrained ==
  /\ DpcStep("drained", "purged")
  /\ IF TxDrainState = "WAITING_FOR_DPC"
     THEN TxDrainState' = "COMPLETE" /\ Answered
     ELSE UNCHANGED <<TxDrainState, request>>
  /\ UNCHANGED <<ring, Enabled, IRTS, TxState, TxPurgeState, fifo, isr, newHead, next, last>>

\* SerCx2PioTransmitPurgeFifoComplete.
DpcPurged ==
  /\ DpcStep("purged", "off")
  /\ IF TxPurgeState = "WAITING_FOR_DPC"
     THEN TxPurgeState' = "STOPPED" /\ Answered
     ELSE UNCHANGED <<TxPurgeState, request>>
  /\ UNCHANGED <<ring, Enabled, IRTS, TxState, TxDrainState, fifo, isr, newHead, next, last>>

-----------------------------------------------------------------------------
\* The transmitter takes the next byte, at any time: the FIFO may run empty while bytes
\* wait in the buffer.
HwShift ==
  /\ fifo # <<>>
  /\ last' = Head(fifo) /\ fifo' = Tail(fifo)
  /\ UNCHANGED <<ring, Enabled, IRTS, states, isr, dpc, request, newHead, next>>

\* IMXUartEvtSerCx2FileClose, no request being left, and IMXUartEvtSerCx2FileOpen,
\* which asserts what is found here; the UART is reset in between.
CloseAndOpen ==
  /\ At("idle") /\ Unlocked
  /\ Enabled' = {}
  /\ HeadIndex' = 0 /\ TailIndex' = 0 /\ fifo' = <<>>
  /\ TxState' = "STOPPED" /\ TxDrainState' = "STOPPED" /\ TxPurgeState' = "STOPPED"
  /\ UNCHANGED <<slots, IRTS, isr, dpc, request, newHead, next, last>>

-----------------------------------------------------------------------------
Writing == \/ WriteBuffer \/ WriteTxd \/ FifoWritten \/ EnqueueCopy \/ Publish
           \/ WriteEnablesTrdy \/ WriteReturns
Asking == EnableReadyNotification \/ DrainFifo \/ PurgeFifo
Isr == IsrEnter \/ IsrMove \/ IsrMoved \/ IsrNotify
Dpc == DpcStart \/ DpcReady \/ DpcDrained \/ DpcPurged

Next ==
  \/ \E n \in 1 .. MaxLength : Write(n)
  \/ Writing \/ Asking \/ CancelReadyNotification \/ CancelDrainFifo
  \/ Isr \/ Dpc \/ HwShift \/ PurgeFifos \/ CloseAndOpen

\* SerCx2's thread goes on, the interrupt is taken while it is asserted, a queued DPC
\* runs; the line sends what it has unless the peer's CTS holds it back.
Fairness ==
  /\ SF_vars(Writing \/ Asking) /\ WF_vars(Isr) /\ WF_vars(Dpc) /\ WF_vars(IRTS /\ HwShift)

Spec == Init /\ [][Next]_vars /\ Fairness

-----------------------------------------------------------------------------
(* Properties.                                                             *)

\* Indices stay in the buffer and the FIFO is never overfilled: WriteBuffer and the
\* interrupt both look at UTS.TXFULL before they write TXD (imxuart.cpp:1030, 306).
TypeOK ==
  /\ HeadIndex \in Slots /\ TailIndex \in Slots /\ newHead \in Slots
  /\ slots \in [Slots -> 0 .. MaxBytes]
  /\ Enabled \subseteq Interrupts /\ IRTS \in BOOLEAN
  /\ TxState \in States /\ TxDrainState \in States /\ TxPurgeState \in States
  /\ fifo \in Seq(1 .. MaxBytes) /\ Len(fifo) <= FifoCount
  /\ isr \in [pc: {"off", "move", "notify"}, usr: SUBSET Interrupts, head: Slots, tail: Slots]
  /\ dpc \in [queued: BOOLEAN, pc: {"off", "ready", "drained", "purged"}]
  /\ request \in [pc: {"idle", "write", "fifo", "enqueue", "publish", "trdy", "return", "enable",
                       "ready", "drain", "drained", "purge", "purged"},
                  left: 0 .. MaxLength, done: 0 .. MaxLength, cancelled: BOOLEAN]
  /\ next \in 1 .. MaxBytes + 1 /\ last \in 0 .. MaxBytes

\* What WriteBuffer has accepted and neither the line has had nor a purge discarded;
\* the routine has moved bytes before it writes TailIndex.
Pipe == fifo \o Contents(slots, HeadIndex, IF isr.pc = "move" THEN isr.tail ELSE TailIndex)

\* Bytes reach the line in the order in which WriteBuffer accepted them, none twice,
\* and none is missing but the newest at a purge: WriteBuffer writes past the buffer
\* without a lock while the interrupt moves bytes out of it (imxuart.cpp:303-317, 1024-1048).
BytePipe == INSTANCE BytePipe WITH pipe <- Pipe
SendsInOrder == BytePipe!Spec

\* SerCx2 is called back only when it waits for that callback: a cancellation that
\* returned TRUE is not overtaken by the interrupt or by a DPC already queued, and no
\* purge begins while one is under way (imxuart.cpp:490-521, 1110-1151, 1267).
CallbackExpected ==
  /\ TxState = "WAITING_FOR_DPC" => At("ready")
  /\ TxDrainState = "WAITING_FOR_DPC" => At("drained")
  /\ TxPurgeState = "WAITING_FOR_DPC" => At("purged")
  /\ At("purge") => TxPurgeState = "STOPPED"

\* When the DPC is "Notifying TX FIFO drain complete" (imxuart.cpp:504) the transmit FIFO
\* is empty: TXFE is read at the beginning of the interrupt routine, which moves bytes
\* into the FIFO before it acts on what it has read (imxuart.cpp:303-317, 360-375).
DrainedWhenComplete ==
  [][At("drained") /\ request'.pc = "idle" => FifoEmpty]_vars

\* Every write request is answered if the peer takes bytes or SerCx2 cancels: TRDY is
\* masked when the buffer runs empty and TXFE after each use, both must be enabled again
\* in time (imxuart.cpp:325, 407, 1054, 1096).
RequestAnswered == (~ At("idle") /\ (IRTS \/ request.cancelled)) ~> At("idle")
=============================================================================
