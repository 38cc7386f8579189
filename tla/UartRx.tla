-------------------------------- MODULE UartRx -------------------------------
(***************************************************************************)
(* Programmed reception in the UART driver (imxuart.cpp): the receive      *)
(* FIFO, the interrupt, the intermediate buffer, the DPC and SerCx2's      *)
(* calls.  SerCx2 makes one read request at a time: ReadBuffer; while      *)
(* bytes are missing EnableReadyNotification, the ready callback and       *)
(* ReadBuffer again.  A timeout or a cancellation, on another thread,      *)
(* cancels the notification that is asked for or waited for; the request   *)
(* is then answered with the bytes it has.                                 *)
(*                                                                         *)
(* Bytes are numbered in the order in which the FIFO takes them from the   *)
(* line.  No receive DMA is active and no wait mask is set.  What is wrong *)
(* with a byte, CommStatusErrors, is left out.                             *)
(***************************************************************************)
EXTENDS UartRing, FiniteSets

CONSTANTS
  FifoCount,   \* IMX_UART_FIFO_COUNT
  RrdyLevel,   \* RRDY is asserted at or above this level of the FIFO (UFCR.RXTL)
  MaxLength,   \* bound: bytes per read request
  MaxBytes     \* bound: bytes received altogether

ASSUME UartRxAssumption ==
  /\ FifoCount \in Nat \ {0}
  /\ RrdyLevel \in 1 .. FifoCount
  /\ MaxLength \in Nat /\ MaxBytes \in Nat

States == {"STOPPED", "IDLE", "CANCELLED", "WAITING_FOR_INTERRUPT", "WAITING_FOR_DPC", "COMPLETE"}
Interrupts == {"RRDY", "AGTIM"}

VARIABLES
  HeadIndex, TailIndex, slots,   \* RxBuffer
  Enabled,                       \* UCR1.RRDYEN, UCR2.ATEN and Usr1EnabledInterruptsMask
  RxState,
  fifo,                          \* the receive FIFO
  aged,                          \* USR1.AGTIM
  isr,                           \* where the interrupt routine is, and its locals
  dpc,                           \* the DPC: whether it is queued, and whether it runs
  request,                       \* SerCx2's read request: where it is, the bytes still
                                 \* missing, and whether it is cancelled
  deq,                           \* DequeueBytes' locals: the head and the tail it has read
  next,                          \* the number of the next byte from the line
  last                           \* the number of the last byte given to SerCx2

ring == <<HeadIndex, TailIndex, slots>>
vars == <<ring, Enabled, RxState, fifo, aged, isr, dpc, request, deq, next, last>>

-----------------------------------------------------------------------------
(* Slips: each is an operator below as a plausible mistake would have it.  *)
(* No action uses them; a run with one in place of the right operator      *)
(* shows that the property it is paired with can fail.                     *)

\* The routine's head runs past the end of the buffer.
NextHeadSlip == isr.head + 1
\* DequeueBytes gives the slots back before it has copied them.
TailWhileCopyingSlip == Advance(TailIndex, DequeueCount(HeadIndex, TailIndex, request.left))
\* A cancelled notification keeps its state.
AfterCancelSlip(s) == s
\* A full buffer's interrupts stay disabled when the next notification is asked for.
ReadyEnablesSlip == Enabled

-----------------------------------------------------------------------------
Idle == [pc |-> "idle", left |-> 0, cancelled |-> FALSE]

Init ==
  /\ HeadIndex = 0 /\ TailIndex = 0 /\ slots = [s \in Slots |-> 0]
  /\ Enabled = {} /\ RxState = "STOPPED"
  /\ fifo = <<>> /\ aged = FALSE
  /\ isr = [pc |-> "off", usr |-> {}, head |-> 0, tail |-> 0]
  /\ dpc = [queued |-> FALSE, running |-> FALSE]
  /\ request = Idle
  /\ deq = [head |-> 0, tail |-> 0] /\ next = 1 /\ last = 0

\* WdfInterruptAcquireLock: the routine runs with the lock held.
Unlocked == isr.pc = "off"

At(pc) == request.pc = pc
Goto(pc) == request' = [request EXCEPT !.pc = pc]
Answered == request' = Idle

-----------------------------------------------------------------------------
(* The line.                                                               *)

\* A byte that finds the FIFO full is lost.
HwReceive ==
  /\ Len(fifo) < FifoCount /\ next <= MaxBytes
  /\ fifo' = Append(fifo, next) /\ next' = next + 1
  /\ UNCHANGED <<ring, Enabled, RxState, aged, isr, dpc, request, deq, last>>

\* Bytes have been in the FIFO for eight characters' time.
HwAge ==
  /\ fifo # <<>> /\ ~ aged
  /\ aged' = TRUE
  /\ UNCHANGED <<ring, Enabled, RxState, fifo, isr, dpc, request, deq, next, last>>

-----------------------------------------------------------------------------
(* IMXUartEvtInterruptIsr, the receive half, with the interrupt lock held  *)
(* from its first step to its last.                                        *)

Asserted ==
  {i \in Enabled : (i = "RRDY" /\ Len(fifo) >= RrdyLevel) \/ (i = "AGTIM" /\ aged)}

\* The status is read once, at the beginning, and so is the buffer's tail.
IsrEnter ==
  /\ isr.pc = "off" /\ Asserted # {}
  /\ isr' = [pc |-> "move", usr |-> Asserted, head |-> HeadIndex, tail |-> TailIndex]
  /\ UNCHANGED <<ring, Enabled, RxState, fifo, aged, dpc, request, deq, next, last>>

IsrFull == Full(isr.head, isr.tail)
NextHead == Advance(isr.head, 1)

\* One more byte from RXD, unless the buffer is full; nobody else touches RXD.
IsrMove ==
  /\ isr.pc = "move" /\ fifo # <<>> /\ ~ IsrFull
  /\ slots' = [slots EXCEPT ![isr.head] = Head(fifo)]
  /\ fifo' = Tail(fifo)
  /\ isr' = [isr EXCEPT !.head = NextHead]
  /\ UNCHANGED <<HeadIndex, TailIndex, Enabled, RxState, aged, dpc, request, deq, next, last>>

\* A full buffer disables both interrupts; AGTIM is acknowledged if it was asserted.
IsrMoved ==
  /\ isr.pc = "move" /\ (fifo = <<>> \/ IsrFull)
  /\ HeadIndex' = isr.head
  /\ Enabled' = IF IsrFull THEN {} ELSE Enabled
  /\ aged' = (aged /\ ~ IsrFull /\ "AGTIM" \notin isr.usr)
  /\ IF isr.head # isr.tail /\ RxState = "WAITING_FOR_INTERRUPT"
     THEN RxState' = "WAITING_FOR_DPC" /\ dpc' = [dpc EXCEPT !.queued = TRUE]
     ELSE UNCHANGED <<RxState, dpc>>
  /\ isr' = [isr EXCEPT !.pc = "off"]
  /\ UNCHANGED <<TailIndex, slots, fifo, request, deq, next, last>>

-----------------------------------------------------------------------------
(* IMXUartEvtInterruptDpc, the receive half; no lock.                      *)

DpcStart ==
  /\ dpc.queued /\ ~ dpc.running
  /\ dpc' = [queued |-> FALSE, running |-> TRUE]
  /\ UNCHANGED <<ring, Enabled, RxState, fifo, aged, isr, request, deq, next, last>>

\* SerCx2PioReceiveReady: SerCx2 reads on, or ends the request it has cancelled.
ReceiveReady == IF request.cancelled THEN Answered ELSE Goto("read")

DpcReady ==
  /\ dpc.running
  /\ dpc' = [dpc EXCEPT !.running = FALSE]
  /\ IF RxState = "WAITING_FOR_DPC"
     THEN RxState' = "COMPLETE" /\ ReceiveReady
     ELSE UNCHANGED <<RxState, request>>
  /\ UNCHANGED <<ring, Enabled, fifo, aged, isr, deq, next, last>>

-----------------------------------------------------------------------------
(* IMXUartEvtSerCx2PioReceiveReadBuffer, on SerCx2's thread; no lock.      *)

Read(n) ==
  /\ At("idle")
  /\ request' = [pc |-> "read", left |-> n, cancelled |-> FALSE]
  /\ UNCHANGED <<ring, Enabled, RxState, fifo, aged, isr, dpc, deq, next, last>>

ReadBuffer ==
  /\ At("read")
  /\ RxState' = "IDLE"
  /\ Goto("dequeue")
  /\ UNCHANGED <<ring, Enabled, fifo, aged, isr, dpc, deq, next, last>>

\* Where the interrupt finds the tail while DequeueBytes copies.
TailWhileCopying == TailIndex

\* DequeueBytes reads the indices,
Dequeue ==
  /\ At("dequeue")
  /\ deq' = [head |-> HeadIndex, tail |-> TailIndex]
  /\ TailIndex' = TailWhileCopying
  /\ Goto("copy")
  /\ UNCHANGED <<HeadIndex, slots, Enabled, RxState, fifo, aged, isr, dpc, next, last>>

\* copies,
Copy ==
  LET bytes == Dequeued(slots, deq.head, deq.tail, request.left)
  IN  /\ At("copy")
      /\ deq' = [deq EXCEPT !.tail = Advance(@, Len(bytes))]
      /\ last' = IF bytes = <<>> THEN last ELSE bytes[Len(bytes)]
      /\ request' = [request EXCEPT !.pc = "release", !.left = @ - Len(bytes)]
      /\ UNCHANGED <<ring, Enabled, RxState, fifo, aged, isr, dpc, next>>

\* and gives the slots back: WriteULongRelease(&this->TailIndex, newTailIndex).
Release ==
  /\ At("release")
  /\ TailIndex' = deq.tail
  /\ IF request.left = 0 THEN Answered ELSE Goto("enable")
  /\ UNCHANGED <<HeadIndex, slots, Enabled, RxState, fifo, aged, isr, dpc, deq, next, last>>

-----------------------------------------------------------------------------
(* The ready notification and its cancellation.                            *)

ReadyEnables == Enabled \cup {"RRDY", "AGTIM"}

\* IMXUartEvtSerCx2PioReceiveEnableReadyNotification
EnableReadyNotification ==
  /\ At("enable") /\ Unlocked
  /\ IF RxState = "CANCELLED"
     THEN Answered /\ UNCHANGED <<Enabled, RxState>>
     ELSE IF "RRDY" \notin Enabled /\ HeadIndex # TailIndex
     THEN RxState' = "COMPLETE" /\ Goto("inline") /\ UNCHANGED Enabled
     ELSE /\ Enabled' = ReadyEnables
          /\ RxState' = "WAITING_FOR_INTERRUPT"
          /\ Goto("ready")
  /\ UNCHANGED <<ring, fifo, aged, isr, dpc, deq, next, last>>

\* SerCx2PioReceiveReady "inline because the interrupt might never come", unlocked.
ReadyInline ==
  /\ At("inline")
  /\ ReceiveReady
  /\ UNCHANGED <<ring, Enabled, RxState, fifo, aged, isr, dpc, deq, next, last>>

AfterCancel(s) == "CANCELLED"
Cancellable == {"STOPPED", "CANCELLED", "IDLE", "WAITING_FOR_INTERRUPT"}

\* IMXUartEvtSerCx2PioReceiveCancelReadyNotification, at most once per request; the call
\* for the notification may still be under way.  TRUE: there will be no callback, FALSE:
\* SerCx2 waits for it.
CancelReadyNotification ==
  /\ request.pc \in {"enable", "inline", "ready"} /\ ~ request.cancelled /\ Unlocked
  /\ RxState' = IF RxState \in Cancellable THEN AfterCancel(RxState) ELSE RxState
  /\ IF RxState \in Cancellable /\ At("ready")
     THEN Answered
     ELSE request' = [request EXCEPT !.cancelled = TRUE]
  /\ UNCHANGED <<ring, Enabled, fifo, aged, isr, dpc, deq, next, last>>

-----------------------------------------------------------------------------
\* IMXUartEvtSerCx2PurgeFifos, between requests: with PurgeRxFifo the FIFO is read empty
\* and the buffer reset; PurgeTxFifo alone resets the UART if bytes wait to be sent,
\* and that empties the receive FIFO, too.
PurgeFifos ==
  /\ At("idle") /\ Unlocked
  /\ fifo' = <<>>
  /\ \/ HeadIndex' = 0 /\ TailIndex' = 0 /\ UNCHANGED aged
     \/ aged' = FALSE /\ UNCHANGED <<HeadIndex, TailIndex>>
  /\ UNCHANGED <<slots, Enabled, RxState, isr, dpc, request, deq, next, last>>

\* IMXUartEvtSerCx2FileClose, no request being left, and IMXUartEvtSerCx2FileOpen,
\* which asserts what is found here; the UART is reset in between.
CloseAndOpen ==
  /\ At("idle") /\ Unlocked
  /\ Enabled' = {} /\ RxState' = "STOPPED"
  /\ HeadIndex' = 0 /\ TailIndex' = 0 /\ fifo' = <<>> /\ aged' = FALSE
  /\ UNCHANGED <<slots, isr, dpc, request, deq, next, last>>

-----------------------------------------------------------------------------
Reading == ReadBuffer \/ Dequeue \/ Copy \/ Release \/ EnableReadyNotification \/ ReadyInline
Isr == IsrEnter \/ IsrMove \/ IsrMoved
Dpc == DpcStart \/ DpcReady

Next ==
  \/ HwReceive \/ HwAge \/ Isr \/ Dpc
  \/ \E n \in 1 .. MaxLength : Read(n)
  \/ Reading \/ CancelReadyNotification
  \/ PurgeFifos \/ CloseAndOpen

\* Bytes age, the interrupt is taken while it is asserted, a queued DPC runs, SerCx2's
\* thread goes on.  Nothing makes the peer send, SerCx2 read or a timeout expire.
Fairness == WF_vars(HwAge) /\ WF_vars(Isr) /\ WF_vars(Dpc) /\ SF_vars(Reading)

Spec == Init /\ [][Next]_vars /\ Fairness

-----------------------------------------------------------------------------
(* Properties.                                                             *)

\* Indices stay in the buffer, and the routine and the reader agree on its size: the
\* routine keeps one slot free (imxuart.cpp:193-195, imxuart.h:100).
TypeOK ==
  /\ HeadIndex \in Slots /\ TailIndex \in Slots
  /\ slots \in [Slots -> 0 .. MaxBytes]
  /\ Enabled \subseteq Interrupts /\ RxState \in States
  /\ fifo \in Seq(1 .. MaxBytes) /\ Len(fifo) <= FifoCount /\ aged \in BOOLEAN
  /\ isr \in [pc: {"off", "move"}, usr: SUBSET Interrupts, head: Slots, tail: Slots]
  /\ dpc \in [queued: BOOLEAN, running: BOOLEAN]
  /\ request \in [pc: {"idle", "read", "dequeue", "copy", "release", "enable", "inline", "ready"},
                  left: 0 .. MaxLength, cancelled: BOOLEAN]
  /\ deq \in [head: Slots, tail: Slots]
  /\ next \in 1 .. MaxBytes + 1 /\ last \in 0 .. MaxBytes

\* What the FIFO has taken from the line and SerCx2 has not been given.
Pipe ==
  Contents(slots, IF isr.pc = "move" THEN isr.head ELSE HeadIndex,
                  IF request.pc \in {"copy", "release"} THEN deq.tail ELSE TailIndex) \o fifo

\* SerCx2 is given the bytes in the order in which the FIFO took them, none twice, and
\* none is missing but the newest at a purge: the interrupt fills the buffer while
\* DequeueBytes empties it without a lock (imxuart.cpp:99-146, 188-230).
BytePipe == INSTANCE BytePipe WITH pipe <- Pipe
ReceivesInOrder == BytePipe!Spec

\* The DPC calls SerCx2PioReceiveReady only when SerCx2 waits for it: a cancellation that
\* returned TRUE is not overtaken by the interrupt or by a DPC already queued
\* (imxuart.cpp:477, 963-1004).
CallbackExpected == RxState = "WAITING_FOR_DPC" => At("ready")

\* Bytes in the FIFO end the wait for the ready notification: a full buffer switches RRDY
\* and AGTIM off, the notification must switch them on again or be given at once
\* (imxuart.cpp:238, 918-955).
FifoReported == (At("ready") /\ fifo # <<>>) ~> ~ At("ready")

\* "If there are bytes available and RX notifications are enabled, queue the receive
\* ready notification" (imxuart.cpp:265): bytes in the buffer end the wait, too.
AvailableNotified == (At("ready") /\ HeadIndex # TailIndex) ~> ~ At("ready")
=============================================================================
