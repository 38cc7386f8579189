------------------------------- MODULE UartRxDma ------------------------------
(***************************************************************************)
(* Reception by DMA in the UART driver (imxuart.cpp): SerCx2's custom      *)
(* receive transactions, the cyclic DMA buffer, the progress timer, the    *)
(* DMA's completion callback, WDF's cancellation, and what a later         *)
(* programmed read takes out of the buffer.  The DMA goes on between       *)
(* transactions "to avoid loosing data".                                   *)
(*                                                                         *)
(* SerCx2 makes one request at a time: a custom receive transaction, which *)
(* is started, completed by somebody and cleaned up, or a programmed read. *)
(* Timer, completion callback and cancellation run on other processors;    *)
(* each section that holds the transaction's Lock is a step.               *)
(*                                                                         *)
(* Bytes are numbered in the order in which the DMA stores them.  Bytes    *)
(* that the interrupt takes from the FIFO while no DMA is active are       *)
(* UartRx's.  The transfer never ends with an error.                       *)
(***************************************************************************)
EXTENDS Integers, Sequences

CONSTANTS
  DmaBufferSize,     \* bytes in the cyclic buffer
  MaxLength,         \* bound: bytes per request
  MaxBytes,          \* bound: bytes received altogether
  CancelledAtStart   \* a request may be cancelled before its transaction has been started

ASSUME UartRxDmaAssumption ==
  /\ DmaBufferSize \in Nat \ {0, 1}
  /\ MaxLength \in Nat /\ MaxBytes \in Nat
  /\ CancelledAtStart \in BOOLEAN

States == {"STOPPED", "IDLE", "WAITING_FOR_DPC", "STOPPING"}
Active == {"WAITING_FOR_DPC", "STOPPING"}        \* IMX_UART_STATE_ACTIVE
Callbacks == {"timer", "complete"}
Positions == 0 .. DmaBufferSize - 1

VARIABLES
  slots, dmaCounter,         \* the cyclic buffer, and where the DMA stores next
  IsRxDmaStarted, RxDmaState,
  RXDMAEN,                   \* UCR1: the DMA may take bytes from the FIFO
  LastDmaCounter, DmaBufferReadPos, DmaBufferPendingBytes,
  WdfRequest, BufferMdlPtr,  \* BOOLEAN: not WDF_NO_HANDLE, not nullptr
  TransferLength, BytesTransferred,
  taken,                     \* the bytes taken out of the cyclic buffer for the request
  user,                      \* the request's buffer up to BufferMdlOffset; 0: not written
  armed,                     \* the progress timer
  notify,                    \* the DMA has filled another part of its buffer
  call,                      \* per callback: where it is, and the new bytes it has counted
  cancel,                    \* the request's cancellation: "no", "possible", "called"
  io,                        \* SerCx2: where its request is, its length, whether it is completed
  next,                      \* the number of the next byte to be stored
  last                       \* the number of the last byte given to SerCx2

hw     == <<slots, dmaCounter, notify, next>>
dma    == <<IsRxDmaStarted, RxDmaState, RXDMAEN>>
count  == <<LastDmaCounter, DmaBufferReadPos, DmaBufferPendingBytes>>
buffer == <<WdfRequest, BufferMdlPtr, TransferLength, BytesTransferred, taken, user>>
vars   == <<hw, dma, count, buffer, armed, call, cancel, io, last>>

Least(a, b) == IF a <= b THEN a ELSE b

-----------------------------------------------------------------------------
(* Slips: each is an operator below as a plausible mistake would have it.  *)
(* No action uses them; a run with one in place of the right operator      *)
(* shows that the property it is paired with can fail.                     *)

\* The counter's wrap-around is taken for no progress.
NewBytesSlip == IF dmaCounter >= LastDmaCounter THEN dmaCounter - LastDmaCounter ELSE 0
\* The cancellation leaves the buffer to the callbacks.
AfterCancelSlip(mdl) == mdl
\* The timer is started by SerCx2's calls alone.
RearmedSlip == armed
\* The handle stays after the completion.
AfterCompleteSlip(request) == request
\* Reading goes on behind the end of the buffer.
ReadPosSlip(n) == DmaBufferReadPos + n

-----------------------------------------------------------------------------
NoCall == [pc |-> "off", bytes |-> 0]
Idle == [pc |-> "idle", length |-> 0, bytes |-> 0, completed |-> FALSE]

Init ==
  /\ slots = [p \in Positions |-> 0] /\ dmaCounter = 0
  /\ IsRxDmaStarted = FALSE /\ RxDmaState = "STOPPED" /\ RXDMAEN = FALSE
  /\ LastDmaCounter = 0 /\ DmaBufferReadPos = 0 /\ DmaBufferPendingBytes = 0
  /\ WdfRequest = FALSE /\ BufferMdlPtr = FALSE
  /\ TransferLength = 0 /\ BytesTransferred = 0
  /\ taken = <<>> /\ user = <<>>
  /\ armed = FALSE /\ notify = FALSE
  /\ call = [c \in Callbacks |-> NoCall]
  /\ cancel = "no" /\ io = Idle
  /\ next = 1 /\ last = 0

At(pc) == io.pc = pc
Goto(pc) == io' = [io EXCEPT !.pc = pc]

Unread == (dmaCounter - DmaBufferReadPos) % DmaBufferSize

\* Bytes from DmaBufferReadPos on.
FromBuffer(n) == [i \in 1 .. n |-> slots[(DmaBufferReadPos + i - 1) % DmaBufferSize]]

-----------------------------------------------------------------------------
\* The DMA stores a byte.  It is never a whole buffer ahead of the driver; the
\* threshold for the completion callback is half the buffer here.
HwStore ==
  /\ IsRxDmaStarted /\ RXDMAEN /\ next <= MaxBytes /\ Unread < DmaBufferSize - 1
  /\ slots' = [slots EXCEPT ![dmaCounter] = next]
  /\ dmaCounter' = (dmaCounter + 1) % DmaBufferSize
  /\ notify' = (notify \/ dmaCounter' \in {0, DmaBufferSize \div 2})
  /\ next' = next + 1
  /\ UNCHANGED <<dma, count, buffer, armed, call, cancel, io, last>>

-----------------------------------------------------------------------------
(* The helpers; each holds the Lock.                                       *)

\* IMXUartRxDmaGetBytesTransferred
NewBytes ==
  IF dmaCounter >= LastDmaCounter THEN dmaCounter - LastDmaCounter
  ELSE DmaBufferSize - LastDmaCounter + dmaCounter

\* TransferLength - BytesTransferred is a size_t: a difference below zero is no limit.
CopyCount(n) ==
  IF ~ BufferMdlPtr THEN 0
  ELSE IF BytesTransferred > TransferLength THEN DmaBufferPendingBytes + n
  ELSE Least(DmaBufferPendingBytes + n, TransferLength - BytesTransferred)

LeftOver(n) == DmaBufferPendingBytes + n - CopyCount(n)
ReadPos(n) == (DmaBufferReadPos + n) % DmaBufferSize

\* What the n bytes leave in the request's buffer, which is one MDL.  mdlAddr is set before the
\* loop and only mdlOffset advances in it: of a copy that spans the end of the cyclic buffer
\* both pieces go to the same address.
Landed(n) ==
  LET first == Least(n, DmaBufferSize - DmaBufferReadPos)
      rest  == n - first
  IN  [i \in 1 .. n |-> IF i <= rest THEN slots[i - 1]
                        ELSE IF i <= first THEN slots[DmaBufferReadPos + i - 1]
                        ELSE 0]

\* IMXUartRxDmaCopyToUserBuffer; nothing happens "after DMA was stopped".
CopyToUserBuffer(n) ==
  IF IsRxDmaStarted
  THEN /\ DmaBufferPendingBytes' = LeftOver(n)
       /\ DmaBufferReadPos' = ReadPos(CopyCount(n))
       /\ BytesTransferred' = BytesTransferred + CopyCount(n)
       /\ taken' = taken \o FromBuffer(CopyCount(n))
       /\ user' = user \o Landed(CopyCount(n))
  ELSE UNCHANGED <<DmaBufferPendingBytes, DmaBufferReadPos, BytesTransferred, taken, user>>

\* What it returns: the request is to be completed.
RequestFilled(n) ==
  ~ IsRxDmaStarted \/ ( /\ BufferMdlPtr /\ DmaBufferPendingBytes + n # 0
                        /\ BytesTransferred + CopyCount(n) = TransferLength )

EmptyBuffer == taken' = <<>> /\ user' = <<>>

\* WdfRequestCompleteWithInformation: SerCx2 is given BytesTransferred bytes.
CompleteRequest ==
  /\ io' = [io EXCEPT !.completed = TRUE]
  /\ last' = IF BytesTransferred = 0 THEN last ELSE taken[BytesTransferred]
  /\ EmptyBuffer

AfterComplete(request) == FALSE

\* IMXUartCompleteCustomRxTransactionRequest; a cancellation already called goes on.
CompleteCustomRx ==
  /\ IF WdfRequest
     THEN CompleteRequest /\ WdfRequest' = AfterComplete(WdfRequest)
     ELSE UNCHANGED <<io, last, taken, user, WdfRequest>>
  /\ cancel' = IF WdfRequest /\ cancel = "possible" THEN "no" ELSE cancel

-----------------------------------------------------------------------------
(* IMXUartEvtTimerRxDmaProgress, and                                       *)
(* IMXUartEvtWdfRxDmaTransactionTransferComplete with DmaComplete.         *)

AssignPcs == {"assign", "buffer", "length", "counts"}
\* No callback falls between the unlocked assignments of a transaction that starts.
MayCall == io.pc \notin AssignPcs

Call(c, from, to) == call[c].pc = from /\ call' = [call EXCEPT ![c].pc = to]

TimerExpires ==
  /\ armed /\ armed' = FALSE
  /\ MayCall /\ Call("timer", "off", "count")
  /\ UNCHANGED <<hw, dma, count, buffer, cancel, io, last>>

\* WdfTimerStop(..., FALSE): a callback of the timer that runs is not waited for.
TransferCompletes ==
  /\ notify /\ notify' = FALSE
  /\ MayCall /\ Call("complete", "off", "count")
  /\ armed' = FALSE
  /\ UNCHANGED <<slots, dmaCounter, next, dma, count, buffer, cancel, io, last>>

GetBytesTransferred(c) ==
  /\ call[c].pc = "count"
  /\ call' = [call EXCEPT ![c] = [pc |-> "copy", bytes |-> NewBytes]]
  /\ LastDmaCounter' = dmaCounter
  /\ UNCHANGED <<hw, dma, DmaBufferReadPos, DmaBufferPendingBytes, buffer, armed, cancel, io, last>>

CallbackCopies(c) ==
  /\ call[c].pc = "copy"
  /\ CopyToUserBuffer(call[c].bytes)
  /\ call' = [call EXCEPT ![c] = [pc |-> IF RequestFilled(call[c].bytes) THEN "finish" ELSE "rearm",
                                  bytes |-> 0]]
  /\ UNCHANGED <<hw, dma, LastDmaCounter, WdfRequest, BufferMdlPtr, TransferLength,
                 armed, cancel, io, last>>

CallbackCompletes(c) ==
  /\ Call(c, "finish", "off")
  /\ CompleteCustomRx
  /\ UNCHANGED <<hw, dma, count, BufferMdlPtr, TransferLength, BytesTransferred, armed>>

Rearmed == TRUE

CallbackRearms(c) ==
  /\ Call(c, "rearm", "off")
  /\ armed' = Rearmed
  /\ UNCHANGED <<hw, dma, count, buffer, cancel, io, last>>

-----------------------------------------------------------------------------
(* SerCx2's custom receive transaction.                                    *)

\* A transaction starts when the callbacks of the last one are over.
Settled == cancel = "no" /\ \A c \in Callbacks : call[c].pc = "off"

\* IMXUartEvtSerCx2CustomReceiveTransactionStart begins with IMXUartStartRxDma, which
\* does nothing if the DMA runs, and else executes IMXUartEvtWdfProgramRxDma.
StartRxDma(n) ==
  /\ At("idle") /\ Settled
  /\ io' = [pc |-> "assign", length |-> n, bytes |-> 0, completed |-> FALSE]
  /\ IF IsRxDmaStarted
     THEN UNCHANGED <<dma, count, BytesTransferred, dmaCounter>>
     ELSE /\ IsRxDmaStarted' = TRUE /\ RxDmaState' = "IDLE" /\ RXDMAEN' = FALSE
          /\ LastDmaCounter' = 0 /\ DmaBufferReadPos' = 0 /\ DmaBufferPendingBytes' = 0
          /\ BytesTransferred' = 0 /\ dmaCounter' = 0
  /\ UNCHANGED <<slots, notify, next, WdfRequest, BufferMdlPtr, TransferLength, taken, user,
                 armed, call, cancel, last>>

\* The transaction's fields are assigned one by one, without the Lock.
AssignRequest ==
  /\ At("assign") /\ Goto("buffer")
  /\ WdfRequest' = TRUE
  /\ UNCHANGED <<hw, dma, count, BufferMdlPtr, TransferLength, BytesTransferred, taken, user,
                 armed, call, cancel, last>>

AssignBuffer ==
  /\ At("buffer") /\ Goto("length")
  /\ BufferMdlPtr' = TRUE /\ EmptyBuffer
  /\ UNCHANGED <<hw, dma, count, WdfRequest, TransferLength, BytesTransferred,
                 armed, call, cancel, last>>

AssignLength ==
  /\ At("length") /\ Goto("counts")
  /\ TransferLength' = io.length
  /\ UNCHANGED <<hw, dma, count, WdfRequest, BufferMdlPtr, BytesTransferred, taken, user,
                 armed, call, cancel, last>>

AssignCounts ==
  /\ At("counts") /\ Goto("enable")
  /\ BytesTransferred' = 0
  /\ UNCHANGED <<hw, dma, count, WdfRequest, BufferMdlPtr, TransferLength, taken, user,
                 armed, call, cancel, last>>

\* WdfRequestMarkCancelableEx, and the DMA may go on; a request cancelled before that
\* is completed at once.
EnableRxDma ==
  /\ At("enable")
  /\ \/ /\ Goto("copy") /\ cancel' = "possible"
        /\ RXDMAEN' = TRUE /\ RxDmaState' = "WAITING_FOR_DPC"
        /\ UNCHANGED WdfRequest
     \/ /\ CancelledAtStart
        /\ io' = [io EXCEPT !.pc = "started", !.completed = TRUE]
        /\ WdfRequest' = FALSE
        /\ UNCHANGED <<cancel, RXDMAEN, RxDmaState>>
  /\ UNCHANGED <<hw, IsRxDmaStarted, count, BufferMdlPtr, TransferLength, BytesTransferred,
                 taken, user, armed, call, last>>

\* "Check if there are already pending bytes".
StartCopies ==
  /\ At("copy")
  /\ CopyToUserBuffer(0)
  /\ Goto(IF RequestFilled(0) THEN "finish" ELSE "arm")
  /\ UNCHANGED <<hw, dma, LastDmaCounter, WdfRequest, BufferMdlPtr, TransferLength,
                 armed, call, cancel, last>>

StartCompletes ==
  /\ At("finish")
  /\ IF WdfRequest
     THEN /\ io' = [io EXCEPT !.pc = "started", !.completed = TRUE]
          /\ last' = taken[BytesTransferred] /\ EmptyBuffer
          /\ WdfRequest' = AfterComplete(WdfRequest)
     ELSE Goto("started") /\ UNCHANGED <<last, taken, user, WdfRequest>>
  /\ cancel' = IF WdfRequest /\ cancel = "possible" THEN "no" ELSE cancel
  /\ UNCHANGED <<hw, dma, count, BufferMdlPtr, TransferLength, BytesTransferred, armed, call>>

StartArms ==
  /\ At("arm") /\ Goto("started")
  /\ armed' = TRUE
  /\ UNCHANGED <<hw, dma, count, buffer, call, cancel, last>>

\* IMXUartEvtSerCx2CustomReceiveTransactionCleanup
Cleanup ==
  /\ At("started") /\ io.completed
  /\ io' = Idle
  /\ RxDmaState' = IF IsRxDmaStarted THEN "STOPPING" ELSE RxDmaState
  /\ armed' = FALSE /\ BufferMdlPtr' = FALSE
  /\ UNCHANGED <<hw, IsRxDmaStarted, RXDMAEN, count, WdfRequest, TransferLength,
                 BytesTransferred, taken, user, call, cancel, last>>

AfterCancel(mdl) == FALSE

\* IMXUartEvtCustomReceiveTransactionRequestCancel, once WDF has called it and it has
\* the Lock.
WdfCancels ==
  /\ cancel = "possible" /\ cancel' = "called"
  /\ UNCHANGED <<hw, dma, count, buffer, armed, call, io, last>>

RequestCancel ==
  /\ cancel = "called" /\ cancel' = "no"
  /\ RxDmaState' = IF IsRxDmaStarted THEN "STOPPING" ELSE RxDmaState
  /\ armed' = FALSE
  /\ BufferMdlPtr' = AfterCancel(BufferMdlPtr) /\ WdfRequest' = FALSE
  /\ IF WdfRequest THEN CompleteRequest ELSE UNCHANGED <<io, last, taken, user>>
  /\ UNCHANGED <<hw, IsRxDmaStarted, RXDMAEN, count, TransferLength, BytesTransferred, call>>

-----------------------------------------------------------------------------
(* IMXUartPioDequeueDmaBytes, for a programmed read.                       *)

PioRead(n) ==
  /\ At("idle") /\ RxDmaState \in Active
  /\ io' = [pc |-> "residue", length |-> n, bytes |-> NewBytes, completed |-> FALSE]
  /\ LastDmaCounter' = dmaCounter
  /\ UNCHANGED <<hw, dma, DmaBufferReadPos, DmaBufferPendingBytes, buffer, armed, call, cancel, last>>

\* The bytes counted in the first section are given to the reader; when there are none
\* the DMA is stopped and RxBuffer is read.
PioTakes ==
  LET pending == DmaBufferPendingBytes + io.bytes
      n       == Least(pending, io.length)
  IN  /\ At("residue") /\ pending # 0
      /\ last' = FromBuffer(n)[n]
      /\ DmaBufferReadPos' = ReadPos(n) /\ DmaBufferPendingBytes' = pending - n
      /\ BytesTransferred' = BytesTransferred + n
      /\ io' = Idle
      /\ UNCHANGED <<hw, dma, LastDmaCounter, WdfRequest, BufferMdlPtr, TransferLength, taken, user,
                     armed, call, cancel>>

PioStops ==
  /\ At("residue") /\ DmaBufferPendingBytes + io.bytes = 0
  /\ RXDMAEN' = FALSE /\ RxDmaState' = "STOPPED"
  /\ io' = Idle
  /\ UNCHANGED <<hw, IsRxDmaStarted, count, buffer, armed, call, cancel, last>>

\* IMXUartStopRxDma: the FIFOs are purged, the file closed or the baud rate changed; bytes
\* left in the buffer are discarded.
StopRxDma ==
  /\ At("idle") /\ IsRxDmaStarted
  /\ IsRxDmaStarted' = FALSE /\ RXDMAEN' = FALSE /\ RxDmaState' = "STOPPED"
  /\ armed' = FALSE /\ DmaBufferPendingBytes' = 0
  /\ UNCHANGED <<hw, LastDmaCounter, DmaBufferReadPos, buffer, call, cancel, io, last>>

-----------------------------------------------------------------------------
Starting == \/ AssignRequest \/ AssignBuffer \/ AssignLength \/ AssignCounts
            \/ EnableRxDma \/ StartCopies \/ StartCompletes \/ StartArms
Callback(c) == GetBytesTransferred(c) \/ CallbackCopies(c) \/ CallbackCompletes(c) \/ CallbackRearms(c)
Pio == PioTakes \/ PioStops

Next ==
  \/ HwStore \/ TimerExpires \/ TransferCompletes
  \/ \E c \in Callbacks : Callback(c)
  \/ \E n \in 1 .. MaxLength : StartRxDma(n) \/ PioRead(n)
  \/ Starting \/ Cleanup \/ Pio \/ StopRxDma
  \/ WdfCancels \/ RequestCancel

\* Threads go on, the timer expires.  Nothing makes the peer send, the DMA call back,
\* SerCx2 read or cancel.
Fairness ==
  /\ WF_vars(TimerExpires) /\ \A c \in Callbacks : WF_vars(Callback(c))
  /\ WF_vars(Starting) /\ WF_vars(RequestCancel)

Spec == Init /\ [][Next]_vars /\ Fairness

-----------------------------------------------------------------------------
(* Properties.                                                             *)

\* Positions stay in the buffer, however callbacks and readers advance them
\* (imxuart.cpp:1961, 2066).
TypeOK ==
  /\ slots \in [Positions -> 0 .. MaxBytes]
  /\ {dmaCounter, LastDmaCounter, DmaBufferReadPos} \subseteq Positions
  /\ DmaBufferPendingBytes \in Positions
  /\ {IsRxDmaStarted, RXDMAEN, WdfRequest, BufferMdlPtr, armed, notify} \subseteq BOOLEAN
  /\ RxDmaState \in States
  /\ TransferLength \in 0 .. MaxLength /\ BytesTransferred \in Nat
  /\ taken \in Seq(1 .. MaxBytes) /\ user \in Seq(0 .. MaxBytes)
  /\ call \in [Callbacks -> [pc: {"off", "count", "copy", "finish", "rearm"}, bytes: Positions]]
  /\ cancel \in {"no", "possible", "called"}
  /\ io \in [pc: AssignPcs \cup {"idle", "enable", "copy", "finish", "arm", "started", "residue"},
             length: 0 .. MaxLength, bytes: Positions, completed: BOOLEAN]
  /\ next \in 1 .. MaxBytes + 1 /\ last \in 0 .. MaxBytes

\* What the DMA has stored and SerCx2 has not been given.
Pipe == taken \o (IF IsRxDmaStarted THEN FromBuffer(Unread) ELSE <<>>)

\* The bytes taken out of the cyclic buffer for the requests, and for the programmed reads
\* between them, are the bytes the DMA has stored, in this order, none twice, and none is
\* missing but those a stop discards: timer, completion callback, cancellation and the next
\* reader share the reading position (imxuart.cpp:1469, 1863-1980).  Where a request's
\* buffer gets them is BufferFilled's.
BytePipe == INSTANCE BytePipe WITH pipe <- Pipe
TakesInOrder == BytePipe!Spec

\* Every byte in the buffer is accounted for once: as pending, in the hands of somebody who
\* has counted it and not yet added it, or not yet counted (imxuart.cpp:1834-1858, 1889).
BytesAccounted ==
  IsRxDmaStarted =>
    Unread = DmaBufferPendingBytes + NewBytes + io.bytes + call["timer"].bytes + call["complete"].bytes

\* While WDF's request is not completed the driver can still find it, and a completed one
\* is never written to (imxuart.cpp:1555, 1869, 2095).
RequestHeld ==
  /\ At("started") => (WdfRequest <=> ~ io.completed)
  /\ taken # <<>> => WdfRequest

\* The request's buffer holds the bytes that were taken for it, one behind the other, also
\* those of a copy that spans the end of the cyclic buffer (imxuart.cpp:1935-1969).
BufferFilled == user = taken

\* A request whose bytes the DMA has stored is completed: one of the timer's and the DMA's
\* callbacks finds them, though each stops or starts the timer of the other
\* (imxuart.cpp:1717, 1741, 1766).
FilledCompletes ==
  (At("started") /\ ~ io.completed /\ Len(Pipe) >= TransferLength) ~> (~ At("started") \/ io.completed)
=============================================================================
