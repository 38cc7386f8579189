------------------------------- MODULE UartRing ------------------------------
(***************************************************************************)
(* The single-reader, single-writer circular buffer of the UART driver     *)
(* (IMX_UART_RING_BUFFER, imxuart.h and imxuart.cpp), between the threads  *)
(* of SerCx2 and the interrupt.  HeadIndex and TailIndex belong to the     *)
(* modules that use it; here is what one call computes from them.          *)
(*                                                                         *)
(* EnqueueBytes and DequeueBytes copy at most two pieces: up to the end of *)
(* the storage, and from its beginning.                                    *)
(***************************************************************************)
EXTENDS Integers, Sequences

CONSTANT Size   \* IMX_UART_RING_BUFFER::Size, TxIntermediateBufferSize or RxIntermediateBufferSize

ASSUME SizeAssumption == Size \in Nat \ {0, 1}

Slots == 0 .. Size - 1

Least(a, b) == IF a <= b THEN a ELSE b

\* HeadIndex is the next slot to fill, TailIndex the oldest filled one.
Count(head, tail) == IF head >= tail THEN head - tail ELSE Size + head - tail

Capacity == Size - 1

Advance(i, n) == (i + n) % Size

-----------------------------------------------------------------------------
(* EnqueueBytes                                                            *)

Full(head, tail) == Advance(head, 1) = tail

\* Copied "from head to the end" or "from head to tail".
EnqueueFirst(head, tail, n) ==
  IF Full(head, tail) THEN 0
  ELSE IF head >= tail THEN Least((IF tail = 0 THEN Size - 1 ELSE Size) - head, n)
  ELSE Least(tail - head - 1, n)

\* Copied "from beginning to tail".
EnqueueSecond(head, tail, n) ==
  IF Full(head, tail) \/ head < tail \/ tail = 0 THEN 0
  ELSE Least(tail - 1, n - EnqueueFirst(head, tail, n))

EnqueueCount(head, tail, n) == EnqueueFirst(head, tail, n) + EnqueueSecond(head, tail, n)

\* The storage after the two copies of as many of the bytes as there is room for.
Enqueued(slots, head, tail, bytes) ==
  LET first  == EnqueueFirst(head, tail, Len(bytes))
      second == EnqueueSecond(head, tail, Len(bytes))
  IN  [s \in Slots |-> IF s \in head .. head + first - 1 THEN bytes[s - head + 1]
                       ELSE IF s < second THEN bytes[first + s + 1]
                       ELSE slots[s]]

-----------------------------------------------------------------------------
(* DequeueBytes                                                            *)

\* Copied "from tail to head" or "from tail to end".
DequeueFirst(head, tail, n) ==
  IF head >= tail THEN Least(head - tail, n) ELSE Least(Size - tail, n)

\* Copied "from beginning to head".
DequeueSecond(head, tail, n) ==
  IF head >= tail THEN 0 ELSE Least(head, n - DequeueFirst(head, tail, n))

DequeueCount(head, tail, n) == DequeueFirst(head, tail, n) + DequeueSecond(head, tail, n)

\* The output buffer after the two copies.
Dequeued(slots, head, tail, n) ==
  [i \in 1 .. DequeueCount(head, tail, n) |->
     IF i <= DequeueFirst(head, tail, n) THEN slots[tail + i - 1]
     ELSE slots[i - DequeueFirst(head, tail, n) - 1]]

-----------------------------------------------------------------------------
(* What the buffer holds, oldest byte first.                               *)

Contents(slots, head, tail) ==
  [i \in 1 .. Count(head, tail) |-> slots[Advance(tail, i - 1)]]
=============================================================================
