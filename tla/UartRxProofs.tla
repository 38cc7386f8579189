---------------------------- MODULE UartRxProofs ----------------------------
(***************************************************************************)
(* Theorems about programmed reception, for every size of the buffer and   *)
(* the FIFO, every level, and any number and length of requests.           *)
(***************************************************************************)
EXTENDS UartRx, SequenceTheorems, TLAPS

-----------------------------------------------------------------------------
(* The byte ring (UartRing), for every size of the buffer. *)

\* The sum of a slot and at most Size, taken modulo Size, without the modulo.
LEMMA AdvanceValue ==
  ASSUME NEW i \in Slots, NEW n \in 0 .. Size
  PROVE  Advance(i, n) = IF i + n >= Size THEN i + n - Size ELSE i + n
<1>1. Size \in Nat /\ Size > 1 /\ i \in Nat /\ n \in Nat /\ i < Size /\ n <= Size
  BY SizeAssumption DEF Slots
<1>2. CASE i + n < Size
  BY <1>1, <1>2 DEF Advance
<1>3. CASE i + n >= Size
  <2>1. (i + n - Size) % Size = i + n - Size
    BY <1>1, <1>3
  <2>2. (i + n) % Size = (i + n - Size) % Size
    BY <1>1, <1>3
  <2>. QED
    BY <1>1, <1>3, <2>1, <2>2 DEF Advance
<1>. QED
  BY <1>1, <1>2, <1>3

\* DequeueBytes takes as many bytes as were asked for and are there.
THEOREM DequeueTakesAvailable ==
  ASSUME NEW head \in Slots, NEW tail \in Slots, NEW n \in Nat
  PROVE  DequeueCount(head, tail, n) = Least(n, Count(head, tail))
  BY SizeAssumption DEF DequeueCount, DequeueFirst, DequeueSecond, Least, Count, Slots

\* The new head is a slot, and exactly the enqueued bytes have been added.
LEMMA CountAfterEnqueue ==
  ASSUME NEW head \in Slots, NEW tail \in Slots, NEW k \in 0 .. Capacity - Count(head, tail)
  PROVE  /\ Advance(head, k) \in Slots
         /\ Count(Advance(head, k), tail) = Count(head, tail) + k
<1>1. Count(head, tail) \in 0 .. Capacity /\ k \in 0 .. Size
  BY SizeAssumption DEF Count, Capacity, Slots
<1>2. Advance(head, k) = IF head + k >= Size THEN head + k - Size ELSE head + k
  BY <1>1, AdvanceValue
<1>. QED
  BY <1>1, <1>2, SizeAssumption DEF Count, Capacity, Slots

\* The new tail is a slot, and exactly the dequeued bytes are gone.
LEMMA CountAfterDequeue ==
  ASSUME NEW head \in Slots, NEW tail \in Slots, NEW k \in 0 .. Count(head, tail)
  PROVE  /\ Advance(tail, k) \in Slots
         /\ Count(head, Advance(tail, k)) = Count(head, tail) - k
<1>1. Count(head, tail) \in 0 .. Capacity /\ k \in 0 .. Size
  BY SizeAssumption DEF Count, Capacity, Slots
<1>2. Advance(tail, k) = IF tail + k >= Size THEN tail + k - Size ELSE tail + k
  BY <1>1, AdvanceValue
<1>. QED
  BY <1>1, <1>2, SizeAssumption DEF Count, Capacity, Slots

\* DequeueBytes gives the oldest bytes in their order.
THEOREM DequeueInOrder ==
  ASSUME NEW head \in Slots, NEW tail \in Slots, NEW mem, NEW n \in Nat
  PROVE  \A i \in 1 .. DequeueCount(head, tail, n) :
           Dequeued(mem, head, tail, n)[i] = Contents(mem, head, tail)[i]
<1>. DEFINE first == DequeueFirst(head, tail, n)
            second == DequeueSecond(head, tail, n)
<1>1. /\ first \in Nat /\ second \in Nat
      /\ first + second <= Count(head, tail)
      /\ tail + first <= Size
      /\ second > 0 => tail + first = Size
  BY SizeAssumption DEF DequeueFirst, DequeueSecond, Least, Count, Slots
<1>2. Count(head, tail) \in 0 .. Size - 1
  BY SizeAssumption DEF Count, Slots
<1>. HIDE DEF first, second
<1>3. ASSUME NEW i \in 1 .. first + second
      PROVE  (IF i <= first THEN mem[tail + i - 1] ELSE mem[i - first - 1])
               = mem[Advance(tail, i - 1)]
  <2>1. i - 1 \in 0 .. Size
    BY <1>1, <1>2, SizeAssumption
  <2>2. Advance(tail, i - 1) = IF tail + (i - 1) >= Size THEN tail + (i - 1) - Size
                               ELSE tail + (i - 1)
    BY <2>1, AdvanceValue
  <2>3. Advance(tail, i - 1) = IF i <= first THEN tail + i - 1 ELSE i - first - 1
    BY <1>1, <2>2, SizeAssumption DEF Slots
  <2>. QED
    BY <2>3
<1>4. ASSUME NEW i \in 1 .. first + second
      PROVE  /\ Dequeued(mem, head, tail, n)[i]
                  = IF i <= first THEN mem[tail + i - 1] ELSE mem[i - first - 1]
             /\ Contents(mem, head, tail)[i] = mem[Advance(tail, i - 1)]
  <2>1. i \in 1 .. Count(head, tail)
    BY <1>1, <1>2
  <2>. QED
    BY <2>1 DEF Dequeued, Contents, DequeueCount, first, second
<1>. QED
  BY <1>3, <1>4 DEF DequeueCount, first, second

-----------------------------------------------------------------------------
(* What moving an index does to the contents of the buffer. *)

\* The index of each byte the buffer holds is a slot.
LEMMA AdvanceInSlots ==
  ASSUME NEW i \in Slots, NEW n \in 0 .. Size
  PROVE  Advance(i, n) \in Slots
  BY AdvanceValue, SizeAssumption DEF Slots

\* Index arithmetic is associative as long as it stays within the buffer.
LEMMA AdvanceTwice ==
  ASSUME NEW i \in Slots, NEW m \in 0 .. Size, NEW n \in 0 .. Size, m + n <= Size
  PROVE  Advance(Advance(i, m), n) = Advance(i, m + n)
<1>. DEFINE j == Advance(i, m)
<1>1. j \in Slots /\ j = IF i + m >= Size THEN i + m - Size ELSE i + m
  BY AdvanceInSlots, AdvanceValue
<1>2. m + n \in 0 .. Size
  BY SizeAssumption
<1>3. Advance(i, m + n) = IF i + (m + n) >= Size THEN i + (m + n) - Size ELSE i + (m + n)
  BY <1>2, AdvanceValue
<1>. HIDE DEF j
<1>4. Advance(j, n) = IF j + n >= Size THEN j + n - Size ELSE j + n
  BY <1>1, AdvanceValue
<1>5. Advance(j, n) = Advance(i, m + n)
  BY <1>1, <1>3, <1>4, SizeAssumption DEF Slots
<1>. QED
  BY <1>5 DEF j

\* The bytes in the buffer never outnumber its capacity.
LEMMA CountInRange ==
  ASSUME NEW head \in Slots, NEW tail \in Slots
  PROVE  Count(head, tail) \in 0 .. Capacity /\ (Count(head, tail) = 0 <=> head = tail)
  BY SizeAssumption DEF Count, Capacity, Slots

\* The head is as far from the tail as the buffer holds bytes.
LEMMA AdvanceCount ==
  ASSUME NEW head \in Slots, NEW tail \in Slots
  PROVE  Advance(tail, Count(head, tail)) = head
<1>. DEFINE n == Count(head, tail)
<1>1. n \in 0 .. Size
  BY CountInRange, SizeAssumption DEF Capacity
<1>2. Advance(tail, n) = IF tail + n >= Size THEN tail + n - Size ELSE tail + n
  BY <1>1, AdvanceValue
<1>. QED
  BY <1>2, SizeAssumption DEF Count, Slots

\* The buffer's contents are a sequence of what is stored in the mem.
LEMMA ContentsType ==
  ASSUME NEW head \in Slots, NEW tail \in Slots, NEW B, NEW mem,
         \A i \in 1 .. Count(head, tail) : mem[Advance(tail, i - 1)] \in B
  PROVE  /\ Contents(mem, head, tail) \in Seq(B)
         /\ Len(Contents(mem, head, tail)) = Count(head, tail)
         /\ \A i \in 1 .. Count(head, tail) :
              Contents(mem, head, tail)[i] = mem[Advance(tail, i - 1)]
<1>1. Count(head, tail) \in Nat
  BY CountInRange, SizeAssumption DEF Capacity
<1>. QED
  BY <1>1 DEF Contents

\* Moving the head over one slot adds its byte behind the others.
LEMMA ContentsOneMore ==
  ASSUME NEW head \in Slots, NEW tail \in Slots, Count(head, tail) < Capacity,
         NEW mem
  PROVE  Contents(mem, Advance(head, 1), tail) = Append(Contents(mem, head, tail), mem[head])
<1>. DEFINE n == Count(head, tail)
            new == Advance(head, 1)
            C == Contents(mem, head, tail)
            D == Contents(mem, new, tail)
            B == {mem[s] : s \in Slots}
<1>1. n \in Nat /\ n + 1 < Size /\ Size \in Nat
  BY CountInRange, SizeAssumption DEF Capacity
<1>2. new \in Slots /\ Count(new, tail) = n + 1
  <2>1. 1 \in 0 .. Capacity - Count(head, tail)
    BY <1>1, SizeAssumption DEF Capacity
  <2>. QED
    BY <2>1, CountAfterEnqueue
<1>3. Advance(tail, n) = head
  BY AdvanceCount
<1>4. C = [i \in 1 .. n |-> mem[Advance(tail, i - 1)]]
  BY DEF Contents
<1>5. D = [i \in 1 .. n + 1 |-> mem[Advance(tail, i - 1)]]
  BY <1>2 DEF Contents
<1>6. \A i \in 1 .. n + 1 : mem[Advance(tail, i - 1)] \in B
  <2>. SUFFICES ASSUME NEW i \in 1 .. n + 1 PROVE Advance(tail, i - 1) \in Slots
    OBVIOUS
  <2>1. i - 1 \in 0 .. Size
    BY <1>1
  <2>. QED
    BY <2>1, AdvanceInSlots
<1>. HIDE DEF C, D, B, n, new
<1>7. /\ C \in Seq(B) /\ Len(C) = n /\ D \in Seq(B) /\ Len(D) = n + 1 /\ mem[head] \in B
  <2>1. (n + 1) - 1 = n /\ n + 1 \in 1 .. n + 1 /\ \A i \in 1 .. n : i \in 1 .. n + 1
    BY <1>1
  <2>. QED
    BY <1>1, <1>3, <1>4, <1>5, <1>6, <2>1
<1>. DEFINE A == Append(C, mem[head])
<1>8. /\ A \in Seq(B) /\ Len(A) = n + 1
      /\ \A i \in 1 .. n : A[i] = C[i]
      /\ A[n + 1] = mem[head]
  BY <1>7, AppendProperties
<1>. HIDE DEF A
<1>9. ASSUME NEW i \in 1 .. n + 1 PROVE D[i] = A[i]
  <2>1. CASE i = n + 1
    BY <1>1, <1>3, <1>5, <1>8, <2>1
  <2>2. CASE i \in 1 .. n
    BY <1>1, <1>4, <1>5, <1>8, <2>2
  <2>. QED
    BY <1>1, <2>1, <2>2
<1>10. D = A
  BY <1>7, <1>8, <1>9, SeqEqual
<1>. QED
  BY <1>10 DEF D, A, C, new

\* A buffer whose indices are equal is empty.
LEMMA ContentsEmpty ==
  ASSUME NEW i \in Slots, NEW mem
  PROVE  Contents(mem, i, i) = <<>>
<1>1. Count(i, i) = 0
  BY SizeAssumption DEF Count, Slots
<1>. QED
  BY <1>1 DEF Contents

-----------------------------------------------------------------------------
(* Indices that follow one another around the buffer. *)

\* On the way from slot a to slot c one comes through slot b.
Between(a, b, c) == Count(b, a) + Count(c, b) = Count(c, a)

\* That is, b is no further from a than c is.
LEMMA BetweenCount ==
  ASSUME NEW a \in Slots, NEW b \in Slots, NEW c \in Slots
  PROVE  Between(a, b, c) <=> Count(b, a) <= Count(c, a)
  BY SizeAssumption DEF Between, Count, Slots

\* Between a slot and another there are the two themselves.
LEMMA BetweenEnds ==
  ASSUME NEW a \in Slots, NEW b \in Slots
  PROVE  Between(a, a, b) /\ Between(a, b, b)
  BY SizeAssumption DEF Between, Count, Slots

\* Four mem that follow one another.
LEMMA BetweenFour ==
  ASSUME NEW a \in Slots, NEW b \in Slots, NEW c \in Slots, NEW d \in Slots,
         Between(a, b, c), Between(a, c, d)
  PROVE  Between(a, b, d) /\ Between(b, c, d)
  BY SizeAssumption DEF Between, Count, Slots

\* The same, from the other end.
LEMMA BetweenFourNear ==
  ASSUME NEW a \in Slots, NEW b \in Slots, NEW c \in Slots, NEW d \in Slots,
         Between(a, b, d), Between(b, c, d)
  PROVE  Between(a, b, c) /\ Between(a, c, d)
  BY SizeAssumption DEF Between, Count, Slots

\* The slot of the head is none of those that are in use.
LEMMA HeadNotInUse ==
  ASSUME NEW head \in Slots, NEW tail \in Slots, NEW i \in 1 .. Count(head, tail)
  PROVE  Advance(tail, i - 1) # head
<1>1. i - 1 \in 0 .. Size /\ i \in Nat /\ i <= Count(head, tail)
  BY CountInRange, SizeAssumption DEF Capacity
<1>2. Advance(tail, i - 1) = IF tail + (i - 1) >= Size THEN tail + (i - 1) - Size ELSE tail + (i - 1)
  BY <1>1, AdvanceValue
<1>. QED
  BY <1>1, <1>2, SizeAssumption DEF Count, Slots

\* Moving the tail over k bytes leaves the others.
LEMMA ContentsRest ==
  ASSUME NEW head \in Slots, NEW tail \in Slots, NEW k \in 0 .. Count(head, tail),
         NEW B, NEW mem,
         \A i \in 1 .. Count(head, tail) : mem[Advance(tail, i - 1)] \in B,
         NEW C \in Seq(B), C = Contents(mem, head, tail)
  PROVE  /\ Contents(mem, head, Advance(tail, k)) \in Seq(B)
         /\ Len(Contents(mem, head, Advance(tail, k))) = Count(head, tail) - k
         /\ \A i \in 1 .. Count(head, tail) - k :
              Contents(mem, head, Advance(tail, k))[i] = C[k + i]
<1>. DEFINE n == Count(head, tail)
            new == Advance(tail, k)
            D == Contents(mem, head, new)
<1>1. n \in Nat /\ n < Size /\ Size \in Nat /\ k \in Nat /\ k <= n
  BY CountInRange, SizeAssumption DEF Capacity
<1>2. new \in Slots /\ Count(head, new) = n - k
  BY CountAfterDequeue
<1>3. ASSUME NEW i \in 1 .. n - k PROVE Advance(new, i - 1) = Advance(tail, (k + i) - 1)
  <2>1. k \in 0 .. Size /\ i - 1 \in 0 .. Size /\ k + (i - 1) <= Size /\ k + (i - 1) = (k + i) - 1
    BY <1>1
  <2>. QED
    BY <2>1, AdvanceTwice
<1>4. D = [i \in 1 .. n - k |-> mem[Advance(new, i - 1)]]
  BY <1>2 DEF Contents
<1>5. Contents(mem, head, tail) = [i \in 1 .. n |-> mem[Advance(tail, i - 1)]]
  BY DEF Contents
<1>. HIDE DEF n, new, D
<1>6. \A i \in 1 .. n - k : k + i \in 1 .. n
  BY <1>1
<1>7. \A i \in 1 .. n : mem[Advance(tail, i - 1)] \in B
  BY DEF n
<1>8. \A i \in 1 .. n - k : mem[Advance(new, i - 1)] \in B
  BY <1>3, <1>6, <1>7
<1>9. D \in Seq(B) /\ Len(D) = n - k
  BY <1>1, <1>4, <1>8
<1>10. \A i \in 1 .. n - k : D[i] = Contents(mem, head, tail)[k + i]
  BY <1>3, <1>4, <1>5, <1>6
<1>. QED
  BY <1>9, <1>10 DEF D, new, n

-----------------------------------------------------------------------------
Waiting == {"WAITING_FOR_INTERRUPT", "WAITING_FOR_DPC"}

\* A notification is pending in the driver only while SerCx2 waits for it.
StatesMatch == RxState \in Waiting => At("ready")

\* Seen from the tail the routine has read, the reader's tail, the head and the slot
\* the routine has come to follow one another.
RoutineInside ==
  isr.pc = "move" =>
    /\ Between(isr.tail, TailIndex, HeadIndex)
    /\ Between(isr.tail, HeadIndex, isr.head)

\* DequeueBytes is between the tail and the head, however far the head has moved
\* since it was read.
ReaderInside ==
  /\ At("copy") => deq.tail = TailIndex /\ Between(TailIndex, deq.head, HeadIndex)
  /\ At("release") => Between(TailIndex, deq.tail, HeadIndex)

\* Where the next byte from the FIFO is stored, and the oldest one not given to SerCx2.
PipeHead == IF isr.pc = "move" THEN isr.head ELSE HeadIndex
PipeTail == IF request.pc \in {"copy", "release"} THEN deq.tail ELSE TailIndex

\* Every slot in use has been filled.
BufferHoldsBytes ==
  \A i \in 1 .. Count(PipeHead, TailIndex) : slots[Advance(TailIndex, i - 1)] \in 1 .. MaxBytes

RingInv == RoutineInside /\ ReaderInside /\ BufferHoldsBytes

Inv == TypeOK /\ StatesMatch /\ RingInv

-----------------------------------------------------------------------------
(* Steps of the request.                                                   *)

PCs == {"idle", "read", "dequeue", "copy", "release", "enable", "inline", "ready"}
Requests == [pc: PCs, left: 0 .. MaxLength, cancelled: BOOLEAN]
DpcStates == [queued: BOOLEAN, running: BOOLEAN]
Routines == [pc: {"off", "move"}, usr: SUBSET Interrupts, head: Slots, tail: Slots]

\* The types of the records' indices.
LEMMA Types ==
  ASSUME TypeOK
  PROVE  /\ request \in Requests /\ isr \in Routines
         /\ HeadIndex \in Slots /\ TailIndex \in Slots
         /\ deq.head \in Slots /\ deq.tail \in Slots /\ isr.head \in Slots /\ isr.tail \in Slots
         /\ PipeHead \in Slots /\ PipeTail \in Slots
  BY DEF TypeOK, Requests, PCs, Routines, PipeHead, PipeTail

\* The steps that take no byte keep the number that is missing or end the request.
LEMMA RequestMoves ==
  ASSUME TypeOK,
         \/ Answered
         \/ \E pc \in PCs : Goto(pc)
         \/ request' = [request EXCEPT !.cancelled = TRUE]
         \/ UNCHANGED request
  PROVE  request' \in Requests
<1>1. request \in Requests
  BY Types
<1>2. CASE Answered
  BY <1>2, UartRxAssumption DEF Answered, Idle, Requests, PCs
<1>3. CASE ~ Answered
  BY <1>1, <1>3 DEF Goto, Requests
<1>. QED
  BY <1>2, <1>3

\* A step that neither moves an index nor stores a byte, and that enters neither the
\* routine nor DequeueBytes.
LEMMA RingUntouched ==
  ASSUME RingInv, UNCHANGED <<ring, isr, deq>>,
         request' = request \/ request'.pc = request.pc \/ request'.pc \notin {"copy", "release"}
  PROVE  RingInv'
<1>. USE DEF RingInv, ring
<1>1. RoutineInside'
  BY DEF RoutineInside
<1>2. ReaderInside'
  BY DEF ReaderInside, At
<1>3. BufferHoldsBytes'
  BY DEF BufferHoldsBytes, PipeHead
<1>. QED
  BY <1>1, <1>2, <1>3

-----------------------------------------------------------------------------
(* The invariant holds initially and after every step.                     *)

\* Initially buffer and FIFO are empty and nobody is at work.
LEMMA InitInv == Init => Inv
<1>. SUFFICES ASSUME Init PROVE Inv
  OBVIOUS
<1>. USE SizeAssumption, UartRxAssumption DEF Init, Idle
<1>1. TypeOK
  <2>1. /\ fifo \in Seq(1 .. MaxBytes) /\ Len(fifo) = 0
        /\ 0 \in Slots /\ 0 \in 0 .. MaxBytes
    BY EmptySeq DEF Slots
  <2>2. slots \in [Slots -> 0 .. MaxBytes]
    BY <2>1
  <2>3. request \in Requests /\ isr \in Routines /\ dpc \in DpcStates /\ deq \in [head: Slots, tail: Slots]
    BY <2>1 DEF Requests, PCs, Routines, DpcStates
  <2>4. next \in 1 .. MaxBytes + 1 /\ Len(fifo) <= FifoCount
    BY <2>1
  <2>5. Enabled \subseteq Interrupts /\ RxState \in States
    BY DEF States
  <2>. QED
    BY <2>1, <2>2, <2>3, <2>4, <2>5 DEF TypeOK, Requests, PCs, Routines, DpcStates
<1>2. StatesMatch
  BY DEF StatesMatch, Waiting
<1>3. Count(PipeHead, TailIndex) = 0
  BY DEF Count, PipeHead
<1>4. RingInv
  BY <1>3 DEF RingInv, RoutineInside, ReaderInside, BufferHoldsBytes, At
<1>. QED
  BY <1>1, <1>2, <1>4 DEF Inv

\* Steps of SerCx2's threads and of the DPC that leave the buffer and the FIFO alone.
Control ==
  \/ \E n \in 1 .. MaxLength : Read(n)
  \/ ReadBuffer \/ EnableReadyNotification \/ ReadyInline \/ CancelReadyNotification
  \/ Dpc

\* They only change what is expected, enabled and reported.
LEMMA ControlInv ==
  ASSUME Inv, Control
  PROVE  Inv'
<1>. TypeOK /\ StatesMatch /\ RingInv
  BY DEF Inv
<1>. request \in Requests
  BY Types
<1>. USE DEF Control, Dpc
<1>1. UNCHANGED <<ring, fifo, aged, isr, deq, next, last>>
  BY DEF Read, ReadBuffer, EnableReadyNotification, ReadyInline, CancelReadyNotification, DpcStart,
         DpcReady
<1>2. \/ Answered
      \/ \E pc \in PCs \ {"copy", "release"} : Goto(pc)
      \/ request' = [request EXCEPT !.cancelled = TRUE]
      \/ UNCHANGED request
      \/ \E n \in 1 .. MaxLength : request' = [pc |-> "read", left |-> n, cancelled |-> FALSE]
  BY DEF Read, ReadBuffer, EnableReadyNotification, ReadyInline, CancelReadyNotification, DpcStart,
         DpcReady, ReceiveReady, PCs
<1>3. request' \in Requests
  <2>1. CASE \E n \in 1 .. MaxLength : request' = [pc |-> "read", left |-> n, cancelled |-> FALSE]
    BY <2>1, UartRxAssumption DEF Requests, PCs
  <2>. QED
    BY <1>2, <2>1, RequestMoves
<1>4. request' = request \/ request'.pc = request.pc \/ request'.pc \notin {"copy", "release"}
  <2>1. ASSUME NEW pc \in PCs \ {"copy", "release"}, Goto(pc) PROVE request'.pc = pc
    BY <2>1 DEF Goto, Requests
  <2>2. Answered => request'.pc = "idle"
    BY DEF Answered, Idle
  <2>3. request' = [request EXCEPT !.cancelled = TRUE] => request'.pc = request.pc
    BY DEF Requests
  <2>. QED
    BY <1>2, <2>1, <2>2, <2>3
<1>5. RingInv'
  BY <1>1, <1>4, RingUntouched
<1>6. /\ Enabled' \subseteq Interrupts /\ RxState' \in States
      /\ dpc' \in DpcStates
  <2>1. Enabled \subseteq Interrupts /\ RxState \in States /\ dpc \in DpcStates
    BY DEF TypeOK, DpcStates
  <2>2. Enabled' = Enabled \/ Enabled' = ReadyEnables
    BY DEF Read, ReadBuffer, EnableReadyNotification, ReadyInline, CancelReadyNotification, DpcStart,
           DpcReady
  <2>3. RxState' = RxState \/ RxState' \in {"IDLE", "CANCELLED", "COMPLETE", "WAITING_FOR_INTERRUPT"}
    BY DEF Read, ReadBuffer, EnableReadyNotification, ReadyInline, CancelReadyNotification, DpcStart,
           DpcReady, AfterCancel
  <2>4. \/ dpc' = dpc
        \/ dpc' = [queued |-> FALSE, running |-> TRUE]
        \/ dpc' = [dpc EXCEPT !.running = FALSE]
    BY DEF Read, ReadBuffer, EnableReadyNotification, ReadyInline, CancelReadyNotification, DpcStart,
           DpcReady
  <2>5. Enabled' \subseteq Interrupts /\ RxState' \in States
    BY <2>1, <2>2, <2>3 DEF ReadyEnables, Interrupts, States
  <2>6. dpc' \in DpcStates
    <3>1. [queued |-> FALSE, running |-> TRUE] \in DpcStates
      BY DEF DpcStates
    <3>2. [dpc EXCEPT !.running = FALSE] \in DpcStates
      BY <2>1 DEF DpcStates
    <3>. QED
      BY <2>1, <2>4, <3>1, <3>2
  <2>. QED
    BY <2>5, <2>6
<1>7. TypeOK'
  BY <1>1, <1>3, <1>6 DEF TypeOK, Requests, PCs, DpcStates, ring
<1>8. StatesMatch'
  BY DEF StatesMatch, Waiting, At, Goto, Answered, Idle, Requests, Read, ReadBuffer,
         EnableReadyNotification, ReadyInline, CancelReadyNotification, DpcStart, DpcReady,
         Cancellable, AfterCancel, ReceiveReady
<1>. QED
  BY <1>5, <1>7, <1>8 DEF Inv

\* The line, whose bytes stay in the FIFO.
LEMMA LineInv ==
  ASSUME Inv, HwReceive \/ HwAge
  PROVE  Inv'
<1>. TypeOK /\ StatesMatch /\ RingInv
  BY DEF Inv
<1>1. /\ UNCHANGED <<ring, Enabled, RxState, isr, dpc, request, deq, last>>
      /\ aged' \in BOOLEAN
  BY DEF HwReceive, HwAge, TypeOK
<1>2. /\ fifo' \in Seq(1 .. MaxBytes) /\ Len(fifo') <= FifoCount
      /\ next' \in 1 .. MaxBytes + 1
  <2>1. CASE HwAge
    BY <2>1 DEF HwAge, TypeOK
  <2>2. CASE HwReceive
    <3>1. next \in 1 .. MaxBytes /\ next' = next + 1 /\ fifo' = Append(fifo, next)
      BY <2>2, UartRxAssumption DEF HwReceive, TypeOK
    <3>2. fifo \in Seq(1 .. MaxBytes) /\ Len(fifo) < FifoCount
      BY <2>2 DEF HwReceive, TypeOK
    <3>. QED
      BY <3>1, <3>2, UartRxAssumption, AppendProperties
  <2>. QED
    BY <2>1, <2>2
<1>3. TypeOK'
  BY <1>1, <1>2 DEF TypeOK, ring
<1>4. StatesMatch'
  BY <1>1 DEF StatesMatch, At
<1>5. RingInv'
  BY <1>1, RingUntouched
<1>. QED
  BY <1>3, <1>4, <1>5 DEF Inv

-----------------------------------------------------------------------------
(* The interrupt routine.                                                  *)

\* The routine begins with the indices as they are.
LEMMA IsrEnterInv ==
  ASSUME Inv, IsrEnter
  PROVE  Inv'
<1>. TypeOK /\ StatesMatch /\ RingInv
  BY DEF Inv
<1>1. /\ isr' = [pc |-> "move", usr |-> Asserted, head |-> HeadIndex, tail |-> TailIndex]
      /\ isr.pc = "off"
      /\ UNCHANGED <<ring, Enabled, RxState, fifo, aged, dpc, request, deq, next, last>>
  BY DEF IsrEnter
<1>2. Asserted \subseteq Interrupts
  BY DEF Asserted, TypeOK
<1>3. TypeOK'
  BY <1>1, <1>2 DEF TypeOK, ring
<1>4. StatesMatch'
  BY <1>1 DEF StatesMatch, At
<1>5. RoutineInside'
  <2>1. Between(TailIndex, TailIndex, HeadIndex) /\ Between(TailIndex, HeadIndex, HeadIndex)
    BY Types, BetweenEnds
  <2>. QED
    BY <1>1, <2>1 DEF RoutineInside, ring
<1>6. ReaderInside'
  BY <1>1 DEF RingInv, ReaderInside, At, ring
<1>7. BufferHoldsBytes'
  BY <1>1 DEF RingInv, BufferHoldsBytes, PipeHead, ring
<1>. QED
  BY <1>3, <1>4, <1>5, <1>6, <1>7 DEF Inv, RingInv

\* The routine stores into a slot that is not in use, and leaves one free.
LEMMA RoutineRoom ==
  ASSUME TypeOK, RoutineInside, isr.pc = "move", ~ IsrFull
  PROVE  /\ NextHead \in Slots
         /\ Count(isr.head, TailIndex) < Capacity
         /\ Between(isr.tail, isr.head, NextHead)
         /\ Count(NextHead, TailIndex) = Count(isr.head, TailIndex) + 1
<1>1. TailIndex \in Slots /\ HeadIndex \in Slots /\ isr.head \in Slots /\ isr.tail \in Slots
  BY Types
<1>2. NextHead = IF isr.head + 1 >= Size THEN isr.head + 1 - Size ELSE isr.head + 1
  <2>1. 1 \in 0 .. Size
    BY SizeAssumption
  <2>. QED
    BY <1>1, <2>1, AdvanceValue DEF NextHead
<1>3. NextHead # isr.tail
  BY DEF IsrFull, Full, NextHead
<1>4. NextHead \in Slots
  BY <1>1, <1>2, SizeAssumption DEF Slots
<1>5. Between(isr.tail, isr.head, NextHead)
  BY <1>1, <1>2, <1>3, SizeAssumption DEF Between, Count, Slots
<1>6. Between(isr.tail, TailIndex, isr.head)
  BY <1>1, BetweenFour DEF RoutineInside
<1>7. Between(TailIndex, isr.head, NextHead)
  BY <1>1, <1>4, <1>5, <1>6, BetweenFour
<1>8. Count(NextHead, isr.head) = 1
  BY <1>1, <1>2, SizeAssumption DEF Count, Slots
<1>9. Count(isr.head, TailIndex) \in Nat /\ Count(NextHead, TailIndex) \in 0 .. Capacity
  BY <1>1, <1>4, CountInRange, SizeAssumption DEF Capacity
<1>. QED
  BY <1>4, <1>5, <1>7, <1>8, <1>9, SizeAssumption DEF Between, Capacity

\* A byte goes to the routine's own head, where no reader looks yet.
LEMMA IsrMoveInv ==
  ASSUME Inv, IsrMove
  PROVE  Inv'
<1>. TypeOK /\ StatesMatch /\ RingInv /\ RoutineInside
  BY DEF Inv, RingInv
<1>1. /\ isr.pc = "move" /\ fifo # <<>> /\ ~ IsrFull
      /\ slots' = [slots EXCEPT ![isr.head] = Head(fifo)]
      /\ fifo' = Tail(fifo)
      /\ isr' = [isr EXCEPT !.head = NextHead]
      /\ UNCHANGED <<HeadIndex, TailIndex, Enabled, RxState, aged, dpc, request, deq, next, last>>
  BY DEF IsrMove
<1>2. /\ HeadIndex \in Slots /\ TailIndex \in Slots /\ isr.head \in Slots /\ isr.tail \in Slots
      /\ isr \in Routines
  BY Types
<1>3. /\ NextHead \in Slots
      /\ Between(isr.tail, isr.head, NextHead)
      /\ Count(NextHead, TailIndex) = Count(isr.head, TailIndex) + 1
  BY <1>1, RoutineRoom
<1>4. /\ Head(fifo) \in 1 .. MaxBytes /\ fifo' \in Seq(1 .. MaxBytes) /\ Len(fifo') <= FifoCount
  <2>1. fifo \in Seq(1 .. MaxBytes) /\ Len(fifo) <= FifoCount
    BY DEF TypeOK
  <2>2. Head(fifo) \in 1 .. MaxBytes /\ Tail(fifo) \in Seq(1 .. MaxBytes) /\ Len(Tail(fifo)) = Len(fifo) - 1
    BY <1>1, <2>1, HeadTailProperties
  <2>3. Len(fifo) \in Nat
    BY <2>1
  <2>. QED
    BY <1>1, <2>1, <2>2, <2>3, UartRxAssumption
<1>5. /\ isr' \in Routines /\ isr'.pc = "move" /\ isr'.head = NextHead /\ isr'.tail = isr.tail
  BY <1>1, <1>2, <1>3 DEF Routines
<1>6. slots' \in [Slots -> 0 .. MaxBytes]
  <2>1. Head(fifo) \in 0 .. MaxBytes /\ slots \in [Slots -> 0 .. MaxBytes]
    BY <1>4 DEF TypeOK
  <2>. QED
    BY <1>1, <2>1
<1>7. TypeOK'
  BY <1>1, <1>4, <1>5, <1>6 DEF TypeOK, Routines
<1>8. StatesMatch'
  BY <1>1 DEF StatesMatch, At
<1>9. RoutineInside'
  <2>1. Between(isr.tail, TailIndex, HeadIndex) /\ Between(isr.tail, HeadIndex, isr.head)
    BY <1>1 DEF RoutineInside
  <2>2. Between(isr.tail, HeadIndex, NextHead)
    BY <1>2, <1>3, <2>1, BetweenFour
  <2>. QED
    BY <1>1, <1>5, <2>1, <2>2 DEF RoutineInside
<1>10. ReaderInside'
  BY <1>1 DEF RingInv, ReaderInside, At
<1>11. BufferHoldsBytes'
  <2>. DEFINE n == Count(isr.head, TailIndex)
  <2>1. n \in Nat
    BY <1>2, CountInRange, SizeAssumption DEF Capacity
  <2>2. \A i \in 1 .. n : slots[Advance(TailIndex, i - 1)] \in 1 .. MaxBytes
    BY <1>1 DEF RingInv, BufferHoldsBytes, PipeHead
  <2>3. \A i \in 1 .. n : slots'[Advance(TailIndex, i - 1)] = slots[Advance(TailIndex, i - 1)]
    <3>. TAKE i \in 1 .. n
    <3>1. Advance(TailIndex, i - 1) # isr.head
      BY <1>2, HeadNotInUse
    <3>2. i - 1 \in 0 .. Size
      BY <1>2, CountInRange, SizeAssumption DEF Capacity
    <3>3. Advance(TailIndex, i - 1) \in Slots
      BY <1>2, <3>2, AdvanceInSlots
    <3>. QED
      BY <1>1, <3>1, <3>3 DEF TypeOK
  <2>4. Advance(TailIndex, (n + 1) - 1) = isr.head
    <3>1. (n + 1) - 1 = n
      BY <2>1
    <3>. QED
      BY <1>2, <3>1, AdvanceCount
  <2>5. slots'[isr.head] = Head(fifo)
    BY <1>1, <1>2 DEF TypeOK
  <2>. HIDE DEF n
  <2>6. ASSUME NEW i \in 1 .. n + 1 PROVE slots'[Advance(TailIndex, i - 1)] \in 1 .. MaxBytes
    <3>1. CASE i \in 1 .. n
      BY <2>2, <2>3, <3>1
    <3>2. CASE i = n + 1
      BY <1>4, <2>4, <2>5, <3>2
    <3>. QED
      BY <2>1, <3>1, <3>2
  <2>7. Count(PipeHead', TailIndex') = n + 1
    BY <1>1, <1>3, <1>5 DEF PipeHead, n
  <2>. QED
    BY <1>1, <2>6, <2>7 DEF BufferHoldsBytes
<1>. QED
  BY <1>7, <1>8, <1>9, <1>10, <1>11 DEF Inv, RingInv

\* The new head makes the moved bytes the buffer's.
LEMMA IsrMovedInv ==
  ASSUME Inv, IsrMoved
  PROVE  Inv'
<1>. TypeOK /\ StatesMatch /\ RingInv /\ RoutineInside
  BY DEF Inv, RingInv
<1>1. /\ isr.pc = "move" /\ HeadIndex' = isr.head
      /\ isr' = [isr EXCEPT !.pc = "off"]
      /\ UNCHANGED <<TailIndex, slots, fifo, request, deq, next, last>>
  BY DEF IsrMoved
<1>2. /\ HeadIndex \in Slots /\ TailIndex \in Slots /\ isr.head \in Slots /\ isr.tail \in Slots
      /\ deq.head \in Slots /\ deq.tail \in Slots /\ isr \in Routines
  BY Types
<1>3. isr' \in Routines /\ isr'.pc = "off"
  BY <1>1, <1>2 DEF Routines
<1>4. Enabled' \subseteq Interrupts /\ aged' \in BOOLEAN
  BY DEF IsrMoved, TypeOK
<1>5. \/ UNCHANGED <<RxState, dpc>>
      \/ /\ RxState = "WAITING_FOR_INTERRUPT" /\ RxState' = "WAITING_FOR_DPC"
         /\ dpc' = [dpc EXCEPT !.queued = TRUE]
  BY DEF IsrMoved
<1>6. RxState' \in States /\ dpc' \in DpcStates
  <2>1. RxState \in States /\ dpc \in DpcStates
    BY DEF TypeOK, DpcStates
  <2>2. [dpc EXCEPT !.queued = TRUE] \in DpcStates
    BY <2>1 DEF DpcStates
  <2>. QED
    BY <1>5, <2>1, <2>2 DEF States
<1>7. TypeOK'
  BY <1>1, <1>2, <1>3, <1>4, <1>6 DEF TypeOK, Routines, DpcStates
<1>8. StatesMatch'
  BY <1>1, <1>5 DEF StatesMatch, Waiting, At
<1>9. Between(TailIndex, HeadIndex, isr.head)
  BY <1>1, <1>2, BetweenFour DEF RoutineInside
<1>10. ReaderInside'
  <2>1. At("copy") => Between(TailIndex, deq.head, isr.head)
    BY <1>2, <1>9, BetweenFour DEF RingInv, ReaderInside
  <2>2. At("release") => Between(TailIndex, deq.tail, isr.head)
    BY <1>2, <1>9, BetweenFour DEF RingInv, ReaderInside
  <2>. QED
    BY <1>1, <2>1, <2>2 DEF RingInv, ReaderInside, At
<1>11. BufferHoldsBytes'
  BY <1>1, <1>3 DEF RingInv, BufferHoldsBytes, PipeHead
<1>12. RoutineInside'
  BY <1>3 DEF RoutineInside
<1>. QED
  BY <1>7, <1>8, <1>10, <1>11, <1>12 DEF Inv, RingInv

-----------------------------------------------------------------------------
(* DequeueBytes.                                                           *)

\* DequeueBytes takes both indices; the interrupt only adds bytes behind those it will copy.
LEMMA DequeueInv ==
  ASSUME Inv, Dequeue
  PROVE  Inv'
<1>. TypeOK /\ StatesMatch /\ RingInv
  BY DEF Inv
<1>1. /\ At("dequeue") /\ Goto("copy")
      /\ deq' = [head |-> HeadIndex, tail |-> TailIndex]
      /\ UNCHANGED <<HeadIndex, TailIndex, slots, Enabled, RxState, fifo, aged, isr, dpc, next, last>>
  BY DEF Dequeue, TailWhileCopying
<1>2. request' \in Requests /\ request'.pc = "copy"
  <2>1. request \in Requests
    BY Types
  <2>. QED
    BY <1>1, <2>1 DEF Goto, Requests, PCs
<1>3. deq' \in [head: Slots, tail: Slots]
  BY <1>1, Types
<1>4. TypeOK'
  BY <1>1, <1>2, <1>3 DEF TypeOK, Requests, PCs
<1>5. StatesMatch'
  BY <1>1 DEF StatesMatch, Waiting, At
<1>6. RoutineInside' /\ BufferHoldsBytes'
  BY <1>1 DEF RingInv, RoutineInside, BufferHoldsBytes, PipeHead
<1>7. ReaderInside'
  <2>1. Between(TailIndex, HeadIndex, HeadIndex)
    BY Types, BetweenEnds
  <2>. QED
    BY <1>1, <1>2, <2>1 DEF ReaderInside, At
<1>. QED
  BY <1>4, <1>5, <1>6, <1>7 DEF Inv, RingInv

\* How many bytes are copied, and where that leaves the reader.
LEMMA Copied ==
  ASSUME TypeOK, ReaderInside, Copy
  PROVE  \E k \in Nat :
           /\ k <= request.left
           /\ k <= Count(deq.head, TailIndex)
           /\ k <= Count(HeadIndex, TailIndex)
           /\ k = DequeueCount(deq.head, TailIndex, request.left)
           /\ deq' = [deq EXCEPT !.tail = Advance(TailIndex, k)]
           /\ request' = [request EXCEPT !.pc = "release", !.left = request.left - k]
           /\ last' = IF k = 0 THEN last
                      ELSE Dequeued(slots, deq.head, TailIndex, request.left)[k]
           /\ Len(Dequeued(slots, deq.head, TailIndex, request.left)) = k
<1>. DEFINE k == DequeueCount(deq.head, TailIndex, request.left)
            bytes == Dequeued(slots, deq.head, TailIndex, request.left)
<1>1. /\ deq.head \in Slots /\ TailIndex \in Slots /\ HeadIndex \in Slots /\ request \in Requests
  BY Types
<1>2. deq.tail = TailIndex /\ Between(TailIndex, deq.head, HeadIndex)
  BY DEF ReaderInside, Copy
<1>3. request.left \in Nat
  BY <1>1, UartRxAssumption DEF Requests
<1>4. k = Least(request.left, Count(deq.head, TailIndex))
  BY <1>1, <1>3, DequeueTakesAvailable
<1>5. /\ Count(deq.head, TailIndex) \in Nat
      /\ Count(deq.head, TailIndex) <= Count(HeadIndex, TailIndex)
      /\ Count(HeadIndex, TailIndex) \in Nat
  BY <1>1, <1>2, BetweenCount, CountInRange, SizeAssumption DEF Capacity
<1>6. k \in Nat /\ k <= request.left /\ k <= Count(deq.head, TailIndex) /\ k <= Count(HeadIndex, TailIndex)
  <2>. HIDE DEF k
  <2>. QED
    BY <1>3, <1>4, <1>5 DEF Least
<1>7. Len(bytes) = k /\ (bytes = <<>> <=> k = 0)
  <2>1. bytes = [i \in 1 .. k |-> IF i <= DequeueFirst(deq.head, TailIndex, request.left)
                                  THEN slots[TailIndex + i - 1]
                                  ELSE slots[i - DequeueFirst(deq.head, TailIndex, request.left) - 1]]
    BY DEF Dequeued
  <2>. HIDE DEF k, bytes
  <2>. QED
    BY <1>6, <2>1
<1>8. /\ deq' = [deq EXCEPT !.tail = Advance(@, Len(bytes))]
      /\ last' = IF bytes = <<>> THEN last ELSE bytes[Len(bytes)]
      /\ request' = [request EXCEPT !.pc = "release", !.left = @ - Len(bytes)]
  BY <1>2 DEF Copy
<1>. HIDE DEF bytes, k
<1>9. deq' = [deq EXCEPT !.tail = Advance(TailIndex, k)]
  BY <1>2, <1>7, <1>8
<1>10. request' = [request EXCEPT !.pc = "release", !.left = request.left - k]
  BY <1>7, <1>8
<1>11. last' = IF k = 0 THEN last ELSE bytes[k]
  BY <1>7, <1>8
<1>. QED
  BY <1>6, <1>7, <1>9, <1>10, <1>11 DEF bytes, k

\* The last byte of a copy is the one in the slot before the new tail.
LEMMA LastCopied ==
  ASSUME TypeOK, At("copy"), NEW k \in Nat, k > 0,
         k = DequeueCount(deq.head, TailIndex, request.left),
         k <= Count(deq.head, TailIndex)
  PROVE  /\ Dequeued(slots, deq.head, TailIndex, request.left)[k] = slots[Advance(TailIndex, k - 1)]
         /\ slots[Advance(TailIndex, k - 1)] \in 0 .. MaxBytes
<1>. DEFINE B == 0 .. MaxBytes
<1>1. /\ deq.head \in Slots /\ TailIndex \in Slots /\ request \in Requests
      /\ slots \in [Slots -> B]
  BY Types DEF TypeOK
<1>2. request.left \in Nat
  BY <1>1, UartRxAssumption DEF Requests
<1>. HIDE DEF B
<1>3. \A i \in 1 .. DequeueCount(deq.head, TailIndex, request.left) :
         Dequeued(slots, deq.head, TailIndex, request.left)[i] = Contents(slots, deq.head, TailIndex)[i]
  <2>. DEFINE h == deq.head
              n == request.left
  <2>1. h \in Slots /\ n \in Nat
    BY <1>1, <1>2
  <2>. HIDE DEF h, n
  <2>2. \A i \in 1 .. DequeueCount(h, TailIndex, n) :
           Dequeued(slots, h, TailIndex, n)[i] = Contents(slots, h, TailIndex)[i]
    BY <1>1, <2>1, DequeueInOrder
  <2>. QED
    BY <2>2 DEF h, n
<1>4. k \in 1 .. Count(deq.head, TailIndex)
  BY <1>1, CountInRange, SizeAssumption DEF Capacity
<1>5. Contents(slots, deq.head, TailIndex)[k] = slots[Advance(TailIndex, k - 1)]
  BY <1>4 DEF Contents
<1>6. Advance(TailIndex, k - 1) \in Slots
  <2>1. k - 1 \in 0 .. Size
    BY <1>1, <1>4, CountInRange, SizeAssumption DEF Capacity
  <2>. QED
    BY <1>1, <2>1, AdvanceInSlots
<1>7. k \in 1 .. DequeueCount(deq.head, TailIndex, request.left)
  OBVIOUS
<1>8. Dequeued(slots, deq.head, TailIndex, request.left)[k] = slots[Advance(TailIndex, k - 1)]
  BY <1>3, <1>5, <1>7
<1>9. slots[Advance(TailIndex, k - 1)] \in B
  BY <1>1, <1>6
<1>. QED
  BY <1>8, <1>9 DEF B

\* The oldest bytes are copied out; their slots are not reused before the tail is stored.
LEMMA CopyInv ==
  ASSUME Inv, Copy
  PROVE  Inv'
<1>. TypeOK /\ StatesMatch /\ RingInv /\ ReaderInside
  BY DEF Inv, RingInv
<1>1. PICK k \in Nat :
           /\ k <= request.left
           /\ k <= Count(deq.head, TailIndex)
           /\ k <= Count(HeadIndex, TailIndex)
           /\ k = DequeueCount(deq.head, TailIndex, request.left)
           /\ deq' = [deq EXCEPT !.tail = Advance(TailIndex, k)]
           /\ request' = [request EXCEPT !.pc = "release", !.left = request.left - k]
           /\ last' = IF k = 0 THEN last
                      ELSE Dequeued(slots, deq.head, TailIndex, request.left)[k]
  BY Copied
<1>2. At("copy") /\ UNCHANGED <<ring, Enabled, RxState, fifo, aged, isr, dpc, next>>
  BY DEF Copy
<1>3. /\ HeadIndex \in Slots /\ TailIndex \in Slots /\ deq.head \in Slots
      /\ request \in Requests
  BY Types
<1>4. Advance(TailIndex, k) \in Slots
  <2>1. k \in 0 .. Size
    BY <1>1, <1>3, CountInRange, SizeAssumption DEF Capacity
  <2>. QED
    BY <1>3, <2>1, AdvanceInSlots
<1>5. deq' \in [head: Slots, tail: Slots] /\ deq'.tail = Advance(TailIndex, k)
  <2>1. deq \in [head: Slots, tail: Slots]
    BY DEF TypeOK
  <2>. QED
    BY <1>1, <1>4, <2>1
<1>6. request' \in Requests /\ request'.pc = "release"
  <2>1. request.left - k \in 0 .. MaxLength
    BY <1>1, <1>3, UartRxAssumption DEF Requests
  <2>. QED
    BY <1>1, <1>3, <2>1 DEF Requests, PCs
<1>7. last' \in 0 .. MaxBytes
  <2>1. CASE k = 0
    BY <1>1, <2>1 DEF TypeOK
  <2>2. CASE k > 0
    BY <1>1, <1>2, <2>2, LastCopied
  <2>. QED
    BY <2>1, <2>2
<1>8. TypeOK'
  BY <1>2, <1>5, <1>6, <1>7 DEF TypeOK, Requests, PCs, ring
<1>9. StatesMatch'
  BY <1>2 DEF StatesMatch, Waiting, At
<1>10. RoutineInside' /\ BufferHoldsBytes'
  BY <1>2 DEF RingInv, RoutineInside, BufferHoldsBytes, PipeHead, ring
<1>11. ReaderInside'
  <2>1. Count(Advance(TailIndex, k), TailIndex) = k
    <3>1. Count(TailIndex, TailIndex) = 0 /\ Capacity \in Nat /\ k <= Capacity
      BY <1>1, <1>3, CountInRange, SizeAssumption DEF Capacity
    <3>2. k \in 0 .. Capacity - Count(TailIndex, TailIndex)
      BY <3>1
    <3>. QED
      BY <1>3, <3>1, <3>2, CountAfterEnqueue
  <2>2. Between(TailIndex, Advance(TailIndex, k), HeadIndex)
    BY <1>1, <1>3, <1>4, <2>1, BetweenCount
  <2>. QED
    BY <1>2, <1>5, <1>6, <2>2 DEF ReaderInside, At, ring
<1>. QED
  BY <1>8, <1>9, <1>10, <1>11 DEF Inv, RingInv

\* Whatever slot between the tail and the head the tail moves to, the bytes from it on
\* are some of those the buffer held.
LEMMA TailMoved ==
  ASSUME TypeOK, RoutineInside, BufferHoldsBytes,
         NEW t \in Slots, Between(TailIndex, t, HeadIndex)
  PROVE  /\ Between(TailIndex, t, PipeHead)
         /\ \A i \in 1 .. Count(PipeHead, t) : slots[Advance(t, i - 1)] \in 1 .. MaxBytes
<1>. DEFINE k == Count(t, TailIndex)
            n == Count(PipeHead, TailIndex)
<1>1. /\ HeadIndex \in Slots /\ TailIndex \in Slots /\ PipeHead \in Slots
      /\ isr.head \in Slots /\ isr.tail \in Slots
  BY Types
<1>2. Between(TailIndex, t, PipeHead)
  <2>1. CASE isr.pc # "move"
    BY <2>1 DEF PipeHead
  <2>2. CASE isr.pc = "move"
    <3>1. Between(TailIndex, HeadIndex, isr.head)
      BY <1>1, <2>2, BetweenFour DEF RoutineInside
    <3>2. Between(TailIndex, t, isr.head)
      BY <1>1, <3>1, BetweenFour
    <3>. QED
      BY <2>2, <3>2 DEF PipeHead
  <2>. QED
    BY <2>1, <2>2
<1>3. k \in Nat /\ n \in Nat /\ k <= n /\ n < Size /\ Size \in Nat
  BY <1>1, <1>2, BetweenCount, CountInRange, SizeAssumption DEF Capacity
<1>4. t = Advance(TailIndex, k)
  BY <1>1, AdvanceCount
<1>5. Count(PipeHead, t) = n - k
  <2>1. k \in 0 .. Count(PipeHead, TailIndex)
    BY <1>3
  <2>. QED
    BY <1>1, <1>4, <2>1, CountAfterDequeue
<1>6. \A i \in 1 .. n : slots[Advance(TailIndex, i - 1)] \in 1 .. MaxBytes
  BY DEF BufferHoldsBytes
<1>. HIDE DEF k, n
<1>7. ASSUME NEW i \in 1 .. n - k PROVE slots[Advance(t, i - 1)] \in 1 .. MaxBytes
  <2>1. k \in 0 .. Size /\ i - 1 \in 0 .. Size /\ k + (i - 1) <= Size /\ k + (i - 1) = (k + i) - 1
        /\ k + i \in 1 .. n
    BY <1>3
  <2>2. Advance(t, i - 1) = Advance(TailIndex, (k + i) - 1)
    BY <1>1, <1>4, <2>1, AdvanceTwice
  <2>. QED
    BY <1>6, <2>1, <2>2
<1>. QED
  BY <1>2, <1>5, <1>7

\* The new tail gives the slots to the interrupt.
LEMMA ReleaseInv ==
  ASSUME Inv, Release
  PROVE  Inv'
<1>. TypeOK /\ StatesMatch /\ RingInv
  BY DEF Inv
<1>1. /\ At("release") /\ TailIndex' = deq.tail
      /\ Answered \/ Goto("enable")
      /\ UNCHANGED <<HeadIndex, slots, Enabled, RxState, fifo, aged, isr, dpc, deq, next, last>>
  BY DEF Release
<1>2. /\ HeadIndex \in Slots /\ TailIndex \in Slots /\ deq.tail \in Slots /\ PipeHead \in Slots
      /\ isr.head \in Slots /\ isr.tail \in Slots
      /\ request \in Requests
  BY Types
<1>3. request' \in Requests /\ request'.pc \in {"idle", "enable"}
  <2>1. request' \in Requests
    BY <1>1, RequestMoves DEF PCs
  <2>. QED
    BY <1>1, <1>2, <2>1 DEF Answered, Idle, Goto, Requests
<1>4. TypeOK'
  BY <1>1, <1>2, <1>3 DEF TypeOK, Requests, PCs
<1>5. StatesMatch'
  BY <1>1 DEF StatesMatch, Waiting, At
<1>6. Between(TailIndex, deq.tail, HeadIndex)
  BY <1>1 DEF RingInv, ReaderInside
<1>7. RoutineInside'
  <2>1. ASSUME isr.pc = "move" PROVE Between(isr.tail, deq.tail, HeadIndex)
    <3>1. Between(isr.tail, TailIndex, HeadIndex)
      BY <2>1 DEF RingInv, RoutineInside
    <3>. QED
      BY <1>2, <1>6, <3>1, BetweenFourNear
  <2>. QED
    BY <1>1, <2>1 DEF RingInv, RoutineInside
<1>8. ReaderInside'
  BY <1>3 DEF ReaderInside, At
<1>9. BufferHoldsBytes'
  <2>1. \A i \in 1 .. Count(PipeHead, deq.tail) : slots[Advance(deq.tail, i - 1)] \in 1 .. MaxBytes
    BY <1>2, <1>6, TailMoved DEF RingInv
  <2>2. PipeHead' = PipeHead
    BY <1>1 DEF PipeHead
  <2>. QED
    BY <1>1, <2>1, <2>2 DEF BufferHoldsBytes
<1>. QED
  BY <1>4, <1>5, <1>7, <1>8, <1>9 DEF Inv, RingInv

-----------------------------------------------------------------------------
(* A purge, and a close followed by an open.                               *)

\* A purge or a new open, with nobody at work, leaves a buffer whose indices agree with it.
LEMMA PurgeInv ==
  ASSUME Inv, PurgeFifos \/ CloseAndOpen
  PROVE  Inv'
<1>. TypeOK /\ StatesMatch /\ RingInv
  BY DEF Inv
<1>1. /\ At("idle") /\ isr.pc = "off" /\ fifo' = <<>>
      /\ UNCHANGED <<slots, isr, dpc, request, deq, next, last>>
      /\ (HeadIndex' = 0 /\ TailIndex' = 0) \/ UNCHANGED <<HeadIndex, TailIndex>>
      /\ aged' = aged \/ aged' = FALSE
      /\ UNCHANGED <<Enabled, RxState>> \/ (Enabled' = {} /\ RxState' = "STOPPED")
  BY DEF PurgeFifos, CloseAndOpen, Unlocked
<1>2. HeadIndex' \in Slots /\ TailIndex' \in Slots
  BY <1>1, Types, SizeAssumption DEF Slots
<1>3. fifo' \in Seq(1 .. MaxBytes) /\ Len(fifo') <= FifoCount
  <2>1. fifo' \in Seq(1 .. MaxBytes) /\ Len(fifo') = 0
    BY <1>1, EmptySeq
  <2>. QED
    BY <2>1, UartRxAssumption
<1>4. aged' \in BOOLEAN /\ Enabled' \subseteq Interrupts /\ RxState' \in States
  BY <1>1 DEF TypeOK, States
<1>5. TypeOK'
  BY <1>1, <1>2, <1>3, <1>4 DEF TypeOK
<1>6. StatesMatch'
  BY <1>1 DEF StatesMatch, Waiting, At
<1>7. RoutineInside' /\ ReaderInside'
  BY <1>1 DEF RoutineInside, ReaderInside, At
<1>8. BufferHoldsBytes'
  <2>1. CASE UNCHANGED <<HeadIndex, TailIndex>>
    BY <1>1, <2>1 DEF RingInv, BufferHoldsBytes, PipeHead
  <2>2. CASE HeadIndex' = 0 /\ TailIndex' = 0
    <3>1. PipeHead' = 0
      BY <1>1, <2>2 DEF PipeHead
    <3>2. Count(0, 0) = 0
      BY SizeAssumption DEF Count
    <3>. QED
      BY <2>2, <3>1, <3>2 DEF BufferHoldsBytes
  <2>. QED
    BY <1>1, <2>1, <2>2
<1>. QED
  BY <1>5, <1>6, <1>7, <1>8 DEF Inv, RingInv

\* The invariant is inductive.
LEMMA NextInv == Inv /\ [Next]_vars => Inv'
<1>. SUFFICES ASSUME Inv, [Next]_vars PROVE Inv'
  OBVIOUS
<1>1. CASE UNCHANGED vars
  BY <1>1 DEF vars, ring, Inv, TypeOK, StatesMatch, Waiting, At, RingInv, RoutineInside, ReaderInside,
              BufferHoldsBytes, PipeHead
<1>2. CASE Next
  BY <1>2, ControlInv, LineInv, IsrEnterInv, IsrMoveInv, IsrMovedInv, DequeueInv, CopyInv, ReleaseInv,
     PurgeInv
  DEF Next, Isr, Reading, Control
<1>. QED
  BY <1>1, <1>2

\* The invariant behind the theorems of this module.
THEOREM Invariance == Spec => []Inv
  BY InitInv, NextInv, PTL DEF Spec

\* The buffer's indices stay in the buffer and its free slot stays free, the FIFO never
\* overflows, whatever the interrupt interrupts, and only bytes that the FIFO took are
\* given to SerCx2 (imxuart.cpp:99-146, 188-254).
THEOREM TypeCorrect == Spec => []TypeOK
  BY Invariance, PTL DEF Inv

\* A notification is answered by a callback only while SerCx2 waits for one: neither the
\* interrupt nor a DPC already queued overtakes a cancellation that returned TRUE
\* (imxuart.cpp:477, 963-1004).
THEOREM CallbackOnlyWhenExpected == Spec => []CallbackExpected
<1>1. Inv => CallbackExpected
  BY DEF Inv, StatesMatch, Waiting, CallbackExpected
<1>. QED
  BY <1>1, Invariance, PTL

-----------------------------------------------------------------------------
(* Reception implements BytePipe.                                          *)

Buffered == Contents(slots, PipeHead, PipeTail)

\* The slots between the ends of the pipe hold bytes.
LEMMA PipeSlots ==
  ASSUME Inv
  PROVE  /\ PipeHead \in Slots /\ PipeTail \in Slots
         /\ Count(PipeHead, PipeTail) <= Count(PipeHead, TailIndex)
         /\ \A i \in 1 .. Count(PipeHead, PipeTail) : slots[Advance(PipeTail, i - 1)] \in 1 .. MaxBytes
<1>. TypeOK /\ RoutineInside /\ ReaderInside /\ BufferHoldsBytes
  BY DEF Inv, RingInv
<1>1. PipeHead \in Slots /\ PipeTail \in Slots /\ HeadIndex \in Slots /\ TailIndex \in Slots
  BY Types
<1>2. Between(TailIndex, PipeTail, HeadIndex)
  BY <1>1, BetweenEnds DEF PipeTail, ReaderInside, At
<1>3. /\ Between(TailIndex, PipeTail, PipeHead)
      /\ \A i \in 1 .. Count(PipeHead, PipeTail) : slots[Advance(PipeTail, i - 1)] \in 1 .. MaxBytes
  BY <1>1, <1>2, TailMoved
<1>4. Count(PipeHead, PipeTail) <= Count(PipeHead, TailIndex)
  BY <1>1, <1>3, CountInRange, SizeAssumption DEF Between, Capacity
<1>. QED
  BY <1>1, <1>3, <1>4

\* The pipe is what is buffered, then the FIFO, and each byte is found in one of them.
LEMMA PipeType ==
  ASSUME Inv
  PROVE  /\ Pipe = Buffered \o fifo
         /\ fifo \in Seq(1 .. MaxBytes) /\ Buffered \in Seq(1 .. MaxBytes)
         /\ Len(Buffered) = Count(PipeHead, PipeTail)
         /\ Pipe \in Seq(1 .. MaxBytes) /\ Len(Pipe) = Len(Buffered) + Len(fifo)
         /\ \A i \in 1 .. Len(Pipe) :
              Pipe[i] = IF i <= Len(Buffered) THEN Buffered[i] ELSE fifo[i - Len(Buffered)]
<1>1. Pipe = Buffered \o fifo
  BY DEF Pipe, Buffered, PipeHead, PipeTail
<1>2. fifo \in Seq(1 .. MaxBytes)
  BY DEF Inv, TypeOK
<1>3. Buffered \in Seq(1 .. MaxBytes) /\ Len(Buffered) = Count(PipeHead, PipeTail)
  BY PipeSlots, ContentsType DEF Buffered
<1>. QED
  BY <1>1, <1>2, <1>3, ConcatProperties

\* The FIFO takes a byte from the line.
LEMMA AcceptStep ==
  ASSUME Inv, HwReceive
  PROVE  BytePipe!Accept
<1>1. /\ fifo' = Append(fifo, next) /\ next' = next + 1
      /\ UNCHANGED <<HeadIndex, TailIndex, slots, isr, request, deq, last>>
  BY DEF HwReceive, ring
<1>2. next \in Nat
  BY UartRxAssumption DEF Inv, TypeOK
<1>3. Buffered' = Buffered
  BY <1>1 DEF Buffered, PipeHead, PipeTail
<1>4. Pipe = Buffered \o fifo /\ fifo \in Seq(Nat) /\ Buffered \in Seq(Nat)
  BY PipeType, UartRxAssumption
<1>5. Pipe' = Buffered \o Append(fifo, next)
  BY <1>1, <1>3 DEF Pipe, Buffered, PipeHead, PipeTail
<1>6. [i \in 1 .. next' - next |-> next + i - 1] = <<next>>
  BY <1>1, <1>2
<1>7. Append(fifo, next) = fifo \o <<next>> /\ <<next>> \in Seq(Nat)
  BY <1>2, <1>4, AppendIsConcat
<1>8. (Buffered \o fifo) \o <<next>> = Buffered \o (fifo \o <<next>>)
  <2>. DEFINE B == Nat
              E == <<next>>
  <2>1. Buffered \in Seq(B) /\ fifo \in Seq(B) /\ E \in Seq(B)
    BY <1>4, <1>7
  <2>. HIDE DEF B, E
  <2>2. (Buffered \o fifo) \o E = Buffered \o (fifo \o E)
    BY <2>1, ConcatAssociative
  <2>. QED
    BY <2>2 DEF E
<1>9. Pipe' = Pipe \o [i \in 1 .. next' - next |-> next + i - 1]
  BY <1>4, <1>5, <1>6, <1>7, <1>8
<1>10. next' > next /\ UNCHANGED last
  BY <1>1, <1>2
<1>. QED
  BY <1>9, <1>10, Zenon DEF BytePipe!Accept

\* DequeueBytes gives SerCx2 the oldest bytes.
LEMMA DeliverStep ==
  ASSUME Inv, Copy
  PROVE  BytePipe!Deliver \/ UNCHANGED <<Pipe, next, last>>
<1>. TypeOK /\ RoutineInside /\ ReaderInside /\ BufferHoldsBytes
  BY DEF Inv, RingInv
<1>1. PICK k \in Nat :
           /\ k <= Count(deq.head, TailIndex)
           /\ k <= Count(HeadIndex, TailIndex)
           /\ k = DequeueCount(deq.head, TailIndex, request.left)
           /\ deq' = [deq EXCEPT !.tail = Advance(TailIndex, k)]
           /\ request' = [request EXCEPT !.pc = "release", !.left = request.left - k]
           /\ last' = IF k = 0 THEN last
                      ELSE Dequeued(slots, deq.head, TailIndex, request.left)[k]
  BY Copied
<1>2. At("copy") /\ UNCHANGED <<HeadIndex, TailIndex, slots, fifo, isr, next>>
  BY DEF Copy, ring
<1>3. /\ HeadIndex \in Slots /\ TailIndex \in Slots /\ PipeHead \in Slots
      /\ request \in Requests
  BY Types
<1>4. PipeTail = TailIndex /\ PipeTail' = Advance(TailIndex, k) /\ PipeHead' = PipeHead
  <2>1. request'.pc = "release"
    BY <1>1, <1>3 DEF Requests
  <2>2. deq'.tail = Advance(TailIndex, k)
    BY <1>1 DEF TypeOK
  <2>. QED
    BY <1>2, <2>1, <2>2 DEF PipeTail, PipeHead, At, ReaderInside
<1>. DEFINE n == Count(PipeHead, TailIndex)
            D == Contents(slots, PipeHead, Advance(TailIndex, k))
<1>5. n \in Nat /\ k <= n
  <2>1. Between(TailIndex, HeadIndex, PipeHead)
    BY <1>3, BetweenEnds, TailMoved
  <2>. QED
    BY <1>1, <1>3, <2>1, BetweenCount, CountInRange, SizeAssumption DEF Capacity
<1>6. /\ Pipe = Buffered \o fifo
      /\ fifo \in Seq(1 .. MaxBytes) /\ Buffered \in Seq(1 .. MaxBytes)
      /\ Len(Buffered) = n
      /\ Pipe \in Seq(1 .. MaxBytes) /\ Len(Pipe) = n + Len(fifo)
      /\ \A i \in 1 .. Len(Pipe) :
            Pipe[i] = IF i <= n THEN Buffered[i] ELSE fifo[i - n]
  BY <1>4, PipeType
<1>7. Pipe' = D \o fifo
  BY <1>2, <1>4 DEF Pipe, PipeHead, PipeTail
<1>8. /\ D \in Seq(1 .. MaxBytes) /\ Len(D) = n - k
      /\ \A i \in 1 .. n - k : D[i] = Buffered[k + i]
  <2>. DEFINE B == 1 .. MaxBytes
  <2>1. \A i \in 1 .. Count(PipeHead, TailIndex) : slots[Advance(TailIndex, i - 1)] \in B
    BY DEF BufferHoldsBytes
  <2>2. Buffered = Contents(slots, PipeHead, TailIndex)
    BY <1>4 DEF Buffered
  <2>3. k \in 0 .. Count(PipeHead, TailIndex)
    BY <1>5
  <2>5. Buffered \in Seq(B)
    BY <1>6
  <2>. HIDE DEF B
  <2>4. /\ D \in Seq(B) /\ Len(D) = n - k
        /\ \A i \in 1 .. n - k : D[i] = Buffered[k + i]
    BY <1>3, <2>1, <2>2, <2>3, <2>5, ContentsRest
  <2>. QED
    BY <2>4 DEF B
<1>. HIDE DEF D, n
<1>9. Len(fifo) \in Nat
  BY <1>6
<1>10. Pipe' = SubSeq(Pipe, k + 1, Len(Pipe))
  <2>. DEFINE S == SubSeq(Pipe, k + 1, Len(Pipe))
              C == D \o fifo
  <2>1. /\ C \in Seq(1 .. MaxBytes) /\ Len(C) = (n - k) + Len(fifo)
        /\ \A i \in 1 .. Len(C) : C[i] = IF i <= n - k THEN D[i] ELSE fifo[i - (n - k)]
    BY <1>6, <1>8, ConcatProperties
  <2>2. /\ S \in Seq(1 .. MaxBytes) /\ Len(S) = (n + Len(fifo)) - k
        /\ \A i \in 1 .. Len(S) : S[i] = Pipe[k + i]
    <3>. DEFINE m == k + 1
                l == Len(Pipe)
                B == 1 .. MaxBytes
    <3>1. m \in Int /\ l \in Int /\ \A i \in m .. l : Pipe[i] \in B
      <4>1. m \in Int /\ l \in Int /\ \A i \in m .. l : i \in 1 .. l
        BY <1>5, <1>6, <1>9
      <4>2. \A i \in 1 .. l : Pipe[i] \in B
        <5>1. Pipe \in Seq(B)
          BY <1>6
        <5>. QED
          BY <5>1, Zenon, ElementOfSeq
      <4>. QED
        BY <4>1, <4>2
    <3>2. l - m + 1 = (n + Len(fifo)) - k /\ \A i \in 1 .. l - m + 1 : m + i - 1 = k + i
      BY <1>5, <1>6, <1>9
    <3>3. IF m <= l THEN l - m + 1 >= 0 ELSE l - m + 1 = 0
      BY <1>5, <1>6, <1>9
    <3>. HIDE DEF m, l, B
    <3>4. /\ SubSeq(Pipe, m, l) \in Seq(B)
          /\ Len(SubSeq(Pipe, m, l)) = l - m + 1
          /\ \A i \in 1 .. l - m + 1 : SubSeq(Pipe, m, l)[i] = Pipe[m + i - 1]
      BY <3>1, <3>3, SubSeqProperties
    <3>5. S = SubSeq(Pipe, m, l)
      BY DEF m, l
    <3>. HIDE DEF S
    <3>. QED
      BY <3>2, <3>4, <3>5 DEF B
  <2>. HIDE DEF S, C
  <2>3. Len(C) = Len(S)
    BY <1>5, <1>9, <2>1, <2>2
  <2>4. ASSUME NEW i \in 1 .. Len(C) PROVE C[i] = S[i]
    <3>1. k + i \in 1 .. Len(Pipe) /\ S[i] = Pipe[k + i]
      BY <1>5, <1>6, <1>9, <2>1, <2>2, <2>3
    <3>2. CASE i <= n - k
      BY <1>5, <1>6, <1>8, <2>1, <3>1, <3>2
    <3>3. CASE i > n - k
      <4>1. C[i] = fifo[i - (n - k)] /\ S[i] = fifo[(k + i) - n] /\ i - (n - k) = (k + i) - n
        BY <1>5, <1>6, <1>9, <2>1, <3>1, <3>3
      <4>. QED
        BY <4>1
    <3>. QED
      BY <1>5, <2>1, <1>9, <3>2, <3>3
  <2>5. C = S
    BY <2>1, <2>2, <2>3, <2>4, SeqEqual
  <2>. QED
    BY <1>7, <2>5 DEF C, S
<1>11. CASE k = 0
  <2>1. Advance(TailIndex, 0) = TailIndex
    BY <1>3, AdvanceValue, SizeAssumption DEF Slots
  <2>. QED
    BY <1>1, <1>2, <1>4, <1>7, <1>11, <2>1 DEF D, Pipe, PipeHead, PipeTail
<1>12. CASE k > 0
  <2>1. last' = slots[Advance(TailIndex, k - 1)]
    BY <1>1, <1>2, <1>12, LastCopied
  <2>2. k \in 1 .. n /\ k \in 1 .. Len(Pipe)
    BY <1>5, <1>6, <1>9, <1>12
  <2>3. Buffered[k] = slots[Advance(TailIndex, k - 1)]
    BY <1>4, <2>2 DEF Buffered, Contents, n
  <2>4. last' = Pipe[k]
    BY <1>6, <2>1, <2>2, <2>3
  <2>. QED
    BY <1>2, <1>10, <2>2, <2>4 DEF BytePipe!Deliver
<1>. QED
  BY <1>11, <1>12

\* A purge discards what is in the FIFO, and what is in the buffer if that is reset.
LEMMA DiscardStep ==
  ASSUME Inv, PurgeFifos \/ CloseAndOpen
  PROVE  BytePipe!Discard \/ UNCHANGED <<Pipe, next, last>>
<1>1. /\ At("idle") /\ isr.pc = "off" /\ fifo' = <<>>
      /\ UNCHANGED <<slots, isr, request, deq, next, last>>
      /\ (HeadIndex' = 0 /\ TailIndex' = 0) \/ UNCHANGED <<HeadIndex, TailIndex>>
  BY DEF PurgeFifos, CloseAndOpen, Unlocked
<1>2. /\ Pipe = Buffered \o fifo
      /\ fifo \in Seq(1 .. MaxBytes) /\ Buffered \in Seq(1 .. MaxBytes)
      /\ Pipe \in Seq(1 .. MaxBytes) /\ Len(Pipe) = Len(Buffered) + Len(fifo)
      /\ \A i \in 1 .. Len(Pipe) :
            Pipe[i] = IF i <= Len(Buffered) THEN Buffered[i] ELSE fifo[i - Len(Buffered)]
  BY PipeType
<1>3. Len(fifo) \in Nat /\ Len(Buffered) \in Nat
  BY <1>2
<1>4. Buffered' = Buffered \/ Buffered' = <<>>
  <2>1. CASE UNCHANGED <<HeadIndex, TailIndex>>
    BY <1>1, <2>1 DEF Buffered, PipeHead, PipeTail
  <2>2. CASE HeadIndex' = 0 /\ TailIndex' = 0
    <3>1. 0 \in Slots
      BY SizeAssumption DEF Slots
    <3>2. Buffered' = Contents(slots, 0, 0)
      BY <1>1, <2>2 DEF Buffered, PipeHead, PipeTail, At
    <3>. QED
      BY <3>1, <3>2, ContentsEmpty
  <2>. QED
    BY <1>1, <2>1, <2>2
<1>5. Pipe' = Buffered'
  <2>1. Pipe' = Buffered' \o fifo'
    BY DEF Pipe, Buffered, PipeHead, PipeTail
  <2>2. Buffered' \in Seq(1 .. MaxBytes)
    BY <1>2, <1>4, EmptySeq
  <2>. QED
    BY <1>1, <2>1, <2>2, ConcatEmptySeq
<1>6. CASE Buffered' = Buffered
  <2>1. Buffered = SubSeq(Pipe, 1, Len(Buffered))
    BY <1>2, <1>3, SubSeqProperties, SeqEqual
  <2>2. CASE Len(fifo) = 0
    <3>1. fifo = <<>>
      BY <1>2, <2>2
    <3>2. Pipe = Buffered
      BY <1>2, <3>1, ConcatEmptySeq
    <3>. QED
      BY <1>1, <1>5, <1>6, <3>2
  <2>3. CASE Len(fifo) > 0
    <3>1. Len(Buffered) \in 0 .. Len(Pipe) - 1
      BY <1>2, <1>3, <2>3
    <3>. QED
      BY <1>1, <1>5, <1>6, <2>1, <3>1 DEF BytePipe!Discard
  <2>. QED
    BY <1>3, <2>2, <2>3
<1>7. CASE Buffered' = <<>>
  <2>1. CASE Len(Pipe) = 0
    <3>1. Pipe = <<>>
      BY <1>2, <2>1
    <3>. QED
      BY <1>1, <1>5, <1>7, <3>1
  <2>2. CASE Len(Pipe) > 0
    <3>1. 0 \in 0 .. Len(Pipe) - 1
      BY <1>2, <1>3, <2>2
    <3>2. SubSeq(Pipe, 1, 0) = <<>>
      BY SubSeqEmpty
    <3>. QED
      BY <1>1, <1>5, <1>7, <3>1, <3>2 DEF BytePipe!Discard
  <2>. QED
    BY <1>2, <1>3, <2>1, <2>2
<1>. QED
  BY <1>4, <1>6, <1>7

\* The routine takes the byte from the front of the FIFO to the end of the buffer.
LEMMA MoveInside ==
  ASSUME Inv, IsrMove
  PROVE  UNCHANGED <<Pipe, next, last>>
<1>. TypeOK /\ RoutineInside
  BY DEF Inv, RingInv
<1>1. /\ isr.pc = "move" /\ fifo # <<>> /\ ~ IsrFull
      /\ slots' = [slots EXCEPT ![isr.head] = Head(fifo)]
      /\ fifo' = Tail(fifo)
      /\ isr' = [isr EXCEPT !.head = NextHead]
      /\ UNCHANGED <<HeadIndex, TailIndex, request, deq, next, last>>
  BY DEF IsrMove
<1>2. PipeHead = isr.head /\ PipeHead' = Advance(PipeHead, 1) /\ PipeTail' = PipeTail
  BY <1>1 DEF PipeHead, PipeTail, TypeOK, NextHead
<1>3. /\ PipeHead \in Slots /\ PipeTail \in Slots
      /\ \A i \in 1 .. Count(PipeHead, PipeTail) : slots[Advance(PipeTail, i - 1)] \in 1 .. MaxBytes
      /\ Count(PipeHead, PipeTail) <= Count(PipeHead, TailIndex)
  BY PipeSlots
<1>4. Count(PipeHead, PipeTail) < Capacity
  <2>1. Count(PipeHead, TailIndex) < Capacity
    BY <1>1, <1>2, RoutineRoom
  <2>2. Count(PipeHead, TailIndex) \in Nat /\ Count(PipeHead, PipeTail) \in Nat /\ Capacity \in Nat
    BY <1>3, Types, CountInRange, SizeAssumption DEF Capacity
  <2>. QED
    BY <1>3, <2>1, <2>2
<1>. DEFINE B == 1 .. MaxBytes
            E == <<Head(fifo)>>
<1>5. fifo \in Seq(B) /\ Buffered \in Seq(B) /\ Pipe = Buffered \o fifo
  BY PipeType
<1>6. /\ Head(fifo) \in B /\ Tail(fifo) \in Seq(B) /\ E \in Seq(B) /\ Len(E) = 1
      /\ E[1] = Head(fifo)
  <2>. HIDE DEF B
  <2>. QED
    BY <1>1, <1>5, HeadTailProperties
<1>7. ASSUME NEW i \in 1 .. Count(PipeHead, PipeTail)
      PROVE  slots'[Advance(PipeTail, i - 1)] = slots[Advance(PipeTail, i - 1)]
  <2>1. Advance(PipeTail, i - 1) # PipeHead
    BY <1>3, HeadNotInUse
  <2>2. Advance(PipeTail, i - 1) \in Slots
    <3>1. i - 1 \in 0 .. Size
      BY <1>3, CountInRange, SizeAssumption DEF Capacity
    <3>. QED
      BY <1>3, <3>1, AdvanceInSlots
  <2>. QED
    BY <1>1, <1>2, <2>1, <2>2 DEF TypeOK
<1>8. Contents(slots', PipeHead, PipeTail) = Buffered
  BY <1>7 DEF Contents, Buffered
<1>9. slots'[PipeHead] = Head(fifo)
  BY <1>1, <1>2, <1>3 DEF TypeOK
<1>10. Contents(slots', Advance(PipeHead, 1), PipeTail) = Append(Buffered, Head(fifo))
  <2>1. Contents(slots', Advance(PipeHead, 1), PipeTail)
          = Append(Contents(slots', PipeHead, PipeTail), slots'[PipeHead])
    BY <1>3, <1>4, ContentsOneMore
  <2>. QED
    BY <1>8, <1>9, <2>1
<1>11. Pipe' = (Buffered \o E) \o Tail(fifo)
  <2>1. Pipe' = Contents(slots', PipeHead', PipeTail') \o fifo'
    BY DEF Pipe, PipeHead, PipeTail
  <2>2. Append(Buffered, Head(fifo)) = Buffered \o E
    <3>. HIDE DEF B
    <3>. QED
      BY <1>5, <1>6, AppendIsConcat
  <2>. QED
    BY <1>1, <1>2, <1>10, <2>1, <2>2
<1>12. fifo = E \o Tail(fifo)
  <2>. HIDE DEF B
  <2>. QED
    BY <1>1, <1>5, <1>6, HeadTailProperties, ConcatProperties, SeqEqual
<1>. HIDE DEF B, E
<1>13. (Buffered \o E) \o Tail(fifo) = Buffered \o (E \o Tail(fifo))
  <2>. DEFINE u == Tail(fifo)
              s == Buffered
  <2>1. s \in Seq(B) /\ E \in Seq(B) /\ u \in Seq(B)
    BY <1>5, <1>6
  <2>. HIDE DEF u, s
  <2>2. (s \o E) \o u = s \o (E \o u)
    BY ONLY <2>1, ConcatAssociative
  <2>. QED
    BY <2>2 DEF u, s
<1>. QED
  BY <1>1, <1>5, <1>11, <1>12, <1>13

\* The other steps leave every byte where it is, or move both ends of the pipe's view
\* of the buffer together with the indices.
LEMMA OtherSteps ==
  ASSUME Inv, Control \/ HwAge \/ IsrEnter \/ IsrMoved \/ Dequeue \/ Release \/ UNCHANGED vars
  PROVE  UNCHANGED <<Pipe, next, last>>
<1>. TypeOK /\ request \in Requests /\ isr \in Routines
  BY Types DEF Inv
<1>1. CASE Control
  <2>1. UNCHANGED <<HeadIndex, TailIndex, slots, fifo, isr, deq, next, last>>
    BY <1>1 DEF Control, Dpc, Read, ReadBuffer, EnableReadyNotification, ReadyInline,
                CancelReadyNotification, DpcStart, DpcReady, ring
  <2>2. request.pc \notin {"copy", "release"} => request'.pc \notin {"copy", "release"}
    BY <1>1 DEF Control, Dpc, Read, ReadBuffer, EnableReadyNotification, ReadyInline,
                CancelReadyNotification, DpcStart, DpcReady, ReceiveReady, Answered, Idle, Goto, Requests
  <2>3. request.pc \in {"copy", "release"} => request' = request \/ RxState = "WAITING_FOR_DPC"
    BY <1>1 DEF Control, Dpc, Read, ReadBuffer, EnableReadyNotification, ReadyInline,
                CancelReadyNotification, DpcStart, DpcReady, At
  <2>4. RxState = "WAITING_FOR_DPC" => request.pc = "ready"
    BY DEF Inv, StatesMatch, Waiting, At
  <2>. QED
    BY <2>1, <2>2, <2>3, <2>4 DEF Pipe
<1>2. CASE IsrEnter \/ IsrMoved
  <2>1. UNCHANGED <<TailIndex, slots, fifo, request, deq, next, last>>
    BY <1>2 DEF IsrEnter, IsrMoved, ring
  <2>2. PipeHead' = PipeHead
    BY <1>2 DEF IsrEnter, IsrMoved, PipeHead, Routines, ring
  <2>. QED
    BY <2>1, <2>2 DEF Pipe, PipeHead
<1>3. CASE Dequeue \/ Release
  <2>1. UNCHANGED <<HeadIndex, slots, fifo, isr, next, last>>
    BY <1>3 DEF Dequeue, Release
  <2>2. PipeTail' = PipeTail
    BY <1>3 DEF Dequeue, Release, TailWhileCopying, PipeTail, At, Goto, Answered, Idle, Requests
  <2>. QED
    BY <2>1, <2>2 DEF Pipe, PipeTail
<1>4. CASE HwAge \/ UNCHANGED vars
  BY <1>4 DEF HwAge, vars, ring, Pipe
<1>. QED
  BY <1>1, <1>2, <1>3, <1>4

\* Every step is one of BytePipe or a stutter.
LEMMA PipeStep ==
  ASSUME Inv, [Next]_vars
  PROVE  [BytePipe!Next]_<<Pipe, next, last>>
<1>1. CASE HwReceive
  BY <1>1, AcceptStep DEF BytePipe!Next
<1>2. CASE Copy
  BY <1>2, DeliverStep DEF BytePipe!Next
<1>3. CASE PurgeFifos \/ CloseAndOpen
  BY <1>3, DiscardStep DEF BytePipe!Next
<1>4. CASE IsrMove
  BY <1>4, MoveInside
<1>5. CASE Control \/ HwAge \/ IsrEnter \/ IsrMoved \/ Dequeue \/ Release \/ UNCHANGED vars
  BY <1>5, OtherSteps
<1>. QED
  BY <1>1, <1>2, <1>3, <1>4, <1>5 DEF Next, Isr, Reading, Control

\* Reception implements BytePipe: SerCx2 is given the bytes in the order in which the FIFO
\* took them from the line, none twice, and none is missing but the newest at a purge,
\* although the interrupt fills the buffer while DequeueBytes empties it without a lock
\* (imxuart.cpp:99-146, 188-230).
THEOREM ReceptionInOrder == Spec => ReceivesInOrder
<1>1. Init => BytePipe!Init
  <2>. SUFFICES ASSUME Init PROVE BytePipe!Init
    OBVIOUS
  <2>1. 0 \in Slots
    BY SizeAssumption DEF Slots
  <2>2. Pipe = Contents(slots, 0, 0) \o <<>>
    BY DEF Init, Idle, Pipe
  <2>3. Pipe = <<>>
    BY <2>1, <2>2, ContentsEmpty
  <2>. QED
    BY <2>3 DEF Init, BytePipe!Init
<1>2. Inv /\ [Next]_vars => [BytePipe!Next]_<<Pipe, next, last>>
  BY PipeStep
<1>. QED
  BY <1>1, <1>2, Invariance, PTL DEF Spec, ReceivesInOrder, BytePipe!Spec
=============================================================================
