---------------------------- MODULE UartTxProofs ----------------------------
(***************************************************************************)
(* Theorems about programmed transmission, for every size of the buffer    *)
(* and the FIFO, every level and threshold, any number and length of       *)
(* requests, and whether or not the FIFO may run dry.                      *)
(***************************************************************************)
EXTENDS UartTx, SequenceTheorems, TLAPS

-----------------------------------------------------------------------------
(* The byte ring (UartRing), for every size of the buffer. *)

\* The sum of a slot and at most Size, taken modulo Size, without the modulo.
LEMMA AdvanceValue ==
  ASSUME NEW i \in Slots, NEW n \in 0 .. Size
  PROVE  Advance(i, n) = IF i + n >= Size THEN i + n - Size ELSE i + n
<1>1. Size \in Nat /\ Size > 1 /\ i \in Nat /\ n \in Nat /\ i < Size /\ n <= Size
  BY SizeAssumption DEF Slots
<1>2. CASE i + n < Size
  BY <1>1, <1>2 DEF Advance
<1>3. CASE i + n >= Size
  <2>1. (i + n - Size) % Size = i + n - Size
    BY <1>1, <1>3
  <2>2. (i + n) % Size = (i + n - Size) % Size
    BY <1>1, <1>3
  <2>. QED
    BY <1>1, <1>3, <2>1, <2>2 DEF Advance
<1>. QED
  BY <1>1, <1>2, <1>3

\* The test for a full buffer, without the modulo.
LEMMA FullValue ==
  ASSUME NEW head \in Slots, NEW tail \in Slots
  PROVE  Full(head, tail) <=> tail = IF head + 1 >= Size THEN head + 1 - Size ELSE head + 1
<1>1. 1 \in 0 .. Size
  BY SizeAssumption
<1>. QED
  BY <1>1, AdvanceValue DEF Full

\* EnqueueBytes takes as many bytes as there is room for, whichever way the free
\* mem are split by the end of the storage; one slot always stays free.
THEOREM EnqueueFillsRoom ==
  ASSUME NEW head \in Slots, NEW tail \in Slots, NEW n \in Nat
  PROVE  EnqueueCount(head, tail, n) = Least(n, Capacity - Count(head, tail))
  BY FullValue, SizeAssumption
  DEF EnqueueCount, EnqueueFirst, EnqueueSecond, Least, Capacity, Count, Slots

\* The new head is a slot, and exactly the enqueued bytes have been added.
LEMMA CountAfterEnqueue ==
  ASSUME NEW head \in Slots, NEW tail \in Slots, NEW k \in 0 .. Capacity - Count(head, tail)
  PROVE  /\ Advance(head, k) \in Slots
         /\ Count(Advance(head, k), tail) = Count(head, tail) + k
<1>1. Count(head, tail) \in 0 .. Capacity /\ k \in 0 .. Size
  BY SizeAssumption DEF Count, Capacity, Slots
<1>2. Advance(head, k) = IF head + k >= Size THEN head + k - Size ELSE head + k
  BY <1>1, AdvanceValue
<1>. QED
  BY <1>1, <1>2, SizeAssumption DEF Count, Capacity, Slots

\* The new tail is a slot, and exactly the dequeued bytes are gone.
LEMMA CountAfterDequeue ==
  ASSUME NEW head \in Slots, NEW tail \in Slots, NEW k \in 0 .. Count(head, tail)
  PROVE  /\ Advance(tail, k) \in Slots
         /\ Count(head, Advance(tail, k)) = Count(head, tail) - k
<1>1. Count(head, tail) \in 0 .. Capacity /\ k \in 0 .. Size
  BY SizeAssumption DEF Count, Capacity, Slots
<1>2. Advance(tail, k) = IF tail + k >= Size THEN tail + k - Size ELSE tail + k
  BY <1>1, AdvanceValue
<1>. QED
  BY <1>1, <1>2, SizeAssumption DEF Count, Capacity, Slots

\* What the buffer holds after EnqueueBytes: the old bytes, untouched and in their
\* places, and behind them the new ones in the order they were given.
THEOREM EnqueueAppends ==
  ASSUME NEW head \in Slots, NEW tail \in Slots, NEW B, NEW mem \in [Slots -> B],
         NEW bytes \in Seq(B)
  PROVE  LET k == EnqueueCount(head, tail, Len(bytes))
             after == Enqueued(mem, head, tail, bytes)
         IN  /\ \A i \in 1 .. Count(head, tail) :
                  after[Advance(tail, i - 1)] = mem[Advance(tail, i - 1)]
             /\ \A i \in 1 .. k : after[Advance(head, i - 1)] = bytes[i]
<1>. DEFINE n == Len(bytes)
            first == EnqueueFirst(head, tail, n)
            second == EnqueueSecond(head, tail, n)
            after == Enqueued(mem, head, tail, bytes)
<1>1. n \in Nat
  OBVIOUS
<1>3. /\ first \in Nat /\ second \in Nat
      /\ head + first <= Size
      /\ second > 0 => head >= tail /\ second < tail /\ head + first = Size
      /\ head >= tail /\ first > 0 /\ tail = 0 => head + first < Size
      /\ head < tail => head + first < tail
  BY <1>1, FullValue, SizeAssumption DEF EnqueueFirst, EnqueueSecond, Least, Slots
<1>4. Count(head, tail) \in 0 .. Size - 1
  BY SizeAssumption DEF Count, Slots
<1>. HIDE DEF n, first, second
<1>5. after = [s \in Slots |-> IF s \in head .. head + first - 1 THEN bytes[s - head + 1]
                               ELSE IF s < second THEN bytes[first + s + 1]
                               ELSE mem[s]]
  BY DEF Enqueued, first, second, n
<1>. HIDE DEF after
<1>6. ASSUME NEW i \in 1 .. Count(head, tail)
      PROVE  after[Advance(tail, i - 1)] = mem[Advance(tail, i - 1)]
  <2>. DEFINE s == Advance(tail, i - 1)
  <2>1. s = IF tail + (i - 1) >= Size THEN tail + (i - 1) - Size ELSE tail + (i - 1)
    BY <1>4, AdvanceValue, SizeAssumption
  <2>2. s \in Slots /\ s \notin head .. head + first - 1 /\ ~ (s < second)
    BY <1>3, <1>4, <2>1, SizeAssumption DEF Count, Slots
  <2>. QED
    BY <1>5, <2>2
<1>7. ASSUME NEW i \in 1 .. first + second
      PROVE  after[Advance(head, i - 1)] = bytes[i]
  <2>. DEFINE s == Advance(head, i - 1)
  <2>1. i - 1 \in 0 .. Size
    BY <1>3, SizeAssumption DEF Slots
  <2>2. s = IF head + (i - 1) >= Size THEN head + (i - 1) - Size ELSE head + (i - 1)
    BY <2>1, AdvanceValue
  <2>3. CASE i <= first
    <3>1. s \in Slots /\ s \in head .. head + first - 1 /\ s - head + 1 = i
      BY <1>3, <2>2, <2>3, SizeAssumption DEF Slots
    <3>. QED
      BY <1>5, <3>1
  <2>4. CASE i > first
    <3>1. s = i - first - 1 /\ s \in Slots /\ s \notin head .. head + first - 1 /\ s < second
      BY <1>3, <2>2, <2>4, SizeAssumption DEF Slots
    <3>2. first + s + 1 = i
      BY <1>3, <3>1
    <3>. QED
      BY <1>5, <3>1, <3>2
  <2>. QED
    BY <1>3, <2>3, <2>4
<1>. QED
  BY <1>6, <1>7 DEF EnqueueCount, first, second, n, after

\* EnqueueBytes stores nothing but the bytes it is given.
LEMMA EnqueuedType ==
  ASSUME NEW head \in Slots, NEW tail \in Slots, NEW B, NEW mem \in [Slots -> B],
         NEW bytes \in Seq(B)
  PROVE  Enqueued(mem, head, tail, bytes) \in [Slots -> B]
<1>. DEFINE n == Len(bytes)
            first == EnqueueFirst(head, tail, n)
            second == EnqueueSecond(head, tail, n)
<1>. n \in Nat
  OBVIOUS
<1>1. first \in Nat /\ second \in Nat /\ first + second <= n
  <2>. HIDE DEF n
  <2>. QED
    BY FullValue, SizeAssumption DEF EnqueueFirst, EnqueueSecond, Least, Slots
<1>. HIDE DEF first, second
<1>2. ASSUME NEW s \in Slots
      PROVE  /\ s \in head .. head + first - 1 => bytes[s - head + 1] \in B
             /\ s < second => bytes[first + s + 1] \in B
             /\ mem[s] \in B
  BY <1>1, SizeAssumption DEF Slots
<1>. QED
  BY <1>2 DEF Enqueued, first, second

-----------------------------------------------------------------------------
(* What moving an index does to the contents of the buffer. *)

\* The index of each byte the buffer holds is a slot.
LEMMA AdvanceInSlots ==
  ASSUME NEW i \in Slots, NEW n \in 0 .. Size
  PROVE  Advance(i, n) \in Slots
  BY AdvanceValue, SizeAssumption DEF Slots

\* Index arithmetic is associative as long as it stays within the buffer.
LEMMA AdvanceTwice ==
  ASSUME NEW i \in Slots, NEW m \in 0 .. Size, NEW n \in 0 .. Size, m + n <= Size
  PROVE  Advance(Advance(i, m), n) = Advance(i, m + n)
<1>. DEFINE j == Advance(i, m)
<1>1. j \in Slots /\ j = IF i + m >= Size THEN i + m - Size ELSE i + m
  BY AdvanceInSlots, AdvanceValue
<1>2. m + n \in 0 .. Size
  BY SizeAssumption
<1>3. Advance(i, m + n) = IF i + (m + n) >= Size THEN i + (m + n) - Size ELSE i + (m + n)
  BY <1>2, AdvanceValue
<1>. HIDE DEF j
<1>4. Advance(j, n) = IF j + n >= Size THEN j + n - Size ELSE j + n
  BY <1>1, AdvanceValue
<1>5. Advance(j, n) = Advance(i, m + n)
  BY <1>1, <1>3, <1>4, SizeAssumption DEF Slots
<1>. QED
  BY <1>5 DEF j

\* The bytes in the buffer never outnumber its capacity.
LEMMA CountInRange ==
  ASSUME NEW head \in Slots, NEW tail \in Slots
  PROVE  Count(head, tail) \in 0 .. Capacity /\ (Count(head, tail) = 0 <=> head = tail)
  BY SizeAssumption DEF Count, Capacity, Slots

\* The head is as far from the tail as the buffer holds bytes.
LEMMA AdvanceCount ==
  ASSUME NEW head \in Slots, NEW tail \in Slots
  PROVE  Advance(tail, Count(head, tail)) = head
<1>. DEFINE n == Count(head, tail)
<1>1. n \in 0 .. Size
  BY CountInRange, SizeAssumption DEF Capacity
<1>2. Advance(tail, n) = IF tail + n >= Size THEN tail + n - Size ELSE tail + n
  BY <1>1, AdvanceValue
<1>. QED
  BY <1>2, SizeAssumption DEF Count, Slots

\* The mem from the head on are further mem of the tail's.
LEMMA SlotsBeyond ==
  ASSUME NEW head \in Slots, NEW tail \in Slots, NEW k \in 0 .. Size - Count(head, tail)
  PROVE  \A i \in 1 .. k : Advance(head, i - 1) = Advance(tail, (Count(head, tail) + i) - 1)
<1>. DEFINE n == Count(head, tail)
<1>1. n \in Nat /\ n < Size /\ n + k <= Size /\ Size \in Nat /\ k \in Nat
  BY CountInRange, SizeAssumption DEF Capacity
<1>2. head = Advance(tail, n)
  BY AdvanceCount
<1>. HIDE DEF n
<1>3. ASSUME NEW i \in 1 .. k PROVE Advance(head, i - 1) = Advance(tail, (n + i) - 1)
  <2>1. n \in 0 .. Size /\ i - 1 \in 0 .. Size /\ n + (i - 1) <= Size /\ n + (i - 1) = (n + i) - 1
    BY <1>1
  <2>. QED
    BY <1>2, <2>1, AdvanceTwice
<1>. QED
  BY <1>3 DEF n

\* The buffer's contents are a sequence of what is stored in the mem.
LEMMA ContentsType ==
  ASSUME NEW head \in Slots, NEW tail \in Slots, NEW B, NEW mem,
         \A i \in 1 .. Count(head, tail) : mem[Advance(tail, i - 1)] \in B
  PROVE  /\ Contents(mem, head, tail) \in Seq(B)
         /\ Len(Contents(mem, head, tail)) = Count(head, tail)
         /\ \A i \in 1 .. Count(head, tail) :
              Contents(mem, head, tail)[i] = mem[Advance(tail, i - 1)]
<1>1. Count(head, tail) \in Nat
  BY CountInRange, SizeAssumption DEF Capacity
<1>. QED
  BY <1>1 DEF Contents

\* The oldest byte is stored where the tail is, and the others where the next tail is.
LEMMA OldestStored ==
  ASSUME NEW head \in Slots, NEW tail \in Slots, head # tail, NEW B, NEW mem,
         \A i \in 1 .. Count(head, tail) : mem[Advance(tail, i - 1)] \in B
  PROVE  /\ mem[tail] \in B
         /\ \A i \in 1 .. Count(head, tail) - 1 :
              mem[Advance(Advance(tail, 1), i - 1)] = mem[Advance(tail, (i + 1) - 1)]
         /\ Contents(mem, head, Advance(tail, 1)) \in Seq(B)
<1>. DEFINE n == Count(head, tail)
            one == Advance(tail, 1)
<1>1. n \in Nat /\ n > 0 /\ n < Size /\ Size \in Nat
  BY CountInRange, SizeAssumption DEF Capacity
<1>2. one \in Slots /\ Count(head, one) = n - 1
  BY <1>1, CountAfterDequeue
<1>3. mem[tail] \in B
  <2>1. Advance(tail, 0) = tail
    BY <1>1, AdvanceValue DEF Slots
  <2>. QED
    BY <1>1, <2>1
<1>4. ASSUME NEW i \in 1 .. n - 1 PROVE Advance(one, i - 1) = Advance(tail, (i + 1) - 1)
  <2>1. 1 \in 0 .. Size /\ i - 1 \in 0 .. Size /\ 1 + (i - 1) <= Size /\ 1 + (i - 1) = (i + 1) - 1
    BY <1>1
  <2>. QED
    BY <2>1, AdvanceTwice
<1>5. \A i \in 1 .. n - 1 : mem[Advance(one, i - 1)] \in B
  BY <1>1, <1>4
<1>6. Contents(mem, head, one) \in Seq(B)
  <2>. HIDE DEF one, n
  <2>. QED
    BY <1>1, <1>2, <1>5, ContentsType
<1>. QED
  BY <1>3, <1>4, <1>6

\* Taking the oldest byte leaves the others.
LEMMA ContentsOldest ==
  ASSUME NEW head \in Slots, NEW tail \in Slots, head # tail, NEW B, NEW mem,
         \A i \in 1 .. Count(head, tail) : mem[Advance(tail, i - 1)] \in B,
         NEW E \in Seq(B), E = <<mem[tail]>>
  PROVE  Contents(mem, head, tail) = E \o Contents(mem, head, Advance(tail, 1))
<1>. DEFINE n == Count(head, tail)
            one == Advance(tail, 1)
            C == Contents(mem, head, tail)
            D == Contents(mem, head, one)
<1>1. n \in Nat /\ n > 0 /\ n < Size /\ Size \in Nat
  BY CountInRange, SizeAssumption DEF Capacity
<1>2. one \in Slots /\ Count(head, one) = n - 1
  BY <1>1, CountAfterDequeue
<1>3. \A i \in 1 .. n - 1 : mem[Advance(one, i - 1)] = mem[Advance(tail, (i + 1) - 1)]
  BY OldestStored
<1>4. D \in Seq(B)
  BY OldestStored
<1>5. Len(D) = n - 1 /\ \A i \in 1 .. n - 1 : D[i] = mem[Advance(one, i - 1)]
  <2>1. D = [i \in 1 .. n - 1 |-> mem[Advance(one, i - 1)]]
    BY <1>2 DEF Contents
  <2>. HIDE DEF D, one, n
  <2>. QED
    BY <1>1, <2>1
<1>6. /\ C \in Seq(B) /\ Len(C) = n
      /\ \A i \in 1 .. n : C[i] = mem[Advance(tail, i - 1)]
  BY <1>1 DEF Contents
<1>7. Len(E) = 1 /\ E[1] = C[1]
  <2>1. Advance(tail, 0) = tail
    BY <1>1, AdvanceValue DEF Slots
  <2>. QED
    BY <1>1, <1>6, <2>1
<1>8. \A i \in 2 .. n : C[i] = D[i - 1]
  <2>. TAKE i \in 2 .. n
  <2>1. i - 1 \in 1 .. n - 1 /\ i \in 1 .. n /\ ((i - 1) + 1) - 1 = i - 1
    BY <1>1
  <2>2. D[i - 1] = mem[Advance(tail, ((i - 1) + 1) - 1)]
    BY <1>3, <1>5, <2>1
  <2>. QED
    BY <1>6, <2>1, <2>2
<1>. HIDE DEF C, D, n, one
<1>9. /\ E \o D \in Seq(B) /\ Len(E \o D) = n
      /\ \A i \in 1 .. n : (E \o D)[i] = IF i <= 1 THEN E[i] ELSE D[i - 1]
  BY <1>1, <1>4, <1>5, <1>7, ConcatProperties
<1>10. \A i \in 1 .. n : (E \o D)[i] = C[i]
  BY <1>1, <1>7, <1>8, <1>9
<1>11. C = E \o D
  BY <1>6, <1>9, <1>10, SeqEqual
<1>. QED
  BY <1>11 DEF C, D, one

\* Moving the head over mem that have been filled adds their bytes behind the others.
LEMMA ContentsNewest ==
  ASSUME NEW head \in Slots, NEW tail \in Slots, NEW k \in 0 .. Capacity - Count(head, tail),
         NEW B, NEW mem, NEW E \in Seq(B), Len(E) = k,
         \A i \in 1 .. Count(head, tail) : mem[Advance(tail, i - 1)] \in B,
         \A i \in 1 .. k : mem[Advance(head, i - 1)] = E[i]
  PROVE  Contents(mem, Advance(head, k), tail) = Contents(mem, head, tail) \o E
<1>. DEFINE n == Count(head, tail)
            new == Advance(head, k)
            C == Contents(mem, head, tail)
            D == Contents(mem, new, tail)
<1>1. n \in Nat /\ n + k < Size /\ Size \in Nat /\ k \in Nat
  BY CountInRange, SizeAssumption DEF Capacity
<1>2. new \in Slots /\ Count(new, tail) = n + k
  BY CountAfterEnqueue
<1>4. \A i \in 1 .. k : Advance(head, i - 1) = Advance(tail, (n + i) - 1)
  <2>1. k \in 0 .. Size - Count(head, tail)
    BY <1>1
  <2>. QED
    BY <2>1, SlotsBeyond, Zenon
<1>5. E \in Seq(B) /\ Len(E) = k /\ \A i \in 1 .. k : E[i] = mem[Advance(head, i - 1)]
  BY <1>1
<1>6. /\ C \in Seq(B) /\ Len(C) = n
      /\ \A i \in 1 .. n : C[i] = mem[Advance(tail, i - 1)]
  BY <1>1 DEF Contents
<1>. HIDE DEF C, n, new
<1>. DEFINE CE == C \o E
<1>7. /\ CE \in Seq(B) /\ Len(CE) = n + k
      /\ \A i \in 1 .. n + k : CE[i] = IF i <= n THEN C[i] ELSE E[i - n]
  BY <1>5, <1>6, ConcatProperties
<1>. HIDE DEF CE
<1>8. ASSUME NEW i \in 1 .. n + k PROVE mem[Advance(tail, i - 1)] = CE[i]
  <2>1. CASE i <= n
    BY <1>1, <1>6, <1>7, <2>1
  <2>2. CASE i > n
    <3>1. i - n \in 1 .. k /\ (n + (i - n)) - 1 = i - 1
      BY <1>1, <2>2
    <3>2. CE[i] = E[i - n]
      BY <1>1, <1>7, <2>2
    <3>3. E[i - n] = mem[Advance(tail, (n + (i - n)) - 1)]
      BY <1>4, <1>5, <3>1
    <3>. QED
      BY <3>1, <3>2, <3>3
  <2>. QED
    BY <1>1, <2>1, <2>2
<1>9. /\ D \in Seq(B) /\ Len(D) = n + k
      /\ \A i \in 1 .. n + k : D[i] = CE[i]
  <2>1. \A i \in 1 .. n + k : CE[i] \in B
    BY <1>1, <1>7
  <2>2. D = [i \in 1 .. n + k |-> mem[Advance(tail, i - 1)]]
    BY <1>2 DEF Contents
  <2>3. D = [i \in 1 .. n + k |-> CE[i]]
    BY <1>8, <2>2
  <2>4. n + k \in Nat
    BY <1>1
  <2>. QED
    BY <2>1, <2>3, <2>4
<1>. HIDE DEF D
<1>10. D = CE
  BY <1>7, <1>9, SeqEqual
<1>. QED
  BY <1>10 DEF C, D, CE, new, n

\* A buffer whose indices are equal is empty.
LEMMA ContentsEmpty ==
  ASSUME NEW i \in Slots, NEW mem
  PROVE  Contents(mem, i, i) = <<>>
<1>1. Count(i, i) = 0
  BY SizeAssumption DEF Count, Slots
<1>. QED
  BY <1>1 DEF Contents

-----------------------------------------------------------------------------
Waiting == {"WAITING_FOR_INTERRUPT", "WAITING_FOR_DPC"}

\* A notification is pending in the driver only while SerCx2 waits for it.
StatesMatch ==
  /\ TxState \in Waiting => At("ready")
  /\ TxDrainState \in Waiting => At("drained")
  /\ TxPurgeState \in Waiting => At("purged")
  /\ TxPurgeState \in Waiting \cup {"STOPPED"}

\* The bytes of a request stay within the bounds, whoever has taken how many.
RequestInBounds ==
  /\ request.left + request.done <= MaxLength
  /\ next + request.left <= MaxBytes + 1

\* The routine is between the tail it has read and the head it has read, and the
\* writer has only moved its head further on.
RoutineInside ==
  isr.pc = "move" =>
    /\ Count(isr.tail, TailIndex) + Count(isr.head, isr.tail) = Count(isr.head, TailIndex)
    /\ Count(isr.head, TailIndex) <= Count(HeadIndex, TailIndex)

\* Bytes go past the buffer only while it is empty.
PastTheBuffer == At("fifo") => HeadIndex = TailIndex

\* What EnqueueBytes has copied and not yet published lies behind the head, in order,
\* and nobody has taken its room.
CopiedNotPublished ==
  At("publish") =>
    /\ Count(HeadIndex, TailIndex) + Count(newHead, HeadIndex) <= Capacity
    /\ Count(newHead, HeadIndex) <= request.left
    /\ \A i \in 1 .. Count(newHead, HeadIndex) : slots[Advance(HeadIndex, i - 1)] = next + i - 1

\* Every slot between the tail and the head has been filled.
BufferHoldsBytes ==
  \A i \in 1 .. Count(HeadIndex, TailIndex) : slots[Advance(TailIndex, i - 1)] \in 1 .. MaxBytes

RingInv == RoutineInside /\ PastTheBuffer /\ CopiedNotPublished /\ BufferHoldsBytes

Inv == TypeOK /\ StatesMatch /\ RequestInBounds /\ RingInv

-----------------------------------------------------------------------------
(* Steps of the request.                                                   *)

PCs == {"idle", "write", "fifo", "enqueue", "publish", "trdy", "return", "enable",
        "ready", "drain", "drained", "purge", "purged"}
Requests == [pc: PCs, left: 0 .. MaxLength, done: 0 .. MaxLength, cancelled: BOOLEAN]
DpcStates == [queued: BOOLEAN, pc: {"off", "ready", "drained", "purged"}]

\* The type of the request by itself.
LEMMA RequestType == TypeOK => request \in Requests
  BY DEF TypeOK, Requests, PCs

\* The steps that accept no byte keep the request's counts or end the request.
LEMMA RequestMoves ==
  ASSUME TypeOK, RequestInBounds, UNCHANGED next,
         \/ Answered
         \/ Purging
         \/ \E pc \in PCs : Goto(pc)
         \/ request' = [request EXCEPT !.cancelled = TRUE]
         \/ UNCHANGED request
  PROVE  request' \in Requests /\ RequestInBounds'
<1>1. request \in Requests /\ next \in Nat /\ next <= MaxBytes + 1
  BY RequestType, UartTxAssumption, SMTT(30) DEF TypeOK
<1>2. CASE Answered
  BY <1>1, <1>2, UartTxAssumption DEF Answered, Idle, Requests, PCs, RequestInBounds
<1>3. CASE ~ Answered
  BY <1>1, <1>3 DEF Purging, Goto, Requests, PCs, RequestInBounds
<1>. QED
  BY <1>2, <1>3

\* A step that neither moves an index nor stores a byte, and that neither enters the
\* routine nor the two places of WriteBuffer at which the buffer is looked at.
LEMMA RingUntouched ==
  ASSUME RingInv, UNCHANGED <<ring, newHead, next>>,
         isr' = isr \/ isr'.pc # "move",
         request' = request \/ request'.pc \notin {"fifo", "publish"}
  PROVE  RingInv'
<1>. USE DEF RingInv, ring
<1>1. RoutineInside'
  BY DEF RoutineInside
<1>2. PastTheBuffer'
  BY DEF PastTheBuffer, At
<1>3. CopiedNotPublished'
  BY DEF CopiedNotPublished, At
<1>4. BufferHoldsBytes'
  BY DEF BufferHoldsBytes
<1>. QED
  BY <1>1, <1>2, <1>3, <1>4

-----------------------------------------------------------------------------
(* The invariant holds initially and after every step.                     *)

\* Initially buffer and FIFO are empty and nobody is at work.
LEMMA InitInv == Init => Inv
<1>. SUFFICES ASSUME Init PROVE Inv
  OBVIOUS
<1>. USE SizeAssumption, UartTxAssumption DEF Init, Idle
<1>1. TypeOK
  BY DEF TypeOK, Slots, States, Interrupts
<1>2. StatesMatch /\ RequestInBounds
  BY DEF StatesMatch, Waiting, RequestInBounds
<1>3. Count(HeadIndex, TailIndex) = 0
  BY DEF Count
<1>4. RingInv
  BY <1>3 DEF RingInv, RoutineInside, PastTheBuffer, CopiedNotPublished, BufferHoldsBytes, At
<1>. QED
  BY <1>1, <1>2, <1>4 DEF Inv

\* Steps of SerCx2's thread and of the DPC that leave the buffer and the FIFO alone.
Control ==
  \/ FifoWritten \/ WriteEnablesTrdy \/ WriteReturns
  \/ EnableReadyNotification \/ DrainFifo
  \/ CancelReadyNotification \/ CancelDrainFifo
  \/ Dpc

\* They only change what is expected, enabled and reported.
LEMMA ControlInv ==
  ASSUME Inv, Control
  PROVE  Inv'
<1>. TypeOK /\ StatesMatch /\ RequestInBounds /\ RingInv
  BY DEF Inv
<1>1. UNCHANGED <<ring, slots, IRTS, fifo, isr, newHead, next, last>>
  BY DEF Control, Dpc, FifoWritten, WriteEnablesTrdy, WriteReturns, EnableReadyNotification, DrainFifo,
         CancelReadyNotification, CancelDrainFifo, DpcStart, DpcReady, DpcDrained, DpcPurged, ring
<1>2. \/ Answered
      \/ Purging
      \/ \E pc \in PCs \ {"fifo", "publish"} : Goto(pc)
      \/ request' = [request EXCEPT !.cancelled = TRUE] /\ request.pc \notin {"fifo", "publish"}
      \/ UNCHANGED request
  <2>1. CASE FifoWritten \/ WriteEnablesTrdy \/ WriteReturns
    BY <2>1 DEF FifoWritten, WriteEnablesTrdy, WriteReturns, PCs
  <2>2. CASE EnableReadyNotification \/ DrainFifo
    BY <2>2 DEF EnableReadyNotification, DrainFifo, PCs
  <2>3. CASE CancelReadyNotification \/ CancelDrainFifo
    BY <2>3 DEF CancelReadyNotification, CancelDrainFifo, Cancel
  <2>4. CASE Dpc
    BY <2>4 DEF Dpc, DpcStart, DpcReady, DpcDrained, DpcPurged, PCs
  <2>. QED
    BY <2>1, <2>2, <2>3, <2>4 DEF Control
<1>3. request' \in Requests /\ RequestInBounds'
  BY <1>1, <1>2, RequestMoves
<1>4. request' = request \/ request'.pc \notin {"fifo", "publish"}
  <2>. request \in Requests
    BY RequestType
  <2>1. ASSUME NEW pc \in PCs \ {"fifo", "publish"}, Goto(pc) PROVE request'.pc = pc
    BY <2>1 DEF Goto, Requests
  <2>2. Answered => request'.pc = "idle"
    BY DEF Answered, Idle
  <2>3. Purging => request'.pc = "purge"
    BY DEF Purging, Requests
  <2>4. request' = [request EXCEPT !.cancelled = TRUE] => request'.pc = request.pc
    BY DEF Requests
  <2>. QED
    BY <1>2, <2>1, <2>2, <2>3, <2>4
<1>5. RingInv'
  BY <1>1, <1>4, RingUntouched
<1>6. /\ Enabled' \subseteq Interrupts
      /\ TxState' \in States /\ TxDrainState' \in States /\ TxPurgeState' \in States
      /\ dpc' \in DpcStates
  <2>. TypeOK
    OBVIOUS
  <2>. USE DEF TypeOK, States, Interrupts, states, DpcStates
  <2>1. CASE FifoWritten \/ WriteEnablesTrdy \/ WriteReturns
    BY <2>1 DEF FifoWritten, WriteEnablesTrdy, WriteReturns
  <2>2. CASE EnableReadyNotification \/ DrainFifo
    BY <2>2 DEF EnableReadyNotification, DrainFifo, ReadyEnables
  <2>3. CASE CancelReadyNotification \/ CancelDrainFifo
    BY <2>3 DEF CancelReadyNotification, CancelDrainFifo, AfterCancel
  <2>4. CASE Dpc
    <3>1. dpc \in DpcStates
      BY DEF DpcStates
    <3>2. CASE DpcStart
      BY <3>2 DEF DpcStart, DpcStates
    <3>3. CASE DpcReady \/ DpcDrained \/ DpcPurged
      <4>1. \E pc \in {"off", "drained", "purged"} : dpc' = [dpc EXCEPT !.pc = pc]
        BY <3>3 DEF DpcReady, DpcDrained, DpcPurged, DpcStep
      <4>2. dpc' \in DpcStates
        BY <3>1, <4>1 DEF DpcStates
      <4>. QED
        BY <3>3, <4>2 DEF DpcReady, DpcDrained, DpcPurged
    <3>. QED
      BY <2>4, <3>2, <3>3 DEF Dpc
  <2>. QED
    BY <2>1, <2>2, <2>3, <2>4 DEF Control
<1>7. TypeOK'
  BY <1>1, <1>3, <1>6 DEF TypeOK, Requests, PCs, DpcStates, ring
<1>8. StatesMatch'
  <2>. request \in Requests
    BY RequestType
  <2>. USE DEF StatesMatch, Waiting, At, Goto, Purging, Answered, Idle, Requests, states
  <2>1. CASE FifoWritten \/ WriteEnablesTrdy \/ WriteReturns
    BY <2>1 DEF FifoWritten, WriteEnablesTrdy, WriteReturns
  <2>2. CASE EnableReadyNotification \/ DrainFifo
    BY <2>2 DEF EnableReadyNotification, DrainFifo
  <2>3. CASE CancelReadyNotification \/ CancelDrainFifo
    BY <2>3 DEF CancelReadyNotification, CancelDrainFifo, Cancel, Cancellable, AfterCancel
  <2>4. CASE Dpc
    BY <2>4 DEF Dpc, DpcStart, DpcReady, DpcDrained, DpcPurged
  <2>. QED
    BY <2>1, <2>2, <2>3, <2>4 DEF Control
<1>. QED
  BY <1>3, <1>5, <1>7, <1>8 DEF Inv

\* A request begins, and WriteBuffer looks whether the buffer is empty.
LEMMA WriteInv ==
  ASSUME Inv, WriteBuffer \/ \E n \in 1 .. MaxLength : Write(n)
  PROVE  Inv'
<1>. TypeOK /\ StatesMatch /\ RequestInBounds /\ RingInv
  BY DEF Inv
<1>. request \in Requests /\ next \in Nat
  BY RequestType DEF TypeOK
<1>1. /\ UNCHANGED <<ring, Enabled, IRTS, TxPurgeState, fifo, isr, dpc, newHead, next, last>>
      /\ TxState' \in States /\ TxDrainState' \in States
      /\ TxState' \in Waiting => TxState \in Waiting /\ At("idle")
      /\ TxDrainState' \in Waiting => TxDrainState \in Waiting /\ At("idle")
      /\ TxPurgeState \in Waiting => At("purged")
      /\ request.pc \in {"idle", "write"}
  BY DEF WriteBuffer, Write, states, TypeOK, States, StatesMatch, Waiting, At
<1>2. request' \in Requests /\ RequestInBounds'
  <2>1. CASE WriteBuffer
    <3>1. \E pc \in PCs : Goto(pc)
      BY <2>1 DEF WriteBuffer, PCs
    <3>. QED
      BY <1>1, <3>1, RequestMoves
  <2>2. ASSUME NEW n \in 1 .. MaxLength, Write(n) PROVE request' \in Requests /\ RequestInBounds'
    BY <2>2, UartTxAssumption DEF Write, Requests, PCs, RequestInBounds
  <2>. QED
    BY <2>1, <2>2
<1>3. request'.pc # "publish" /\ (request'.pc = "fifo" => HeadIndex = TailIndex)
  BY DEF WriteBuffer, Write, Goto, Requests
<1>4. RingInv'
  BY <1>1, <1>3 DEF RingInv, RoutineInside, PastTheBuffer, CopiedNotPublished, BufferHoldsBytes, At, ring
<1>5. TypeOK'
  BY <1>1, <1>2 DEF TypeOK, Requests, PCs, ring
<1>6. StatesMatch'
  BY <1>1 DEF StatesMatch, Waiting, At
<1>. QED
  BY <1>2, <1>4, <1>5, <1>6 DEF Inv

\* A byte goes past the buffer, which is empty.
LEMMA WriteTxdInv ==
  ASSUME Inv, WriteTxd
  PROVE  Inv'
<1>. TypeOK /\ StatesMatch /\ RequestInBounds /\ RingInv
  BY DEF Inv
<1>. request \in Requests
  BY RequestType
<1>1. /\ request.left \in 0 .. MaxLength /\ request.done \in 0 .. MaxLength
      /\ next \in Nat \ {0} /\ MaxLength \in Nat /\ MaxBytes \in Nat /\ FifoCount \in Nat
      /\ fifo \in Seq(1 .. MaxBytes) /\ Len(fifo) \in Nat
      /\ next + request.left <= MaxBytes + 1 /\ request.left + request.done <= MaxLength
  <2>1. request.left \in 0 .. MaxLength /\ request.done \in 0 .. MaxLength
    BY DEF Requests
  <2>2. next \in Nat \ {0} /\ fifo \in Seq(1 .. MaxBytes)
    BY UartTxAssumption DEF TypeOK
  <2>3. Len(fifo) \in Nat
    BY <2>2
  <2>. QED
    BY <2>1, <2>2, <2>3, UartTxAssumption DEF RequestInBounds
<1>2. /\ request.pc = "fifo" /\ request.left > 0 /\ Len(fifo) < FifoCount
      /\ fifo' = Append(fifo, next) /\ next' = next + 1
      /\ request' = [request EXCEPT !.left = request.left - 1, !.done = request.done + 1]
      /\ UNCHANGED <<ring, Enabled, IRTS, states, isr, dpc, newHead, last>>
  BY <1>1 DEF WriteTxd, At, FifoFull
<1>3. request' \in Requests /\ RequestInBounds' /\ request'.pc = "fifo"
  <2>1. request.left - 1 \in 0 .. MaxLength /\ request.done + 1 \in 0 .. MaxLength
    <3>1. request.left > 0
      BY <1>2
    <3>. QED
      BY <1>1, <3>1, SMTT(30)
  <2>2. request' \in Requests /\ request'.pc = "fifo"
        /\ request'.left = request.left - 1 /\ request'.done = request.done + 1
    BY <1>2, <2>1 DEF Requests
  <2>. QED
    BY <1>1, <1>2, <2>2, SMTT(30) DEF RequestInBounds
<1>4. next \in 1 .. MaxBytes /\ next' \in 1 .. MaxBytes + 1
  BY <1>1, <1>2, SMTT(30)
<1>5. fifo' \in Seq(1 .. MaxBytes) /\ Len(fifo') <= FifoCount
  BY <1>1, <1>2, <1>4, AppendProperties
<1>. TypeOK'
  BY <1>2, <1>3, <1>4, <1>5 DEF TypeOK, Requests, PCs, ring, states
<1>6. StatesMatch'
  BY <1>2, <1>3 DEF StatesMatch, Waiting, At, states
<1>7. RingInv'
  BY <1>2, <1>3 DEF RingInv, RoutineInside, PastTheBuffer, CopiedNotPublished, BufferHoldsBytes, At, ring
<1>. QED
  BY <1>3, <1>6, <1>7 DEF Inv

\* The bytes a request has left, as EnqueueBytes is given them.
LEMMA BytesLeft ==
  ASSUME TypeOK, RequestInBounds
  PROVE  /\ [i \in 1 .. request.left |-> next + i - 1] \in Seq(1 .. MaxBytes)
         /\ [i \in 1 .. request.left |-> next + i - 1] \in Seq(0 .. MaxBytes)
         /\ Len([i \in 1 .. request.left |-> next + i - 1]) = request.left
         /\ request.left \in Nat
<1>1. /\ request.left \in Nat /\ next \in Nat \ {0} /\ MaxBytes \in Nat
      /\ next + request.left <= MaxBytes + 1
  BY RequestType, UartTxAssumption DEF Requests, TypeOK, RequestInBounds
<1>2. \A i \in 1 .. request.left : next + i - 1 \in 1 .. MaxBytes
  BY <1>1
<1>3. \A i \in 1 .. request.left : next + i - 1 \in 0 .. MaxBytes
  BY <1>1
<1>. QED
  BY <1>1, <1>2, <1>3

\* What EnqueueBytes' copy leaves alone and what it adds.
LEMMA EnqueueCopied ==
  ASSUME TypeOK, RequestInBounds, EnqueueCopy
  PROVE  LET k == EnqueueCount(HeadIndex, TailIndex, request.left)
         IN  /\ slots' \in [Slots -> 0 .. MaxBytes]
             /\ newHead' \in Slots
             /\ Count(newHead', HeadIndex) = k
             /\ k \in 0 .. request.left
             /\ Count(HeadIndex, TailIndex) + k <= Capacity
             /\ \A i \in 1 .. Count(HeadIndex, TailIndex) :
                  slots'[Advance(TailIndex, i - 1)] = slots[Advance(TailIndex, i - 1)]
             /\ \A i \in 1 .. k : slots'[Advance(HeadIndex, i - 1)] = next + i - 1
<1>. DEFINE bytes == [i \in 1 .. request.left |-> next + i - 1]
            k == EnqueueCount(HeadIndex, TailIndex, request.left)
            n == Count(HeadIndex, TailIndex)
<1>1. HeadIndex \in Slots /\ TailIndex \in Slots /\ slots \in [Slots -> 0 .. MaxBytes]
  BY DEF TypeOK
<1>2. bytes \in Seq(0 .. MaxBytes) /\ Len(bytes) = request.left /\ request.left \in Nat
  BY BytesLeft
<1>3. slots' = Enqueued(slots, HeadIndex, TailIndex, bytes) /\ newHead' = Advance(HeadIndex, k)
  BY DEF EnqueueCopy
<1>4. n \in 0 .. Capacity /\ Capacity \in Nat
  BY <1>1, CountInRange, SizeAssumption DEF Capacity
<1>5. k = Least(request.left, Capacity - n)
  BY <1>1, <1>2, EnqueueFillsRoom
<1>6. k \in 0 .. request.left /\ n + k <= Capacity /\ k \in 0 .. Capacity
  <2>. HIDE DEF k, n
  <2>. QED
    BY <1>2, <1>4, <1>5 DEF Least
<1>7. Count(HeadIndex, HeadIndex) = 0
  BY <1>1, CountInRange
<1>8. newHead' \in Slots /\ Count(newHead', HeadIndex) = k
  <2>. HIDE DEF k
  <2>1. k \in 0 .. Capacity - Count(HeadIndex, HeadIndex)
    BY <1>4, <1>6, <1>7
  <2>2. /\ Advance(HeadIndex, k) \in Slots
        /\ Count(Advance(HeadIndex, k), HeadIndex) = Count(HeadIndex, HeadIndex) + k
    BY <1>1, <2>1, CountAfterEnqueue
  <2>. QED
    BY <1>3, <1>6, <1>7, <2>2
<1>9. slots' \in [Slots -> 0 .. MaxBytes]
  <2>. HIDE DEF bytes
  <2>. QED
    BY <1>1, <1>2, <1>3, EnqueuedType
<1>10. /\ \A i \in 1 .. n : slots'[Advance(TailIndex, i - 1)] = slots[Advance(TailIndex, i - 1)]
       /\ \A i \in 1 .. k : slots'[Advance(HeadIndex, i - 1)] = bytes[i]
  <2>. DEFINE m == EnqueueCount(HeadIndex, TailIndex, Len(bytes))
              after == Enqueued(slots, HeadIndex, TailIndex, bytes)
  <2>1. /\ \A i \in 1 .. n : after[Advance(TailIndex, i - 1)] = slots[Advance(TailIndex, i - 1)]
        /\ \A i \in 1 .. m : after[Advance(HeadIndex, i - 1)] = bytes[i]
    <3>. DEFINE B == 0 .. MaxBytes
    <3>1. slots \in [Slots -> B] /\ bytes \in Seq(B)
      BY <1>1, <1>2
    <3>. HIDE DEF bytes, B
    <3>. QED
      BY <1>1, <3>1, EnqueueAppends
  <2>2. m = k
    BY <1>2
  <2>. HIDE DEF bytes, after, m, k, n
  <2>. QED
    BY <1>3, <2>1, <2>2 DEF after
<1>11. \A i \in 1 .. k : bytes[i] = next + i - 1
  <2>. HIDE DEF k
  <2>. QED
    BY <1>2, <1>6
<1>. QED
  BY <1>6, <1>8, <1>9, <1>10, <1>11

\* The bytes are copied behind the head, into room that the interrupt only enlarges.
LEMMA EnqueueCopyInv ==
  ASSUME Inv, EnqueueCopy
  PROVE  Inv'
<1>. TypeOK /\ StatesMatch /\ RequestInBounds /\ RingInv
  BY DEF Inv
<1>. DEFINE k == EnqueueCount(HeadIndex, TailIndex, request.left)
<1>1. /\ slots' \in [Slots -> 0 .. MaxBytes] /\ newHead' \in Slots
      /\ Count(newHead', HeadIndex) = k /\ k \in 0 .. request.left
      /\ Count(HeadIndex, TailIndex) + k <= Capacity
      /\ \A i \in 1 .. Count(HeadIndex, TailIndex) :
           slots'[Advance(TailIndex, i - 1)] = slots[Advance(TailIndex, i - 1)]
      /\ \A i \in 1 .. k : slots'[Advance(HeadIndex, i - 1)] = next + i - 1
  BY EnqueueCopied
<1>. HIDE DEF k
<1>2. /\ UNCHANGED <<HeadIndex, TailIndex, Enabled, IRTS, states, fifo, isr, dpc, next, last>>
      /\ At("enqueue") /\ Goto("publish")
  BY DEF EnqueueCopy
<1>3. request' \in Requests /\ RequestInBounds'
  <2>1. \E pc \in PCs : Goto(pc)
    BY <1>2 DEF PCs
  <2>. QED
    BY <1>2, <2>1, RequestMoves
<1>4. request'.pc = "publish" /\ request'.left = request.left
  BY <1>2, RequestType DEF Goto, Requests, PCs
<1>5. TypeOK'
  BY <1>1, <1>2, <1>3 DEF TypeOK, Requests, PCs, states
<1>6. StatesMatch'
  BY <1>2 DEF StatesMatch, Waiting, At, states
<1>7. RoutineInside' /\ PastTheBuffer' /\ BufferHoldsBytes'
  BY <1>1, <1>2, <1>4 DEF RingInv, RoutineInside, PastTheBuffer, BufferHoldsBytes, At
<1>8. CopiedNotPublished'
  <2>1. k <= request.left
    BY <1>1
  <2>. QED
    BY <1>1, <1>2, <1>4, <2>1 DEF CopiedNotPublished
<1>. QED
  BY <1>3, <1>5, <1>6, <1>7, <1>8 DEF Inv, RingInv

\* The head moves over the bytes that EnqueueBytes has copied.
LEMMA Published ==
  ASSUME TypeOK, RequestInBounds, RingInv, Publish
  PROVE  LET k == Count(newHead, HeadIndex)
         IN  /\ k \in 0 .. request.left
             /\ k \in 0 .. Capacity - Count(HeadIndex, TailIndex)
             /\ HeadIndex' = Advance(HeadIndex, k) /\ HeadIndex' \in Slots
             /\ Count(HeadIndex', TailIndex) = Count(HeadIndex, TailIndex) + k
             /\ next' = next + k
             /\ \A i \in 1 .. k : /\ slots[Advance(HeadIndex, i - 1)] = next + i - 1
                                  /\ next + i - 1 \in 1 .. MaxBytes
             /\ request' \in Requests /\ RequestInBounds'
             /\ request'.pc \in {"trdy", "return"}
<1>. DEFINE k == Count(newHead, HeadIndex)
            n == Count(HeadIndex, TailIndex)
<1>1. HeadIndex \in Slots /\ TailIndex \in Slots /\ newHead \in Slots
  BY DEF TypeOK
<1>2. k \in 0 .. Capacity /\ n \in 0 .. Capacity /\ Capacity \in Nat
  BY <1>1, CountInRange, SizeAssumption DEF Capacity
<1>3. HeadIndex' = Advance(HeadIndex, k)
  BY <1>1, AdvanceCount DEF Publish
<1>4. /\ n + k <= Capacity /\ k <= request.left
      /\ \A i \in 1 .. k : slots[Advance(HeadIndex, i - 1)] = next + i - 1
  BY DEF Publish, RingInv, CopiedNotPublished
<1>5. /\ next' = next + k
      /\ request' = [request EXCEPT !.pc = IF k # 0 THEN "trdy" ELSE "return",
                                    !.left = request.left - k, !.done = request.done + k]
  BY DEF Publish
<1>6. /\ request.left \in 0 .. MaxLength /\ request.done \in 0 .. MaxLength
      /\ next \in Nat \ {0} /\ MaxLength \in Nat /\ MaxBytes \in Nat
      /\ next + request.left <= MaxBytes + 1 /\ request.left + request.done <= MaxLength
      /\ request \in Requests
  BY RequestType, UartTxAssumption, SMTT(30) DEF Requests, TypeOK, RequestInBounds
<1>. HIDE DEF k, n
<1>7. k \in 0 .. Capacity - n /\ k \in 0 .. request.left
  BY <1>2, <1>4, <1>6
<1>8. HeadIndex' \in Slots /\ Count(HeadIndex', TailIndex) = n + k
  BY <1>1, <1>3, <1>7, CountAfterEnqueue DEF n
<1>9. \A i \in 1 .. k : next + i - 1 \in 1 .. MaxBytes
  BY <1>6, <1>7
<1>10. /\ request' \in Requests /\ request'.pc \in {"trdy", "return"}
       /\ request'.left = request.left - k /\ request'.done = request.done + k
  <2>1. request.left - k \in 0 .. MaxLength /\ request.done + k \in 0 .. MaxLength
    BY <1>6, <1>7
  <2>. QED
    BY <1>5, <1>6, <2>1 DEF Requests, PCs
<1>11. RequestInBounds'
  BY <1>5, <1>6, <1>7, <1>10 DEF RequestInBounds
<1>. QED
  BY <1>3, <1>4, <1>5, <1>7, <1>8, <1>9, <1>10, <1>11 DEF k, n

\* The new head makes the copied bytes the buffer's.
LEMMA PublishInv ==
  ASSUME Inv, Publish
  PROVE  Inv'
<1>. TypeOK /\ StatesMatch /\ RequestInBounds /\ RingInv
  BY DEF Inv
<1>. DEFINE k == Count(newHead, HeadIndex)
            n == Count(HeadIndex, TailIndex)
<1>1. /\ k \in 0 .. request.left /\ k \in 0 .. Capacity - n
      /\ HeadIndex' = Advance(HeadIndex, k) /\ HeadIndex' \in Slots
      /\ Count(HeadIndex', TailIndex) = n + k
      /\ next' = next + k
      /\ \A i \in 1 .. k : slots[Advance(HeadIndex, i - 1)] = next + i - 1
                           /\ next + i - 1 \in 1 .. MaxBytes
      /\ request' \in Requests /\ RequestInBounds' /\ request'.pc \in {"trdy", "return"}
  BY Published
<1>2. /\ UNCHANGED <<TailIndex, slots, Enabled, IRTS, states, fifo, isr, dpc, newHead, last>>
      /\ At("publish")
  BY DEF Publish
<1>3. HeadIndex \in Slots /\ TailIndex \in Slots /\ isr.head \in Slots /\ isr.tail \in Slots
  BY DEF TypeOK
<1>4. n \in 0 .. Capacity /\ n + k <= Capacity /\ k \in Nat /\ Capacity \in Nat /\ Capacity = Size - 1
  <2>1. n \in 0 .. Capacity /\ Capacity \in Nat /\ Capacity = Size - 1
    BY <1>3, CountInRange, SizeAssumption DEF Capacity
  <2>2. k \in 0 .. Capacity - n
    BY <1>1
  <2>. HIDE DEF k, n
  <2>. QED
    BY <2>1, <2>2
<1>. HIDE DEF k, n
<1>5. TypeOK'
  <2>1. next' \in 1 .. MaxBytes + 1
    <3>1. request'.left \in Nat /\ next \in Nat \ {0} /\ MaxBytes \in Nat
      BY <1>1, UartTxAssumption DEF Requests, TypeOK
    <3>2. next' + request'.left <= MaxBytes + 1 /\ next' = next + k
      BY <1>1 DEF RequestInBounds
    <3>. QED
      BY <1>4, <3>1, <3>2
  <2>. QED
    BY <1>1, <1>2, <2>1 DEF TypeOK, Requests, PCs, states
<1>6. StatesMatch'
  BY <1>2 DEF StatesMatch, Waiting, At, states
<1>7. RoutineInside'
  <2>1. Count(isr.head, TailIndex) \in Nat
    BY <1>3, CountInRange, SizeAssumption DEF Capacity
  <2>2. isr.pc = "move" => /\ Count(isr.tail, TailIndex) + Count(isr.head, isr.tail) = Count(isr.head, TailIndex)
                           /\ Count(isr.head, TailIndex) <= n
    BY DEF RingInv, RoutineInside, n
  <2>3. isr.pc = "move" => Count(isr.head, TailIndex) <= n + k
    BY <1>4, <2>1, <2>2
  <2>. QED
    BY <1>1, <1>2, <2>2, <2>3 DEF RoutineInside
<1>8. PastTheBuffer' /\ CopiedNotPublished'
  BY <1>1 DEF PastTheBuffer, CopiedNotPublished, At
<1>9. BufferHoldsBytes'
  <2>1. \A i \in 1 .. k : Advance(HeadIndex, i - 1) = Advance(TailIndex, (n + i) - 1)
    <3>1. k \in 0 .. Size - n
      BY <1>4, SizeAssumption
    <3>. QED
      BY <1>3, <3>1, SlotsBeyond DEF n
  <2>2. \A i \in 1 .. n : slots[Advance(TailIndex, i - 1)] \in 1 .. MaxBytes
    BY DEF RingInv, BufferHoldsBytes, n
  <2>3. ASSUME NEW i \in 1 .. n + k PROVE slots[Advance(TailIndex, i - 1)] \in 1 .. MaxBytes
    <3>1. CASE i <= n
      BY <1>4, <2>2, <3>1
    <3>2. CASE i > n
      <4>1. i - n \in 1 .. k /\ (n + (i - n)) - 1 = i - 1
        BY <1>4, <3>2
      <4>. QED
        BY <1>1, <2>1, <4>1
    <3>. QED
      BY <1>4, <3>1, <3>2
  <2>. QED
    BY <1>1, <1>2, <2>3 DEF BufferHoldsBytes
<1>. QED
  BY <1>1, <1>5, <1>6, <1>7, <1>8, <1>9 DEF Inv, RingInv

-----------------------------------------------------------------------------
(* The interrupt routine.                                                  *)

\* The slot the routine has come to is as far from the tail as it has moved bytes.
LEMMA RoutineAt ==
  ASSUME TypeOK, RoutineInside, isr.pc = "move"
  PROVE  LET j == Count(isr.tail, TailIndex)
             m == Count(isr.head, isr.tail)
         IN  /\ j \in Nat /\ m \in Nat /\ (m = 0 <=> isr.head = isr.tail)
             /\ j + m <= Count(HeadIndex, TailIndex)
             /\ isr.tail = Advance(TailIndex, j)
             /\ Count(HeadIndex, isr.tail) = Count(HeadIndex, TailIndex) - j
             /\ Count(HeadIndex, TailIndex) \in 0 .. Capacity /\ Capacity = Size - 1 /\ Size \in Nat
             /\ \A i \in 1 .. Count(HeadIndex, TailIndex) - j :
                  Advance(isr.tail, i - 1) = Advance(TailIndex, (j + i) - 1)
<1>. DEFINE j == Count(isr.tail, TailIndex)
            m == Count(isr.head, isr.tail)
            n == Count(HeadIndex, TailIndex)
<1>1. HeadIndex \in Slots /\ TailIndex \in Slots /\ isr.head \in Slots /\ isr.tail \in Slots
  BY DEF TypeOK
<1>2. /\ j \in 0 .. Capacity /\ m \in 0 .. Capacity /\ n \in 0 .. Capacity
      /\ Capacity = Size - 1 /\ Size \in Nat
      /\ (m = 0 <=> isr.head = isr.tail)
  BY <1>1, CountInRange, SizeAssumption DEF Capacity
<1>3. j + m = Count(isr.head, TailIndex) /\ Count(isr.head, TailIndex) <= n
  BY DEF RoutineInside
<1>4. isr.tail = Advance(TailIndex, j)
  BY <1>1, AdvanceCount
<1>. HIDE DEF j, m, n
<1>5. j + m <= n /\ j \in 0 .. n /\ n - j \in 0 .. Size - j
  BY <1>2, <1>3
<1>6. Count(HeadIndex, isr.tail) = n - j
  BY <1>1, <1>4, <1>5, CountAfterDequeue DEF n
<1>7. \A i \in 1 .. n - j : Advance(isr.tail, i - 1) = Advance(TailIndex, (j + i) - 1)
  BY <1>1, <1>5, SlotsBeyond DEF j
<1>. QED
  BY <1>2, <1>4, <1>5, <1>6, <1>7 DEF j, m, n

\* The routine begins with the indices as they are.
LEMMA IsrEnterInv ==
  ASSUME Inv, IsrEnter
  PROVE  Inv'
<1>. TypeOK /\ StatesMatch /\ RequestInBounds /\ RingInv
  BY DEF Inv
<1>1. /\ isr' = [pc |-> "move", usr |-> Asserted, head |-> HeadIndex, tail |-> TailIndex]
      /\ UNCHANGED <<ring, Enabled, IRTS, states, fifo, dpc, request, newHead, next, last>>
  BY DEF IsrEnter
<1>2. Asserted \subseteq Interrupts
  BY DEF Asserted, TypeOK
<1>3. TypeOK'
  BY <1>1, <1>2 DEF TypeOK, ring, states
<1>4. StatesMatch' /\ RequestInBounds'
  BY <1>1 DEF StatesMatch, RequestInBounds, Waiting, At, states
<1>5. RoutineInside'
  <2>1. HeadIndex \in Slots /\ TailIndex \in Slots
    BY DEF TypeOK
  <2>2. Count(HeadIndex, TailIndex) \in Nat /\ Count(TailIndex, TailIndex) = 0
    BY <2>1, CountInRange, SizeAssumption DEF Capacity
  <2>. QED
    BY <1>1, <2>2 DEF RoutineInside, ring
<1>6. PastTheBuffer' /\ CopiedNotPublished' /\ BufferHoldsBytes'
  BY <1>1 DEF RingInv, PastTheBuffer, CopiedNotPublished, BufferHoldsBytes, At, ring
<1>. QED
  BY <1>3, <1>4, <1>5, <1>6 DEF Inv, RingInv

\* The routine moves a byte that has been stored, and stays inside.
LEMMA IsrMoveInv ==
  ASSUME Inv, IsrMove
  PROVE  Inv'
<1>. TypeOK /\ StatesMatch /\ RequestInBounds /\ RingInv /\ RoutineInside
  BY DEF Inv, RingInv
<1>. DEFINE j == Count(isr.tail, TailIndex)
            m == Count(isr.head, isr.tail)
            n == Count(HeadIndex, TailIndex)
            one == Advance(isr.tail, 1)
<1>1. /\ isr.pc = "move" /\ isr.tail # isr.head /\ ~ FifoFull
      /\ fifo' = Append(fifo, slots[isr.tail])
      /\ isr' = [isr EXCEPT !.tail = one]
      /\ UNCHANGED <<ring, Enabled, IRTS, states, dpc, request, newHead, next, last>>
  BY DEF IsrMove, FromSlot
<1>2. /\ j \in Nat /\ m \in Nat /\ (m = 0 <=> isr.head = isr.tail) /\ j + m <= n
      /\ n \in 0 .. Capacity /\ Capacity = Size - 1 /\ Size \in Nat
      /\ \A i \in 1 .. n - j : Advance(isr.tail, i - 1) = Advance(TailIndex, (j + i) - 1)
  BY <1>1, RoutineAt
<1>3. TailIndex \in Slots /\ isr.head \in Slots /\ isr.tail \in Slots
  BY DEF TypeOK
<1>4. Advance(isr.tail, 0) = isr.tail
  BY <1>2, <1>3, AdvanceValue DEF Slots
<1>5. one \in Slots /\ Count(isr.head, one) = m - 1
  <2>1. 1 \in 0 .. m
    BY <1>1, <1>2
  <2>. QED
    BY <1>3, <2>1, CountAfterDequeue
<1>6. Count(one, TailIndex) = j + 1
  <2>. HIDE DEF j, m, n
  <2>1. 1 \in 0 .. Capacity - j
    BY <1>1, <1>2
  <2>. QED
    BY <1>3, <2>1, CountAfterEnqueue DEF j
<1>7. slots[isr.tail] \in 1 .. MaxBytes
  <2>. HIDE DEF n
  <2>1. \A i \in 1 .. n : slots[Advance(TailIndex, i - 1)] \in 1 .. MaxBytes
    BY DEF RingInv, BufferHoldsBytes, n
  <2>. HIDE DEF j, m
  <2>2. 1 \in 1 .. n - j /\ j + 1 \in 1 .. n
    BY <1>1, <1>2
  <2>3. Advance(isr.tail, 1 - 1) = Advance(TailIndex, (j + 1) - 1)
    BY <1>2, <2>2
  <2>4. slots[Advance(TailIndex, (j + 1) - 1)] \in 1 .. MaxBytes
    BY <2>1, <2>2
  <2>. QED
    BY <1>4, <2>3, <2>4
<1>8. fifo' \in Seq(1 .. MaxBytes) /\ Len(fifo') <= FifoCount
  <2>1. fifo \in Seq(1 .. MaxBytes) /\ Len(fifo) \in Nat /\ FifoCount \in Nat
    BY UartTxAssumption DEF TypeOK
  <2>2. Len(fifo) < FifoCount
    BY <1>1, <2>1 DEF FifoFull
  <2>. QED
    BY <1>1, <1>7, <2>1, <2>2, AppendProperties
<1>9. /\ isr' \in [pc: {"off", "move", "notify"}, usr: SUBSET Interrupts, head: Slots, tail: Slots]
      /\ isr'.pc = "move" /\ isr'.head = isr.head /\ isr'.tail = one
  <2>. HIDE DEF one
  <2>. QED
    BY <1>1, <1>5 DEF TypeOK
<1>10. TypeOK'
  BY <1>1, <1>8, <1>9 DEF TypeOK, ring, states
<1>11. StatesMatch' /\ RequestInBounds'
  BY <1>1 DEF StatesMatch, RequestInBounds, Waiting, At, states
<1>12. RoutineInside'
  <2>1. j + m = Count(isr.head, TailIndex) /\ Count(isr.head, TailIndex) <= n
    BY <1>1 DEF RoutineInside
  <2>. HIDE DEF j, m, n, one
  <2>2. Count(one, TailIndex) + Count(isr.head, one) = Count(isr.head, TailIndex)
    BY <1>2, <1>5, <1>6, <2>1
  <2>. QED
    BY <1>1, <1>9, <2>1, <2>2 DEF RoutineInside, ring, n
<1>13. PastTheBuffer' /\ CopiedNotPublished' /\ BufferHoldsBytes'
  BY <1>1 DEF RingInv, PastTheBuffer, CopiedNotPublished, BufferHoldsBytes, At, ring
<1>. QED
  BY <1>10, <1>11, <1>12, <1>13 DEF Inv, RingInv

\* The tail moves to where the routine has come; no byte behind it is lost.
LEMMA IsrMovedInv ==
  ASSUME Inv, IsrMoved
  PROVE  Inv'
<1>. TypeOK /\ StatesMatch /\ RequestInBounds /\ RingInv /\ RoutineInside
  BY DEF Inv, RingInv
<1>. DEFINE j == Count(isr.tail, TailIndex)
            m == Count(isr.head, isr.tail)
            n == Count(HeadIndex, TailIndex)
<1>1. /\ isr.pc = "move"
      /\ TailIndex' = isr.tail
      /\ isr' = [isr EXCEPT !.pc = "notify"]
      /\ UNCHANGED <<HeadIndex, slots, Enabled, IRTS, states, fifo, dpc, request, newHead, next, last>>
  BY DEF IsrMoved, NewTail
<1>2. /\ j \in Nat /\ m \in Nat /\ j + m <= n
      /\ Count(HeadIndex, isr.tail) = n - j
      /\ n \in 0 .. Capacity /\ Capacity = Size - 1 /\ Size \in Nat
      /\ \A i \in 1 .. n - j : Advance(isr.tail, i - 1) = Advance(TailIndex, (j + i) - 1)
  BY <1>1, RoutineAt
<1>3. HeadIndex \in Slots /\ TailIndex \in Slots /\ newHead \in Slots /\ isr.tail \in Slots
  BY DEF TypeOK
<1>. HIDE DEF j, m, n
<1>4. /\ isr' \in [pc: {"off", "move", "notify"}, usr: SUBSET Interrupts, head: Slots, tail: Slots]
      /\ isr'.pc = "notify"
  BY <1>1 DEF TypeOK
<1>5. TypeOK'
  BY <1>1, <1>3, <1>4 DEF TypeOK, states
<1>6. StatesMatch' /\ RequestInBounds'
  BY <1>1 DEF StatesMatch, RequestInBounds, Waiting, At, states
<1>7. RoutineInside'
  BY <1>4 DEF RoutineInside
<1>8. PastTheBuffer'
  <2>1. ASSUME HeadIndex = TailIndex PROVE isr.tail = HeadIndex
    <3>1. n = 0
      BY <1>3, <2>1, CountInRange DEF n
    <3>2. Count(HeadIndex, isr.tail) = 0
      BY <1>2, <3>1
    <3>. QED
      BY <1>3, <3>2, CountInRange
  <2>. QED
    BY <1>1, <2>1 DEF RingInv, PastTheBuffer, At
<1>9. CopiedNotPublished'
  <2>1. Count(newHead, HeadIndex) \in Nat
    BY <1>3, CountInRange, SizeAssumption DEF Capacity
  <2>2. n + Count(newHead, HeadIndex) <= Capacity
          => Count(HeadIndex, isr.tail) + Count(newHead, HeadIndex) <= Capacity
    BY <1>2, <2>1
  <2>. QED
    BY <1>1, <2>2 DEF RingInv, CopiedNotPublished, At, n
<1>10. BufferHoldsBytes'
  <2>1. \A i \in 1 .. n : slots[Advance(TailIndex, i - 1)] \in 1 .. MaxBytes
    BY DEF RingInv, BufferHoldsBytes, n
  <2>2. ASSUME NEW i \in 1 .. n - j PROVE slots[Advance(isr.tail, i - 1)] \in 1 .. MaxBytes
    <3>1. j + i \in 1 .. n
      BY <1>2
    <3>. QED
      BY <1>2, <2>1, <3>1
  <2>. QED
    BY <1>1, <1>2, <2>2 DEF BufferHoldsBytes
<1>. QED
  BY <1>5, <1>6, <1>7, <1>8, <1>9, <1>10 DEF Inv, RingInv

\* The routine ends, and a DPC is queued for every notification that is due.
LEMMA IsrNotifyInv ==
  ASSUME Inv, IsrNotify
  PROVE  Inv'
<1>. TypeOK /\ StatesMatch /\ RequestInBounds /\ RingInv
  BY DEF Inv
<1>1. /\ Enabled' = Enabled \ (Masked \cap isr.usr)
      /\ TxState' = ForDpc(TxState, AskedMore)
      /\ TxDrainState' = ForDpc(TxDrainState, "TXFE" \in isr.usr)
      /\ TxPurgeState' = ForDpc(TxPurgeState, "TXFE" \in isr.usr)
      /\ dpc' = [dpc EXCEPT !.queued = dpc.queued \/ states' # states]
      /\ isr' = [isr EXCEPT !.pc = "off"]
      /\ UNCHANGED <<ring, IRTS, fifo, request, newHead, next, last>>
  BY DEF IsrNotify
<1>2. dpc' \in DpcStates
  BY <1>1 DEF TypeOK, DpcStates
<1>3. /\ isr' \in [pc: {"off", "move", "notify"}, usr: SUBSET Interrupts, head: Slots, tail: Slots]
      /\ isr'.pc = "off"
  BY <1>1 DEF TypeOK
<1>4. TypeOK'
  BY <1>1, <1>2, <1>3 DEF TypeOK, DpcStates, ForDpc, States, ring
<1>5. StatesMatch' /\ RequestInBounds'
  BY <1>1 DEF StatesMatch, RequestInBounds, Waiting, At, ForDpc
<1>6. RingInv'
  BY <1>1, <1>3, RingUntouched
<1>. QED
  BY <1>4, <1>5, <1>6 DEF Inv

-----------------------------------------------------------------------------
(* Purges, the line, and the induction.                                    *)

Purge == PurgeFifo \/ PurgeFifos \/ CloseAndOpen

\* Whoever empties the buffer finds the routine away and no request that writes.
LEMMA PurgeInv ==
  ASSUME Inv, Purge
  PROVE  Inv'
<1>. TypeOK /\ StatesMatch /\ RequestInBounds /\ RingInv
  BY DEF Inv
<1>1. /\ HeadIndex' = 0 /\ TailIndex' = 0 /\ isr.pc = "off"
      /\ UNCHANGED <<slots, IRTS, isr, dpc, newHead, next, last>>
      /\ fifo' = fifo \/ fifo' = <<>>
  BY DEF Purge, PurgeFifo, PurgeFifos, CloseAndOpen, Unlocked
<1>2. 0 \in Slots /\ Count(0, 0) = 0
  BY SizeAssumption DEF Slots, Count
<1>3. Answered \/ UNCHANGED request \/ Goto("purged")
  BY DEF Purge, PurgeFifo, PurgeFifos, CloseAndOpen
<1>4. request' \in Requests /\ RequestInBounds'
  <2>1. "purged" \in PCs
    BY DEF PCs
  <2>. QED
    BY <1>1, <1>3, <2>1, RequestMoves
<1>5. request'.pc \notin {"fifo", "publish"}
  <2>1. Answered => request'.pc = "idle"
    BY DEF Answered, Idle
  <2>2. Goto("purged") => request'.pc = "purged"
    BY RequestType DEF Goto, Requests
  <2>3. request.pc \in {"idle", "purge"}
    BY DEF Purge, PurgeFifo, PurgeFifos, CloseAndOpen, At
  <2>. QED
    BY <1>3, <2>1, <2>2, <2>3
<1>6. /\ Enabled' \subseteq Interrupts
      /\ TxState' \in States /\ TxDrainState' \in States /\ TxPurgeState' \in States
  BY DEF Purge, PurgeFifo, PurgeFifos, CloseAndOpen, TypeOK, States, Interrupts, states
<1>7. fifo' \in Seq(1 .. MaxBytes) /\ Len(fifo') <= FifoCount
  <2>1. <<>> \in Seq(1 .. MaxBytes) /\ Len(<<>>) <= FifoCount
    BY UartTxAssumption
  <2>. QED
    BY <1>1, <2>1 DEF TypeOK
<1>8. TypeOK'
  BY <1>1, <1>2, <1>4, <1>6, <1>7 DEF TypeOK, Requests, PCs
<1>9. StatesMatch'
  BY RequestType DEF Purge, PurgeFifo, PurgeFifos, CloseAndOpen, StatesMatch, Waiting, At, Answered,
                     Idle, Goto, Requests, states
<1>10. RingInv'
  BY <1>1, <1>2, <1>5 DEF RingInv, RoutineInside, PastTheBuffer, CopiedNotPublished, BufferHoldsBytes, At
<1>. QED
  BY <1>4, <1>8, <1>9, <1>10 DEF Inv

\* The line takes the oldest byte of the FIFO.
LEMMA HwShiftInv ==
  ASSUME Inv, HwShift
  PROVE  Inv'
<1>. TypeOK /\ StatesMatch /\ RequestInBounds /\ RingInv
  BY DEF Inv
<1>1. /\ fifo # <<>> /\ last' = Head(fifo) /\ fifo' = Tail(fifo)
      /\ UNCHANGED <<ring, Enabled, IRTS, states, isr, dpc, request, newHead, next>>
  BY DEF HwShift
<1>2. /\ last' \in 1 .. MaxBytes /\ fifo' \in Seq(1 .. MaxBytes)
      /\ Len(fifo') <= FifoCount
  BY <1>1, UartTxAssumption, SMTT(30) DEF TypeOK
<1>3. TypeOK'
  BY <1>1, <1>2, SMTT(30) DEF TypeOK, ring, states
<1>4. StatesMatch' /\ RequestInBounds'
  BY <1>1 DEF StatesMatch, RequestInBounds, Waiting, At, states
<1>5. RingInv'
  BY <1>1, RingUntouched
<1>. QED
  BY <1>3, <1>4, <1>5 DEF Inv

\* The invariant is inductive.
LEMMA NextInv == Inv /\ [Next]_vars => Inv'
<1>. SUFFICES ASSUME Inv, [Next]_vars PROVE Inv'
  OBVIOUS
<1>1. CASE UNCHANGED vars
  BY <1>1 DEF vars, ring, states, Inv, TypeOK, StatesMatch, RequestInBounds, RingInv, RoutineInside,
              PastTheBuffer, CopiedNotPublished, BufferHoldsBytes, Waiting, At
<1>2. CASE Writing \/ \E n \in 1 .. MaxLength : Write(n)
  BY <1>2, WriteInv, WriteTxdInv, EnqueueCopyInv, PublishInv, ControlInv DEF Writing, Control
<1>3. CASE Asking \/ CancelReadyNotification \/ CancelDrainFifo \/ Dpc
  BY <1>3, ControlInv, PurgeInv DEF Asking, Control, Purge
<1>4. CASE Isr
  BY <1>4, IsrEnterInv, IsrMoveInv, IsrMovedInv, IsrNotifyInv DEF Isr
<1>5. CASE HwShift \/ PurgeFifos \/ CloseAndOpen
  BY <1>5, HwShiftInv, PurgeInv DEF Purge
<1>. QED
  BY <1>1, <1>2, <1>3, <1>4, <1>5 DEF Next

-----------------------------------------------------------------------------
(* The theorems.                                                           *)

\* The invariant holds in every behaviour of the transmission.
THEOREM Invariance == Spec => []Inv
<1>1. Init => Inv
  BY InitInv
<1>2. Inv /\ [Next]_vars => Inv'
  BY NextInv
<1>. QED
  BY <1>1, <1>2, PTL DEF Spec

\* Indices stay in the buffer, the FIFO is never overfilled and holds nothing but bytes
\* that were accepted: the writer and the interrupt, without a common lock, never
\* take one another's slots (imxuart.cpp:303-317, 1024-1048).
THEOREM TypeCorrect == Spec => []TypeOK
<1>1. Inv => TypeOK
  BY DEF Inv
<1>. QED
  BY <1>1, Invariance, PTL

\* SerCx2 is called back only when it waits for that callback, however the interrupt,
\* the DPC and a cancellation follow each other (imxuart.cpp:490-521, 1110-1151, 1267).
THEOREM CallbackOnlyWhenExpected == Spec => []CallbackExpected
<1>1. Inv => CallbackExpected
  BY DEF Inv, StatesMatch, Waiting, CallbackExpected, At
<1>. QED
  BY <1>1, Invariance, PTL

-----------------------------------------------------------------------------
(* Every step is a step of BytePipe, or leaves its variables alone.        *)

\* The tail of the bytes that are still in the buffer.
PipeTail == IF isr.pc = "move" THEN isr.tail ELSE TailIndex

\* What is stored between PipeTail and the head.
LEMMA PipeSlots ==
  ASSUME Inv
  PROVE  /\ PipeTail \in Slots /\ HeadIndex \in Slots
         /\ Count(HeadIndex, PipeTail) <= Count(HeadIndex, TailIndex)
         /\ \A i \in 1 .. Count(HeadIndex, PipeTail) : slots[Advance(PipeTail, i - 1)] \in 1 .. MaxBytes
<1>. TypeOK /\ RingInv
  BY DEF Inv
<1>1. /\ HeadIndex \in Slots /\ TailIndex \in Slots /\ isr.tail \in Slots
      /\ Count(HeadIndex, TailIndex) \in Nat
  <2>1. HeadIndex \in Slots /\ TailIndex \in Slots /\ isr.tail \in Slots
    BY DEF TypeOK
  <2>. QED
    BY <2>1, CountInRange, SizeAssumption DEF Capacity
<1>2. \A i \in 1 .. Count(HeadIndex, TailIndex) : slots[Advance(TailIndex, i - 1)] \in 1 .. MaxBytes
  BY DEF RingInv, BufferHoldsBytes
<1>3. CASE isr.pc # "move"
  BY <1>1, <1>2, <1>3 DEF PipeTail
<1>4. CASE isr.pc = "move"
  <2>. DEFINE j == Count(isr.tail, TailIndex)
              n == Count(HeadIndex, TailIndex)
  <2>1. /\ j \in Nat /\ j <= n
        /\ Count(HeadIndex, isr.tail) = n - j
        /\ \A i \in 1 .. n - j : Advance(isr.tail, i - 1) = Advance(TailIndex, (j + i) - 1)
    BY <1>1, <1>4, RoutineAt DEF RingInv
  <2>. HIDE DEF j, n
  <2>2. ASSUME NEW i \in 1 .. n - j PROVE slots[Advance(isr.tail, i - 1)] \in 1 .. MaxBytes
    <3>1. j + i \in 1 .. n
      BY <1>1, <2>1 DEF n
    <3>2. slots[Advance(TailIndex, (j + i) - 1)] \in 1 .. MaxBytes
      BY <1>2, <3>1 DEF n
    <3>. QED
      BY <2>1, <3>2
  <2>3. PipeTail = isr.tail
    BY <1>4 DEF PipeTail
  <2>4. n - j <= n
    BY <1>1, <2>1 DEF n
  <2>. QED
    BY <1>1, <2>1, <2>2, <2>3, <2>4 DEF n
<1>. QED
  BY <1>3, <1>4

Buffered == Contents(slots, HeadIndex, PipeTail)

\* The pipe is the FIFO, then what is buffered, and each byte is found in one of them.
LEMMA PipeType ==
  ASSUME Inv
  PROVE  /\ Pipe = fifo \o Buffered
         /\ fifo \in Seq(1 .. MaxBytes) /\ Buffered \in Seq(1 .. MaxBytes)
         /\ Pipe \in Seq(1 .. MaxBytes) /\ Len(Pipe) = Len(fifo) + Len(Buffered)
         /\ \A i \in 1 .. Len(Pipe) : Pipe[i] = IF i <= Len(fifo) THEN fifo[i] ELSE Buffered[i - Len(fifo)]
<1>1. Pipe = fifo \o Buffered
  BY DEF Pipe, Buffered, PipeTail
<1>2. fifo \in Seq(1 .. MaxBytes)
  BY DEF Inv, TypeOK
<1>3. Buffered \in Seq(1 .. MaxBytes)
  BY PipeSlots, ContentsType DEF Buffered
<1>. QED
  BY <1>1, <1>2, <1>3, ConcatProperties

\* WriteBuffer's bytes enter the pipe when they are in the FIFO or when the head moves.
LEMMA AcceptStep ==
  ASSUME Inv, WriteTxd \/ Publish
  PROVE  BytePipe!Accept \/ UNCHANGED <<Pipe, next, last>>
<1>. TypeOK /\ RequestInBounds /\ RingInv
  BY DEF Inv
<1>1. /\ PipeTail \in Slots /\ HeadIndex \in Slots
      /\ Count(HeadIndex, PipeTail) <= Count(HeadIndex, TailIndex)
      /\ \A i \in 1 .. Count(HeadIndex, PipeTail) : slots[Advance(PipeTail, i - 1)] \in 1 .. MaxBytes
  BY PipeSlots
<1>2. next \in Nat
  BY DEF TypeOK
<1>3. CASE WriteTxd
  <2>1. /\ HeadIndex = TailIndex
        /\ fifo' = Append(fifo, next) /\ next' = next + 1
        /\ UNCHANGED <<HeadIndex, TailIndex, slots, isr, last>>
    BY <1>3 DEF WriteTxd, RingInv, PastTheBuffer, ring
  <2>2. HeadIndex = PipeTail
    BY <1>1, <2>1, CountInRange
  <2>3. Buffered = <<>> /\ Buffered' = <<>>
    <3>1. Buffered = <<>>
      BY <1>1, <2>2, ContentsEmpty DEF Buffered
    <3>. QED
      BY <2>1, <3>1 DEF Buffered, PipeTail
  <2>4. Pipe = fifo /\ Pipe' = Append(fifo, next)
    <3>1. Pipe = fifo \o Buffered /\ fifo \in Seq(1 .. MaxBytes)
      BY PipeType
    <3>2. Pipe' = fifo' \o Buffered'
      BY DEF Pipe, Buffered, PipeTail
    <3>3. fifo \in Seq(Nat) /\ Append(fifo, next) \in Seq(Nat)
      BY <1>2, <3>1, UartTxAssumption
    <3>. QED
      BY <2>1, <2>3, <3>1, <3>2, <3>3, ConcatEmptySeq
  <2>5. fifo \in Seq(Nat)
    BY PipeType, UartTxAssumption
  <2>6. [i \in 1 .. next' - next |-> next + i - 1] = <<next>>
    BY <1>2, <2>1
  <2>7. Append(fifo, next) = fifo \o <<next>>
    BY <1>2, <2>5, AppendIsConcat
  <2>8. Pipe' = Pipe \o [i \in 1 .. next' - next |-> next + i - 1]
    BY <2>4, <2>6, <2>7
  <2>9. next' > next /\ UNCHANGED last
    BY <1>2, <2>1
  <2>. QED
    BY <2>8, <2>9, Zenon DEF BytePipe!Accept
<1>4. CASE Publish
  <2>. DEFINE k == Count(newHead, HeadIndex)
              added == [i \in 1 .. k |-> next + i - 1]
  <2>1. /\ k \in 0 .. Capacity - Count(HeadIndex, TailIndex)
        /\ HeadIndex' = Advance(HeadIndex, k) /\ next' = next + k
        /\ \A i \in 1 .. k : slots[Advance(HeadIndex, i - 1)] = next + i - 1
                             /\ next + i - 1 \in 1 .. MaxBytes
    BY <1>4, Published
  <2>2. UNCHANGED <<TailIndex, slots, fifo, isr, last>>
    BY <1>4 DEF Publish
  <2>. HIDE DEF k
  <2>3. k \in Nat /\ k \in 0 .. Capacity - Count(HeadIndex, PipeTail)
    <3>1. /\ Count(HeadIndex, TailIndex) \in Nat /\ Count(HeadIndex, PipeTail) \in Nat
          /\ Capacity \in Nat
      BY <1>1, CountInRange, SizeAssumption DEF Capacity, TypeOK
    <3>. QED
      BY <1>1, <2>1, <3>1
  <2>4. added \in Seq(1 .. MaxBytes) /\ Len(added) = k
        /\ \A i \in 1 .. k : slots[Advance(HeadIndex, i - 1)] = added[i]
    BY <2>1, <2>3
  <2>. HIDE DEF added
  <2>5. Buffered' = Buffered \o added
    <3>1. PipeTail' = PipeTail
      BY <2>2 DEF PipeTail
    <3>2. Buffered' = Contents(slots, Advance(HeadIndex, k), PipeTail)
      BY <2>1, <2>2, <3>1 DEF Buffered
    <3>3. Contents(slots, Advance(HeadIndex, k), PipeTail) = Contents(slots, HeadIndex, PipeTail) \o added
      <4>. DEFINE B == 1 .. MaxBytes
      <4>1. /\ \A i \in 1 .. Count(HeadIndex, PipeTail) : slots[Advance(PipeTail, i - 1)] \in B
            /\ added \in Seq(B)
        BY <1>1, <2>4
      <4>. HIDE DEF B
      <4>. QED
        BY <1>1, <2>3, <2>4, <4>1, ContentsNewest
    <3>. QED
      BY <3>2, <3>3 DEF Buffered
  <2>6. Pipe' = Pipe \o added
    <3>1. /\ Pipe = fifo \o Buffered
          /\ fifo \in Seq(1 .. MaxBytes) /\ Buffered \in Seq(1 .. MaxBytes)
      BY PipeType
    <3>2. Pipe' = fifo' \o Buffered'
      BY DEF Pipe, Buffered, PipeTail
    <3>3. (fifo \o Buffered) \o added = fifo \o (Buffered \o added)
      <4>. DEFINE B == 1 .. MaxBytes
      <4>1. fifo \in Seq(B) /\ Buffered \in Seq(B) /\ added \in Seq(B)
        BY <2>4, <3>1
      <4>. HIDE DEF B
      <4>. QED
        BY <4>1, ConcatAssociative
    <3>. QED
      BY <2>2, <2>5, <3>1, <3>2, <3>3
  <2>7. CASE k = 0
    <3>1. added = <<>>
      BY <2>4, <2>7
    <3>. QED
      BY <1>2, <2>1, <2>2, <2>6, <2>7, <3>1, PipeType, ConcatEmptySeq
  <2>8. CASE k > 0
    BY <1>2, <2>1, <2>2, <2>3, <2>6, <2>8 DEF BytePipe!Accept, added
  <2>. QED
    BY <2>3, <2>7, <2>8
<1>. QED
  BY <1>3, <1>4

\* The line takes the oldest byte.
LEMMA DeliverStep ==
  ASSUME Inv, HwShift
  PROVE  BytePipe!Deliver
<1>1. /\ fifo # <<>> /\ last' = Head(fifo) /\ fifo' = Tail(fifo)
      /\ UNCHANGED <<HeadIndex, TailIndex, slots, isr, next>>
  BY DEF HwShift, ring
<1>2. /\ Pipe = fifo \o Buffered
      /\ fifo \in Seq(1 .. MaxBytes) /\ Buffered \in Seq(1 .. MaxBytes)
      /\ Pipe \in Seq(1 .. MaxBytes) /\ Len(Pipe) = Len(fifo) + Len(Buffered)
      /\ \A i \in 1 .. Len(Pipe) : Pipe[i] = IF i <= Len(fifo) THEN fifo[i] ELSE Buffered[i - Len(fifo)]
  BY PipeType
<1>3. Pipe' = Tail(fifo) \o Buffered
  <2>1. Buffered' = Buffered
    BY <1>1 DEF Buffered, PipeTail
  <2>. QED
    BY <1>1, <2>1 DEF Pipe, Buffered, PipeTail
<1>4. Len(fifo) \in Nat \ {0} /\ Len(Buffered) \in Nat
  BY <1>1, <1>2
<1>5. last' = Pipe[1] /\ 1 \in 1 .. Len(Pipe)
  BY <1>1, <1>2, <1>4
<1>6. Pipe' = SubSeq(Pipe, 2, Len(Pipe))
  BY <1>1, <1>2, <1>3, <1>4, HeadTailProperties, ConcatProperties, SubSeqProperties, SeqEqual
<1>. QED
  BY <1>1, <1>5, <1>6 DEF BytePipe!Deliver

\* A purge discards what is in the buffer, and what is in the FIFO if that is reset.
LEMMA DiscardStep ==
  ASSUME Inv, Purge
  PROVE  BytePipe!Discard \/ UNCHANGED <<Pipe, next, last>>
<1>1. /\ HeadIndex' = 0 /\ TailIndex' = 0 /\ isr.pc = "off" /\ isr' = isr
      /\ UNCHANGED <<slots, next, last>>
      /\ fifo' = fifo \/ fifo' = <<>>
  BY DEF Purge, PurgeFifo, PurgeFifos, CloseAndOpen, Unlocked
<1>2. /\ Pipe = fifo \o Buffered
      /\ fifo \in Seq(1 .. MaxBytes) /\ Buffered \in Seq(1 .. MaxBytes)
      /\ Pipe \in Seq(1 .. MaxBytes) /\ Len(Pipe) = Len(fifo) + Len(Buffered)
      /\ \A i \in 1 .. Len(Pipe) : Pipe[i] = IF i <= Len(fifo) THEN fifo[i] ELSE Buffered[i - Len(fifo)]
  BY PipeType
<1>3. Pipe' = fifo'
  <2>1. Buffered' = <<>>
    <3>1. 0 \in Slots
      BY SizeAssumption DEF Slots
    <3>2. Buffered' = Contents(slots, 0, 0)
      BY <1>1 DEF Buffered, PipeTail
    <3>. QED
      BY <3>1, <3>2, ContentsEmpty
  <2>2. Pipe' = fifo' \o Buffered'
    BY DEF Pipe, Buffered, PipeTail
  <2>3. fifo' \in Seq(1 .. MaxBytes)
    BY <1>1, <1>2, EmptySeq
  <2>. QED
    BY <2>1, <2>2, <2>3, ConcatEmptySeq
<1>4. Len(fifo) \in Nat /\ Len(Buffered) \in Nat
  BY <1>2
<1>5. CASE fifo' = fifo
  <2>1. fifo = SubSeq(Pipe, 1, Len(fifo))
    BY <1>2, <1>4, SubSeqProperties, SeqEqual
  <2>2. CASE Len(Buffered) = 0
    <3>1. Buffered = <<>>
      BY <1>2, <2>2
    <3>2. Pipe = fifo
      BY <1>2, <3>1, ConcatEmptySeq
    <3>. QED
      BY <1>1, <1>3, <1>5, <3>2
  <2>3. CASE Len(Buffered) > 0
    <3>1. Len(fifo) \in 0 .. Len(Pipe) - 1
      BY <1>2, <1>4, <2>3
    <3>. QED
      BY <1>1, <1>3, <1>5, <2>1, <3>1 DEF BytePipe!Discard
  <2>. QED
    BY <1>4, <2>2, <2>3
<1>6. CASE fifo' = <<>>
  <2>1. CASE Len(Pipe) = 0
    <3>1. Pipe = <<>>
      BY <1>2, <2>1
    <3>. QED
      BY <1>1, <1>3, <1>6, <3>1
  <2>2. CASE Len(Pipe) > 0
    <3>1. 0 \in 0 .. Len(Pipe) - 1
      BY <1>2, <1>4, <2>2
    <3>2. SubSeq(Pipe, 1, 0) = <<>>
      BY SubSeqEmpty
    <3>. QED
      BY <1>1, <1>3, <1>6, <3>1, <3>2 DEF BytePipe!Discard
  <2>. QED
    BY <1>2, <1>4, <2>1, <2>2
<1>. QED
  BY <1>1, <1>5, <1>6

\* EnqueueBytes copies into slots that the pipe does not hold.
LEMMA CopyOutside ==
  ASSUME Inv, EnqueueCopy
  PROVE  UNCHANGED <<Pipe, next, last>>
<1>. TypeOK /\ RequestInBounds /\ RingInv
  BY DEF Inv
<1>1. UNCHANGED <<HeadIndex, TailIndex, fifo, isr, next, last>>
  BY DEF EnqueueCopy
<1>. DEFINE n == Count(HeadIndex, TailIndex)
            p == Count(HeadIndex, PipeTail)
<1>2. \A i \in 1 .. n : slots'[Advance(TailIndex, i - 1)] = slots[Advance(TailIndex, i - 1)]
  BY EnqueueCopied
<1>3. \A i \in 1 .. p : slots'[Advance(PipeTail, i - 1)] = slots[Advance(PipeTail, i - 1)]
  <2>1. CASE isr.pc # "move"
    BY <1>2, <2>1 DEF PipeTail
  <2>2. CASE isr.pc = "move"
    <3>. DEFINE j == Count(isr.tail, TailIndex)
    <3>1. /\ j \in Nat /\ j <= n /\ n \in Nat
          /\ Count(HeadIndex, isr.tail) = n - j
          /\ \A i \in 1 .. n - j : Advance(isr.tail, i - 1) = Advance(TailIndex, (j + i) - 1)
      BY <2>2, RoutineAt DEF RingInv
    <3>2. PipeTail = isr.tail
      BY <2>2 DEF PipeTail
    <3>. HIDE DEF j, n
    <3>3. ASSUME NEW i \in 1 .. p
          PROVE  slots'[Advance(PipeTail, i - 1)] = slots[Advance(PipeTail, i - 1)]
      <4>1. i \in 1 .. n - j /\ j + i \in 1 .. n
        BY <3>1, <3>2
      <4>. QED
        BY <1>2, <3>1, <3>2, <4>1
    <3>. QED
      BY <3>3
  <2>. QED
    BY <2>1, <2>2
<1>4. Buffered' = Buffered
  BY <1>1, <1>3 DEF Buffered, PipeTail, Contents
<1>. QED
  BY <1>1, <1>4 DEF Pipe, Buffered, PipeTail

\* The routine takes the byte from the end of the buffer to the end of the FIFO.
LEMMA MoveInside ==
  ASSUME Inv, IsrMove
  PROVE  UNCHANGED <<Pipe, next, last>>
<1>. TypeOK /\ RingInv
  BY DEF Inv
<1>1. /\ isr.pc = "move" /\ isr.tail # isr.head
      /\ fifo' = Append(fifo, slots[isr.tail])
      /\ isr' = [isr EXCEPT !.tail = Advance(isr.tail, 1)]
      /\ UNCHANGED <<HeadIndex, TailIndex, slots, next, last>>
  BY DEF IsrMove, FromSlot, ring
<1>2. PipeTail = isr.tail /\ PipeTail' = Advance(isr.tail, 1)
  BY <1>1 DEF PipeTail, TypeOK
<1>3. isr.tail # HeadIndex
  <2>1. /\ Count(isr.tail, TailIndex) \in Nat /\ Count(isr.head, isr.tail) \in Nat
        /\ Count(isr.head, isr.tail) # 0
        /\ Count(isr.tail, TailIndex) + Count(isr.head, isr.tail) <= Count(HeadIndex, TailIndex)
        /\ Count(HeadIndex, isr.tail) = Count(HeadIndex, TailIndex) - Count(isr.tail, TailIndex)
        /\ Count(HeadIndex, TailIndex) \in Nat
    BY <1>1, RoutineAt DEF RingInv
  <2>2. Count(HeadIndex, isr.tail) # 0
    BY <2>1
  <2>3. HeadIndex \in Slots /\ isr.tail \in Slots
    BY DEF TypeOK
  <2>. QED
    BY <2>2, <2>3, CountInRange
<1>. DEFINE B == 1 .. MaxBytes
            x == slots[isr.tail]
            rest == Contents(slots, HeadIndex, Advance(isr.tail, 1))
<1>4. x \in B /\ rest \in Seq(B) /\ Buffered = <<x>> \o rest
  <2>1. /\ isr.tail \in Slots /\ HeadIndex \in Slots
        /\ \A i \in 1 .. Count(HeadIndex, isr.tail) : slots[Advance(isr.tail, i - 1)] \in B
    BY <1>2, PipeSlots
  <2>2. Buffered = Contents(slots, HeadIndex, isr.tail)
    BY <1>2 DEF Buffered
  <2>3. HeadIndex # isr.tail
    BY <1>3
  <2>. HIDE DEF B
  <2>4. /\ slots[isr.tail] \in B /\ Contents(slots, HeadIndex, Advance(isr.tail, 1)) \in Seq(B)
        /\ Contents(slots, HeadIndex, isr.tail)
             = <<slots[isr.tail]>> \o Contents(slots, HeadIndex, Advance(isr.tail, 1))
    <3>. DEFINE t == isr.tail
                E == <<slots[t]>>
    <3>1. /\ t \in Slots /\ HeadIndex \in Slots /\ HeadIndex # t
          /\ \A i \in 1 .. Count(HeadIndex, t) : slots[Advance(t, i - 1)] \in B
      BY <2>1, <2>3
    <3>. HIDE DEF t
    <3>2. slots[t] \in B /\ Contents(slots, HeadIndex, Advance(t, 1)) \in Seq(B)
      BY <3>1, OldestStored
    <3>3. E = <<slots[t]>> /\ E \in Seq(B)
      BY <3>2
    <3>. HIDE DEF E
    <3>4. Contents(slots, HeadIndex, t) = E \o Contents(slots, HeadIndex, Advance(t, 1))
      BY <3>1, <3>3, ContentsOldest
    <3>. QED
      BY <3>2, <3>4 DEF t, E
  <2>. QED
    BY <2>2, <2>4
<1>5. fifo \in Seq(B) /\ Pipe = fifo \o Buffered
  BY PipeType
<1>6. Pipe' = Append(fifo, x) \o rest
  BY <1>1, <1>2 DEF Pipe, PipeTail
<1>. HIDE DEF B, x, rest
<1>7. Append(fifo, x) = fifo \o <<x>>
  BY <1>4, <1>5, AppendIsConcat
<1>8. (fifo \o <<x>>) \o rest = fifo \o (<<x>> \o rest)
  <2>1. <<x>> \in Seq(B)
    BY <1>4
  <2>. QED
    BY <1>4, <1>5, <2>1, ConcatAssociative
<1>. QED
  BY <1>1, <1>4, <1>5, <1>6, <1>7, <1>8

\* Every step is one of BytePipe or a stutter.
LEMMA PipeStep ==
  ASSUME Inv, [Next]_vars
  PROVE  [BytePipe!Next]_<<Pipe, next, last>>
<1>1. CASE WriteTxd \/ Publish
  BY <1>1, AcceptStep DEF BytePipe!Next
<1>2. CASE HwShift
  BY <1>2, DeliverStep DEF BytePipe!Next
<1>3. CASE Purge
  BY <1>3, DiscardStep DEF BytePipe!Next
<1>4. CASE EnqueueCopy \/ IsrMove
  BY <1>4, CopyOutside, MoveInside
<1>5. CASE Control \/ WriteBuffer \/ \E n \in 1 .. MaxLength : Write(n)
  <2>1. UNCHANGED <<HeadIndex, TailIndex, slots, fifo, isr, next, last>>
    BY <1>5 DEF Control, Dpc, FifoWritten, WriteEnablesTrdy, WriteReturns, EnableReadyNotification,
                DrainFifo, CancelReadyNotification, CancelDrainFifo, DpcStart, DpcReady, DpcDrained,
                DpcPurged, WriteBuffer, Write, ring
  <2>. QED
    BY <2>1 DEF Pipe
<1>6. CASE IsrEnter \/ IsrMoved \/ IsrNotify
  <2>1. UNCHANGED <<HeadIndex, slots, fifo, next, last>>
    BY <1>6 DEF IsrEnter, IsrMoved, IsrNotify, ring
  <2>2. UNCHANGED PipeTail
    BY <1>6 DEF IsrEnter, IsrMoved, IsrNotify, PipeTail, NewTail, ring, Inv, TypeOK
  <2>. QED
    BY <2>1, <2>2 DEF Pipe, PipeTail
<1>7. CASE UNCHANGED vars
  BY <1>7 DEF vars, ring, Pipe
<1>. QED
  BY <1>1, <1>2, <1>3, <1>4, <1>5, <1>6, <1>7
  DEF Next, Writing, Asking, Isr, Control, Purge

\* Transmission implements BytePipe: bytes reach the line in the order in which
\* WriteBuffer accepted them, none twice, and none is missing but the newest at a purge
\* (imxuart.cpp:303-317, 1024-1048).
THEOREM TransmissionInOrder == Spec => SendsInOrder
<1>1. Init => BytePipe!Init
  <2>. SUFFICES ASSUME Init PROVE BytePipe!Init
    OBVIOUS
  <2>1. 0 \in Slots
    BY SizeAssumption DEF Slots
  <2>2. Pipe = <<>> \o Contents(slots, 0, 0)
    BY DEF Init, Pipe
  <2>3. Pipe = <<>>
    BY <2>1, <2>2, ContentsEmpty
  <2>. QED
    BY <2>3 DEF Init, BytePipe!Init
<1>2. Inv /\ [Next]_vars => [BytePipe!Next]_<<Pipe, next, last>>
  BY PipeStep
<1>. QED
  BY <1>1, <1>2, Invariance, PTL DEF Spec, SendsInOrder, BytePipe!Spec
=============================================================================
