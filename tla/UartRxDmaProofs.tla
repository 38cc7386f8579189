---------------------------- MODULE UartRxDmaProofs ---------------------------
(***************************************************************************)
(* Theorems about reception by DMA, for every size of the cyclic buffer,   *)
(* every request and every number of bytes, when no request is cancelled   *)
(* before its transaction has been started (CancelledAtStart is FALSE).    *)
(*                                                                         *)
(* Starting thread, timer, completion callback, cancellation and reader    *)
(* each take the Lock for a part of what they do.  The invariant says what *)
(* each of them may rely on when it takes the Lock again: where the counted *)
(* bytes are, and who still has the request and its buffer.                *)
(***************************************************************************)
EXTENDS UartRxDma, SequenceTheorems, TLAPS

\* Between its assignments and its cleanup a transaction is under way.
UnderWay == io.pc \in {"enable", "copy", "finish", "arm", "started"}

\* Whoever uses the buffer finds the DMA started; stopping it forgets the pending bytes.
DmaOn ==
  /\ ~ At("idle") \/ RXDMAEN \/ RxDmaState \in Active => IsRxDmaStarted
  /\ ~ IsRxDmaStarted => DmaBufferPendingBytes = 0

\* Bytes that were counted are in the hands of a callback that is to copy them, or of the
\* reader.
InHand ==
  /\ io.bytes # 0 => At("residue")
  /\ \A c \in Callbacks : call[c].bytes # 0 => call[c].pc = "copy"

\* Between two requests there is nothing to complete and no buffer to write to; SerCx2
\* asks for at least a byte.
AtRest ==
  /\ At("idle") \/ At("residue") => ~ WdfRequest /\ ~ BufferMdlPtr
  /\ ~ At("idle") => io.length # 0

\* Nobody looks at a transaction whose fields are being assigned.
Assigning ==
  io.pc \in AssignPcs =>
    /\ Settled
    /\ taken = <<>> /\ ~ io.completed
    /\ WdfRequest <=> ~ At("assign")
    /\ BufferMdlPtr <=> io.pc \in {"length", "counts"}

\* The request's bytes are in its buffer until it is completed, a completed request has no
\* room left for more, and who is about to complete it has filled it.
Request ==
  /\ ~ WdfRequest => taken = <<>>
  /\ At("counts") \/ UnderWay => TransferLength # 0
  /\ UnderWay =>
       /\ WdfRequest <=> ~ io.completed
       /\ WdfRequest => Len(taken) = BytesTransferred
       /\ BufferMdlPtr /\ ~ WdfRequest => BytesTransferred = TransferLength
       /\ WdfRequest => BufferMdlPtr
       /\ WdfRequest /\ (At("finish") \/ \E c \in Callbacks : call[c].pc = "finish")
            => BytesTransferred = TransferLength

\* What is in the pipe was stored by the DMA.
Stored == Pipe \in Seq(1 .. MaxBytes)

Inv == TypeOK /\ BytesAccounted /\ DmaOn /\ InHand /\ AtRest /\ Assigning /\ Request /\ Stored

-----------------------------------------------------------------------------
(* Positions in the cyclic buffer, without the modulo.                     *)

Step(p, n) == IF p + n >= DmaBufferSize THEN p + n - DmaBufferSize ELSE p + n
Gap(p, q) == IF q >= p THEN q - p ELSE DmaBufferSize - p + q
From(s, p, n) == [i \in 1 .. n |-> s[Step(p, i - 1)]]

\* n positions further in the cyclic buffer, n at most its size.
LEMMA StepValue ==
  ASSUME NEW p \in Positions, NEW n \in 0 .. DmaBufferSize
  PROVE  (p + n) % DmaBufferSize = Step(p, n) /\ Step(p, n) \in Positions
<1>. DEFINE D == DmaBufferSize
<1>1. D \in Nat /\ D > 1 /\ p \in Nat /\ n \in Nat /\ p < D /\ n <= D
  BY UartRxDmaAssumption DEF Positions
<1>. HIDE DEF D
<1>2. CASE p + n < D
  BY <1>1, <1>2 DEF D, Step, Positions
<1>3. CASE p + n >= D
  <2>1. (p + n - D) % D = p + n - D
    BY <1>1, <1>3
  <2>2. (p + n) % D = (p + n - D) % D
    BY <1>1, <1>3
  <2>. QED
    BY <1>1, <1>3, <2>1, <2>2 DEF D, Step, Positions
<1>. QED
  BY <1>1, <1>2, <1>3

\* The distance from one position to another is less than the buffer.
LEMMA GapValue ==
  ASSUME NEW p \in Positions, NEW q \in Positions
  PROVE  (q - p) % DmaBufferSize = Gap(p, q) /\ Gap(p, q) \in Positions
<1>. DEFINE D == DmaBufferSize
<1>1. D \in Nat /\ D > 1 /\ p \in Nat /\ q \in Nat /\ p < D /\ q < D
  BY UartRxDmaAssumption DEF Positions
<1>. HIDE DEF D
<1>2. CASE q >= p
  BY <1>1, <1>2 DEF D, Gap, Positions
<1>3. CASE q < p
  <2>1. (D - p + q) % D = D - p + q
    BY <1>1, <1>3
  <2>2. (q - p) % D = (D - p + q) % D
    BY <1>1, <1>3
  <2>. QED
    BY <1>1, <1>3, <2>1, <2>2 DEF D, Gap, Positions
<1>. QED
  BY <1>1, <1>2, <1>3

\* A byte more is stored, and n bytes are taken.
LEMMA GapMoves ==
  ASSUME NEW p \in Positions, NEW q \in Positions, NEW n \in 0 .. Gap(p, q)
  PROVE  /\ Gap(Step(p, n), q) = Gap(p, q) - n
         /\ Gap(p, q) < DmaBufferSize - 1 => Gap(p, Step(q, 1)) = Gap(p, q) + 1
         /\ Step(p, Gap(p, q)) = q
  BY UartRxDmaAssumption DEF Positions, Gap, Step

\* What is read from the buffer is a sequence of its bytes.
LEMMA FromType ==
  ASSUME NEW B, NEW s \in [Positions -> B], NEW p \in Positions, NEW n \in 0 .. DmaBufferSize
  PROVE  From(s, p, n) \in Seq(B) /\ Len(From(s, p, n)) = n
<1>1. n \in Nat
  BY UartRxDmaAssumption
<1>2. ASSUME NEW i \in 1 .. n PROVE s[Step(p, i - 1)] \in B
  <2>1. i - 1 \in 0 .. DmaBufferSize
    BY <1>1, UartRxDmaAssumption
  <2>. QED
    BY <2>1, StepValue
<1>. QED
  BY <1>1, <1>2 DEF From

\* What is taken, and what stays.
LEMMA FromSplit ==
  ASSUME NEW s \in [Positions -> 0 .. MaxBytes], NEW p \in Positions, NEW m \in Positions, NEW n \in 0 .. m
  PROVE  /\ From(s, p, n) \in Seq(0 .. MaxBytes) /\ From(s, Step(p, n), m - n) \in Seq(0 .. MaxBytes)
         /\ From(s, p, m) = From(s, p, n) \o From(s, Step(p, n), m - n)
<1>. DEFINE B == 0 .. MaxBytes
<1>1. /\ n \in 0 .. DmaBufferSize /\ m \in 0 .. DmaBufferSize /\ m - n \in 0 .. DmaBufferSize
      /\ n \in Nat /\ m \in Nat /\ m - n \in Nat
  BY UartRxDmaAssumption DEF Positions
<1>2. Step(p, n) \in Positions
  BY <1>1, StepValue
<1>. DEFINE u == From(s, p, n)
            v == From(s, Step(p, n), m - n)
<1>3. u \in Seq(B) /\ Len(u) = n /\ v \in Seq(B) /\ Len(v) = m - n
  BY <1>1, <1>2, FromType, ZenonT(60)
<1>4. From(s, p, m) \in Seq(B) /\ Len(From(s, p, m)) = m
  BY <1>1, FromType
<1>5. ASSUME NEW i \in 1 .. m PROVE From(s, p, m)[i] = (u \o v)[i]
  <2>1. CASE i <= n
    <3>1. i \in 1 .. n
      BY <1>1, <2>1
    <3>2. (u \o v)[i] = u[i]
      BY <1>3, <3>1, ConcatProperties
    <3>. QED
      BY <3>1, <3>2 DEF From
  <2>2. CASE i > n
    <3>1. i - n \in 1 .. m - n
      BY <1>1, <2>2
    <3>2. (u \o v)[i] = v[i - n]
      BY <1>1, <1>3, <2>2, ConcatProperties, SMTT(30)
    <3>3. v[i - n] = s[Step(Step(p, n), i - n - 1)]
      BY <3>1 DEF From
    <3>4. Step(Step(p, n), i - n - 1) = Step(p, i - 1)
      BY <1>1, <2>2, UartRxDmaAssumption DEF Step, Positions
    <3>. QED
      BY <3>2, <3>3, <3>4 DEF From
  <2>3. n \in Int /\ i \in Int
    BY <1>1
  <2>4. i <= n \/ i > n
    BY <2>3
  <2>. QED
    BY <2>1, <2>2, <2>4
<1>. HIDE DEF u, v
<1>6. u \o v \in Seq(B) /\ Len(u \o v) = m
  <2>1. u \o v \in Seq(B) /\ Len(u \o v) = Len(u) + Len(v)
    BY <1>3, ConcatProperties
  <2>2. n + (m - n) = m
    BY <1>1
  <2>. QED
    BY <1>3, <2>1, <2>2
<1>7. From(s, p, m) = u \o v
  BY <1>4, <1>5, <1>6, SeqEqual
<1>. QED
  BY <1>3, <1>7 DEF u, v

\* A byte is stored behind the others.
LEMMA FromStored ==
  ASSUME NEW s \in [Positions -> 0 .. MaxBytes], NEW p \in Positions, NEW q \in Positions,
         NEW v \in 0 .. MaxBytes, NEW t, t = [s EXCEPT ![q] = v], Gap(p, q) < DmaBufferSize - 1
  PROVE  From(t, p, Gap(p, q) + 1) = Append(From(s, p, Gap(p, q)), v)
<1>. DEFINE B == 0 .. MaxBytes
<1>0. t \in [Positions -> B] /\ t[q] = v /\ \A r \in Positions \ {q} : t[r] = s[r]
  OBVIOUS
<1>. DEFINE m == Gap(p, q)
<1>1. m \in 0 .. DmaBufferSize /\ m + 1 \in 0 .. DmaBufferSize /\ m \in Nat
  <2>1. m \in Positions
    BY GapValue
  <2>. HIDE DEF m
  <2>. QED
    BY <2>1, UartRxDmaAssumption DEF Positions
<1>2. From(s, p, m) \in Seq(B) /\ Len(From(s, p, m)) = m
  BY <1>1, FromType
<1>3. p \in Positions /\ t \in [Positions -> B]
  BY <1>0
<1>4. From(t, p, m + 1) \in Seq(B) /\ Len(From(t, p, m + 1)) = m + 1
  <2>. HIDE DEF m, B
  <2>. QED
    BY ONLY <1>1, <1>3, FromType
<1>5. ASSUME NEW i \in 1 .. m + 1 PROVE From(t, p, m + 1)[i] = Append(From(s, p, m), v)[i]
  <2>1. From(t, p, m + 1)[i] = t[Step(p, i - 1)]
    BY DEF From
  <2>2. i - 1 \in 0 .. DmaBufferSize /\ Step(p, i - 1) \in Positions
    <3>. HIDE DEF m
    <3>1. i - 1 \in 0 .. DmaBufferSize
      BY <1>1, UartRxDmaAssumption
    <3>. QED
      BY <3>1, StepValue
  <2>3. Step(p, i - 1) = q <=> i = m + 1
    BY <1>1, UartRxDmaAssumption DEF Step, Gap, Positions
  <2>4. CASE i = m + 1
    BY <1>2, <2>1, <2>2, <2>3, <2>4, AppendProperties
  <2>5. CASE i # m + 1
    <3>1. i \in 1 .. m
      BY <1>1, <2>5
    <3>2. Append(From(s, p, m), v)[i] = From(s, p, m)[i]
      BY <1>2, <3>1, AppendProperties
    <3>. QED
      BY <2>1, <2>2, <2>3, <2>5, <3>1, <3>2 DEF From
  <2>. QED
    BY <2>4, <2>5
<1>. HIDE DEF m
<1>6. Append(From(s, p, m), v) \in Seq(B) /\ Len(Append(From(s, p, m), v)) = m + 1
  BY <1>2, AppendProperties
<1>7. From(t, p, m + 1) = Append(From(s, p, m), v)
  BY <1>4, <1>5, <1>6, SeqEqual
<1>. QED
  BY <1>7 DEF m

-----------------------------------------------------------------------------
(* The pipe, the counts, and the records of threads and callbacks.         *)

Pcs == AssignPcs \cup {"idle", "enable", "copy", "finish", "arm", "started", "residue"}
CallPcs == {"off", "count", "copy", "finish", "rearm"}
Requests == [pc: Pcs, length: 0 .. MaxLength, bytes: Positions, completed: BOOLEAN]
Calls == [pc: CallPcs, bytes: Positions]

\* The types of the records, field by field, as the provers need them.
LEMMA RecordTypes ==
  ASSUME TypeOK
  PROVE  /\ io \in Requests /\ io.bytes \in Nat
         /\ call \in [Callbacks -> Calls] /\ \A c \in Callbacks : call[c].bytes \in Nat
         /\ "timer" \in Callbacks /\ "complete" \in Callbacks
<1>1. Positions \subseteq Nat
  BY UartRxDmaAssumption DEF Positions
<1>2. io \in Requests /\ call \in [Callbacks -> Calls]
  BY DEF TypeOK, Requests, Calls, Pcs, CallPcs
<1>. QED
  BY <1>1, <1>2 DEF Requests, Calls, Callbacks

InCalls == call["timer"].bytes + call["complete"].bytes

\* A callback's step changes its own record only.
LEMMA CallMoves ==
  ASSUME TypeOK, NEW c \in Callbacks, NEW r \in Calls, call' = [call EXCEPT ![c] = r]
  PROVE  /\ call' \in [Callbacks -> Calls] /\ call'[c] = r
         /\ \A d \in Callbacks \ {c} : call'[d] = call[d]
         /\ InCalls' = InCalls - call[c].bytes + r.bytes
<1>1. /\ call \in [Callbacks -> Calls] /\ \A d \in Callbacks : call[d].bytes \in Nat
      /\ "timer" \in Callbacks /\ "complete" \in Callbacks
  BY RecordTypes
<1>2. call' \in [Callbacks -> Calls] /\ call'[c] = r /\ \A d \in Callbacks \ {c} : call'[d] = call[d]
  BY <1>1
<1>3. \A d \in Callbacks : call'[d].bytes \in Nat
  BY <1>2, UartRxDmaAssumption DEF Calls, Positions
<1>4. CASE c = "timer"
  <2>1. call'["complete"] = call["complete"]
    BY <1>1, <1>2, <1>4
  <2>. QED
    BY <1>1, <1>2, <1>3, <1>4, <2>1 DEF InCalls
<1>5. CASE c = "complete"
  <2>1. call'["timer"] = call["timer"]
    BY <1>1, <1>2, <1>5
  <2>. QED
    BY <1>1, <1>2, <1>3, <1>5, <2>1 DEF InCalls
<1>. QED
  BY <1>4, <1>5 DEF Callbacks

\* A callback goes on to its next section and keeps the bytes it has counted.
LEMMA CallGoes ==
  ASSUME TypeOK, NEW c \in Callbacks, NEW from, NEW to \in CallPcs, Call(c, from, to)
  PROVE  /\ call[c].pc = from
         /\ call' \in [Callbacks -> Calls] /\ call'[c] = [pc |-> to, bytes |-> call[c].bytes]
         /\ \A d \in Callbacks \ {c} : call'[d] = call[d]
         /\ InCalls' = InCalls
<1>. DEFINE r == [pc |-> to, bytes |-> call[c].bytes]
<1>1. call \in [Callbacks -> Calls] /\ call[c].bytes \in Nat
  BY RecordTypes
<1>2. r \in Calls /\ r.bytes = call[c].bytes
  BY <1>1 DEF Calls
<1>3. call' = [call EXCEPT ![c] = r]
  <2>1. call' = [call EXCEPT ![c] = [call[c] EXCEPT !.pc = to]]
    BY DEF Call
  <2>2. call[c] \in Calls
    BY <1>1
  <2>3. [call[c] EXCEPT !.pc = to] = r
    BY <2>2 DEF Calls
  <2>. QED
    BY <2>1, <2>3
<1>4. InCalls \in Nat
  BY RecordTypes DEF InCalls
<1>. HIDE DEF r
<1>5. /\ call' \in [Callbacks -> Calls] /\ call'[c] = r
      /\ \A d \in Callbacks \ {c} : call'[d] = call[d]
      /\ InCalls' = InCalls - call[c].bytes + r.bytes
  BY <1>2, <1>3, CallMoves
<1>. QED
  BY <1>1, <1>2, <1>4, <1>5 DEF Call, r

\* The unread bytes are the distance from the read position to the DMA's counter.
LEMMA UnreadValue ==
  ASSUME dmaCounter \in Positions, DmaBufferReadPos \in Positions
  PROVE  Unread = Gap(DmaBufferReadPos, dmaCounter) /\ Unread \in Positions
  BY GapValue DEF Unread

\* The bytes not yet counted are the distance from the counter's last value to the counter.
LEMMA NewBytesValue ==
  ASSUME dmaCounter \in Positions, LastDmaCounter \in Positions
  PROVE  NewBytes = Gap(LastDmaCounter, dmaCounter) /\ NewBytes \in Positions
  BY GapValue DEF NewBytes, Gap

\* The bytes FromBuffer returns, without the modulo.
LEMMA FromBufferValue ==
  ASSUME DmaBufferReadPos \in Positions, NEW n \in 0 .. DmaBufferSize
  PROVE  FromBuffer(n) = From(slots, DmaBufferReadPos, n)
<1>1. ASSUME NEW i \in 1 .. n
      PROVE  (DmaBufferReadPos + i - 1) % DmaBufferSize = Step(DmaBufferReadPos, i - 1)
  <2>1. i - 1 \in 0 .. DmaBufferSize /\ DmaBufferReadPos + i - 1 = DmaBufferReadPos + (i - 1)
    BY UartRxDmaAssumption DEF Positions
  <2>. QED
    BY <2>1, StepValue
<1>. QED
  BY <1>1 DEF FromBuffer, From

Content ==
  IF IsRxDmaStarted THEN From(slots, DmaBufferReadPos, Gap(DmaBufferReadPos, dmaCounter)) ELSE <<>>

\* The pipe is what has been taken for the request, then what the buffer holds.
LEMMA PipeValue ==
  ASSUME dmaCounter \in Positions, DmaBufferReadPos \in Positions
  PROVE  Pipe = taken \o Content
<1>1. Unread = Gap(DmaBufferReadPos, dmaCounter) /\ Unread \in Positions
  BY UnreadValue
<1>2. Unread \in 0 .. DmaBufferSize
  BY <1>1, UartRxDmaAssumption DEF Positions
<1>3. FromBuffer(Unread) = From(slots, DmaBufferReadPos, Unread)
  BY <1>2, FromBufferValue
<1>. QED
  BY <1>1, <1>3 DEF Pipe, Content

\* The same after a step.
LEMMA UnreadNext ==
  ASSUME dmaCounter' \in Positions, DmaBufferReadPos' \in Positions
  PROVE  Unread' = Gap(DmaBufferReadPos', dmaCounter') /\ Unread' \in Positions
  BY GapValue DEF Unread

\* The same after a step.
LEMMA PipeNext ==
  ASSUME dmaCounter' \in Positions, DmaBufferReadPos' \in Positions
  PROVE  Pipe' = taken' \o Content'
<1>1. Unread' = Gap(DmaBufferReadPos', dmaCounter') /\ Unread' \in Positions
  BY UnreadNext
<1>2. ASSUME NEW i \in 1 .. Unread'
      PROVE  (DmaBufferReadPos' + i - 1) % DmaBufferSize = Step(DmaBufferReadPos', i - 1)
  <2>1. Unread' \in Nat /\ Unread' < DmaBufferSize /\ DmaBufferReadPos' \in Nat
    BY <1>1, UartRxDmaAssumption DEF Positions
  <2>. HIDE DEF Unread
  <2>2. i - 1 \in 0 .. DmaBufferSize /\ DmaBufferReadPos' + i - 1 = DmaBufferReadPos' + (i - 1)
    BY <2>1, UartRxDmaAssumption
  <2>. QED
    BY <2>2, StepValue
<1>3. FromBuffer(Unread)' = From(slots', DmaBufferReadPos', Unread')
  <2>1. FromBuffer(Unread)' = [i \in 1 .. Unread' |-> slots'[(DmaBufferReadPos' + i - 1) % DmaBufferSize]]
    BY DEF FromBuffer
  <2>. HIDE DEF Unread
  <2>. QED
    BY <1>2, <2>1 DEF From
<1>. QED
  BY <1>1, <1>3 DEF Pipe, Content

\* Where the bytes of the started DMA's buffer are; each part is at most all of them.
LEMMA Accounts ==
  ASSUME TypeOK, BytesAccounted, IsRxDmaStarted
  PROVE  /\ Unread \in Positions /\ NewBytes \in Nat /\ DmaBufferPendingBytes \in Nat
         /\ Unread = DmaBufferPendingBytes + NewBytes + io.bytes + InCalls
         /\ DmaBufferPendingBytes + NewBytes <= Unread
         /\ DmaBufferPendingBytes + io.bytes <= Unread
         /\ \A c \in Callbacks : DmaBufferPendingBytes + call[c].bytes <= Unread
<1>1. /\ dmaCounter \in Positions /\ LastDmaCounter \in Positions /\ DmaBufferReadPos \in Positions
      /\ DmaBufferPendingBytes \in Positions
  BY DEF TypeOK
<1>2. Unread \in Positions /\ NewBytes \in Positions
  BY <1>1, UnreadValue, NewBytesValue
<1>3. /\ io.bytes \in Nat /\ call["timer"].bytes \in Nat /\ call["complete"].bytes \in Nat
  BY RecordTypes
<1>4. Positions \subseteq Nat
  BY UartRxDmaAssumption DEF Positions
<1>5. Unread = DmaBufferPendingBytes + NewBytes + io.bytes + call["timer"].bytes + call["complete"].bytes
  BY DEF BytesAccounted
<1>. HIDE DEF Unread, NewBytes
<1>. QED
  BY <1>1, <1>2, <1>3, <1>4, <1>5 DEF InCalls, Callbacks

-----------------------------------------------------------------------------
(* The steps.                                                              *)

\* The pipe depends on these variables only.
LEMMA PipeSame ==
  ASSUME UNCHANGED <<taken, IsRxDmaStarted, slots, DmaBufferReadPos, dmaCounter>>
  PROVE  Pipe' = Pipe /\ Unread' = Unread
  BY DEF Pipe, FromBuffer, Unread

\* Initially the DMA is stopped and nobody has asked for anything.
LEMMA InitInv == Init => Inv
<1>. SUFFICES ASSUME Init PROVE Inv
  OBVIOUS
<1>1. 0 \in Positions /\ DmaBufferSize \in Nat
  BY UartRxDmaAssumption DEF Positions
<1>2. /\ ~ IsRxDmaStarted /\ taken = <<>> /\ ~ WdfRequest /\ ~ BufferMdlPtr
      /\ io = Idle /\ call = [c \in Callbacks |-> NoCall] /\ RxDmaState = "STOPPED" /\ ~ RXDMAEN
      /\ DmaBufferPendingBytes = 0
  BY DEF Init
<1>3. TypeOK
  <2>1. io \in Requests /\ call \in [Callbacks -> Calls]
    BY <1>1, <1>2, UartRxDmaAssumption DEF Requests, Calls, Idle, NoCall, Pcs, CallPcs
  <2>2. slots \in [Positions -> 0 .. MaxBytes] /\ next \in 1 .. MaxBytes + 1 /\ last \in 0 .. MaxBytes
    BY UartRxDmaAssumption DEF Init
  <2>3. taken \in Seq(1 .. MaxBytes) /\ user \in Seq(0 .. MaxBytes) /\ TransferLength \in 0 .. MaxLength /\ BytesTransferred \in Nat
    BY <1>2, UartRxDmaAssumption DEF Init
  <2>. QED
    BY <1>1, <2>1, <2>2, <2>3 DEF Init, TypeOK, Requests, Calls, Pcs, CallPcs, States
<1>4. Pipe = <<>>
  BY <1>2 DEF Pipe
<1>. QED
  BY <1>2, <1>3, <1>4
  DEF Inv, BytesAccounted, DmaOn, InHand, AtRest, Assigning, Request, Stored, At, UnderWay, Idle, NoCall,
      AssignPcs, Active

\* The DMA stores a byte.
LEMMA StoreStep ==
  ASSUME Inv, HwStore
  PROVE  Inv' /\ Pipe' = Append(Pipe, next) /\ next' = next + 1 /\ last' = last
<1>. TypeOK /\ BytesAccounted
  BY DEF Inv
<1>1. /\ dmaCounter \in Positions /\ LastDmaCounter \in Positions /\ DmaBufferReadPos \in Positions
      /\ slots \in [Positions -> 0 .. MaxBytes] /\ taken \in Seq(1 .. MaxBytes)
      /\ next \in 1 .. MaxBytes + 1 /\ MaxBytes \in Nat
  BY UartRxDmaAssumption DEF TypeOK
<1>2. /\ IsRxDmaStarted /\ next \in 0 .. MaxBytes /\ next \in 1 .. MaxBytes /\ Unread < DmaBufferSize - 1
      /\ slots' = [slots EXCEPT ![dmaCounter] = next] /\ next' = next + 1
      /\ dmaCounter' = (dmaCounter + 1) % DmaBufferSize
      /\ UNCHANGED <<dma, count, buffer, armed, call, cancel, io, last>>
  BY <1>1 DEF HwStore
<1>3. dmaCounter' = Step(dmaCounter, 1) /\ dmaCounter' \in Positions
  <2>1. 1 \in 0 .. DmaBufferSize
    BY UartRxDmaAssumption
  <2>. QED
    BY <1>1, <1>2, <2>1, StepValue
<1>4. /\ Unread = Gap(DmaBufferReadPos, dmaCounter) /\ NewBytes = Gap(LastDmaCounter, dmaCounter)
      /\ NewBytes <= Unread /\ NewBytes \in Nat /\ Unread \in Nat
  <2>1. Unread \in Positions /\ NewBytes <= Unread /\ NewBytes \in Nat
    <3>1. IsRxDmaStarted
      BY <1>2
    <3>2. DmaBufferPendingBytes + NewBytes <= Unread /\ DmaBufferPendingBytes \in Nat /\ NewBytes \in Nat
      BY <3>1, Accounts
    <3>3. Unread \in Positions
      BY <3>1, Accounts
    <3>4. Unread \in Nat
      BY <3>3, UartRxDmaAssumption DEF Positions
    <3>. HIDE DEF Unread, NewBytes
    <3>. QED
      BY <3>2, <3>3, <3>4
  <2>2. Unread \in Nat
    BY <2>1, UartRxDmaAssumption DEF Positions
  <2>. QED
    BY <1>1, <2>1, <2>2, UnreadValue, NewBytesValue
<1>5. Unread' = Unread + 1
  <2>1. Unread' = Gap(DmaBufferReadPos, dmaCounter')
    BY <1>1, <1>2, <1>3, UnreadNext DEF count
  <2>2. 0 \in 0 .. Gap(DmaBufferReadPos, dmaCounter)
    BY <1>4
  <2>. QED
    BY <1>1, <1>2, <1>3, <1>4, <2>1, <2>2, GapMoves, SMTT(30)
<1>6. NewBytes' = NewBytes + 1
  <2>1. NewBytes' = Gap(LastDmaCounter, dmaCounter')
    BY <1>2 DEF NewBytes, Gap, count
  <2>2. 0 \in 0 .. Gap(LastDmaCounter, dmaCounter)
    BY <1>4
  <2>3. Gap(LastDmaCounter, dmaCounter) < DmaBufferSize - 1
    BY <1>2, <1>4, UartRxDmaAssumption
  <2>. QED
    BY <1>1, <1>3, <1>4, <2>1, <2>2, <2>3, GapMoves
<1>7. Pipe' = Append(Pipe, next) /\ Pipe' \in Seq(1 .. MaxBytes)
  <2>. DEFINE B == 0 .. MaxBytes
              g == Gap(DmaBufferReadPos, dmaCounter)
              C == From(slots, DmaBufferReadPos, g)
              Next1 == From(slots', DmaBufferReadPos, g + 1)
  <2>1. Next1 = Append(C, next)
    <3>1. next \in B /\ slots \in [Positions -> B]
      BY <1>1, <1>2
    <3>2. g < DmaBufferSize - 1
      BY <1>2, <1>4
    <3>3. DmaBufferReadPos \in Positions /\ dmaCounter \in Positions
      BY <1>1
    <3>4. slots' = [slots EXCEPT ![dmaCounter] = next]
      BY <1>2
    <3>5. From(slots', DmaBufferReadPos, Gap(DmaBufferReadPos, dmaCounter) + 1)
            = Append(From(slots, DmaBufferReadPos, Gap(DmaBufferReadPos, dmaCounter)), next)
      BY <3>1, <3>2, <3>3, <3>4, FromStored, ZenonT(60)
    <3>. QED
      BY <3>5
  <2>2. C \in Seq(B)
    <3>1. g \in 0 .. DmaBufferSize
      BY <1>2, <1>4, UartRxDmaAssumption
    <3>. HIDE DEF g
    <3>. QED
      BY <1>1, <3>1, FromType
  <2>3. Pipe = taken \o C
    BY <1>1, <1>2, PipeValue DEF Content
  <2>4. Pipe' = taken \o Next1
    <3>1. Pipe' = taken' \o Content'
      BY <1>1, <1>2, <1>3, PipeNext DEF count
    <3>2. Gap(DmaBufferReadPos, dmaCounter') = g + 1
      BY <1>1, <1>2, <1>3, <1>4, <1>5, GapValue DEF Unread, count
    <3>. QED
      BY <1>2, <3>1, <3>2 DEF Content, buffer, dma, count
  <2>5. taken \in Seq(B)
    BY <1>1
  <2>. HIDE DEF C, Next1, B
  <2>6. taken \o Append(C, next) = Append(taken \o C, next)
    <3>1. next \in B
      BY <1>2 DEF B
    <3>. QED
      BY <2>2, <2>5, <3>1, AppendProperties, AppendIsConcat, ConcatAssociative
  <2>. QED
    BY <1>2, <2>1, <2>3, <2>4, <2>6, AppendProperties DEF Inv, Stored
<1>8. TypeOK'
  <2>1. slots' \in [Positions -> 0 .. MaxBytes] /\ next' \in 1 .. MaxBytes + 1
    BY <1>1, <1>2
  <2>2. notify' \in BOOLEAN
    BY DEF HwStore, TypeOK
  <2>. QED
    BY <1>2, <1>3, <2>1, <2>2 DEF TypeOK, dma, count, buffer
<1>9. BytesAccounted'
  <2>1. Unread = DmaBufferPendingBytes + NewBytes + io.bytes + InCalls
    BY <1>2, Accounts
  <2>2. io.bytes \in Nat /\ call["timer"].bytes \in Nat /\ call["complete"].bytes \in Nat
    BY RecordTypes
  <2>3. DmaBufferPendingBytes \in Nat
    BY <1>2, Accounts
  <2>4. UNCHANGED <<DmaBufferPendingBytes, io, call>>
    BY <1>2 DEF count
  <2>. HIDE DEF Unread, NewBytes
  <2>. QED
    BY <1>4, <1>5, <1>6, <2>1, <2>2, <2>3, <2>4 DEF BytesAccounted, InCalls
<1>10. UNCHANGED <<RxDmaState, RXDMAEN, IsRxDmaStarted, DmaBufferPendingBytes, buffer, call, cancel, io>>
  BY <1>2 DEF dma, count
<1>11. DmaOn' /\ InHand' /\ AtRest' /\ Assigning' /\ Request'
  BY <1>10 DEF Inv, DmaOn, InHand, AtRest, Assigning, Request, At, UnderWay, Settled, buffer
<1>. QED
  BY <1>2, <1>7, <1>8, <1>9, <1>11 DEF Inv, Stored

\* What is left of a sequence when its front is taken, and the elements of both.
LEMMA FrontTaken ==
  ASSUME NEW T, NEW u \in Seq(T), NEW v \in Seq(T)
  PROVE  /\ Len(u) \in Nat /\ Len(v) \in Nat /\ Len(u \o v) = Len(u) + Len(v)
         /\ v = SubSeq(u \o v, Len(u) + 1, Len(u \o v))
         /\ \A i \in 1 .. Len(u) : (u \o v)[i] = u[i] /\ i \in 1 .. Len(u \o v)
         /\ \A i \in 1 .. Len(v) : (u \o v)[Len(u) + i] = v[i] /\ Len(u) + i \in 1 .. Len(u \o v)
<1>. DEFINE m == Len(u)
            n == Len(v)
            w == u \o v
<1>1. m \in Nat /\ n \in Nat /\ w \in Seq(T) /\ Len(w) = m + n
  BY ConcatProperties, LenProperties
<1>2. \A i \in 1 .. m + n : w[i] = IF i <= m THEN u[i] ELSE v[i - m]
  BY ConcatProperties
<1>. HIDE DEF m, n, w
<1>3. \A i \in 1 .. m : w[i] = u[i] /\ i \in 1 .. Len(w)
  BY <1>1, <1>2
<1>4. ASSUME NEW i \in 1 .. n PROVE w[m + i] = v[i] /\ m + i \in 1 .. Len(w)
  <2>1. m + i \in 1 .. m + n /\ ~ (m + i <= m) /\ (m + i) - m = i
    BY <1>1
  <2>. QED
    BY <1>1, <1>2, <2>1
<1>5. v = SubSeq(w, m + 1, Len(w))
  <2>. DEFINE x == SubSeq(w, m + 1, m + n)
  <2>1. \A i \in m + 1 .. m + n : w[i] \in T
    BY <1>1, ElementOfSeq
  <2>2. m + 1 \in Int /\ m + n \in Int
    BY <1>1
  <2>3. /\ x \in Seq(T) /\ Len(x) = IF m + 1 <= m + n THEN (m + n) - (m + 1) + 1 ELSE 0
        /\ \A i \in 1 .. (m + n) - (m + 1) + 1 : x[i] = w[m + 1 + i - 1]
    BY <2>1, <2>2, SubSeqProperties
  <2>. HIDE DEF x
  <2>4. Len(x) = n /\ \A i \in 1 .. n : x[i] = w[m + i]
    BY <1>1, <2>3
  <2>5. \A i \in 1 .. n : x[i] = v[i]
    BY <1>4, <2>4
  <2>. QED
    BY <1>1, <2>3, <2>4, <2>5, SeqEqual DEF n, x
<1>. QED
  BY <1>1, <1>3, <1>4, <1>5 DEF m, n, w

\* The parts of a sequence of S are sequences of S.
LEMMA PartsTyped ==
  ASSUME NEW S, NEW T, NEW u \in Seq(T), NEW v \in Seq(T), u \o v \in Seq(S)
  PROVE  u \in Seq(S) /\ v \in Seq(S)
<1>1. \A i \in 1 .. Len(u) : u[i] \in S
  BY FrontTaken, ElementOfSeq
<1>2. \A i \in 1 .. Len(v) : v[i] \in S
  BY FrontTaken, ElementOfSeq
<1>3. Len(u) \in Int /\ Len(v) \in Int
  BY LenProperties
<1>4. SubSeq(u, 1, Len(u)) \in Seq(S) /\ SubSeq(v, 1, Len(v)) \in Seq(S)
  BY <1>1, <1>2, <1>3, SubSeqProperties
<1>. QED
  BY <1>4, SubSeqFull

\* The first k bytes of the buffer, and those behind them.
LEMMA Taken ==
  ASSUME TypeOK, NEW k \in 0 .. Unread
  PROVE  /\ FromBuffer(k) \in Seq(0 .. MaxBytes) /\ Len(FromBuffer(k)) = k
         /\ ReadPos(k) \in Positions
         /\ Gap(ReadPos(k), dmaCounter) = Unread - k
         /\ From(slots, ReadPos(k), Unread - k) \in Seq(0 .. MaxBytes)
         /\ From(slots, DmaBufferReadPos, Unread) = FromBuffer(k) \o From(slots, ReadPos(k), Unread - k)
<1>1. /\ dmaCounter \in Positions /\ DmaBufferReadPos \in Positions
      /\ slots \in [Positions -> 0 .. MaxBytes]
  BY DEF TypeOK
<1>2. Unread = Gap(DmaBufferReadPos, dmaCounter) /\ Unread \in Positions
  BY <1>1, UnreadValue
<1>3. k \in 0 .. DmaBufferSize
  <2>. HIDE DEF Unread
  <2>. QED
    BY <1>2, UartRxDmaAssumption DEF Positions
<1>4. ReadPos(k) = Step(DmaBufferReadPos, k) /\ ReadPos(k) \in Positions
  BY <1>1, <1>3, StepValue DEF ReadPos
<1>5. FromBuffer(k) = From(slots, DmaBufferReadPos, k)
  BY <1>1, <1>3, FromBufferValue
<1>6. Gap(ReadPos(k), dmaCounter) = Unread - k
  BY <1>1, <1>2, <1>4, GapMoves
<1>. DEFINE B == 0 .. MaxBytes
            m == Unread
<1>7. m \in Positions /\ k \in 0 .. m /\ slots \in [Positions -> B]
  BY <1>1, <1>2
<1>. HIDE DEF m
<1>8. /\ From(slots, DmaBufferReadPos, k) \in Seq(B)
      /\ From(slots, Step(DmaBufferReadPos, k), m - k) \in Seq(B)
      /\ From(slots, DmaBufferReadPos, m)
           = From(slots, DmaBufferReadPos, k) \o From(slots, Step(DmaBufferReadPos, k), m - k)
  BY <1>1, <1>7, FromSplit DEF B
<1>9. Len(From(slots, DmaBufferReadPos, k)) = k
  BY <1>1, <1>3, <1>7, FromType
<1>. QED
  BY <1>4, <1>5, <1>6, <1>8, <1>9 DEF m, B

\* The empty sequence is a sequence of anything.
LEMMA EmptyTyped == ASSUME NEW S PROVE <<>> \in Seq(S)
  OBVIOUS

\* Wherever a copy leaves its bytes in the request's buffer, they are bytes that were stored.
LEMMA LandedType ==
  ASSUME NEW n \in 0 .. DmaBufferSize, slots \in [Positions -> 0 .. MaxBytes],
         DmaBufferReadPos \in Positions
  PROVE  Landed(n) \in Seq(0 .. MaxBytes)
<1>. DEFINE first == Least(n, DmaBufferSize - DmaBufferReadPos)
            rest  == n - first
            byte(i) == IF i <= rest THEN slots[i - 1]
                       ELSE IF i <= first THEN slots[DmaBufferReadPos + i - 1]
                       ELSE 0
<1>1. /\ n \in Nat /\ DmaBufferReadPos \in 0 .. DmaBufferSize - 1 /\ DmaBufferSize \in Nat
      /\ MaxBytes \in Nat
  BY UartRxDmaAssumption DEF Positions
<1>2. first \in Nat /\ first <= DmaBufferSize - DmaBufferReadPos /\ rest \in Nat /\ rest <= n
  BY <1>1 DEF Least
<1>3. ASSUME NEW i \in 1 .. n PROVE byte(i) \in 0 .. MaxBytes
  <2>1. i <= rest => i - 1 \in Positions
    BY <1>1, <1>2 DEF Positions
  <2>2. i <= first => DmaBufferReadPos + i - 1 \in Positions
    BY <1>1, <1>2 DEF Positions
  <2>. QED
    BY <1>1, <2>1, <2>2
<1>4. Landed(n) = [i \in 1 .. n |-> byte(i)]
  BY DEF Landed
<1>. HIDE DEF byte
<1>. QED
  BY <1>1, <1>3, <1>4

\* CopyToUserBuffer moves the request's bytes out of the cyclic buffer: the pipe does not notice.
LEMMA Copied ==
  ASSUME Inv, NEW n \in Nat, IsRxDmaStarted => DmaBufferPendingBytes + n <= Unread,
         CopyToUserBuffer(n), UNCHANGED <<slots, dmaCounter, IsRxDmaStarted>>
  PROVE  /\ Pipe' = Pipe
         /\ DmaBufferReadPos' \in Positions /\ DmaBufferPendingBytes' \in Positions
         /\ taken' \in Seq(1 .. MaxBytes) /\ user' \in Seq(0 .. MaxBytes) /\ BytesTransferred' \in Nat
         /\ IsRxDmaStarted =>
              /\ CopyCount(n) \in 0 .. DmaBufferPendingBytes + n
              /\ DmaBufferPendingBytes' = DmaBufferPendingBytes + n - CopyCount(n)
              /\ Unread' = Unread - CopyCount(n)
              /\ BytesTransferred' = BytesTransferred + CopyCount(n)
              /\ Len(taken') = Len(taken) + CopyCount(n)
<1>. TypeOK /\ BytesAccounted
  BY DEF Inv
<1>1. /\ dmaCounter \in Positions /\ DmaBufferReadPos \in Positions /\ DmaBufferPendingBytes \in Positions
      /\ taken \in Seq(1 .. MaxBytes) /\ user \in Seq(0 .. MaxBytes)
      /\ BytesTransferred \in Nat /\ TransferLength \in Nat /\ DmaBufferSize \in Nat
      /\ slots \in [Positions -> 0 .. MaxBytes]
  BY UartRxDmaAssumption DEF TypeOK
<1>2. CASE ~ IsRxDmaStarted
  BY <1>1, <1>2, PipeSame DEF CopyToUserBuffer
<1>3. CASE IsRxDmaStarted
  <2>. DEFINE k == CopyCount(n)
              R == From(slots, ReadPos(k), Unread - k)
              T == FromBuffer(k)
              B == 0 .. MaxBytes
  <2>1. DmaBufferPendingBytes \in Nat /\ Unread \in Positions /\ Unread \in Nat /\ DmaBufferPendingBytes + n <= Unread
    <3>1. DmaBufferPendingBytes \in Nat /\ Unread \in Positions
      BY <1>3, Accounts
    <3>. QED
      BY <1>3, <3>1, UartRxDmaAssumption DEF Positions
  <2>2. k \in 0 .. DmaBufferPendingBytes + n
    BY <1>1, <2>1 DEF CopyCount, Least
  <2>3. k \in 0 .. Unread
    <3>. HIDE DEF k, Unread
    <3>. QED
      BY <2>1, <2>2
  <2>4. /\ DmaBufferPendingBytes' = DmaBufferPendingBytes + n - k
        /\ DmaBufferReadPos' = ReadPos(k)
        /\ BytesTransferred' = BytesTransferred + k
        /\ taken' = taken \o T /\ user' = user \o Landed(k)
    BY <1>3 DEF CopyToUserBuffer, LeftOver
  <2>5. /\ T \in Seq(B) /\ Len(T) = k /\ R \in Seq(B)
        /\ DmaBufferReadPos' \in Positions
        /\ Gap(DmaBufferReadPos', dmaCounter) = Unread - k
        /\ From(slots, DmaBufferReadPos, Unread) = T \o R
    <3>. HIDE DEF k
    <3>. QED
      BY <2>3, <2>4, Taken
  <2>6. Unread' = Unread - k
    BY <1>1, <2>5, UnreadNext
  <2>7. Pipe = taken \o (T \o R)
    BY <1>1, <1>3, <2>5, PipeValue, UnreadValue DEF Content
  <2>8. Pipe' = (taken \o T) \o R
    <3>1. Pipe' = taken' \o Content'
      BY <1>1, <2>5, PipeNext
    <3>2. Content' = R
      BY <1>3, <2>4, <2>5 DEF Content
    <3>. QED
      BY <2>4, <3>1, <3>2
  <2>. HIDE DEF k, R, T, B
  <2>9. taken \in Seq(B)
    BY <1>1, UartRxDmaAssumption, SeqMonotonic DEF B
  <2>10. (taken \o T) \o R = taken \o (T \o R)
    BY ONLY <2>5, <2>9, ConcatAssociative
  <2>11. taken' \in Seq(B) /\ Len(taken') = Len(taken) + k
    BY <2>4, <2>5, <2>9, ConcatProperties
  <2>12. taken' \in Seq(1 .. MaxBytes)
    <3>1. Pipe \in Seq(1 .. MaxBytes) /\ Pipe = taken' \o R
      BY <2>4, <2>7, <2>10 DEF Inv, Stored
    <3>. QED
      BY ONLY <2>5, <2>11, <3>1, PartsTyped
  <2>13. DmaBufferPendingBytes' \in Positions /\ BytesTransferred' \in Nat
    <3>. HIDE DEF Unread
    <3>. QED
      BY <1>1, <2>1, <2>2, <2>4, UartRxDmaAssumption DEF Positions
  <2>14. user' \in Seq(0 .. MaxBytes)
    <3>1. k \in 0 .. DmaBufferSize
      <4>. HIDE DEF Unread
      <4>. QED
        BY <2>1, <2>3, UartRxDmaAssumption DEF Positions
    <3>2. Landed(k) \in Seq(0 .. MaxBytes)
      BY <1>1, <3>1, LandedType
    <3>. QED
      BY <1>1, <2>4, <3>2, ConcatProperties
  <2>. QED
    BY <1>1, <2>2, <2>4, <2>5, <2>6, <2>7, <2>8, <2>10, <2>11, <2>12, <2>13, <2>14 DEF k
<1>. QED
  BY <1>2, <1>3

\* A completed request's bytes leave the pipe at once.
LEMMA Completed ==
  ASSUME Inv, Len(taken) = BytesTransferred,
         last' = IF BytesTransferred = 0 THEN last ELSE taken[BytesTransferred], taken' = <<>>,
         UNCHANGED <<slots, dmaCounter, IsRxDmaStarted, DmaBufferReadPos, next>>
  PROVE  /\ [BytePipe!Next]_<<Pipe, next, last>>
         /\ Stored' /\ last' \in 0 .. MaxBytes /\ Unread' = Unread
<1>. DEFINE B == 1 .. MaxBytes
            n == BytesTransferred
<1>1. taken \in Seq(B) /\ n \in Nat /\ last \in 0 .. MaxBytes /\ Len(taken) = n
  BY DEF Inv, TypeOK
<1>2. Unread' = Unread /\ FromBuffer(Unread)' = FromBuffer(Unread)
  BY DEF Unread, FromBuffer
<1>. DEFINE X == IF IsRxDmaStarted THEN FromBuffer(Unread) ELSE <<>>
<1>3. Pipe = taken \o X /\ Pipe' = <<>> \o X /\ Pipe \in Seq(B)
  BY <1>2 DEF Pipe, Inv, Stored
<1>4. X \in Seq(0 .. MaxBytes)
  <2>1. Unread \in 0 .. Unread
    <3>1. Unread \in Positions
      BY UnreadValue DEF Inv, TypeOK
    <3>. HIDE DEF Unread
    <3>. QED
      BY <3>1, UartRxDmaAssumption DEF Positions
  <2>. QED
    BY <2>1, Taken DEF Inv
<1>. HIDE DEF X, n
<1>5. taken \in Seq(0 .. MaxBytes)
  BY <1>1, UartRxDmaAssumption, SeqMonotonic
<1>6. Pipe' = X
  BY <1>3, <1>4, ConcatEmptySeq
<1>7. /\ Len(X) \in Nat /\ Len(Pipe) = n + Len(X)
      /\ X = SubSeq(Pipe, n + 1, Len(Pipe))
      /\ \A i \in 1 .. n : Pipe[i] = taken[i]
  <2>. DEFINE w == taken \o X
  <2>1. /\ Len(X) \in Nat /\ Len(w) = Len(taken) + Len(X)
        /\ X = SubSeq(w, Len(taken) + 1, Len(w))
        /\ \A i \in 1 .. Len(taken) : w[i] = taken[i]
    BY ONLY <1>4, <1>5, FrontTaken
  <2>2. Pipe = w
    BY <1>3
  <2>. HIDE DEF w
  <2>. QED
    BY <1>1, <2>1, <2>2
<1>8. X \in Seq(B)
  BY <1>3, <1>4, <1>5, PartsTyped
<1>9. CASE n = 0
  <2>1. taken = <<>>
    BY <1>1, <1>9, EmptySeq
  <2>2. Pipe' = Pipe /\ last' = last
    BY <1>3, <1>6, <1>9, <2>1, <1>4, ConcatEmptySeq DEF n
  <2>. QED
    BY <1>1, <1>2, <1>3, <2>2 DEF Stored
<1>10. CASE n # 0
  <2>1. n \in 1 .. Len(taken) /\ n \in 1 .. Len(Pipe)
    <3>1. n \in Nat /\ Len(taken) = n /\ Len(X) \in Nat /\ Len(Pipe) = n + Len(X)
      BY <1>1, <1>7
    <3>. QED
      BY ONLY <1>10, <3>1
  <2>2. last' = taken[n] /\ taken' = <<>>
    BY <1>10 DEF n
  <2>3. Pipe[n] = taken[n] /\ taken[n] \in B
    BY <1>1, <1>7, <2>1, ElementOfSeq
  <2>4. BytePipe!Deliver
    BY <1>6, <1>7, <2>1, <2>2, <2>3 DEF BytePipe!Deliver
  <2>. QED
    BY <1>2, <1>6, <1>8, <2>2, <2>3, <2>4 DEF Stored, BytePipe!Next
<1>. QED
  BY <1>9, <1>10

\* BytesAccounted after a step, from the sum it states.
LEMMA AccountsNext ==
  ASSUME TypeOK', IsRxDmaStarted' =>
                    /\ NewBytes' \in Nat
                    /\ Unread' = DmaBufferPendingBytes' + NewBytes' + io'.bytes + InCalls'
  PROVE  BytesAccounted'
<1>1. Positions \subseteq Nat
  BY UartRxDmaAssumption DEF Positions
<1>2. /\ call'["timer"].bytes \in Nat /\ call'["complete"].bytes \in Nat
      /\ DmaBufferPendingBytes' \in Nat /\ io'.bytes \in Nat
  BY <1>1 DEF TypeOK, Callbacks
<1>. HIDE DEF Unread, NewBytes
<1>. QED
  BY <1>2 DEF BytesAccounted, InCalls

\* A step that counts, stores and takes no byte leaves the accounts alone.
LEMMA AccountsSame ==
  ASSUME TypeOK, BytesAccounted, InCalls' = InCalls, io'.bytes = io.bytes, TypeOK',
         UNCHANGED <<dmaCounter, LastDmaCounter, DmaBufferReadPos, DmaBufferPendingBytes, IsRxDmaStarted>>
  PROVE  BytesAccounted'
<1>1. /\ call["timer"].bytes \in Nat /\ call["complete"].bytes \in Nat
      /\ call'["timer"].bytes \in Nat /\ call'["complete"].bytes \in Nat
  <2>1. Positions \subseteq Nat
    BY UartRxDmaAssumption DEF Positions
  <2>. QED
    BY <2>1 DEF TypeOK, Callbacks
<1>2. Unread' = Unread /\ NewBytes' = NewBytes
  BY DEF Unread, NewBytes
<1>3. CASE ~ IsRxDmaStarted
  BY <1>3 DEF BytesAccounted
<1>4. CASE IsRxDmaStarted
  <2>1. /\ Unread = DmaBufferPendingBytes + NewBytes + io.bytes + InCalls
        /\ DmaBufferPendingBytes \in Nat /\ NewBytes \in Nat /\ io.bytes \in Nat
    BY <1>4, Accounts, RecordTypes
  <2>. HIDE DEF Unread, NewBytes
  <2>. QED
    BY <1>1, <1>2, <2>1 DEF BytesAccounted, InCalls
<1>. QED
  BY <1>3, <1>4

\* Timer and DMA call back, and a callback arms the timer again.
CallbackMoves == TimerExpires \/ TransferCompletes \/ \E c \in Callbacks : CallbackRearms(c)

\* A callback that begins, is counted out or ends leaves the bytes where they are.
LEMMA CallbackMovesStep ==
  ASSUME Inv, CallbackMoves
  PROVE  Inv' /\ UNCHANGED <<Pipe, next, last>>
<1>. TypeOK /\ BytesAccounted
  BY DEF Inv
<1>1. /\ UNCHANGED <<slots, dmaCounter, next, last, dma, count, buffer, cancel, io>>
      /\ armed' \in BOOLEAN /\ notify' \in BOOLEAN
  BY DEF CallbackMoves, TimerExpires, TransferCompletes, CallbackRearms, Rearmed, hw, TypeOK
<1>2. PICK c \in Callbacks, from \in {"off", "rearm"}, to \in {"off", "count"} :
        Call(c, from, to) /\ (to = "off" \/ MayCall)
  BY DEF CallbackMoves, TimerExpires, TransferCompletes, CallbackRearms, Callbacks
<1>3. /\ call' \in [Callbacks -> Calls] /\ InCalls' = InCalls
      /\ call[c].pc = from /\ call'[c] = [pc |-> to, bytes |-> call[c].bytes]
      /\ \A d \in Callbacks \ {c} : call'[d] = call[d]
  <2>1. to \in CallPcs
    BY DEF CallPcs
  <2>. QED
    BY <1>2, <2>1, CallGoes
<1>4. TypeOK'
  BY <1>1, <1>3 DEF TypeOK, dma, count, buffer, Calls, CallPcs
<1>5. BytesAccounted'
  BY <1>1, <1>3, <1>4, AccountsSame DEF dma, count
<1>6. Pipe' = Pipe
  BY <1>1, PipeSame DEF dma, count, buffer
<1>7. UNCHANGED <<IsRxDmaStarted, RxDmaState, RXDMAEN, DmaBufferPendingBytes, WdfRequest, BufferMdlPtr,
                  TransferLength, BytesTransferred, taken, user, cancel, io>>
  BY <1>1 DEF dma, count, buffer
<1>8. DmaOn' /\ AtRest'
  BY <1>7 DEF Inv, DmaOn, AtRest, At
<1>9. InHand'
  <2>1. call[c].pc # "copy" => call[c].bytes = 0
    BY DEF Inv, InHand
  <2>2. call[c].pc # "copy"
    BY <1>3
  <2>. QED
    BY <1>3, <1>7, <2>1, <2>2 DEF Inv, InHand, At
<1>10. Assigning'
  BY <1>2, <1>3, <1>7 DEF Inv, Assigning, Settled, At, MayCall
<1>11. Request'
  <2>1. ASSUME NEW d \in Callbacks, call'[d].pc = "finish" PROVE call[d].pc = "finish"
    BY <1>3, <2>1
  <2>. QED
    BY <1>7, <2>1 DEF Inv, Request, At, UnderWay
<1>. QED
  BY <1>1, <1>4, <1>5, <1>6, <1>8, <1>9, <1>10, <1>11 DEF Inv, Stored

\* The starting thread assigns, enables and arms; WDF calls the cancellation; SerCx2
\* cleans up.
ThreadMoves ==
  \/ AssignRequest \/ AssignBuffer \/ AssignLength \/ AssignCounts \/ EnableRxDma \/ StartArms
  \/ WdfCancels \/ Cleanup

\* So does the starting thread while it assigns the fields and enables the DMA.
LEMMA ThreadMovesStep ==
  ASSUME ~ CancelledAtStart, Inv, ThreadMoves
  PROVE  Inv' /\ UNCHANGED <<Pipe, next, last>>
<1>. TypeOK /\ BytesAccounted
  BY DEF Inv
<1>. USE DEF At, Goto
<1>1. /\ io \in Requests /\ call \in [Callbacks -> Calls] /\ io.pc \in Pcs /\ io.bytes \in Nat
      /\ io.length \in 0 .. MaxLength
  BY RecordTypes DEF Requests
<1>2. taken = <<>> \/ ~ AssignBuffer
  BY DEF Inv, Assigning, AssignBuffer, AssignPcs
<1>3. UNCHANGED <<slots, dmaCounter, next, last, IsRxDmaStarted, count, taken, call>>
  BY <1>2
  DEF ThreadMoves, EmptyBuffer, AssignRequest, AssignBuffer, AssignLength, AssignCounts, EnableRxDma, StartArms,
      WdfCancels, Cleanup, hw, dma, buffer
<1>4. io' \in Requests /\ io'.bytes = io.bytes
  <2>1. CASE Cleanup
    <3>1. io.bytes = 0 /\ io' = Idle
      BY <2>1 DEF Cleanup, Inv, InHand
    <3>. QED
      BY <3>1, UartRxDmaAssumption DEF Idle, Requests, Pcs, Positions
  <2>2. CASE WdfCancels
    BY <1>1, <2>2 DEF WdfCancels
  <2>3. CASE AssignRequest \/ AssignBuffer \/ AssignLength \/ AssignCounts \/ StartArms
    BY <1>1, <2>3
    DEF AssignRequest, AssignBuffer, AssignLength, AssignCounts, StartArms, Requests, Pcs, AssignPcs
  <2>4. CASE EnableRxDma
    BY <1>1, <2>4 DEF EnableRxDma, Requests, Pcs
  <2>. QED
    BY <2>1, <2>2, <2>3, <2>4 DEF ThreadMoves
<1>5. TypeOK'
  <2>1. /\ {RXDMAEN', WdfRequest', BufferMdlPtr', armed', notify'} \subseteq BOOLEAN
        /\ RxDmaState' \in States /\ cancel' \in {"no", "possible", "called"}
        /\ TransferLength' \in 0 .. MaxLength /\ BytesTransferred' \in Nat
    <3>1. CASE AssignRequest \/ AssignBuffer \/ AssignLength \/ AssignCounts
      <4>1. UNCHANGED <<RXDMAEN, armed, notify, RxDmaState, cancel>>
        BY <3>1 DEF AssignRequest, AssignBuffer, AssignLength, AssignCounts, hw, dma
      <4>2. WdfRequest' \in BOOLEAN /\ BufferMdlPtr' \in BOOLEAN
        BY <3>1 DEF AssignRequest, AssignBuffer, AssignLength, AssignCounts, TypeOK
      <4>3. TransferLength' \in 0 .. MaxLength /\ BytesTransferred' \in Nat
        BY <1>1, <3>1 DEF AssignRequest, AssignBuffer, AssignLength, AssignCounts, TypeOK
      <4>. QED
        BY <4>1, <4>2, <4>3 DEF TypeOK
    <3>2. CASE EnableRxDma \/ StartArms
      BY <3>2 DEF EnableRxDma, StartArms, hw, dma, buffer, TypeOK, States
    <3>3. CASE WdfCancels \/ Cleanup
      BY <3>3 DEF WdfCancels, Cleanup, hw, dma, buffer, TypeOK, States
    <3>. QED
      BY <3>1, <3>2, <3>3 DEF ThreadMoves
  <2>2. user' \in Seq(0 .. MaxBytes)
    <3>1. user' = user \/ user' = <<>>
      BY DEF ThreadMoves, EmptyBuffer, AssignRequest, AssignBuffer, AssignLength, AssignCounts,
             EnableRxDma, StartArms, WdfCancels, Cleanup, buffer
    <3>. QED
      BY <3>1, EmptyTyped DEF TypeOK
  <2>. QED
    BY <1>3, <1>4, <2>1, <2>2 DEF TypeOK, Requests, Pcs, count
<1>6. BytesAccounted'
  BY <1>3, <1>4, <1>5, AccountsSame DEF count, InCalls
<1>7. Pipe' = Pipe
  BY <1>3, PipeSame DEF count
<1>8. DmaOn'
  BY <1>3
  DEF ThreadMoves, AssignRequest, AssignBuffer, AssignLength, AssignCounts, EnableRxDma, StartArms,
      WdfCancels, Cleanup, dma, count, Inv, DmaOn, Active, Idle
<1>9. InHand'
  BY <1>3, <1>4
  DEF ThreadMoves, AssignRequest, AssignBuffer, AssignLength, AssignCounts, EnableRxDma, StartArms,
      WdfCancels, Cleanup, Inv, InHand, Idle
<1>10. CASE WdfCancels
  BY <1>3, <1>5, <1>6, <1>7, <1>8, <1>9, <1>10
  DEF WdfCancels, dma, buffer, Inv, AtRest, Assigning, Settled, Request, UnderWay, Stored
<1>11. CASE Cleanup
  <2>1. AtRest' /\ Assigning' /\ Request'
    BY <1>3, <1>11
    DEF Cleanup, Idle, Inv, AtRest, Assigning, Request, UnderWay, AssignPcs
  <2>. QED
    BY <1>3, <1>5, <1>6, <1>7, <1>8, <1>9, <2>1 DEF Inv, Stored
<1>12. CASE AssignRequest \/ AssignBuffer \/ AssignLength \/ AssignCounts
  <2>1. io.pc \in AssignPcs /\ io'.length = io.length /\ io'.completed = io.completed
    BY <1>1, <1>12 DEF AssignRequest, AssignBuffer, AssignLength, AssignCounts, AssignPcs, Requests
  <2>2. Settled /\ Settled' /\ taken = <<>> /\ ~ io.completed /\ io.length # 0
    BY <1>3, <1>12, <2>1
    DEF Inv, Assigning, AtRest, AssignPcs, Settled, AssignRequest, AssignBuffer, AssignLength, AssignCounts
  <2>3. AtRest'
    BY <1>1, <1>12, <2>1, <2>2
    DEF AssignRequest, AssignBuffer, AssignLength, AssignCounts, AtRest, Requests
  <2>4. Assigning'
    BY <1>1, <1>3, <1>12, <2>1, <2>2
    DEF Inv, Assigning, AssignRequest, AssignBuffer, AssignLength, AssignCounts, AssignPcs, Requests
  <2>5. Request'
    <3>1. CASE AssignCounts
      <4>1. io'.pc = "enable" /\ WdfRequest' /\ BufferMdlPtr' /\ BytesTransferred' = 0
        BY <1>1, <2>1, <3>1 DEF Inv, Assigning, AssignCounts, Requests, AssignPcs
      <4>2. TransferLength' # 0
        BY <3>1 DEF Inv, Request, AssignCounts
      <4>3. Len(taken') = 0
        BY <1>3, <2>2
      <4>4. \A c \in Callbacks : call'[c].pc = "off"
        BY <1>3, <2>2 DEF Settled
      <4>. QED
        BY <1>3, <2>1, <2>2, <4>1, <4>2, <4>3, <4>4 DEF Request, UnderWay
    <3>2. CASE AssignRequest \/ AssignBuffer \/ AssignLength
      BY <1>1, <1>3, <2>1, <2>2, <3>2
      DEF Request, UnderWay, AssignRequest, AssignBuffer, AssignLength, Requests
    <3>. QED
      BY <1>12, <3>1, <3>2
  <2>. QED
    BY <1>3, <1>5, <1>6, <1>7, <1>8, <1>9, <2>3, <2>4, <2>5 DEF Inv, Stored
<1>13. CASE EnableRxDma \/ StartArms
  <2>1. /\ UNCHANGED <<WdfRequest, BufferMdlPtr, TransferLength, BytesTransferred>>
        /\ io'.length = io.length /\ io'.completed = io.completed
        /\ io.pc \in {"enable", "arm"} /\ io'.pc \in {"copy", "started"}
    BY <1>1, <1>13 DEF EnableRxDma, StartArms, buffer, Requests
  <2>2. AtRest' /\ Assigning' /\ Request'
    BY <1>3, <2>1 DEF Inv, AtRest, Assigning, Request, UnderWay, AssignPcs
  <2>. QED
    BY <1>3, <1>5, <1>6, <1>7, <1>8, <1>9, <2>2 DEF Inv, Stored
<1>. QED
  BY <1>10, <1>11, <1>12, <1>13 DEF ThreadMoves

\* A callback takes the DMA's new bytes into its hands.
LEMMA CountStep ==
  ASSUME Inv, NEW c \in Callbacks, GetBytesTransferred(c)
  PROVE  Inv' /\ UNCHANGED <<Pipe, next, last>>
<1>. TypeOK /\ BytesAccounted
  BY DEF Inv
<1>1. /\ call[c].pc = "count" /\ LastDmaCounter' = dmaCounter
      /\ call' = [call EXCEPT ![c] = [pc |-> "copy", bytes |-> NewBytes]]
      /\ UNCHANGED <<slots, dmaCounter, notify, next, last, IsRxDmaStarted, RxDmaState, RXDMAEN,
                     DmaBufferReadPos, DmaBufferPendingBytes, WdfRequest, BufferMdlPtr, TransferLength,
                     BytesTransferred, taken, user, armed, cancel, io>>
  BY DEF GetBytesTransferred, hw, dma, buffer
<1>2. dmaCounter \in Positions /\ NewBytes \in Positions /\ Positions \subseteq Nat
  BY NewBytesValue, UartRxDmaAssumption DEF TypeOK, Positions
<1>3. call[c].bytes = 0
  BY <1>1 DEF Inv, InHand
<1>4. /\ call' \in [Callbacks -> Calls] /\ call'[c] = [pc |-> "copy", bytes |-> NewBytes]
      /\ \A d \in Callbacks \ {c} : call'[d] = call[d]
      /\ InCalls' = InCalls - 0 + NewBytes
  <2>. DEFINE rec == [pc |-> "copy", bytes |-> NewBytes]
  <2>1. rec \in Calls /\ rec.bytes = NewBytes
    BY <1>2 DEF Calls, CallPcs
  <2>. HIDE DEF rec, NewBytes
  <2>2. call' = [call EXCEPT ![c] = rec]
    BY <1>1 DEF rec
  <2>. QED
    BY <1>3, <2>1, <2>2, CallMoves DEF rec
<1>5. TypeOK'
  BY <1>1, <1>2, <1>4 DEF TypeOK, Calls, CallPcs
<1>6. BytesAccounted'
  <2>1. CASE ~ IsRxDmaStarted
    BY <1>1, <2>1 DEF BytesAccounted
  <2>2. CASE IsRxDmaStarted
    <3>1. /\ Unread = DmaBufferPendingBytes + NewBytes + io.bytes + InCalls
          /\ DmaBufferPendingBytes \in Nat /\ NewBytes \in Nat /\ io.bytes \in Nat
      BY <2>2, Accounts, RecordTypes
    <3>2. NewBytes' = 0 /\ Unread' = Unread
      BY <1>1, <1>2 DEF NewBytes, Unread
    <3>3. call["timer"].bytes \in Nat /\ call["complete"].bytes \in Nat
      BY RecordTypes
    <3>4. call'["timer"].bytes \in Nat /\ call'["complete"].bytes \in Nat
      BY <1>2, <1>5 DEF TypeOK, Callbacks
    <3>. HIDE DEF Unread, NewBytes
    <3>. QED
      BY <1>1, <1>4, <3>1, <3>2, <3>3, <3>4 DEF BytesAccounted, InCalls
  <2>. QED
    BY <2>1, <2>2
<1>7. Pipe' = Pipe
  BY <1>1, PipeSame
<1>8. DmaOn' /\ AtRest' /\ Assigning'
  BY <1>1 DEF Inv, DmaOn, AtRest, At, Assigning, Settled
<1>9. InHand'
  BY <1>1, <1>4 DEF Inv, InHand, At
<1>10. Request'
  <2>1. ASSUME NEW d \in Callbacks, call'[d].pc = "finish" PROVE call[d].pc = "finish"
    BY <1>4, <2>1
  <2>. QED
    BY <1>1, <2>1 DEF Inv, Request, At, UnderWay
<1>. QED
  BY <1>1, <1>5, <1>6, <1>7, <1>8, <1>9, <1>10 DEF Inv, Stored

\* A request that is completed or filled gets no more bytes; one that is found to be
\* filled is.
LEMMA CopyMoves ==
  ASSUME Inv, NEW n \in Nat, IsRxDmaStarted => DmaBufferPendingBytes + n <= Unread,
         io.pc \notin AssignPcs, CopyToUserBuffer(n),
         UNCHANGED <<slots, dmaCounter, IsRxDmaStarted, WdfRequest, BufferMdlPtr, TransferLength>>
  PROVE  /\ ~ WdfRequest => taken' = <<>>
         /\ UnderWay => /\ WdfRequest => Len(taken') = BytesTransferred'
                        /\ BufferMdlPtr /\ ~ WdfRequest => BytesTransferred' = TransferLength
                        /\ WdfRequest /\ BytesTransferred = TransferLength => BytesTransferred' = TransferLength
                        /\ WdfRequest /\ RequestFilled(n) => BytesTransferred' = TransferLength
<1>1. /\ DmaBufferPendingBytes \in Nat /\ BytesTransferred \in Nat /\ TransferLength \in Nat
      /\ taken \in Seq(1 .. MaxBytes)
  BY UartRxDmaAssumption DEF Inv, TypeOK, Positions
<1>2. CASE ~ IsRxDmaStarted
  <2>1. io.pc = "idle" /\ ~ WdfRequest
    BY <1>2 DEF Inv, DmaOn, AtRest, At
  <2>2. taken' = taken /\ taken = <<>>
    BY <1>2, <2>1 DEF CopyToUserBuffer, Inv, Request
  <2>. QED
    BY <2>1, <2>2 DEF UnderWay
<1>3. CASE IsRxDmaStarted
  <2>1. /\ BytesTransferred' = BytesTransferred + CopyCount(n) /\ taken' \in Seq(1 .. MaxBytes)
        /\ Len(taken') = Len(taken) + CopyCount(n) /\ CopyCount(n) \in Nat
    <3>. HIDE DEF CopyCount
    <3>. QED
      BY <1>1, <1>3, Copied
  <2>2. ~ BufferMdlPtr \/ BytesTransferred = TransferLength => CopyCount(n) = 0
    BY <1>1 DEF CopyCount, Least
  <2>3. ~ WdfRequest => taken = <<>> /\ (~ BufferMdlPtr \/ BytesTransferred = TransferLength)
    <3>1. UnderWay \/ At("idle") \/ At("residue")
      BY RecordTypes DEF Inv, Requests, Pcs, UnderWay, At
    <3>. QED
      BY <3>1 DEF Inv, Request, AtRest
  <2>4. ~ WdfRequest => taken' = <<>>
    <3>1. ~ WdfRequest => Len(taken') = 0
      BY <2>1, <2>2, <2>3
    <3>. QED
      BY <2>1, <3>1, EmptySeq
  <2>5. UnderWay /\ WdfRequest => Len(taken') = BytesTransferred'
    BY <2>1 DEF Inv, Request
  <2>6. WdfRequest /\ RequestFilled(n) => BytesTransferred' = TransferLength
    BY <1>3, <2>1 DEF RequestFilled
  <2>7. BytesTransferred = TransferLength => BytesTransferred' = TransferLength
    BY <1>1, <2>1, <2>2
  <2>. QED
    BY <2>3, <2>4, <2>5, <2>6, <2>7 DEF Inv, Request
<1>. QED
  BY <1>2, <1>3

\* A callback that has counted copies.
LEMMA CallbackCopyStep ==
  ASSUME Inv, NEW c \in Callbacks, CallbackCopies(c)
  PROVE  Inv' /\ UNCHANGED <<Pipe, next, last>>
<1>. TypeOK /\ BytesAccounted
  BY DEF Inv
<1>. DEFINE n == call[c].bytes
            to == IF RequestFilled(n) THEN "finish" ELSE "rearm"
            rec == [pc |-> to, bytes |-> 0]
<1>1. /\ call[c].pc = "copy" /\ CopyToUserBuffer(n)
      /\ call' = [call EXCEPT ![c] = rec]
      /\ UNCHANGED <<slots, dmaCounter, notify, next, last, IsRxDmaStarted, RxDmaState, RXDMAEN,
                     LastDmaCounter, WdfRequest, BufferMdlPtr, TransferLength, armed, cancel, io>>
  BY DEF CallbackCopies, hw, dma
<1>2. n \in Nat /\ (IsRxDmaStarted => DmaBufferPendingBytes + n <= Unread)
  BY RecordTypes, Accounts
<1>3. io.pc \notin AssignPcs
  BY <1>1 DEF Inv, Assigning, Settled
<1>. HIDE DEF n, to
<1>4. /\ Pipe' = Pipe
      /\ DmaBufferReadPos' \in Positions /\ DmaBufferPendingBytes' \in Positions
      /\ taken' \in Seq(1 .. MaxBytes) /\ user' \in Seq(0 .. MaxBytes) /\ BytesTransferred' \in Nat
      /\ IsRxDmaStarted => /\ CopyCount(n) \in 0 .. DmaBufferPendingBytes + n
                           /\ DmaBufferPendingBytes' = DmaBufferPendingBytes + n - CopyCount(n)
                           /\ Unread' = Unread - CopyCount(n)
  BY <1>1, <1>2, Copied
<1>5. /\ ~ WdfRequest => taken' = <<>>
      /\ UnderWay => /\ WdfRequest => Len(taken') = BytesTransferred'
                     /\ BufferMdlPtr /\ ~ WdfRequest => BytesTransferred' = TransferLength
                     /\ WdfRequest /\ BytesTransferred = TransferLength => BytesTransferred' = TransferLength
                     /\ WdfRequest /\ RequestFilled(n) => BytesTransferred' = TransferLength
  BY <1>1, <1>2, <1>3, CopyMoves
<1>6. /\ call' \in [Callbacks -> Calls] /\ call'[c] = [pc |-> to, bytes |-> 0]
      /\ \A d \in Callbacks \ {c} : call'[d] = call[d]
      /\ InCalls' = InCalls - n + 0
  <2>1. rec \in Calls /\ rec.bytes = 0
    BY UartRxDmaAssumption DEF Calls, CallPcs, Positions, to
  <2>. HIDE DEF rec
  <2>. QED
    BY <1>1, <2>1, CallMoves, ZenonT(60) DEF rec, n
<1>7. TypeOK'
  BY <1>1, <1>4, <1>6 DEF TypeOK, Calls, CallPcs
<1>8. BytesAccounted'
  <2>1. CASE ~ IsRxDmaStarted
    BY <1>1, <2>1 DEF BytesAccounted
  <2>2. CASE IsRxDmaStarted
    <3>1. /\ Unread = DmaBufferPendingBytes + NewBytes + io.bytes + InCalls
          /\ DmaBufferPendingBytes \in Nat /\ NewBytes \in Nat /\ io.bytes \in Nat
      BY <2>2, Accounts, RecordTypes
    <3>2. NewBytes' = NewBytes
      BY <1>1 DEF NewBytes
    <3>3. InCalls \in Nat
      BY RecordTypes DEF InCalls
    <3>4. CopyCount(n) \in Nat /\ io' = io /\ InCalls' = InCalls - n + 0
      BY <1>1, <1>2, <1>4, <1>6, <2>2, <3>1
    <3>5. DmaBufferPendingBytes' = DmaBufferPendingBytes + n - CopyCount(n) /\ Unread' = Unread - CopyCount(n)
      BY <1>4, <2>2
    <3>. HIDE DEF Unread, NewBytes, CopyCount, InCalls
    <3>6. Unread' = DmaBufferPendingBytes' + NewBytes' + io'.bytes + InCalls'
      BY ONLY <1>2, <3>1, <3>2, <3>3, <3>4, <3>5
    <3>. QED
      BY <1>7, <3>1, <3>2, <3>6, AccountsNext
  <2>. QED
    BY <2>1, <2>2
<1>9. DmaOn'
  BY <1>1 DEF Inv, DmaOn, At, CopyToUserBuffer
<1>10. AtRest' /\ Assigning'
  BY <1>1, <1>3 DEF Inv, AtRest, At, Assigning
<1>11. InHand'
  BY <1>1, <1>6 DEF Inv, InHand, At
<1>12. Request'
  <2>1. ASSUME UnderWay, WdfRequest, NEW d \in Callbacks, call'[d].pc = "finish"
        PROVE  BytesTransferred' = TransferLength
    <3>1. CASE d = c
      BY <1>5, <1>6, <2>1, <3>1 DEF to
    <3>2. CASE d # c
      BY <1>5, <1>6, <2>1, <3>2 DEF Inv, Request
    <3>. QED
      BY <3>1, <3>2
  <2>2. UnderWay /\ WdfRequest /\ At("finish") => BytesTransferred' = TransferLength
    BY <1>5 DEF Inv, Request
  <2>. QED
    BY <1>1, <1>5, <2>1, <2>2 DEF Inv, Request, At, UnderWay
<1>. QED
  BY <1>1, <1>4, <1>7, <1>8, <1>9, <1>10, <1>11, <1>12 DEF Inv, Stored

\* The starting thread copies what is pending.
LEMMA StartCopyStep ==
  ASSUME Inv, StartCopies
  PROVE  Inv' /\ UNCHANGED <<Pipe, next, last>>
<1>. TypeOK /\ BytesAccounted
  BY DEF Inv
<1>. DEFINE to == IF RequestFilled(0) THEN "finish" ELSE "arm"
<1>1. /\ At("copy") /\ CopyToUserBuffer(0) /\ Goto(to)
      /\ UNCHANGED <<slots, dmaCounter, notify, next, last, IsRxDmaStarted, RxDmaState, RXDMAEN,
                     LastDmaCounter, WdfRequest, BufferMdlPtr, TransferLength, armed, cancel, call>>
  BY DEF StartCopies, hw, dma
<1>2. 0 \in Nat /\ IsRxDmaStarted /\ UnderWay /\ io.pc \notin AssignPcs
  BY <1>1 DEF Inv, DmaOn, UnderWay, AssignPcs, At
<1>3. DmaBufferPendingBytes + 0 <= Unread
  <2>1. DmaBufferPendingBytes \in Nat /\ io.bytes \in Nat /\ DmaBufferPendingBytes + io.bytes <= Unread
    BY <1>2, Accounts, RecordTypes
  <2>2. Unread \in Nat
    BY <1>2, Accounts, UartRxDmaAssumption DEF Positions
  <2>. HIDE DEF Unread
  <2>. QED
    BY <2>1, <2>2
<1>. HIDE DEF to
<1>4. /\ Pipe' = Pipe
      /\ DmaBufferReadPos' \in Positions /\ DmaBufferPendingBytes' \in Positions
      /\ taken' \in Seq(1 .. MaxBytes) /\ user' \in Seq(0 .. MaxBytes) /\ BytesTransferred' \in Nat
      /\ CopyCount(0) \in 0 .. DmaBufferPendingBytes + 0
      /\ DmaBufferPendingBytes' = DmaBufferPendingBytes + 0 - CopyCount(0)
      /\ Unread' = Unread - CopyCount(0)
  BY <1>1, <1>2, <1>3, Copied
<1>5. /\ ~ WdfRequest => taken' = <<>>
      /\ WdfRequest => Len(taken') = BytesTransferred'
      /\ BufferMdlPtr /\ ~ WdfRequest => BytesTransferred' = TransferLength
      /\ WdfRequest /\ BytesTransferred = TransferLength => BytesTransferred' = TransferLength
      /\ WdfRequest /\ RequestFilled(0) => BytesTransferred' = TransferLength
  BY <1>1, <1>2, <1>3, CopyMoves
<1>6. /\ io \in Requests /\ io' \in Requests /\ io'.pc = to /\ to \in {"finish", "arm"}
      /\ io'.bytes = io.bytes /\ io'.length = io.length /\ io'.completed = io.completed
  BY <1>1, RecordTypes DEF Goto, Requests, Pcs, to
<1>7. TypeOK'
  BY <1>1, <1>4, <1>6, SMTT(30) DEF TypeOK, Requests, Pcs
<1>8. BytesAccounted'
  <2>1. /\ Unread = DmaBufferPendingBytes + NewBytes + io.bytes + InCalls
        /\ DmaBufferPendingBytes \in Nat /\ NewBytes \in Nat /\ io.bytes \in Nat
    BY <1>2, Accounts, RecordTypes
  <2>2. NewBytes' = NewBytes
    BY <1>1 DEF NewBytes
  <2>3. InCalls \in Nat /\ InCalls' = InCalls
    BY <1>1, RecordTypes DEF InCalls
  <2>4. CopyCount(0) \in Nat /\ io'.bytes = io.bytes
    BY <1>4, <1>6, <2>1
  <2>5. DmaBufferPendingBytes' = DmaBufferPendingBytes + 0 - CopyCount(0) /\ Unread' = Unread - CopyCount(0)
    BY <1>4
  <2>. HIDE DEF Unread, NewBytes, CopyCount, InCalls
  <2>6. Unread' = DmaBufferPendingBytes' + NewBytes' + io'.bytes + InCalls'
    BY ONLY <2>1, <2>2, <2>3, <2>4, <2>5
  <2>. QED
    BY <1>7, <2>1, <2>2, <2>6, AccountsNext
<1>9. DmaOn'
  BY <1>1, <1>2 DEF DmaOn
<1>10. AtRest' /\ Assigning' /\ InHand'
  BY <1>1, <1>2, <1>6 DEF Inv, AtRest, At, Assigning, InHand, AssignPcs
<1>11. Request'
  <2>1. io'.pc = "finish" => RequestFilled(0)
    BY <1>6 DEF to
  <2>. QED
    BY <1>1, <1>2, <1>5, <1>6, <2>1 DEF Inv, Request, At, UnderWay
<1>. QED
  BY <1>1, <1>4, <1>7, <1>8, <1>9, <1>10, <1>11 DEF Inv, Stored

\* Whoever finds the request completes it: a callback, the starting thread, or the
\* cancellation.
Completes ==
  \/ \E c \in Callbacks : CallbackCompletes(c)
  \/ StartCompletes
  \/ RequestCancel

\* The bytes of the completed request leave the pipe in order, and nothing is left to complete.
LEMMA CompleteStep ==
  ASSUME Inv, Completes
  PROVE  Inv' /\ [BytePipe!Next]_<<Pipe, next, last>>
<1>. TypeOK /\ BytesAccounted
  BY DEF Inv
<1>1. /\ io \in Requests /\ call \in [Callbacks -> Calls] /\ io.pc \in Pcs /\ io.bytes \in Nat
      /\ WdfRequest \in BOOLEAN /\ RxDmaState \in States
  BY RecordTypes DEF Requests, TypeOK
<1>2. /\ UNCHANGED <<slots, dmaCounter, notify, next, IsRxDmaStarted, RXDMAEN, count, TransferLength,
                     BytesTransferred>>
      /\ ~ WdfRequest'
      /\ RxDmaState' \in States /\ armed' \in BOOLEAN /\ BufferMdlPtr' \in BOOLEAN
      /\ BufferMdlPtr' => BufferMdlPtr
      /\ RxDmaState' # RxDmaState => IsRxDmaStarted
      /\ cancel' \in {"no", "possible", "called"}
  <2>1. CASE \E c \in Callbacks : CallbackCompletes(c)
    BY <1>1, <2>1 DEF CallbackCompletes, CompleteCustomRx, AfterComplete, hw, dma, TypeOK
  <2>2. CASE StartCompletes
    BY <1>1, <2>2 DEF StartCompletes, AfterComplete, hw, dma, TypeOK
  <2>3. CASE RequestCancel
    BY <1>1, <2>3 DEF RequestCancel, AfterCancel, hw, dma, TypeOK, States
  <2>. QED
    BY <2>1, <2>2, <2>3 DEF Completes
<1>17. WdfRequest' \in BOOLEAN
  BY <1>1
  DEF Completes, CallbackCompletes, StartCompletes, RequestCancel, CompleteCustomRx, AfterComplete
<1>3. io.pc \notin AssignPcs
  <2>1. CASE \E c \in Callbacks : CallbackCompletes(c)
    BY <2>1 DEF CallbackCompletes, Call, Inv, Assigning, Settled
  <2>2. CASE StartCompletes
    BY <2>2 DEF StartCompletes, At, AssignPcs
  <2>3. CASE RequestCancel
    BY <2>3 DEF RequestCancel, Inv, Assigning, Settled
  <2>. QED
    BY <2>1, <2>2, <2>3 DEF Completes
<1>4. WdfRequest => UnderWay
  BY <1>1, <1>3 DEF Inv, AtRest, At, UnderWay, Pcs
<1>5. /\ call' \in [Callbacks -> Calls] /\ InCalls' = InCalls
      /\ \A c \in Callbacks : \/ call'[c] = call[c]
                                 \/ /\ call[c].pc = "finish"
                                    /\ call'[c] = [pc |-> "off", bytes |-> call[c].bytes]
  <2>1. CASE \E c \in Callbacks : CallbackCompletes(c)
    <3>1. PICK c \in Callbacks : Call(c, "finish", "off")
      BY <2>1 DEF CallbackCompletes
    <3>2. "off" \in CallPcs
      BY DEF CallPcs
    <3>3. /\ call[c].pc = "finish" /\ InCalls' = InCalls
          /\ call' \in [Callbacks -> Calls] /\ call'[c] = [pc |-> "off", bytes |-> call[c].bytes]
          /\ \A d \in Callbacks \ {c} : call'[d] = call[d]
      BY <3>1, <3>2, CallGoes
    <3>. HIDE DEF InCalls
    <3>. QED
      BY <3>3
  <2>2. CASE StartCompletes \/ RequestCancel
    <3>1. call' = call
      BY <2>2 DEF StartCompletes, RequestCancel
    <3>. QED
      BY <1>1, <3>1 DEF InCalls
  <2>. QED
    BY <2>1, <2>2 DEF Completes
<1>6. io' \in Requests /\ io'.bytes = io.bytes /\ io'.length = io.length
  BY <1>1
  DEF Completes, CallbackCompletes, StartCompletes, RequestCancel, CompleteCustomRx, CompleteRequest, Goto,
      Requests, Pcs
<1>7. io'.pc = io.pc \/ (io.pc = "finish" /\ io'.pc = "started")
  <2>1. CASE StartCompletes
    BY <1>1, <2>1 DEF StartCompletes, Goto, Requests, At
  <2>2. CASE RequestCancel \/ \E c \in Callbacks : CallbackCompletes(c)
    BY <1>1, <2>2 DEF CallbackCompletes, RequestCancel, CompleteCustomRx, CompleteRequest, Requests
  <2>. QED
    BY <2>1, <2>2 DEF Completes
<1>8. WdfRequest => BytesTransferred = TransferLength \/ ~ BufferMdlPtr'
  <2>1. CASE \E c \in Callbacks : CallbackCompletes(c)
    BY <1>4, <2>1 DEF CallbackCompletes, Call, Inv, Request
  <2>2. CASE StartCompletes
    BY <1>4, <2>2 DEF StartCompletes, Inv, Request
  <2>3. CASE RequestCancel
    BY <2>3 DEF RequestCancel, AfterCancel
  <2>. QED
    BY <2>1, <2>2, <2>3 DEF Completes
<1>9. io'.completed = IF WdfRequest THEN TRUE ELSE io.completed
  BY <1>1
  DEF Completes, CallbackCompletes, StartCompletes, RequestCancel, CompleteCustomRx, CompleteRequest, Goto,
      Requests
<1>10. /\ [BytePipe!Next]_<<Pipe, next, last>> /\ Stored' /\ last' \in 0 .. MaxBytes
       /\ taken' = <<>>
  <2>1. CASE WdfRequest
    <3>1. Len(taken) = BytesTransferred
      BY <1>4, <2>1 DEF Inv, Request
    <3>2. taken' = <<>> /\ last' = IF BytesTransferred = 0 THEN last ELSE taken[BytesTransferred]
      <4>1. CASE StartCompletes
        <5>1. BytesTransferred # 0
          BY <1>4, <2>1, <4>1 DEF StartCompletes, Inv, Request
        <5>. QED
          BY <2>1, <4>1, <5>1 DEF StartCompletes, EmptyBuffer
      <4>2. CASE RequestCancel \/ \E c \in Callbacks : CallbackCompletes(c)
        BY <2>1, <4>2 DEF RequestCancel, CallbackCompletes, CompleteCustomRx, CompleteRequest, EmptyBuffer
      <4>. QED
        BY <4>1, <4>2 DEF Completes
    <3>. QED
      BY <1>2, <3>1, <3>2, Completed DEF count
  <2>2. CASE ~ WdfRequest
    <3>1. taken = <<>> /\ taken' = taken /\ last' = last
      BY <2>2
      DEF Completes, CallbackCompletes, StartCompletes, RequestCancel, CompleteCustomRx, Inv, Request
    <3>2. Pipe' = Pipe
      BY <1>2, <3>1, PipeSame DEF count
    <3>. QED
      BY <1>2, <3>1, <3>2 DEF Inv, Stored, TypeOK
  <2>. QED
    BY <2>1, <2>2
<1>11. TypeOK'
  <2>1. taken' \in Seq(1 .. MaxBytes)
    BY <1>10, EmptySeq
  <2>2. last' \in 0 .. MaxBytes
    BY <1>10
  <2>3. UNCHANGED <<slots, dmaCounter, notify, next, IsRxDmaStarted, RXDMAEN, LastDmaCounter, DmaBufferReadPos,
                    DmaBufferPendingBytes, TransferLength, BytesTransferred>> /\ WdfRequest' = FALSE
    BY <1>2, <1>17 DEF count
  <2>4. /\ call' \in [Callbacks -> [pc: {"off", "count", "copy", "finish", "rearm"}, bytes: Positions]]
        /\ io' \in [pc: AssignPcs \cup {"idle", "enable", "copy", "finish", "arm", "started", "residue"},
                   length: 0 .. MaxLength, bytes: Positions, completed: BOOLEAN]
    BY <1>5, <1>6 DEF Requests, Calls, Pcs, CallPcs
  <2>5. /\ RxDmaState' \in States /\ armed' \in BOOLEAN /\ BufferMdlPtr' \in BOOLEAN
        /\ cancel' \in {"no", "possible", "called"}
    BY <1>2
  <2>6. user' \in Seq(0 .. MaxBytes)
    <3>1. user' = user \/ user' = <<>>
      BY DEF Completes, CallbackCompletes, StartCompletes, RequestCancel, CompleteCustomRx,
             CompleteRequest, EmptyBuffer
    <3>. QED
      BY <3>1, EmptyTyped DEF TypeOK
  <2>. QED
    BY <2>1, <2>2, <2>3, <2>4, <2>5, <2>6 DEF TypeOK
<1>12. BytesAccounted'
  BY <1>2, <1>5, <1>6, <1>11, AccountsSame DEF count
<1>13. DmaOn'
  BY <1>2, <1>7 DEF Inv, DmaOn, At, count
<1>14. InHand'
  <2>1. ASSUME NEW c \in Callbacks, call'[c].bytes # 0 PROVE call'[c].pc = "copy"
    BY <1>5, <2>1 DEF Inv, InHand
  <2>2. io'.bytes # 0 => io'.pc = "residue"
    BY <1>6, <1>7 DEF Inv, InHand, At
  <2>. QED
    BY <2>1, <2>2 DEF InHand, At
<1>15. AtRest' /\ Assigning'
  BY <1>2, <1>3, <1>6, <1>7 DEF Inv, AtRest, Assigning, At, AssignPcs
<1>16. Request'
  <2>1. UnderWay' => UnderWay
    BY <1>7 DEF UnderWay
  <2>2. (At("counts") \/ UnderWay)' => TransferLength' # 0
    BY <1>2, <1>7, <2>1 DEF Inv, Request, At
  <2>3. UnderWay' => io'.completed
    BY <1>9, <2>1 DEF Inv, Request
  <2>4. UnderWay' /\ BufferMdlPtr' => BytesTransferred' = TransferLength'
    BY <1>2, <1>8, <2>1 DEF Inv, Request
  <2>. QED
    BY <1>2, <1>10, <2>2, <2>3, <2>4 DEF Request
<1>. QED
  BY <1>10, <1>11, <1>12, <1>13, <1>14, <1>15, <1>16 DEF Inv

\* A transaction begins, and starts the DMA unless it runs.
LEMMA StartStep ==
  ASSUME Inv, NEW n \in 1 .. MaxLength, StartRxDma(n)
  PROVE  Inv' /\ UNCHANGED <<Pipe, next, last>>
<1>. TypeOK /\ BytesAccounted
  BY DEF Inv
<1>1. /\ At("idle") /\ Settled
      /\ io' = [pc |-> "assign", length |-> n, bytes |-> 0, completed |-> FALSE]
      /\ UNCHANGED <<slots, notify, next, last, WdfRequest, BufferMdlPtr, TransferLength, taken, user, armed,
                     call, cancel>>
  BY DEF StartRxDma
<1>2. io.bytes = 0 /\ \A c \in Callbacks : call[c].bytes = 0
  BY <1>1 DEF At, Settled, Inv, InHand
<1>3. ~ WdfRequest /\ taken = <<>> /\ ~ BufferMdlPtr
  BY <1>1 DEF Inv, AtRest, Request
<1>4. 0 \in Positions /\ io' \in Requests
  BY <1>1, UartRxDmaAssumption DEF Positions, Requests, Pcs, AssignPcs
<1>5. TypeOK'
  <2>1. /\ {dmaCounter', LastDmaCounter', DmaBufferReadPos', DmaBufferPendingBytes'} \subseteq Positions
        /\ {IsRxDmaStarted', RXDMAEN'} \subseteq BOOLEAN /\ RxDmaState' \in States
        /\ BytesTransferred' \in Nat
    <3>1. CASE IsRxDmaStarted
      BY <3>1 DEF StartRxDma, TypeOK, dma, count
    <3>2. CASE ~ IsRxDmaStarted
      <4>1. /\ dmaCounter' = 0 /\ LastDmaCounter' = 0 /\ DmaBufferReadPos' = 0
            /\ DmaBufferPendingBytes' = 0 /\ BytesTransferred' = 0
            /\ IsRxDmaStarted' = TRUE /\ RXDMAEN' = FALSE /\ RxDmaState' = "IDLE"
        BY <3>2 DEF StartRxDma
      <4>. QED
        BY <1>4, <4>1 DEF States
    <3>. QED
      BY <3>1, <3>2
  <2>. QED
    BY <1>1, <1>4, <2>1 DEF TypeOK, Requests, Pcs
<1>6. IsRxDmaStarted'
  BY DEF StartRxDma, dma
<1>7. BytesAccounted' /\ Pipe' = Pipe
  <2>1. CASE IsRxDmaStarted
    <3>1. UNCHANGED <<dmaCounter, IsRxDmaStarted, LastDmaCounter, DmaBufferReadPos, DmaBufferPendingBytes>>
      BY <2>1 DEF StartRxDma, dma, count
    <3>2. io'.bytes = io.bytes /\ InCalls' = InCalls
      BY <1>1, <1>2 DEF InCalls
    <3>. QED
      BY <1>1, <1>5, <3>1, <3>2, AccountsSame, PipeSame
  <2>2. CASE ~ IsRxDmaStarted
    <3>1. /\ LastDmaCounter' = 0 /\ DmaBufferReadPos' = 0 /\ DmaBufferPendingBytes' = 0 /\ dmaCounter' = 0
          /\ io'.bytes = 0
      BY <1>1, <2>2 DEF StartRxDma
    <3>2. NewBytes' = 0
      BY <3>1 DEF NewBytes
    <3>3. Unread' = 0
      <4>1. Unread' = Gap(0, 0)
        BY <1>4, <3>1, UnreadNext
      <4>. QED
        BY <4>1 DEF Gap
    <3>4. InCalls' = 0
      BY <1>1, <1>2, RecordTypes DEF InCalls
    <3>5. Pipe' = <<>> /\ Pipe = <<>>
      <4>1. FromBuffer(Unread)' = <<>>
        BY <3>3 DEF FromBuffer
      <4>. QED
        BY <1>1, <1>3, <1>6, <2>2, <4>1 DEF Pipe
    <3>. HIDE DEF Unread, NewBytes, InCalls
    <3>. QED
      BY <1>5, <3>1, <3>2, <3>3, <3>4, <3>5, AccountsNext
  <2>. QED
    BY <2>1, <2>2
<1>8. DmaOn' /\ InHand' /\ AtRest' /\ Assigning' /\ Request'
  <2>1. DmaOn'
    BY <1>6 DEF DmaOn
  <2>2. InHand'
    BY <1>1, <1>2 DEF InHand
  <2>3. AtRest' /\ Request'
    BY <1>1, <1>3 DEF AtRest, Request, At, UnderWay
  <2>4. Assigning'
    BY <1>1, <1>3 DEF Assigning, Settled, At
  <2>. QED
    BY <2>1, <2>2, <2>3, <2>4
<1>. QED
  BY <1>1, <1>5, <1>7, <1>8 DEF Inv, Stored

\* A programmed read looks at the DMA buffer first.
LEMMA ResidueStep ==
  ASSUME Inv, NEW n \in 1 .. MaxLength, PioRead(n)
  PROVE  Inv' /\ UNCHANGED <<Pipe, next, last>>
<1>. TypeOK /\ BytesAccounted
  BY DEF Inv
<1>1. /\ At("idle") /\ RxDmaState \in Active /\ LastDmaCounter' = dmaCounter
      /\ io' = [pc |-> "residue", length |-> n, bytes |-> NewBytes, completed |-> FALSE]
      /\ UNCHANGED <<slots, dmaCounter, notify, next, last, IsRxDmaStarted, RxDmaState, RXDMAEN,
                     DmaBufferReadPos, DmaBufferPendingBytes, WdfRequest, BufferMdlPtr, TransferLength,
                     BytesTransferred, taken, user, armed, call, cancel>>
  BY DEF PioRead, hw, dma, buffer
<1>2. dmaCounter \in Positions /\ NewBytes \in Positions /\ Positions \subseteq Nat
  BY NewBytesValue, UartRxDmaAssumption DEF TypeOK, Positions
<1>3. io.bytes = 0 /\ IsRxDmaStarted /\ ~ WdfRequest /\ ~ BufferMdlPtr
  BY <1>1 DEF At, Inv, InHand, DmaOn, AtRest
<1>. HIDE DEF NewBytes
<1>4. io' \in Requests /\ io'.bytes = NewBytes /\ io'.pc = "residue" /\ io'.length = n
  BY <1>1, <1>2 DEF Requests, Pcs
<1>5. TypeOK'
  BY <1>1, <1>2, <1>4 DEF TypeOK, Requests, Pcs
<1>6. BytesAccounted'
  <2>1. /\ Unread = DmaBufferPendingBytes + NewBytes + io.bytes + InCalls
        /\ DmaBufferPendingBytes \in Nat /\ NewBytes \in Nat
    BY <1>3, Accounts
  <2>2. NewBytes' = 0 /\ Unread' = Unread
    BY <1>1, <1>2 DEF NewBytes, Unread
  <2>3. InCalls \in Nat /\ InCalls' = InCalls
    BY <1>1, RecordTypes DEF InCalls
  <2>. HIDE DEF Unread, InCalls
  <2>4. Unread' = DmaBufferPendingBytes' + NewBytes' + io'.bytes + InCalls'
    BY <1>1, <1>3, <1>4, <2>1, <2>2, <2>3
  <2>. QED
    BY <1>5, <2>2, <2>4, AccountsNext
<1>7. Pipe' = Pipe
  BY <1>1, PipeSame
<1>8. DmaOn' /\ InHand' /\ AtRest' /\ Assigning' /\ Request'
  <2>1. DmaOn' /\ InHand'
    BY <1>1, <1>3, <1>4 DEF Inv, DmaOn, InHand, At
  <2>2. AtRest' /\ Assigning' /\ Request'
    BY <1>1, <1>3, <1>4 DEF Inv, AtRest, Assigning, Request, At, UnderWay, AssignPcs
  <2>. QED
    BY <2>1, <2>2
<1>. QED
  BY <1>1, <1>5, <1>7, <1>6, <1>8 DEF Inv, Stored

\* What a programmed read takes leaves the buffer for SerCx2.
LEMMA PioTakesStep ==
  ASSUME Inv, PioTakes
  PROVE  Inv' /\ [BytePipe!Next]_<<Pipe, next, last>>
<1>. TypeOK /\ BytesAccounted
  BY DEF Inv
<1>. DEFINE pending == DmaBufferPendingBytes + io.bytes
            n == Least(pending, io.length)
            X == FromBuffer(n)
            R == From(slots, ReadPos(n), Unread - n)
            B == 0 .. MaxBytes
<1>1. /\ At("residue") /\ pending # 0 /\ last' = X[n] /\ DmaBufferReadPos' = ReadPos(n)
      /\ DmaBufferPendingBytes' = pending - n /\ BytesTransferred' = BytesTransferred + n /\ io' = Idle
      /\ UNCHANGED <<slots, dmaCounter, notify, next, IsRxDmaStarted, RxDmaState, RXDMAEN, LastDmaCounter,
                     WdfRequest, BufferMdlPtr, TransferLength, taken, user, armed, call, cancel>>
  BY DEF PioTakes, hw, dma
<1>2. IsRxDmaStarted /\ ~ WdfRequest /\ ~ BufferMdlPtr /\ taken = <<>> /\ io.length # 0
  BY <1>1 DEF At, Inv, DmaOn, AtRest, Request
<1>3. /\ DmaBufferPendingBytes \in Nat /\ io.bytes \in Nat /\ io.length \in Nat
      /\ Unread \in Positions /\ Unread \in Nat /\ pending <= Unread
  <2>1. /\ DmaBufferPendingBytes \in Nat /\ Unread \in Positions
        /\ DmaBufferPendingBytes + io.bytes <= Unread
    BY <1>2, Accounts
  <2>2. io.bytes \in Nat /\ io.length \in Nat
    BY RecordTypes, UartRxDmaAssumption DEF Requests
  <2>. QED
    BY <2>1, <2>2, UartRxDmaAssumption DEF Positions
<1>4. n \in 1 .. pending /\ n \in 0 .. Unread /\ n \in Nat
  <2>. HIDE DEF Unread
  <2>1. /\ pending \in Nat /\ pending # 0 /\ io.length \in Nat /\ io.length # 0
        /\ Unread \in Nat /\ pending <= Unread
    BY <1>1, <1>2, <1>3
  <2>. HIDE DEF pending
  <2>. QED
    BY ONLY <2>1 DEF Least
<1>. HIDE DEF n
<1>5. /\ X \in Seq(B) /\ Len(X) = n /\ R \in Seq(B)
      /\ ReadPos(n) \in Positions /\ Gap(ReadPos(n), dmaCounter) = Unread - n
      /\ From(slots, DmaBufferReadPos, Unread) = X \o R
  BY <1>4, Taken
<1>6. Unread' = Unread - n
  <2>1. dmaCounter' \in Positions /\ DmaBufferReadPos' \in Positions
    BY <1>1, <1>5 DEF TypeOK
  <2>. QED
    BY <1>1, <1>5, <2>1, UnreadNext
<1>7. Pipe = X \o R /\ Pipe' = R
  <2>1. Pipe = <<>> \o (X \o R)
    <3>1. dmaCounter \in Positions /\ DmaBufferReadPos \in Positions
      BY DEF TypeOK
    <3>. QED
      BY <1>2, <1>5, <3>1, PipeValue, UnreadValue DEF Content
  <2>2. Pipe' = <<>> \o R
    <3>1. dmaCounter' \in Positions /\ DmaBufferReadPos' \in Positions
      BY <1>1, <1>5 DEF TypeOK
    <3>2. Pipe' = taken' \o Content'
      BY <3>1, PipeNext
    <3>3. Content' = R
      BY <1>1, <1>2, <1>5 DEF Content
    <3>. QED
      BY <1>1, <1>2, <3>2, <3>3
  <2>3. X \o R \in Seq(B)
    BY <1>5, ConcatProperties
  <2>. HIDE DEF X, R, B
  <2>. QED
    BY <1>5, <2>1, <2>2, <2>3, ConcatEmptySeq
<1>. HIDE DEF X, R, B
<1>8. /\ Len(Pipe) = n + Len(R) /\ Len(R) \in Nat
      /\ R = SubSeq(Pipe, n + 1, Len(Pipe)) /\ \A i \in 1 .. n : Pipe[i] = X[i]
  BY <1>5, <1>7, FrontTaken
<1>9. n \in 1 .. Len(Pipe) /\ n \in 1 .. n
  <2>1. n \in Nat /\ n # 0
    BY <1>3, <1>4
  <2>. QED
    BY ONLY <1>8, <2>1
<1>10. BytePipe!Deliver
  <2>1. last' = Pipe[n] /\ Pipe' = SubSeq(Pipe, n + 1, Len(Pipe)) /\ next' = next
    BY <1>1, <1>7, <1>8, <1>9
  <2>. QED
    BY <1>9, <2>1 DEF BytePipe!Deliver
<1>11. Stored' /\ last' \in 0 .. MaxBytes
  <2>1. Pipe \in Seq(1 .. MaxBytes)
    BY DEF Inv, Stored
  <2>2. R \in Seq(1 .. MaxBytes)
    BY <1>5, <1>7, <2>1, PartsTyped
  <2>3. Pipe[n] \in 1 .. MaxBytes
    BY <1>9, <2>1, ElementOfSeq
  <2>4. last' = Pipe[n]
    BY <1>1, <1>8, <1>9
  <2>5. Pipe[n] \in 0 .. MaxBytes
    BY <2>3
  <2>6. Pipe' = R
    BY <1>7
  <2>. QED
    BY <2>2, <2>4, <2>5, <2>6 DEF Stored
<1>12. Idle \in Requests /\ Idle.bytes = 0
  BY UartRxDmaAssumption DEF Idle, Requests, Pcs, Positions
<1>13. TypeOK'
  <2>1. DmaBufferPendingBytes' \in Positions /\ BytesTransferred' \in Nat
    <3>1. BytesTransferred \in Nat
      BY DEF TypeOK
    <3>. HIDE DEF Unread
    <3>. QED
      BY <1>1, <1>3, <1>4, <3>1, UartRxDmaAssumption DEF Positions
  <2>2. io' \in Requests /\ DmaBufferReadPos' \in Positions /\ last' \in 0 .. MaxBytes
    BY <1>1, <1>5, <1>11, <1>12
  <2>3. UNCHANGED <<slots, dmaCounter, notify, next, IsRxDmaStarted, RxDmaState, RXDMAEN, LastDmaCounter,
                    WdfRequest, BufferMdlPtr, TransferLength, taken, user, armed, call, cancel>>
    BY <1>1
  <2>. QED
    BY <2>1, <2>2, <2>3 DEF TypeOK, Requests, Pcs
<1>14. BytesAccounted'
  <2>1. /\ Unread = DmaBufferPendingBytes + NewBytes + io.bytes + InCalls
        /\ NewBytes \in Nat
    BY <1>2, Accounts
  <2>2. NewBytes' = NewBytes
    BY <1>1 DEF NewBytes
  <2>3. InCalls \in Nat /\ InCalls' = InCalls
    BY <1>1, RecordTypes DEF InCalls
  <2>4. io'.bytes = 0 /\ DmaBufferPendingBytes' = DmaBufferPendingBytes + io.bytes - n
    <3>1. io'.bytes = 0
      BY <1>1 DEF Idle
    <3>2. DmaBufferPendingBytes' = pending - n
      BY <1>1
    <3>. QED
      BY <1>3, <1>4, <3>1, <3>2
  <2>. HIDE DEF Unread, InCalls, NewBytes
  <2>5. Unread' = DmaBufferPendingBytes' + NewBytes' + io'.bytes + InCalls'
    BY ONLY <1>3, <1>4, <1>6, <2>1, <2>2, <2>3, <2>4
  <2>. QED
    BY <1>13, <2>1, <2>2, <2>5, AccountsNext
<1>15. DmaOn' /\ InHand' /\ AtRest' /\ Assigning' /\ Request'
  <2>1. io'.pc = "idle" /\ io'.bytes = 0
    BY <1>1 DEF Idle
  <2>2. DmaOn' /\ InHand'
    BY <1>1, <1>2, <2>1 DEF Inv, DmaOn, InHand, At
  <2>3. AtRest' /\ Assigning' /\ Request'
    BY <1>1, <1>2, <2>1 DEF Inv, AtRest, Assigning, Request, At, UnderWay, AssignPcs
  <2>. QED
    BY <2>2, <2>3
<1>. QED
  BY <1>10, <1>11, <1>13, <1>14, <1>15 DEF Inv, BytePipe!Next

\* A read that finds the DMA buffer empty stops the DMA, for good or for a while; a stop
\* for good discards what is in the buffer.
LEMMA StopStep ==
  ASSUME Inv, PioStops \/ StopRxDma
  PROVE  Inv' /\ [BytePipe!Next]_<<Pipe, next, last>>
<1>. TypeOK /\ BytesAccounted
  BY DEF Inv
<1>1. /\ At("idle") \/ At("residue")
      /\ RXDMAEN' = FALSE /\ RxDmaState' = "STOPPED"
      /\ UNCHANGED <<slots, dmaCounter, notify, next, last, LastDmaCounter, DmaBufferReadPos, WdfRequest,
                     BufferMdlPtr, TransferLength, BytesTransferred, taken, user, call, cancel>>
  BY DEF PioStops, StopRxDma, hw, count, buffer
<1>2. ~ WdfRequest /\ ~ BufferMdlPtr /\ taken = <<>>
  BY <1>1 DEF Inv, AtRest, Request
<1>3. io' \in Requests /\ io'.bytes = 0 /\ io'.pc = "idle"
  <2>1. CASE PioStops
    BY <2>1, UartRxDmaAssumption DEF PioStops, Idle, Requests, Pcs, Positions
  <2>2. CASE StopRxDma
    BY <2>2, RecordTypes DEF StopRxDma, At, Inv, InHand
  <2>. QED
    BY <2>1, <2>2
<1>4. /\ DmaBufferPendingBytes' \in Positions /\ IsRxDmaStarted' \in BOOLEAN /\ armed' \in BOOLEAN
      /\ ~ IsRxDmaStarted' => DmaBufferPendingBytes' = 0
  <2>1. CASE PioStops
    BY <2>1 DEF PioStops, count, TypeOK, Inv, DmaOn
  <2>2. CASE StopRxDma
    <3>1. DmaBufferPendingBytes' = 0 /\ IsRxDmaStarted' = FALSE /\ armed' = FALSE
      BY <2>2 DEF StopRxDma
    <3>2. 0 \in Positions
      BY UartRxDmaAssumption DEF Positions
    <3>. QED
      BY <3>1, <3>2
  <2>. QED
    BY <2>1, <2>2
<1>5. TypeOK'
  BY <1>1, <1>3, <1>4 DEF TypeOK, Requests, Pcs, States
<1>6. BytesAccounted' /\ Stored' /\ [BytePipe!Next]_<<Pipe, next, last>>
  <2>1. CASE PioStops
    <3>1. IsRxDmaStarted' = IsRxDmaStarted /\ DmaBufferPendingBytes' = DmaBufferPendingBytes
      BY <2>1 DEF PioStops, count
    <3>2. io'.bytes = io.bytes
      <4>1. DmaBufferPendingBytes \in Nat /\ io.bytes \in Nat
        BY RecordTypes, UartRxDmaAssumption DEF TypeOK, Positions
      <4>. QED
        BY <1>3, <2>1, <4>1 DEF PioStops
    <3>3. InCalls' = InCalls
      BY <1>1 DEF InCalls
    <3>4. BytesAccounted'
      BY <1>1, <1>5, <3>1, <3>2, <3>3, AccountsSame
    <3>5. Pipe' = Pipe
      BY <1>1, <3>1, PipeSame
    <3>. QED
      BY <1>1, <3>4, <3>5 DEF Inv, Stored
  <2>2. CASE StopRxDma
    <3>1. ~ IsRxDmaStarted'
      BY <2>2 DEF StopRxDma
    <3>2. Pipe' = <<>>
      BY <1>1, <1>2, <3>1 DEF Pipe
    <3>3. Pipe \in Seq(1 .. MaxBytes)
      BY DEF Inv, Stored
    <3>4. CASE Pipe = <<>>
      BY <1>1, <3>1, <3>2, <3>4, EmptySeq DEF BytesAccounted, Stored
    <3>5. CASE Pipe # <<>>
      <4>1. 0 \in 0 .. Len(Pipe) - 1
        BY <3>3, <3>5, EmptySeq
      <4>2. SubSeq(Pipe, 1, 0) = <<>>
        BY SubSeqEmpty
      <4>3. BytePipe!Discard
        BY <1>1, <3>2, <4>1, <4>2 DEF BytePipe!Discard
      <4>. QED
        BY <3>1, <3>2, <4>3, EmptySeq DEF BytesAccounted, Stored, BytePipe!Next
    <3>. QED
      BY <3>4, <3>5
  <2>. QED
    BY <2>1, <2>2
<1>7. DmaOn'
  BY <1>1, <1>3, <1>4 DEF DmaOn, At, Active
<1>8. InHand'
  BY <1>1, <1>3 DEF Inv, InHand
<1>9. AtRest' /\ Assigning' /\ Request'
  BY <1>1, <1>2, <1>3 DEF AtRest, Assigning, Request, At, UnderWay, AssignPcs
<1>. QED
  BY <1>5, <1>6, <1>7, <1>8, <1>9 DEF Inv

\* Every step preserves the invariant, and is a step of BytePipe or a stutter.
LEMMA NextInv ==
  ASSUME ~ CancelledAtStart, Inv, [Next]_vars
  PROVE  Inv' /\ [BytePipe!Next]_<<Pipe, next, last>>
<1>1. CASE HwStore
  <2>1. Inv' /\ Pipe' = Append(Pipe, next) /\ next' = next + 1 /\ last' = last
    BY <1>1, StoreStep
  <2>2. next \in Nat /\ Pipe \in Seq(1 .. MaxBytes) /\ next \in 1 .. MaxBytes
    BY <1>1, UartRxDmaAssumption DEF HwStore, Inv, TypeOK, Stored
  <2>3. [i \in 1 .. next' - next |-> next + i - 1] = <<next>>
    BY <2>1, <2>2
  <2>4. Append(Pipe, next) = Pipe \o <<next>>
    BY <2>2, AppendIsConcat
  <2>. QED
    BY <2>1, <2>2, <2>3, <2>4, SMTT(30) DEF BytePipe!Next, BytePipe!Accept
<1>2. CASE CallbackMoves
  BY <1>2, CallbackMovesStep
<1>3. CASE ThreadMoves
  BY <1>3, ThreadMovesStep
<1>4. CASE Completes
  BY <1>4, CompleteStep
<1>5. CASE \E c \in Callbacks : GetBytesTransferred(c) \/ CallbackCopies(c)
  BY <1>5, CountStep, CallbackCopyStep
<1>6. CASE StartCopies
  BY <1>6, StartCopyStep
<1>7. CASE \E n \in 1 .. MaxLength : StartRxDma(n) \/ PioRead(n)
  BY <1>7, StartStep, ResidueStep
<1>8. CASE PioTakes
  BY <1>8, PioTakesStep
<1>9. CASE PioStops \/ StopRxDma
  BY <1>9, StopStep
<1>10. CASE UNCHANGED vars
  <2>1. UNCHANGED <<Pipe, next, last>>
    BY <1>10, PipeSame DEF vars, hw, dma, count, buffer
  <2>2. Inv'
    BY <1>10, <2>1
    DEF vars, hw, dma, count, buffer, Inv, TypeOK, BytesAccounted, Unread, NewBytes, DmaOn, InHand, AtRest,
        Assigning, Settled, Request, Stored, At, UnderWay
  <2>. QED
    BY <2>1, <2>2
<1>. QED
  BY <1>1, <1>2, <1>3, <1>4, <1>5, <1>6, <1>7, <1>8, <1>9, <1>10
  DEF Next, Callback, Starting, Pio, CallbackMoves, ThreadMoves, Completes

-----------------------------------------------------------------------------
(* The theorems.                                                           *)

\* The invariant holds in every behaviour in which no request is cancelled before its
\* transaction has been started.
THEOREM Invariance ==
  ASSUME ~ CancelledAtStart PROVE Spec => []Inv
<1>1. Init => Inv
  BY InitInv
<1>2. Inv /\ [Next]_vars => Inv'
  BY NextInv
<1>. QED
  BY <1>1, <1>2, PTL DEF Spec

\* Positions stay in the cyclic buffer, however callbacks, starts and readers advance them
\* (imxuart.cpp:1834-1858, 1961, 2066).
THEOREM TypeCorrect ==
  ASSUME ~ CancelledAtStart PROVE Spec => []TypeOK
<1>1. Inv => TypeOK
  BY DEF Inv
<1>2. Spec => []Inv
  BY Invariance
<1>. QED
  BY <1>1, <1>2, PTL

\* Every byte in the buffer is accounted for once: as pending, in the hands of a callback or
\* the reader, or not yet counted (imxuart.cpp:1834-1858, 1889, 2020).
THEOREM EveryByteAccounted ==
  ASSUME ~ CancelledAtStart PROVE Spec => []BytesAccounted
<1>1. Inv => BytesAccounted
  BY DEF Inv
<1>2. Spec => []Inv
  BY Invariance
<1>. QED
  BY <1>1, <1>2, PTL

\* The driver can find a request as long as it is not completed, and never writes to a
\* completed one (imxuart.cpp:1555, 1869, 2095).
THEOREM RequestFound ==
  ASSUME ~ CancelledAtStart PROVE Spec => []RequestHeld
<1>1. Inv => RequestHeld
  BY DEF Inv, TypeOK, Request, RequestHeld, UnderWay, At
<1>2. Spec => []Inv
  BY Invariance
<1>. QED
  BY <1>1, <1>2, PTL

\* The reading position implements BytePipe: the bytes taken out of the cyclic buffer for the
\* requests and the reads are those the DMA has stored, in this order, none twice, and none is
\* missing but those a stop discards, whoever of timer, completion callback, cancellation,
\* starting thread and reader takes them (imxuart.cpp:1469, 1961-1974, 2056-2071).  It says
\* nothing of where in a request's buffer they land; BufferFilled, which does, does not hold.
THEOREM TakenInOrder ==
  ASSUME ~ CancelledAtStart PROVE Spec => TakesInOrder
<1>1. Init => BytePipe!Init
  BY DEF Init, Pipe, BytePipe!Init
<1>2. Inv /\ [Next]_vars => [BytePipe!Next]_<<Pipe, next, last>>
  BY NextInv
<1>3. Spec => []Inv
  BY Invariance
<1>. QED
  BY <1>1, <1>2, <1>3, PTL DEF Spec, TakesInOrder, BytePipe!Spec
=============================================================================
