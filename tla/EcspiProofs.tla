----------------------------- MODULE EcspiProofs -----------------------------
(***************************************************************************)
(* Theorems about the ECSPI controller driver, for any number of prepared  *)
(* transfers, processors, requests and transfers of a sequence.            *)
(***************************************************************************)
EXTENDS Ecspi, TLAPS

MAX == MAX_PREPARED_TRANSFERS_COUNT

\* What the theorems leave out: WDF does not cancel between the marking and the start of
\* a request, no request comes before the DPCs for the last one have returned or before the
\* thread that could not start it is done with completing, and the DPC's preparation does
\* not fail.
Orderly ==
  "start" \notin Races /\ "dpc" \notin Races /\ "prepare" \notin Races /\ "again" \notin Races

Live == SpbRequest # NoRequest
Phase == io[SpbRequest]
Pc(c) == dpc.cpu[c].pc

\* The thread that starts a request is still at it.
Early == {"prepare", "cs", "pin", "mark", "start"}
\* An instance of the DPC has the request to itself, which cannot be cancelled meanwhile.
Serving == {"look", "prepare", "mark", "complete"}

PCs == {"off", "burst", "timeout", "disable", "look", "prepare", "mark", "idle", "start",
        "complete", "failed"}

\* TypeOK by parts; the writes under way are in Writes.
RequestTypes ==
  /\ SpbRequest \in Requests \cup {NoRequest} /\ canceller \in Requests \cup {NoRequest}
  /\ Type \in Types \cup {"INVALID"}
  /\ State \in {"INACTIVE", "CANCELABLE", "NOT_CANCELABLE", "CANCELED"}
  /\ io \in [Requests -> {"no", "prepare", "cs", "pin", "mark", "start", "over", "refused"}
                         \cup Failures]
  /\ wdf \in {"plain", "marked", "cancelled", "calling"}
  /\ answer \in [Requests -> {"none", "success", "failed", "cancelled"}]
  /\ count \in 0 .. MaxRequests

TransferTypes ==
  /\ TransferCount \in 0 .. MaxTransfers /\ NextTransferIndex \in 0 .. MaxTransfers
  /\ TransfersLeft \in 0 .. MaxTransfers /\ served \in 0 .. MaxTransfers
  /\ ReadyTransferCount \in 0 .. MAX
  /\ TransferIn \in Slots /\ TransferOut \in Slots
  /\ Transfers \in [Slots -> 0 .. MaxTransfers]
  /\ bursts \in 1 .. 2 /\ burst \in 0 .. 2

DeviceTypes ==
  /\ IsIdle \in BOOLEAN /\ gpio \in BOOLEAN
  /\ IsControllerLocked \in BOOLEAN /\ LockUnlockRequest \in BOOLEAN
  /\ cs \in BOOLEAN /\ GpioData \in BOOLEAN
  /\ engine \in {"off", "on", "busy", "held"} /\ isr \in {"off", "idle"}

DpcTypes ==
  dpc \in [queued : BOOLEAN,
           cpu : [Cpus -> [pc : PCs, slot : Slots, left : 0 .. MAX, prepared : 0 .. MAX]]]

\* Only the last request is current, or about to be answered by its cancellation.
Holder ==
  /\ Live => SpbRequest = count /\ canceller = NoRequest /\ Type \in Types
             /\ Phase \in Early \cup {"over"}
  /\ canceller # NoRequest => canceller = count
  /\ Live \/ canceller # NoRequest => answer[count] = "none" /\ ~ LockUnlockRequest
  /\ ~ Live => State = IF canceller # NoRequest THEN "CANCELED" ELSE "INACTIVE"
  /\ \A r \in Requests : /\ io[r] \in Early \ {"pin"} => r = SpbRequest
                         /\ io[r] \in Failures => ~ Live
                         /\ r > count => io[r] = "no" /\ answer[r] = "none"

\* The driver's view of the cancellation and WDF's agree; a canceled request has no
\* transfer left to run.
Cancellation ==
  /\ wdf \in {"marked", "calling"} => Live
  /\ Live => (State = "CANCELABLE" <=> wdf \in {"marked", "calling"})
  /\ Live /\ Phase = "over" => State # "INACTIVE"
  /\ State = "CANCELED" => engine = "off" /\ ReadyTransferCount = 0 /\ isr = "off"
  /\ State = "CANCELED" /\ Live => sent = {"negate"}

\* Until a request is started nobody else is at work for it.
Starting ==
  Live /\ Phase \in Early =>
    /\ State = IF Phase = "start" THEN "CANCELABLE" ELSE "INACTIVE"
    /\ DpcOver /\ isr = "off" /\ ~ IsIdle /\ engine # "busy"
    /\ TransferCount # 0 /\ TransfersLeft = TransferCount /\ TransferOut = 0 /\ served = 0
    /\ IF Phase = "prepare" THEN ReadyTransferCount = 0 /\ NextTransferIndex = 0
                            ELSE ReadyTransferCount # 0

Done == TransferCount - TransfersLeft
SlotAfter(n) == (TransferOut + n) % MAX

\* What is prepared is still to be done.
Counted ==
  /\ ReadyTransferCount <= TransfersLeft /\ TransfersLeft <= TransferCount
  /\ engine = "busy" => ReadyTransferCount # 0
  /\ isr = "idle" => TransfersLeft # 0

\* The prepared transfers are the next ones, in the slots from TransferOut on.
InSlots == \A k \in 0 .. ReadyTransferCount - 1 : Transfers[SlotAfter(k)] = Done + k + 1

\* The request's own indices point behind them, except while a DPC prepares more, which
\* then has its own.
Filling ==
  /\ (\A c \in Cpus : Pc(c) # "prepare") =>
       TransferIn = SlotAfter(ReadyTransferCount) /\ NextTransferIndex = Done + ReadyTransferCount
  /\ \A c \in Cpus : Pc(c) = "prepare" =>
       LET d == dpc.cpu[c] IN
       /\ d.slot = SlotAfter(ReadyTransferCount)
       /\ NextTransferIndex + d.prepared = Done + ReadyTransferCount
       /\ d.left # 0 /\ d.left + ReadyTransferCount <= MAX /\ d.prepared + d.left <= MAX
       /\ ReadyTransferCount + d.left <= TransfersLeft

\* A DPC or a cancellation that has lost the race has aborted the transfers.
Stopped ==
  /\ engine = "off" /\ ReadyTransferCount = 0 /\ isr = "off"
  /\ wdf = "calling" \/ State = "CANCELED"

Sequence ==
  Live /\ Type = "SEQUENCE" =>
    /\ Phase # "prepare" => (Counted /\ InSlots /\ Filling) \/ Stopped
    /\ served + TransfersLeft <= TransferCount

\* One at most may start the next transfer: the interrupt routine that has found nothing
\* prepared, whoever finds IsIdle, the DPC that has, or the controller when it is done.
Token ==
  /\ isr = "idle" => ~ IsIdle /\ engine = "on" /\ Live /\ Type = "SEQUENCE" /\ Phase = "over"
  /\ engine = "busy" => ~ IsIdle /\ isr = "off" /\ Live /\ Phase = "over"
  /\ \A c \in Cpus : Pc(c) = "start" =>
       ~ IsIdle /\ isr = "off" /\ engine # "busy" /\ \A d \in Cpus : Pc(d) = "start" => d = c

\* What an instance of the DPC may rely on, by where it is.
Roles ==
  /\ \A c \in Cpus :
       /\ Pc(c) # "failed"
       /\ Pc(c) \in Serving =>
            /\ Live /\ Phase = "over" /\ State = "NOT_CANCELABLE" /\ sent = {}
            /\ \A d \in Cpus : Pc(d) \in Serving => d = c
       /\ Pc(c) \in {"look", "prepare", "mark"} => Type = "SEQUENCE"
       /\ Pc(c) = "complete" /\ Type = "SEQUENCE" => TransfersLeft = 0
       /\ Pc(c) \in {"idle", "start"} =>
            IF Live THEN Type = "SEQUENCE" /\ Phase = "over" ELSE ReadyTransferCount = 0
       /\ Pc(c) \in {"burst", "timeout"} =>
            IF Live THEN Type = "READ" /\ Phase = "over" /\ State # "NOT_CANCELABLE" ELSE engine = "off"
  /\ engine = "held" /\ ~ DpcOver => Live /\ Type = "READ" /\ Phase = "over" /\ State = "CANCELABLE"

\* A request of one transfer has one instance of the DPC, after the transfer or between
\* two of its bursts.
Single ==
  Live /\ Type # "SEQUENCE" =>
    /\ ~ IsIdle
    /\ State = "NOT_CANCELABLE" => engine # "busy"
    /\ engine = "busy" => ~ dpc.queued
    /\ engine = "busy" \/ dpc.queued => \A c \in Cpus : Pc(c) = "off"
    /\ \A c, d \in Cpus : Pc(c) # "off" /\ Pc(d) # "off" => c = d
    /\ dpc.queued /\ engine # "held" /\ wdf = "marked" => served = TransferCount
    /\ \A c \in Cpus :
         /\ Pc(c) = "disable" /\ wdf = "marked" => served = TransferCount /\ engine # "held"
         /\ Pc(c) = "complete" => served = TransferCount

\* One write to the pin at most is under way, and it belongs to the current request, or to
\* a lock or unlock.
Writes ==
  /\ sent \in {{}, {"assert"}, {"negate"}}
  /\ sent # {} => (GpioData <=> sent = {"assert"})
  /\ Live => (sent = {"assert"} <=> Phase = "pin")
  /\ ~ Live /\ ~ LockUnlockRequest => sent = {}
  /\ LockUnlockRequest /\ sent = {"assert"} => IsControllerLocked
  /\ Live /\ sent = {"negate"} /\ State # "CANCELED" =>
       /\ Phase = "over" /\ State = "NOT_CANCELABLE" /\ engine # "busy"
       /\ IF Type = "SEQUENCE" THEN TransfersLeft = 0 ELSE served = TransferCount

\* Every transfer that is counted as done has been carried out to its last word.
Wholly ==
  "burst" \notin Races /\ Live /\ Type = "SEQUENCE" =>
    bursts = 1 /\ burst <= 1 /\ served + TransfersLeft = TransferCount

\* The last request decides whether the pin may stay asserted.
Negated ==
  "gpio" \notin Races =>
    /\ canceller # NoRequest => ~ gpio \/ IsControllerLocked
    /\ Answered /\ ~ IsControllerLocked /\ ~ LockUnlockRequest /\ gpio /\ cs =>
         count # 0 /\ (io[count] = "refused" \/ answer[count] = "failed")

Inv == /\ RequestTypes /\ TransferTypes /\ DeviceTypes /\ DpcTypes
       /\ Holder /\ Cancellation /\ Starting /\ Sequence /\ Token
       /\ Roles /\ Single /\ Writes /\ Wholly /\ Negated

-----------------------------------------------------------------------------
(* Slots. *)

\* The bounds are numbers.
LEMMA Bounds ==
  /\ MAX \in Nat /\ MAX > 1 /\ Slots = 0 .. MAX - 1 /\ 0 \in Slots
  /\ MAX_PREPARED_TRANSFERS_COUNT = MAX
  /\ MaxTransfers \in Nat /\ MaxTransfers > 0 /\ MaxRequests \in Nat
  BY EcspiAssumption DEF Slots, MAX

\* A slot at most one lap further on.
LEMMA SlotIs ==
  ASSUME NEW i \in Slots, NEW n \in 0 .. MAX
  PROVE  (i + n) % MAX = IF i + n < MAX THEN i + n ELSE i + n - MAX
<1>1. MAX \in Nat /\ MAX > 1 /\ i \in Nat /\ n \in Nat /\ i < MAX /\ n <= MAX
  BY EcspiAssumption DEF Slots, MAX
<1>2. CASE i + n < MAX
  BY <1>1, <1>2
<1>3. CASE i + n >= MAX
  <2>1. (i + n - MAX) % MAX = i + n - MAX
    BY <1>1, <1>3
  <2>2. (i + n) % MAX = (i + n - MAX) % MAX
    BY <1>1, <1>3
  <2>. QED
    BY <1>1, <1>3, <2>1, <2>2
<1>. QED
  BY <1>1, <1>2, <1>3

\* The slot after TransferOut's is the same counted from either, and it is another one.
LEMMA SlotsAfter ==
  ASSUME NEW i \in Slots
  PROVE  /\ Next1(i) \in Slots
         /\ \A n \in 0 .. MAX - 1 : (Next1(i) + n) % MAX = (i + (n + 1)) % MAX
         /\ \A n \in 0 .. MAX : (i + n) % MAX \in Slots
         /\ \A n \in 0 .. MAX - 1 : Next1((i + n) % MAX) = (i + (n + 1)) % MAX
         /\ \A m, n \in 0 .. MAX - 1 : (i + m) % MAX = (i + n) % MAX => m = n
         /\ i % MAX = i
<1>1. MAX \in Nat /\ MAX > 1 /\ Slots = 0 .. MAX - 1 /\ i \in Nat /\ i < MAX
  BY EcspiAssumption DEF Slots, MAX
<1>2. \A j \in Slots : Next1(j) = IF j + 1 < MAX THEN j + 1 ELSE 0
  <2>. SUFFICES ASSUME NEW j \in Slots PROVE Next1(j) = IF j + 1 < MAX THEN j + 1 ELSE 0
    OBVIOUS
  <2>1. (j + 1) % MAX = IF j + 1 < MAX THEN j + 1 ELSE j + 1 - MAX
    BY <1>1, SlotIs
  <2>2. Next1(j) = (j + 1) % MAX
    BY DEF Next1, MAX
  <2>. QED
    BY <1>1, <2>1, <2>2
<1>3. \A j \in Slots, n \in 0 .. MAX : (j + n) % MAX = IF j + n < MAX THEN j + n ELSE j + n - MAX
  BY SlotIs
<1>4. Next1(i) \in Slots
  BY <1>1, <1>2
<1>5. ASSUME NEW n \in 0 .. MAX - 1 PROVE (Next1(i) + n) % MAX = (i + (n + 1)) % MAX
  <2>1. (Next1(i) + n) % MAX = IF Next1(i) + n < MAX THEN Next1(i) + n ELSE Next1(i) + n - MAX
    <3>1. n \in 0 .. MAX
      BY <1>1
    <3>. QED
      BY <1>3, <1>4, <3>1
  <2>2. (i + (n + 1)) % MAX = IF i + (n + 1) < MAX THEN i + (n + 1) ELSE i + (n + 1) - MAX
    <3>1. n + 1 \in 0 .. MAX
      BY <1>1
    <3>. QED
      BY <1>3, <3>1
  <2>3. Next1(i) = IF i + 1 < MAX THEN i + 1 ELSE 0
    BY <1>2
  <2>. QED
    BY <1>1, <2>1, <2>2, <2>3
<1>6. ASSUME NEW n \in 0 .. MAX PROVE (i + n) % MAX \in Slots
  BY <1>1, <1>3
<1>7. ASSUME NEW n \in 0 .. MAX - 1 PROVE Next1((i + n) % MAX) = (i + (n + 1)) % MAX
  <2>1. (i + n) % MAX = IF i + n < MAX THEN i + n ELSE i + n - MAX
    BY <1>1, <1>3
  <2>2. (i + (n + 1)) % MAX = IF i + (n + 1) < MAX THEN i + (n + 1) ELSE i + (n + 1) - MAX
    <3>1. n + 1 \in 0 .. MAX
      BY <1>1
    <3>. QED
      BY <1>3, <3>1
  <2>3. Next1((i + n) % MAX) = IF ((i + n) % MAX) + 1 < MAX THEN ((i + n) % MAX) + 1 ELSE 0
    BY <1>1, <1>2, <1>6
  <2>. QED
    BY <1>1, <2>1, <2>2, <2>3
<1>8. ASSUME NEW m \in 0 .. MAX - 1, NEW n \in 0 .. MAX - 1, (i + m) % MAX = (i + n) % MAX PROVE m = n
  <2>1. (i + m) % MAX = IF i + m < MAX THEN i + m ELSE i + m - MAX
    BY <1>1, <1>3
  <2>2. (i + n) % MAX = IF i + n < MAX THEN i + n ELSE i + n - MAX
    BY <1>1, <1>3
  <2>. QED
    BY <1>1, <1>8, <2>1, <2>2
<1>9. i % MAX = i
  BY <1>1
<1>. QED
  BY <1>4, <1>5, <1>6, <1>7, <1>8, <1>9

\* The prepared transfers are where they were when nobody has moved them.
LEMMA SlotsSame ==
  ASSUME UNCHANGED <<TransferOut, ReadyTransferCount, TransfersLeft, TransferCount, Transfers>>
  PROVE  InSlots' <=> InSlots
  BY DEF InSlots, SlotAfter, Done

\* When the first prepared transfer is done, the rest are still in order from TransferOut.
LEMMA FirstDone ==
  ASSUME TransferTypes, DpcTypes, Counted, InSlots, Filling, ReadyTransferCount # 0,
         TransferOut' = Next1(TransferOut), ReadyTransferCount' = ReadyTransferCount - 1,
         TransfersLeft' = TransfersLeft - 1, dpc'.cpu = dpc.cpu,
         UNCHANGED <<TransferCount, Transfers, TransferIn, NextTransferIndex>>
  PROVE  InSlots' /\ Filling'
<1>. DEFINE R == ReadyTransferCount
<1>1. /\ R \in 1 .. MAX /\ R - 1 \in 0 .. MAX - 1 /\ TransferCount \in Nat /\ TransfersLeft \in Nat
      /\ Done \in Int /\ Done' = Done + 1 /\ TransferOut \in Slots
  BY Bounds DEF TransferTypes, Done
<1>2. \A n \in 0 .. MAX - 1 : SlotAfter(n)' = SlotAfter(n + 1)
  BY <1>1, SlotsAfter DEF SlotAfter
<1>3. SlotAfter(ReadyTransferCount)' = SlotAfter(ReadyTransferCount)
  <2>. SUFFICES ASSUME NEW n \in 0 .. MAX - 1, n = R - 1
                PROVE  SlotAfter(ReadyTransferCount)' = SlotAfter(R)
    BY <1>1
  <2>1. SlotAfter(ReadyTransferCount)' = SlotAfter(n)'
    BY DEF SlotAfter
  <2>2. n + 1 = R
    BY <1>1, Bounds
  <2>. QED
    BY <1>2, <2>1, <2>2
<1>4. InSlots'
  <2>. SUFFICES ASSUME NEW k \in 0 .. R - 2 PROVE Transfers[SlotAfter(k)'] = Done + 1 + k + 1
    BY <1>1, Bounds DEF InSlots, SlotAfter
  <2>1. k \in 0 .. MAX - 1 /\ k + 1 \in 0 .. R - 1
    BY <1>1, Bounds
  <2>2. Transfers[SlotAfter(k + 1)] = Done + (k + 1) + 1
    BY <2>1 DEF InSlots
  <2>. QED
    BY <1>1, <1>2, <2>1, <2>2
<1>5. Filling'
  <2>1. ASSUME \A c \in Cpus : Pc(c)' # "prepare"
        PROVE  TransferIn' = SlotAfter(ReadyTransferCount)' /\ NextTransferIndex' = (Done + ReadyTransferCount)'
    BY <1>1, <1>3, <2>1, Bounds DEF Filling, Pc
  <2>2. ASSUME NEW c \in Cpus, Pc(c)' = "prepare"
        PROVE  LET d == dpc.cpu[c] IN
               /\ d.slot = SlotAfter(ReadyTransferCount)'
               /\ NextTransferIndex + d.prepared = (Done + ReadyTransferCount)'
               /\ d.left # 0 /\ d.left + (R - 1) <= MAX /\ d.prepared + d.left <= MAX
               /\ R - 1 + d.left <= TransfersLeft - 1
    <3>1. dpc.cpu[c].left \in Nat /\ dpc.cpu[c].prepared \in Nat
      BY Bounds DEF DpcTypes
    <3>2. Pc(c) = "prepare"
      BY <2>2 DEF Pc
    <3>3. LET d == dpc.cpu[c] IN
          /\ d.slot = SlotAfter(ReadyTransferCount)
          /\ NextTransferIndex + d.prepared = Done + ReadyTransferCount
          /\ d.left # 0 /\ d.left + ReadyTransferCount <= MAX /\ d.prepared + d.left <= MAX
          /\ ReadyTransferCount + d.left <= TransfersLeft
      BY <3>2 DEF Filling
    <3>4. (Done + ReadyTransferCount)' = Done + ReadyTransferCount
      BY <1>1, Bounds
    <3>. QED
      BY <1>1, <1>3, <3>1, <3>3, <3>4, Bounds, SMTT(30)
  <2>. QED
    BY <2>1, <2>2 DEF Filling, Pc
<1>. QED
  BY <1>4, <1>5

\* A transfer prepared in the slot behind the others is the next one.
LEMMA OneMore ==
  ASSUME TransferTypes, DpcTypes, Counted, InSlots, Filling, NEW c \in Cpus, Pc(c) = "prepare",
         Transfers' = [Transfers EXCEPT ![Slot(c)] = NextTransferIndex + dpc.cpu[c].prepared + 1],
         ReadyTransferCount' = ReadyTransferCount + 1,
         UNCHANGED <<TransferOut, TransfersLeft, TransferCount>>
  PROVE  /\ InSlots' /\ ReadyTransferCount + 1 <= TransfersLeft
         /\ ReadyTransferCount + 1 \in 0 .. MAX /\ Transfers' \in [Slots -> 0 .. MaxTransfers]
         /\ Next1(Slot(c)) = SlotAfter(ReadyTransferCount)' /\ Next1(Slot(c)) \in Slots
         /\ NextTransferIndex + dpc.cpu[c].prepared + 1 = (Done + ReadyTransferCount)'
         /\ NextTransferIndex + dpc.cpu[c].prepared + 1 \in 0 .. MaxTransfers
<1>. DEFINE R == ReadyTransferCount
            d == dpc.cpu[c]
<1>1. /\ R \in 0 .. MAX /\ TransferCount \in 0 .. MaxTransfers /\ TransfersLeft \in 0 .. MaxTransfers
      /\ d.left \in Nat /\ d.prepared \in Nat /\ NextTransferIndex \in Nat /\ TransferOut \in Slots
  BY Bounds DEF TransferTypes, DpcTypes
<1>2. /\ Slot(c) = SlotAfter(R) /\ NextTransferIndex + d.prepared = Done + R
      /\ d.left # 0 /\ d.left + R <= MAX /\ R + d.left <= TransfersLeft
  BY DEF Filling, Slot
<1>3. /\ R \in 0 .. MAX - 1 /\ R + 1 <= TransfersLeft /\ R + 1 \in 0 .. MAX /\ R + 1 <= TransferCount
      /\ TransfersLeft <= TransferCount
  BY <1>1, <1>2, Bounds DEF Counted
<1>4. /\ Done \in Nat /\ Done' = Done /\ Done + R + 1 \in 0 .. MaxTransfers
      /\ NextTransferIndex + d.prepared + 1 = Done + R + 1
  BY <1>1, <1>2, <1>3, Bounds DEF Done
<1>5. \A m, n \in 0 .. MAX - 1 : SlotAfter(m) = SlotAfter(n) => m = n
  BY <1>1, SlotsAfter DEF SlotAfter
<1>6. /\ Slot(c) \in Slots /\ Next1(Slot(c)) = SlotAfter(R + 1) /\ Next1(Slot(c)) \in Slots
  <2>1. R \in 0 .. MAX
    BY <1>1
  <2>2. SlotAfter(R) \in Slots /\ Next1(SlotAfter(R)) = SlotAfter(R + 1)
    BY <1>1, <1>3, <2>1, SlotsAfter DEF SlotAfter
  <2>3. Next1(Slot(c)) \in Slots
    BY <1>2, <2>2, SlotsAfter
  <2>. QED
    BY <1>2, <2>2, <2>3
<1>7. InSlots'
  <2>. SUFFICES ASSUME NEW k \in 0 .. R PROVE Transfers'[SlotAfter(k)] = Done + k + 1
    BY <1>1, <1>4, Bounds DEF InSlots, SlotAfter
  <2>1. k \in 0 .. MAX - 1 /\ SlotAfter(k) \in Slots
    BY <1>1, <1>3, Bounds, SlotsAfter, SMTT(30) DEF SlotAfter
  <2>2. CASE k = R
    BY <1>2, <1>4, <1>6, <2>2 DEF TransferTypes
  <2>3. CASE k # R
    <3>1. k \in 0 .. R - 1
      BY <1>1, <2>3, Bounds
    <3>2. SlotAfter(k) # Slot(c)
      BY <1>2, <1>3, <1>5, <2>1, <2>3
    <3>3. Transfers'[SlotAfter(k)] = Transfers[SlotAfter(k)]
      BY <2>1, <3>2 DEF TransferTypes
    <3>. QED
      BY <3>1, <3>3 DEF InSlots
  <2>. QED
    BY <2>2, <2>3
<1>8. Transfers' \in [Slots -> 0 .. MaxTransfers]
  BY <1>4 DEF TransferTypes
<1>9. SlotAfter(R + 1) = SlotAfter(ReadyTransferCount)'
  BY DEF SlotAfter
<1>10. NextTransferIndex + d.prepared + 1 = (Done + ReadyTransferCount)'
  BY <1>1, <1>4, Bounds
<1>. QED
  BY <1>3, <1>4, <1>6, <1>7, <1>8, <1>9, <1>10

\* What a request starts with: the first transfers, from the first slot.
LEMMA FirstOnes ==
  ASSUME TransferTypes, NEW n \in 0 .. MAX, n <= TransferCount, TransferOut = 0,
         TransfersLeft = TransferCount, UNCHANGED <<TransferOut, TransfersLeft, TransferCount>>,
         ReadyTransferCount' = n, TransferIn' = n % MAX, NextTransferIndex' = n,
         Transfers' = [s \in Slots |-> IF s < n THEN s + 1 ELSE 0]
  PROVE  /\ InSlots' /\ SlotAfter(ReadyTransferCount)' = TransferIn' /\ (Done + ReadyTransferCount)' = n
         /\ TransferIn' \in Slots /\ Transfers' \in [Slots -> 0 .. MaxTransfers]
<1>1. /\ n \in Nat /\ TransferCount \in 0 .. MaxTransfers /\ Done' = 0 /\ (Done + ReadyTransferCount)' = n
  BY Bounds DEF TransferTypes, Done
<1>2. \A m \in 0 .. MAX : (0 + m) % MAX = (IF m < MAX THEN m ELSE m - MAX) /\ 0 + m = m
  <2>. SUFFICES ASSUME NEW m \in 0 .. MAX
                PROVE  (0 + m) % MAX = (IF m < MAX THEN m ELSE m - MAX) /\ 0 + m = m
    OBVIOUS
  <2>1. 0 + m = m /\ 0 \in Slots
    BY Bounds
  <2>2. (0 + m) % MAX = IF 0 + m < MAX THEN 0 + m ELSE 0 + m - MAX
    BY <2>1, SlotIs
  <2>. QED
    BY <2>1, <2>2, Bounds
<1>3. SlotAfter(ReadyTransferCount)' = TransferIn' /\ TransferIn' \in Slots
  BY <1>2, Bounds DEF SlotAfter
<1>4. Transfers' \in [Slots -> 0 .. MaxTransfers]
  BY <1>1, Bounds
<1>5. ASSUME NEW k \in 0 .. n - 1 PROVE Transfers'[SlotAfter(k)'] = Done' + k + 1
  <2>1. k \in 0 .. MAX /\ k \in Slots /\ k < n
    BY <1>1, Bounds
  <2>2. SlotAfter(k)' = k
    <3>1. SlotAfter(k)' = (0 + k) % MAX
      BY DEF SlotAfter
    <3>. QED
      BY <1>2, <2>1, <3>1, Bounds
  <2>. QED
    BY <1>1, <2>1, <2>2, Bounds
<1>. QED
  BY <1>1, <1>3, <1>4, <1>5 DEF InSlots

\* Nor have the indices of those who prepare, when nobody begins or ends it.
LEMMA FillingSame ==
  ASSUME UNCHANGED <<TransferOut, ReadyTransferCount, TransfersLeft, TransferCount, TransferIn,
                     NextTransferIndex>>,
         \A c \in Cpus : dpc'.cpu[c] = dpc.cpu[c] \/ (Pc(c) # "prepare" /\ dpc'.cpu[c].pc # "prepare")
  PROVE  Filling' <=> Filling
<1>1. \A c \in Cpus : /\ Pc(c)' = "prepare" <=> Pc(c) = "prepare"
                      /\ Pc(c) = "prepare" => dpc'.cpu[c] = dpc.cpu[c]
  BY DEF Pc
<1>2. UNCHANGED <<SlotAfter(ReadyTransferCount), Done>>
  BY DEF SlotAfter, Done
<1>. QED
  BY <1>1, <1>2 DEF Filling

-----------------------------------------------------------------------------
(* Instances of the DPC. *)

\* Queueing the DPC leaves its instances where they are.
LEMMA QueuedOnly ==
  ASSUME DpcTypes, Queued
  PROVE  DpcTypes' /\ dpc'.queued /\ dpc'.cpu = dpc.cpu
  BY DEF DpcTypes, Queued

\* One instance goes on, the others stay where they are.
LEMMA OneMoves ==
  ASSUME DpcTypes, NEW c \in Cpus, NEW pc \in PCs, Goto(c, pc)
  PROVE  /\ DpcTypes' /\ (dpc'.queued <=> dpc.queued)
         /\ dpc'.cpu[c] = [dpc.cpu[c] EXCEPT !.pc = pc] /\ dpc'.cpu[c].pc = pc
         /\ \A d \in Cpus \ {c} : dpc'.cpu[d] = dpc.cpu[d]
  BY DEF DpcTypes, Goto

\* One instance returns, the others stay where they are.
LEMMA OneReturns ==
  ASSUME DpcTypes, NEW c \in Cpus, Return(c)
  PROVE  /\ DpcTypes' /\ (dpc'.queued <=> dpc.queued) /\ dpc'.cpu[c].pc = "off"
         /\ \A d \in Cpus \ {c} : dpc'.cpu[d] = dpc.cpu[d]
<1>1. Off \in [pc : PCs, slot : Slots, left : 0 .. MAX, prepared : 0 .. MAX]
  BY EcspiAssumption DEF Off, PCs, Slots, MAX
<1>. QED
  BY <1>1 DEF DpcTypes, Return, Off

\* An instance begins: at the next burst of a READ, or with disabling the cancellation.
LEMMA OneBegins ==
  ASSUME DpcTypes, NEW c \in Cpus, DpcStart(c)
  PROVE  /\ DpcTypes' /\ ~ dpc'.queued
         /\ dpc'.cpu[c].pc = IF Type = "READ" /\ engine = "held" THEN "burst" ELSE "disable"
         /\ \A d \in Cpus \ {c} : dpc'.cpu[d] = dpc.cpu[d]
<1>. DEFINE pc == IF Type = "READ" /\ engine = "held" THEN "burst" ELSE "disable"
<1>1. dpc' = [dpc EXCEPT !.queued = FALSE, !.cpu[c].pc = pc] /\ pc \in PCs
  BY DEF DpcStart, PCs
<1>. HIDE DEF pc
<1>2. /\ DpcTypes' /\ ~ dpc'.queued /\ dpc'.cpu[c].pc = pc
      /\ \A d \in Cpus \ {c} : dpc'.cpu[d] = dpc.cpu[d]
  BY <1>1 DEF DpcTypes
<1>. QED
  BY <1>2 DEF pc

\* An instance moves to the preparation, or on in it.
LEMMA OnePrepares ==
  ASSUME DpcTypes, NEW c \in Cpus, NEW s \in Slots, NEW n \in 0 .. MAX, NEW p \in 0 .. MAX,
         dpc' = [dpc EXCEPT !.cpu[c] = [pc |-> "prepare", slot |-> s, left |-> n, prepared |-> p]]
  PROVE  /\ DpcTypes' /\ (dpc'.queued <=> dpc.queued)
         /\ dpc'.cpu[c] = [pc |-> "prepare", slot |-> s, left |-> n, prepared |-> p]
         /\ \A d \in Cpus \ {c} : dpc'.cpu[d] = dpc.cpu[d]
  BY DEF DpcTypes, PCs

\* A request that is being started is the current one, the last received.
LEMMA StartsCurrent ==
  ASSUME Holder, RequestTypes, NEW r \in Requests, io[r] \in Early \ {"pin"}
  PROVE  Live /\ r = SpbRequest /\ r = count /\ Phase = io[r]
  BY DEF Holder, RequestTypes, Early, Live, Phase, Requests, NoRequest

\* Whatever can be prepared is still to be done, and finds a slot.
LEMMA RoomIs ==
  ASSUME TransferTypes
  PROVE  /\ ToPrepare \in Int /\ ToPrepare <= TransferCount - NextTransferIndex
         /\ ToPrepare <= MAX - ReadyTransferCount
         /\ ToPrepare = TransferCount - NextTransferIndex \/ ToPrepare = MAX - ReadyTransferCount
  BY Bounds DEF TransferTypes, ToPrepare, Least, Room

\* The end of a sequence's transfer keeps its count, and the order of the rest.
LEMMA SequenceGoesOn ==
  ASSUME Inv, engine = "busy", isr = "off", Type = "SEQUENCE",
         NEW whole \in BOOLEAN, CompleteSequenceTransfer(whole),
         UNCHANGED <<params, prep, Transfers>>
  PROVE  /\ Counted' /\ InSlots' /\ Filling' /\ TransferTypes'
         /\ Live /\ Phase = "over" /\ TransfersLeft # 0
<1>1. Live /\ Phase = "over" /\ engine # "off" /\ Sequence /\ TransferTypes /\ DpcTypes
  BY DEF Inv, Token
<1>2. Counted /\ InSlots /\ Filling /\ ReadyTransferCount # 0 /\ served + TransfersLeft <= TransferCount
  BY <1>1 DEF Sequence, Stopped, Counted
<1>3. /\ TransferOut' = Next1(TransferOut) /\ ReadyTransferCount' = ReadyTransferCount - 1
      /\ TransfersLeft' = TransfersLeft - 1 /\ dpc'.cpu = dpc.cpu
      /\ served' = served + 1 \/ served' = served
      /\ burst' = burst \/ burst' = bursts
  BY <1>1, QueuedOnly DEF CompleteSequenceTransfer, StartNextTransfer
<1>4. InSlots' /\ Filling'
  BY <1>1, <1>2, <1>3, FirstDone DEF params, prep
<1>5. TransferOut' \in Slots
  BY <1>1, <1>3, SlotsAfter DEF TransferTypes
<1>6. /\ ReadyTransferCount \in 1 .. MAX /\ TransfersLeft \in 1 .. TransferCount
      /\ ReadyTransferCount <= TransfersLeft
  BY <1>1, <1>2, Bounds DEF TransferTypes, Counted
<1>7. TransferTypes'
  BY <1>1, <1>2, <1>3, <1>5, <1>6, Bounds, SMTT(30) DEF TransferTypes, params, prep
<1>8. Counted'
  <2>1. engine' = "busy" => ReadyTransferCount # 1
    BY DEF CompleteSequenceTransfer
  <2>2. isr' = "idle" => TransfersLeft # 1
    BY DEF CompleteSequenceTransfer
  <2>. QED
    BY <1>1, <1>2, <1>3, <1>6, <2>1, <2>2, Bounds DEF Counted, TransferTypes, params
<1>. QED
  BY <1>1, <1>4, <1>6, <1>7, <1>8

\* The parts make up TypeOK.
LEMMA TypesTogether ==
  ASSUME RequestTypes, TransferTypes, DeviceTypes, DpcTypes, Writes
  PROVE  TypeOK
  BY DEF RequestTypes, TransferTypes, DeviceTypes, DpcTypes, Writes, TypeOK, MAX, PCs

-----------------------------------------------------------------------------
(* Each step keeps the invariant. *)

\* A request is received when the last one has been answered and its DPCs have returned.
LEMMA ReceiveInv ==
  ASSUME Inv, Orderly, NEW type \in Types, NEW n \in 1 .. MaxTransfers, NEW b \in 1 .. 2,
         NEW pinned \in BOOLEAN, Receive(type, n, b, pinned)
  PROVE  Inv'
<1>1. ~ Live /\ canceller = NoRequest
  <2>. SUFFICES ASSUME Live \/ canceller # NoRequest PROVE FALSE
    OBVIOUS
  <2>1. answer[count] = "none" /\ count # 0 /\ count \in Nat
    BY Bounds DEF Inv, Holder, RequestTypes, Live, Requests, NoRequest
  <2>. QED
    BY <2>1 DEF Receive, Answered
<1>2. /\ sent = {} /\ DpcOver /\ isr = "off" /\ engine # "busy"
  BY <1>1 DEF Inv, DeviceTypes, Token, Writes, Receive, Orderly
<1>3. count + 1 \in Requests /\ Live' /\ Phase' = "prepare"
  BY Bounds DEF Inv, RequestTypes, Live, Phase, Requests, NoRequest, Receive
<1>4. RequestTypes'
  BY EcspiAssumption DEF Inv, RequestTypes, Answered, DpcOver, NoRequest, Requests, Types,
                         Receive
<1>5. TransferTypes'
  BY Bounds DEF Inv, TransferTypes, Receive
<1>6. DeviceTypes'
  BY DEF Inv, DeviceTypes, control, pin, params, Receive
<1>7. DpcTypes'
  BY <1>1, <1>2, <1>3 DEF Inv, DpcTypes, Answered, DpcOver, Receive
<1>8. Holder'
  BY Bounds DEF Inv, RequestTypes, Holder, Live, Phase, Early, Failures, Orderly, Answered, DpcOver, control,
                NoRequest, Requests, Types, Receive
<1>9. Cancellation'
  BY Bounds DEF Inv, RequestTypes, Cancellation, Live, Phase, Answered, DpcOver, pin, NoRequest,
                Requests, Types, Receive
<1>10. Starting'
  BY <1>1, <1>2, <1>3 DEF Inv, Starting, Live, Phase, Early, Answered, DpcOver, NoRequest,
                          Receive
<1>11. Sequence'
  BY <1>3 DEF Sequence, Phase, Receive
<1>12. Token'
  BY <1>1, <1>2, <1>3 DEF Inv, Token, Live, Phase, Pc, Answered, DpcOver, NoRequest, Receive
<1>13. Roles'
  BY <1>1, <1>2, <1>3 DEF Inv, Roles, Live, Phase, Pc, Serving, Answered, DpcOver, pin,
                          NoRequest, Receive
<1>14. Single'
  BY <1>1, <1>2, <1>3 DEF Inv, Single, Live, Pc, Answered, DpcOver, NoRequest, Receive
<1>15. Writes'
  BY <1>1, <1>2, <1>3 DEF Inv, Writes, Phase, pin, control, Receive
<1>16. Wholly'
  BY DEF Inv, Wholly, Live, Answered, DpcOver, NoRequest, Receive
<1>17. Negated'
  BY Bounds DEF Inv, RequestTypes, Holder, Negated, Live, Phase, Early, Answered, DpcOver, pin,
                control, NoRequest, Requests, Types, Receive
<1>. QED
  BY <1>4, <1>5, <1>6, <1>7, <1>8, <1>9, <1>10, <1>11, <1>12, <1>13, <1>14, <1>15, <1>16, <1>17
     DEF Inv

\* The first transfers are prepared in the slots from 0 on, or the request is answered.
LEMMA PrepareInv ==
  ASSUME Inv, Orderly, NEW r \in Requests, Prepare(r)
  PROVE  Inv'
<1>1. /\ Live /\ r = SpbRequest /\ r = count /\ Phase = "prepare" /\ DpcOver /\ State = "INACTIVE"
      /\ ReadyTransferCount = 0 /\ NextTransferIndex = 0 /\ TransferOut = 0
      /\ TransfersLeft = TransferCount /\ TransferCount # 0 /\ isr = "off" /\ engine # "busy"
  BY StartsCurrent DEF Inv, Starting, Prepare, Early
<1>2. ASSUME Transfers' = [s \in Slots |-> IF s < ToPrepare THEN s + 1 ELSE 0],
             ReadyTransferCount' = ReadyTransferCount + ToPrepare, NextTransferIndex' = ToPrepare,
             TransferIn' = ToPrepare % MAX_PREPARED_TRANSFERS_COUNT
      PROVE  /\ TransferTypes' /\ Counted' /\ InSlots' /\ Filling' /\ ReadyTransferCount' # 0
  <2>1. ToPrepare \in 1 .. MAX /\ ToPrepare <= TransferCount /\ ToPrepare \in 0 .. MAX
    BY <1>1, RoomIs, Bounds DEF Inv, TransferTypes
  <2>2. ReadyTransferCount' = ToPrepare
    BY <1>1, <1>2, <2>1, Bounds
  <2>3. /\ InSlots' /\ SlotAfter(ReadyTransferCount)' = TransferIn' /\ (Done + ReadyTransferCount)' = ToPrepare
        /\ TransferIn' \in Slots /\ Transfers' \in [Slots -> 0 .. MaxTransfers]
    BY <1>1, <1>2, <2>1, <2>2, FirstOnes, Bounds DEF Inv, Prepare, params
  <2>4. TransferTypes'
    BY <1>2, <2>1, <2>2, <2>3, Bounds DEF Inv, TransferTypes, Prepare, params
  <2>5. Counted'
    BY <1>1, <2>1, <2>2, Bounds DEF Inv, TransferTypes, Counted, Prepare, params
  <2>6. Filling'
    BY <1>1, <1>2, <2>3 DEF Filling, Pc, DpcOver, Prepare
  <2>. QED
    BY <2>1, <2>2, <2>3, <2>4, <2>5, <2>6, Bounds
<1>3. RequestTypes'
  BY DEF Inv, RequestTypes, NoRequest, Requests, Types, Prepare, CompleteTransferRequest
<1>4. TransferTypes'
  BY <1>2 DEF Inv, TransferTypes, Prepare, prep, params
<1>5. DeviceTypes'
  BY DEF Inv, DeviceTypes, params, pin, control, Prepare
<1>6. DpcTypes'
  BY <1>1, <1>2 DEF Inv, DpcTypes, Prepare
<1>7. Holder'
  BY <1>1, <1>2, Bounds DEF Inv, RequestTypes, Holder, Single, Wholly, Negated, Live, Phase, Pc, Failures,
                            Early, Answered, params, pin, control, NoRequest, Requests, Types,
                            Prepare, CompleteTransferRequest
<1>8. Cancellation'
  BY <1>1, <1>2, Bounds DEF Inv, RequestTypes, Cancellation, Starting, Live, Phase, Early,
                            DpcOver, prep, params, pin, NoRequest, Requests, Types, Prepare,
                            CompleteTransferRequest
<1>9. Starting'
  BY <1>1, <1>2, EcspiAssumption DEF Inv, RequestTypes, Starting, Live, Phase, Early, DpcOver,
                                     prep, params, Answer, Prepare, CompleteTransferRequest
<1>10. Sequence'
  BY <1>1, <1>2, EcspiAssumption DEF Inv, Sequence, Live, Phase, Prepare,
                                     CompleteTransferRequest, params
<1>11. Token'
  BY <1>1, <1>2 DEF Inv, Token, Live, Phase, Pc, NoRequest, Prepare, CompleteTransferRequest
<1>12. Roles'
  BY <1>1, <1>2 DEF Inv, Roles, Live, Phase, Pc, Serving, DpcOver, pin, NoRequest, Prepare,
                    CompleteTransferRequest
<1>13. Single'
  BY <1>1, <1>2 DEF Inv, Single, Live, Pc, params, NoRequest, Prepare, CompleteTransferRequest
<1>14. Writes'
  BY <1>1, <1>2, Bounds DEF Inv, RequestTypes, Single, Writes, Live, Phase, Pc, params, pin,
                            control, NoRequest, Requests, Types, Prepare,
                            CompleteTransferRequest
<1>15. Wholly'
  BY DEF Inv, Wholly, Live, params, NoRequest, Prepare, CompleteTransferRequest
<1>16. Negated'
  BY Bounds DEF Inv, RequestTypes, Holder, Negated, Live, Phase, Early, Answered, params, pin,
                control, NoRequest, Requests, Types, Prepare, CompleteTransferRequest
<1>. QED
  BY <1>3, <1>4, <1>5, <1>6, <1>7, <1>8, <1>9, <1>10, <1>11, <1>12, <1>13, <1>14, <1>15, <1>16
     DEF Inv

\* The controller is enabled and the pin's write sent, or the request is answered.
LEMMA AssertCSInv ==
  ASSUME Inv, Orderly, NEW r \in Requests, AssertCS(r)
  PROVE  Inv'
<1>1. RequestTypes'
  BY DEF Inv, RequestTypes, NoRequest, Requests, Types, AssertCS, CompleteTransferRequest
<1>2. TransferTypes'
  BY DEF Inv, TransferTypes, prep, params, AssertCS
<1>3. DeviceTypes'
  BY DEF Inv, DeviceTypes, params, control, AssertCS, SetGpioPin
<1>4. DpcTypes'
  BY DEF Inv, DpcTypes, AssertCS
<1>5. Holder'
  BY Bounds DEF Inv, RequestTypes, Holder, Live, Phase, Early, Failures, control, NoRequest, Requests,
                Types, AssertCS, CompleteTransferRequest
<1>6. Cancellation'
  BY Bounds DEF Inv, RequestTypes, Holder, Cancellation, Starting, Live, Phase, Early, DpcOver,
                prep, params, control, NoRequest, Requests, Types, AssertCS,
                CompleteTransferRequest, SetGpioPin
<1>7. Starting'
  BY Bounds DEF Inv, RequestTypes, Starting, Live, Phase, Early, DpcOver, prep, params,
                NoRequest, Requests, Types, AssertCS, CompleteTransferRequest
<1>8. Sequence'
  BY SlotsSame, FillingSame DEF Inv, Holder, Starting, Sequence, Counted, Stopped, Live, Phase,
                                Early, DpcOver, prep, params, control, NoRequest, Requests,
                                Types, AssertCS, CompleteTransferRequest
<1>9. Token'
  BY DEF Inv, Holder, Token, Single, Live, Phase, Pc, Early, params, control, NoRequest,
         Requests, Types, AssertCS, CompleteTransferRequest
<1>10. Roles'
  BY DEF Inv, Holder, Roles, Live, Phase, Pc, Early, Serving, DpcOver, control, NoRequest,
         Requests, Types, AssertCS, CompleteTransferRequest, SetGpioPin
<1>11. Single'
  BY DEF Inv, Holder, Starting, Single, Live, Phase, Pc, Early, DpcOver, prep, params, control,
         NoRequest, Requests, Types, AssertCS, CompleteTransferRequest
<1>12. Writes'
  BY Bounds DEF Inv, RequestTypes, DeviceTypes, Holder, Starting, Writes, Live, Phase, Early,
                DpcOver, prep, params, control, NoRequest, Requests, Types, AssertCS,
                CompleteTransferRequest, SetGpioPin
<1>13. Wholly'
  BY DEF Inv, Wholly, Live, params, NoRequest, AssertCS, CompleteTransferRequest
<1>14. Negated'
  BY Bounds DEF Inv, RequestTypes, Negated, Answered, params, control, NoRequest, Requests,
                Types, AssertCS, CompleteTransferRequest
<1>. QED
  BY <1>1, <1>2, <1>3, <1>4, <1>5, <1>6, <1>7, <1>8, <1>9, <1>10, <1>11, <1>12, <1>13, <1>14
     DEF Inv

\* The starting thread marks the request cancelable, or answers a cancelled one.
LEMMA EnableInv ==
  ASSUME Inv, Orderly, NEW r \in Requests, EnableRequestCancellation(r)
  PROVE  Inv'
<1>1. RequestTypes'
  BY DEF Inv, RequestTypes, NoRequest, Failures, InitiatesAlone, Requests, Types, EnableRequestCancellation,
         CompleteTransferRequest
<1>2. TransferTypes'
  BY Bounds DEF Inv, TransferTypes, prep, params, EnableRequestCancellation,
                CompleteTransferRequest, AbortAllTransfers, Aborted
<1>3. DeviceTypes'
  BY DEF Inv, DeviceTypes, params, pin, control, EnableRequestCancellation, AbortAllTransfers,
         Aborted
<1>4. DpcTypes'
  BY DEF Inv, DpcTypes, EnableRequestCancellation
<1>5. Holder'
  BY Bounds DEF Inv, RequestTypes, Holder, Live, Phase, Early, Failures, InitiatesAlone, control, NoRequest, Requests,
                Types, EnableRequestCancellation, CompleteTransferRequest
<1>6. Cancellation'
  BY DEF Inv, Holder, Cancellation, Live, Phase, Early, pin, control, NoRequest, Requests,
         Types, EnableRequestCancellation, CompleteTransferRequest, AbortAllTransfers, Aborted
<1>7. Starting'
  BY Bounds DEF Inv, RequestTypes, Holder, Starting, Live, Phase, Early, DpcOver, prep, params,
                control, NoRequest, Requests, Types, EnableRequestCancellation,
                CompleteTransferRequest, AbortAllTransfers, Aborted
<1>8. Sequence'
  BY SlotsSame, FillingSame DEF Inv, Holder, Starting, Sequence, Counted, Stopped, Live, Phase,
                                Early, DpcOver, prep, params, control, NoRequest, Requests,
                                Types, EnableRequestCancellation, CompleteTransferRequest,
                                AbortAllTransfers, Aborted
<1>9. Token'
  BY Bounds DEF Inv, RequestTypes, Token, Live, Phase, Pc, NoRequest, Requests, Types,
                EnableRequestCancellation, CompleteTransferRequest, AbortAllTransfers, Aborted
<1>10. Roles'
  BY DEF Inv, Holder, Roles, Live, Phase, Pc, Early, Serving, DpcOver, pin, control, NoRequest,
         Requests, Types, EnableRequestCancellation, CompleteTransferRequest, AbortAllTransfers,
         Aborted
<1>11. Single'
  BY DEF Inv, Holder, Starting, Single, Live, Phase, Pc, Early, DpcOver, prep, params, control,
         NoRequest, Requests, Types, EnableRequestCancellation, CompleteTransferRequest,
         AbortAllTransfers, Aborted
<1>12. Writes'
  BY Bounds DEF Inv, RequestTypes, Holder, Starting, Writes, Live, Phase, Early, DpcOver, prep,
                params, pin, control, NoRequest, Requests, Types, EnableRequestCancellation,
                CompleteTransferRequest, AbortAllTransfers, Aborted
<1>13. Wholly'
  BY DEF Inv, Wholly, Live, params, NoRequest, EnableRequestCancellation,
         CompleteTransferRequest
<1>14. Negated'
  BY Bounds DEF Inv, RequestTypes, Holder, Negated, Live, Phase, Early, InitiatesAlone, Answered, params, pin,
                control, NoRequest, Requests, Types, EnableRequestCancellation,
                CompleteTransferRequest
<1>. QED
  BY <1>1, <1>2, <1>3, <1>4, <1>5, <1>6, <1>7, <1>8, <1>9, <1>10, <1>11, <1>12, <1>13, <1>14
     DEF Inv

\* The starting thread starts the first transfer; one has been prepared.
LEMMA StartInv ==
  ASSUME Inv, Orderly, NEW r \in Requests, StartTransferSafe(r)
  PROVE  Inv'
<1>1. StartNextTransfer /\ io' = [io EXCEPT ![r] = "over"] /\ ReadyTransferCount # 0
  BY StartsCurrent DEF Inv, Starting, StartTransferSafe, Early
<1>2. RequestTypes'
  BY <1>1 DEF Inv, RequestTypes, NoRequest, Requests, Types, StartTransferSafe
<1>3. TransferTypes'
  BY <1>1 DEF Inv, TransferTypes, prep, params, StartTransferSafe, StartNextTransfer
<1>4. DeviceTypes'
  BY <1>1 DEF Inv, DeviceTypes, params, pin, control, StartTransferSafe, StartNextTransfer
<1>5. DpcTypes'
  BY <1>1 DEF Inv, DpcTypes, StartTransferSafe
<1>6. Holder'
  BY <1>1, Bounds DEF Inv, RequestTypes, Holder, Live, Phase, Early, control, NoRequest,
                      Failures, Requests, Types, StartTransferSafe
<1>7. Cancellation'
  BY <1>1 DEF Inv, Holder, Cancellation, Starting, Live, Phase, Early, DpcOver, prep, params,
              pin, control, NoRequest, Requests, Types, StartTransferSafe, StartNextTransfer
<1>8. Starting'
  BY <1>1 DEF Inv, RequestTypes, Holder, Starting, Live, Phase, Early, DpcOver, prep, params,
              control, NoRequest, Requests, Types, StartTransferSafe, StartNextTransfer
<1>9. Sequence'
  BY <1>1, SlotsSame, FillingSame DEF Inv, Sequence, Counted, Stopped, Live, Phase, prep,
                                      params, NoRequest, StartTransferSafe, StartNextTransfer
<1>10. Token'
  BY <1>1 DEF Inv, RequestTypes, Holder, Starting, Token, Live, Phase, Pc, Early, DpcOver, prep,
              params, control, NoRequest, Requests, Types, StartTransferSafe, StartNextTransfer
<1>11. Roles'
  BY <1>1 DEF Inv, Holder, Roles, Live, Phase, Pc, Early, Serving, DpcOver, pin, control,
              NoRequest, Requests, Types, StartTransferSafe, StartNextTransfer
<1>12. Single'
  BY <1>1 DEF Inv, Holder, Starting, Single, Live, Phase, Pc, Early, DpcOver, prep, params,
              control, NoRequest, Requests, Types, StartTransferSafe, StartNextTransfer
<1>13. Writes'
  BY <1>1 DEF Inv, Holder, Starting, Writes, Live, Phase, Early, DpcOver, prep, params, pin,
              control, NoRequest, Requests, Types, StartTransferSafe, StartNextTransfer
<1>14. Wholly'
  BY <1>1 DEF Inv, Wholly, Live, params, NoRequest, StartTransferSafe, StartNextTransfer
<1>15. Negated'
  BY <1>1, Bounds DEF Inv, RequestTypes, Holder, Negated, Live, Phase, Early, Answered, params,
                      pin, control, NoRequest, Requests, Types, StartTransferSafe
<1>. QED
  BY <1>2, <1>3, <1>4, <1>5, <1>6, <1>7, <1>8, <1>9, <1>10, <1>11, <1>12, <1>13, <1>14, <1>15
     DEF Inv

\* The starting thread completes once more: nothing is current then.
LEMMA CompletesCurrentInv ==
  ASSUME Inv, Orderly, NEW r \in Requests, CompletesCurrent(r)
  PROVE  Inv'
<1>1. /\ ~ Live /\ io[r] \in Failures /\ io' = [io EXCEPT ![r] = AfterFailure(io[r])]
      /\ AfterFailure(io[r]) \in {"refused", "over"}
      /\ UNCHANGED <<SpbRequest, answer, Type, State>>
  BY DEF Inv, Holder, Live, CompletesCurrent, CompleteTransferRequest, AfterFailure, Failures
<1>2. RequestTypes'
  BY <1>1 DEF Inv, RequestTypes, CompletesCurrent
<1>3. TransferTypes' /\ DeviceTypes' /\ DpcTypes'
  BY DEF Inv, TransferTypes, DeviceTypes, DpcTypes, prep, params, pin, control, CompletesCurrent
<1>4. Holder'
  BY <1>1 DEF Inv, RequestTypes, Holder, Live, Early, Failures, control, CompletesCurrent
<1>5. Cancellation' /\ Starting' /\ Sequence' /\ Wholly'
  BY <1>1 DEF Inv, Cancellation, Starting, Sequence, Wholly, Live, pin, CompletesCurrent
<1>6. Token' /\ Single'
  BY <1>1 DEF Inv, Token, Single, Live, Pc, CompletesCurrent
<1>7. Roles'
  BY <1>1 DEF Inv, Roles, Live, Pc, DpcOver, Serving, CompletesCurrent
<1>8. Writes'
  BY <1>1 DEF Inv, Writes, Live, pin, control, CompletesCurrent
<1>9. Negated'
  BY <1>1, Bounds DEF Inv, RequestTypes, Negated, Answered, Requests, Failures, params, pin,
                      control, CompletesCurrent
<1>. QED
  BY <1>2, <1>3, <1>4, <1>5, <1>6, <1>7, <1>8, <1>9 DEF Inv

\* The client cancels: WDF calls the cancellation routine, or will tell whoever marks.
LEMMA ClientCancelsInv ==
  ASSUME Inv, Orderly, ClientCancels
  PROVE  Inv'
<1>1. RequestTypes'
  BY DEF Inv, RequestTypes, Answer, NoRequest, Requests, Types, ClientCancels
<1>2. TransferTypes'
  BY DEF Inv, TransferTypes, prep, params, NoRequest, ClientCancels
<1>3. DeviceTypes'
  BY DEF Inv, DeviceTypes, params, pin, control, NoRequest, ClientCancels
<1>4. DpcTypes'
  BY DEF Inv, DpcTypes, NoRequest, ClientCancels
<1>5. Holder'
  BY DEF Inv, Holder, Live, Phase, Early, control, Answer, NoRequest, Requests, Types,
         ClientCancels
<1>6. Cancellation'
  BY DEF Inv, Cancellation, Live, Phase, pin, Answer, NoRequest, ClientCancels
<1>7. Starting'
  BY DEF Inv, Starting, Live, Phase, Early, DpcOver, prep, params, Answer, NoRequest,
         ClientCancels
<1>8. Sequence'
  BY SlotsSame, FillingSame DEF Inv, Sequence, Counted, Stopped, Live, Phase, prep, params,
                                Answer, NoRequest, ClientCancels
<1>9. Token'
  BY DEF Inv, Token, Live, Phase, Pc, Answer, NoRequest, ClientCancels
<1>10. Roles'
  BY DEF Inv, Roles, Live, Phase, Pc, Serving, DpcOver, pin, Answer, NoRequest, ClientCancels
<1>11. Single'
  BY DEF Inv, Single, Live, Pc, params, Answer, NoRequest, ClientCancels
<1>12. Writes'
  BY DEF Inv, Writes, Live, Phase, params, pin, control, Answer, NoRequest, ClientCancels
<1>13. Wholly'
  BY DEF Inv, Wholly, Live, params, Answer, NoRequest, ClientCancels
<1>14. Negated'
  BY DEF Inv, Negated, Answered, params, pin, control, Answer, NoRequest, ClientCancels
<1>. QED
  BY <1>1, <1>2, <1>3, <1>4, <1>5, <1>6, <1>7, <1>8, <1>9, <1>10, <1>11, <1>12, <1>13, <1>14
     DEF Inv

\* ECSPIEvtRequestCancel takes the request and stops what is prepared.
LEMMA RequestCancelInv ==
  ASSUME Inv, Orderly, RequestCancel
  PROVE  Inv'
<1>1. RequestTypes'
  BY DEF Inv, RequestTypes, NoRequest, Requests, Types, RequestCancel
<1>2. TransferTypes'
  BY Bounds DEF Inv, TransferTypes, prep, params, RequestCancel, AbortAllTransfers, Aborted,
                CancelNegates, SetGpioPin
<1>3. DeviceTypes'
  BY DEF Inv, DeviceTypes, params, control, NoRequest, Requests, RequestCancel,
         AbortAllTransfers, Aborted, CancelNegates, SetGpioPin
<1>4. DpcTypes'
  BY DEF Inv, DpcTypes, NoRequest, Requests, RequestCancel
<1>5. Holder'
  BY DEF Inv, Holder, Cancellation, Starting, Live, Phase, pin, control, Answer, Orderly,
         RequestCancel, AbortAllTransfers, Aborted, CancelNegates, SetGpioPin
<1>6. Cancellation'
  BY DEF Inv, Cancellation, Starting, Writes, Live, Phase, Early, DpcOver, prep, params,
         control, NoRequest, Requests, RequestCancel, AbortAllTransfers, Aborted, CancelNegates,
         SetGpioPin
<1>7. Starting'
  BY DEF Inv, RequestTypes, Cancellation, Starting, Live, Phase, Answer, Orderly, RequestCancel,
         AbortAllTransfers, Aborted, CancelNegates, SetGpioPin
<1>8. Sequence'
  BY DEF Inv, Sequence, Counted, Stopped, Live, Phase, prep, params, NoRequest, Requests,
         RequestCancel, AbortAllTransfers, Aborted
<1>9. Token'
  BY DEF Inv, Token, Live, Phase, Pc, NoRequest, Requests, RequestCancel, AbortAllTransfers,
         Aborted
<1>10. Roles'
  BY DEF Inv, Cancellation, Roles, Live, Phase, Pc, Serving, DpcOver, NoRequest, Requests,
         RequestCancel, AbortAllTransfers, Aborted, SetGpioPin
<1>11. Single'
  BY DEF Inv, Single, Live, Pc, params, NoRequest, Requests, RequestCancel, AbortAllTransfers,
         Aborted
<1>12. Writes'
  BY DEF Inv, DeviceTypes, Cancellation, Starting, Writes, Live, Phase, Early, DpcOver, prep,
         params, control, NoRequest, Requests, RequestCancel, AbortAllTransfers, Aborted,
         CancelNegates, SetGpioPin
<1>13. Wholly'
  BY DEF Inv, Wholly, Live, params, NoRequest, Requests, RequestCancel
<1>14. Negated'
  BY DEF Inv, Negated, Answered, params, control, NoRequest, Requests, RequestCancel,
         CancelNegates
<1>. QED
  BY <1>1, <1>2, <1>3, <1>4, <1>5, <1>6, <1>7, <1>8, <1>9, <1>10, <1>11, <1>12, <1>13, <1>14
     DEF Inv

\* The cancellation routine answers the request it has taken.
LEMMA CancelAnswersInv ==
  ASSUME Inv, Orderly, CancelAnswers
  PROVE  Inv'
<1>1. RequestTypes'
  BY DEF Inv, RequestTypes, NoRequest, Requests, Types, CancelAnswers
<1>2. TransferTypes'
  BY DEF Inv, TransferTypes, prep, params, NoRequest, CancelAnswers
<1>3. DeviceTypes'
  BY DEF Inv, DeviceTypes, params, pin, control, NoRequest, CancelAnswers
<1>4. DpcTypes'
  BY DEF Inv, DpcTypes, NoRequest, CancelAnswers
<1>5. Holder'
  BY DEF Inv, Holder, Live, Phase, Early, control, NoRequest, Requests, Types, CancelAnswers
<1>6. Cancellation'
  BY DEF Inv, Holder, Cancellation, Live, Phase, Early, pin, control, NoRequest, Requests,
         Types, CancelAnswers
<1>7. Starting'
  BY DEF Inv, Holder, Starting, Live, Phase, Early, DpcOver, prep, params, control, NoRequest,
         Requests, Types, CancelAnswers
<1>8. Sequence'
  BY DEF Inv, Sequence, Counted, Stopped, Live, Phase, prep, params, NoRequest, CancelAnswers
<1>9. Token'
  BY DEF Inv, Holder, Token, Live, Phase, Pc, Early, control, NoRequest, Requests, Types,
         CancelAnswers
<1>10. Roles'
  BY DEF Inv, Holder, Roles, Live, Phase, Pc, Early, Serving, DpcOver, pin, control, NoRequest,
         Requests, Types, CancelAnswers
<1>11. Single'
  BY DEF Inv, Holder, Single, Live, Phase, Pc, Early, params, control, NoRequest, Requests,
         Types, CancelAnswers
<1>12. Writes'
  BY DEF Inv, Holder, Writes, Live, Phase, Early, params, pin, control, NoRequest, Requests,
         Types, CancelAnswers
<1>13. Wholly'
  BY DEF Inv, Wholly, Live, params, NoRequest, CancelAnswers
<1>14. Negated'
  BY DEF Inv, Negated, Answered, params, pin, control, NoRequest, CancelAnswers
<1>. QED
  BY <1>1, <1>2, <1>3, <1>4, <1>5, <1>6, <1>7, <1>8, <1>9, <1>10, <1>11, <1>12, <1>13, <1>14
     DEF Inv

\* The write that asserts the pin completes: the request goes on, or is answered.
LEMMA AssertCompletionInv ==
  ASSUME Inv, Orderly, NEW ok \in BOOLEAN, GpioAssertCompletion(ok)
  PROVE  Inv'
<1>1. RequestTypes'
  BY DEF Inv, RequestTypes, Answer, NoRequest, Requests, Types, GpioAssertCompletion,
         AnswersLock, CompleteTransferRequest
<1>2. TransferTypes'
  BY DEF Inv, TransferTypes, prep, params, NoRequest, GpioAssertCompletion
<1>3. DeviceTypes'
  BY DEF Inv, DeviceTypes, control, pin, params, GpioAssertCompletion, Written, AnswersLock,
         CompleteTransferRequest
<1>4. DpcTypes'
  BY DEF Inv, DpcTypes, NoRequest, GpioAssertCompletion
<1>5. Holder'
  BY Bounds DEF Inv, RequestTypes, Holder, Writes, Live, Phase, Early, Failures, params, Answer,
                NoRequest, Requests, Types, GpioAssertCompletion, Written, AnswersLock,
                CompleteTransferRequest
<1>6. Cancellation'
  BY Bounds DEF Inv, RequestTypes, Cancellation, Starting, Writes, Live, Phase, Early, DpcOver,
                prep, params, Answer, NoRequest, Requests, Types, GpioAssertCompletion, Written,
                AnswersLock, CompleteTransferRequest
<1>7. Starting'
  BY Bounds DEF Inv, RequestTypes, Starting, Writes, Live, Phase, Early, DpcOver, prep, params,
                Answer, NoRequest, Requests, Types, GpioAssertCompletion, Written, AnswersLock,
                CompleteTransferRequest
<1>8. Sequence'
  BY SlotsSame, FillingSame DEF Inv, Sequence, Writes, Counted, Stopped, Live, Phase, prep,
                                params, Answer, NoRequest, GpioAssertCompletion, Written,
                                AnswersLock, CompleteTransferRequest
<1>9. Token'
  BY DEF Inv, Token, Single, Writes, Live, Phase, Pc, params, Answer, NoRequest,
         GpioAssertCompletion, Written, AnswersLock, CompleteTransferRequest
<1>10. Roles'
  BY DEF Inv, Roles, Writes, Live, Phase, Pc, Serving, DpcOver, params, Answer, NoRequest,
         GpioAssertCompletion, Written, AnswersLock, CompleteTransferRequest
<1>11. Single'
  BY DEF Inv, Single, Live, Pc, params, Answer, NoRequest, GpioAssertCompletion, AnswersLock,
         CompleteTransferRequest
<1>12. Writes'
  BY EcspiAssumption DEF Inv, Holder, RequestTypes, Requests, NoRequest, Writes, Live, Phase,
                         Early, control, GpioAssertCompletion, Written, AnswersLock,
                         CompleteTransferRequest, Answer
<1>13. Wholly'
  BY DEF Inv, Wholly, Live, params, Answer, NoRequest, GpioAssertCompletion, AnswersLock,
         CompleteTransferRequest
<1>14. Negated'
  BY Bounds DEF Inv, RequestTypes, Holder, Writes, Negated, Live, Phase, Early, Answered,
                params, Answer, NoRequest, Requests, Types, GpioAssertCompletion, Written,
                AnswersLock, CompleteTransferRequest
<1>. QED
  BY <1>1, <1>2, <1>3, <1>4, <1>5, <1>6, <1>7, <1>8, <1>9, <1>10, <1>11, <1>12, <1>13, <1>14
     DEF Inv

\* The write that negates the pin completes: the request current then is answered.
LEMMA NegateCompletionInv ==
  ASSUME Inv, Orderly, NEW ok \in BOOLEAN, GpioNegateCompletion(ok)
  PROVE  Inv'
<1>1. RequestTypes'
  BY DEF Inv, RequestTypes, Answer, NoRequest, Requests, Types, GpioNegateCompletion,
         AnswersLock, CompleteTransferRequest
<1>2. TransferTypes'
  BY DEF Inv, TransferTypes, prep, params, GpioNegateCompletion
<1>3. DeviceTypes'
  BY DEF Inv, DeviceTypes, control, pin, params, GpioNegateCompletion, Written, AnswersLock,
         CompleteTransferRequest
<1>4. DpcTypes'
  BY DEF Inv, DpcTypes, GpioNegateCompletion
<1>5. Holder'
  BY Bounds DEF Inv, RequestTypes, Holder, Starting, Writes, Live, Phase, Early, DpcOver, prep,
                params, Answer, NoRequest, Requests, Types, GpioNegateCompletion, Written,
                AnswersLock, CompleteTransferRequest
<1>6. Cancellation'
  BY DEF Inv, Holder, Cancellation, Writes, Live, Phase, Early, params, Answer, NoRequest,
         Requests, Types, GpioNegateCompletion, Written, AnswersLock, CompleteTransferRequest
<1>7. Starting'
  BY DEF Inv, Starting, Live, Phase, Early, DpcOver, prep, params, Answer, NoRequest,
         GpioNegateCompletion, AnswersLock, CompleteTransferRequest
<1>8. Sequence'
  BY SlotsSame, FillingSame DEF Inv, Holder, Sequence, Counted, Stopped, Live, Phase, Early,
                                prep, params, Answer, NoRequest, Requests, Types,
                                GpioNegateCompletion, AnswersLock, CompleteTransferRequest
<1>9. Token'
  BY DEF Inv, Cancellation, Sequence, Token, Writes, Counted, Stopped, Live, Phase, Pc, prep,
         params, Answer, NoRequest, GpioNegateCompletion, Written, AnswersLock,
         CompleteTransferRequest
<1>10. Roles'
  BY DEF Inv, TransferTypes, Cancellation, Sequence, Roles, Writes, Counted, Stopped, Live,
         Phase, Pc, Serving, DpcOver, prep, params, Answer, NoRequest, GpioNegateCompletion,
         Written, AnswersLock, CompleteTransferRequest
<1>11. Single'
  BY DEF Inv, Single, Live, Pc, params, Answer, NoRequest, GpioNegateCompletion, AnswersLock,
         CompleteTransferRequest
<1>12. Writes'
  BY DEF Inv, Writes, Live, Phase, params, Answer, NoRequest, GpioNegateCompletion, Written,
         AnswersLock, CompleteTransferRequest
<1>13. Wholly'
  BY DEF Inv, Wholly, Live, params, Answer, NoRequest, GpioNegateCompletion, AnswersLock,
         CompleteTransferRequest
<1>14. Negated'
  BY DEF Inv, Writes, Negated, Live, Phase, Answered, params, Answer, NoRequest,
         GpioNegateCompletion, Written, AnswersLock, CompleteTransferRequest
<1>. QED
  BY <1>1, <1>2, <1>3, <1>4, <1>5, <1>6, <1>7, <1>8, <1>9, <1>10, <1>11, <1>12, <1>13, <1>14
     DEF Inv

\* SpbCx locks the controller while no request is current.
LEMMA LockInv ==
  ASSUME Inv, Orderly, NEW pinned \in BOOLEAN, ControllerLock(pinned)
  PROVE  Inv'
<1>1. RequestTypes'
  BY DEF Inv, RequestTypes, Answered, DpcOver, Answer, NoRequest, Requests, Types,
         ControllerLock
<1>2. TransferTypes'
  BY DEF Inv, TransferTypes, Answered, DpcOver, prep, ControllerLock
<1>3. DeviceTypes'
  BY DEF Inv, DeviceTypes, control, pin, params, ControllerLock, LockOrUnlock, SetGpioPin
<1>4. DpcTypes'
  BY DEF Inv, DpcTypes, Answered, DpcOver, ControllerLock
<1>5. Holder'
  BY DEF Inv, RequestTypes, Holder, Live, Phase, Early, Answered, DpcOver, Answer, NoRequest,
         Requests, Types, ControllerLock, LockOrUnlock
<1>6. Cancellation'
  BY DEF Inv, RequestTypes, Holder, Cancellation, Live, Phase, Early, Answered, DpcOver, Answer,
         NoRequest, Requests, Types, ControllerLock, LockOrUnlock, SetGpioPin
<1>7. Starting'
  BY DEF Inv, Starting, Live, Phase, Early, Answered, DpcOver, prep, Answer, NoRequest,
         ControllerLock
<1>8. Sequence'
  BY SlotsSame, FillingSame DEF Inv, RequestTypes, Holder, Sequence, Counted, Stopped, Live,
                                Phase, Early, Answered, DpcOver, prep, Answer, NoRequest,
                                Requests, Types, ControllerLock, LockOrUnlock
<1>9. Token'
  BY DEF Inv, Token, Live, Phase, Pc, Answered, DpcOver, Answer, NoRequest, ControllerLock
<1>10. Roles'
  BY DEF Inv, Roles, Live, Pc, Serving, DpcOver, Answer, Orderly, ControllerLock, LockOrUnlock,
         SetGpioPin
<1>11. Single'
  BY DEF Inv, RequestTypes, Holder, Single, Live, Phase, Pc, Early, Answered, DpcOver, Answer,
         NoRequest, Requests, Types, ControllerLock, LockOrUnlock
<1>12. Writes'
  BY DEF Inv, RequestTypes, Holder, Writes, Live, Phase, Early, Answered, DpcOver, Answer,
         NoRequest, Requests, Types, ControllerLock, LockOrUnlock, SetGpioPin
<1>13. Wholly'
  BY DEF Inv, Wholly, Live, Answered, DpcOver, Answer, NoRequest, ControllerLock
<1>14. Negated'
  BY DEF Inv, Negated, Answered, DpcOver, Answer, NoRequest, ControllerLock, LockOrUnlock
<1>. QED
  BY <1>1, <1>2, <1>3, <1>4, <1>5, <1>6, <1>7, <1>8, <1>9, <1>10, <1>11, <1>12, <1>13, <1>14
     DEF Inv

\* SpbCx unlocks the controller while no request is current.
LEMMA UnlockInv ==
  ASSUME Inv, Orderly, ControllerUnlock
  PROVE  Inv'
<1>1. RequestTypes'
  BY DEF Inv, RequestTypes, Answered, DpcOver, Answer, NoRequest, Requests, Types,
         ControllerUnlock
<1>2. TransferTypes'
  BY DEF Inv, TransferTypes, Answered, DpcOver, prep, ControllerUnlock
<1>3. DeviceTypes'
  BY DEF Inv, DeviceTypes, control, pin, params, ControllerUnlock, LockOrUnlock, SetGpioPin
<1>4. DpcTypes'
  BY DEF Inv, DpcTypes, Answered, DpcOver, ControllerUnlock
<1>5. Holder'
  BY DEF Inv, RequestTypes, Holder, Live, Phase, Early, Answered, DpcOver, Answer, NoRequest,
         Requests, Types, ControllerUnlock, LockOrUnlock
<1>6. Cancellation'
  BY DEF Inv, Cancellation, Live, Phase, Answered, DpcOver, Answer, NoRequest, ControllerUnlock,
         LockOrUnlock, SetGpioPin
<1>7. Starting'
  BY DEF Inv, Starting, Live, Phase, Early, Answered, DpcOver, prep, Answer, NoRequest,
         ControllerUnlock
<1>8. Sequence'
  BY SlotsSame, FillingSame DEF Inv, Sequence, Counted, Stopped, Live, Phase, Answered, DpcOver,
                                prep, Answer, NoRequest, ControllerUnlock
<1>9. Token'
  BY DEF Inv, RequestTypes, Holder, Token, Live, Phase, Pc, Early, Answered, DpcOver, Answer,
         NoRequest, Requests, Types, ControllerUnlock, LockOrUnlock
<1>10. Roles'
  BY DEF Inv, RequestTypes, Holder, Roles, Live, Phase, Pc, Early, Serving, Answered, DpcOver,
         Answer, NoRequest, Requests, Types, ControllerUnlock, LockOrUnlock, SetGpioPin
<1>11. Single'
  BY DEF Inv, RequestTypes, Holder, Single, Live, Phase, Pc, Early, Answered, DpcOver, Answer,
         NoRequest, Requests, Types, ControllerUnlock, LockOrUnlock
<1>12. Writes'
  BY DEF Inv, RequestTypes, DeviceTypes, Holder, Writes, Wholly, Negated, Live, Answered,
         Answer, NoRequest, ControllerUnlock, LockOrUnlock, SetGpioPin
<1>13. Wholly'
  BY DEF Inv, Wholly, Live, Answered, DpcOver, Answer, NoRequest, ControllerUnlock
<1>14. Negated'
  BY DEF Inv, RequestTypes, Holder, Negated, Live, Phase, Early, Answered, DpcOver, Answer,
         NoRequest, Requests, Types, ControllerUnlock, LockOrUnlock
<1>. QED
  BY <1>1, <1>2, <1>3, <1>4, <1>5, <1>6, <1>7, <1>8, <1>9, <1>10, <1>11, <1>12, <1>13, <1>14
     DEF Inv

\* A transfer ends: the interrupt routine goes on to the next prepared one, or stops.
LEMMA TransferEndsInv ==
  ASSUME Inv, Orderly, TransferEnds
  PROVE  Inv'
<1>1. Queued => DpcTypes' /\ dpc'.queued /\ dpc'.cpu = dpc.cpu
  BY QueuedOnly DEF Inv
<1>2. ASSUME NEW whole \in BOOLEAN, Type = "SEQUENCE", CompleteSequenceTransfer(whole)
      PROVE  /\ Counted' /\ InSlots' /\ Filling' /\ TransferTypes'
             /\ Live /\ Phase = "over" /\ TransfersLeft # 0
  BY <1>2, SequenceGoesOn DEF TransferEnds
<1>3. RequestTypes'
  BY DEF Inv, RequestTypes, NoRequest, Requests, Types, TransferEnds
<1>4. TransferTypes'
  <2>1. CASE Type = "SEQUENCE" /\ CompleteSequenceTransfer(TRUE)
    BY <1>2, <2>1
  <2>2. CASE UNCHANGED <<ReadyTransferCount, TransfersLeft, TransferOut, burst>> /\ served' = TransferCount
    BY <2>2 DEF Inv, TransferTypes, prep, params, TransferEnds
  <2>. QED
    BY <2>1, <2>2 DEF TransferEnds
<1>5. DeviceTypes'
  BY DEF Inv, DeviceTypes, params, pin, control, TransferEnds, CompleteSequenceTransfer,
         StartNextTransfer
<1>6. DpcTypes'
  BY <1>1, <1>2 DEF Inv, DpcTypes, TransferEnds, CompleteSequenceTransfer
<1>7. Holder'
  BY DEF Inv, Holder, Live, Phase, Early, control, NoRequest, Requests, Types, TransferEnds
<1>8. Cancellation'
  BY DEF Inv, Cancellation, Live, Phase, pin, NoRequest, TransferEnds, CompleteSequenceTransfer,
         StartNextTransfer
<1>9. Starting'
  BY <1>1, <1>2 DEF Inv, Starting, Live, Phase, Early, DpcOver, prep, params, NoRequest,
                    TransferEnds, CompleteSequenceTransfer, StartNextTransfer
<1>10. Sequence'
  <2>. SUFFICES ASSUME Live, Type = "SEQUENCE" PROVE Counted' /\ InSlots' /\ Filling' /\ served' + TransfersLeft' <= TransferCount'
    BY DEF Sequence, Live, TransferEnds
  <2>1. PICK whole \in BOOLEAN : CompleteSequenceTransfer(whole)
    BY DEF TransferEnds
  <2>. QED
    BY <1>2, <2>1, Bounds DEF Inv, TransferTypes, Sequence, params, TransferEnds,
                              CompleteSequenceTransfer
<1>11. Token'
  BY <1>1, <1>2 DEF Inv, Token, Live, Phase, Pc, NoRequest, TransferEnds,
                    CompleteSequenceTransfer, StartNextTransfer
<1>12. Roles'
  BY <1>1 DEF Inv, TransferTypes, Sequence, Token, Roles, Counted, Stopped, Live, Phase, Pc,
              pin, control, Answer, TransferEnds, CompleteSequenceTransfer, StartNextTransfer
<1>13. Single'
  BY <1>1, <1>2 DEF Inv, Single, Live, Pc, params, NoRequest, TransferEnds,
                    CompleteSequenceTransfer, StartNextTransfer
<1>14. Writes'
  BY DEF Inv, Writes, Live, Phase, params, pin, control, NoRequest, TransferEnds,
         CompleteSequenceTransfer, StartNextTransfer
<1>15. Wholly'
  BY DEF Inv, TransferTypes, Wholly, Live, prep, params, NoRequest, TransferEnds,
         CompleteSequenceTransfer, StartNextTransfer
<1>16. Negated'
  BY DEF Inv, Negated, Answered, params, pin, control, NoRequest, TransferEnds
<1>. QED
  BY <1>3, <1>4, <1>5, <1>6, <1>7, <1>8, <1>9, <1>10, <1>11, <1>12, <1>13, <1>14, <1>15, <1>16
     DEF Inv

\* A burst ends: the interrupt routine starts another, or leaves it to the DPC.
LEMMA BurstEndsInv ==
  ASSUME Inv, Orderly, BurstEnds
  PROVE  Inv'
<1>1. Queued => DpcTypes' /\ dpc'.queued /\ dpc'.cpu = dpc.cpu
  BY QueuedOnly DEF Inv
<1>2. ASSUME NEW whole \in BOOLEAN, Type = "SEQUENCE", CompleteSequenceTransfer(whole)
      PROVE  /\ Counted' /\ InSlots' /\ Filling' /\ TransferTypes'
             /\ Live /\ Phase = "over" /\ TransfersLeft # 0
  BY <1>2, SequenceGoesOn DEF BurstEnds
<1>3. RequestTypes'
  BY DEF Inv, RequestTypes, NoRequest, Requests, Types, BurstEnds
<1>4. TransferTypes'
  <2>1. CASE Type = "SEQUENCE" /\ CompleteSequenceTransfer(FALSE)
    BY <1>2, <2>1
  <2>2. CASE /\ burst' = burst - 1 /\ burst > 1
             /\ UNCHANGED <<served, ReadyTransferCount, TransfersLeft, TransferOut>>
    BY <2>2 DEF Inv, TransferTypes, prep, params, BurstEnds
  <2>. QED
    BY <2>1, <2>2 DEF BurstEnds
<1>5. DeviceTypes'
  BY DEF Inv, DeviceTypes, params, pin, control, BurstEnds, CompleteSequenceTransfer,
         StartNextTransfer
<1>6. DpcTypes'
  BY <1>1, <1>2 DEF Inv, DpcTypes, BurstEnds, CompleteSequenceTransfer
<1>7. Holder'
  BY DEF Inv, Holder, Live, Phase, Early, control, NoRequest, Requests, Types, BurstEnds
<1>8. Cancellation'
  BY DEF Inv, Cancellation, Live, Phase, pin, NoRequest, BurstEnds, CompleteSequenceTransfer,
         StartNextTransfer
<1>9. Starting'
  BY <1>1, <1>2 DEF Inv, Starting, Live, Phase, Early, DpcOver, prep, params, NoRequest,
                    BurstEnds, CompleteSequenceTransfer, StartNextTransfer
<1>10. Sequence'
  <2>1. CASE \E whole \in BOOLEAN : Type = "SEQUENCE" /\ CompleteSequenceTransfer(whole)
    BY <1>2, <2>1, Bounds DEF Inv, TransferTypes, Sequence, params, BurstEnds,
                              CompleteSequenceTransfer
  <2>2. CASE /\ UNCHANGED <<served, ReadyTransferCount, TransfersLeft, TransferOut, isr, engine>>
             /\ UNCHANGED dpc
    <3>1. (Filling' <=> Filling) /\ (InSlots' <=> InSlots)
      BY <2>2, FillingSame, SlotsSame DEF BurstEnds, prep, params
    <3>. QED
      BY <2>2, <3>1 DEF Inv, Sequence, Counted, Stopped, Live, Phase, params, BurstEnds
  <2>. QED
    BY <2>1, <2>2 DEF BurstEnds, Sequence
<1>11. Token'
  BY <1>1, <1>2 DEF Inv, Token, Live, Phase, Pc, NoRequest, BurstEnds, CompleteSequenceTransfer,
                    StartNextTransfer
<1>12. Roles'
  BY <1>1 DEF Inv, RequestTypes, TransferTypes, Cancellation, Sequence, Token, Roles, Single,
              Counted, Stopped, Live, Phase, Pc, pin, control, Answer, BurstEnds,
              CompleteSequenceTransfer, StartNextTransfer
<1>13. Single'
  BY <1>1, <1>2 DEF Inv, Single, Live, Pc, params, NoRequest, BurstEnds,
                    CompleteSequenceTransfer, StartNextTransfer
<1>14. Writes'
  BY DEF Inv, Writes, Live, Phase, params, pin, control, NoRequest, BurstEnds,
         CompleteSequenceTransfer, StartNextTransfer
<1>15. Wholly'
  BY DEF Inv, TransferTypes, Wholly, Live, prep, params, NoRequest, BurstEnds,
         CompleteSequenceTransfer, StartNextTransfer
<1>16. Negated'
  BY DEF Inv, Negated, Answered, params, pin, control, NoRequest, BurstEnds
<1>. QED
  BY <1>3, <1>4, <1>5, <1>6, <1>7, <1>8, <1>9, <1>10, <1>11, <1>12, <1>13, <1>14, <1>15, <1>16
     DEF Inv

\* The interrupt routine, having found nothing prepared, leaves IsIdle to the DPC.
LEMMA MarkIdleInv ==
  ASSUME Inv, Orderly, MarkIdle
  PROVE  Inv'
<1>1. DpcTypes' /\ dpc'.queued /\ dpc'.cpu = dpc.cpu
  BY QueuedOnly DEF Inv, MarkIdle
<1>2. RequestTypes'
  BY DEF Inv, RequestTypes, NoRequest, Requests, Types, MarkIdle, MarkedIdle
<1>3. TransferTypes'
  BY DEF Inv, TransferTypes, prep, params, MarkIdle, MarkedIdle
<1>4. DeviceTypes'
  BY DEF Inv, DeviceTypes, params, pin, control, MarkIdle, MarkedIdle
<1>5. DpcTypes'
  BY <1>1 DEF Inv, DpcTypes, MarkIdle, MarkedIdle
<1>6. Holder'
  BY DEF Inv, Holder, Live, Phase, Early, control, NoRequest, Requests, Types, MarkIdle,
         MarkedIdle
<1>7. Cancellation'
  BY DEF Inv, Cancellation, Live, Phase, pin, NoRequest, MarkIdle, MarkedIdle
<1>8. Starting'
  BY <1>1 DEF Inv, Starting, Live, Phase, Early, DpcOver, prep, params, NoRequest, MarkIdle,
              MarkedIdle
<1>9. Sequence'
  <2>1. Filling' <=> Filling
    BY <1>1, FillingSame DEF Pc, At, prep, params, PCs, MarkIdle, MarkedIdle
  <2>2. InSlots' <=> InSlots
    BY SlotsSame DEF prep, params, MarkIdle, MarkedIdle
  <2>. QED
    BY <1>1, <2>1, <2>2, EcspiAssumption DEF Inv, Sequence, Counted, Stopped, Live, Phase, prep,
                                             params, Answer, MarkIdle, MarkedIdle
<1>10. Token'
  BY <1>1 DEF Inv, Token, Live, Phase, Pc, NoRequest, MarkIdle, MarkedIdle
<1>11. Roles'
  BY <1>1 DEF Inv, Token, Roles, Live, Phase, Pc, Serving, DpcOver, pin, NoRequest, MarkIdle,
              MarkedIdle
<1>12. Single'
  BY <1>1 DEF Inv, Token, Single, Live, Phase, Pc, params, NoRequest, MarkIdle, MarkedIdle
<1>13. Writes'
  BY DEF Inv, Writes, Live, Phase, params, pin, control, NoRequest, MarkIdle, MarkedIdle
<1>14. Wholly'
  BY DEF Inv, Wholly, Live, params, NoRequest, MarkIdle, MarkedIdle
<1>15. Negated'
  BY DEF Inv, Negated, Answered, params, pin, control, NoRequest, MarkIdle, MarkedIdle
<1>. QED
  BY <1>2, <1>3, <1>4, <1>5, <1>6, <1>7, <1>8, <1>9, <1>10, <1>11, <1>12, <1>13, <1>14, <1>15
     DEF Inv

\* An instance of the DPC begins, whatever the others are doing.
LEMMA DpcStartInv ==
  ASSUME Inv, Orderly, NEW c \in Cpus, DpcStart(c)
  PROVE  Inv'
<1>1. /\ DpcTypes' /\ ~ dpc'.queued
      /\ dpc'.cpu[c].pc = IF Type = "READ" /\ engine = "held" THEN "burst" ELSE "disable"
      /\ \A d \in Cpus \ {c} : dpc'.cpu[d] = dpc.cpu[d]
  BY OneBegins DEF Inv
<1>2. RequestTypes'
  BY DEF Inv, RequestTypes, Answer, NoRequest, Requests, Types, At, DpcStart
<1>3. TransferTypes'
  BY DEF Inv, TransferTypes, prep, params, At, DpcStart
<1>4. DeviceTypes'
  BY DEF Inv, DeviceTypes, params, pin, control, At, DpcStart
<1>5. DpcTypes'
  BY <1>1 DEF Inv, DpcTypes, At, DpcStart
<1>6. Holder'
  BY DEF Inv, Holder, Live, Phase, Early, control, Answer, NoRequest, Requests, Types, At,
         DpcStart
<1>7. Cancellation'
  BY DEF Inv, Cancellation, Live, Phase, pin, Answer, NoRequest, At, DpcStart
<1>8. Starting'
  BY <1>1 DEF Inv, Starting, Live, Phase, Early, DpcOver, prep, params, Answer, NoRequest, At,
              DpcStart
<1>9. Sequence'
  <2>1. Filling' <=> Filling
    BY <1>1, FillingSame DEF Pc, At, prep, params, PCs, DpcStart
  <2>2. InSlots' <=> InSlots
    BY SlotsSame DEF prep, params, DpcStart
  <2>. QED
    BY <1>1, <2>1, <2>2, EcspiAssumption DEF Inv, Sequence, Counted, Stopped, Live, Phase, prep,
                                             params, Answer, DpcStart
<1>10. Token'
  BY <1>1 DEF Inv, Token, Live, Phase, Pc, Answer, NoRequest, At, DpcStart
<1>11. Roles'
  BY <1>1 DEF Inv, Roles, Live, Phase, Pc, Serving, DpcOver, pin, Answer, NoRequest, At,
              DpcStart
<1>12. Single'
  BY <1>1 DEF Inv, Roles, Single, Live, Phase, Pc, Serving, DpcOver, params, pin, Answer,
              NoRequest, At, DpcStart
<1>13. Writes'
  BY DEF Inv, Writes, Live, Phase, params, pin, control, Answer, NoRequest, At, DpcStart
<1>14. Wholly'
  BY DEF Inv, Wholly, Live, params, Answer, NoRequest, At, DpcStart
<1>15. Negated'
  BY DEF Inv, Negated, Answered, params, pin, control, Answer, NoRequest, At, DpcStart
<1>. QED
  BY <1>2, <1>3, <1>4, <1>5, <1>6, <1>7, <1>8, <1>9, <1>10, <1>11, <1>12, <1>13, <1>14, <1>15
     DEF Inv

\* The DPC starts the next burst of a READ, or gives up polling.
LEMMA DpcStartsBurstInv ==
  ASSUME Inv, Orderly, NEW c \in Cpus, DpcStartsBurst(c)
  PROVE  Inv'
<1>1. \A pc \in PCs : Goto(c, pc) =>
          /\ DpcTypes' /\ (dpc'.queued <=> dpc.queued)
          /\ dpc'.cpu[c].pc = pc /\ \A d \in Cpus \ {c} : dpc'.cpu[d] = dpc.cpu[d]
  BY OneMoves DEF Inv
<1>2. Return(c) => /\ DpcTypes' /\ (dpc'.queued <=> dpc.queued) /\ dpc'.cpu[c].pc = "off"
                   /\ \A d \in Cpus \ {c} : dpc'.cpu[d] = dpc.cpu[d]
  BY OneReturns DEF Inv
<1>3. RequestTypes'
  BY DEF Inv, RequestTypes, Answer, NoRequest, Requests, Types, At, DpcStartsBurst
<1>4. TransferTypes'
  BY DEF Inv, TransferTypes, prep, params, At, DpcStartsBurst
<1>5. DeviceTypes'
  BY DEF Inv, DeviceTypes, params, pin, control, At, DpcStartsBurst
<1>6. DpcTypes'
  BY <1>1, <1>2 DEF Inv, DpcTypes, At, DpcStartsBurst, PCs
<1>7. Holder'
  BY DEF Inv, Holder, Live, Phase, Early, control, Answer, NoRequest, Requests, Types, At,
         DpcStartsBurst
<1>8. Cancellation'
  BY DEF Inv, Cancellation, Live, Phase, pin, Answer, NoRequest, At, DpcStartsBurst
<1>9. Starting'
  BY <1>1, <1>2 DEF Inv, Starting, Live, Phase, Early, DpcOver, prep, params, Answer, NoRequest,
                    At, DpcStartsBurst
<1>10. Sequence'
  BY <1>1, <1>2, SlotsSame, FillingSame DEF Inv, Sequence, Roles, Counted, Stopped, Live, Phase,
                                            Pc, Serving, DpcOver, prep, params, pin, Answer,
                                            NoRequest, At, DpcStartsBurst
<1>11. Token'
  BY <1>1, <1>2 DEF Inv, DeviceTypes, Token, Roles, Single, Live, Phase, Pc, Answer, At,
                    DpcStartsBurst, PCs
<1>12. Roles'
  BY <1>1, <1>2 DEF Inv, Roles, Live, Phase, Pc, Serving, DpcOver, Answer, At, DpcStartsBurst,
                    PCs
<1>13. Single'
  BY <1>1, <1>2 DEF Inv, Roles, Single, Live, Pc, Answer, At, DpcStartsBurst, PCs
<1>14. Writes'
  BY <1>1, <1>2 DEF Inv, Roles, Writes, Live, Phase, Pc, Serving, DpcOver, params, pin, control,
                    Answer, NoRequest, At, DpcStartsBurst
<1>15. Wholly'
  BY DEF Inv, Wholly, Live, params, Answer, NoRequest, At, DpcStartsBurst
<1>16. Negated'
  BY DEF Inv, Negated, Answered, params, pin, control, Answer, NoRequest, At, DpcStartsBurst
<1>. QED
  BY <1>3, <1>4, <1>5, <1>6, <1>7, <1>8, <1>9, <1>10, <1>11, <1>12, <1>13, <1>14, <1>15, <1>16
     DEF Inv

\* The DPC takes the request out of WDF's cancellation, or leaves or aborts.
LEMMA DpcDisableInv ==
  ASSUME Inv, Orderly, NEW c \in Cpus, DpcDisable(c)
  PROVE  Inv'
<1>1. \A pc \in PCs : Goto(c, pc) =>
          /\ DpcTypes' /\ (dpc'.queued <=> dpc.queued)
          /\ dpc'.cpu[c].pc = pc /\ \A d \in Cpus \ {c} : dpc'.cpu[d] = dpc.cpu[d]
  BY OneMoves DEF Inv
<1>2. Return(c) => /\ DpcTypes' /\ (dpc'.queued <=> dpc.queued) /\ dpc'.cpu[c].pc = "off"
                   /\ \A d \in Cpus \ {c} : dpc'.cpu[d] = dpc.cpu[d]
  BY OneReturns DEF Inv
<1>3. RequestTypes'
  BY DEF Inv, RequestTypes, Answer, NoRequest, Requests, Types, At, DpcDisable,
         CompleteTransferRequest
<1>4. TransferTypes'
  BY Bounds DEF Inv, TransferTypes, prep, params, DpcDisable, CompleteTransferRequest,
                AbortAllTransfers, Aborted, PCs
<1>5. DeviceTypes'
  BY DEF Inv, DeviceTypes, params, pin, control, NoRequest, At, DpcDisable, AbortAllTransfers,
         Aborted
<1>6. DpcTypes'
  BY <1>1, <1>2 DEF Inv, DpcTypes, NoRequest, At, DpcDisable, PCs
<1>7. Holder'
  BY <1>1, <1>2, Bounds DEF Inv, RequestTypes, Holder, Starting, Live, Phase, Early, DpcOver,
                            prep, params, control, Answer, NoRequest, Requests, Types, At,
                            DpcDisable, CompleteTransferRequest, AbortAllTransfers, Aborted
<1>8. Cancellation'
  BY DEF Inv, Cancellation, Live, Phase, pin, Answer, NoRequest, At, DpcDisable,
         CompleteTransferRequest, AbortAllTransfers, Aborted
<1>9. Starting'
  BY <1>1, <1>2 DEF Inv, Starting, Live, Phase, Early, DpcOver, prep, params, Answer, NoRequest,
                    At, DpcDisable, CompleteTransferRequest, AbortAllTransfers, Aborted
<1>10. Sequence'
  <2>1. ReadyTransferCount' = ReadyTransferCount => (Filling' <=> Filling) /\ (InSlots' <=> InSlots)
    <3>. SUFFICES ASSUME UNCHANGED ReadyTransferCount PROVE (Filling' <=> Filling) /\ (InSlots' <=> InSlots)
      OBVIOUS
    <3>1. \A d \in Cpus : dpc'.cpu[d] = dpc.cpu[d] \/ (Pc(d) # "prepare" /\ dpc'.cpu[d].pc # "prepare")
      BY <1>1, <1>2 DEF Pc, At, PCs, DpcDisable
    <3>. QED
      BY <3>1, FillingSame, SlotsSame DEF DpcDisable, prep, params
  <2>. QED
    BY <1>1, <1>2, <2>1, EcspiAssumption DEF Inv, Cancellation, Sequence, Counted, Stopped,
                                             Live, Phase, prep, params, Answer, DpcDisable,
                                             CompleteTransferRequest, AbortAllTransfers,
                                             Aborted, PCs
<1>11. Token'
  BY <1>1, <1>2 DEF Inv, Token, Roles, Single, Live, Phase, Pc, Answer, At, DpcDisable,
                    CompleteTransferRequest, AbortAllTransfers, Aborted, PCs
<1>12. Roles'
  BY <1>1, <1>2 DEF Inv, Holder, Starting, Roles, Single, Writes, Live, Phase, Pc, Serving,
                    DpcOver, pin, control, Answer, At, DpcDisable, CompleteTransferRequest,
                    AbortAllTransfers, Aborted, PCs
<1>13. Single'
  BY <1>1, <1>2 DEF Inv, Single, Live, Pc, prep, params, Answer, At, DpcDisable,
                    CompleteTransferRequest, AbortAllTransfers, Aborted, PCs
<1>14. Writes'
  BY <1>1, <1>2 DEF Inv, Starting, Writes, Live, Phase, Early, DpcOver, prep, params, pin,
                    control, Answer, NoRequest, At, DpcDisable, CompleteTransferRequest,
                    AbortAllTransfers, Aborted
<1>15. Wholly'
  BY DEF Inv, Wholly, Live, params, Answer, NoRequest, At, DpcDisable, CompleteTransferRequest
<1>16. Negated'
  BY Bounds DEF Inv, RequestTypes, Holder, Negated, Live, Phase, Early, Answered, params, pin,
                control, Answer, NoRequest, Requests, Types, At, DpcDisable,
                CompleteTransferRequest
<1>. QED
  BY <1>3, <1>4, <1>5, <1>6, <1>7, <1>8, <1>9, <1>10, <1>11, <1>12, <1>13, <1>14, <1>15, <1>16
     DEF Inv

\* The DPC sees whether the sequence is done and how much it can prepare.
LEMMA DpcLooksInv ==
  ASSUME Inv, Orderly, NEW c \in Cpus, DpcLooks(c)
  PROVE  Inv'
<1>1. \A pc \in PCs : Goto(c, pc) =>
          /\ DpcTypes' /\ (dpc'.queued <=> dpc.queued)
          /\ dpc'.cpu[c].pc = pc /\ \A d \in Cpus \ {c} : dpc'.cpu[d] = dpc.cpu[d]
  BY OneMoves DEF Inv
<1>2. ~ RequestDone /\ ToPrepare # 0 =>
        /\ DpcTypes' /\ (dpc'.queued <=> dpc.queued)
        /\ dpc'.cpu[c] = [pc |-> "prepare", slot |-> TransferIn, left |-> ToPrepare, prepared |-> 0]
        /\ \A d \in Cpus \ {c} : dpc'.cpu[d] = dpc.cpu[d]
        /\ ToPrepare \in 0 .. MAX
  <2>. SUFFICES ASSUME ~ RequestDone, ToPrepare # 0 PROVE ToPrepare \in 0 .. MAX
    BY OnePrepares, Bounds, SMTT(30) DEF Inv, DpcLooks, TransferTypes
  <2>1. Counted /\ Filling
    BY DEF Inv, Roles, Serving, Pc, Sequence, Stopped, Cancellation, DpcLooks, At, Early
  <2>2. NextTransferIndex <= TransferCount
    <3>1. \A d \in Cpus : Pc(d) # "prepare"
      BY DEF Inv, Roles, Serving, Pc, DpcLooks, At
    <3>. QED
      BY <2>1, <3>1, Bounds DEF Inv, TransferTypes, Filling, Counted, Done
  <2>. QED
    BY <2>2, RoomIs, Bounds DEF Inv, TransferTypes
<1>3. RequestTypes'
  BY DEF Inv, RequestTypes, Answer, NoRequest, Requests, Types, At, DpcLooks
<1>4. TransferTypes'
  BY DEF Inv, TransferTypes, prep, params, At, DpcLooks, RequestDone
<1>5. DeviceTypes'
  BY DEF Inv, DeviceTypes, params, pin, control, At, DpcLooks
<1>6. DpcTypes'
  BY <1>1, <1>2 DEF Inv, DpcTypes, At, DpcLooks, PCs
<1>7. Holder'
  BY DEF Inv, Holder, Live, Phase, Early, control, Answer, NoRequest, Requests, Types, At,
         DpcLooks
<1>8. Cancellation'
  BY DEF Inv, Cancellation, Live, Phase, pin, Answer, NoRequest, At, DpcLooks
<1>9. Starting'
  BY <1>1, <1>2 DEF Inv, Starting, Live, Phase, Early, DpcOver, prep, params, Answer, NoRequest,
                    At, DpcLooks, RequestDone
<1>10. Sequence'
  <2>1. /\ Counted /\ InSlots /\ Filling /\ State = "NOT_CANCELABLE" /\ Live /\ Type = "SEQUENCE" /\ Phase = "over"
        /\ \A d \in Cpus : Pc(d) # "prepare"
    BY DEF Inv, Roles, Serving, Pc, Sequence, Stopped, Cancellation, DpcLooks, At, Early
  <2>2. InSlots' /\ Counted'
    BY <2>1, SlotsSame DEF DpcLooks, prep, params, Counted
  <2>3. CASE RequestDone \/ ToPrepare = 0
    <3>1. \A d \in Cpus : dpc'.cpu[d] = dpc.cpu[d] \/ (Pc(d) # "prepare" /\ dpc'.cpu[d].pc # "prepare")
      BY <1>1, <2>1, <2>3 DEF Pc, PCs, DpcLooks
    <3>2. Filling'
      BY <2>1, <3>1, FillingSame DEF DpcLooks, prep, params
    <3>. QED
      BY <2>1, <2>2, <3>2 DEF Inv, Sequence, Live, Phase, Answer, params, DpcLooks
  <2>4. CASE ~ RequestDone /\ ToPrepare # 0
    <3>1. /\ TransferIn = SlotAfter(ReadyTransferCount) /\ NextTransferIndex = Done + ReadyTransferCount
          /\ UNCHANGED <<SlotAfter(ReadyTransferCount), Done, ReadyTransferCount, NextTransferIndex, TransfersLeft>>
      BY <2>1 DEF Filling, SlotAfter, Done, DpcLooks, prep, params
    <3>2. ToPrepare + ReadyTransferCount <= MAX /\ ReadyTransferCount + ToPrepare <= TransfersLeft /\ 0 + ToPrepare <= MAX
      BY <1>2, <2>1, <2>4, <3>1, RoomIs, Bounds, SMTT(30) DEF Inv, TransferTypes, Counted, Done
    <3>3. LET d == dpc'.cpu[c] IN
          /\ d.slot = SlotAfter(ReadyTransferCount)'
          /\ NextTransferIndex' + d.prepared = (Done + ReadyTransferCount)'
          /\ d.left # 0 /\ d.left + ReadyTransferCount' <= MAX /\ d.prepared + d.left <= MAX
          /\ ReadyTransferCount' + d.left <= TransfersLeft'
      <4>1. (Done + ReadyTransferCount)' = NextTransferIndex + 0
        BY <3>1, Bounds DEF Inv, TransferTypes
      <4>2. SlotAfter(ReadyTransferCount)' = TransferIn
        BY <3>1
      <4>. QED
        BY <1>2, <2>4, <3>1, <3>2, <4>1, <4>2
    <3>4. Pc(c)' = "prepare" /\ \A d \in Cpus \ {c} : Pc(d)' # "prepare"
      BY <1>2, <2>1, <2>4 DEF Pc
    <3>5. Filling'
      BY <3>3, <3>4 DEF Filling, Pc
    <3>. QED
      BY <2>1, <2>2, <3>5 DEF Inv, Sequence, Live, Phase, Answer, params, DpcLooks
  <2>. QED
    BY <2>3, <2>4
<1>11. Token'
  BY <1>1, <1>2 DEF Inv, Token, Live, Phase, Pc, Answer, DpcLooks, RequestDone, PCs
<1>12. Roles'
  BY <1>1, <1>2 DEF Inv, Roles, Live, Phase, Pc, Serving, DpcOver, pin, control, Answer, At,
                    DpcLooks, RequestDone, PCs
<1>13. Single'
  BY <1>1, <1>2 DEF Inv, Roles, Single, Live, Phase, Pc, Serving, DpcOver, params, pin, Answer,
                    NoRequest, At, DpcLooks, RequestDone
<1>14. Writes'
  BY DEF Inv, Writes, Live, Phase, params, pin, control, Answer, NoRequest, At, DpcLooks,
         RequestDone
<1>15. Wholly'
  BY DEF Inv, Wholly, Live, params, Answer, NoRequest, At, DpcLooks, RequestDone
<1>16. Negated'
  BY DEF Inv, Negated, Answered, params, pin, control, Answer, NoRequest, At, DpcLooks
<1>. QED
  BY <1>3, <1>4, <1>5, <1>6, <1>7, <1>8, <1>9, <1>10, <1>11, <1>12, <1>13, <1>14, <1>15, <1>16
     DEF Inv

\* The DPC prepares one transfer more while the interrupt routine uses others up.
LEMMA DpcPreparesInv ==
  ASSUME Inv, Orderly, NEW c \in Cpus, DpcPrepares(c)
  PROVE  Inv'
<1>1. \A pc \in PCs : Goto(c, pc) =>
          /\ DpcTypes' /\ (dpc'.queued <=> dpc.queued)
          /\ dpc'.cpu[c].pc = pc /\ \A d \in Cpus \ {c} : dpc'.cpu[d] = dpc.cpu[d]
  BY OneMoves DEF Inv
<1>2. /\ Live /\ Type = "SEQUENCE" /\ Phase = "over" /\ State = "NOT_CANCELABLE" /\ Pc(c) = "prepare"
      /\ sent = {} /\ engine # "held"
      /\ Counted /\ InSlots /\ Filling /\ \A d \in Cpus \ {c} : Pc(d) \notin Serving
  BY DEF Inv, Roles, Serving, Pc, DpcOver, Sequence, Stopped, Cancellation, DpcPrepares, At,
         Early
<1>3. /\ Transfers' = [Transfers EXCEPT ![Slot(c)] = NextTransferIndex + dpc.cpu[c].prepared + 1]
      /\ ReadyTransferCount' = ReadyTransferCount + 1
      /\ IF dpc.cpu[c].left = 1
         THEN /\ TransferIn' = Next1(Slot(c))
              /\ NextTransferIndex' = NextTransferIndex + dpc.cpu[c].prepared + 1
              /\ Goto(c, "mark")
         ELSE /\ dpc' = [dpc EXCEPT !.cpu[c] = [pc |-> "prepare", slot |-> Next1(Slot(c)),
                                               left |-> dpc.cpu[c].left - 1,
                                               prepared |-> dpc.cpu[c].prepared + 1]]
              /\ UNCHANGED prep
  BY DEF DpcPrepares, Orderly, Slot
<1>4. /\ InSlots' /\ ReadyTransferCount + 1 <= TransfersLeft
      /\ ReadyTransferCount + 1 \in 0 .. MAX /\ Transfers' \in [Slots -> 0 .. MaxTransfers]
      /\ Next1(Slot(c)) = SlotAfter(ReadyTransferCount)' /\ Next1(Slot(c)) \in Slots
      /\ NextTransferIndex + dpc.cpu[c].prepared + 1 = (Done + ReadyTransferCount)'
      /\ NextTransferIndex + dpc.cpu[c].prepared + 1 \in 0 .. MaxTransfers
  BY <1>2, <1>3, OneMore DEF Inv, DpcPrepares, params
<1>5. dpc.cpu[c].left # 1 =>
        /\ DpcTypes' /\ (dpc'.queued <=> dpc.queued)
        /\ dpc'.cpu[c] = [pc |-> "prepare", slot |-> Next1(Slot(c)), left |-> dpc.cpu[c].left - 1,
                          prepared |-> dpc.cpu[c].prepared + 1]
        /\ \A d \in Cpus \ {c} : dpc'.cpu[d] = dpc.cpu[d]
  <2>1. dpc.cpu[c].left \in 1 .. MAX /\ dpc.cpu[c].prepared \in 0 .. MAX /\ dpc.cpu[c].prepared + dpc.cpu[c].left <= MAX
    BY <1>2, Bounds DEF Inv, DpcTypes, Filling, Pc
  <2>2. dpc.cpu[c].left # 1 => dpc.cpu[c].left - 1 \in 0 .. MAX /\ dpc.cpu[c].prepared + 1 \in 0 .. MAX
    <3>1. MAX \in Nat
      BY Bounds
    <3>. QED
      BY <2>1, <3>1
  <2>. QED
    BY <1>3, <1>4, <2>2, OnePrepares DEF Inv
<1>6. /\ DpcTypes' /\ (dpc'.queued <=> dpc.queued) /\ Pc(c)' \in {"prepare", "mark"}
      /\ \A d \in Cpus \ {c} : dpc'.cpu[d] = dpc.cpu[d]
      /\ dpc.cpu[c].left = 1 => Pc(c)' = "mark" /\ TransferIn' = Next1(Slot(c))
                               /\ NextTransferIndex' = NextTransferIndex + dpc.cpu[c].prepared + 1
  BY <1>1, <1>3, <1>5 DEF Pc, PCs
<1>7. RequestTypes'
  BY DEF Inv, RequestTypes, Answer, NoRequest, Requests, Types, At, DpcPrepares, Slot
<1>8. TransferTypes'
  BY <1>3, <1>4, Bounds DEF Inv, TransferTypes, prep, params, DpcPrepares
<1>9. DeviceTypes'
  BY DEF Inv, DeviceTypes, params, pin, control, At, DpcPrepares, Slot
<1>10. DpcTypes'
  BY <1>6
<1>11. Holder'
  BY DEF Inv, Holder, Live, Phase, Early, control, Answer, NoRequest, Requests, Types, At,
         DpcPrepares, Slot
<1>12. Cancellation'
  BY <1>1, <1>2, <1>3, <1>4, <1>5, <1>6 DEF Inv, Cancellation, Starting, Live, Phase, Early,
                                            DpcOver, prep, params, pin, Answer, NoRequest, At,
                                            DpcPrepares, Slot
<1>13. Starting'
  BY <1>1, <1>2, <1>3, <1>4, <1>5, <1>6 DEF Inv, Starting, Live, Phase, Early, DpcOver, prep,
                                            params, Answer, NoRequest, At, DpcPrepares, Slot
<1>14. Sequence'
  <2>1. Counted'
    BY <1>2, <1>3, <1>4, Bounds DEF Inv, TransferTypes, Counted, params, DpcPrepares
  <2>2. Filling'
    <3>1. CASE dpc.cpu[c].left = 1
      BY <1>2, <1>3, <1>4, <1>6, <3>1 DEF Filling, Pc, Serving
    <3>2. CASE dpc.cpu[c].left # 1
      <4>1. /\ dpc.cpu[c].left \in 1 .. MAX /\ dpc.cpu[c].prepared \in 0 .. MAX /\ NextTransferIndex \in Nat
            /\ dpc.cpu[c].prepared + dpc.cpu[c].left <= MAX /\ dpc.cpu[c].left + ReadyTransferCount <= MAX
            /\ ReadyTransferCount + dpc.cpu[c].left <= TransfersLeft
            /\ ReadyTransferCount \in Nat /\ TransfersLeft \in Nat /\ UNCHANGED <<TransfersLeft, NextTransferIndex>>
        <5>1. /\ dpc.cpu[c].left # 0 /\ dpc.cpu[c].prepared + dpc.cpu[c].left <= MAX
              /\ dpc.cpu[c].left + ReadyTransferCount <= MAX /\ ReadyTransferCount + dpc.cpu[c].left <= TransfersLeft
          BY <1>2 DEF Filling
        <5>2. /\ dpc.cpu[c].left \in 0 .. MAX /\ dpc.cpu[c].prepared \in 0 .. MAX /\ NextTransferIndex \in Nat
              /\ ReadyTransferCount \in Nat /\ TransfersLeft \in Nat
          BY Bounds DEF Inv, TransferTypes, DpcTypes
        <5>3. UNCHANGED <<TransfersLeft, NextTransferIndex>>
          BY <1>3, <3>2 DEF prep, DpcPrepares
        <5>4. dpc.cpu[c].left \in 1 .. MAX
          BY <5>1, <5>2
        <5>. QED
          BY <5>1, <5>2, <5>3, <5>4
      <4>2. dpc'.cpu[c] = [pc |-> "prepare", slot |-> Next1(Slot(c)), left |-> dpc.cpu[c].left - 1,
                          prepared |-> dpc.cpu[c].prepared + 1]
        BY <1>5, <3>2
      <4>3. LET d == dpc'.cpu[c] IN
            /\ d.slot = SlotAfter(ReadyTransferCount)'
            /\ NextTransferIndex' + d.prepared = (Done + ReadyTransferCount)'
            /\ d.left # 0 /\ d.left + ReadyTransferCount' <= MAX /\ d.prepared + d.left <= MAX
            /\ ReadyTransferCount' + d.left <= TransfersLeft'
        <5>1. MAX \in Nat /\ ReadyTransferCount' = ReadyTransferCount + 1
          BY <1>3, Bounds
        <5>. QED
          BY <1>4, <3>2, <4>1, <4>2, <5>1
      <4>4. \A d \in Cpus \ {c} : Pc(d)' # "prepare"
        BY <1>2, <1>6 DEF Pc, Serving
      <4>. QED
        <5>1. Pc(c)' = "prepare"
          BY <4>2 DEF Pc
        <5>. QED
          BY <4>3, <4>4, <5>1 DEF Filling
    <3>. QED
      BY <3>1, <3>2
  <2>. QED
    BY <1>2, <1>4, <2>1, <2>2 DEF Inv, Sequence, Live, Phase, Answer, params, DpcPrepares
<1>15. Token'
  BY <1>2, <1>6 DEF Inv, Token, Wholly, Negated, Live, Phase, Pc, Answer, DpcPrepares
<1>16. Roles'
  BY <1>2, <1>6 DEF Inv, Roles, Live, Phase, Pc, Serving, DpcOver, Answer, pin, DpcPrepares
<1>17. Single'
  BY <1>1, <1>2, <1>3, <1>4, <1>5, <1>6 DEF Inv, Single, Live, Pc, params, Answer, NoRequest,
                                            At, DpcPrepares, Slot
<1>18. Writes'
  BY DEF Inv, Writes, Live, Phase, params, pin, control, Answer, NoRequest, At, DpcPrepares,
         Slot
<1>19. Wholly'
  BY DEF Inv, Wholly, Live, params, Answer, NoRequest, At, DpcPrepares, Slot
<1>20. Negated'
  BY DEF Inv, Negated, Answered, params, pin, control, Answer, NoRequest, At, DpcPrepares, Slot
<1>. QED
  BY <1>7, <1>8, <1>9, <1>10, <1>11, <1>12, <1>13, <1>14, <1>15, <1>16, <1>17, <1>18, <1>19,
     <1>20
     DEF Inv

\* The DPC marks the request cancelable again, or answers a cancelled one.
LEMMA DpcEnableInv ==
  ASSUME Inv, Orderly, NEW c \in Cpus, DpcEnable(c)
  PROVE  Inv'
<1>1. \A pc \in PCs : Goto(c, pc) =>
          /\ DpcTypes' /\ (dpc'.queued <=> dpc.queued)
          /\ dpc'.cpu[c].pc = pc /\ \A d \in Cpus \ {c} : dpc'.cpu[d] = dpc.cpu[d]
  BY OneMoves DEF Inv
<1>2. Return(c) => /\ DpcTypes' /\ (dpc'.queued <=> dpc.queued) /\ dpc'.cpu[c].pc = "off"
                   /\ \A d \in Cpus \ {c} : dpc'.cpu[d] = dpc.cpu[d]
  BY OneReturns DEF Inv
<1>3. RequestTypes'
  BY DEF Inv, RequestTypes, NoRequest, Requests, Types, At, DpcEnable, CompleteTransferRequest
<1>4. TransferTypes'
  BY Bounds DEF Inv, TransferTypes, prep, params, DpcEnable, CompleteTransferRequest,
                AbortAllTransfers, Aborted, PCs
<1>5. DeviceTypes'
  BY DEF Inv, DeviceTypes, params, pin, control, At, DpcEnable, AbortAllTransfers, Aborted
<1>6. DpcTypes'
  BY <1>1, <1>2 DEF Inv, DpcTypes, At, DpcEnable, PCs
<1>7. Holder'
  BY <1>1, <1>2, Bounds DEF Inv, RequestTypes, Holder, Starting, Roles, Live, Phase, Pc, Early,
                            Serving, DpcOver, prep, params, pin, control, NoRequest, Requests,
                            Types, At, DpcEnable, CompleteTransferRequest, AbortAllTransfers,
                            Aborted
<1>8. Cancellation'
  BY <1>1, <1>2 DEF Inv, Cancellation, Roles, Live, Phase, Pc, Serving, DpcOver, pin, NoRequest,
                    At, DpcEnable, CompleteTransferRequest, AbortAllTransfers, Aborted
<1>9. Starting'
  BY <1>1, <1>2 DEF Inv, Starting, Live, Phase, Early, DpcOver, prep, params, NoRequest, At,
                    DpcEnable, CompleteTransferRequest, AbortAllTransfers, Aborted
<1>10. Sequence'
  BY <1>1, <1>2, SlotsSame, FillingSame DEF Inv, Cancellation, Sequence, Roles, Counted,
                                            Stopped, Live, Pc, Serving, prep, params, Answer,
                                            At, DpcEnable, CompleteTransferRequest,
                                            AbortAllTransfers, Aborted, PCs
<1>11. Token'
  <2>1. Live /\ State = "NOT_CANCELABLE" /\ \A d \in Cpus \ {c} : Pc(d) # "start" => dpc'.cpu[d].pc # "start"
    BY <1>1, <1>2 DEF Inv, Roles, Serving, Pc, At, PCs, DpcEnable
  <2>. QED
    BY <1>1, <1>2, <2>1 DEF Inv, Token, Live, Phase, Pc, At, PCs, pin, DpcEnable,
                            CompleteTransferRequest, AbortAllTransfers, Aborted, PCs
<1>12. Roles'
  BY <1>1, <1>2, EcspiAssumption DEF Inv, Roles, Live, Phase, Pc, Serving, DpcOver, Answer, At,
                                     DpcEnable, CompleteTransferRequest, AbortAllTransfers,
                                     Aborted, PCs
<1>13. Single'
  BY <1>1, <1>2 DEF Inv, Roles, Single, Live, Phase, Pc, Serving, DpcOver, params, pin,
                    NoRequest, At, DpcEnable, CompleteTransferRequest, AbortAllTransfers,
                    Aborted
<1>14. Writes'
  BY <1>1, <1>2, EcspiAssumption DEF Inv, Roles, Writes, Live, Phase, Pc, Serving, pin, control,
                                     Answer, At, DpcEnable, CompleteTransferRequest,
                                     AbortAllTransfers, Aborted, PCs
<1>15. Wholly'
  BY DEF Inv, Wholly, Live, params, NoRequest, At, DpcEnable, CompleteTransferRequest
<1>16. Negated'
  BY Bounds DEF Inv, RequestTypes, Holder, Negated, Live, Phase, Early, Answered, params, pin,
                control, NoRequest, Requests, Types, At, DpcEnable, CompleteTransferRequest
<1>. QED
  BY <1>3, <1>4, <1>5, <1>6, <1>7, <1>8, <1>9, <1>10, <1>11, <1>12, <1>13, <1>14, <1>15, <1>16
     DEF Inv

\* The DPC takes IsIdle: it starts the next transfer if it was the one to find it set.
LEMMA DpcTakesIdleInv ==
  ASSUME Inv, Orderly, NEW c \in Cpus, DpcTakesIdle(c)
  PROVE  Inv'
<1>1. \A pc \in PCs : Goto(c, pc) =>
          /\ DpcTypes' /\ (dpc'.queued <=> dpc.queued)
          /\ dpc'.cpu[c].pc = pc /\ \A d \in Cpus \ {c} : dpc'.cpu[d] = dpc.cpu[d]
  BY OneMoves DEF Inv
<1>2. Return(c) => /\ DpcTypes' /\ (dpc'.queued <=> dpc.queued) /\ dpc'.cpu[c].pc = "off"
                   /\ \A d \in Cpus \ {c} : dpc'.cpu[d] = dpc.cpu[d]
  BY OneReturns DEF Inv
<1>3. RequestTypes'
  BY DEF Inv, RequestTypes, Answer, NoRequest, Requests, Types, At, DpcTakesIdle
<1>4. TransferTypes'
  BY DEF Inv, TransferTypes, prep, params, At, DpcTakesIdle
<1>5. DeviceTypes'
  BY DEF Inv, DeviceTypes, control, pin, params, DpcTakesIdle, PCs
<1>6. DpcTypes'
  BY <1>1, <1>2 DEF Inv, DpcTypes, At, DpcTakesIdle, PCs
<1>7. Holder'
  BY DEF Inv, Holder, Live, Phase, Early, control, Answer, NoRequest, Requests, Types, At,
         DpcTakesIdle
<1>8. Cancellation'
  BY DEF Inv, Cancellation, Live, Phase, pin, Answer, NoRequest, At, DpcTakesIdle
<1>9. Starting'
  BY <1>1, <1>2 DEF Inv, Starting, Live, Phase, Early, DpcOver, prep, params, Answer, NoRequest,
                    At, DpcTakesIdle
<1>10. Sequence'
  <2>1. Filling' <=> Filling
    BY <1>1, <1>2, FillingSame DEF Pc, At, prep, params, PCs, DpcTakesIdle, PCs
  <2>2. InSlots' <=> InSlots
    BY SlotsSame DEF prep, params, DpcTakesIdle, PCs
  <2>. QED
    BY <1>1, <1>2, <2>1, <2>2, EcspiAssumption
       DEF Inv, Sequence, Counted, Stopped, Live, Phase, prep, params, Answer, DpcTakesIdle, PCs
<1>11. Token'
  BY <1>1, <1>2 DEF Inv, DeviceTypes, Token, Live, Phase, Pc, Answer, DpcTakesIdle, PCs
<1>12. Roles'
  BY <1>1, <1>2 DEF Inv, Roles, Live, Phase, Pc, Serving, DpcOver, pin, control, Answer, At,
                    DpcTakesIdle, PCs
<1>13. Single'
  BY <1>1, <1>2 DEF Inv, Single, Live, Pc, params, Answer, NoRequest, At, DpcTakesIdle
<1>14. Writes'
  BY DEF Inv, Writes, Live, Phase, params, pin, control, Answer, NoRequest, At, DpcTakesIdle
<1>15. Wholly'
  BY DEF Inv, Wholly, Live, params, Answer, NoRequest, At, DpcTakesIdle
<1>16. Negated'
  BY DEF Inv, Negated, Answered, params, pin, control, Answer, NoRequest, At, DpcTakesIdle
<1>. QED
  BY <1>3, <1>4, <1>5, <1>6, <1>7, <1>8, <1>9, <1>10, <1>11, <1>12, <1>13, <1>14, <1>15, <1>16
     DEF Inv

\* The DPC that has found IsIdle starts the transfer it has prepared.
LEMMA DpcStartsTransferInv ==
  ASSUME Inv, Orderly, NEW c \in Cpus, DpcStartsTransfer(c)
  PROVE  Inv'
<1>1. Return(c) => /\ DpcTypes' /\ (dpc'.queued <=> dpc.queued) /\ dpc'.cpu[c].pc = "off"
                   /\ \A d \in Cpus \ {c} : dpc'.cpu[d] = dpc.cpu[d]
  BY OneReturns DEF Inv
<1>2. RequestTypes'
  BY DEF Inv, RequestTypes, Answer, NoRequest, Requests, Types, At, DpcStartsTransfer
<1>3. TransferTypes'
  BY DEF Inv, TransferTypes, prep, params, At, DpcStartsTransfer, StartNextTransfer
<1>4. DeviceTypes'
  BY DEF Inv, DeviceTypes, params, pin, control, At, DpcStartsTransfer, StartNextTransfer
<1>5. DpcTypes'
  BY <1>1 DEF Inv, DpcTypes, At, DpcStartsTransfer
<1>6. Holder'
  BY DEF Inv, Holder, Live, Phase, Early, control, Answer, NoRequest, Requests, Types, At,
         DpcStartsTransfer
<1>7. Cancellation'
  BY DEF Inv, Cancellation, Live, Phase, pin, Answer, NoRequest, At, DpcStartsTransfer,
         StartNextTransfer
<1>8. Starting'
  BY <1>1 DEF Inv, Starting, Live, Phase, Early, DpcOver, prep, params, Answer, NoRequest, At,
              DpcStartsTransfer, StartNextTransfer
<1>9. Sequence'
  <2>1. Filling' <=> Filling
    BY <1>1, FillingSame DEF Pc, At, prep, params, PCs, DpcStartsTransfer, StartNextTransfer
  <2>2. InSlots' <=> InSlots
    BY SlotsSame DEF prep, params, DpcStartsTransfer, StartNextTransfer
  <2>. QED
    BY <1>1, <2>1, <2>2, EcspiAssumption DEF Inv, Sequence, Counted, Stopped, Live, Phase, prep,
                                             params, Answer, DpcStartsTransfer,
                                             StartNextTransfer
<1>10. Token'
  BY <1>1 DEF Inv, Token, Roles, Single, Wholly, Negated, Live, Phase, Pc, Serving, Answered,
              DpcOver, params, pin, control, Answer, NoRequest, At, DpcStartsTransfer,
              StartNextTransfer
<1>11. Roles'
  BY <1>1 DEF Inv, Roles, Live, Phase, Pc, Serving, DpcOver, pin, Answer, NoRequest, At,
              DpcStartsTransfer, StartNextTransfer
<1>12. Single'
  BY <1>1 DEF Inv, Roles, Single, Live, Phase, Pc, Serving, DpcOver, params, pin, Answer,
              NoRequest, At, DpcStartsTransfer, StartNextTransfer
<1>13. Writes'
  BY <1>1 DEF Inv, TransferTypes, Sequence, Roles, Writes, Counted, Stopped, Live, Phase, Pc,
              Serving, DpcOver, prep, params, pin, control, Answer, NoRequest, At,
              DpcStartsTransfer, StartNextTransfer
<1>14. Wholly'
  BY DEF Inv, Wholly, Live, params, Answer, NoRequest, At, DpcStartsTransfer, StartNextTransfer
<1>15. Negated'
  BY DEF Inv, Negated, Answered, params, pin, control, Answer, NoRequest, At, DpcStartsTransfer
<1>. QED
  BY <1>2, <1>3, <1>4, <1>5, <1>6, <1>7, <1>8, <1>9, <1>10, <1>11, <1>12, <1>13, <1>14, <1>15
     DEF Inv

\* The DPC answers the request, or negates the chip select and leaves that to its write.
LEMMA DpcCompletesInv ==
  ASSUME Inv, Orderly, NEW c \in Cpus, DpcCompletes(c)
  PROVE  Inv'
<1>1. Return(c) => /\ DpcTypes' /\ (dpc'.queued <=> dpc.queued) /\ dpc'.cpu[c].pc = "off"
                   /\ \A d \in Cpus \ {c} : dpc'.cpu[d] = dpc.cpu[d]
  BY OneReturns DEF Inv
<1>2. RequestTypes'
  BY DEF Inv, RequestTypes, Answer, NoRequest, Requests, Types, At, DpcCompletes,
         CompleteTransferRequest
<1>3. TransferTypes'
  BY DEF Inv, TransferTypes, prep, params, At, DpcCompletes
<1>4. DeviceTypes'
  BY DEF Inv, DeviceTypes, params, control, At, DpcCompletes, SetGpioPin
<1>5. DpcTypes'
  BY <1>1 DEF Inv, DpcTypes, At, DpcCompletes
<1>6. Holder'
  BY <1>1, Bounds DEF Inv, RequestTypes, Holder, Starting, Live, Phase, Early, DpcOver, prep,
                      params, control, Answer, NoRequest, Requests, Types, At, DpcCompletes,
                      CompleteTransferRequest
<1>7. Cancellation'
  BY <1>1 DEF Inv, Cancellation, Roles, Live, Phase, Pc, Serving, DpcOver, Answer, NoRequest,
              At, DpcCompletes, CompleteTransferRequest, SetGpioPin
<1>8. Starting'
  BY <1>1 DEF Inv, Starting, Live, Phase, Early, DpcOver, prep, params, Answer, NoRequest, At,
              DpcCompletes, CompleteTransferRequest
<1>9. Sequence'
  <2>1. Filling' <=> Filling
    BY <1>1, FillingSame DEF Pc, At, prep, params, PCs, DpcCompletes, CompleteTransferRequest,
                             SetGpioPin
  <2>2. InSlots' <=> InSlots
    BY SlotsSame DEF prep, params, DpcCompletes, CompleteTransferRequest, SetGpioPin
  <2>. QED
    BY <1>1, <2>1, <2>2, EcspiAssumption DEF Inv, Sequence, Counted, Stopped, Live, Phase, prep,
                                             params, Answer, DpcCompletes,
                                             CompleteTransferRequest, SetGpioPin
<1>10. Token'
  BY <1>1 DEF Inv, TransferTypes, Holder, Cancellation, Starting, Sequence, Token, Roles,
              Single, Wholly, Negated, Counted, Stopped, Live, Phase, Pc, Early, Serving,
              Answered, DpcOver, prep, params, control, Answer, NoRequest, Requests, Types, At,
              DpcCompletes, CompleteTransferRequest, SetGpioPin
<1>11. Roles'
  BY <1>1 DEF Inv, TransferTypes, Sequence, Roles, Counted, Stopped, Live, Phase, Pc, Serving,
              DpcOver, Answer, At, DpcCompletes, CompleteTransferRequest, SetGpioPin
<1>12. Single'
  BY <1>1 DEF Inv, Single, Live, Pc, params, Answer, NoRequest, At, DpcCompletes,
              CompleteTransferRequest
<1>13. Writes'
  BY <1>1 DEF Inv, TransferTypes, DeviceTypes, Cancellation, Sequence, Roles, Single, Writes,
              Counted, Stopped, Live, Phase, Pc, Serving, DpcOver, prep, params, control,
              Answer, NoRequest, At, DpcCompletes, CompleteTransferRequest, SetGpioPin
<1>14. Wholly'
  BY DEF Inv, Wholly, Live, params, Answer, NoRequest, At, DpcCompletes, CompleteTransferRequest
<1>15. Negated'
  BY DEF Inv, Negated, Answered, params, control, Answer, NoRequest, At, DpcCompletes,
         CompleteTransferRequest
<1>. QED
  BY <1>2, <1>3, <1>4, <1>5, <1>6, <1>7, <1>8, <1>9, <1>10, <1>11, <1>12, <1>13, <1>14, <1>15
     DEF Inv

-----------------------------------------------------------------------------
(* Theorems. *)

\* The driver begins with nothing to do.
LEMMA InitInv == Init => Inv
<1>. SUFFICES ASSUME Init PROVE Inv
  OBVIOUS
<1>1. RequestTypes /\ TransferTypes
  BY Bounds DEF Init, RequestTypes, TransferTypes, Requests, NoRequest
<1>2. DeviceTypes
  BY DEF Init, DeviceTypes
<1>3. DpcTypes
  BY Bounds DEF Init, DpcTypes, Off, PCs
<1>4. Holder /\ Cancellation /\ Starting /\ Sequence /\ Token
  BY Bounds DEF Init, Holder, Cancellation, Starting, Sequence, Token, Live, Pc, Early, Off,
                Requests, NoRequest
<1>5. Roles /\ Single /\ Writes /\ Wholly /\ Negated
  BY DEF Init, Roles, Single, Writes, Wholly, Negated, Live, Pc, Serving, DpcOver, Off,
         NoRequest
<1>. QED
  BY <1>1, <1>2, <1>3, <1>4, <1>5 DEF Inv

\* Every step keeps the invariant.
LEMMA NextInv ==
  ASSUME Orderly PROVE Inv /\ [Next]_vars => Inv'
<1>. SUFFICES ASSUME Inv, [Next]_vars PROVE Inv'
  OBVIOUS
<1>1. ASSUME NEW type \in Types, NEW n \in 1 .. MaxTransfers, NEW b \in 1 .. 2, NEW pinned \in BOOLEAN,
             Receive(type, n, b, pinned)
      PROVE  Inv'
  BY <1>1, ReceiveInv
<1>2. ASSUME NEW r \in Requests, Starts(r) PROVE Inv'
  BY <1>2, PrepareInv, AssertCSInv, EnableInv, StartInv, CompletesCurrentInv DEF Starts
<1>3. CASE Isr
  BY <1>3, TransferEndsInv, BurstEndsInv, MarkIdleInv DEF Isr
<1>4. CASE Gpio
  BY <1>4, AssertCompletionInv, NegateCompletionInv DEF Gpio
<1>5. CASE ClientCancels \/ Cancel
  BY <1>5, ClientCancelsInv, RequestCancelInv, CancelAnswersInv DEF Cancel
<1>6. ASSUME NEW c \in Cpus, DpcStart(c) \/ DpcStartsBurst(c) \/ DpcDisable(c) \/ DpcLooks(c) PROVE Inv'
  BY <1>6, DpcStartInv, DpcStartsBurstInv, DpcDisableInv, DpcLooksInv
<1>7. ASSUME NEW c \in Cpus,
             DpcPrepares(c) \/ DpcEnable(c) \/ DpcTakesIdle(c) \/ DpcStartsTransfer(c) \/ DpcCompletes(c)
      PROVE  Inv'
  BY <1>7, DpcPreparesInv, DpcEnableInv, DpcTakesIdleInv, DpcStartsTransferInv, DpcCompletesInv
<1>8. CASE ControllerUnlock \/ \E pinned \in BOOLEAN : ControllerLock(pinned)
  BY <1>8, LockInv, UnlockInv
<1>9. CASE UNCHANGED vars
  <2>1. UNCHANGED <<RequestTypes, TransferTypes, DeviceTypes, DpcTypes>>
    BY <1>9 DEF vars, prep, params, pin, control, RequestTypes, TransferTypes, DeviceTypes,
                DpcTypes
  <2>2. UNCHANGED <<Holder, Cancellation, Starting, Token, Writes>>
    BY <1>9 DEF vars, prep, params, pin, control, Holder, Cancellation, Starting, Token, Writes,
                Live, Phase,
                Pc, DpcOver
  <2>3. UNCHANGED <<Roles, Single, Wholly, Negated>>
    BY <1>9 DEF vars, prep, params, pin, control, Roles, Single, Wholly, Negated, Live, Phase,
                Pc, DpcOver,
                Answered
  <2>4. UNCHANGED Sequence
    BY <1>9 DEF vars, prep, params, pin, control, Sequence, Live, Phase, Counted, InSlots,
                Filling, Stopped,
                SlotAfter, Done, Pc
  <2>. QED
    BY <2>1, <2>2, <2>3, <2>4 DEF Inv
<1>. QED
  BY <1>1, <1>2, <1>3, <1>4, <1>5, <1>6, <1>7, <1>8, <1>9 DEF Next, Dpc

\* The invariant holds in every behaviour.
THEOREM Invariance ==
  ASSUME Orderly PROVE Spec => []Inv
<1>1. Init => Inv
  BY InitInv
<1>2. Inv /\ [Next]_vars => Inv'
  BY NextInv
<1>. QED
  BY <1>1, <1>2, PTL DEF Spec

\* No more transfers are prepared than there are slots, whoever prepares and uses them
\* (the NT_ASSERT of ECSPISpbGetReadyTransferCount), and every variable has its type.
THEOREM TypeCorrect ==
  ASSUME Orderly PROVE Spec => []TypeOK
<1>1. Inv => TypeOK
  BY TypesTogether DEF Inv
<1>2. Spec => []Inv
  BY Invariance
<1>. QED
  BY <1>1, <1>2, PTL

\* A sequence's transfers run in the client's order, none left out and none twice, though
\* the interrupt routine takes slots while DPCs fill them, without a lock
\* (ECSPIspb.cpp:655-775, 1052-1080).
THEOREM RunsInOrder ==
  ASSUME Orderly PROVE Spec => []TransfersInOrder
<1>1. Inv => TransfersInOrder
  <2>. SUFFICES ASSUME Inv, engine = "busy", Type = "SEQUENCE"
                PROVE  Transfers[TransferOut] = TransferCount - TransfersLeft + 1
    BY DEF TransfersInOrder
  <2>1. TransferTypes /\ ReadyTransferCount # 0 /\ InSlots
    BY DEF Inv, Token, Sequence, Stopped, Counted
  <2>2. 0 \in 0 .. ReadyTransferCount - 1 /\ SlotAfter(0) = TransferOut /\ Done \in Int
    <3>1. TransferOut \in Slots /\ TransferOut + 0 = TransferOut
      BY <2>1, Bounds DEF TransferTypes
    <3>2. TransferOut % MAX = TransferOut
      BY <3>1, SlotsAfter
    <3>. QED
      BY <2>1, <3>1, <3>2, Bounds DEF TransferTypes, SlotAfter, Done
  <2>3. Transfers[TransferOut] = Done + 0 + 1
    BY <2>1, <2>2 DEF InSlots
  <2>. QED
    BY <2>2, <2>3 DEF Done
<1>2. Spec => []Inv
  BY Invariance
<1>. QED
  BY <1>1, <1>2, PTL

\* When a request is answered the controller runs no transfer for it any more: its buffers
\* are gone (ECSPIdevice.cpp:460, 1016, 1041).
THEOREM QuietWhenAnswered ==
  ASSUME Orderly PROVE Spec => []Quiet
<1>1. Inv => Quiet
  <2>. SUFFICES ASSUME Inv, engine = "busy" PROVE \E r \in 1 .. count : answer[r] = "none"
    BY DEF Quiet, Answered
  <2>1. count \in Requests /\ answer[count] = "none"
    BY DEF Inv, Token, Holder, RequestTypes, Live, NoRequest
  <2>. QED
    BY <2>1, Bounds DEF Requests
<1>2. Spec => []Inv
  BY Invariance
<1>. QED
  BY <1>1, <1>2, PTL

\* When the controller is not locked and every request has been answered the chip select is
\* negated, or the last request has failed, or has been refused as cancelled before it was
\* marked; unless the GPIO driver fails (ECSPIdevice.cpp:486, 912, 978).
THEOREM CsReleasedAfter ==
  ASSUME Orderly, "gpio" \notin Races PROVE Spec => []CsReleased
<1>1. Inv => CsReleased
  <2>. SUFFICES ASSUME Inv, Answered, ~ IsControllerLocked, ~ LockUnlockRequest, gpio, cs
                PROVE  \E r \in 1 .. count : /\ io[r] = "refused" \/ answer[r] = "failed"
                                             /\ \A q \in r + 1 .. count : answer[q] = "failed"
    BY DEF CsReleased
  <2>1. count # 0 /\ (io[count] = "refused" \/ answer[count] = "failed")
    BY DEF Inv, Negated
  <2>2. count \in Nat
    BY Bounds DEF Inv, RequestTypes
  <2>3. count \in 1 .. count /\ \A q \in count + 1 .. count : FALSE
    BY <2>1, <2>2
  <2>. QED
    BY <2>1, <2>3
<1>2. Spec => []Inv
  BY Invariance
<1>. QED
  BY <1>1, <1>2, PTL

\* Only the DPC that completes a request, and the completion of the write that negates the
\* chip select, answer with success.
LEMMA WhoSucceeds ==
  ASSUME Inv, [Next]_vars, NEW r \in Requests, answer[r] # "success", answer'[r] = "success"
  PROVE  \/ \E c \in Cpus : DpcCompletes(c) /\ CompleteTransferRequest("success")
         \/ \E ok \in BOOLEAN : /\ GpioNegateCompletion(ok) /\ CompleteTransferRequest("success")
                                /\ State # "CANCELED"
<1>. USE DEF CompleteTransferRequest, Answer
<1>0. RequestTypes
  BY DEF Inv
<1>1. ASSUME \/ \E type \in Types, n \in 1 .. MaxTransfers, b \in 1 .. 2, pinned \in BOOLEAN :
                  Receive(type, n, b, pinned)
             \/ ControllerUnlock \/ \E pinned \in BOOLEAN : ControllerLock(pinned)
             \/ Isr \/ ClientCancels \/ Cancel \/ UNCHANGED vars
      PROVE  FALSE
  BY <1>0, <1>1 DEF RequestTypes, Receive, ControllerUnlock, ControllerLock, Isr, TransferEnds,
                    BurstEnds,
                    MarkIdle, ClientCancels, Cancel, RequestCancel, CancelAnswers, vars
<1>2. ASSUME NEW s \in Requests, Starts(s) PROVE FALSE
  BY <1>0, <1>2 DEF RequestTypes, Starts, CompletesCurrent, Failures, Prepare, AssertCS, EnableRequestCancellation,
                    StartTransferSafe
<1>3. ASSUME NEW c \in Cpus,
             \/ DpcStart(c) \/ DpcStartsBurst(c) \/ DpcDisable(c) \/ DpcLooks(c) \/ DpcPrepares(c)
             \/ DpcEnable(c) \/ DpcTakesIdle(c) \/ DpcStartsTransfer(c)
      PROVE  FALSE
  BY <1>0, <1>3 DEF RequestTypes, DpcStart, DpcStartsBurst, DpcDisable, DpcLooks, DpcPrepares,
                    DpcEnable,
                    DpcTakesIdle, DpcStartsTransfer
<1>4. ASSUME NEW ok \in BOOLEAN, GpioAssertCompletion(ok) PROVE FALSE
  BY <1>0, <1>4 DEF RequestTypes, GpioAssertCompletion, AnswersLock
<1>5. ASSUME NEW ok \in BOOLEAN, GpioNegateCompletion(ok)
      PROVE  CompleteTransferRequest("success") /\ State # "CANCELED"
  BY <1>0, <1>5 DEF RequestTypes, GpioNegateCompletion, AnswersLock
<1>6. ASSUME NEW c \in Cpus, DpcCompletes(c) PROVE CompleteTransferRequest("success")
  BY <1>0, <1>6 DEF RequestTypes, DpcCompletes
<1>. HIDE DEF CompleteTransferRequest, Answer
<1>. QED
  BY <1>1, <1>2, <1>3, <1>4, <1>5, <1>6 DEF Next, Gpio, Dpc

\* A request answered with success has had all of its transfers carried out to the last
\* word: "TRUE: transfer is done" (ECSPIhw.cpp:634), unless a sequence's transfer has more
\* than one burst (ECSPIdevice.cpp:811-925, 1824-1868).
THEOREM SuccessOnlyWhole ==
  ASSUME Orderly, "burst" \notin Races PROVE Spec => SuccessWhole
<1>. DEFINE W == \A r \in Requests : answer[r] # "success" /\ answer'[r] = "success" => served = TransferCount
<1>1. ASSUME Inv, [Next]_vars PROVE [W]_vars
  <2>. SUFFICES ASSUME NEW r \in Requests, answer[r] # "success", answer'[r] = "success"
                PROVE  served = TransferCount
    OBVIOUS
  <2>1. Live
    BY <1>1, WhoSucceeds DEF CompleteTransferRequest, Live
  <2>2. Type = "SEQUENCE" /\ TransfersLeft = 0 => served = TransferCount
    BY <1>1, <2>1, Bounds DEF Inv, Wholly, TransferTypes
  <2>3. ASSUME NEW c \in Cpus, DpcCompletes(c) PROVE served = TransferCount
    BY <1>1, <2>1, <2>2, <2>3 DEF Inv, Roles, Single, DpcCompletes, At, Pc
  <2>4. ASSUME NEW ok \in BOOLEAN, GpioNegateCompletion(ok), State # "CANCELED" PROVE served = TransferCount
    <3>1. sent = {"negate"}
      BY <1>1, <2>4 DEF Inv, Writes, GpioNegateCompletion, Written
    <3>. QED
      BY <1>1, <2>1, <2>2, <2>4, <3>1 DEF Inv, Writes
  <2>. QED
    BY <1>1, <2>3, <2>4, WhoSucceeds
<1>2. Spec => []Inv
  BY Invariance
<1>. QED
  BY <1>1, <1>2, PTL DEF Spec, SuccessWhole
=============================================================================
