------------------------------- MODULE EnetTx -------------------------------
(***************************************************************************)
(* Transmit path of the ENET NDIS miniport (driver/net/ndis/imxnetmini).   *)
(*                                                                         *)
(* NDIS hands the driver chains of NET_BUFFER_LISTs (NBLs); each NBL holds *)
(* NET_BUFFERs (NBs), one Ethernet frame each.  A frame waits in           *)
(* Tx_qMpOwnedBDs, is copied into a slot of the DMA descriptor ring        *)
(* (Tx_qDmaOwnedBDs keeps the same frames in order), is sent by the MAC,   *)
(* reaped by the DPC and unwound; an NBL goes back to NDIS when its NB     *)
(* counter drops to zero.  The state machine stops the MAC and cancels     *)
(* whatever is queued.                                                     *)
(*                                                                         *)
(* Each action is one critical section of Tx_SpinLock (or Dev_SpinLock),   *)
(* or one interlocked step outside of it: what other processors can see.   *)
(***************************************************************************)
EXTENDS RingIndex, Sequences

CONSTANTS
  NBLs,       \* the NET_BUFFER_LISTs of this run
  NBCount,    \* NBCount[l]: the number of NET_BUFFERs of NBL l
  Calls,      \* calls of MpSendNetBufferLists: each is the NBL chain it passes
  MaxStarts,  \* bound: how often EnetStart is called
  Overlap,    \* what the state machine may find in progress: see Overlaps
  NULL        \* no MP_TX_BD in a slot

\* EnetStop and EnetStart may find EnetDpc between two of its critical sections,
\* EnetStop a call of MpSendNetBufferLists ("send"), and so may the turns that wait
\* for the pause after it ("pausing"), which may find MpCancelSendNetBufferLists too;
\* and EnetStart a MAC that is running, or slots whose frames a stop cancelled.
\* The code rules out none of these.
Overlaps == {"dpc", "send", "pausing", "cancel", "running", "stale"}

ASSUME TxAssumption ==
  /\ NBCount \in [NBLs -> Nat \ {0}]
  /\ Calls \subseteq Seq(NBLs) \ {<<>>}
  /\ MaxStarts \in Nat
  /\ Overlap \subseteq Overlaps
  /\ NULL \notin NBLs \X Nat

\* An NBL is the driver's until it is completed: NDIS passes it once (here, where
\* a run sends each NBL once).
ASSUME NBLSentOnce ==
  \A c, e \in Calls : \A i \in DOMAIN c, j \in DOMAIN e : c[i] = e[j] => c = e /\ i = j

\* A NET_BUFFER (and the MP_TX_BD allocated for it): the i-th of its NBL.
NBs == UNION {{l} \X (1 .. NBCount[l]) : l \in NBLs}

\* Whoever runs MpTxUnwindNetBuffer over a private list of frames.
Unwinders == {"dpc", "sm", "cancel"}

VARIABLES
  NdisStatus,      \* "SUCCESS", or a status that refuses sends
  EnetStarted,     \* also ECR.ETHER_EN: the MAC runs
  mpQ, dmaQ,       \* Tx_qMpOwnedBDs, Tx_qDmaOwnedBDs, oldest frame first
  SwExt,           \* Tx_EnetSwExtBDT[i].pMpBD
  R,               \* the READY bit of descriptor i: the DMA owns it
  FreeIdx, PendingIdx, FreeBDCount,
  PendingNBs,      \* Tx_PendingNBs
  hang,            \* Tx_CheckForHangCounter, counted up to 3
  nbCounter,       \* MP_NBL_NB_Counter of each NBL
  completions,     \* how often NdisMSendNetBufferListsComplete got the NBL
  snd,             \* the calls of MpSendNetBufferLists
  unwinding,       \* the private list of each unwinder
  dpc,             \* where EnetDpc is
  sm,              \* where the state machine's stop is
  hw               \* registers: EIR (TXF), EIMR, TDAR, DMA pointer, DpcQueued

queues == <<mpQ, dmaQ>>
ring   == <<SwExt, R, FreeIdx, PendingIdx, FreeBDCount>>
bds    == <<ring, hang>>
nbls   == <<nbCounter, completions>>
status == <<NdisStatus, EnetStarted>>
vars   == <<status, queues, bds, PendingNBs, nbls, snd, unwinding, dpc, sm, hw>>

SmallerOf(a, b) == IF a < b THEN a ELSE b

-----------------------------------------------------------------------------
(* Slips: each is an operator below as a plausible mistake would have it.  *)
(* No action uses them; a run with one in place of the right operator      *)
(* shows that the property it is paired with can fail.                     *)

\* The wrap test is off by one.
FreeAfterSlip(k) == IF FreeIdx + k > ItemCount THEN FreeIdx + k - ItemCount ELSE FreeIdx + k
\* The reaped frame is left in Tx_qDmaOwnedBDs.
QueueAfterReapSlip(m) == dmaQ
\* READY is not tested.
SentSlip(i) == SwExt[i] # NULL
\* The waiting frames are cancelled without being taken out of the queue.
DrainedSlip == dmaQ' = <<>> /\ mpQ' = mpQ
\* Frames that only wait are forgotten when the pause is declared complete.
NothingQueuedSlip == dmaQ = <<>>
\* The status is not looked at again before the DMA is fed.
SendableSlip == SmallerOf(FreeBDCount, Len(mpQ))
\* The flags are cleared when the interrupts are unmasked.
UnmaskSlip == hw' = [hw EXCEPT !.eimr = TRUE, !.eir = FALSE]

-----------------------------------------------------------------------------
(* MpAllocAdapterBlock zeroes the adapter: NdisStatus is 0, which is       *)
(* NDIS_STATUS_SUCCESS, while there is no free descriptor yet.             *)
Init ==
  /\ NdisStatus = "SUCCESS" /\ EnetStarted = FALSE
  /\ mpQ = <<>> /\ dmaQ = <<>>
  /\ SwExt = [i \in Ring |-> NULL] /\ R = [i \in Ring |-> FALSE]
  /\ FreeIdx = 0 /\ PendingIdx = 0 /\ FreeBDCount = 0
  /\ PendingNBs = 0 /\ hang = 0
  /\ nbCounter = [l \in NBLs |-> 0]
  /\ completions = [l \in NBLs |-> 0]
  /\ snd = [c \in Calls |-> [pc |-> "new", nbl |-> 1, nb |-> 1, queued |-> FALSE]]
  /\ unwinding = [u \in Unwinders |-> <<>>]
  /\ dpc = "idle"
  /\ sm = [pc |-> "idle", paused |-> FALSE, starts |-> 0]
  /\ hw = [eir |-> FALSE, eimr |-> FALSE, tdar |-> FALSE, idx |-> 0,
           dpcQueued |-> FALSE]

-----------------------------------------------------------------------------
(* MpSendNextNB and MpTxFillEnetTxBD, the body of one Tx_SpinLock section: *)
(* while a descriptor is free, the oldest waiting frame gets the next      *)
(* slot.  TDAR restarts a DMA that ran dry.                                *)
Sendable == IF NdisStatus = "SUCCESS" THEN SmallerOf(FreeBDCount, Len(mpQ)) ELSE 0

\* The position in mpQ of the frame that ends up in slot i when k frames are
\* filled in (0: none); a second lap overwrites the first.
Filled(i, k) ==
  LET d == Ahead(FreeIdx, i) + 1
  IN  IF d + ItemCount <= k THEN d + ItemCount ELSE IF d <= k THEN d ELSE 0

FreeAfter(k) == (FreeIdx + k) % ItemCount

TxFill(k) ==
  /\ dmaQ' = dmaQ \o SubSeq(mpQ, 1, k)
  /\ mpQ' = SubSeq(mpQ, k + 1, Len(mpQ))
  /\ SwExt' = [i \in Ring |-> IF Filled(i, k) = 0 THEN SwExt[i] ELSE mpQ[Filled(i, k)]]
  /\ R' = [i \in Ring |-> R[i] \/ Filled(i, k) # 0]
  /\ FreeIdx' = FreeAfter(k)
  /\ FreeBDCount' = FreeBDCount - k
  /\ hw' = [hw EXCEPT !.tdar = @ \/ k > 0]
  /\ UNCHANGED <<PendingIdx, hang>>

MpSendNextNB == TxFill(Sendable)

-----------------------------------------------------------------------------
(* MpSendNetBufferLists, called for the chain c.                           *)
Chain(c) == {c[i] : i \in 1 .. Len(c)}
Nbl(c)   == c[snd[c].nbl]
At(c, p) == snd[c].pc = p

\* What the loop does after NBL number snd[c].nbl, the kick being needed or not.
NextNbl(c, queued) ==
  snd' = [snd EXCEPT ![c] =
    [pc     |-> IF snd[c].nbl < Len(c) THEN "alloc"
                ELSE IF queued THEN "kick" ELSE "done",
     nbl    |-> snd[c].nbl + 1, nb |-> 1, queued |-> queued]]

\* The call reads NdisStatus once; unless the adapter is ready the whole chain
\* is completed with that status.
Send(c) ==
  /\ At(c, "new")
  /\ IF NdisStatus = "SUCCESS"
     THEN /\ snd' = [snd EXCEPT ![c].pc = "alloc"]
          /\ UNCHANGED completions
     ELSE /\ snd' = [snd EXCEPT ![c].pc = "done"]
          /\ completions' = [l \in NBLs |->
               IF l \in Chain(c) THEN completions[l] + 1 ELSE completions[l]]
  /\ UNCHANGED <<status, queues, bds, PendingNBs, nbCounter, unwinding, dpc, sm, hw>>

\* One more NB of the current NBL: count it and allocate its MP_TX_BD.
AllocTxBD(c) ==
  /\ At(c, "alloc")
  /\ nbCounter' = [nbCounter EXCEPT ![Nbl(c)] = @ + 1]
  /\ \E outcome \in {"map", "fail"} : snd' = [snd EXCEPT ![c].pc = outcome]
  /\ UNCHANGED <<status, queues, bds, PendingNBs, completions, unwinding, dpc, sm, hw>>

\* NdisMAllocateNetBufferSGList under Tx_SpinLock; on success NDIS has called
\* MpProcessSGList, which queues the frame.
MapNB(c) ==
  /\ At(c, "map")
  /\ \/ /\ mpQ' = Append(mpQ, <<Nbl(c), snd[c].nb>>)
        /\ snd' = [snd EXCEPT ![c].pc = "count"]
     \/ /\ snd' = [snd EXCEPT ![c].pc = "fail"]
        /\ UNCHANGED mpQ
  /\ UNCHANGED <<status, dmaQ, bds, PendingNBs, nbls, unwinding, dpc, sm, hw>>

\* Tx_PendingNBs is incremented after the lock is released, then the loop goes on.
CountNB(c) ==
  /\ At(c, "count")
  /\ PendingNBs' = PendingNBs + 1
  /\ IF snd[c].nb < NBCount[Nbl(c)]
     THEN snd' = [snd EXCEPT ![c].pc = "alloc", ![c].nb = @ + 1]
     ELSE NextNbl(c, TRUE)
  /\ UNCHANGED <<status, queues, bds, nbls, unwinding, dpc, sm, hw>>

\* Giving an NB back: the NBL is completed when its counter drops to zero.
ReleaseNB(l) ==
  /\ nbCounter' = [nbCounter EXCEPT ![l] = @ - 1]
  /\ completions' = [completions EXCEPT ![l] = IF nbCounter[l] = 1 THEN @ + 1 ELSE @]

\* Out of memory for this NB: it is discarded, and the rest of its NBL with it.
FailNB(c) ==
  /\ At(c, "fail")
  /\ ReleaseNB(Nbl(c))
  /\ NextNbl(c, snd[c].queued)
  /\ UNCHANGED <<status, queues, bds, PendingNBs, unwinding, dpc, sm, hw>>

KickSend(c) ==
  /\ At(c, "kick")
  /\ MpSendNextNB
  /\ snd' = [snd EXCEPT ![c].pc = "done"]
  /\ UNCHANGED <<status, PendingNBs, nbls, unwinding, dpc, sm>>

-----------------------------------------------------------------------------
(* The MAC (external): with TDAR set it sends the descriptor it points to, *)
(* clears READY, raises TXF, and stops at a descriptor that is not ready:  *)
(* its look at READY and its clearing of TDAR are taken for one step.      *)
HwTransmit ==
  LET next == Wrap(hw.idx + 1)
  IN  /\ EnetStarted /\ hw.tdar /\ R[hw.idx]
      /\ R' = [R EXCEPT ![hw.idx] = FALSE]
      /\ hw' = [hw EXCEPT !.idx = next, !.eir = TRUE, !.tdar = R'[next]]
      /\ UNCHANGED <<status, queues, SwExt, FreeIdx, PendingIdx, FreeBDCount,
                     hang, PendingNBs, nbls, snd, unwinding, dpc, sm>>

\* An error of the frame being sent (LC, RL, UN) has an interrupt of its own, and
\* is flagged before the descriptor is closed.
HwTxError ==
  /\ EnetStarted /\ hw.tdar /\ R[hw.idx]
  /\ hw' = [hw EXCEPT !.eir = TRUE]
  /\ UNCHANGED <<status, queues, bds, PendingNBs, nbls, snd, unwinding, dpc, sm>>

\* EnetIsr: masks the interrupts and queues EnetDpc.
EnetIsr ==
  /\ hw.eir /\ hw.eimr
  /\ hw' = [hw EXCEPT !.eimr = FALSE, !.dpcQueued = TRUE]
  /\ UNCHANGED <<status, queues, bds, PendingNBs, nbls, snd, unwinding, dpc, sm>>

\* EnetDpc under Dev_SpinLock: reads and clears EIR.
EnetDpc ==
  /\ dpc = "idle" /\ hw.dpcQueued
  /\ dpc' = IF hw.eir THEN "scan" ELSE "enable"
  /\ hw' = [hw EXCEPT !.eir = FALSE, !.dpcQueued = FALSE]
  /\ UNCHANGED <<status, queues, bds, PendingNBs, nbls, snd, unwinding, sm>>

\* A slot the do-while of MpHandleTxInterrupt reaps.
Sent(i) == SwExt[i] # NULL /\ ~R[i]

\* MpQueueGetNext per reaped slot, whatever frame it returns.
QueueAfterReap(m) == SubSeq(dmaQ, m + 1, Len(dmaQ))
HangAfterReap(m) == IF m = 0 THEN hang ELSE 0

\* The loop stops at the first slot that is not sent, or when PendingIdx has
\* caught up with FreeIdx, which is only tested after the first slot.
Reap(m) ==
  LET limit == IF FreeIdx = PendingIdx THEN ItemCount ELSE Ahead(PendingIdx, FreeIdx)
      Slot(d) == Wrap(PendingIdx + d)
      reaped(i) == Ahead(PendingIdx, i) < m
  IN  /\ m \in 0 .. limit
      /\ \A d \in 0 .. m - 1 : Sent(Slot(d))
      /\ m < limit => ~Sent(Slot(m))
      /\ SwExt' = [i \in Ring |-> IF reaped(i) THEN NULL ELSE SwExt[i]]
      /\ PendingIdx' = Wrap(PendingIdx + m)
      /\ FreeBDCount' = FreeBDCount + m
      /\ dmaQ' = QueueAfterReap(m)
      /\ unwinding' = [unwinding EXCEPT !["dpc"] = [d \in 1 .. m |-> SwExt[Slot(d - 1)]]]
      /\ hang' = HangAfterReap(m)
      /\ UNCHANGED <<mpQ, R, FreeIdx>>

\* MpHandleTxInterrupt under Tx_SpinLock; a DMA that stopped at a ready
\* descriptor is restarted.
MpHandleTxInterrupt ==
  /\ dpc = "scan"
  /\ \E m \in 0 .. ItemCount :
       /\ Reap(m)
       /\ hw' = [hw EXCEPT !.tdar = @ \/ (SwExt'[PendingIdx'] # NULL /\ R[PendingIdx'])]
  /\ dpc' = "unwind"
  /\ UNCHANGED <<status, PendingNBs, nbls, snd, sm>>

UncountNB(l) == PendingNBs' = PendingNBs - 1

\* MpTxUnwindNetBuffer for the oldest frame of a private list.  The NBL's counter and
\* Tx_PendingNBs are decremented one after the other; nothing acts on the second.
MpTxUnwindNetBuffer(u) ==
  /\ unwinding[u] # <<>>
  /\ ReleaseNB(Head(unwinding[u])[1])
  /\ UncountNB(Head(unwinding[u])[1])
  /\ unwinding' = [unwinding EXCEPT ![u] = Tail(@)]
  /\ UNCHANGED <<status, queues, bds, snd, dpc, sm, hw>>

DpcSendNext ==
  /\ dpc = "unwind" /\ unwinding["dpc"] = <<>>
  /\ MpSendNextNB
  /\ dpc' = "enable"
  /\ UNCHANGED <<status, PendingNBs, nbls, snd, unwinding, sm>>

\* EnetEnableRxAndTxInterrupts, whatever happened to the adapter meanwhile.
Unmask == hw' = [hw EXCEPT !.eimr = TRUE]

DpcEnable ==
  /\ dpc = "enable"
  /\ dpc' = "idle"
  /\ Unmask
  /\ UNCHANGED <<status, queues, bds, PendingNBs, nbls, snd, unwinding, sm>>

-----------------------------------------------------------------------------
(* MpCancelSendNetBufferLists: NDIS cancels the NBLs that carry a CancelId *)
(* (here: one NBL); only frames not yet given to the DMA are removed.      *)
MpCancelSendNetBufferLists(l) ==
  LET mine == {i \in 1 .. Len(mpQ) : mpQ[i][1] = l}
  IN  /\ unwinding["cancel"] = <<>> /\ mine # {}
      /\ \E taken \in InOrder(mine), left \in InOrder(1 .. Len(mpQ) \ mine) :
           /\ mpQ' = [i \in DOMAIN left |-> mpQ[left[i]]]
           /\ unwinding' = [unwinding EXCEPT !["cancel"] =
                [i \in DOMAIN taken |-> mpQ[taken[i]]]]
      /\ UNCHANGED <<status, dmaQ, bds, PendingNBs, nbls, snd, dpc, sm, hw>>

\* MpCheckForHangEx, called by NDIS now and then: a third call with frames in
\* the DMA and none sent in between reports a hang.
MpCheckForHangEx ==
  /\ dmaQ # <<>> /\ hang < 3
  /\ hang' = hang + 1
  /\ UNCHANGED <<status, queues, ring, PendingNBs, nbls, snd, unwinding, dpc, sm, hw>>

-----------------------------------------------------------------------------
(* What the state machine does to the transmit path.                       *)
DpcIdle  == dpc = "idle"
SendIdle == \A c \in Calls : snd[c].pc \in {"new", "done"}

\* EnetStart with MpTxInit: the ring is reset and its READY bits are zeroed;
\* pMpBD of the slots keeps what it had.
EnetStart ==
  /\ sm.pc = "idle" /\ sm.starts < MaxStarts
  /\ "dpc" \in Overlap \/ DpcIdle
  /\ "running" \in Overlap \/ ~EnetStarted
  /\ "stale" \in Overlap \/ \A i \in Ring : SwExt[i] = NULL
  /\ NdisStatus' = "SUCCESS" /\ EnetStarted' = TRUE
  /\ R' = [i \in Ring |-> FALSE]
  /\ FreeIdx' = 0 /\ PendingIdx' = 0 /\ FreeBDCount' = ItemCount
  /\ hang' = 0
  /\ hw' = [hw EXCEPT !.eir = FALSE, !.eimr = TRUE, !.tdar = FALSE, !.idx = 0]
  /\ sm' = [sm EXCEPT !.paused = FALSE, !.starts = @ + 1]
  /\ UNCHANGED <<queues, SwExt, PendingNBs, nbls, snd, unwinding, dpc>>

\* EnetStop under all locks, for a pause, a reset or a lost link.
EnetStop ==
  /\ sm.pc = "idle"
  /\ "dpc" \in Overlap \/ DpcIdle
  /\ "send" \in Overlap \/ SendIdle
  /\ NdisStatus' = "PAUSED" /\ EnetStarted' = FALSE
  /\ hw' = [hw EXCEPT !.eir = FALSE, !.eimr = FALSE, !.tdar = FALSE]
  /\ sm' = [sm EXCEPT !.pc = "cancel"]
  /\ UNCHANGED <<queues, bds, PendingNBs, nbls, snd, unwinding, dpc>>

\* MpTxCancelAll under Tx_SpinLock: both queues are drained, the DMA's first; it
\* returns whether anything was queued.
Drained == dmaQ' = <<>> /\ mpQ' = <<>>
TakeAll == Drained /\ unwinding' = [unwinding EXCEPT !["sm"] = dmaQ \o mpQ]
NothingQueued == dmaQ = <<>> /\ mpQ = <<>>

\* After EnetStop.
MpTxCancelAll ==
  /\ sm.pc = "cancel"
  /\ TakeAll
  /\ sm' = [sm EXCEPT !.pc = "unwind"]
  /\ UNCHANGED <<status, bds, PendingNBs, nbls, snd, dpc, hw>>

CancelDone ==
  /\ sm.pc = "unwind" /\ unwinding["sm"] = <<>>
  /\ sm' = [sm EXCEPT !.pc = "idle"]
  /\ UNCHANGED <<status, queues, bds, PendingNBs, nbls, snd, unwinding, dpc, hw>>

\* MpOnPausingStateHandler, PAUSING -> PAUSING: cancel again; when nothing was
\* queued any more the pause is reported complete.  NDIS sends nothing while it
\* pauses the miniport, though it may while it resets it; it may be cancelling.
PausingPoll ==
  /\ sm.pc = "idle" /\ NdisStatus # "SUCCESS" /\ ~sm.paused
  /\ "pausing" \in Overlap \/ SendIdle
  /\ "cancel" \in Overlap \/ unwinding["cancel"] = <<>>
  /\ TakeAll
  /\ sm' = IF NothingQueued THEN [sm EXCEPT !.paused = TRUE]
                                 ELSE [sm EXCEPT !.pc = "unwind"]
  /\ UNCHANGED <<status, bds, PendingNBs, nbls, snd, dpc, hw>>

-----------------------------------------------------------------------------
CallStep(c) == Send(c) \/ AllocTxBD(c) \/ MapNB(c) \/ CountNB(c) \/ FailNB(c) \/ KickSend(c)
DpcStep == \/ EnetDpc \/ MpHandleTxInterrupt \/ DpcSendNext \/ DpcEnable
           \/ MpTxUnwindNetBuffer("dpc")
SmStep  == MpTxCancelAll \/ CancelDone \/ MpTxUnwindNetBuffer("sm")

Next ==
  \/ \E c \in Calls : CallStep(c)
  \/ \E l \in NBLs : MpCancelSendNetBufferLists(l)
  \/ MpTxUnwindNetBuffer("cancel") \/ MpCheckForHangEx
  \/ HwTransmit \/ HwTxError \/ EnetIsr \/ DpcStep
  \/ SmStep \/ EnetStart \/ EnetStop \/ PausingPoll

\* The MAC sends what it was given, an enabled interrupt is taken, a queued DPC
\* runs to its end, and the state machine's timer DPC runs to its end.  Nothing
\* obliges NDIS to send, cancel, pause or restart.
Fairness == WF_vars(HwTransmit) /\ WF_vars(EnetIsr) /\ WF_vars(DpcStep) /\ WF_vars(SmStep)

Spec == Init /\ [][Next]_vars /\ Fairness

-----------------------------------------------------------------------------
(* Properties.                                                             *)

\* Every variable has its type; counters that a race may drive below zero are Int.
TypeOK ==
  /\ NdisStatus \in {"SUCCESS", "PAUSED"} /\ EnetStarted \in BOOLEAN
  /\ mpQ \in Seq(NBs) /\ dmaQ \in Seq(NBs)
  /\ SwExt \in [Ring -> NBs \cup {NULL}] /\ R \in [Ring -> BOOLEAN]
  /\ FreeIdx \in Ring /\ PendingIdx \in Ring /\ FreeBDCount \in Nat
  /\ PendingNBs \in Int /\ hang \in 0 .. 3
  /\ nbCounter \in [NBLs -> Int] /\ completions \in [NBLs -> Nat]
  /\ snd \in [Calls -> [pc : {"new", "alloc", "map", "count", "fail", "kick", "done"},
                        nbl : Nat, nb : Nat, queued : BOOLEAN]]
  /\ unwinding \in [Unwinders -> Seq(NBs)]
  /\ dpc \in {"idle", "scan", "unwind", "enable"}
  /\ sm \in [pc : {"idle", "cancel", "unwind"}, paused : BOOLEAN, starts : Nat]
  /\ hw \in [eir : BOOLEAN, eimr : BOOLEAN, tdar : BOOLEAN, idx : Ring,
             dpcQueued : BOOLEAN]

\* The frames the driver holds: queued, in the DMA, or on a private list.
Linked == mpQ \o dmaQ \o unwinding["dpc"] \o unwinding["sm"] \o unwinding["cancel"]
Held == {Linked[i] : i \in DOMAIN Linked}

\* A frame is linked into one list at most, once: MP_TX_BD has a single Link, so
\* a second insertion (by the DPC, a cancel or the state machine) corrupts both.
\* Tx_PendingNBs, on which a pause waits, counts the frames so linked, but for
\* those whose sender has left Tx_SpinLock and not incremented it yet.
FrameInOnePlace ==
  /\ Cardinality(Held) = Len(Linked)
  /\ PendingNBs = Cardinality(Held) - Cardinality({c \in Calls : At(c, "count")})

\* While the MAC runs, the slots from PendingIdx on hold exactly the frames of
\* Tx_qDmaOwnedBDs in their order, the frames still owned by the DMA are the
\* youngest of them, and the free counter accounts for all the other slots: the
\* DPC can drop the head of the queue for each slot it reaps without looking.
RingMatchesQueue ==
  EnetStarted =>
    /\ Len(dmaQ) + FreeBDCount = ItemCount
    /\ FreeIdx = Wrap(PendingIdx + Len(dmaQ))
    /\ \A i \in Ring :
         LET d == Ahead(PendingIdx, i) + 1
         IN  /\ SwExt[i] = IF d <= Len(dmaQ) THEN dmaQ[d] ELSE NULL
             /\ R[i] => d <= Len(dmaQ)
             /\ R[i] /\ d < Len(dmaQ) => R[Wrap(i + 1)]

\* An NBL of one frame is completed at most once, and only after its frame has
\* left every list of the driver and the call that sent it is through with it.
CompletedOnce ==
  \A l \in NBLs : NBCount[l] = 1 /\ completions[l] > 0 =>
    /\ completions[l] = 1
    /\ <<l, 1>> \notin Held
    /\ \A c \in Calls : ~(snd[c].pc \in {"map", "fail"} /\ Nbl(c) = l)

\* When a pause is complete the driver holds no frame and Tx_PendingNBs is zero
\* (the ASSERT of MpOnPausingStateHandler).
PausedDrained == sm.paused => PendingNBs = 0 /\ Held = {}

\* No frame is given to the DMA unless the MAC has been started, although
\* MpSendNextNB only looks at NdisStatus, which is SUCCESS before the first start.
FillOnlyWhenStarted ==
  [][(\E i \in Ring : R'[i] /\ ~R[i]) => EnetStarted /\ EnetStarted']_vars

\* The DMA's frames do not stay there: each is sent and reaped, or the adapter is
\* stopped and it is cancelled; no interrupt is lost between the MAC, the masking
\* ISR and the DPC that unmasks it.  (NDIS sends finitely many frames here.)
DmaDrains == dmaQ # <<>> ~> dmaQ = <<>>
=============================================================================
