------------------------------- MODULE EnetRx -------------------------------
(***************************************************************************)
(* Receive path of the ENET NDIS miniport (driver/net/ndis/imxnetmini).    *)
(*                                                                         *)
(* The driver owns as many receive frames as the DMA ring has descriptors. *)
(* The MAC fills the empty descriptors in ring order; the DPC takes the    *)
(* frames out of the ring and indicates them to NDIS, which keeps them and *)
(* returns them later, in any order and from any processor.  When few      *)
(* frames are left in the ring, NDIS only borrows them for the call.       *)
(* A returned frame goes into the slot Rx_EnetFreeBDIdx, whichever slot it *)
(* came from.  Frames are numbered by their place in Rx_FrameBDT.          *)
(***************************************************************************)
EXTENDS RingIndex, Sequences

CONSTANTS
  LowWater,    \* Rx_DmaBDT_DmaOwnedBDsLowWatterMark
  Throttles,   \* the values NDIS passes in MaxNblsToIndicate
  MaxStarts,   \* bound: how often EnetStart is called
  Undrained,   \* may EnetStart follow without the drain of a pause: the link
               \* comes back, a reset starts the MAC twice, or the power is back
  NULL         \* no frame in a slot

ASSUME RxAssumption ==
  /\ LowWater \in 0 .. ItemCount - 1
  /\ Throttles \subseteq Nat \ {0}
  /\ MaxStarts \in Nat
  /\ Undrained \in BOOLEAN
  /\ NULL \notin Nat

\* One frame per descriptor.
Frames == Ring

VARIABLES
  NdisStatus,    \* "SUCCESS", or a status that refuses to receive
  EnetStarted,   \* also ECR.ETHER_EN: the MAC runs
  SwExt,         \* Rx_DmaBDT_SwExt[i].pRxFrameBD
  desc,          \* ControlStatus of descriptor i: bit E ("empty"), or a frame
                 \* received well ("good") or with an error bit ("error")
  FreeIdx, PendingIdx,
  DmaOwned,      \* Rx_DmaBDT_DmaOwnedBDsCount
  NdisOwned,     \* Rx_NdisOwnedBDsCount
  ndis,          \* the frames NDIS keeps
  dpc,           \* EnetDpc: where it is, and the lists on its stack
  saved,         \* InterruptFlags: RX flags kept for the next EnetDpc
  sm,            \* the state machine: "stopped", "paused" or "running", and starts
  hw             \* EIR (RXF), EIMR, RDAR, DMA pointer; an EnetDpc is due

status == <<NdisStatus, EnetStarted>>
counts == <<DmaOwned, NdisOwned>>
ring   == <<SwExt, desc, FreeIdx>>
vars   == <<status, ring, PendingIdx, counts, ndis, dpc, saved, sm, hw>>

Members(s) == {s[i] : i \in 1 .. Len(s)}

-----------------------------------------------------------------------------
(* Slips: each is an operator below as a plausible mistake would have it.  *)
(* No action uses them; a run with one in place of the right operator      *)
(* shows that the property it is paired with can fail.                     *)

\* The index is not wrapped when the last slot is refilled.
FreeAfterSlip(n) == FreeIdx + n
\* The slot of a frame that is taken still points to it.
EmptiedSlip(m) == SwExt
\* The DPC does not look at the status of the adapter.
ReadySlip == TRUE
\* RDAR is only written by EnetStart.
ResumeSlip(n) == hw.rdar
\* The RX flags of a throttled DPC are not kept.
KeptFlagsSlip == FALSE

-----------------------------------------------------------------------------
(* The adapter block is zeroed and the state machine begins in PAUSED.     *)
(* NdisStatus 0 is NDIS_STATUS_SUCCESS; a zero descriptor is not empty.    *)
Init ==
  /\ NdisStatus = "SUCCESS" /\ EnetStarted = FALSE
  /\ SwExt = [i \in Ring |-> NULL] /\ desc = [i \in Ring |-> "good"]
  /\ FreeIdx = 0 /\ PendingIdx = 0 /\ DmaOwned = 0 /\ NdisOwned = 0
  /\ ndis = {}
  /\ dpc = [pc |-> "idle", errors |-> <<>>, async |-> <<>>, sync |-> <<>>,
            more |-> FALSE]
  /\ saved = FALSE
  /\ sm = [state |-> "paused", starts |-> 0]
  /\ hw = [eir |-> FALSE, eimr |-> FALSE, rdar |-> FALSE, idx |-> 0, due |-> FALSE]

-----------------------------------------------------------------------------
(* MpReturnNetBufferLists for a chain of frames, under Rx_SpinLock.  While *)
(* the MAC is stopped the frames are only counted; MpRxInit collects them. *)
FreeAfter(n) == Wrap(FreeIdx + n)

\* RDAR restarts a MAC that ran out of empty descriptors.
Resume(n) == hw.rdar \/ n > 0

MpReturnNetBufferLists(chain) ==
  LET n == Len(chain)
      refilled(i) == Ahead(FreeIdx, i) < n
  IN  /\ DmaOwned' = DmaOwned + n
      /\ NdisOwned' = NdisOwned - n
      /\ IF EnetStarted
         THEN /\ SwExt' = [i \in Ring |->
                   IF refilled(i) THEN chain[Ahead(FreeIdx, i) + 1] ELSE SwExt[i]]
              /\ desc' = [i \in Ring |-> IF refilled(i) THEN "empty" ELSE desc[i]]
              /\ FreeIdx' = FreeAfter(n)
              /\ hw' = [hw EXCEPT !.rdar = Resume(n)]
         ELSE UNCHANGED <<ring, hw>>

\* NDIS is done with some of the frames it keeps.
Chains == UNION {{s \in [1 .. n -> ndis] : Cardinality(Members(s)) = n}
                   : n \in 1 .. Cardinality(ndis)}
NdisReturn ==
  \E chain \in Chains :
    /\ ndis' = ndis \ Members(chain)
    /\ MpReturnNetBufferLists(chain)
    /\ UNCHANGED <<status, PendingIdx, dpc, saved, sm>>

-----------------------------------------------------------------------------
(* The MAC (external): receives into the descriptor it points to if that   *)
(* is empty, raises RXF, and stops at a descriptor that is not empty.      *)
HwReceive ==
  LET next == Wrap(hw.idx + 1)
  IN  /\ EnetStarted /\ hw.rdar /\ desc[hw.idx] = "empty"
      /\ \E outcome \in {"good", "error"} : desc' = [desc EXCEPT ![hw.idx] = outcome]
      /\ hw' = [hw EXCEPT !.idx = next, !.eir = TRUE, !.rdar = desc'[next] = "empty"]
      /\ UNCHANGED <<status, SwExt, FreeIdx, PendingIdx, counts, ndis, dpc, saved, sm>>

\* EnetIsr: masks the interrupts and queues EnetDpc.
EnetIsr ==
  /\ hw.eir /\ hw.eimr
  /\ hw' = [hw EXCEPT !.eimr = FALSE, !.due = TRUE]
  /\ UNCHANGED <<status, ring, PendingIdx, counts, ndis, dpc, saved, sm>>

\* EnetDpc under Dev_SpinLock: reads and clears EIR, adds the flags kept by a
\* throttled predecessor.
EnetDpc ==
  /\ dpc.pc = "idle" /\ hw.due
  /\ dpc' = [dpc EXCEPT !.pc = IF hw.eir \/ saved THEN "recv" ELSE "enable",
                        !.more = FALSE]
  /\ saved' = FALSE
  /\ hw' = [hw EXCEPT !.eir = FALSE, !.due = FALSE]
  /\ UNCHANGED <<status, ring, PendingIdx, counts, ndis, sm>>

-----------------------------------------------------------------------------
(* MpHandleRecvInterrupt, its Rx_SpinLock section.                         *)
Ready == NdisStatus = "SUCCESS"

Slot(d) == Wrap(PendingIdx + d)
Received(d) == desc[Slot(d)] # "empty" /\ DmaOwned > d
GoodBefore(d) == Cardinality({e \in 0 .. d - 1 : desc[Slot(e)] = "good"})

\* Few frames are left in the ring: NDIS may only borrow this one.
Low(owned) == owned <= LowWater

\* The frames of some slots, given by their distance from PendingIdx.
TakenFrames(ds) == [i \in DOMAIN ds |-> SwExt[Slot(ds[i])]]
\* A list that every frame was put in front of.
Reversed(s) == [i \in 1 .. Len(s) |-> s[Len(s) + 1 - i]]

Emptied(m) == [i \in Ring |-> IF Ahead(PendingIdx, i) < m THEN NULL ELSE SwExt[i]]
Counted(m, bad) == m

\* The loop ends at slot m: no frame, none left, or NDIS wants no more (max).
Take(m, max) ==
  LET good  == {d \in 0 .. m - 1 : desc[Slot(d)] = "good"}
      error == {d \in 0 .. m - 1 : desc[Slot(d)] = "error"}
      lent  == {d \in good : Low(DmaOwned - d - 1)}
  IN  /\ \A d \in 0 .. m - 1 : Received(d) /\ GoodBefore(d) < max
      /\ m < ItemCount => ~(Received(m) /\ GoodBefore(m) < max)
      /\ SwExt' = Emptied(m)
      /\ PendingIdx' = Wrap(PendingIdx + m)
      /\ DmaOwned' = DmaOwned - m
      /\ NdisOwned' = NdisOwned + Counted(m, Cardinality(error))
      /\ \E e \in InOrder(error), a \in InOrder(good \ lent), s \in InOrder(lent) :
           dpc' = [pc |-> "errors", errors |-> Reversed(TakenFrames(e)),
                   async |-> TakenFrames(a), sync |-> TakenFrames(s),
                   more |-> m < ItemCount /\ Received(m)]

MpHandleRecvInterrupt ==
  /\ dpc.pc = "recv"
  /\ IF Ready
     THEN \E m \in 0 .. ItemCount, max \in Throttles : Take(m, max)
     ELSE /\ dpc' = [dpc EXCEPT !.pc = "enable"]
          /\ UNCHANGED <<SwExt, PendingIdx, counts>>
  /\ UNCHANGED <<status, desc, FreeIdx, ndis, saved, sm, hw>>

\* Without the lock: frames with errors are returned at once ...
ReturnErrors ==
  /\ dpc.pc = "errors"
  /\ MpReturnNetBufferLists(dpc.errors)
  /\ dpc' = [dpc EXCEPT !.pc = "indicate", !.errors = <<>>]
  /\ UNCHANGED <<status, PendingIdx, ndis, saved, sm>>

\* ... NDIS gets the others ...
Indicate ==
  /\ dpc.pc = "indicate"
  /\ ndis' = ndis \cup Members(dpc.async)
  /\ dpc' = [dpc EXCEPT !.pc = "sync", !.async = <<>>]
  /\ UNCHANGED <<status, ring, PendingIdx, counts, saved, sm, hw>>

\* ... and the ones NDIS has only borrowed are returned for it.
ReturnSync ==
  /\ dpc.pc = "sync"
  /\ MpReturnNetBufferLists(dpc.sync)
  /\ dpc' = [dpc EXCEPT !.pc = IF dpc.more THEN "throttled" ELSE "enable",
                        !.sync = <<>>]
  /\ UNCHANGED <<status, PendingIdx, ndis, saved, sm>>

\* MoreNblsPending: the interrupts stay masked, NDIS will call EnetDpc again.
KeptFlags == TRUE
Throttled ==
  /\ dpc.pc = "throttled"
  /\ saved' = KeptFlags
  /\ hw' = [hw EXCEPT !.due = TRUE]
  /\ dpc' = [dpc EXCEPT !.pc = "idle"]
  /\ UNCHANGED <<status, ring, PendingIdx, counts, ndis, sm>>

DpcEnable ==
  /\ dpc.pc = "enable"
  /\ dpc' = [dpc EXCEPT !.pc = "idle"]
  /\ hw' = [hw EXCEPT !.eimr = TRUE]
  /\ UNCHANGED <<status, ring, PendingIdx, counts, ndis, saved, sm>>

-----------------------------------------------------------------------------
(* What the state machine does to the receive path.                        *)

\* EnetStart with MpRxInit: every frame goes back to its own slot.
EnetStart ==
  /\ sm.state = "paused" \/ (Undrained /\ sm.starts > 0)
  /\ sm.starts < MaxStarts
  /\ NdisStatus' = "SUCCESS" /\ EnetStarted' = TRUE
  /\ SwExt' = [i \in Ring |-> i] /\ desc' = [i \in Ring |-> "empty"]
  /\ FreeIdx' = 0 /\ PendingIdx' = 0
  /\ DmaOwned' = ItemCount /\ NdisOwned' = 0
  /\ saved' = FALSE
  /\ sm' = [state |-> "running", starts |-> sm.starts + 1]
  /\ hw' = [hw EXCEPT !.eir = FALSE, !.eimr = TRUE, !.rdar = TRUE, !.idx = 0]
  /\ UNCHANGED <<ndis, dpc>>

\* EnetStop, for a pause, a reset or a lost link.
EnetStop ==
  /\ sm.state = "running"
  /\ NdisStatus' = "PAUSED" /\ EnetStarted' = FALSE
  /\ sm' = [sm EXCEPT !.state = "stopped"]
  /\ hw' = [hw EXCEPT !.eir = FALSE, !.eimr = FALSE, !.rdar = FALSE]
  /\ UNCHANGED <<ring, PendingIdx, counts, ndis, dpc, saved>>

\* MpOnPausingStateHandler: the pause is complete when IsRxFramePandingInNdis
\* says no.
IsRxFramePandingInNdis == NdisOwned # 0
PausingPoll ==
  /\ sm.state = "stopped" /\ ~IsRxFramePandingInNdis
  /\ sm' = [sm EXCEPT !.state = "paused"]
  /\ UNCHANGED <<status, ring, PendingIdx, counts, ndis, dpc, saved, hw>>

-----------------------------------------------------------------------------
DpcStep == \/ EnetDpc \/ MpHandleRecvInterrupt \/ ReturnErrors \/ Indicate
           \/ ReturnSync \/ Throttled \/ DpcEnable

Next == \/ NdisReturn \/ HwReceive \/ EnetIsr \/ DpcStep
        \/ EnetStart \/ EnetStop \/ PausingPoll

\* An enabled interrupt is taken, and a due DPC runs to its end.
Fairness == WF_vars(EnetIsr) /\ WF_vars(DpcStep)

Spec == Init /\ [][Next]_vars /\ Fairness

-----------------------------------------------------------------------------
(* Properties.                                                             *)

\* Every variable has its type; the counters are Int: a return may find them wrong.
TypeOK ==
  /\ NdisStatus \in {"SUCCESS", "PAUSED"} /\ EnetStarted \in BOOLEAN
  /\ SwExt \in [Ring -> Frames \cup {NULL}]
  /\ desc \in [Ring -> {"empty", "good", "error"}]
  /\ FreeIdx \in Ring /\ PendingIdx \in Ring
  /\ DmaOwned \in Int /\ NdisOwned \in Int
  /\ ndis \subseteq Frames
  /\ dpc.pc \in {"idle", "recv", "errors", "indicate", "sync", "throttled", "enable"}
  /\ {dpc.errors, dpc.async, dpc.sync} \subseteq Seq(Frames)
  /\ dpc.more \in BOOLEAN /\ saved \in BOOLEAN
  /\ sm \in [state : {"stopped", "paused", "running"}, starts : Nat]
  /\ hw \in [eir : BOOLEAN, eimr : BOOLEAN, rdar : BOOLEAN, idx : Ring, due : BOOLEAN]

Lists  == dpc.errors \o dpc.async \o dpc.sync
Out    == ndis \cup Members(Lists)
InRing == {SwExt[i] : i \in Ring} \ {NULL}

\* While the MAC runs every frame is in exactly one place: one slot of the ring,
\* one list of the DPC, or NDIS.  No frame is lost, and the DMA never writes into
\* one that NDIS is reading.  Rx_NdisOwnedBDsCount, on which a pause waits, counts
\* the frames outside of the ring, also when they come back to a stopped adapter.
FrameHasOneOwner ==
  /\ Cardinality(Members(Lists)) = Len(Lists)
  /\ ndis \cap Members(Lists) = {}
  /\ NdisOwned = Cardinality(Out)
  /\ EnetStarted =>
       /\ InRing \cap Out = {} /\ InRing \cup Out = Frames
       /\ \A i, j \in Ring : SwExt[i] = SwExt[j] /\ SwExt[i] # NULL => i = j

\* While the MAC runs the ring is, from PendingIdx on: received frames up to the
\* MAC's pointer, empty frames up to FreeIdx, and slots without a frame; the
\* counter DmaOwned tells a full ring from an empty one.  Reception is active when
\* the MAC's descriptor is empty, even if the ring ran empty before frames came back.
RingInOrder ==
  EnetStarted =>
    /\ DmaOwned \in 0 .. ItemCount /\ FreeIdx = Wrap(PendingIdx + DmaOwned)
    /\ \A i \in Ring : SwExt[i] # NULL <=> Ahead(PendingIdx, i) < DmaOwned
    /\ \A i, j \in Ring :
         /\ Ahead(PendingIdx, i) < Ahead(PendingIdx, j) /\ desc[j] # "empty"
         /\ Ahead(PendingIdx, j) < DmaOwned
         => desc[i] # "empty"
    /\ desc[hw.idx] = "empty" => hw.rdar

\* A pause is complete only when NDIS and the DPC have given back every frame,
\* although a DPC that started before the stop may still be at work.
PausedDrained == sm.state = "paused" => Out = {}

\* Every received frame leaves the ring (or the MAC is stopped), even if NDIS
\* throttles the DPC: no RXF interrupt is lost between EIR, the flags kept in
\* InterruptFlags, the masking ISR and the DPC that unmasks it.
InRingReceived(f) ==
  EnetStarted /\ \E i \in Ring : SwExt[i] = f /\ desc[i] # "empty"
ReceivedIndicated == \A f \in Frames : InRingReceived(f) ~> ~InRingReceived(f)
=============================================================================
