------------------------------- MODULE EnetSm -------------------------------
(***************************************************************************)
(* The state machine of the ENET NDIS miniport (mp_sm.c) and the NDIS      *)
(* requests that drive it (mp_main.c, mp_req.c).                           *)
(*                                                                         *)
(* A request writes the wanted state into SM_NextState and arms a one-shot *)
(* timer; the timer DPC, MpSmDispatcher, makes it the current state and    *)
(* runs its handler, which may write SM_NextState and arm the timer again. *)
(* SM_NextState is one slot: a later writer replaces what an earlier one   *)
(* asked for.  Each turn of the dispatcher begins with the engine that       *)
(* follows the link, module EnetPhy.                                       *)
(***************************************************************************)
EXTENDS Integers, EnetPhy

CONSTANT
  Concurrent   \* does NDIS reset the adapter while it pauses, restarts or
               \* powers it, and the other way round
ASSUME SmAssumption == Concurrent \in BOOLEAN

\* SM_STATE_HALTED is 0, which is also what a zeroed SM_OnResetPreviousState says.
States == {"HALTED", "PAUSED", "PAUSING", "RUNNING", "RESET"}
\* How many expiries of the timer may wait for SM_SpinLock.
MaxDue == 2

VARIABLES
  CurrentState, NextState,   \* SM_CurrentState, SM_NextState
  OnResetPreviousState,
  timer,      \* SM_hTimer: "off", or armed to expire "now" or "later" (100 ms, 1 s)
  due,        \* its DPCs that have not got SM_SpinLock yet
  asserted,   \* an ASSERT(0) of a state handler was reached
  EnetStarted,
  busy,       \* the driver holds frames to send, or NDIS frames it received
  link,       \* LinkState of the adapter
  told,       \* NDIS knows of it: its last change was indicated
  power,      \* CurrentPowerState
  RestartEnetAfterResume,
  opReset,    \* PendingNdisOperations.B.OP_RESET
  haltEvent,  \* SM_EnetHaltedEvent: "reset", or "due" or "set" by the dispatcher
  freed,      \* MpFreeAdapter was called
  ndis,       \* the miniport's state as NDIS sees it
  resetting   \* NDIS's reset: "no", "called", or "pending" until NdisMResetComplete

states == <<CurrentState, NextState, OnResetPreviousState>>
clock  == <<timer, due>>
mac    == <<EnetStarted, busy>>
links  == <<link, told>>
pm     == <<power, RestartEnetAfterResume>>
halt   == <<haltEvent, freed>>
\* What a request of NDIS's, and what a step of the PHY's, leaves alone.
device == <<asserted, mac, links, pm, phy>>
sm     == <<states, clock, asserted, mac, links, pm, opReset, halt, ndis, resetting>>
vars   == <<sm, phy>>

-----------------------------------------------------------------------------
(* Slips: each is an operator below as a plausible mistake would have it.  *)
(* No action uses them; a run with one in place of the right operator      *)
(* shows that the property it is paired with can fail.                     *)

\* The state that a reset returns to is not the one it was requested in.
ResetSavedSlip == OnResetPreviousState' = "PAUSED"
\* The adapter is freed although the wait for the event timed out.
MayFreeSlip == TRUE
\* Waiting for frames is left without arming the timer.
KeepsWaitingSlip == ~busy

-----------------------------------------------------------------------------
Init ==
  /\ CurrentState = "PAUSED" /\ NextState = "PAUSED"
  /\ OnResetPreviousState = "HALTED"
  /\ timer = "off" /\ due = 0 /\ asserted = FALSE
  /\ EnetStarted = FALSE /\ busy = FALSE
  /\ link = "unknown" /\ told = TRUE
  /\ power = "D0" /\ RestartEnetAfterResume = FALSE
  /\ opReset = FALSE /\ haltEvent = "reset" /\ freed = FALSE
  /\ ndis = "paused" /\ resetting = "no"
  /\ PhyInit

-----------------------------------------------------------------------------
(* SmSetState.  NDIS's requests always replace SM_NextState.  A handler of *)
(* the dispatcher may only when no other state is wanted, and none is: it  *)
(* runs under SM_SpinLock, in the state that was wanted last.              *)
SetByNdis(s) ==
  /\ NextState' = s /\ timer' = "now"
  /\ UNCHANGED <<CurrentState, OnResetPreviousState, due>>

SetByDispatcher(s, when) == NextState' = s /\ timer' = when
NotSet == UNCHANGED <<NextState, timer>>

\* The timer expires: its DPC is queued, or waits for SM_SpinLock.  The lock is held
\* for moments, so only an immediate timer finds an earlier DPC still waiting.
TimerExpires ==
  /\ \/ timer = "now" /\ due < MaxDue
     \/ timer = "later" /\ due = 0
  /\ timer' = "off" /\ due' = due + 1
  /\ UNCHANGED <<states, device, opReset, halt, ndis, resetting>>

-----------------------------------------------------------------------------
(* MpSmDispatcher under SM_SpinLock: MII_StateEngine runs, the wanted      *)
(* state becomes the current one, its handler runs and sees the old        *)
(* current state as PreviousState.                                         *)
Enter(s) ==
  /\ due > 0 /\ due' = due - 1
  /\ NextState = s /\ CurrentState' = s
  /\ IF s = "HALTED" THEN UNCHANGED phy ELSE MII_StateEngine
  /\ UNCHANGED <<pm, freed>>

From(s) == CurrentState = s
\* The switch of a handler on PreviousState: its default is ASSERT(0).
ExpectFrom(S) == asserted' = (asserted \/ CurrentState \notin S)

EnetStart == EnetStarted' = TRUE /\ UNCHANGED busy
\* EnetStop; MpTxCancelAll, which may have to be repeated.
EnetStop == EnetStarted' = FALSE /\ UNCHANGED busy
KeepMac == UNCHANGED mac

\* A link that was lost while paused is neither indicated, nor the MAC stopped.
MpOnRunningStateHandler ==
  LET connected == phyLink' \in Connected
      changed == phyLink' # link
  IN  /\ Enter("RUNNING")
      /\ ExpectFrom({"PAUSED", "RUNNING"})
      /\ link' = phyLink'
      /\ CASE connected /\ (From("PAUSED") \/ (From("RUNNING") /\ changed)) -> EnetStart
           [] ~connected /\ From("RUNNING") /\ changed -> EnetStop
           [] OTHER -> KeepMac
      /\ told' = IF changed THEN From("RUNNING") \/ (From("PAUSED") /\ connected)
                            ELSE told
      /\ SetByDispatcher("RUNNING", "later")
      /\ UNCHANGED <<OnResetPreviousState, opReset, haltEvent, ndis, resetting>>

\* PAUSING -> PAUSING: cancel the sends again, ask whether NDIS holds frames.
NextWhilePausing == IF busy THEN "PAUSING" ELSE "PAUSED"
KeepsWaiting == TRUE

MpOnPausingStateHandler ==
  /\ Enter("PAUSING")
  /\ ExpectFrom({"RUNNING", "PAUSED", "RESET", "PAUSING"})
  /\ IF From("PAUSING")
     THEN /\ KeepMac
          /\ IF KeepsWaiting
             THEN SetByDispatcher(NextWhilePausing, IF busy THEN "later" ELSE "now")
             ELSE NotSet
     ELSE /\ IF From("HALTED") THEN KeepMac ELSE EnetStop
          /\ SetByDispatcher("PAUSING", "later")
  /\ UNCHANGED <<OnResetPreviousState, links, opReset, haltEvent, ndis, resetting>>

\* Only MpPause's requests wait for NdisMPauseComplete.
MpOnPausedStateHandler ==
  /\ Enter("PAUSED")
  /\ ExpectFrom({"PAUSING"})
  /\ CASE From("PAUSING") /\ opReset ->
            /\ opReset' = FALSE /\ resetting' = "no"
            /\ IF OnResetPreviousState = "RUNNING" THEN EnetStart ELSE KeepMac
            /\ SetByDispatcher(OnResetPreviousState, "now")
            /\ UNCHANGED ndis
       [] From("PAUSING") /\ ~opReset ->
            /\ ndis' = "paused"
            /\ KeepMac /\ NotSet /\ UNCHANGED <<opReset, resetting>>
       [] OTHER -> KeepMac /\ NotSet /\ UNCHANGED <<opReset, ndis, resetting>>
  /\ UNCHANGED <<OnResetPreviousState, links, haltEvent>>

ResetSaved == OnResetPreviousState' = CurrentState

MpOnResetStateHandler ==
  /\ Enter("RESET")
  /\ ResetSaved
  /\ SetByDispatcher("PAUSING", "now")
  /\ KeepMac /\ ExpectFrom(States)
  /\ UNCHANGED <<links, opReset, haltEvent, ndis, resetting>>

MpOnHaltedStateHandler ==
  /\ Enter("HALTED")
  /\ ExpectFrom({"PAUSED"})
  /\ IF From("PAUSED") THEN EnetStop /\ haltEvent' = "due"
                      ELSE KeepMac /\ UNCHANGED haltEvent
  /\ NotSet
  /\ UNCHANGED <<OnResetPreviousState, links, opReset, ndis, resetting>>

\* After SM_SpinLock is released.
SetHaltedEvent ==
  /\ haltEvent = "due" /\ haltEvent' = "set"
  /\ UNCHANGED <<states, clock, device, opReset, freed, ndis, resetting>>

-----------------------------------------------------------------------------
(* NDIS's requests.  NDIS pauses the miniport before it halts it or takes  *)
(* it to D3, and restarts it in D0.                                        *)
Calm == Concurrent \/ resetting = "no"

MpRestart ==
  /\ ndis = "paused" /\ power = "D0" /\ Calm
  /\ SetByNdis("RUNNING")
  /\ ndis' = "running"
  /\ UNCHANGED <<device, opReset, halt, resetting>>

MpPause ==
  /\ ndis = "running" /\ Calm
  /\ SetByNdis("PAUSING")
  /\ ndis' = "pausing"
  /\ UNCHANGED <<device, opReset, halt, resetting>>

\* MpResetEx, first under Dev_SpinLock, then with SmSetState.
MpResetEx ==
  /\ resetting = "no" /\ ndis \notin {"halting", "halted"}
  /\ Concurrent \/ (ndis = "running" /\ CurrentState = "RUNNING")
  /\ IF opReset THEN UNCHANGED <<opReset, resetting>>
                ELSE opReset' = TRUE /\ resetting' = "called"
  /\ UNCHANGED <<states, clock, device, halt, ndis>>

RequestReset ==
  /\ resetting = "called"
  /\ SetByNdis("RESET")
  /\ resetting' = "pending"
  /\ UNCHANGED <<device, opReset, halt, ndis>>

MpHaltEx ==
  /\ ndis = "paused" /\ resetting = "no"
  /\ SetByNdis("HALTED")
  /\ haltEvent' = "reset" /\ ndis' = "halting"
  /\ UNCHANGED <<device, opReset, freed, resetting>>

\* NdisWaitEvent returns: because of the event, or after its timeout; then the
\* adapter is not freed.
MayFree == haltEvent = "set"
HaltWaitEnds ==
  /\ ndis = "halting"
  /\ ndis' = "halted" /\ freed' = MayFree
  /\ UNCHANGED <<states, clock, device, opReset, haltEvent, resetting>>

\* MpSetPower(D3) and MpSetPower(D0).
MpSetPower ==
  /\ ndis = "paused" /\ Calm
  /\ \/ /\ power = "D0" /\ power' = "D3"
        /\ RestartEnetAfterResume' = EnetStarted
        /\ IF EnetStarted THEN EnetStop ELSE KeepMac
        /\ link' = "unknown" /\ told' = TRUE
     \/ /\ power = "D3" /\ power' = "D0"
        /\ RestartEnetAfterResume' = FALSE
        /\ IF RestartEnetAfterResume THEN EnetStart ELSE KeepMac
        /\ UNCHANGED links
  /\ UNCHANGED <<states, clock, asserted, phy, opReset, halt, ndis, resetting>>

\* The PHY, its partner and the MDIO bus go on by themselves.
PhyStep == (MdioTransfer \/ PartnerChanges \/ Negotiated) /\ UNCHANGED sm

\* Frames arrive or are sent while the MAC runs; sooner or later they have been
\* sent or cancelled, and NDIS has returned the ones it got (external).
Traffic ==
  /\ EnetStarted /\ ~busy /\ busy' = TRUE
  /\ UNCHANGED <<states, clock, asserted, EnetStarted, links, pm, phy, opReset, halt, ndis, resetting>>
Drain ==
  /\ busy /\ busy' = FALSE
  /\ UNCHANGED <<states, clock, asserted, EnetStarted, links, pm, phy, opReset, halt, ndis, resetting>>

-----------------------------------------------------------------------------
MpSmDispatcher ==
  \/ MpOnRunningStateHandler \/ MpOnPausingStateHandler \/ MpOnPausedStateHandler
  \/ MpOnResetStateHandler \/ MpOnHaltedStateHandler

Next ==
  \/ TimerExpires \/ MpSmDispatcher \/ SetHaltedEvent
  \/ MpRestart \/ MpPause \/ MpResetEx \/ RequestReset \/ MpHaltEx \/ HaltWaitEnds
  \/ MpSetPower \/ PhyStep \/ Traffic \/ Drain

\* Timers expire, their DPCs run, a call of NDIS that has begun goes on, frames
\* that wait are given back when no new ones come, the MDIO bus serves its commands,
\* and PHY and partner agree on a link.
Fairness ==
  /\ WF_vars(TimerExpires) /\ WF_vars(MpSmDispatcher) /\ WF_vars(SetHaltedEvent)
  /\ WF_vars(RequestReset) /\ WF_vars(Drain)
  /\ WF_vars(MdioTransfer /\ UNCHANGED sm) /\ WF_vars(Negotiated /\ UNCHANGED sm)

Spec == Init /\ [][Next]_vars /\ Fairness

-----------------------------------------------------------------------------
(* Properties.                                                             *)

\* Every variable has its type, and a handler is only entered from the states it
\* expects: no ASSERT(0) is reached, also when a request replaces the state the
\* dispatcher wanted, or when a DPC of the timer runs late.
TypeOK ==
  /\ {CurrentState, NextState, OnResetPreviousState} \subseteq States
  /\ timer \in {"off", "now", "later"}
  /\ ~asserted
  /\ {EnetStarted, busy, RestartEnetAfterResume, opReset, freed} \subseteq BOOLEAN
  /\ due \in 0 .. MaxDue
  /\ link \in LinkStates /\ told \in BOOLEAN /\ power \in {"D0", "D3"}
  /\ haltEvent \in {"reset", "due", "set"}
  /\ ndis \in {"paused", "running", "pausing", "halting", "halted"}
  /\ resetting \in {"no", "called", "pending"}
  /\ PhyTypeOK

\* As long as NDIS takes the miniport for paused, in D0 or D3, the MAC is stopped
\* and neither side holds a frame of the other; and when the adapter block is freed
\* no timer or DPC can use it any more.
Quiet ==
  /\ ndis \in {"paused", "halting", "halted"} => ~EnetStarted /\ ~busy
  /\ freed => timer = "off" /\ due = 0 /\ haltEvent = "set"

\* A requested pause completes, and so does a requested reset, whatever the link does
\* and whenever a handler's own choice of the next state meets NDIS's.
RequestsComplete ==
  /\ ndis = "pausing" ~> ndis = "paused"
  /\ resetting = "pending" ~> resetting = "no"

\* 1000 Mbs only with pause frames.
WantedLink(p) == CASE p = "fast" -> "fast" [] p = "none" -> "down" [] OTHER -> "slow"

\* When the partner no longer changes and NDIS keeps the miniport running, the driver
\* settles: it does not restart the auto-negotiation for ever, it has the link both
\* sides support, NDIS was told of it, and the MAC runs; without a partner there is
\* no link.
LinkReported ==
  \A p \in Partners :
    <>[](wire.partner = p /\ ndis = "running" /\ resetting = "no") =>
      <>[](IF p = "none" THEN link \notin Connected
           ELSE link = WantedLink(p) /\ told /\ EnetStarted)
=============================================================================
