----------------------------- MODULE EnetSmProofs -----------------------------
(***************************************************************************)
(* Theorems about the state machine of the ENET miniport, for every set of *)
(* link partners and whatever the link does, when NDIS resets the adapter  *)
(* only while it runs and waits for the reset (Concurrent is FALSE).       *)
(*                                                                         *)
(* SM_NextState is one slot with two writers, and a timer that was armed   *)
(* for one state may expire for the next one.  The invariant says which    *)
(* writers can meet: which pairs of current and next state there are in    *)
(* each phase of NDIS's requests, and how many turns of the dispatcher are *)
(* still to come.                                                          *)
(***************************************************************************)
EXTENDS EnetSm, TLAPS

\* The turns of the dispatcher that are to come: none, one, one that was or is still to be
\* armed by a handler, and, when NDIS has armed the timer once more, up to two.
NoTurn == timer = "off" /\ due = 0
OneTurn == (timer = "now" /\ due = 0) \/ (timer = "off" /\ due = 1)
RunTurn == (timer = "later" /\ due = 0) \/ (timer = "off" /\ due = 1)
PollTurn == RunTurn \/ (timer = "later" /\ due = 1)
UpToTwoTurns == (timer = "now" /\ due \in {0, 1}) \/ (timer = "off" /\ due \in {1, 2})

Between(current, next) == CurrentState = current /\ NextState = next

\* NDIS has the miniport paused, and then halts it.
Paused == ndis = "paused" /\ Between("PAUSED", "PAUSED") /\ NoTurn
Halting ==
  /\ ndis \in {"halting", "halted"}
  /\ \/ Between("PAUSED", "HALTED") /\ OneTurn /\ haltEvent = "reset"
     \/ Between("HALTED", "HALTED") /\ NoTurn /\ haltEvent # "reset"

\* It is restarted, or returns from a reset, and runs.
Starting == ndis = "running" /\ resetting = "no" /\ Between("PAUSED", "RUNNING") /\ OneTurn
Running ==
  ndis = "running" /\ resetting \in {"no", "called"} /\ Between("RUNNING", "RUNNING") /\ RunTurn

\* A pause or a reset is asked for,
PauseAsked ==
  /\ ndis = "pausing" /\ resetting = "no"
  /\ CurrentState \in {"PAUSED", "RUNNING"} /\ NextState = "PAUSING" /\ UpToTwoTurns
ResetAsked ==
  /\ ndis = "running" /\ resetting = "pending" /\ UpToTwoTurns
  /\ \/ Between("RUNNING", "RESET")
     \/ Between("RESET", "PAUSING") /\ OnResetPreviousState = "RUNNING"

\* and the dispatcher waits for frames on its behalf.
Draining ==
  /\ \/ ndis = "pausing" /\ resetting = "no"
     \/ ndis = "running" /\ resetting = "pending" /\ OnResetPreviousState = "RUNNING"
  /\ \/ Between("PAUSING", "PAUSING") /\ PollTurn
     \/ Between("PAUSING", "PAUSED") /\ OneTurn /\ ~busy

Phases == Paused \/ Halting \/ Starting \/ Running \/ PauseAsked \/ ResetAsked \/ Draining

\* A reset is pending in the driver while NDIS waits for it, never when it pauses or halts.
ResetKnown ==
  /\ opReset <=> resetting # "no"
  /\ ndis # "running" => resetting = "no"

\* The MAC is stopped, and then has no frames, before the miniport is paused.
MacOff ==
  /\ CurrentState \in {"PAUSING", "HALTED"} => ~EnetStarted
  /\ ndis \in {"paused", "halting", "halted"} => ~EnetStarted /\ ~busy

\* The event says that the last turn is over, and the adapter is freed after it.
Ended ==
  /\ haltEvent # "reset" => ndis \in {"halting", "halted"}
  /\ freed => ndis = "halted" /\ haltEvent = "set"

Inv == TypeOK /\ Phases /\ ResetKnown /\ MacOff /\ Ended /\ ~RestartEnetAfterResume

-----------------------------------------------------------------------------
(* The engine that follows the link.                                       *)

\* A turn of the PHY engine keeps the link's variables in their types.
LEMMA EngineTyped == PhyTypeOK /\ MII_StateEngine => PhyTypeOK'
<1>. SUFFICES ASSUME PhyTypeOK, MII_StateEngine PROVE PhyTypeOK'
  OBVIOUS
<1>1. UNCHANGED <<regs, wire>>
  BY DEF MII_StateEngine
<1>2. ASSUME NEW m \in Modes \cup {"keep"}, NEW c \in BOOLEAN, Queue(m, c)
      PROVE  cmd' \in [pending : BOOLEAN, advertise : Modes \cup {"keep"}, config : BOOLEAN]
  BY <1>2 DEF Queue
<1>3. regs.up \in BOOLEAN /\ Renegotiate \in Modes \cup {"keep"}
  BY DEF PhyTypeOK, Renegotiate, Modes
<1>4. CASE cmd.pending
  BY <1>1, <1>4 DEF MII_StateEngine, PhyTypeOK, engine
<1>5. CASE NotInitialized \/ Initialized \/ DefaultConfigRead \/ LinkDown
  <2>1. phyState' \in PhyStates /\ phyLink' = phyLink
    BY <1>5 DEF NotInitialized, Initialized, DefaultConfigRead, LinkDown, Goto, PhyStates
  <2>2. \E m \in Modes \cup {"keep"}, c \in BOOLEAN : Queue(m, c)
    BY <1>3, <1>5 DEF NotInitialized, Initialized, DefaultConfigRead, LinkDown, Modes
  <2>. QED
    BY <1>1, <1>2, <2>1, <2>2 DEF PhyTypeOK
<1>6. CASE LinkDownToUp \/ LinkUp
  <2>1. phyState' \in PhyStates
    BY <1>6 DEF LinkDownToUp, LinkUp, Goto, PhyStates
  <2>2. phyLink' \in LinkStates
    BY <1>6 DEF LinkDownToUp, LinkUp, Selected, PhyTypeOK, LinkStates, Connected
  <2>3. \E m \in Modes \cup {"keep"}, c \in BOOLEAN : Queue(m, c)
    BY <1>3, <1>6 DEF LinkDownToUp, LinkUp, Modes
  <2>. QED
    BY <1>1, <1>2, <2>1, <2>2, <2>3 DEF PhyTypeOK
<1>. QED
  BY <1>4, <1>5, <1>6 DEF MII_StateEngine

\* So do the PHY, its partner and the transfers between.
LEMMA PhyStepTyped == PhyTypeOK /\ (MdioTransfer \/ PartnerChanges \/ Negotiated) => PhyTypeOK'
<1>. SUFFICES ASSUME PhyTypeOK, MdioTransfer \/ PartnerChanges \/ Negotiated PROVE PhyTypeOK'
  OBVIOUS
<1>. USE DEF PhyTypeOK, engine
<1>1. CASE WriteConfig /\ UNCHANGED <<phyState, phyLink>>
  BY <1>1 DEF WriteConfig
<1>2. CASE ReadConfig /\ UNCHANGED <<phyState, phyLink>>
  BY <1>2 DEF ReadConfig
<1>3. CASE ReadStatus /\ UNCHANGED <<phyState, phyLink>>
  BY <1>3 DEF ReadStatus
<1>4. CASE PartnerChanges \/ Negotiated
  BY <1>4 DEF PartnerChanges, Negotiated
<1>. QED
  BY <1>1, <1>2, <1>3, <1>4 DEF MdioTransfer

-----------------------------------------------------------------------------
(* The invariant holds initially and after every step.                     *)

\* A new adapter is paused and has never been started.
LEMMA InitInv == Init => Inv
<1>. SUFFICES ASSUME Init PROVE Inv
  OBVIOUS
<1>1. PhyTypeOK
  BY PartnerAssumption DEF Init, PhyInit, PhyTypeOK, PhyStates, LinkStates, Modes
<1>2. TypeOK
  <2>1. due \in 0 .. MaxDue
    BY DEF Init, MaxDue
  <2>. QED
    BY <1>1, <2>1 DEF Init, TypeOK, States, LinkStates
<1>3. Phases /\ ResetKnown /\ MacOff /\ Ended
  BY DEF Init, Phases, Paused, Between, NoTurn, ResetKnown, MacOff, Ended
<1>. QED
  BY <1>2, <1>3 DEF Init, Inv

\* What all turns of the dispatcher have in common.
LEMMA Turn ==
  ASSUME Inv, NEW s \in States, Enter(s)
  PROVE  /\ PhyTypeOK' /\ due \in {1, 2} /\ due' = due - 1
         /\ NextState = s /\ CurrentState' = s /\ UNCHANGED <<power, RestartEnetAfterResume, freed>>
<1>1. due \in {1, 2} /\ due' = due - 1
  BY DEF Inv, TypeOK, Enter, MaxDue
<1>2. PhyTypeOK'
  <2>1. CASE s = "HALTED"
    BY <2>1 DEF Enter, Inv, TypeOK, PhyTypeOK, phy, engine
  <2>2. CASE s # "HALTED"
    BY <2>2, EngineTyped DEF Enter, Inv, TypeOK
  <2>. QED
    BY <2>1, <2>2
<1>. QED
  BY <1>1, <1>2 DEF Enter, pm

\* While running the link decides about the MAC, and a turn is to come for the next look.
LEMMA RunningInv ==
  ASSUME Inv, MpOnRunningStateHandler
  PROVE  Inv'
<1>1. /\ PhyTypeOK' /\ due = 1 /\ due' = 0 /\ timer = "off"
      /\ NextState = "RUNNING" /\ CurrentState' = "RUNNING"
      /\ UNCHANGED <<power, RestartEnetAfterResume, freed>>
  <2>1. /\ PhyTypeOK' /\ due \in {1, 2} /\ due' = due - 1
        /\ NextState = "RUNNING" /\ CurrentState' = "RUNNING"
        /\ UNCHANGED <<power, RestartEnetAfterResume, freed>>
    BY Turn DEF MpOnRunningStateHandler, States
  <2>2. Starting \/ Running
    BY <2>1 DEF Inv, Phases, Paused, Halting, PauseAsked, ResetAsked, Draining, Between
  <2>. QED
    BY <2>1, <2>2 DEF Starting, Running, OneTurn, RunTurn
<1>2. /\ ndis = "running" /\ resetting \in {"no", "called"} /\ CurrentState \in {"PAUSED", "RUNNING"}
      /\ haltEvent = "reset" /\ freed = FALSE
  BY <1>1 DEF Inv, TypeOK, Phases, Paused, Halting, Starting, Running, PauseAsked, ResetAsked, Draining,
              Between, Ended
<1>3. /\ UNCHANGED <<OnResetPreviousState, opReset, haltEvent, ndis, resetting, busy>>
      /\ ~asserted'
      /\ EnetStarted' \in BOOLEAN /\ link' \in LinkStates /\ told' \in BOOLEAN
      /\ NextState' = "RUNNING" /\ timer' = "later"
  <2>1. EnetStarted' \in BOOLEAN /\ UNCHANGED busy
    BY DEF MpOnRunningStateHandler, EnetStart, EnetStop, KeepMac, mac, Inv, TypeOK
  <2>2. link' \in LinkStates /\ told' \in BOOLEAN
    BY <1>1 DEF MpOnRunningStateHandler, From, PhyTypeOK, Inv, TypeOK
  <2>3. ~asserted'
    BY <1>2 DEF MpOnRunningStateHandler, ExpectFrom, Inv, TypeOK
  <2>. QED
    BY <1>1, <2>1, <2>2, <2>3 DEF MpOnRunningStateHandler, SetByDispatcher
<1>4. TypeOK'
  BY <1>1, <1>3 DEF Inv, TypeOK, States, MaxDue
<1>5. Phases'
  BY <1>1, <1>2, <1>3 DEF Phases, Running, Between, RunTurn
<1>6. ResetKnown' /\ MacOff' /\ Ended'
  BY <1>1, <1>2, <1>3 DEF Inv, ResetKnown, MacOff, Ended
<1>. QED
  BY <1>1, <1>4, <1>5, <1>6 DEF Inv

\* A pause stops the MAC and is over only without frames; until then a turn is to come.
LEMMA PausingInv ==
  ASSUME Inv, MpOnPausingStateHandler
  PROVE  Inv'
<1>1. /\ PhyTypeOK' /\ due \in {1, 2} /\ due' = due - 1
      /\ NextState = "PAUSING" /\ CurrentState' = "PAUSING"
      /\ UNCHANGED <<power, RestartEnetAfterResume, freed>>
  BY Turn DEF MpOnPausingStateHandler, States
<1>2. \/ PauseAsked /\ CurrentState \in {"PAUSED", "RUNNING"} /\ UpToTwoTurns
      \/ ResetAsked /\ CurrentState = "RESET" /\ OnResetPreviousState = "RUNNING" /\ UpToTwoTurns
      \/ /\ Draining /\ CurrentState = "PAUSING" /\ PollTurn
         /\ ~EnetStarted
  BY <1>1 DEF Inv, Phases, Paused, Halting, Starting, Running, PauseAsked, ResetAsked, Draining, Between,
              MacOff
<1>3. /\ \/ ndis = "pausing" /\ resetting = "no"
         \/ ndis = "running" /\ resetting = "pending" /\ OnResetPreviousState = "RUNNING"
      /\ haltEvent = "reset" /\ freed = FALSE
  BY <1>2 DEF PauseAsked, ResetAsked, Draining, Inv, TypeOK, Ended
<1>4. /\ UNCHANGED <<OnResetPreviousState, opReset, haltEvent, ndis, resetting, busy, link, told>>
      /\ ~asserted' /\ EnetStarted' = FALSE
  <2>1. CurrentState \in {"RUNNING", "PAUSED", "RESET", "PAUSING"} /\ CurrentState # "HALTED"
    BY <1>2
  <2>2. ~asserted'
    BY <2>1 DEF MpOnPausingStateHandler, ExpectFrom, Inv, TypeOK
  <2>3. EnetStarted' = FALSE /\ UNCHANGED busy
    BY <1>2, <2>1 DEF MpOnPausingStateHandler, From, KeepMac, EnetStop, mac, Inv, TypeOK
  <2>. QED
    BY <2>2, <2>3 DEF MpOnPausingStateHandler, links
<1>5. \/ NextState' = "PAUSING" /\ timer' = "later" /\ due' \in {0, 1}
      \/ NextState' = "PAUSED" /\ timer' = "now" /\ due' = 0 /\ ~busy
  <2>1. CASE CurrentState = "PAUSING"
    <3>1. due = 1
      BY <1>1, <1>2, <2>1 DEF PauseAsked, PollTurn, RunTurn
    <3>2. SetByDispatcher(NextWhilePausing, IF busy THEN "later" ELSE "now")
      BY <2>1 DEF MpOnPausingStateHandler, From, KeepsWaiting
    <3>3. NextState' = NextWhilePausing /\ timer' = IF busy THEN "later" ELSE "now"
      BY <1>1, <3>2 DEF SetByDispatcher
    <3>. QED
      BY <1>1, <3>1, <3>3 DEF NextWhilePausing
  <2>2. CASE CurrentState # "PAUSING"
    <3>1. SetByDispatcher("PAUSING", "later")
      BY <2>2 DEF MpOnPausingStateHandler, From
    <3>. QED
      BY <1>1, <3>1 DEF SetByDispatcher
  <2>. QED
    BY <2>1, <2>2
<1>6. TypeOK'
  <2>1. due' \in 0 .. MaxDue
    BY <1>1 DEF MaxDue
  <2>. QED
    BY <1>1, <1>4, <1>5, <2>1 DEF Inv, TypeOK, States
<1>7. Phases'
  BY <1>1, <1>3, <1>4, <1>5 DEF Phases, Draining, Between, PollTurn, RunTurn, OneTurn
<1>8. ResetKnown' /\ MacOff' /\ Ended'
  BY <1>1, <1>3, <1>4 DEF Inv, ResetKnown, MacOff, Ended
<1>. QED
  BY <1>1, <1>6, <1>7, <1>8 DEF Inv

\* A pause is over: NDIS is told so, or a reset starts the MAC again and goes on.
LEMMA PausedInv ==
  ASSUME Inv, MpOnPausedStateHandler
  PROVE  Inv'
<1>1. /\ PhyTypeOK' /\ due \in {1, 2} /\ due' = due - 1
      /\ NextState = "PAUSED" /\ CurrentState' = "PAUSED"
      /\ UNCHANGED <<power, RestartEnetAfterResume, freed>>
  BY Turn DEF MpOnPausedStateHandler, States
<1>2. /\ Draining /\ CurrentState = "PAUSING" /\ due = 1 /\ timer = "off" /\ ~busy /\ ~EnetStarted
      /\ haltEvent = "reset" /\ freed = FALSE
  <2>1. Draining /\ Between("PAUSING", "PAUSED") /\ OneTurn /\ ~busy
    BY <1>1 DEF Inv, Phases, Paused, Halting, Starting, Running, PauseAsked, ResetAsked, Draining, Between,
                NoTurn
  <2>. QED
    BY <1>1, <2>1 DEF Draining, Between, OneTurn, Inv, TypeOK, MacOff, Ended
<1>3. ~asserted' /\ UNCHANGED <<OnResetPreviousState, link, told, haltEvent>>
  BY <1>2 DEF MpOnPausedStateHandler, ExpectFrom, Inv, TypeOK, links
<1>4. CASE opReset
  <2>1. ndis = "running" /\ OnResetPreviousState = "RUNNING"
    BY <1>2, <1>4 DEF Draining, Inv, ResetKnown
  <2>2. /\ opReset' = FALSE /\ resetting' = "no" /\ ndis' = ndis
        /\ EnetStarted' = TRUE /\ busy' = busy
        /\ SetByDispatcher(OnResetPreviousState, "now")
    BY <1>2, <1>4, <2>1 DEF MpOnPausedStateHandler, From, EnetStart
  <2>3. NextState' = "RUNNING" /\ timer' = "now" /\ due' = 0
    BY <1>1, <1>2, <2>1, <2>2 DEF SetByDispatcher
  <2>4. TypeOK'
    <3>1. due' \in 0 .. MaxDue
      BY <2>3 DEF MaxDue
    <3>. QED
      BY <1>1, <1>3, <2>2, <2>3, <3>1 DEF Inv, TypeOK, States
  <2>5. Phases'
    BY <1>1, <2>1, <2>2, <2>3 DEF Phases, Starting, Between, OneTurn
  <2>6. ResetKnown' /\ MacOff' /\ Ended'
    BY <1>1, <1>2, <1>3, <2>1, <2>2 DEF ResetKnown, MacOff, Ended
  <2>. QED
    BY <1>1, <2>4, <2>5, <2>6 DEF Inv
<1>5. CASE ~opReset
  <2>1. resetting = "no"
    BY <1>5 DEF Inv, ResetKnown
  <2>2. /\ ndis' = "paused"
        /\ UNCHANGED <<EnetStarted, busy, NextState, timer, opReset, resetting>>
    BY <1>2, <1>5 DEF MpOnPausedStateHandler, From, KeepMac, mac, NotSet
  <2>3. due' = 0
    BY <1>1, <1>2
  <2>4. TypeOK'
    BY <1>1, <1>3, <2>2, <2>3 DEF Inv, TypeOK, States, MaxDue
  <2>5. Phases'
    BY <1>1, <1>2, <2>2, <2>3 DEF Phases, Paused, Between, NoTurn
  <2>6. ResetKnown' /\ MacOff' /\ Ended'
    BY <1>1, <1>2, <1>3, <1>5, <2>1, <2>2 DEF ResetKnown, MacOff, Ended
  <2>. QED
    BY <1>1, <2>4, <2>5, <2>6 DEF Inv
<1>. QED
  BY <1>4, <1>5

\* A reset saves the state it comes from and pauses.
LEMMA ResetInv ==
  ASSUME Inv, MpOnResetStateHandler
  PROVE  Inv'
<1>1. /\ PhyTypeOK' /\ due \in {1, 2} /\ due' = due - 1
      /\ NextState = "RESET" /\ CurrentState' = "RESET"
      /\ UNCHANGED <<power, RestartEnetAfterResume, freed>>
  BY Turn DEF MpOnResetStateHandler, States
<1>2. CurrentState = "RUNNING" /\ ndis = "running" /\ resetting = "pending" /\ UpToTwoTurns
  BY <1>1 DEF Inv, Phases, Paused, Halting, Starting, Running, PauseAsked, ResetAsked, Draining, Between
<1>3. /\ OnResetPreviousState' = "RUNNING" /\ NextState' = "PAUSING" /\ timer' = "now"
      /\ ~asserted'
      /\ UNCHANGED <<EnetStarted, busy, link, told, opReset, haltEvent, ndis, resetting>>
  BY <1>1, <1>2 DEF MpOnResetStateHandler, ResetSaved, SetByDispatcher, KeepMac, mac, links, ExpectFrom,
                    States, Inv, TypeOK
<1>4. TypeOK'
  BY <1>1, <1>3 DEF Inv, TypeOK, States, MaxDue
<1>5. Phases'
  BY <1>1, <1>2, <1>3 DEF Phases, ResetAsked, Between, UpToTwoTurns
<1>6. ResetKnown' /\ MacOff' /\ Ended'
  BY <1>1, <1>2, <1>3 DEF Inv, ResetKnown, MacOff, Ended
<1>. QED
  BY <1>1, <1>4, <1>5, <1>6 DEF Inv

\* The MAC is stopped for good, and only then the waiting halt is told.
LEMMA HaltedInv ==
  ASSUME Inv, MpOnHaltedStateHandler \/ SetHaltedEvent
  PROVE  Inv'
<1>1. CASE MpOnHaltedStateHandler
  <2>1. /\ PhyTypeOK' /\ due \in {1, 2} /\ due' = due - 1
        /\ NextState = "HALTED" /\ CurrentState' = "HALTED"
        /\ UNCHANGED <<power, RestartEnetAfterResume, freed>>
    BY <1>1, Turn DEF MpOnHaltedStateHandler, States
  <2>2. /\ ndis \in {"halting", "halted"} /\ CurrentState = "PAUSED" /\ timer = "off" /\ due = 1
        /\ haltEvent = "reset" /\ freed = FALSE
    <3>1. Halting /\ Between("PAUSED", "HALTED") /\ OneTurn /\ haltEvent = "reset"
      BY <2>1 DEF Inv, Phases, Paused, Halting, Starting, Running, PauseAsked, ResetAsked, Draining,
                  Between, NoTurn
    <3>. QED
      BY <2>1, <3>1 DEF Halting, Between, OneTurn, Inv, TypeOK, Ended
  <2>3. /\ ~asserted' /\ EnetStarted' = FALSE /\ haltEvent' = "due"
        /\ UNCHANGED <<OnResetPreviousState, NextState, timer, busy, link, told, opReset, ndis, resetting>>
    BY <1>1, <2>2 DEF MpOnHaltedStateHandler, ExpectFrom, From, EnetStop, NotSet, links, Inv, TypeOK
  <2>4. TypeOK'
    <3>1. due' \in 0 .. MaxDue
      BY <2>1 DEF MaxDue
    <3>. QED
      BY <2>1, <2>3, <3>1 DEF Inv, TypeOK, States
  <2>5. Phases'
    BY <2>1, <2>2, <2>3 DEF Phases, Halting, Between, NoTurn
  <2>6. ResetKnown' /\ MacOff' /\ Ended'
    BY <2>1, <2>2, <2>3 DEF Inv, ResetKnown, MacOff, Ended
  <2>. QED
    BY <2>1, <2>4, <2>5, <2>6 DEF Inv
<1>2. CASE SetHaltedEvent
  BY <1>2 DEF SetHaltedEvent, states, clock, device, mac, links, pm, phy, engine, Inv, TypeOK, PhyTypeOK,
     Phases, Paused, Halting, Starting, Running, PauseAsked, ResetAsked, Draining, Between,
     NoTurn, OneTurn, RunTurn, PollTurn, UpToTwoTurns, ResetKnown, MacOff, Ended
<1>. QED
  BY <1>1, <1>2

-----------------------------------------------------------------------------
\* The timer expires: a turn that was armed has become due.
LEMMA TimerInv ==
  ASSUME Inv, TimerExpires
  PROVE  Inv'
<1>1. /\ (timer = "now" /\ due \in {0, 1}) \/ (timer = "later" /\ due = 0)
      /\ timer' = "off" /\ due' = due + 1
      /\ UNCHANGED <<CurrentState, NextState, OnResetPreviousState, asserted, EnetStarted, busy, link,
                     told, power, RestartEnetAfterResume, phy, opReset, haltEvent, freed, ndis, resetting>>
  BY DEF TimerExpires, states, device, mac, links, pm, halt, MaxDue, Inv, TypeOK
<1>2. PhyTypeOK'
  BY <1>1 DEF Inv, TypeOK, PhyTypeOK, phy, engine
<1>3. TypeOK'
  <2>1. due' \in 0 .. MaxDue
    BY <1>1 DEF MaxDue
  <2>. QED
    BY <1>1, <1>2, <2>1 DEF Inv, TypeOK
<1>4. Phases'
  BY <1>1 DEF Inv, Phases, Paused, Halting, Starting, Running, PauseAsked, ResetAsked, Draining,
              Between, NoTurn, OneTurn, RunTurn, PollTurn, UpToTwoTurns
<1>5. ResetKnown' /\ MacOff' /\ Ended'
  BY <1>1 DEF Inv, ResetKnown, MacOff, Ended
<1>. QED
  BY <1>1, <1>3, <1>4, <1>5 DEF Inv

\* NDIS's requests that arm the timer.
LEMMA RequestInv ==
  ASSUME ~Concurrent, Inv, MpRestart \/ MpPause \/ RequestReset \/ MpHaltEx
  PROVE  Inv'
<1>1. PICK s \in States : SetByNdis(s)
  BY DEF MpRestart, MpPause, RequestReset, MpHaltEx, States
<1>2. /\ NextState' = s /\ timer' = "now"
      /\ UNCHANGED <<CurrentState, OnResetPreviousState, due, asserted, EnetStarted, busy, link, told,
                     power, RestartEnetAfterResume, phy, opReset, freed>>
  BY <1>1 DEF SetByNdis, MpRestart, MpPause, RequestReset, MpHaltEx, device, mac, links, pm, halt
<1>3. PhyTypeOK'
  BY <1>2 DEF Inv, TypeOK, PhyTypeOK, phy, engine
<1>4. TypeOK'
  <2>1. /\ haltEvent' \in {"reset", "due", "set"}
        /\ ndis' \in {"paused", "running", "pausing", "halting", "halted"}
        /\ resetting' \in {"no", "called", "pending"}
    BY DEF Inv, TypeOK, MpRestart, MpPause, RequestReset, MpHaltEx, halt
  <2>. QED
    BY <1>2, <1>3, <2>1 DEF Inv, TypeOK
<1>5. CASE MpRestart
  <2>1. /\ ndis = "paused" /\ resetting = "no" /\ ndis' = "running" /\ NextState' = "RUNNING"
        /\ UNCHANGED <<haltEvent, resetting>>
    BY <1>5 DEF MpRestart, Calm, SetByNdis, halt
  <2>2. Between("PAUSED", "PAUSED") /\ NoTurn
    BY <2>1 DEF Inv, Phases, Paused, Halting, Starting, Running, PauseAsked, ResetAsked, Draining
  <2>3. Phases'
    BY <1>2, <2>1, <2>2 DEF Phases, Starting, Between, NoTurn, OneTurn
  <2>4. ResetKnown' /\ MacOff' /\ Ended'
    BY <1>2, <2>1, <2>2 DEF Inv, ResetKnown, MacOff, Ended, Between
  <2>. QED
    BY <1>2, <1>4, <2>3, <2>4 DEF Inv
<1>6. CASE MpPause
  <2>1. /\ ndis = "running" /\ resetting = "no" /\ ndis' = "pausing" /\ NextState' = "PAUSING"
        /\ UNCHANGED <<haltEvent, resetting>>
    BY <1>6 DEF MpPause, Calm, SetByNdis, halt
  <2>2. CurrentState \in {"PAUSED", "RUNNING"} /\ due \in {0, 1}
    BY <2>1 DEF Inv, Phases, Paused, Halting, Starting, Running, PauseAsked, ResetAsked, Draining,
                Between, OneTurn, RunTurn
  <2>3. Phases'
    BY <1>2, <2>1, <2>2 DEF Phases, PauseAsked, UpToTwoTurns
  <2>4. ResetKnown' /\ MacOff' /\ Ended'
    BY <1>2, <2>1, <2>2 DEF Inv, ResetKnown, MacOff, Ended
  <2>. QED
    BY <1>2, <1>4, <2>3, <2>4 DEF Inv
<1>7. CASE RequestReset
  <2>1. /\ resetting = "called" /\ resetting' = "pending" /\ NextState' = "RESET"
        /\ UNCHANGED <<haltEvent, ndis>>
    BY <1>7 DEF RequestReset, SetByNdis, halt
  <2>2. ndis = "running" /\ CurrentState = "RUNNING" /\ due \in {0, 1}
    BY <2>1 DEF Inv, Phases, Paused, Halting, Starting, Running, PauseAsked, ResetAsked, Draining,
                Between, RunTurn, ResetKnown
  <2>3. Phases'
    BY <1>2, <2>1, <2>2 DEF Phases, ResetAsked, Between, UpToTwoTurns
  <2>4. ResetKnown' /\ MacOff' /\ Ended'
    BY <1>2, <2>1, <2>2 DEF Inv, ResetKnown, MacOff, Ended
  <2>. QED
    BY <1>2, <1>4, <2>3, <2>4 DEF Inv
<1>8. CASE MpHaltEx
  <2>1. /\ ndis = "paused" /\ resetting = "no" /\ ndis' = "halting" /\ NextState' = "HALTED"
        /\ haltEvent' = "reset" /\ UNCHANGED resetting
    BY <1>8 DEF MpHaltEx, SetByNdis
  <2>2. Between("PAUSED", "PAUSED") /\ NoTurn
    BY <2>1 DEF Inv, Phases, Paused, Halting, Starting, Running, PauseAsked, ResetAsked, Draining
  <2>3. Phases'
    BY <1>2, <2>1, <2>2 DEF Phases, Halting, Between, NoTurn, OneTurn
  <2>4. ResetKnown' /\ MacOff' /\ Ended'
    BY <1>2, <2>1, <2>2 DEF Inv, ResetKnown, MacOff, Ended, Between
  <2>. QED
    BY <1>2, <1>4, <2>3, <2>4 DEF Inv
<1>. QED
  BY <1>5, <1>6, <1>7, <1>8

\* Steps that leave the state machine and its timer alone.
LEMMA OtherInv ==
  ASSUME ~Concurrent, Inv,
         MpResetEx \/ HaltWaitEnds \/ MpSetPower \/ PhyStep \/ Traffic \/ Drain
  PROVE  Inv'
<1>1. UNCHANGED <<CurrentState, NextState, OnResetPreviousState, timer, due, asserted, haltEvent>>
  BY DEF MpResetEx, HaltWaitEnds, MpSetPower, PhyStep, Traffic, Drain, states, clock, device, halt, sm
<1>2. PhyTypeOK'
  <2>1. CASE PhyStep
    BY <2>1, PhyStepTyped DEF PhyStep, Inv, TypeOK
  <2>2. CASE MpResetEx \/ HaltWaitEnds \/ MpSetPower \/ Traffic \/ Drain
    <3>1. UNCHANGED phy
      BY <2>2 DEF MpResetEx, HaltWaitEnds, MpSetPower, Traffic, Drain, device
    <3>. QED
      BY <3>1 DEF Inv, TypeOK, PhyTypeOK, phy, engine
  <2>. QED
    BY <2>1, <2>2
<1>3. CASE MpResetEx
  <2>1. /\ UNCHANGED <<EnetStarted, busy, link, told, power, RestartEnetAfterResume, freed, ndis>>
        /\ resetting = "no" /\ ndis = "running" /\ CurrentState = "RUNNING"
        /\ opReset' = TRUE /\ resetting' = "called"
    BY <1>3 DEF MpResetEx, device, mac, links, pm, halt, Inv, ResetKnown
  <2>2. TypeOK'
    BY <1>1, <1>2, <2>1 DEF Inv, TypeOK
  <2>3. Phases'
    BY <1>1, <2>1 DEF Inv, Phases, Paused, Halting, Starting, Running, PauseAsked, ResetAsked, Draining,
                      Between, RunTurn
  <2>4. ResetKnown' /\ MacOff' /\ Ended'
    BY <1>1, <2>1 DEF Inv, ResetKnown, MacOff, Ended
  <2>. QED
    BY <2>1, <2>2, <2>3, <2>4 DEF Inv
<1>4. CASE HaltWaitEnds
  <2>1. /\ UNCHANGED <<EnetStarted, busy, link, told, power, RestartEnetAfterResume, opReset, resetting>>
        /\ ndis = "halting" /\ ndis' = "halted" /\ freed' = (haltEvent = "set")
    BY <1>4 DEF HaltWaitEnds, MayFree, device, mac, links, pm
  <2>2. TypeOK'
    BY <1>1, <1>2, <2>1 DEF Inv, TypeOK
  <2>3. Phases'
    BY <1>1, <2>1 DEF Inv, Phases, Paused, Halting, Starting, Running, PauseAsked, ResetAsked, Draining,
                      Between, OneTurn, NoTurn
  <2>4. ResetKnown' /\ MacOff' /\ Ended'
    BY <1>1, <2>1 DEF Inv, ResetKnown, MacOff, Ended
  <2>. QED
    BY <2>1, <2>2, <2>3, <2>4 DEF Inv
<1>5. CASE MpSetPower
  <2>1. /\ ndis = "paused" /\ ~EnetStarted /\ ~RestartEnetAfterResume
        /\ RestartEnetAfterResume' = FALSE
        /\ UNCHANGED <<EnetStarted, busy, opReset, freed, ndis, resetting>>
        /\ link' \in LinkStates /\ told' \in BOOLEAN /\ power' \in {"D0", "D3"}
    BY <1>5 DEF MpSetPower, EnetStop, EnetStart, KeepMac, mac, links, halt, Inv, TypeOK, MacOff, LinkStates
  <2>2. TypeOK'
    BY <1>1, <1>2, <2>1 DEF Inv, TypeOK
  <2>3. Phases'
    BY <1>1, <2>1 DEF Inv, Phases, Paused, Halting, Starting, Running, PauseAsked, ResetAsked, Draining,
                      Between, NoTurn
  <2>4. ResetKnown' /\ MacOff' /\ Ended'
    BY <1>1, <2>1 DEF Inv, ResetKnown, MacOff, Ended
  <2>. QED
    BY <2>1, <2>2, <2>3, <2>4 DEF Inv
<1>6. CASE PhyStep \/ Traffic \/ Drain
  <2>1. /\ UNCHANGED <<EnetStarted, link, told, power, RestartEnetAfterResume, opReset, freed, ndis,
                       resetting>>
        /\ busy' = busy \/ (busy' = TRUE /\ EnetStarted) \/ busy' = FALSE
    BY <1>6 DEF PhyStep, Traffic, Drain, sm, mac, links, pm, halt
  <2>2. TypeOK'
    BY <1>1, <1>2, <2>1 DEF Inv, TypeOK
  <2>3. Phases'
    BY <1>1, <2>1 DEF Inv, MacOff, Phases, Paused, Halting, Starting, Running, PauseAsked, ResetAsked,
                      Draining, Between, NoTurn, OneTurn, RunTurn, PollTurn, UpToTwoTurns
  <2>4. ResetKnown' /\ MacOff' /\ Ended'
    BY <1>1, <2>1 DEF Inv, ResetKnown, MacOff, Ended
  <2>. QED
    BY <2>1, <2>2, <2>3, <2>4 DEF Inv
<1>. QED
  BY <1>3, <1>4, <1>5, <1>6

\* The invariant is inductive as long as NDIS waits for a reset.
LEMMA NextInv == ~Concurrent /\ Inv /\ [Next]_vars => Inv'
<1>. SUFFICES ASSUME ~Concurrent, Inv, [Next]_vars PROVE Inv'
  OBVIOUS
<1>1. CASE UNCHANGED vars
  BY <1>1 DEF vars, sm, states, clock, mac, links, pm, halt, phy, engine, Inv, TypeOK, PhyTypeOK,
     Phases, Paused, Halting, Starting, Running, PauseAsked, ResetAsked, Draining, Between,
     NoTurn, OneTurn, RunTurn, PollTurn, UpToTwoTurns, ResetKnown, MacOff, Ended
<1>2. CASE TimerExpires \/ MpSmDispatcher \/ SetHaltedEvent
  BY <1>2, TimerInv, RunningInv, PausingInv, PausedInv, ResetInv, HaltedInv DEF MpSmDispatcher
<1>3. CASE MpRestart \/ MpPause \/ RequestReset \/ MpHaltEx
  BY <1>3, RequestInv
<1>4. CASE MpResetEx \/ HaltWaitEnds \/ MpSetPower \/ PhyStep \/ Traffic \/ Drain
  BY <1>4, OtherInv
<1>. QED
  BY <1>1, <1>2, <1>3, <1>4 DEF Next

-----------------------------------------------------------------------------
(* The theorems.                                                           *)

\* The invariant holds in every behaviour in which NDIS's requests do not overlap.
THEOREM Invariance ==
  ASSUME ~Concurrent PROVE Spec => []Inv
<1>1. Init => Inv
  BY InitInv
<1>2. Inv /\ [Next]_vars => Inv'
  BY NextInv
<1>. QED
  BY <1>1, <1>2, PTL DEF Spec

\* Every handler is entered from a state it expects, so that no ASSERT(0) is reached, and
\* every variable has its type (mp_sm.c, the default cases of the handlers' switches).
THEOREM TypeCorrect ==
  ASSUME ~Concurrent PROVE Spec => []TypeOK
<1>1. Inv => TypeOK
  BY DEF Inv
<1>2. Spec => []Inv
  BY Invariance
<1>. QED
  BY <1>1, <1>2, PTL

\* While NDIS takes the miniport for paused the MAC is stopped and neither side holds a
\* frame of the other; when the adapter block is freed no timer or DPC can use it any more
\* (MpOnPausedStateHandler, MpHaltEx).
THEOREM QuietWhenPaused ==
  ASSUME ~Concurrent PROVE Spec => []Quiet
<1>1. Inv => Quiet
  BY DEF Inv, Quiet, MacOff, Ended, Phases, Paused, Halting, Starting, Running, PauseAsked, ResetAsked,
         Draining, NoTurn
<1>2. Spec => []Inv
  BY Invariance
<1>. QED
  BY <1>1, <1>2, PTL
=============================================================================
