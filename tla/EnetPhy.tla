------------------------------ MODULE EnetPhy ------------------------------
(***************************************************************************)
(* The link of the ENET NDIS miniport: MII_StateEngine (mp_enet_phy.c) and *)
(* the PHY whose registers it reads and writes.                            *)
(*                                                                         *)
(* The state machine's dispatcher (module EnetSm) calls the engine on each *)
(* of its turns.  As long as the commands it queued last are pending, the  *)
(* engine does nothing; else it goes by the registers as last read, and    *)
(* queues the next commands, which the MDIO bus (module MdioBus) carries   *)
(* out in their order.                                                     *)
(*                                                                         *)
(* The PHY has auto-negotiation and 1000BASE-T, which the adapter's        *)
(* configuration does not disable.  Of link properties there remain 1000   *)
(* Mbs, "fast", everything below, "slow", and the partner's pause frames.  *)
(***************************************************************************)
CONSTANT Partners   \* what may be at the other end of the cable

\* "none": no cable, or no partner.
FastPartners == {"fast", "fastNoPause"}
ASSUME PartnerAssumption == Partners \subseteq {"none", "slow"} \cup FastPartners

\* What the PHY may be told to advertise: all, or all but 1000 Mbs.
Modes == {"all", "no1000"}
\* MP_PHY_DEVICE_STATE.
PhyStates == {"NOT_INITIALIZED", "INITIALIZED", "DEFAULT_CFG_RAED",
              "LINK_UP", "LINK_DOWN_TO_UP", "LINK_DOWN"}
Connected == {"slow", "fast"}
\* "unknown" is what a zeroed IMX_MII_LINK_STATE_t says.
LinkStates == Connected \cup {"unknown", "down"}

VARIABLES
  phyState,   \* PHYDev_CurrentState
  phyLink,    \* PHYDev_LinkState
  cmd,        \* the queued commands: MDIODev_CmdPending, what is still to be
              \* advertised, or "keep", and whether the configuration is read too
  regs,       \* PHYDev_MIIRegs: S.LINK_STATUS, and what both sides advertise
  wire        \* the PHY and its partner: what it advertises, whether the link is
              \* up, and whether it was lost since S was read

engine == <<phyState, phyLink, cmd>>
phy    == <<engine, regs, wire>>

\* A slip, as those of EnetSm: 1000 Mbs is enabled again for any partner that has it.
RenegotiateSlip ==
  IF regs.advertised = "all"
  THEN IF regs.partner = "fastNoPause" THEN "no1000" ELSE "keep"
  ELSE IF regs.partner \in FastPartners THEN "all" ELSE "keep"

-----------------------------------------------------------------------------
\* The adapter block is zeroed; the boot loader has used the PHY, and left it with a
\* configuration and a link of its own.
PhyInit ==
  /\ phyState = "NOT_INITIALIZED" /\ phyLink = "unknown"
  /\ cmd = [pending |-> FALSE, advertise |-> "keep", config |-> FALSE]
  /\ regs = [up |-> FALSE, advertised |-> "all", partner |-> "none"]
  /\ wire \in [partner : Partners, advertised : Modes, up : BOOLEAN, lost : {FALSE}]
  /\ wire.up => wire.partner # "none"

\* MII_GetSelectedLinkProperties, of what both sides advertise.
Selected(advertised, partner) ==
  IF partner = "none" THEN "down"
  ELSE IF advertised = "all" /\ partner \in FastPartners THEN "fast" ELSE "slow"

\* MII_SetLinkPropertiesCmd unless m is "keep", and the command that reads S, with
\* or without the configuration.
Queue(m, config) == cmd' = [pending |-> TRUE, advertise |-> m, config |-> config]
Goto(from, to)   == phyState = from /\ phyState' = to

-----------------------------------------------------------------------------
(* MII_StateEngine, one alternative for each case of its switch.           *)
NotInitialized ==
  /\ Goto("NOT_INITIALIZED", "INITIALIZED")
  /\ Queue("keep", FALSE) /\ UNCHANGED phyLink

Initialized ==
  /\ Goto("INITIALIZED", IF regs.up THEN "DEFAULT_CFG_RAED" ELSE "LINK_DOWN")
  /\ Queue(IF regs.up THEN "keep" ELSE "all", regs.up) /\ UNCHANGED phyLink

\* A link as wanted, from before the driver was loaded, is left alone.
DefaultConfigRead ==
  LET asWanted == regs.up /\ regs.advertised = "all"
  IN  /\ Goto("DEFAULT_CFG_RAED", IF asWanted THEN "LINK_DOWN_TO_UP" ELSE "LINK_DOWN")
      /\ Queue(IF asWanted THEN "keep" ELSE "all", FALSE) /\ UNCHANGED phyLink

LinkDown ==
  /\ Goto("LINK_DOWN", IF regs.up THEN "LINK_DOWN_TO_UP" ELSE "LINK_DOWN")
  /\ Queue("keep", regs.up) /\ UNCHANGED phyLink

\* 1000 Mbs needs a partner that understands pause frames: it is disabled when it was
\* selected without, and enabled again for a partner with both.
Renegotiate ==
  IF Selected(regs.advertised, regs.partner) = "fast"
  THEN IF regs.partner = "fastNoPause" THEN "no1000" ELSE "keep"
  ELSE IF regs.partner = "fast" THEN "all" ELSE "keep"

LinkDownToUp ==
  LET accepted == regs.up /\ Renegotiate = "keep"
  IN  /\ Goto("LINK_DOWN_TO_UP", IF accepted THEN "LINK_UP" ELSE "LINK_DOWN")
      /\ phyLink' = IF accepted THEN Selected(regs.advertised, regs.partner) ELSE phyLink
      /\ Queue(IF regs.up THEN Renegotiate ELSE "keep", FALSE)

LinkUp ==
  /\ Goto("LINK_UP", IF regs.up THEN "LINK_UP" ELSE "LINK_DOWN")
  /\ phyLink' = IF regs.up THEN phyLink ELSE "down"
  /\ Queue("keep", FALSE)

MII_StateEngine ==
  /\ IF cmd.pending THEN UNCHANGED engine
     ELSE \/ NotInitialized \/ Initialized \/ DefaultConfigRead
          \/ LinkDown \/ LinkDownToUp \/ LinkUp
  /\ UNCHANGED <<regs, wire>>

-----------------------------------------------------------------------------
(* The MDIO bus carries out the commands (external).  Writing C restarts   *)
(* the auto-negotiation.  S is read last: its LINK_STATUS stays low, once  *)
(* the link was lost, until it is read.                                    *)
WriteConfig ==
  /\ cmd.pending /\ cmd.advertise # "keep"
  /\ wire' = [wire EXCEPT !.advertised = cmd.advertise, !.up = FALSE, !.lost = TRUE]
  /\ cmd' = [cmd EXCEPT !.advertise = "keep"]
  /\ UNCHANGED regs

\* A partner is known when the auto-negotiation is complete.
ReadConfig ==
  /\ cmd.pending /\ cmd.advertise = "keep" /\ cmd.config
  /\ regs' = [regs EXCEPT !.advertised = wire.advertised,
                          !.partner = IF wire.up THEN wire.partner ELSE "none"]
  /\ cmd' = [cmd EXCEPT !.config = FALSE]
  /\ UNCHANGED wire

\* PHYCmd_CmdDone_Callback.
ReadStatus ==
  /\ cmd.pending /\ cmd.advertise = "keep" /\ ~cmd.config
  /\ regs' = [regs EXCEPT !.up = wire.up /\ ~wire.lost]
  /\ wire' = [wire EXCEPT !.lost = FALSE]
  /\ cmd' = [cmd EXCEPT !.pending = FALSE]

MdioTransfer ==
  /\ WriteConfig \/ ReadConfig \/ ReadStatus
  /\ UNCHANGED <<phyState, phyLink>>

\* The cable is pulled, or plugged in at another partner; PHY and partner agree.
PartnerChanges ==
  /\ \E p \in Partners \ {wire.partner} :
       wire' = [wire EXCEPT !.partner = p, !.up = FALSE, !.lost = TRUE]
  /\ UNCHANGED <<engine, regs>>

Negotiated ==
  /\ wire.partner # "none" /\ ~wire.up
  /\ wire' = [wire EXCEPT !.up = TRUE]
  /\ UNCHANGED <<engine, regs>>

-----------------------------------------------------------------------------
PhyTypeOK ==
  /\ phyState \in PhyStates /\ phyLink \in LinkStates
  /\ cmd \in [pending : BOOLEAN, advertise : Modes \cup {"keep"}, config : BOOLEAN]
  /\ regs \in [up : BOOLEAN, advertised : Modes, partner : Partners \cup {"none"}]
  /\ wire \in [partner : Partners \cup {"none"}, advertised : Modes,
               up : BOOLEAN, lost : BOOLEAN]
=============================================================================
