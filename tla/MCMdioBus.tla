----------------------------- MODULE MCMdioBus -----------------------------
(***************************************************************************)
(* Instances of MdioBus: two adapters on one MDIO controller, with the     *)
(* same PHY address or with different ones; d1 and d2 are model values.    *)
(***************************************************************************)
EXTENDS MdioBus

CONSTANTS d1, d2
MCDevices == {d1, d2}
=============================================================================
