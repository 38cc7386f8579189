------------------------------ MODULE MCEnetSm ------------------------------
(***************************************************************************)
(* Instances of EnetSm; the cfg files give its constant a value.           *)
(***************************************************************************)
EXTENDS EnetSm
=============================================================================
