------------------------------ MODULE MCEnetRx ------------------------------
(***************************************************************************)
(* Small instances of EnetRx; the cfg files give every constant its value. *)
(***************************************************************************)
EXTENDS EnetRx
=============================================================================
