------------------------------- MODULE MCEcspi ------------------------------
(***************************************************************************)
(* Small instances of Ecspi; the cfg files give every constant its value.  *)
(***************************************************************************)
EXTENDS Ecspi

=============================================================================
