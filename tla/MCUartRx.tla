------------------------------ MODULE MCUartRx ------------------------------
(***************************************************************************)
(* Small instances of UartRx; the cfg files give every constant its value. *)
(***************************************************************************)
EXTENDS UartRx
=============================================================================
