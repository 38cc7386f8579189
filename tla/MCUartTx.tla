------------------------------ MODULE MCUartTx ------------------------------
(***************************************************************************)
(* Small instances of UartTx; the cfg files give every constant its value. *)
(***************************************************************************)
EXTENDS UartTx
=============================================================================
