----------------------------- MODULE MCUartRxDma ----------------------------
(***************************************************************************)
(* Small instances of UartRxDma; the cfg files give every constant its     *)
(* value.                                                                  *)
(***************************************************************************)
EXTENDS UartRxDma
=============================================================================
