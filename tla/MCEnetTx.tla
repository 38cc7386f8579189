------------------------------ MODULE MCEnetTx ------------------------------
(***************************************************************************)
(* Small instances of EnetTx: three NBLs, sent by a call with a chain of   *)
(* two NBLs and a concurrent call with one.                                *)
(***************************************************************************)
EXTENDS EnetTx

CONSTANTS l1, l2, l3

MCNBLs == {l1, l2, l3}
MCCalls == {<<l1, l2>>, <<l3>>}
OneNB == [l \in MCNBLs |-> 1]
TwoNBs == [l \in MCNBLs |-> IF l = l2 THEN 2 ELSE 1]

=============================================================================
