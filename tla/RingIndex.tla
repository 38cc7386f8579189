------------------------------ MODULE RingIndex -----------------------------
(***************************************************************************)
(* Slots of the ENET DMA descriptor rings, and the order of what is taken  *)
(* out of them; shared by the transmit and the receive path.               *)
(***************************************************************************)
EXTENDS Integers, FiniteSets

CONSTANT ItemCount   \* Tx_DmaBDT_ItemCount, or Rx_DmaBDT_ItemCount

ASSUME RingAssumption == ItemCount \in Nat \ {0}

Ring == 0 .. ItemCount - 1

\* "if (++Idx == ItemCount) Idx = 0", any number of steps up to a whole lap.
Wrap(i) == IF i >= ItemCount THEN i - ItemCount ELSE i

\* How many steps forward from slot i to slot j.
Ahead(i, j) == IF j >= i THEN j - i ELSE j - i + ItemCount

\* The one way to go through a finite set of numbers in increasing order.
InOrder(K) ==
  {f \in [1 .. Cardinality(K) -> K] : \A i, j \in DOMAIN f : i < j => f[i] < f[j]}
=============================================================================
