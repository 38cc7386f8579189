---------------------------- MODULE EnetRxProofs ----------------------------
(***************************************************************************)
(* The receive path, for every size of the ring, low-water mark, set of    *)
(* throttles and number of starts: each frame has one owner, the ring is   *)
(* in order while the MAC runs, and a completed pause leaves no frame with *)
(* NDIS or the DPC.  The theorems assume ~Undrained: with a second start   *)
(* that no pause drained, MpRxInit takes frames back that NDIS reads.      *)
(***************************************************************************)
EXTENDS EnetRx, SequenceTheorems, FiniteSetTheorems, TLAPS

-----------------------------------------------------------------------------
(* The ring of descriptors (RingIndex). *)

\* A step of at most one lap from a slot ends in a slot ("if (++Idx == ItemCount)").
LEMMA WrapInRing ==
  ASSUME NEW i \in Ring, NEW n \in 0 .. ItemCount
  PROVE  Wrap(i + n) \in Ring
  BY RingAssumption DEF Ring, Wrap

\* The distance between two slots is less than a lap, and leads to the second one.
LEMMA AheadInRing ==
  ASSUME NEW i \in Ring, NEW j \in Ring
  PROVE  Ahead(i, j) \in Ring /\ Wrap(i + Ahead(i, j)) = j
  BY RingAssumption DEF Ring, Ahead, Wrap

\* Slots at different distances from a slot are different, and the distance is found.
LEMMA AheadOfWrap ==
  ASSUME NEW i \in Ring, NEW d \in Ring
  PROVE  Ahead(i, Wrap(i + d)) = d
  BY RingAssumption DEF Ring, Ahead, Wrap

\* Two walks of a lap at most in all are one.
LEMMA WrapTwice ==
  ASSUME NEW i \in Ring, NEW m \in 0 .. ItemCount, NEW n \in 0 .. ItemCount, m + n <= ItemCount
  PROVE  Wrap(Wrap(i + m) + n) = Wrap(i + (m + n))
  BY RingAssumption DEF Ring, Wrap

\* The distance to a slot from a slot further on.
LEMMA AheadFromWrap ==
  ASSUME NEW i \in Ring, NEW j \in Ring, NEW m \in 0 .. ItemCount
  PROVE  Ahead(Wrap(i + m), j) = IF Ahead(i, j) >= m THEN Ahead(i, j) - m
                                 ELSE Ahead(i, j) - m + ItemCount
  BY RingAssumption DEF Ring, Ahead, Wrap

\* The n slots after c others.
LEMMA AheadFurther ==
  ASSUME NEW i \in Ring, NEW j \in Ring, NEW c \in 0 .. ItemCount, NEW n \in Nat,
         c + n <= ItemCount
  PROVE  /\ Ahead(Wrap(i + c), j) < n <=> c <= Ahead(i, j) /\ Ahead(i, j) < c + n
         /\ c <= Ahead(i, j) /\ Ahead(i, j) < c + n => Ahead(Wrap(i + c), j) = Ahead(i, j) - c
<1>. DEFINE a == Ahead(i, j)
            b == Ahead(Wrap(i + c), j)
<1>1. b = IF a >= c THEN a - c ELSE a - c + ItemCount
  BY AheadFromWrap
<1>2. a \in Ring
  BY AheadInRing
<1>3. a \in Nat /\ a < ItemCount /\ ItemCount \in Nat /\ c \in Nat
  BY <1>2, RingAssumption DEF Ring
<1>. HIDE DEF a, b
<1>4. (b < n <=> c <= a /\ a < c + n) /\ (c <= a /\ a < c + n => b = a - c)
  BY <1>1, <1>3
<1>. QED
  BY <1>4 DEF a, b

\* Going through a set of positions in order gives a finite sequence of positions.
LEMMA InOrderType ==
  ASSUME NEW n \in Nat, NEW K \in SUBSET (0 .. n), NEW f \in InOrder(K)
  PROVE  Cardinality(K) \in Nat /\ f \in [1 .. Cardinality(K) -> K]
<1>1. IsFiniteSet(0 .. n)
  BY FS_Interval
<1>2. IsFiniteSet(K)
  BY <1>1, FS_Subset
<1>3. Cardinality(K) \in Nat
  BY <1>2, FS_CardinalityType
<1>. QED
  BY <1>3 DEF InOrder

-----------------------------------------------------------------------------
(* Lists in which nothing is repeated: the driver's queues of frames. *)

\* A list has its elements at 1 to its length.
LEMMA ListType ==
  ASSUME NEW B, NEW s \in Seq(B)
  PROVE  /\ Len(s) \in Nat /\ DOMAIN s = 1 .. Len(s)
         /\ \A i \in 1 .. Len(s) : s[i] \in B
  OBVIOUS

\* A list of different things is as long as the set of them is large.
LEMMA ListCardinality ==
  ASSUME NEW B, NEW s \in Seq(B), IsInjective(s)
  PROVE  IsFiniteSet(Range(s)) /\ Cardinality(Range(s)) = Len(s)
<1>1. Len(s) \in Nat /\ DOMAIN s = 1 .. Len(s)
  BY ListType
<1>2. s \in [1 .. Len(s) -> Range(s)]
  <2>1. s = [i \in 1 .. Len(s) |-> s[i]]
    BY <1>1
  <2>. QED
    BY <1>1, <2>1 DEF Range
<1>3. s \in Bijection(1 .. Len(s), Range(s))
  BY <1>1, <1>2 DEF Bijection, Injection, Surjection, Range
<1>4. ExistsBijection(1 .. Len(s), Range(s))
  BY <1>3 DEF ExistsBijection
<1>5. IsFiniteSet(1 .. Len(s)) /\ Cardinality(1 .. Len(s)) = Len(s)
  BY <1>1, FS_Interval
<1>. QED
  BY <1>4, <1>5, FS_Bijection

\* Two lists with nothing in common, one after the other.
LEMMA JoinLists ==
  ASSUME NEW B, NEW s \in Seq(B), NEW t \in Seq(B), IsInjective(s), IsInjective(t),
         Range(s) \cap Range(t) = {}
  PROVE  /\ s \o t \in Seq(B) /\ Len(s \o t) = Len(s) + Len(t)
         /\ IsInjective(s \o t) /\ Range(s \o t) = Range(s) \cup Range(t)
<1>. DEFINE u == s \o t
            m == Len(s)
            n == Len(t)
<1>1. m \in Nat /\ n \in Nat /\ DOMAIN s = 1 .. m /\ DOMAIN t = 1 .. n
  BY ListType
<1>2. /\ u \in Seq(B) /\ Len(u) = m + n /\ DOMAIN u = 1 .. m + n
      /\ \A i \in 1 .. m : u[i] = s[i]
      /\ \A i \in m + 1 .. m + n : u[i] = t[i - m]
  <2>1. u \in Seq(B) /\ Len(u) = m + n
    BY <1>1
  <2>2. DOMAIN u = 1 .. m + n
    BY <2>1, LenProperties
  <2>3. /\ \A i \in 1 .. m : u[i] = s[i]
        /\ \A i \in m + 1 .. m + n : u[i] = t[i - m]
    BY <1>1
  <2>. QED
    BY <2>1, <2>2, <2>3
<1>. HIDE DEF u, m, n
<1>3. \A i \in 1 .. n : i + m \in 1 .. m + n /\ u[i + m] = t[i]
  <2>1. \A i \in 1 .. n : i + m \in m + 1 .. m + n /\ (i + m) - m = i /\ i + m \in 1 .. m + n
    BY <1>1
  <2>. QED
    BY <1>2, <2>1
<1>4. \A i \in m + 1 .. m + n : i - m \in 1 .. n
  BY <1>1
<1>5. \A i \in 1 .. m + n : i \in 1 .. m \/ i \in m + 1 .. m + n
  BY <1>1
<1>6. \A i \in 1 .. m : i \in 1 .. m + n
  BY <1>1
<1>7. Range(u) = Range(s) \cup Range(t)
  <2>1. ASSUME NEW x \in Range(u) PROVE x \in Range(s) \cup Range(t)
    <3>1. PICK i \in 1 .. m + n : x = u[i]
      BY <1>2 DEF Range
    <3>. QED
      BY <1>1, <1>2, <1>4, <1>5, <3>1 DEF Range
  <2>2. ASSUME NEW x \in Range(s) PROVE x \in Range(u)
    BY <1>1, <1>2, <1>6, <2>2 DEF Range
  <2>3. ASSUME NEW x \in Range(t) PROVE x \in Range(u)
    <3>1. PICK i \in 1 .. n : x = t[i]
      BY <1>1 DEF Range
    <3>2. i + m \in DOMAIN u /\ u[i + m] = x
      BY <1>2, <1>3, <3>1
    <3>. QED
      BY <3>2 DEF Range
  <2>. QED
    BY <2>1, <2>2, <2>3
<1>8. IsInjective(u)
  <2>. SUFFICES ASSUME NEW i \in 1 .. m + n, NEW j \in 1 .. m + n, u[i] = u[j]
                PROVE  i = j
    BY <1>2 DEF IsInjective
  <2>1. \A k \in 1 .. m : u[k] \in Range(s)
    BY <1>1, <1>2 DEF Range
  <2>2. \A k \in m + 1 .. m + n : u[k] \in Range(t)
    BY <1>1, <1>2, <1>4 DEF Range
  <2>3. CASE i \in 1 .. m /\ j \in 1 .. m
    BY <1>1, <1>2, <2>3 DEF IsInjective
  <2>4. CASE i \in m + 1 .. m + n /\ j \in m + 1 .. m + n
    <3>1. i - m \in DOMAIN t /\ j - m \in DOMAIN t /\ t[i - m] = t[j - m]
      BY <1>1, <1>2, <1>4, <2>4
    <3>2. i - m = j - m
      BY <3>1, Zenon DEF IsInjective
    <3>. QED
      BY <1>1, <2>4, <3>2
  <2>5. ~(i \in 1 .. m /\ j \in m + 1 .. m + n) /\ ~(j \in 1 .. m /\ i \in m + 1 .. m + n)
    BY <2>1, <2>2
  <2>. QED
    BY <1>5, <2>3, <2>4, <2>5
<1>. QED
  BY <1>2, <1>7, <1>8 DEF u, m, n

\* What g has at the positions that f goes through.
Through(f, g) == [i \in DOMAIN f |-> g[f[i]]]

\* A list of n different things, the elements of E.
Listing(t, B, n, E) == t \in Seq(B) /\ Len(t) = n /\ IsInjective(t) /\ Range(t) = E

\* What is picked in the order of its positions, each thing being at one of them.
LEMMA PickedImage ==
  ASSUME NEW B, NEW m \in Nat, NEW K \in SUBSET (0 .. m), NEW g \in [K -> B],
         IsInjective(g), NEW f \in InOrder(K)
  PROVE  Listing(Through(f, g), B, Cardinality(K), Range(g))
<1>. DEFINE n == Cardinality(K)
            t == Through(f, g)
<1>1. n \in Nat /\ f \in [1 .. n -> K]
  BY InOrderType
<1>2. \A i, j \in 1 .. n : i < j => f[i] < f[j]
  BY <1>1 DEF InOrder
<1>. HIDE DEF n
<1>3. \A i \in 1 .. n : f[i] \in K /\ f[i] \in Nat
  <2>1. \A i \in 1 .. n : f[i] \in K
    BY <1>1
  <2>2. \A k \in K : k \in Nat
    OBVIOUS
  <2>. QED
    BY <2>1, <2>2
<1>4. f \in Injection(1 .. n, K)
  <2>. SUFFICES ASSUME NEW i \in 1 .. n, NEW j \in 1 .. n, f[i] = f[j]
                PROVE  i = j
    BY <1>1 DEF Injection, IsInjective
  <2>. QED
    BY <1>1, <1>2, <1>3
<1>5. \A k \in K : \E i \in 1 .. n : f[i] = k
  <2>1. IsFiniteSet(0 .. m)
    BY FS_Interval
  <2>2. IsFiniteSet(K)
    BY <2>1, FS_Subset
  <2>3. Cardinality(1 .. n) = n
    BY <1>1, FS_Interval
  <2>4. f \in Surjection(1 .. n, K)
    BY <1>4, <2>2, <2>3, FS_Injection DEF n
  <2>. QED
    BY <2>4 DEF Surjection
<1>6. /\ t \in [1 .. n -> B] /\ DOMAIN t = 1 .. n
      /\ \A i \in 1 .. n : t[i] = g[f[i]]
  BY <1>1, <1>3 DEF Through
<1>. HIDE DEF t
<1>7. t \in Seq(B) /\ Len(t) = n
  BY <1>1, <1>6
<1>8. IsInjective(t)
  <2>. SUFFICES ASSUME NEW i \in 1 .. n, NEW j \in 1 .. n, t[i] = t[j]
                PROVE  i = j
    BY <1>6 DEF IsInjective
  <2>1. f[i] \in DOMAIN g /\ f[j] \in DOMAIN g /\ g[f[i]] = g[f[j]]
    BY <1>3, <1>6
  <2>2. f[i] = f[j]
    BY <2>1, Zenon DEF IsInjective
  <2>. QED
    BY <1>1, <1>4, <2>2 DEF Injection, IsInjective
<1>9. Range(t) = Range(g)
  <2>1. \A i \in 1 .. n : t[i] \in Range(g)
    BY <1>3, <1>6 DEF Range
  <2>2. ASSUME NEW k \in K PROVE g[k] \in Range(t)
    <3>1. PICK i \in 1 .. n : f[i] = k
      BY <1>5
    <3>. QED
      BY <1>6, <3>1 DEF Range
  <2>. QED
    BY <1>6, <2>1, <2>2 DEF Range
<1>. QED
  BY <1>7, <1>8, <1>9 DEF t, n, Listing

-----------------------------------------------------------------------------
\* The record of the DPC, with its three lists.
Record == [pc : {"idle", "recv", "errors", "indicate", "sync", "throttled", "enable"},
           errors : Seq(Frames), async : Seq(Frames), sync : Seq(Frames), more : BOOLEAN]

\* Each list of the DPC is empty once the DPC is through with it.
Stages ==
  /\ dpc.pc # "errors" => dpc.errors = <<>>
  /\ dpc.pc \notin {"errors", "indicate"} => dpc.async = <<>>
  /\ dpc.pc \notin {"errors", "indicate", "sync"} => dpc.sync = <<>>

\* The frames outside of the ring: none is twice in a list, or in two places.
Away == ndis \cup Range(dpc.errors) \cup Range(dpc.async) \cup Range(dpc.sync)
Apart ==
  /\ IsInjective(dpc.errors) /\ IsInjective(dpc.async) /\ IsInjective(dpc.sync)
  /\ Range(dpc.errors) \cap Range(dpc.async) = {}
  /\ (Range(dpc.errors) \cup Range(dpc.async)) \cap Range(dpc.sync) = {}
  /\ ndis \cap (Range(dpc.errors) \cup Range(dpc.async) \cup Range(dpc.sync)) = {}
AwayCounted ==
  NdisOwned = Cardinality(ndis) + Len(dpc.errors) + Len(dpc.async) + Len(dpc.sync)

\* The ring, from PendingIdx on: r received frames, then empty ones to FreeIdx.
SlotsHold == \A i \in Ring : SwExt[i] # NULL <=> Ahead(PendingIdx, i) < DmaOwned
ReceivedBefore(r) ==
  /\ \A i \in Ring : desc[i] = "empty" <=> Ahead(PendingIdx, i) \in r .. DmaOwned - 1
  /\ hw.idx = Wrap(PendingIdx + r)
  /\ r < DmaOwned => hw.rdar
SlotsApart ==
  /\ \A i, j \in Ring : SwExt[i] = SwExt[j] /\ SwExt[i] # NULL => i = j
  /\ InRing \cap Away = {} /\ InRing \cup Away = Frames
RingParts ==
  /\ DmaOwned \in 0 .. ItemCount /\ FreeIdx = Wrap(PendingIdx + DmaOwned)
  /\ DmaOwned + NdisOwned = ItemCount
  /\ SlotsHold /\ SlotsApart
  /\ \E r \in 0 .. DmaOwned : ReceivedBefore(r)

\* The state machine's states, and what the adapter is in them.
States ==
  /\ EnetStarted <=> sm.state = "running"
  /\ EnetStarted => NdisStatus = "SUCCESS"
  /\ sm.state = "stopped" => NdisStatus = "PAUSED"
  /\ sm.state = "paused" => Away = {}
  /\ ~EnetStarted /\ NdisStatus = "SUCCESS" => DmaOwned = 0

\* The types, by what the steps change together.
RingTypes ==
  /\ SwExt \in [Ring -> Frames \cup {NULL}]
  /\ desc \in [Ring -> {"empty", "good", "error"}]
  /\ FreeIdx \in Ring /\ PendingIdx \in Ring
  /\ DmaOwned \in Int /\ NdisOwned \in Int
HwType == hw \in [eir : BOOLEAN, eimr : BOOLEAN, rdar : BOOLEAN, idx : Ring, due : BOOLEAN]
Others ==
  /\ NdisStatus \in {"SUCCESS", "PAUSED"} /\ EnetStarted \in BOOLEAN
  /\ ndis \subseteq Frames /\ saved \in BOOLEAN
  /\ sm \in [state : {"stopped", "paused", "running"}, starts : Nat]

Inv ==
  /\ RingTypes /\ HwType /\ Others /\ dpc \in Record
  /\ Stages /\ Apart /\ AwayCounted /\ States
  /\ EnetStarted => RingParts

-----------------------------------------------------------------------------
(* Lists and sets.                                                         *)

\* The members of a list are the values of the function it is.
LEMMA MembersRange ==
  ASSUME NEW B, NEW s \in Seq(B)
  PROVE  Members(s) = Range(s)
<1>1. DOMAIN s = 1 .. Len(s)
  BY ListType
<1>. QED
  BY <1>1 DEF Members, Range

\* The empty list.
LEMMA EmptyList ==
  /\ \A B : <<>> \in Seq(B)
  /\ Len(<<>>) = 0 /\ IsInjective(<<>>) /\ Range(<<>>) = {}
<1>1. DOMAIN <<>> = {}
  OBVIOUS
<1>2. IsInjective(<<>>)
  BY <1>1, Zenon DEF IsInjective
<1>3. Range(<<>>) = {}
  BY <1>1, Zenon DEF Range
<1>. QED
  BY <1>2, <1>3

\* Nothing is lost or doubled by turning a list round.
LEMMA ReversedList ==
  ASSUME NEW B, NEW s \in Seq(B), NEW n, NEW R, Listing(s, B, n, R)
  PROVE  Listing(Reversed(s), B, n, R)
<1>. DEFINE t == Reversed(s)
<1>1. /\ n \in Nat /\ DOMAIN s = 1 .. n /\ Len(s) = n /\ IsInjective(s) /\ Range(s) = R
      /\ \A i \in 1 .. n : s[i] \in B
  BY ListType DEF Listing
<1>2. /\ DOMAIN t = 1 .. n /\ t = [i \in 1 .. n |-> s[n + 1 - i]]
  BY <1>1 DEF Reversed
<1>3. \A i \in 1 .. n : n + 1 - i \in 1 .. n /\ n + 1 - (n + 1 - i) = i
  BY <1>1
<1>. HIDE DEF t
<1>4. \A i \in 1 .. n : t[i] = s[n + 1 - i]
  BY <1>2
<1>5. t \in Seq(B) /\ Len(t) = n
  BY <1>1, <1>2, <1>3
<1>6. IsInjective(t)
  <2>. SUFFICES ASSUME NEW i \in 1 .. n, NEW j \in 1 .. n, t[i] = t[j]
                PROVE  i = j
    BY <1>2 DEF IsInjective
  <2>1. n + 1 - i \in DOMAIN s /\ n + 1 - j \in DOMAIN s /\ s[n + 1 - i] = s[n + 1 - j]
    BY <1>1, <1>3, <1>4
  <2>2. n + 1 - i = n + 1 - j
    BY <1>1, <2>1, Zenon DEF IsInjective
  <2>. QED
    BY <1>1, <2>2
<1>7. Range(t) \subseteq R
  BY <1>1, <1>2, <1>3, <1>4 DEF Range
<1>8. R \subseteq Range(t)
  <2>. SUFFICES ASSUME NEW i \in 1 .. n PROVE s[i] \in Range(t)
    BY <1>1 DEF Range
  <2>1. n + 1 - i \in DOMAIN t /\ t[n + 1 - i] = s[i]
    BY <1>2, <1>3, <1>4
  <2>. QED
    BY <2>1 DEF Range
<1>9. Range(t) = R
  BY <1>7, <1>8
<1>. QED
  BY <1>5, <1>6, <1>9 DEF t, Listing

\* Two sets with nothing in common.
LEMMA DisjointUnion ==
  ASSUME NEW S, NEW T, IsFiniteSet(S), IsFiniteSet(T), S \cap T = {}
  PROVE  /\ IsFiniteSet(S \cup T) /\ Cardinality(S \cup T) = Cardinality(S) + Cardinality(T)
         /\ Cardinality(S) \in Nat /\ Cardinality(T) \in Nat
<1>1. /\ IsFiniteSet(S \cup T)
      /\ Cardinality(S \cup T) = Cardinality(S) + Cardinality(T) - Cardinality(S \cap T)
  BY FS_Union
<1>2. Cardinality(S) \in Nat /\ Cardinality(T) \in Nat
  BY FS_CardinalityType
<1>3. Cardinality(S \cap T) = 0
  BY FS_EmptySet
<1>. QED
  BY <1>1, <1>2, <1>3

\* What the DPC and NDIS hold, as sets: NdisOwned is how many frames that are.
LEMMA AwayCardinality ==
  ASSUME Others, dpc \in Record, Apart, AwayCounted
  PROVE  /\ IsFiniteSet(Away) /\ Cardinality(Away) = NdisOwned /\ Away \subseteq Frames
         /\ NdisOwned \in Nat
<1>. DEFINE E == Range(dpc.errors)
            A == Range(dpc.async)
            S == Range(dpc.sync)
<1>1. dpc.errors \in Seq(Frames) /\ dpc.async \in Seq(Frames) /\ dpc.sync \in Seq(Frames)
  BY DEF Record
<1>2. IsFiniteSet(Frames)
  BY RingAssumption, FS_Interval DEF Frames, Ring
<1>3. /\ IsFiniteSet(E) /\ Cardinality(E) = Len(dpc.errors)
      /\ IsFiniteSet(A) /\ Cardinality(A) = Len(dpc.async)
      /\ IsFiniteSet(S) /\ Cardinality(S) = Len(dpc.sync)
  BY <1>1, ListCardinality DEF Apart
<1>4. E \subseteq Frames /\ A \subseteq Frames /\ S \subseteq Frames /\ ndis \subseteq Frames
  <2>1. ndis \subseteq Frames
    BY DEF Others
  <2>. QED
    BY <1>1, <2>1, ListType DEF Range
<1>5. IsFiniteSet(ndis)
  BY <1>2, <1>4, FS_Subset
<1>6. E \cap A = {} /\ (E \cup A) \cap S = {} /\ ndis \cap (E \cup A \cup S) = {}
  BY DEF Apart
<1>7. Len(dpc.errors) \in Nat /\ Len(dpc.async) \in Nat /\ Len(dpc.sync) \in Nat
  BY <1>1, ListType
<1>8. NdisOwned = Cardinality(ndis) + Len(dpc.errors) + Len(dpc.async) + Len(dpc.sync)
  BY DEF AwayCounted
<1>9. Away = ndis \cup (E \cup A \cup S)
  BY DEF Away
<1>. HIDE DEF E, A, S
<1>10. IsFiniteSet(E \cup A) /\ Cardinality(E \cup A) = Len(dpc.errors) + Len(dpc.async)
  BY <1>3, <1>6, DisjointUnion, ZenonT(60)
<1>11. /\ IsFiniteSet((E \cup A) \cup S)
       /\ Cardinality((E \cup A) \cup S) = Len(dpc.errors) + Len(dpc.async) + Len(dpc.sync)
  <2>1. Cardinality((E \cup A) \cup S) = Cardinality(E \cup A) + Cardinality(S)
    BY <1>3, <1>6, <1>10, DisjointUnion
  <2>2. IsFiniteSet((E \cup A) \cup S)
    BY <1>3, <1>6, <1>10, DisjointUnion
  <2>. QED
    BY <1>3, <1>10, <2>1, <2>2
<1>12. /\ IsFiniteSet(ndis \cup (E \cup A \cup S)) /\ Cardinality(ndis) \in Nat
       /\ Cardinality(ndis \cup (E \cup A \cup S))
            = Cardinality(ndis) + (Len(dpc.errors) + Len(dpc.async) + Len(dpc.sync))
  BY <1>5, <1>6, <1>11, DisjointUnion
<1>13. /\ NdisOwned \in Nat
       /\ NdisOwned = Cardinality(ndis) + (Len(dpc.errors) + Len(dpc.async) + Len(dpc.sync))
  <2>. DEFINE c == Cardinality(ndis)
              e == Len(dpc.errors)
              a == Len(dpc.async)
              s == Len(dpc.sync)
  <2>1. c \in Nat /\ e \in Nat /\ a \in Nat /\ s \in Nat /\ NdisOwned = c + e + a + s
    BY <1>7, <1>8, <1>12
  <2>. HIDE DEF c, e, a, s
  <2>2. NdisOwned \in Nat /\ NdisOwned = c + (e + a + s)
    BY <2>1
  <2>. QED
    BY <2>2 DEF c, e, a, s
<1>14. Away \subseteq Frames
  BY <1>4, <1>9
<1>15. IsFiniteSet(Away) /\ Cardinality(Away) = NdisOwned
  BY <1>9, <1>12, <1>13
<1>. QED
  BY <1>13, <1>14, <1>15

-----------------------------------------------------------------------------
(* The ring.                                                               *)

\* A frame is a number, and NULL is not.
LEMMA NullIsNoFrame == NULL \notin Frames
  BY RxAssumption, RingAssumption DEF Frames, Ring

\* A ring that a step leaves alone stays in order.
LEMMA RingSame ==
  ASSUME RingParts, UNCHANGED <<SwExt, desc, FreeIdx, PendingIdx, DmaOwned, NdisOwned>>,
         hw'.idx = hw.idx, hw'.rdar = hw.rdar, Away' = Away
  PROVE  RingParts'
<1>1. SlotsHold'
  BY DEF RingParts, SlotsHold
<1>2. SlotsApart'
  BY DEF RingParts, SlotsApart, InRing
<1>3. \A r \in 0 .. DmaOwned : ReceivedBefore(r) => ReceivedBefore(r)'
  BY DEF ReceivedBefore
<1>. QED
  BY <1>1, <1>2, <1>3 DEF RingParts

\* The types of what is returned into the ring.
LEMMA ReturnedTypes ==
  ASSUME RingTypes, HwType, EnetStarted => FreeIdx = Wrap(PendingIdx + DmaOwned),
         NEW chain \in Seq(Frames), MpReturnNetBufferLists(chain), PendingIdx' = PendingIdx,
         EnetStarted => DmaOwned \in 0 .. ItemCount /\ DmaOwned + Len(chain) <= ItemCount
  PROVE  RingTypes' /\ HwType'
<1>1. /\ Len(chain) \in Nat /\ \A i \in 1 .. Len(chain) : chain[i] \in Frames
      /\ DmaOwned' = DmaOwned + Len(chain) /\ NdisOwned' = NdisOwned - Len(chain)
  BY ListType DEF MpReturnNetBufferLists
<1>2. DmaOwned' \in Int /\ NdisOwned' \in Int
  BY <1>1 DEF RingTypes
<1>3. CASE ~EnetStarted
  BY <1>2, <1>3 DEF MpReturnNetBufferLists, ring, RingTypes, HwType
<1>4. CASE EnetStarted
  <2>. DEFINE n == Len(chain)
              back(i) == Ahead(FreeIdx, i) < n
  <2>1. n \in 0 .. ItemCount
    BY <1>1, <1>4, RingAssumption
  <2>2. FreeIdx' = Wrap(FreeIdx + n) /\ FreeIdx \in Ring
    BY <1>4 DEF MpReturnNetBufferLists, FreeAfter, RingTypes
  <2>3. FreeIdx' \in Ring
    BY <2>1, <2>2, WrapInRing
  <2>4. /\ SwExt' = [i \in Ring |-> IF back(i) THEN chain[Ahead(FreeIdx, i) + 1] ELSE SwExt[i]]
        /\ desc' = [i \in Ring |-> IF back(i) THEN "empty" ELSE desc[i]]
        /\ hw' = [hw EXCEPT !.rdar = Resume(n)]
    BY <1>4 DEF MpReturnNetBufferLists
  <2>5. \A i \in Ring : back(i) => Ahead(FreeIdx, i) + 1 \in 1 .. n
    <3>. SUFFICES ASSUME NEW i \in Ring, back(i) PROVE Ahead(FreeIdx, i) + 1 \in 1 .. n
      OBVIOUS
    <3>1. Ahead(FreeIdx, i) \in Nat
      BY <2>2, AheadInRing, RingAssumption DEF Ring
    <3>. QED
      BY <1>1, <3>1
  <2>6. SwExt' \in [Ring -> Frames \cup {NULL}]
    BY <1>1, <2>4, <2>5 DEF RingTypes
  <2>7. desc' \in [Ring -> {"empty", "good", "error"}]
    BY <2>4 DEF RingTypes
  <2>8. Resume(n) \in BOOLEAN
    BY DEF Resume, HwType
  <2>9. HwType'
    BY <2>4, <2>8 DEF HwType
  <2>. QED
    BY <1>2, <2>3, <2>6, <2>7, <2>9 DEF RingTypes
<1>. QED
  BY <1>3, <1>4

\* Frames from outside of the ring go into the empty slots from FreeIdx on.
LEMMA ReturnedRing ==
  ASSUME RingTypes, RingParts, EnetStarted, HwType,
         NEW chain \in Seq(Frames), IsInjective(chain), Range(chain) \subseteq Away,
         MpReturnNetBufferLists(chain), PendingIdx' = PendingIdx,
         DmaOwned + Len(chain) <= ItemCount, Away' = Away \ Range(chain)
  PROVE  RingParts'
<1>. DEFINE n == Len(chain)
            D == DmaOwned
            a(i) == Ahead(PendingIdx, i)
            b(i) == Ahead(FreeIdx, i)
            back(i) == D <= a(i) /\ a(i) < D + n
<1>1. /\ n \in Nat /\ DOMAIN chain = 1 .. n /\ \A i \in 1 .. n : chain[i] \in Frames
  BY ListType
<1>2. /\ D \in 0 .. ItemCount /\ D \in Nat /\ ItemCount \in Nat /\ D + n <= ItemCount
      /\ n \in 0 .. ItemCount /\ D + n \in 0 .. ItemCount
  BY <1>1, RingAssumption DEF RingParts
<1>3. /\ PendingIdx \in Ring /\ FreeIdx \in Ring /\ FreeIdx = Wrap(PendingIdx + D)
  BY DEF RingParts, RingTypes
<1>4. \A i \in Ring : /\ a(i) \in Nat /\ a(i) < ItemCount
                      /\ b(i) \in Nat /\ b(i) < ItemCount /\ Wrap(FreeIdx + b(i)) = i
  <2>1. \A i \in Ring : a(i) \in Ring /\ b(i) \in Ring /\ Wrap(FreeIdx + b(i)) = i
    BY <1>3, AheadInRing
  <2>2. \A i \in Ring : i \in Nat /\ i < ItemCount
    BY <1>2 DEF Ring
  <2>. HIDE DEF a, b
  <2>. QED
    BY <2>1, <2>2
<1>5. \A i \in Ring : b(i) < n <=> back(i)
  BY <1>1, <1>2, <1>3, AheadFurther
<1>6. /\ DmaOwned' = D + n /\ NdisOwned' = NdisOwned - n /\ FreeIdx' = Wrap(FreeIdx + n)
      /\ hw'.idx = hw.idx /\ hw'.rdar = (hw.rdar \/ n > 0)
  BY DEF MpReturnNetBufferLists, FreeAfter, Resume, HwType
<1>7. \A i \in Ring :
        /\ b(i) < n => SwExt'[i] = chain[b(i) + 1] /\ desc'[i] = "empty"
        /\ ~(b(i) < n) => SwExt'[i] = SwExt[i] /\ desc'[i] = desc[i]
  BY DEF MpReturnNetBufferLists
<1>8. \A i \in Ring : /\ back(i) => /\ SwExt'[i] = chain[b(i) + 1] /\ desc'[i] = "empty"
                                    /\ b(i) + 1 \in 1 .. n
                      /\ ~back(i) => SwExt'[i] = SwExt[i] /\ desc'[i] = desc[i]
  BY <1>1, <1>4, <1>5, <1>7
<1>9. FreeIdx' = Wrap(PendingIdx + (D + n))
  BY <1>2, <1>3, <1>6, WrapTwice
<1>10. SlotsHold'
  <2>. SUFFICES ASSUME NEW i \in Ring PROVE SwExt'[i] # NULL <=> a(i) < D + n
    BY <1>6 DEF SlotsHold
  <2>1. SwExt[i] # NULL <=> a(i) < D
    BY DEF RingParts, SlotsHold
  <2>2. a(i) \in Nat
    BY <1>4
  <2>. HIDE DEF a, b, n, D
  <2>3. CASE back(i)
    BY <1>1, <1>8, <2>3, NullIsNoFrame
  <2>4. CASE ~back(i)
    BY <1>1, <1>2, <1>8, <2>1, <2>2, <2>4
  <2>. QED
    BY <2>3, <2>4
<1>11. SlotsApart'
  <2>1. \A k \in 1 .. n : chain[k] \in Away /\ chain[k] \in Range(chain)
    BY <1>1 DEF Range
  <2>2. \A i, j \in Ring : SwExt[i] = SwExt[j] /\ SwExt[i] # NULL => i = j
    BY DEF RingParts, SlotsApart
  <2>3. InRing \cap Away = {} /\ InRing \cup Away = Frames
    BY DEF RingParts, SlotsApart
  <2>4. \A i \in Ring : SwExt[i] # NULL => SwExt[i] \in InRing
    BY DEF InRing
  <2>5. \A i \in Ring : SwExt[i] # NULL <=> a(i) < D
    BY DEF RingParts, SlotsHold
  <2>6. \A i \in Ring : SwExt[i] # NULL => ~back(i)
    BY <1>2, <1>4, <2>5
  <2>. HIDE DEF a, b, n, D, back
  <2>7. ASSUME NEW i \in Ring, NEW j \in Ring, SwExt'[i] = SwExt'[j], SwExt'[i] # NULL
        PROVE  i = j
    <3>1. CASE back(i) /\ back(j)
      <4>1. /\ b(i) + 1 \in DOMAIN chain /\ b(j) + 1 \in DOMAIN chain
            /\ chain[b(i) + 1] = chain[b(j) + 1]
        BY <1>1, <1>8, <2>7, <3>1
      <4>2. b(i) + 1 = b(j) + 1
        BY <4>1, Zenon DEF IsInjective
      <4>3. b(i) = b(j)
        BY <1>4, <4>2
      <4>. QED
        BY <1>4, <4>3
    <3>2. CASE back(i) /\ ~back(j)
      BY <1>8, <2>1, <2>3, <2>4, <2>7, <3>2
    <3>3. CASE ~back(i) /\ back(j)
      BY <1>8, <2>1, <2>3, <2>4, <2>7, <3>3
    <3>4. CASE ~back(i) /\ ~back(j)
      BY <1>8, <2>2, <2>7, <3>4
    <3>. QED
      BY <3>1, <3>2, <3>3, <3>4
  <2>8. InRing' = InRing \cup Range(chain)
    <3>1. ASSUME NEW i \in Ring, SwExt'[i] # NULL PROVE SwExt'[i] \in InRing \cup Range(chain)
      BY <1>8, <2>1, <2>4, <3>1
    <3>2. ASSUME NEW i \in Ring, SwExt[i] # NULL PROVE SwExt[i] \in InRing'
      <4>1. SwExt'[i] = SwExt[i]
        BY <1>8, <2>6, <3>2
      <4>. QED
        BY <3>2, <4>1 DEF InRing
    <3>3. ASSUME NEW k \in 1 .. n PROVE chain[k] \in InRing'
      <4>. DEFINE i == Wrap(FreeIdx + (k - 1))
      <4>1. k - 1 \in Ring /\ k - 1 \in 0 .. ItemCount /\ (k - 1) + 1 = k /\ k - 1 < n
        BY <1>1, <1>2 DEF Ring
      <4>2. i \in Ring /\ b(i) = k - 1
        BY <1>3, <4>1, WrapInRing, AheadOfWrap DEF b
      <4>. HIDE DEF i
      <4>3. back(i)
        BY <1>5, <4>1, <4>2
      <4>4. SwExt'[i] = chain[k]
        BY <1>8, <4>1, <4>2, <4>3
      <4>5. SwExt'[i] # NULL
        BY <1>1, <4>4, NullIsNoFrame
      <4>. QED
        BY <4>2, <4>4, <4>5 DEF InRing
    <3>4. InRing' \subseteq InRing \cup Range(chain)
      BY <3>1 DEF InRing
    <3>5. InRing \subseteq InRing'
      BY <3>2 DEF InRing
    <3>6. Range(chain) \subseteq InRing'
      BY <1>1, <3>3 DEF Range
    <3>. QED
      BY <3>4, <3>5, <3>6
  <2>9. InRing' \cap Away' = {} /\ InRing' \cup Away' = Frames
    BY <2>3, <2>8
  <2>. QED
    BY <2>7, <2>9 DEF SlotsApart, Frames
<1>12. PICK r \in 0 .. D : ReceivedBefore(r)
  BY DEF RingParts
<1>13. r \in 0 .. D + n /\ r \in Nat /\ r <= D
  BY <1>1, <1>2
<1>14. ReceivedBefore(r)'
  <2>1. ASSUME NEW i \in Ring PROVE desc'[i] = "empty" <=> a(i) \in r .. (D + n) - 1
    <3>1. desc[i] = "empty" <=> a(i) \in r .. D - 1
      BY <1>12 DEF ReceivedBefore
    <3>2. a(i) \in Nat
      BY <1>4
    <3>. HIDE DEF a, b, n, D
    <3>3. CASE back(i)
      BY <1>1, <1>2, <1>8, <1>13, <3>2, <3>3
    <3>4. CASE ~back(i)
      BY <1>1, <1>2, <1>8, <1>13, <3>1, <3>2, <3>4
    <3>. QED
      BY <3>3, <3>4
  <2>2. hw'.idx = Wrap(PendingIdx + r)
    BY <1>6, <1>12 DEF ReceivedBefore
  <2>3. r < D + n => hw'.rdar
    <3>1. r < D => hw.rdar
      BY <1>12 DEF ReceivedBefore
    <3>. HIDE DEF a, b, n, D
    <3>2. CASE n > 0
      BY <1>6, <3>2
    <3>3. CASE n = 0
      <4>1. r < D + n => r < D
        BY <1>2, <1>13, <3>3
      <4>. QED
        BY <1>6, <3>1, <4>1, Zenon
    <3>. QED
      BY <1>1, <3>2, <3>3
  <2>4. \A i \in Ring :
          desc'[i] = "empty" <=> Ahead(PendingIdx', i) \in r .. DmaOwned' - 1
    BY <1>6, <2>1
  <2>5. hw'.idx = Wrap(PendingIdx' + r) /\ (r < DmaOwned' => hw'.rdar)
    BY <1>6, <2>2, <2>3
  <2>. QED
    BY <2>4, <2>5 DEF ReceivedBefore
<1>15. DmaOwned' + NdisOwned' = ItemCount
  <2>1. NdisOwned \in Int /\ D + NdisOwned = ItemCount
    BY DEF RingTypes, RingParts
  <2>. HIDE DEF D, n
  <2>. QED
    BY <1>1, <1>2, <1>6, <2>1
<1>16. /\ DmaOwned' \in 0 .. ItemCount /\ FreeIdx' = Wrap(PendingIdx' + DmaOwned')
       /\ r \in 0 .. DmaOwned'
  BY <1>2, <1>6, <1>9, <1>13
<1>. HIDE DEF n, D, a, b
<1>. QED
  BY <1>10, <1>11, <1>14, <1>15, <1>16 DEF RingParts

\* The MAC is at the first empty descriptor, if there is one.
LEMMA MacAt ==
  ASSUME RingTypes, RingParts, NEW r \in 0 .. DmaOwned, ReceivedBefore(r), HwType
  PROVE  /\ r \in Nat /\ DmaOwned \in Nat /\ DmaOwned <= ItemCount /\ ItemCount \in Nat
         /\ r <= DmaOwned
         /\ desc[hw.idx] = "empty" => r < DmaOwned
         /\ r < DmaOwned => Ahead(PendingIdx, hw.idx) = r /\ desc[hw.idx] = "empty"
<1>. DEFINE D == DmaOwned
            a == Ahead(PendingIdx, hw.idx)
<1>1. /\ r \in Nat /\ D \in Nat /\ D <= ItemCount /\ r <= D /\ ItemCount \in Nat
      /\ r \in 0 .. ItemCount
  BY RingAssumption DEF RingParts
<1>2. hw.idx \in Ring /\ PendingIdx \in Ring /\ hw.idx = Wrap(PendingIdx + r)
  BY DEF HwType, RingTypes, ReceivedBefore
<1>3. desc[hw.idx] = "empty" <=> a \in r .. D - 1
  BY <1>2 DEF ReceivedBefore
<1>4. r < D => a = r
  <2>. SUFFICES ASSUME r < D PROVE a = r
    OBVIOUS
  <2>1. r \in Ring
    BY <1>1 DEF Ring
  <2>. QED
    BY <1>2, <2>1, AheadOfWrap
<1>5. a \in Nat
  <2>1. a \in Ring
    BY <1>2, AheadInRing
  <2>. QED
    BY <1>1, <2>1 DEF Ring
<1>. HIDE DEF D, a
<1>6. (a \in r .. D - 1 => r < D) /\ (a = r /\ r < D => a \in r .. D - 1)
  BY <1>1, <1>5
<1>. QED
  BY <1>1, <1>3, <1>4, <1>6 DEF D, a

\* The MAC receives a frame: one empty descriptor less, and a next one if there is one.
LEMMA ReceiveRing ==
  ASSUME RingTypes, HwType, RingParts, HwReceive
  PROVE  RingTypes' /\ HwType' /\ RingParts'
<1>. DEFINE D == DmaOwned
            next == Wrap(hw.idx + 1)
            a(i) == Ahead(PendingIdx, i)
<1>1. PICK r \in 0 .. D : ReceivedBefore(r)
  BY DEF RingParts
<1>2. /\ r \in Nat /\ D \in Nat /\ D <= ItemCount /\ ItemCount \in Nat /\ r < D
      /\ a(hw.idx) = r /\ D \in 0 .. ItemCount
  BY <1>1, MacAt DEF HwReceive, RingParts
<1>3. /\ UNCHANGED <<SwExt, FreeIdx, PendingIdx, DmaOwned, NdisOwned, ndis, dpc>>
      /\ hw' = [hw EXCEPT !.idx = next, !.eir = TRUE, !.rdar = desc'[next] = "empty"]
  BY DEF HwReceive, counts
<1>4. PICK outcome \in {"good", "error"} : desc' = [desc EXCEPT ![hw.idx] = outcome]
  BY DEF HwReceive
<1>5. hw.idx \in Ring /\ PendingIdx \in Ring /\ hw.idx = Wrap(PendingIdx + r)
  BY <1>1 DEF HwType, RingTypes, ReceivedBefore
<1>6. r + 1 \in 0 .. ItemCount /\ r \in 0 .. ItemCount /\ 1 \in 0 .. ItemCount /\ r + 1 \in 0 .. D
      /\ r + 1 <= D
  BY <1>2
<1>7. next \in Ring /\ next = Wrap(PendingIdx + (r + 1))
  BY <1>5, <1>6, WrapInRing, WrapTwice
<1>8. hw'.idx = next /\ hw'.rdar = (desc'[next] = "empty")
  BY <1>3 DEF HwType
<1>9. \A i \in Ring : desc'[i] = "empty" <=> desc[i] = "empty" /\ i # hw.idx
  BY <1>4, <1>5 DEF RingTypes
<1>10. \A i \in Ring : a(i) \in Nat /\ (a(i) = r => i = hw.idx)
  <2>1. \A i \in Ring : a(i) \in Ring /\ Wrap(PendingIdx + a(i)) = i
    BY <1>5, AheadInRing
  <2>2. \A i \in Ring : i \in Nat
    BY <1>2 DEF Ring
  <2>. QED
    BY <1>5, <2>1, <2>2
<1>11. \A i \in Ring : desc'[i] = "empty" <=> a(i) \in (r + 1) .. D - 1
  <2>. SUFFICES ASSUME NEW i \in Ring
                PROVE  desc'[i] = "empty" <=> a(i) \in (r + 1) .. D - 1
    OBVIOUS
  <2>1. desc[i] = "empty" <=> a(i) \in r .. D - 1
    BY <1>1 DEF ReceivedBefore
  <2>2. a(i) \in Nat /\ (a(i) = r <=> i = hw.idx)
    BY <1>2, <1>10
  <2>. HIDE DEF a, D
  <2>3. a(i) \in (r + 1) .. D - 1 <=> a(i) \in r .. D - 1 /\ a(i) # r
    BY <1>2, <2>2
  <2>. QED
    BY <1>9, <2>1, <2>2, <2>3
<1>12. r + 1 < D => desc'[next] = "empty"
  <2>. SUFFICES ASSUME r + 1 < D PROVE desc'[next] = "empty"
    OBVIOUS
  <2>1. r + 1 \in Ring
    BY <1>2 DEF Ring
  <2>2. a(next) = r + 1
    BY <1>5, <1>7, <2>1, AheadOfWrap
  <2>. HIDE DEF a, next, D
  <2>3. a(next) \in (r + 1) .. D - 1
    BY <1>2, <2>2
  <2>. QED
    BY <1>7, <1>11, <2>3
<1>13. ReceivedBefore(r + 1)'
  BY <1>3, <1>7, <1>8, <1>11, <1>12 DEF ReceivedBefore
<1>14. SlotsHold' /\ SlotsApart'
  <2>1. SlotsHold /\ SlotsApart
    BY DEF RingParts
  <2>2. Away' = Away /\ InRing' = InRing
    BY <1>3 DEF Away, InRing
  <2>. QED
    BY <1>3, <2>1, <2>2 DEF SlotsHold, SlotsApart
<1>15. RingParts'
  BY <1>3, <1>6, <1>13, <1>14 DEF RingParts
<1>16. desc' \in [Ring -> {"empty", "good", "error"}]
  BY <1>4 DEF RingTypes
<1>17. RingTypes'
  BY <1>3, <1>16 DEF RingTypes
<1>18. HwType'
  BY <1>3, <1>7 DEF HwType
<1>. QED
  BY <1>15, <1>17, <1>18

\* A ring that has just been filled.
LEMMA StartRing ==
  ASSUME EnetStart, HwType, Away = {}
  PROVE  RingTypes' /\ HwType' /\ RingParts'
<1>1. /\ SwExt' = [i \in Ring |-> i] /\ desc' = [i \in Ring |-> "empty"]
      /\ FreeIdx' = 0 /\ PendingIdx' = 0 /\ DmaOwned' = ItemCount /\ NdisOwned' = 0
      /\ UNCHANGED <<ndis, dpc>>
      /\ hw' = [hw EXCEPT !.eir = FALSE, !.eimr = TRUE, !.rdar = TRUE, !.idx = 0]
  BY DEF EnetStart
<1>2. ItemCount \in Nat /\ ItemCount > 0 /\ 0 \in Ring
  BY RingAssumption DEF Ring
<1>3. RingTypes'
  BY <1>1, <1>2 DEF RingTypes, Frames
<1>4. HwType' /\ hw'.idx = 0 /\ hw'.rdar
  BY <1>1, <1>2 DEF HwType
<1>5. \A i \in Ring : Ahead(0, i) = i /\ i \in Nat /\ i < ItemCount
  BY <1>2 DEF Ring, Ahead
<1>6. SlotsHold'
  BY <1>1, <1>5, NullIsNoFrame DEF SlotsHold, Frames
<1>7. SlotsApart'
  <2>1. Away' = {}
    BY <1>1 DEF Away
  <2>2. InRing' = Frames
    BY <1>1, NullIsNoFrame DEF InRing, Frames
  <2>. QED
    BY <1>1, <2>1, <2>2 DEF SlotsApart
<1>8. Wrap(0 + ItemCount) = 0 /\ Wrap(0 + 0) = 0
  BY <1>2 DEF Wrap
<1>9. ReceivedBefore(0)'
  <2>1. \A i \in Ring : Ahead(0, i) \in 0 .. ItemCount - 1
    BY <1>2, <1>5
  <2>. QED
    BY <1>1, <1>4, <1>8, <2>1 DEF ReceivedBefore
<1>. QED
  BY <1>1, <1>2, <1>3, <1>4, <1>6, <1>7, <1>8, <1>9 DEF RingParts

-----------------------------------------------------------------------------
(* What the DPC takes out of the ring.                                     *)

\* The frames of the first m slots from PendingIdx on.
Taken(K) == {SwExt[Slot(d)] : d \in K}
TakenApart(m) ==
  /\ \A d \in 0 .. m - 1 : SwExt[Slot(d)] \in Frames
  /\ \A d, e \in 0 .. m - 1 : SwExt[Slot(d)] = SwExt[Slot(e)] => d = e

\* A list of the DPC: the frames of some of these slots, each once.
LEMMA TakenList ==
  ASSUME NEW m \in Nat, TakenApart(m), NEW K \in SUBSET (0 .. m - 1), NEW f \in InOrder(K)
  PROVE  Listing(TakenFrames(f), Frames, Cardinality(K), Taken(K))
<1>. DEFINE g == [d \in K |-> SwExt[Slot(d)]]
<1>1. K \in SUBSET (0 .. m)
  OBVIOUS
<1>2. g \in [K -> Frames] /\ Range(g) = Taken(K)
  BY DEF TakenApart, Range, Taken
<1>3. IsInjective(g)
  BY DEF TakenApart, IsInjective
<1>4. TakenFrames(f) = Through(f, g)
  <2>1. f \in [1 .. Cardinality(K) -> K]
    BY <1>1, InOrderType
  <2>2. \A i \in DOMAIN f : f[i] \in K
    BY <2>1
  <2>. QED
    BY <2>2 DEF TakenFrames, Through
<1>. HIDE DEF g
<1>5. Listing(Through(f, g), Frames, Cardinality(K), Range(g))
  BY <1>1, <1>2, <1>3, PickedImage
<1>. QED
  BY <1>2, <1>4, <1>5

\* Frames of different slots are different, so lists of different slots are apart.
LEMMA TakenDisjoint ==
  ASSUME NEW m \in Nat, TakenApart(m), NEW K \in SUBSET (0 .. m - 1),
         NEW L \in SUBSET (0 .. m - 1), K \cap L = {}
  PROVE  Taken(K) \cap Taken(L) = {} /\ Taken(K) \cup Taken(L) = Taken(K \cup L)
<1>1. \A d \in K, e \in L : SwExt[Slot(d)] # SwExt[Slot(e)]
  BY DEF TakenApart
<1>. QED
  BY <1>1 DEF Taken

\* Every slot that is taken holds a frame with an error, one that NDIS will keep or
\* one that it borrows: the three lists have m frames between them.
LEMMA ThreeLists ==
  ASSUME NEW m \in Nat, NEW good, NEW error, NEW lent, lent \subseteq good,
         good \cap error = {}, good \cup error = 0 .. m - 1
  PROVE  Cardinality(error) + Cardinality(good \ lent) + Cardinality(lent) = m
<1>. DEFINE kept == good \ lent
<1>1. /\ error \in SUBSET (0 .. m - 1) /\ kept \in SUBSET (0 .. m - 1)
      /\ lent \in SUBSET (0 .. m - 1)
      /\ error \cap kept = {} /\ (error \cup kept) \cap lent = {}
      /\ (error \cup kept) \cup lent = 0 .. m - 1
  OBVIOUS
<1>2. IsFiniteSet(0 .. m - 1) /\ Cardinality(0 .. m - 1) = m
  BY FS_Interval
<1>. HIDE DEF kept
<1>3. IsFiniteSet(error) /\ IsFiniteSet(kept) /\ IsFiniteSet(lent)
  BY <1>1, <1>2, FS_Subset
<1>4. /\ IsFiniteSet(error \cup kept)
      /\ Cardinality(error \cup kept) = Cardinality(error) + Cardinality(kept)
  BY <1>1, <1>3, DisjointUnion
<1>5. Cardinality((error \cup kept) \cup lent) = Cardinality(error \cup kept) + Cardinality(lent)
  BY <1>1, <1>3, <1>4, DisjointUnion
<1>6. Cardinality(error) + Cardinality(kept) + Cardinality(lent) = m
  BY <1>1, <1>2, <1>4, <1>5
<1>. QED
  BY <1>6 DEF kept

\* The DPC stops at the first empty descriptor, and the slots before it hold frames.
LEMMA TakenAre ==
  ASSUME RingTypes, EnetStarted => RingParts, ~EnetStarted => DmaOwned = 0,
         NEW m \in 0 .. ItemCount, \A d \in 0 .. m - 1 : Received(d)
  PROVE  /\ m \in Nat /\ TakenApart(m)
         /\ ~EnetStarted => m = 0
         /\ EnetStarted => /\ \A r \in 0 .. DmaOwned : ReceivedBefore(r) => m <= r
                           /\ Taken(0 .. m - 1) \subseteq InRing
<1>1. m \in Nat /\ m <= ItemCount /\ ItemCount \in Nat
  BY RingAssumption
<1>2. CASE ~EnetStarted
  <2>1. m = 0
    <3>. SUFFICES ASSUME m # 0 PROVE FALSE
      OBVIOUS
    <3>1. 0 \in 0 .. m - 1
      BY <1>1
    <3>2. DmaOwned > 0
      BY <3>1 DEF Received
    <3>. QED
      BY <1>2, <3>2
  <2>2. 0 .. m - 1 = {}
    BY <2>1
  <2>3. TakenApart(m)
    BY <2>2 DEF TakenApart
  <2>. QED
    BY <1>1, <1>2, <2>1, <2>3
<1>3. CASE EnetStarted
  <2>1. PendingIdx \in Ring /\ DmaOwned \in 0 .. ItemCount
    BY <1>3 DEF RingTypes, RingParts
  <2>2. \A d \in 0 .. ItemCount - 1 : Slot(d) \in Ring /\ Ahead(PendingIdx, Slot(d)) = d
    <3>. SUFFICES ASSUME NEW d \in 0 .. ItemCount - 1
                  PROVE  Slot(d) \in Ring /\ Ahead(PendingIdx, Slot(d)) = d
      OBVIOUS
    <3>1. d \in Ring /\ d \in 0 .. ItemCount
      BY <1>1 DEF Ring
    <3>. QED
      BY <2>1, <3>1, WrapInRing, AheadOfWrap DEF Slot
  <2>3. ASSUME NEW d \in 0 .. m - 1
        PROVE  /\ d \in 0 .. ItemCount - 1 /\ d < DmaOwned
               /\ SwExt[Slot(d)] \in Frames /\ SwExt[Slot(d)] \in InRing
    <3>1. d \in 0 .. ItemCount - 1
      BY <1>1
    <3>2. d < DmaOwned
      BY <2>1, <3>1 DEF Received
    <3>3. SwExt[Slot(d)] # NULL
      BY <1>3, <2>2, <3>1, <3>2 DEF RingParts, SlotsHold
    <3>4. SwExt[Slot(d)] \in Frames \cup {NULL}
      BY <2>2, <3>1 DEF RingTypes
    <3>. QED
      BY <2>2, <3>1, <3>2, <3>3, <3>4 DEF InRing
  <2>4. ASSUME NEW d \in 0 .. m - 1, NEW e \in 0 .. m - 1, SwExt[Slot(d)] = SwExt[Slot(e)]
        PROVE  d = e
    <3>1. Slot(d) \in Ring /\ Slot(e) \in Ring /\ SwExt[Slot(d)] # NULL
      BY <2>2, <2>3, NullIsNoFrame
    <3>2. Slot(d) = Slot(e)
      BY <1>3, <2>4, <3>1 DEF RingParts, SlotsApart
    <3>3. Ahead(PendingIdx, Slot(d)) = d /\ Ahead(PendingIdx, Slot(e)) = e
      BY <2>2, <2>3
    <3>. QED
      BY <3>2, <3>3
  <2>5. TakenApart(m)
    BY <2>3, <2>4 DEF TakenApart
  <2>6. Taken(0 .. m - 1) \subseteq InRing
    BY <2>3 DEF Taken
  <2>7. ASSUME NEW r \in 0 .. DmaOwned, ReceivedBefore(r) PROVE m <= r
    <3>. SUFFICES ASSUME r < m PROVE FALSE
      BY <1>1, <2>1
    <3>1. r \in 0 .. m - 1
      BY <1>1, <2>1
    <3>2. r < DmaOwned /\ desc[Slot(r)] # "empty" /\ r \in 0 .. ItemCount - 1
      BY <2>3, <3>1 DEF Received
    <3>3. Slot(r) \in Ring /\ Ahead(PendingIdx, Slot(r)) = r
      BY <2>2, <3>2
    <3>4. r \in r .. DmaOwned - 1
      BY <2>1, <3>2
    <3>. QED
      BY <2>7, <3>2, <3>3, <3>4 DEF ReceivedBefore
  <2>. QED
    BY <1>1, <1>3, <2>5, <2>6, <2>7
<1>. QED
  BY <1>2, <1>3

\* The ring after the frames of the first m slots are taken from it.
LEMMA TakenRing ==
  ASSUME RingTypes, HwType, RingParts, NEW m \in 0 .. ItemCount,
         \A r \in 0 .. DmaOwned : ReceivedBefore(r) => m <= r,
         Taken(0 .. m - 1) \subseteq InRing,
         SwExt' = Emptied(m), PendingIdx' = Wrap(PendingIdx + m), DmaOwned' = DmaOwned - m,
         NdisOwned' = NdisOwned + m, UNCHANGED <<desc, FreeIdx, hw>>,
         Away' = Away \cup Taken(0 .. m - 1)
  PROVE  RingTypes' /\ RingParts'
<1>. DEFINE D == DmaOwned
            P == PendingIdx
            a(i) == Ahead(P, i)
            b(i) == Ahead(Wrap(P + m), i)
<1>1. PICK r \in 0 .. D : ReceivedBefore(r)
  BY DEF RingParts
<1>2. /\ m \in Nat /\ ItemCount \in Nat /\ D \in Nat /\ r \in Nat /\ m <= r /\ r <= D
      /\ D <= ItemCount
  BY <1>1, RingAssumption DEF RingParts
<1>3. /\ D - m \in Nat /\ D - m \in 0 .. ItemCount /\ r - m \in 0 .. D - m /\ r - m \in 0 .. ItemCount
      /\ m + (D - m) = D /\ m + (r - m) = r /\ m + (D - m) <= ItemCount /\ m + (r - m) <= ItemCount
  BY <1>2
<1>4. P \in Ring /\ FreeIdx = Wrap(P + D) /\ hw.idx = Wrap(P + r)
  BY <1>1 DEF RingTypes, RingParts, ReceivedBefore
<1>5. Wrap(P + m) \in Ring
  BY <1>4, WrapInRing
<1>6. /\ FreeIdx = Wrap(Wrap(P + m) + (D - m))
      /\ hw.idx = Wrap(Wrap(P + m) + (r - m))
  BY <1>3, <1>4, WrapTwice
<1>7. \A i \in Ring : /\ a(i) \in Nat /\ a(i) < ItemCount /\ Slot(a(i)) = i
                      /\ b(i) \in Nat
  <2>1. \A i \in Ring : a(i) \in Ring /\ b(i) \in Ring /\ Slot(a(i)) = i
    BY <1>4, <1>5, AheadInRing DEF Slot
  <2>2. \A i \in Ring : i \in Nat /\ i < ItemCount
    BY <1>2 DEF Ring
  <2>. HIDE DEF a, b
  <2>. QED
    BY <2>1, <2>2
<1>8. \A i \in Ring : /\ b(i) < D - m <=> m <= a(i) /\ a(i) < D
                      /\ m <= a(i) /\ a(i) < D => b(i) = a(i) - m
  <2>. SUFFICES ASSUME NEW i \in Ring
                PROVE  /\ b(i) < D - m <=> m <= a(i) /\ a(i) < D
                       /\ m <= a(i) /\ a(i) < D => b(i) = a(i) - m
    OBVIOUS
  <2>1. /\ b(i) < D - m <=> m <= a(i) /\ a(i) < m + (D - m)
        /\ m <= a(i) /\ a(i) < m + (D - m) => b(i) = a(i) - m
    BY <1>3, <1>4, AheadFurther
  <2>. QED
    BY <1>3, <2>1
<1>9. \A i \in Ring : /\ a(i) < m => SwExt'[i] = NULL
                      /\ ~(a(i) < m) => SwExt'[i] = SwExt[i]
  BY DEF Emptied
<1>10. \A i \in Ring : SwExt[i] # NULL <=> a(i) < D
  BY DEF RingParts, SlotsHold
<1>11. /\ UNCHANGED <<desc, FreeIdx, hw>>
       /\ PendingIdx' = Wrap(P + m) /\ DmaOwned' = D - m
  OBVIOUS
<1>12. SlotsHold'
  <2>. SUFFICES ASSUME NEW i \in Ring PROVE SwExt'[i] # NULL <=> b(i) < D - m
    BY <1>11 DEF SlotsHold
  <2>1. /\ a(i) \in Nat /\ (SwExt[i] # NULL <=> a(i) < D)
        /\ (a(i) < m => SwExt'[i] = NULL) /\ (~(a(i) < m) => SwExt'[i] = SwExt[i])
        /\ (b(i) < D - m <=> m <= a(i) /\ a(i) < D)
    BY <1>7, <1>8, <1>9, <1>10
  <2>. HIDE DEF a, b, D
  <2>. QED
    BY <1>2, <2>1
<1>13. SlotsApart'
  <2>. DEFINE T == Taken(0 .. m - 1)
  <2>1. \A i, j \in Ring : SwExt[i] = SwExt[j] /\ SwExt[i] # NULL => i = j
    BY DEF RingParts, SlotsApart
  <2>2. InRing \cap Away = {} /\ InRing \cup Away = Frames
    BY DEF RingParts, SlotsApart
  <2>3. \A i \in Ring : SwExt'[i] # NULL => SwExt'[i] = SwExt[i]
    BY <1>9
  <2>4. ASSUME NEW i \in Ring, SwExt'[i] # NULL PROVE SwExt'[i] \in InRing /\ SwExt'[i] \notin T
    <3>1. SwExt'[i] = SwExt[i] /\ ~(a(i) < m)
      BY <1>9, <2>3, <2>4
    <3>2. SwExt[i] \in InRing
      BY <2>4, <3>1 DEF InRing
    <3>3. ASSUME NEW d \in 0 .. m - 1, SwExt[Slot(d)] = SwExt[i] PROVE FALSE
      <4>1. d \in Ring /\ d \in 0 .. ItemCount /\ d < m
        BY <1>2 DEF Ring
      <4>2. Slot(d) \in Ring /\ a(Slot(d)) = d
        BY <1>4, <4>1, WrapInRing, AheadOfWrap DEF Slot
      <4>3. Slot(d) = i
        BY <2>1, <2>4, <3>1, <3>3, <4>2
      <4>. QED
        BY <3>1, <4>1, <4>2, <4>3
    <3>. QED
      BY <3>1, <3>2, <3>3 DEF Taken
  <2>5. ASSUME NEW i \in Ring, SwExt[i] # NULL, SwExt[i] \notin T PROVE SwExt[i] \in InRing'
    <3>1. ~(a(i) < m)
      <4>. SUFFICES ASSUME a(i) < m PROVE FALSE
        OBVIOUS
      <4>1. a(i) \in 0 .. m - 1 /\ Slot(a(i)) = i
        <5>1. a(i) \in Nat /\ Slot(a(i)) = i
          BY <1>7
        <5>. HIDE DEF a
        <5>. QED
          BY <1>2, <5>1
      <4>2. SwExt[Slot(a(i))] \in T
        BY <4>1 DEF Taken
      <4>. QED
        BY <2>5, <4>1, <4>2
    <3>2. SwExt'[i] = SwExt[i]
      BY <1>9, <3>1
    <3>. QED
      BY <2>5, <3>2 DEF InRing
  <2>. HIDE DEF T
  <2>6. InRing' \subseteq InRing \ T
    BY <2>4 DEF InRing
  <2>7. InRing \ T \subseteq InRing'
    BY <2>5 DEF InRing
  <2>8. InRing' = InRing \ T
    BY <2>6, <2>7
  <2>9. Away' = Away \cup T /\ T \subseteq InRing
    BY DEF T
  <2>10. InRing' \cap Away' = {} /\ InRing' \cup Away' = Frames
    BY <2>2, <2>8, <2>9
  <2>11. \A i, j \in Ring : SwExt'[i] = SwExt'[j] /\ SwExt'[i] # NULL => i = j
    BY <2>1, <2>3
  <2>. QED
    BY <2>10, <2>11 DEF SlotsApart, Frames
<1>14. ReceivedBefore(r - m)'
  <2>1. ASSUME NEW i \in Ring PROVE desc[i] = "empty" <=> b(i) \in r - m .. (D - m) - 1
    <3>1. desc[i] = "empty" <=> a(i) \in r .. D - 1
      BY <1>1 DEF ReceivedBefore
    <3>2. /\ a(i) \in Nat /\ b(i) \in Nat /\ (b(i) < D - m <=> m <= a(i) /\ a(i) < D)
          /\ (m <= a(i) /\ a(i) < D => b(i) = a(i) - m)
      BY <1>7, <1>8
    <3>. HIDE DEF a, b, D
    <3>3. a(i) \in r .. D - 1 <=> b(i) \in r - m .. (D - m) - 1
      BY <1>2, <3>2
    <3>. QED
      BY <3>1, <3>3
  <2>2. r - m < D - m => hw.rdar
    <3>1. r < D => hw.rdar
      BY <1>1 DEF ReceivedBefore
    <3>2. r - m < D - m => r < D
      BY <1>2
    <3>. QED
      BY <3>1, <3>2
  <2>3. \A i \in Ring : desc'[i] = "empty" <=> Ahead(PendingIdx', i) \in r - m .. DmaOwned' - 1
    BY <1>11, <2>1
  <2>4. hw'.idx = Wrap(PendingIdx' + (r - m)) /\ (r - m < DmaOwned' => hw'.rdar)
    BY <1>6, <1>11, <2>2
  <2>. QED
    BY <2>3, <2>4 DEF ReceivedBefore
<1>15. DmaOwned' + NdisOwned' = ItemCount /\ NdisOwned' \in Int /\ DmaOwned' \in Int
  <2>1. NdisOwned \in Int /\ D + NdisOwned = ItemCount /\ NdisOwned' = NdisOwned + m
    BY DEF RingTypes, RingParts
  <2>. HIDE DEF D
  <2>. QED
    BY <1>2, <1>11, <2>1
<1>16. RingParts'
  <2>1. FreeIdx' = Wrap(PendingIdx' + DmaOwned') /\ DmaOwned' \in 0 .. ItemCount
        /\ r - m \in 0 .. DmaOwned'
    BY <1>3, <1>6, <1>11
  <2>. QED
    BY <1>12, <1>13, <1>14, <1>15, <2>1 DEF RingParts
<1>17. SwExt' \in [Ring -> Frames \cup {NULL}]
  BY DEF Emptied, RingTypes
<1>. QED
  BY <1>5, <1>11, <1>15, <1>16, <1>17 DEF RingTypes

-----------------------------------------------------------------------------
(* The steps.                                                              *)

\* A step of the ISR or the DPC that moves no frame.
LEMMA QuietStep ==
  ASSUME Inv, HwType', saved' \in BOOLEAN, dpc' \in Record, Stages',
         UNCHANGED <<NdisStatus, EnetStarted, SwExt, desc, FreeIdx, PendingIdx,
                     DmaOwned, NdisOwned, ndis, sm>>,
         dpc'.errors = dpc.errors, dpc'.async = dpc.async, dpc'.sync = dpc.sync,
         hw'.idx = hw.idx, hw'.rdar = hw.rdar
  PROVE  Inv'
<1>1. Away' = Away
  BY DEF Away
<1>2. Apart' /\ AwayCounted'
  BY DEF Inv, Apart, AwayCounted
<1>3. States'
  BY <1>1 DEF Inv, States
<1>4. RingTypes' /\ Others'
  BY DEF Inv, RingTypes, Others
<1>5. EnetStarted' => RingParts'
  BY <1>1, RingSame DEF Inv
<1>. QED
  BY <1>2, <1>3, <1>4, <1>5 DEF Inv

\* A step that returns frames from outside of the ring.
LEMMA ReturnStep ==
  ASSUME Inv, NEW chain \in Seq(Frames), IsInjective(chain), Range(chain) \subseteq Away,
         MpReturnNetBufferLists(chain), UNCHANGED <<status, PendingIdx, saved, sm>>,
         dpc' \in Record, Stages', Apart', ndis' \subseteq ndis,
         Away' = Away \ Range(chain),
         NdisOwned - Len(chain)
           = Cardinality(ndis') + Len(dpc'.errors) + Len(dpc'.async) + Len(dpc'.sync)
  PROVE  Inv'
<1>1. /\ IsFiniteSet(Away) /\ Cardinality(Away) = NdisOwned /\ NdisOwned \in Nat
  BY AwayCardinality DEF Inv
<1>2. Len(chain) \in Nat /\ Cardinality(Range(chain)) = Len(chain)
  BY ListCardinality, ListType
<1>3. Len(chain) <= NdisOwned
  BY <1>1, <1>2, FS_Subset
<1>4. EnetStarted => /\ DmaOwned \in 0 .. ItemCount /\ DmaOwned + Len(chain) <= ItemCount
                     /\ FreeIdx = Wrap(PendingIdx + DmaOwned)
  <2>. SUFFICES ASSUME EnetStarted
                PROVE  /\ DmaOwned \in 0 .. ItemCount /\ DmaOwned + Len(chain) <= ItemCount
                       /\ FreeIdx = Wrap(PendingIdx + DmaOwned)
    OBVIOUS
  <2>1. /\ DmaOwned \in 0 .. ItemCount /\ DmaOwned + NdisOwned = ItemCount
        /\ FreeIdx = Wrap(PendingIdx + DmaOwned)
    BY DEF Inv, RingParts
  <2>. QED
    BY <1>1, <1>2, <1>3, <2>1, RingAssumption
<1>5. RingTypes' /\ HwType'
  BY <1>4, ReturnedTypes DEF Inv
<1>6. /\ DmaOwned' = DmaOwned + Len(chain) /\ NdisOwned' = NdisOwned - Len(chain)
      /\ UNCHANGED <<NdisStatus, EnetStarted, PendingIdx, saved, sm>>
  BY DEF MpReturnNetBufferLists, status
<1>7. EnetStarted' => RingParts'
  BY <1>4, <1>6, ReturnedRing DEF Inv
<1>8. AwayCounted'
  BY <1>6 DEF AwayCounted
<1>9. States'
  <2>1. sm.state = "paused" => Away' = {} /\ DmaOwned' = DmaOwned
    <3>. SUFFICES ASSUME sm.state = "paused" PROVE Away' = {} /\ DmaOwned' = DmaOwned
      OBVIOUS
    <3>1. Range(chain) = {}
      BY DEF Inv, States
    <3>2. Len(chain) = 0
      BY <1>2, <3>1, FS_EmptySet
    <3>3. DmaOwned \in Int
      BY DEF Inv, RingTypes
    <3>. QED
      BY <1>6, <3>2, <3>3 DEF Inv, States
  <2>2. ~EnetStarted /\ NdisStatus = "SUCCESS" => sm.state = "paused"
    BY DEF Inv, States, Others
  <2>. QED
    BY <1>6, <2>1, <2>2 DEF Inv, States
<1>10. Others'
  BY <1>6 DEF Inv, Others
<1>. QED
  BY <1>5, <1>7, <1>8, <1>9, <1>10 DEF Inv

\* NDIS keeps finitely many frames.
LEMMA NdisFinite ==
  ASSUME Others
  PROVE  ndis \subseteq Frames /\ IsFiniteSet(ndis) /\ Cardinality(ndis) \in Nat
<1>1. ndis \subseteq Frames
  BY DEF Others
<1>2. IsFiniteSet(Frames)
  BY RingAssumption, FS_Interval DEF Frames, Ring
<1>3. IsFiniteSet(ndis)
  BY <1>1, <1>2, FS_Subset
<1>. QED
  BY <1>1, <1>3, FS_CardinalityType

\* NDIS returns different frames of the ones it keeps.
LEMMA NdisReturnStep ==
  ASSUME Inv, NdisReturn
  PROVE  Inv'
<1>1. PICK chain \in Chains :
        /\ ndis' = ndis \ Members(chain) /\ MpReturnNetBufferLists(chain)
        /\ UNCHANGED <<status, PendingIdx, dpc, saved, sm>>
  BY DEF NdisReturn
<1>2. PICK n \in 1 .. Cardinality(ndis) :
        chain \in [1 .. n -> ndis] /\ Cardinality(Members(chain)) = n
  BY DEF Chains
<1>3. ndis \subseteq Frames /\ IsFiniteSet(ndis) /\ Cardinality(ndis) \in Nat /\ n \in Nat
  BY NdisFinite DEF Inv
<1>4. chain \in Seq(ndis) /\ chain \in Seq(Frames) /\ Len(chain) = n /\ DOMAIN chain = 1 .. n
  BY <1>2, <1>3
<1>5. Members(chain) = Range(chain)
  BY <1>4, MembersRange
<1>6. Range(chain) \subseteq ndis
  BY <1>2, <1>4 DEF Range
<1>7. IsInjective(chain)
  <2>1. IsFiniteSet(1 .. n) /\ Cardinality(1 .. n) = n
    BY <1>3, FS_Interval
  <2>2. chain \in Surjection(1 .. n, Range(chain))
    <3>1. chain \in [1 .. n -> Range(chain)]
      BY <1>2, <1>4 DEF Range
    <3>2. \A y \in Range(chain) : \E i \in 1 .. n : chain[i] = y
      BY <1>4 DEF Range
    <3>. QED
      BY <3>1, <3>2 DEF Surjection
  <2>3. Cardinality(1 .. n) = Cardinality(Range(chain))
    BY <1>2, <1>5, <2>1
  <2>4. chain \in Injection(1 .. n, Range(chain))
    BY <2>1, <2>2, <2>3, FS_SurjSameCardinalityImpliesInj
  <2>. QED
    BY <2>4 DEF Injection
<1>8. ndis' = ndis \ Range(chain) /\ dpc' = dpc
  BY <1>1, <1>5
<1>9. Cardinality(ndis') = Cardinality(ndis) - n
  <2>1. ndis \cap Range(chain) = Range(chain)
    BY <1>6
  <2>2. Cardinality(ndis \ Range(chain)) = Cardinality(ndis) - Cardinality(ndis \cap Range(chain))
    BY <1>3, FS_Difference
  <2>. QED
    BY <1>2, <1>5, <1>8, <2>1, <2>2
<1>10. Apart /\ AwayCounted /\ Stages /\ dpc \in Record
  BY DEF Inv
<1>11. Apart' /\ Stages' /\ dpc' \in Record
  <2>1. Apart'
    BY <1>8, <1>10 DEF Apart
  <2>2. Stages'
    BY <1>8, <1>10 DEF Stages
  <2>. QED
    BY <1>8, <1>10, <2>1, <2>2
<1>12. Away' = Away \ Range(chain) /\ Range(chain) \subseteq Away
  BY <1>6, <1>8, <1>10 DEF Apart, Away
<1>13. NdisOwned - Len(chain)
         = Cardinality(ndis') + Len(dpc'.errors) + Len(dpc'.async) + Len(dpc'.sync)
  <2>1. /\ Len(dpc.errors) \in Nat /\ Len(dpc.async) \in Nat /\ Len(dpc.sync) \in Nat
        /\ NdisOwned = Cardinality(ndis) + Len(dpc.errors) + Len(dpc.async) + Len(dpc.sync)
    BY <1>10 DEF Record, AwayCounted
  <2>2. Cardinality(ndis') + Len(dpc.errors) + Len(dpc.async) + Len(dpc.sync)
          = NdisOwned - Len(chain)
    <3>. DEFINE c == Cardinality(ndis)
                e == Len(dpc.errors)
                a == Len(dpc.async)
                l == Len(dpc.sync)
    <3>1. /\ c \in Nat /\ e \in Nat /\ a \in Nat /\ l \in Nat /\ n \in Nat
          /\ NdisOwned = c + e + a + l /\ Cardinality(ndis') = c - n /\ Len(chain) = n
      BY <1>3, <1>4, <1>9, <2>1
    <3>. HIDE DEF c, e, a, l
    <3>2. Cardinality(ndis') + e + a + l = NdisOwned - Len(chain)
      BY <3>1
    <3>. QED
      BY <3>2 DEF e, a, l
  <2>. QED
    BY <1>8, <2>2
<1>14. ndis' \subseteq ndis
  BY <1>8
<1>. QED
  BY <1>1, <1>4, <1>7, <1>11, <1>12, <1>13, <1>14, ReturnStep

\* MpHandleRecvInterrupt takes the frames of m slots and sorts them into its lists.
LEMMA TakeStep ==
  ASSUME Inv, dpc.pc = "recv", Ready, NEW m \in 0 .. ItemCount, NEW max, Take(m, max),
         UNCHANGED <<status, desc, FreeIdx, ndis, saved, sm, hw>>
  PROVE  Inv'
<1>. DEFINE good  == {d \in 0 .. m - 1 : desc[Slot(d)] = "good"}
            error == {d \in 0 .. m - 1 : desc[Slot(d)] = "error"}
            lent  == {d \in good : Low(DmaOwned - d - 1)}
            K == 0 .. m - 1
<1>1. /\ \A d \in K : Received(d)
      /\ SwExt' = Emptied(m) /\ PendingIdx' = Wrap(PendingIdx + m)
      /\ DmaOwned' = DmaOwned - m /\ NdisOwned' = NdisOwned + m
      /\ \E e \in InOrder(error), a \in InOrder(good \ lent), s \in InOrder(lent) :
           dpc' = [pc |-> "errors", errors |-> Reversed(TakenFrames(e)),
                   async |-> TakenFrames(a), sync |-> TakenFrames(s),
                   more |-> m < ItemCount /\ Received(m)]
  BY DEF Take, Counted
<1>2. PICK e \in InOrder(error) : \E a \in InOrder(good \ lent), s \in InOrder(lent) :
        dpc' = [pc |-> "errors", errors |-> Reversed(TakenFrames(e)),
                async |-> TakenFrames(a), sync |-> TakenFrames(s),
                more |-> m < ItemCount /\ Received(m)]
  BY <1>1
<1>3. PICK a \in InOrder(good \ lent) : \E s \in InOrder(lent) :
        dpc' = [pc |-> "errors", errors |-> Reversed(TakenFrames(e)),
                async |-> TakenFrames(a), sync |-> TakenFrames(s),
                more |-> m < ItemCount /\ Received(m)]
  BY <1>2
<1>4. PICK s \in InOrder(lent) :
        dpc' = [pc |-> "errors", errors |-> Reversed(TakenFrames(e)),
                async |-> TakenFrames(a), sync |-> TakenFrames(s),
                more |-> m < ItemCount /\ Received(m)]
  BY <1>3
<1>5. ~EnetStarted => DmaOwned = 0
  BY DEF Inv, States, Ready
<1>6. /\ m \in Nat /\ TakenApart(m) /\ (~EnetStarted => m = 0)
      /\ EnetStarted => /\ \A r \in 0 .. DmaOwned : ReceivedBefore(r) => m <= r
                        /\ Taken(0 .. m - 1) \subseteq InRing
  BY <1>1, <1>5, TakenAre DEF Inv
<1>7. /\ lent \subseteq good /\ good \cap error = {} /\ good \cup error = K
  <2>1. \A d \in K : desc[Slot(d)] = "good" \/ desc[Slot(d)] = "error"
    <3>. SUFFICES ASSUME NEW d \in K PROVE desc[Slot(d)] = "good" \/ desc[Slot(d)] = "error"
      OBVIOUS
    <3>1. Received(d)
      BY <1>1
    <3>2. desc[Slot(d)] # "empty" /\ DmaOwned > d
      BY <3>1 DEF Received
    <3>3. Slot(d) \in Ring
      <4>1. PendingIdx \in Ring /\ d \in 0 .. ItemCount
        BY <1>6, RingAssumption DEF Inv, RingTypes
      <4>. QED
        BY <4>1, WrapInRing DEF Slot
    <3>. QED
      BY <3>2, <3>3 DEF Inv, RingTypes
  <2>. QED
    BY <2>1
<1>. HIDE DEF good, error, lent
<1>8. /\ error \in SUBSET K /\ good \ lent \in SUBSET K /\ lent \in SUBSET K
      /\ error \cap (good \ lent) = {} /\ (error \cup (good \ lent)) \cap lent = {}
      /\ (error \cup (good \ lent)) \cup lent = K
      /\ Cardinality(error) + Cardinality(good \ lent) + Cardinality(lent) = m
  <2>1. Cardinality(error) + Cardinality(good \ lent) + Cardinality(lent) = m
    BY <1>6, <1>7, ThreeLists
  <2>. QED
    BY <1>7, <2>1
<1>9. /\ Listing(TakenFrames(e), Frames, Cardinality(error), Taken(error))
      /\ Listing(TakenFrames(a), Frames, Cardinality(good \ lent), Taken(good \ lent))
      /\ Listing(TakenFrames(s), Frames, Cardinality(lent), Taken(lent))
  BY <1>6, <1>8, TakenList
<1>10. Listing(Reversed(TakenFrames(e)), Frames, Cardinality(error), Taken(error))
  <2>1. TakenFrames(e) \in Seq(Frames)
    BY <1>9 DEF Listing
  <2>. QED
    BY <1>9, <2>1, ReversedList
<1>11. /\ dpc'.pc = "errors" /\ dpc'.more \in BOOLEAN
       /\ Listing(dpc'.errors, Frames, Cardinality(error), Taken(error))
       /\ Listing(dpc'.async, Frames, Cardinality(good \ lent), Taken(good \ lent))
       /\ Listing(dpc'.sync, Frames, Cardinality(lent), Taken(lent))
  <2>1. /\ dpc'.errors = Reversed(TakenFrames(e)) /\ dpc'.async = TakenFrames(a)
        /\ dpc'.sync = TakenFrames(s) /\ dpc'.pc = "errors" /\ dpc'.more \in BOOLEAN
    BY <1>4
  <2>. QED
    BY <1>9, <1>10, <2>1
<1>12. dpc' \in Record
  <2>1. dpc' = [pc |-> dpc'.pc, errors |-> dpc'.errors, async |-> dpc'.async,
                sync |-> dpc'.sync, more |-> dpc'.more]
    BY <1>4
  <2>. QED
    BY <1>11, <2>1 DEF Record, Listing
<1>13. Stages'
  BY <1>11 DEF Stages
<1>14. ndis' = ndis /\ Away = ndis /\ UNCHANGED <<NdisStatus, EnetStarted, saved, sm, hw, desc, FreeIdx>>
  <2>1. dpc.errors = <<>> /\ dpc.async = <<>> /\ dpc.sync = <<>>
    BY DEF Inv, Stages
  <2>2. Range(dpc.errors) = {} /\ Range(dpc.async) = {} /\ Range(dpc.sync) = {}
    BY <2>1, EmptyList
  <2>3. Away = ndis
    BY <2>2 DEF Away
  <2>. QED
    BY <2>3 DEF status
<1>15. /\ Taken(error) \cap Taken(good \ lent) = {}
       /\ (Taken(error) \cup Taken(good \ lent)) \cap Taken(lent) = {}
       /\ (Taken(error) \cup Taken(good \ lent)) \cup Taken(lent) = Taken(K)
  <2>. DEFINE kept == good \ lent
              both == error \cup kept
  <2>1. /\ error \in SUBSET K /\ kept \in SUBSET K /\ lent \in SUBSET K /\ both \in SUBSET K
        /\ error \cap kept = {} /\ both \cap lent = {} /\ both \cup lent = K
    BY <1>8
  <2>. HIDE DEF kept
  <2>2. Taken(error) \cap Taken(kept) = {} /\ Taken(error) \cup Taken(kept) = Taken(both)
    BY <1>6, <2>1, TakenDisjoint, ZenonT(60)
  <2>. HIDE DEF both
  <2>3. Taken(both) \cap Taken(lent) = {} /\ Taken(both) \cup Taken(lent) = Taken(both \cup lent)
    BY <1>6, <2>1, TakenDisjoint, ZenonT(60)
  <2>4. Taken(both) \cup Taken(lent) = Taken(K)
    BY <2>1, <2>3
  <2>. QED
    BY <2>2, <2>3, <2>4 DEF kept
<1>16. /\ Range(dpc'.errors) = Taken(error) /\ Range(dpc'.async) = Taken(good \ lent)
       /\ Range(dpc'.sync) = Taken(lent)
  BY <1>11 DEF Listing
<1>17. Away' = Away \cup Taken(K)
  BY <1>14, <1>15, <1>16 DEF Away
<1>18. Taken(K) \cap Away = {}
  <2>1. CASE EnetStarted
    <3>1. InRing \cap Away = {}
      BY <2>1 DEF Inv, RingParts, SlotsApart
    <3>. QED
      BY <1>6, <2>1, <3>1
  <2>2. CASE ~EnetStarted
    <3>1. K = {}
      BY <1>6, <2>2
    <3>. QED
      BY <3>1 DEF Taken
  <2>. QED
    BY <2>1, <2>2
<1>19. Apart'
  <2>1. IsInjective(dpc'.errors) /\ IsInjective(dpc'.async) /\ IsInjective(dpc'.sync)
    BY <1>11 DEF Listing
  <2>2. ndis' \cap (Taken(error) \cup Taken(good \ lent) \cup Taken(lent)) = {}
    BY <1>14, <1>15, <1>18
  <2>. QED
    BY <1>15, <1>16, <2>1, <2>2 DEF Apart
<1>20. NdisOwned \in Nat
  BY AwayCardinality DEF Inv
<1>21. AwayCounted'
  <2>1. /\ Len(dpc'.errors) = Cardinality(error) /\ Len(dpc'.async) = Cardinality(good \ lent)
        /\ Len(dpc'.sync) = Cardinality(lent)
    BY <1>11 DEF Listing
  <2>2. Len(dpc'.errors) \in Nat /\ Len(dpc'.async) \in Nat /\ Len(dpc'.sync) \in Nat
    BY <1>11, ListType DEF Listing
  <2>3. NdisOwned = Cardinality(ndis)
    <3>1. Cardinality(Away) = NdisOwned
      BY AwayCardinality DEF Inv
    <3>. QED
      BY <1>14, <3>1
  <2>. DEFINE x == Len(dpc'.errors)
              y == Len(dpc'.async)
              z == Len(dpc'.sync)
              c == Cardinality(ndis')
  <2>4. /\ x \in Nat /\ y \in Nat /\ z \in Nat /\ c \in Nat /\ x + y + z = m
        /\ NdisOwned' = c + m
    BY <1>1, <1>8, <1>14, <1>20, <2>1, <2>2, <2>3
  <2>. HIDE DEF x, y, z, c
  <2>5. NdisOwned' = c + x + y + z
    BY <2>4
  <2>. QED
    BY <2>5 DEF AwayCounted, c, x, y, z
<1>22. RingTypes' /\ (EnetStarted' => RingParts')
  <2>1. CASE EnetStarted
    <3>1. RingTypes' /\ RingParts'
      BY <1>1, <1>6, <1>14, <1>17, <2>1, TakenRing DEF Inv
    <3>. QED
      BY <3>1
  <2>2. CASE ~EnetStarted
    <3>1. m = 0 /\ PendingIdx \in Ring
      BY <1>6, <2>2 DEF Inv, RingTypes
    <3>2. PendingIdx' \in Ring
      BY <1>1, WrapInRing, <3>1
    <3>3. SwExt' \in [Ring -> Frames \cup {NULL}] /\ NdisOwned' \in Int /\ DmaOwned' \in Int
      BY <1>1, <1>6 DEF Emptied, Inv, RingTypes
    <3>. QED
      BY <1>14, <2>2, <3>2, <3>3 DEF Inv, RingTypes
  <2>. QED
    BY <2>1, <2>2
<1>23. States'
  <2>1. ~EnetStarted => Away' = Away /\ DmaOwned' = DmaOwned
    <3>. SUFFICES ASSUME ~EnetStarted PROVE Away' = Away /\ DmaOwned' = DmaOwned
      OBVIOUS
    <3>1. K = {} /\ m = 0
      BY <1>6
    <3>2. Taken(K) = {}
      BY <3>1 DEF Taken
    <3>. QED
      BY <1>1, <1>5, <1>17, <3>1, <3>2
  <2>2. sm.state = "paused" => ~EnetStarted
    BY DEF Inv, States
  <2>. QED
    BY <1>14, <2>1, <2>2 DEF Inv, States
<1>24. HwType' /\ Others'
  BY <1>14 DEF Inv, HwType, Others
<1>. QED
  BY <1>12, <1>13, <1>19, <1>21, <1>22, <1>23, <1>24 DEF Inv

\* Frames received with an error are returned at once.
LEMMA ReturnErrorsStep ==
  ASSUME Inv, ReturnErrors
  PROVE  Inv'
<1>1. /\ dpc.pc = "errors" /\ MpReturnNetBufferLists(dpc.errors)
      /\ dpc' = [dpc EXCEPT !.pc = "indicate", !.errors = <<>>]
      /\ UNCHANGED <<status, PendingIdx, ndis, saved, sm>>
  BY DEF ReturnErrors
<1>2. Apart /\ AwayCounted /\ dpc \in Record
  BY DEF Inv
<1>3. /\ dpc'.pc = "indicate" /\ dpc'.errors = <<>> /\ dpc'.async = dpc.async
      /\ dpc'.sync = dpc.sync
  BY <1>1, <1>2 DEF Record
<1>4. dpc' \in Record
  BY <1>1, <1>2, EmptyList DEF Record
<1>5. dpc.errors \in Seq(Frames) /\ IsInjective(dpc.errors)
  BY <1>2 DEF Record, Apart
<1>6. Range(dpc'.errors) = {} /\ IsInjective(dpc'.errors) /\ Len(dpc'.errors) = 0
  BY <1>3, EmptyList
<1>7. Apart'
  BY <1>1, <1>2, <1>3, <1>6 DEF Apart
<1>8. Away' = Away \ Range(dpc.errors) /\ Range(dpc.errors) \subseteq Away
  BY <1>1, <1>2, <1>3, <1>6 DEF Apart, Away
<1>9. Stages'
  BY <1>3 DEF Stages
<1>10. NdisOwned - Len(dpc.errors)
         = Cardinality(ndis') + Len(dpc'.errors) + Len(dpc'.async) + Len(dpc'.sync)
  <2>1. /\ Len(dpc.errors) \in Nat /\ Len(dpc.async) \in Nat /\ Len(dpc.sync) \in Nat
        /\ NdisOwned = Cardinality(ndis) + Len(dpc.errors) + Len(dpc.async) + Len(dpc.sync)
    BY <1>2 DEF Record, AwayCounted
  <2>2. Cardinality(ndis) \in Nat
    BY NdisFinite DEF Inv
  <2>. DEFINE c == Cardinality(ndis)
              e == Len(dpc.errors)
              a == Len(dpc.async)
              l == Len(dpc.sync)
  <2>. HIDE DEF c, e, a, l
  <2>3. NdisOwned - e = c + 0 + a + l
    BY <2>1, <2>2, SMTT(30) DEF c, e, a, l
  <2>. QED
    BY <1>1, <1>3, <1>6, <2>3 DEF c, e, a, l
<1>11. ndis' \subseteq ndis
  BY <1>1
<1>. QED
  BY <1>1, <1>4, <1>5, <1>7, <1>8, <1>9, <1>10, <1>11, ReturnStep

\* Frames that NDIS has only borrowed are returned after the indication.
LEMMA ReturnSyncStep ==
  ASSUME Inv, ReturnSync
  PROVE  Inv'
<1>1. /\ dpc.pc = "sync" /\ MpReturnNetBufferLists(dpc.sync)
      /\ dpc' = [dpc EXCEPT !.pc = IF dpc.more THEN "throttled" ELSE "enable", !.sync = <<>>]
      /\ UNCHANGED <<status, PendingIdx, ndis, saved, sm>>
  BY DEF ReturnSync
<1>2. Apart /\ AwayCounted /\ dpc \in Record /\ Stages
  BY DEF Inv
<1>3. /\ dpc'.pc \in {"throttled", "enable"} /\ dpc'.errors = dpc.errors
      /\ dpc'.async = dpc.async /\ dpc'.sync = <<>>
  BY <1>1, <1>2 DEF Record
<1>4. dpc' \in Record
  BY <1>1, <1>2, EmptyList DEF Record
<1>5. dpc.sync \in Seq(Frames) /\ IsInjective(dpc.sync)
  BY <1>2 DEF Record, Apart
<1>6. Range(dpc'.sync) = {} /\ IsInjective(dpc'.sync) /\ Len(dpc'.sync) = 0
  BY <1>3, EmptyList
<1>7. Apart'
  BY <1>1, <1>2, <1>3, <1>6 DEF Apart
<1>8. Away' = Away \ Range(dpc.sync) /\ Range(dpc.sync) \subseteq Away
  BY <1>1, <1>2, <1>3, <1>6 DEF Apart, Away
<1>9. Stages'
  BY <1>1, <1>2, <1>3 DEF Stages
<1>10. NdisOwned - Len(dpc.sync)
         = Cardinality(ndis') + Len(dpc'.errors) + Len(dpc'.async) + Len(dpc'.sync)
  <2>1. /\ Len(dpc.errors) \in Nat /\ Len(dpc.async) \in Nat /\ Len(dpc.sync) \in Nat
        /\ NdisOwned = Cardinality(ndis) + Len(dpc.errors) + Len(dpc.async) + Len(dpc.sync)
    BY <1>2 DEF Record, AwayCounted
  <2>2. Cardinality(ndis) \in Nat
    BY NdisFinite DEF Inv
  <2>. DEFINE c == Cardinality(ndis)
              e == Len(dpc.errors)
              a == Len(dpc.async)
              l == Len(dpc.sync)
  <2>. HIDE DEF c, e, a, l
  <2>3. NdisOwned - l = c + e + a + 0
    BY <2>1, <2>2, SMTT(30) DEF c, e, a, l
  <2>. QED
    BY <1>1, <1>3, <1>6, <2>3 DEF c, e, a, l
<1>11. ndis' \subseteq ndis
  BY <1>1
<1>. QED
  BY <1>1, <1>4, <1>5, <1>7, <1>8, <1>9, <1>10, <1>11, ReturnStep

\* NDIS gets the frames that it will return itself.
LEMMA IndicateStep ==
  ASSUME Inv, Indicate
  PROVE  Inv'
<1>1. /\ dpc.pc = "indicate" /\ ndis' = ndis \cup Members(dpc.async)
      /\ dpc' = [dpc EXCEPT !.pc = "sync", !.async = <<>>]
      /\ UNCHANGED <<NdisStatus, EnetStarted, SwExt, desc, FreeIdx, PendingIdx,
                     DmaOwned, NdisOwned, saved, sm, hw>>
  BY DEF Indicate, status, ring, counts
<1>2. Apart /\ AwayCounted /\ dpc \in Record /\ Stages /\ ndis \subseteq Frames
  BY DEF Inv, Others
<1>3. /\ dpc'.pc = "sync" /\ dpc'.errors = dpc.errors /\ dpc'.async = <<>>
      /\ dpc'.sync = dpc.sync
  BY <1>1, <1>2 DEF Record
<1>4. dpc' \in Record
  BY <1>1, <1>2, EmptyList DEF Record
<1>5. dpc.async \in Seq(Frames) /\ IsInjective(dpc.async)
  BY <1>2 DEF Record, Apart
<1>6. ndis' = ndis \cup Range(dpc.async)
  BY <1>1, <1>5, MembersRange
<1>7. Range(dpc'.async) = {} /\ IsInjective(dpc'.async) /\ Len(dpc'.async) = 0
  BY <1>3, EmptyList
<1>8. Apart'
  BY <1>2, <1>3, <1>6, <1>7 DEF Apart
<1>9. Away' = Away
  BY <1>3, <1>6, <1>7 DEF Away
<1>10. Stages'
  BY <1>1, <1>2, <1>3 DEF Stages
<1>11. ndis' \subseteq Frames
  <2>1. Range(dpc.async) \subseteq Frames
    BY <1>5, ListType DEF Range
  <2>. QED
    BY <1>2, <1>6, <2>1
<1>12. AwayCounted'
  <2>1. IsFiniteSet(Range(dpc.async)) /\ Cardinality(Range(dpc.async)) = Len(dpc.async)
    BY <1>5, ListCardinality
  <2>2. IsFiniteSet(ndis) /\ Cardinality(ndis) \in Nat
    BY NdisFinite DEF Inv
  <2>3. ndis \cap Range(dpc.async) = {}
    BY <1>2 DEF Apart
  <2>4. Cardinality(ndis') = Cardinality(ndis) + Len(dpc.async)
    BY <1>6, <2>1, <2>2, <2>3, DisjointUnion
  <2>5. /\ Len(dpc.errors) \in Nat /\ Len(dpc.async) \in Nat /\ Len(dpc.sync) \in Nat
        /\ NdisOwned = Cardinality(ndis) + Len(dpc.errors) + Len(dpc.async) + Len(dpc.sync)
    BY <1>2 DEF Record, AwayCounted
  <2>. DEFINE c == Cardinality(ndis)
              e == Len(dpc.errors)
              a == Len(dpc.async)
              l == Len(dpc.sync)
  <2>. HIDE DEF c, e, a, l
  <2>6. NdisOwned = (c + a) + e + 0 + l
    BY <2>2, <2>5 DEF c, e, a, l
  <2>. QED
    BY <1>1, <1>3, <1>7, <2>4, <2>6 DEF AwayCounted, c, e, a, l
<1>13. States'
  BY <1>1, <1>9 DEF Inv, States
<1>14. EnetStarted' => RingParts'
  BY <1>1, <1>9, RingSame DEF Inv
<1>15. RingTypes' /\ HwType' /\ Others'
  BY <1>1, <1>11 DEF Inv, RingTypes, HwType, Others
<1>. QED
  BY <1>4, <1>8, <1>10, <1>12, <1>13, <1>14, <1>15 DEF Inv

\* The interrupt, and the steps of the DPC before and after it moves frames.
LEMMA QuietSteps ==
  ASSUME Inv, EnetIsr \/ EnetDpc \/ Throttled \/ DpcEnable
  PROVE  Inv'
<1>1. dpc \in Record /\ Stages /\ HwType /\ saved \in BOOLEAN
  BY DEF Inv, Others
<1>2. CASE EnetIsr
  <2>1. dpc' = dpc /\ saved' = saved /\ hw' = [hw EXCEPT !.eimr = FALSE, !.due = TRUE]
    BY <1>2 DEF EnetIsr
  <2>2. HwType' /\ hw'.idx = hw.idx /\ hw'.rdar = hw.rdar
    BY <1>1, <2>1 DEF HwType
  <2>3. Stages'
    BY <1>1, <2>1 DEF Stages
  <2>. QED
    BY <1>1, <1>2, <2>1, <2>2, <2>3, QuietStep DEF EnetIsr, status, ring, counts
<1>3. CASE EnetDpc
  <2>1. /\ dpc' = [dpc EXCEPT !.pc = IF hw.eir \/ saved THEN "recv" ELSE "enable", !.more = FALSE]
        /\ saved' = FALSE /\ dpc.pc = "idle"
        /\ hw' = [hw EXCEPT !.eir = FALSE, !.due = FALSE]
    BY <1>3 DEF EnetDpc
  <2>2. HwType' /\ hw'.idx = hw.idx /\ hw'.rdar = hw.rdar
    BY <1>1, <2>1 DEF HwType
  <2>3. /\ dpc' \in Record /\ dpc'.errors = dpc.errors /\ dpc'.async = dpc.async
        /\ dpc'.sync = dpc.sync
    BY <1>1, <2>1 DEF Record
  <2>4. Stages'
    BY <1>1, <2>1, <2>3 DEF Stages
  <2>. QED
    BY <1>1, <1>3, <2>1, <2>2, <2>3, <2>4, QuietStep DEF EnetDpc, status, ring, counts
<1>4. CASE Throttled
  <2>1. /\ dpc' = [dpc EXCEPT !.pc = "idle"] /\ saved' \in BOOLEAN /\ dpc.pc = "throttled"
        /\ hw' = [hw EXCEPT !.due = TRUE]
    BY <1>4 DEF Throttled, KeptFlags
  <2>2. HwType' /\ hw'.idx = hw.idx /\ hw'.rdar = hw.rdar
    BY <1>1, <2>1 DEF HwType
  <2>3. /\ dpc' \in Record /\ dpc'.errors = dpc.errors /\ dpc'.async = dpc.async
        /\ dpc'.sync = dpc.sync
    BY <1>1, <2>1 DEF Record
  <2>4. Stages'
    BY <1>1, <2>1, <2>3 DEF Stages
  <2>. QED
    BY <1>1, <1>4, <2>1, <2>2, <2>3, <2>4, QuietStep DEF Throttled, status, ring, counts
<1>5. CASE DpcEnable
  <2>1. /\ dpc' = [dpc EXCEPT !.pc = "idle"] /\ saved' = saved /\ dpc.pc = "enable"
        /\ hw' = [hw EXCEPT !.eimr = TRUE]
    BY <1>5 DEF DpcEnable
  <2>2. HwType' /\ hw'.idx = hw.idx /\ hw'.rdar = hw.rdar
    BY <1>1, <2>1 DEF HwType
  <2>3. /\ dpc' \in Record /\ dpc'.errors = dpc.errors /\ dpc'.async = dpc.async
        /\ dpc'.sync = dpc.sync
    BY <1>1, <2>1 DEF Record
  <2>4. Stages'
    BY <1>1, <2>1, <2>3 DEF Stages
  <2>. QED
    BY <1>1, <1>5, <2>1, <2>2, <2>3, <2>4, QuietStep DEF DpcEnable, status, ring, counts
<1>. QED
  BY <1>2, <1>3, <1>4, <1>5

\* The section of the DPC under Rx_SpinLock, also when the adapter may not receive.
LEMMA RecvInterruptStep ==
  ASSUME Inv, MpHandleRecvInterrupt
  PROVE  Inv'
<1>1. dpc.pc = "recv" /\ UNCHANGED <<status, desc, FreeIdx, ndis, saved, sm, hw>>
  BY DEF MpHandleRecvInterrupt
<1>2. CASE Ready
  <2>1. PICK m \in 0 .. ItemCount, max \in Throttles : Take(m, max)
    BY <1>2 DEF MpHandleRecvInterrupt
  <2>. QED
    BY <1>1, <1>2, <2>1, TakeStep
<1>3. CASE ~Ready
  <2>1. dpc' = [dpc EXCEPT !.pc = "enable"] /\ UNCHANGED <<SwExt, PendingIdx, counts>>
    BY <1>3 DEF MpHandleRecvInterrupt
  <2>2. dpc \in Record /\ Stages /\ HwType /\ saved \in BOOLEAN
    BY DEF Inv, Others
  <2>3. /\ dpc' \in Record /\ dpc'.errors = dpc.errors /\ dpc'.async = dpc.async
        /\ dpc'.sync = dpc.sync /\ dpc'.pc = "enable"
    BY <2>1, <2>2 DEF Record
  <2>4. Stages'
    BY <1>1, <2>2, <2>3 DEF Stages
  <2>5. HwType' /\ hw'.idx = hw.idx /\ hw'.rdar = hw.rdar /\ saved' \in BOOLEAN
    BY <1>1, <2>2 DEF HwType
  <2>. QED
    BY <1>1, <2>1, <2>3, <2>4, <2>5, QuietStep DEF status, counts
<1>. QED
  BY <1>2, <1>3

\* Nothing outside of the ring: the lists are empty and NDIS has nothing.
LEMMA NothingAway ==
  ASSUME Inv
  PROVE  /\ Away = {} => /\ ndis = {} /\ Len(dpc.errors) = 0 /\ Len(dpc.async) = 0
                         /\ Len(dpc.sync) = 0
         /\ NdisOwned = 0 => Away = {}
<1>1. ASSUME Away = {}
      PROVE  ndis = {} /\ Len(dpc.errors) = 0 /\ Len(dpc.async) = 0 /\ Len(dpc.sync) = 0
  <2>1. ndis = {} /\ Range(dpc.errors) = {} /\ Range(dpc.async) = {} /\ Range(dpc.sync) = {}
    BY <1>1 DEF Away
  <2>2. /\ dpc.errors \in Seq(Frames) /\ dpc.async \in Seq(Frames) /\ dpc.sync \in Seq(Frames)
        /\ IsInjective(dpc.errors) /\ IsInjective(dpc.async) /\ IsInjective(dpc.sync)
    BY DEF Inv, Record, Apart
  <2>3. /\ Cardinality(Range(dpc.errors)) = Len(dpc.errors)
        /\ Cardinality(Range(dpc.async)) = Len(dpc.async)
        /\ Cardinality(Range(dpc.sync)) = Len(dpc.sync)
    BY <2>2, ListCardinality
  <2>4. Cardinality({}) = 0
    BY FS_EmptySet
  <2>. QED
    BY <2>1, <2>3, <2>4
<1>2. NdisOwned = 0 => Away = {}
  <2>1. IsFiniteSet(Away) /\ Cardinality(Away) = NdisOwned
    BY AwayCardinality DEF Inv
  <2>. QED
    BY <2>1, FS_EmptySet
<1>. QED
  BY <1>1, <1>2

\* EnetStart, after a pause only.
LEMMA StartStep ==
  ASSUME Inv, ~Undrained, EnetStart
  PROVE  Inv'
<1>1. /\ sm.state = "paused" /\ NdisStatus' = "SUCCESS" /\ EnetStarted' = TRUE
      /\ saved' = FALSE /\ NdisOwned' = 0
      /\ sm' = [state |-> "running", starts |-> sm.starts + 1] /\ UNCHANGED <<ndis, dpc>>
  BY DEF EnetStart
<1>2. Away = {}
  BY <1>1 DEF Inv, States
<1>3. RingTypes' /\ HwType' /\ RingParts'
  BY <1>2, StartRing DEF Inv
<1>4. AwayCounted'
  <2>1. Cardinality(ndis) = 0
    BY <1>2, NothingAway, FS_EmptySet
  <2>2. 0 = 0 + 0 + 0 + 0
    OBVIOUS
  <2>. QED
    BY <1>1, <1>2, <2>1, <2>2, NothingAway DEF AwayCounted
<1>5. Others' /\ States'
  <2>1. sm'.state = "running" /\ sm' \in [state : {"stopped", "paused", "running"}, starts : Nat]
    BY <1>1 DEF Inv, Others
  <2>. QED
    BY <1>1, <2>1 DEF Inv, Others, States
<1>6. Stages' /\ Apart' /\ dpc' \in Record
  BY <1>1 DEF Inv, Stages, Apart
<1>. QED
  BY <1>3, <1>4, <1>5, <1>6 DEF Inv

\* EnetStop, and the poll that completes a pause.
LEMMA StopSteps ==
  ASSUME Inv, EnetStop \/ PausingPoll
  PROVE  Inv'
<1>1. UNCHANGED <<SwExt, desc, FreeIdx, PendingIdx, DmaOwned, NdisOwned, ndis, dpc, saved>>
  BY DEF EnetStop, PausingPoll, ring, counts
<1>2. RingTypes' /\ dpc' \in Record /\ Stages' /\ Apart' /\ AwayCounted'
  BY <1>1 DEF Inv, RingTypes, Stages, Apart, AwayCounted
<1>3. Away' = Away
  BY <1>1 DEF Away
<1>4. CASE EnetStop
  <2>1. /\ NdisStatus' = "PAUSED" /\ EnetStarted' = FALSE /\ sm' = [sm EXCEPT !.state = "stopped"]
        /\ hw' = [hw EXCEPT !.eir = FALSE, !.eimr = FALSE, !.rdar = FALSE]
    BY <1>4 DEF EnetStop
  <2>2. HwType'
    BY <2>1 DEF Inv, HwType
  <2>3. Others' /\ sm'.state = "stopped"
    BY <1>1, <2>1 DEF Inv, Others
  <2>4. States'
    BY <2>1, <2>3 DEF States
  <2>. QED
    BY <1>2, <2>1, <2>2, <2>3, <2>4 DEF Inv
<1>5. CASE PausingPoll
  <2>1. /\ UNCHANGED <<NdisStatus, EnetStarted, hw>> /\ NdisOwned = 0 /\ sm.state = "stopped"
        /\ sm' = [sm EXCEPT !.state = "paused"]
    BY <1>5 DEF PausingPoll, IsRxFramePandingInNdis, status
  <2>2. Others' /\ sm'.state = "paused"
    BY <1>1, <2>1 DEF Inv, Others
  <2>3. ~EnetStarted /\ NdisStatus = "PAUSED"
    BY <2>1 DEF Inv, States
  <2>4. Away' = {}
    BY <1>3, <2>1, NothingAway
  <2>5. States'
    BY <2>1, <2>2, <2>3, <2>4 DEF States
  <2>6. HwType'
    BY <2>1 DEF Inv, HwType
  <2>. QED
    BY <1>2, <2>1, <2>2, <2>3, <2>5, <2>6 DEF Inv
<1>. QED
  BY <1>4, <1>5

\* The MAC receives.
LEMMA ReceiveStep ==
  ASSUME Inv, HwReceive
  PROVE  Inv'
<1>1. /\ EnetStarted
      /\ UNCHANGED <<NdisStatus, EnetStarted, SwExt, FreeIdx, PendingIdx, DmaOwned,
                     NdisOwned, ndis, dpc, saved, sm>>
  BY DEF HwReceive, status, counts
<1>2. RingTypes' /\ HwType' /\ RingParts'
  BY <1>1, ReceiveRing DEF Inv
<1>3. Away' = Away
  BY <1>1 DEF Away
<1>4. dpc' \in Record /\ Stages' /\ Apart' /\ AwayCounted'
  BY <1>1 DEF Inv, Stages, Apart, AwayCounted
<1>5. Others' /\ States'
  BY <1>1, <1>3 DEF Inv, Others, States
<1>. QED
  BY <1>2, <1>4, <1>5 DEF Inv

-----------------------------------------------------------------------------
(* The theorems.                                                           *)

\* Before the first start NDIS and the DPC hold nothing and the ring is empty.
LEMMA InitInv ==
  ASSUME Init
  PROVE  Inv
<1>1. /\ NdisStatus = "SUCCESS" /\ EnetStarted = FALSE
      /\ SwExt = [i \in Ring |-> NULL] /\ desc = [i \in Ring |-> "good"]
      /\ FreeIdx = 0 /\ PendingIdx = 0 /\ DmaOwned = 0 /\ NdisOwned = 0 /\ ndis = {}
      /\ dpc = [pc |-> "idle", errors |-> <<>>, async |-> <<>>, sync |-> <<>>, more |-> FALSE]
      /\ saved = FALSE /\ sm = [state |-> "paused", starts |-> 0]
      /\ hw = [eir |-> FALSE, eimr |-> FALSE, rdar |-> FALSE, idx |-> 0, due |-> FALSE]
  BY DEF Init
<1>2. 0 \in Ring
  BY RingAssumption DEF Ring
<1>3. RingTypes /\ HwType /\ Others
  BY <1>1, <1>2 DEF RingTypes, HwType, Others
<1>4. dpc \in Record /\ dpc.errors = <<>> /\ dpc.async = <<>> /\ dpc.sync = <<>>
  BY <1>1, EmptyList DEF Record
<1>5. Stages /\ Apart
  BY <1>1, <1>4, EmptyList DEF Stages, Apart
<1>6. AwayCounted
  <2>1. Cardinality({}) = 0 /\ 0 = 0 + 0 + 0 + 0
    BY FS_EmptySet
  <2>. QED
    BY <1>1, <1>4, <2>1, EmptyList DEF AwayCounted
<1>7. Away = {}
  BY <1>1, <1>4, EmptyList DEF Away
<1>. QED
  BY <1>1, <1>3, <1>4, <1>5, <1>6, <1>7 DEF Inv, States

\* Nothing changes.
LEMMA StutterStep ==
  ASSUME Inv, UNCHANGED vars
  PROVE  Inv'
<1>1. UNCHANGED <<NdisStatus, EnetStarted, SwExt, desc, FreeIdx, PendingIdx, DmaOwned,
                  NdisOwned, ndis, dpc, saved, sm, hw>>
  BY DEF vars, status, ring, counts
<1>2. HwType' /\ saved' \in BOOLEAN /\ dpc' \in Record /\ Stages'
  BY <1>1 DEF Inv, HwType, Others, Stages
<1>. QED
  BY <1>1, <1>2, QuietStep

\* The inductive invariant, when each start of the MAC follows a completed pause.
THEOREM Invariance ==
  ASSUME ~Undrained
  PROVE  Spec => []Inv
<1>1. Init => Inv
  BY InitInv
<1>2. Inv /\ [Next]_vars => Inv'
  <2>. SUFFICES ASSUME Inv, [Next]_vars
                PROVE  Inv'
    OBVIOUS
  <2>1. CASE NdisReturn
    BY <2>1, NdisReturnStep
  <2>2. CASE HwReceive
    BY <2>2, ReceiveStep
  <2>3. CASE EnetIsr \/ EnetDpc \/ Throttled \/ DpcEnable
    BY <2>3, QuietSteps
  <2>4. CASE MpHandleRecvInterrupt
    BY <2>4, RecvInterruptStep
  <2>5. CASE ReturnErrors
    BY <2>5, ReturnErrorsStep
  <2>6. CASE Indicate
    BY <2>6, IndicateStep
  <2>7. CASE ReturnSync
    BY <2>7, ReturnSyncStep
  <2>8. CASE EnetStart
    BY <2>8, StartStep
  <2>9. CASE EnetStop \/ PausingPoll
    BY <2>9, StopSteps
  <2>10. CASE UNCHANGED vars
    BY <2>10, StutterStep
  <2>. QED
    BY <2>1, <2>2, <2>3, <2>4, <2>5, <2>6, <2>7, <2>8, <2>9, <2>10 DEF Next, DpcStep
<1>. QED
  BY <1>1, <1>2, PTL DEF Spec

\* Every variable has its type in every reachable state.
THEOREM TypeCorrect ==
  ASSUME ~Undrained
  PROVE  Spec => []TypeOK
<1>1. Inv => TypeOK
  BY DEF Inv, TypeOK, RingTypes, HwType, Others, Record
<1>2. Spec => []Inv
  BY Invariance
<1>. QED
  BY <1>1, <1>2, PTL

\* The lists of the DPC hold different frames, none of which NDIS keeps.
LEMMA OutIsAway ==
  ASSUME Inv
  PROVE  /\ Cardinality(Members(Lists)) = Len(Lists)
         /\ ndis \cap Members(Lists) = {} /\ Out = Away
<1>. DEFINE e == dpc.errors
            a == dpc.async
            s == dpc.sync
<1>1. /\ e \in Seq(Frames) /\ a \in Seq(Frames) /\ s \in Seq(Frames)
      /\ IsInjective(e) /\ IsInjective(a) /\ IsInjective(s)
      /\ Range(e) \cap Range(a) = {} /\ (Range(e) \cup Range(a)) \cap Range(s) = {}
      /\ ndis \cap (Range(e) \cup Range(a) \cup Range(s)) = {}
      /\ Away = ndis \cup Range(e) \cup Range(a) \cup Range(s)
  BY DEF Inv, Record, Apart, Away
<1>2. Lists = (e \o a) \o s
  BY <1>1 DEF Lists
<1>. HIDE DEF e, a, s
<1>3. /\ e \o a \in Seq(Frames) /\ IsInjective(e \o a) /\ Range(e \o a) = Range(e) \cup Range(a)
  BY <1>1, JoinLists
<1>4. /\ (e \o a) \o s \in Seq(Frames) /\ IsInjective((e \o a) \o s)
      /\ Range((e \o a) \o s) = (Range(e) \cup Range(a)) \cup Range(s)
  <2>. DEFINE j == e \o a
  <2>1. j \in Seq(Frames) /\ IsInjective(j) /\ Range(j) \cap Range(s) = {}
    BY <1>1, <1>3
  <2>2. Range(j) = Range(e) \cup Range(a)
    BY <1>3
  <2>. HIDE DEF j
  <2>3. j \o s \in Seq(Frames) /\ IsInjective(j \o s) /\ Range(j \o s) = Range(j) \cup Range(s)
    BY <1>1, <2>1, JoinLists
  <2>. QED
    BY <2>2, <2>3 DEF j
<1>5. Lists \in Seq(Frames) /\ IsInjective(Lists)
      /\ Range(Lists) = (Range(e) \cup Range(a)) \cup Range(s)
  BY <1>2, <1>4
<1>6. Members(Lists) = Range(Lists)
  BY <1>5, MembersRange
<1>7. Cardinality(Range(Lists)) = Len(Lists)
  BY <1>5, ListCardinality
<1>8. ndis \cap Range(Lists) = {} /\ ndis \cup Range(Lists) = Away
  BY <1>1, <1>5
<1>. QED
  BY <1>6, <1>7, <1>8 DEF Out

\* Every frame has one owner, and Rx_NdisOwnedBDsCount counts those outside of the ring.
THEOREM OneOwner ==
  ASSUME ~Undrained
  PROVE  Spec => []FrameHasOneOwner
<1>1. Inv => FrameHasOneOwner
  <2>. SUFFICES ASSUME Inv PROVE FrameHasOneOwner
    OBVIOUS
  <2>1. /\ Cardinality(Members(Lists)) = Len(Lists)
        /\ ndis \cap Members(Lists) = {} /\ Out = Away
    BY OutIsAway
  <2>2. NdisOwned = Cardinality(Out)
    BY <2>1, AwayCardinality DEF Inv
  <2>3. EnetStarted => SlotsApart
    BY DEF Inv, RingParts
  <2>. QED
    BY <2>1, <2>2, <2>3 DEF FrameHasOneOwner, SlotsApart
<1>2. Spec => []Inv
  BY Invariance
<1>. QED
  BY <1>1, <1>2, PTL

\* While the MAC runs the ring is in order, and reception does not stand still.
THEOREM RingStaysInOrder ==
  ASSUME ~Undrained
  PROVE  Spec => []RingInOrder
<1>1. Inv => RingInOrder
  <2>. SUFFICES ASSUME Inv, EnetStarted PROVE RingInOrder
    BY DEF RingInOrder
  <2>1. RingTypes /\ HwType /\ RingParts
    BY DEF Inv
  <2>2. PICK r \in 0 .. DmaOwned : ReceivedBefore(r)
    BY <2>1 DEF RingParts
  <2>3. /\ r \in Nat /\ DmaOwned \in Nat /\ (desc[hw.idx] = "empty" => r < DmaOwned)
    BY <2>1, <2>2, MacAt
  <2>4. desc[hw.idx] = "empty" => hw.rdar
    BY <2>2, <2>3 DEF ReceivedBefore
  <2>5. \A i \in Ring : Ahead(PendingIdx, i) \in Nat
    <3>1. \A i \in Ring : Ahead(PendingIdx, i) \in Ring
      BY <2>1, AheadInRing DEF RingTypes
    <3>2. \A i \in Ring : i \in Nat
      BY RingAssumption DEF Ring
    <3>. QED
      BY <3>1, <3>2
  <2>6. ASSUME NEW i \in Ring, NEW j \in Ring, Ahead(PendingIdx, i) < Ahead(PendingIdx, j),
               desc[j] # "empty", Ahead(PendingIdx, j) < DmaOwned
        PROVE  desc[i] # "empty"
    <3>. DEFINE ai == Ahead(PendingIdx, i)
                aj == Ahead(PendingIdx, j)
    <3>1. /\ ai \in Nat /\ aj \in Nat /\ ai < aj /\ aj < DmaOwned
      BY <2>5, <2>6
    <3>2. /\ desc[i] = "empty" <=> ai \in r .. DmaOwned - 1
          /\ desc[j] = "empty" <=> aj \in r .. DmaOwned - 1
      BY <2>2 DEF ReceivedBefore
    <3>. HIDE DEF ai, aj
    <3>3. aj \notin r .. DmaOwned - 1 => ai \notin r .. DmaOwned - 1
      BY <2>3, <3>1
    <3>. QED
      BY <2>6, <3>2, <3>3
  <2>7. /\ DmaOwned \in 0 .. ItemCount /\ FreeIdx = Wrap(PendingIdx + DmaOwned) /\ SlotsHold
    BY <2>1 DEF RingParts
  <2>. QED
    BY <2>4, <2>6, <2>7 DEF RingInOrder, SlotsHold
<1>2. Spec => []Inv
  BY Invariance
<1>. QED
  BY <1>1, <1>2, PTL

\* A completed pause leaves no frame with NDIS or the DPC.
THEOREM PauseDrains ==
  ASSUME ~Undrained
  PROVE  Spec => []PausedDrained
<1>1. Inv => PausedDrained
  <2>. SUFFICES ASSUME Inv, sm.state = "paused" PROVE Out = {}
    BY DEF PausedDrained
  <2>. QED
    BY OutIsAway DEF Inv, States
<1>2. Spec => []Inv
  BY Invariance
<1>. QED
  BY <1>1, <1>2, PTL
=============================================================================
