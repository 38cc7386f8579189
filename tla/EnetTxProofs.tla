---------------------------- MODULE EnetTxProofs ----------------------------
(***************************************************************************)
(* Theorems about the transmit path, for every ring size, every set of     *)
(* NBLs and calls, and any number of starts.                               *)
(*                                                                         *)
(* The types and FillOnlyWhenStarted hold whatever the state machine finds *)
(* in progress.  The descriptor ring agrees with Tx_qDmaOwnedBDs unless a  *)
(* start finds slots whose frames a stop has cancelled ("stale"), and the  *)
(* frames are in one place unless, besides, a stop or a start finds        *)
(* EnetDpc half-way ("dpc").                                               *)
(***************************************************************************)
EXTENDS EnetTx, SequenceTheorems, FiniteSetTheorems, TLAPS

-----------------------------------------------------------------------------
(* The ring of descriptors (RingIndex). *)

\* A step of at most one lap from a slot ends in a slot ("if (++Idx == ItemCount)").
LEMMA WrapInRing ==
  ASSUME NEW i \in Ring, NEW n \in 0 .. ItemCount
  PROVE  Wrap(i + n) \in Ring
  BY RingAssumption DEF Ring, Wrap

\* The distance between two slots is less than a lap, and leads to the second one.
LEMMA AheadInRing ==
  ASSUME NEW i \in Ring, NEW j \in Ring
  PROVE  Ahead(i, j) \in Ring /\ Wrap(i + Ahead(i, j)) = j
  BY RingAssumption DEF Ring, Ahead, Wrap

\* Slots at different distances from a slot are different, and the distance is found.
LEMMA AheadOfWrap ==
  ASSUME NEW i \in Ring, NEW d \in Ring
  PROVE  Ahead(i, Wrap(i + d)) = d
  BY RingAssumption DEF Ring, Ahead, Wrap

\* Two walks of a lap at most in all are one.
LEMMA WrapTwice ==
  ASSUME NEW i \in Ring, NEW m \in 0 .. ItemCount, NEW n \in 0 .. ItemCount, m + n <= ItemCount
  PROVE  Wrap(Wrap(i + m) + n) = Wrap(i + (m + n))
  BY RingAssumption DEF Ring, Wrap

\* The distance to a slot from a slot further on.
LEMMA AheadFromWrap ==
  ASSUME NEW i \in Ring, NEW j \in Ring, NEW m \in 0 .. ItemCount
  PROVE  Ahead(Wrap(i + m), j) = IF Ahead(i, j) >= m THEN Ahead(i, j) - m
                                 ELSE Ahead(i, j) - m + ItemCount
  BY RingAssumption DEF Ring, Ahead, Wrap

\* At most one lap, wrapped by a modulo.
LEMMA ModIsWrap ==
  ASSUME NEW i \in Ring, NEW n \in 0 .. ItemCount
  PROVE  (i + n) % ItemCount = Wrap(i + n)
<1>1. ItemCount \in Nat /\ ItemCount > 0 /\ i \in Nat /\ n \in Nat /\ i < ItemCount /\ n <= ItemCount
  BY RingAssumption DEF Ring
<1>2. CASE i + n < ItemCount
  BY <1>1, <1>2 DEF Wrap
<1>3. CASE i + n >= ItemCount
  <2>1. (i + n - ItemCount) % ItemCount = i + n - ItemCount
    BY <1>1, <1>3
  <2>2. (i + n) % ItemCount = (i + n - ItemCount) % ItemCount
    BY <1>1, <1>3
  <2>. QED
    BY <1>1, <1>3, <2>1, <2>2 DEF Wrap
<1>. QED
  BY <1>1, <1>2, <1>3

\* Any number of single steps, wrapped by a modulo.
LEMMA ModInRing ==
  ASSUME NEW n \in Nat
  PROVE  n % ItemCount \in Ring
  BY RingAssumption DEF Ring

\* Going through a set of positions in order gives a finite sequence of positions.
LEMMA InOrderType ==
  ASSUME NEW n \in Nat, NEW K \in SUBSET (0 .. n), NEW f \in InOrder(K)
  PROVE  Cardinality(K) \in Nat /\ f \in [1 .. Cardinality(K) -> K]
<1>1. IsFiniteSet(0 .. n)
  BY FS_Interval
<1>2. IsFiniteSet(K)
  BY <1>1, FS_Subset
<1>3. Cardinality(K) \in Nat
  BY <1>2, FS_CardinalityType
<1>. QED
  BY <1>3 DEF InOrder

-----------------------------------------------------------------------------
(* Lists in which nothing is repeated: the driver's queues of frames. *)

\* A list has its elements at 1 to its length.
LEMMA ListType ==
  ASSUME NEW B, NEW s \in Seq(B)
  PROVE  /\ Len(s) \in Nat /\ DOMAIN s = 1 .. Len(s)
         /\ \A i \in 1 .. Len(s) : s[i] \in B
  OBVIOUS

\* A list of different things is as long as the set of them is large.
LEMMA ListCardinality ==
  ASSUME NEW B, NEW s \in Seq(B), IsInjective(s)
  PROVE  IsFiniteSet(Range(s)) /\ Cardinality(Range(s)) = Len(s)
<1>1. Len(s) \in Nat /\ DOMAIN s = 1 .. Len(s)
  BY ListType
<1>2. s \in [1 .. Len(s) -> Range(s)]
  <2>1. s = [i \in 1 .. Len(s) |-> s[i]]
    BY <1>1
  <2>. QED
    BY <1>1, <2>1 DEF Range
<1>3. s \in Bijection(1 .. Len(s), Range(s))
  BY <1>1, <1>2 DEF Bijection, Injection, Surjection, Range
<1>4. ExistsBijection(1 .. Len(s), Range(s))
  BY <1>3 DEF ExistsBijection
<1>5. IsFiniteSet(1 .. Len(s)) /\ Cardinality(1 .. Len(s)) = Len(s)
  BY <1>1, FS_Interval
<1>. QED
  BY <1>4, <1>5, FS_Bijection

\* One more element.
LEMMA AppendList ==
  ASSUME NEW B, NEW s \in Seq(B), NEW e \in B, IsInjective(s), e \notin Range(s)
  PROVE  /\ Append(s, e) \in Seq(B) /\ Len(Append(s, e)) = Len(s) + 1
         /\ IsInjective(Append(s, e)) /\ Range(Append(s, e)) = Range(s) \cup {e}
<1>. DEFINE t == Append(s, e)
            n == Len(s)
<1>1. n \in Nat /\ DOMAIN s = 1 .. n
  BY ListType
<1>2. /\ t \in Seq(B) /\ Len(t) = n + 1 /\ DOMAIN t = 1 .. n + 1
      /\ t[n + 1] = e /\ \A i \in 1 .. n : t[i] = s[i]
  OBVIOUS
<1>3. e \in Range(t)
  BY <1>1, <1>2 DEF Range
<1>. HIDE DEF t, n
<1>4. Range(t) = Range(s) \cup {e}
  <2>1. ASSUME NEW x \in Range(t) PROVE x \in Range(s) \cup {e}
    <3>1. PICK i \in 1 .. n + 1 : x = t[i]
      BY <1>2 DEF Range
    <3>2. CASE i = n + 1
      BY <1>2, <3>1, <3>2
    <3>3. CASE i \in 1 .. n
      BY <1>1, <1>2, <3>1, <3>3 DEF Range
    <3>. QED
      BY <1>1, <3>2, <3>3
  <2>2. ASSUME NEW x \in Range(s) PROVE x \in Range(t)
    <3>1. PICK i \in 1 .. n : x = s[i]
      BY <1>1 DEF Range
    <3>2. i \in 1 .. n + 1 /\ t[i] = x
      BY <1>1, <1>2, <3>1
    <3>. QED
      BY <1>2, <3>2 DEF Range
  <2>. QED
    BY <1>3, <2>1, <2>2
<1>5. IsInjective(t)
  <2>. SUFFICES ASSUME NEW i \in 1 .. n + 1, NEW j \in 1 .. n + 1, t[i] = t[j]
                PROVE  i = j
    BY <1>2 DEF IsInjective
  <2>1. \A k \in 1 .. n : t[k] # e
    BY <1>1, <1>2 DEF Range
  <2>2. CASE i \in 1 .. n /\ j \in 1 .. n
    BY <1>1, <1>2, <2>2 DEF IsInjective
  <2>3. CASE i = n + 1 \/ j = n + 1
    BY <1>1, <1>2, <2>1, <2>3
  <2>. QED
    BY <1>1, <2>2, <2>3
<1>. QED
  BY <1>2, <1>4, <1>5 DEF t, n

\* Two lists with nothing in common, one after the other.
LEMMA JoinLists ==
  ASSUME NEW B, NEW s \in Seq(B), NEW t \in Seq(B), IsInjective(s), IsInjective(t),
         Range(s) \cap Range(t) = {}
  PROVE  /\ s \o t \in Seq(B) /\ Len(s \o t) = Len(s) + Len(t)
         /\ IsInjective(s \o t) /\ Range(s \o t) = Range(s) \cup Range(t)
<1>. DEFINE u == s \o t
            m == Len(s)
            n == Len(t)
<1>1. m \in Nat /\ n \in Nat /\ DOMAIN s = 1 .. m /\ DOMAIN t = 1 .. n
  BY ListType
<1>2. /\ u \in Seq(B) /\ Len(u) = m + n /\ DOMAIN u = 1 .. m + n
      /\ \A i \in 1 .. m : u[i] = s[i]
      /\ \A i \in m + 1 .. m + n : u[i] = t[i - m]
  <2>1. u \in Seq(B) /\ Len(u) = m + n
    BY <1>1
  <2>2. DOMAIN u = 1 .. m + n
    BY <2>1, LenProperties
  <2>3. /\ \A i \in 1 .. m : u[i] = s[i]
        /\ \A i \in m + 1 .. m + n : u[i] = t[i - m]
    BY <1>1
  <2>. QED
    BY <2>1, <2>2, <2>3
<1>. HIDE DEF u, m, n
<1>3. \A i \in 1 .. n : i + m \in 1 .. m + n /\ u[i + m] = t[i]
  <2>1. \A i \in 1 .. n : i + m \in m + 1 .. m + n /\ (i + m) - m = i /\ i + m \in 1 .. m + n
    BY <1>1
  <2>. QED
    BY <1>2, <2>1
<1>4. \A i \in m + 1 .. m + n : i - m \in 1 .. n
  BY <1>1
<1>5. \A i \in 1 .. m + n : i \in 1 .. m \/ i \in m + 1 .. m + n
  BY <1>1
<1>6. \A i \in 1 .. m : i \in 1 .. m + n
  BY <1>1
<1>7. Range(u) = Range(s) \cup Range(t)
  <2>1. ASSUME NEW x \in Range(u) PROVE x \in Range(s) \cup Range(t)
    <3>1. PICK i \in 1 .. m + n : x = u[i]
      BY <1>2 DEF Range
    <3>. QED
      BY <1>1, <1>2, <1>4, <1>5, <3>1 DEF Range
  <2>2. ASSUME NEW x \in Range(s) PROVE x \in Range(u)
    BY <1>1, <1>2, <1>6, <2>2 DEF Range
  <2>3. ASSUME NEW x \in Range(t) PROVE x \in Range(u)
    <3>1. PICK i \in 1 .. n : x = t[i]
      BY <1>1 DEF Range
    <3>2. i + m \in DOMAIN u /\ u[i + m] = x
      BY <1>2, <1>3, <3>1
    <3>. QED
      BY <3>2 DEF Range
  <2>. QED
    BY <2>1, <2>2, <2>3
<1>8. IsInjective(u)
  <2>. SUFFICES ASSUME NEW i \in 1 .. m + n, NEW j \in 1 .. m + n, u[i] = u[j]
                PROVE  i = j
    BY <1>2 DEF IsInjective
  <2>1. \A k \in 1 .. m : u[k] \in Range(s)
    BY <1>1, <1>2 DEF Range
  <2>2. \A k \in m + 1 .. m + n : u[k] \in Range(t)
    BY <1>1, <1>2, <1>4 DEF Range
  <2>3. CASE i \in 1 .. m /\ j \in 1 .. m
    BY <1>1, <1>2, <2>3 DEF IsInjective
  <2>4. CASE i \in m + 1 .. m + n /\ j \in m + 1 .. m + n
    <3>1. i - m \in DOMAIN t /\ j - m \in DOMAIN t /\ t[i - m] = t[j - m]
      BY <1>1, <1>2, <1>4, <2>4
    <3>2. i - m = j - m
      BY <3>1, Zenon DEF IsInjective
    <3>. QED
      BY <1>1, <2>4, <3>2
  <2>5. ~(i \in 1 .. m /\ j \in m + 1 .. m + n) /\ ~(j \in 1 .. m /\ i \in m + 1 .. m + n)
    BY <2>1, <2>2
  <2>. QED
    BY <1>5, <2>3, <2>4, <2>5
<1>. QED
  BY <1>2, <1>7, <1>8 DEF u, m, n

\* A list cut in two.
LEMMA CutList ==
  ASSUME NEW B, NEW s \in Seq(B), IsInjective(s), NEW k \in 0 .. Len(s)
  PROVE  /\ SubSeq(s, 1, k) \in Seq(B) /\ SubSeq(s, k + 1, Len(s)) \in Seq(B)
         /\ Len(SubSeq(s, 1, k)) = k /\ Len(SubSeq(s, k + 1, Len(s))) = Len(s) - k
         /\ IsInjective(SubSeq(s, 1, k)) /\ IsInjective(SubSeq(s, k + 1, Len(s)))
         /\ Range(SubSeq(s, 1, k)) \cap Range(SubSeq(s, k + 1, Len(s))) = {}
         /\ Range(s) = Range(SubSeq(s, 1, k)) \cup Range(SubSeq(s, k + 1, Len(s)))
<1>. DEFINE n == Len(s)
            a == SubSeq(s, 1, k)
            b == SubSeq(s, k + 1, n)
<1>1. n \in Nat /\ k \in Nat /\ k <= n /\ DOMAIN s = 1 .. n
  BY ListType
<1>2. /\ a \in Seq(B) /\ Len(a) = k /\ DOMAIN a = 1 .. k
      /\ \A i \in 1 .. k : a[i] = s[i]
  BY <1>1
<1>3. /\ b \in Seq(B) /\ Len(b) = n - k /\ DOMAIN b = 1 .. n - k
      /\ \A i \in 1 .. n - k : b[i] = s[k + i]
  <2>1. k + 1 \in Int /\ n \in Int /\ \A i \in k + 1 .. n : s[i] \in B
    BY <1>1
  <2>2. b \in Seq(B) /\ Len(b) = n - k
    <3>1. b \in Seq(B)
      BY <1>1
    <3>2. Len(b) = IF k + 1 <= n THEN n - (k + 1) + 1 ELSE 0
      BY <1>1, <2>1, SubSeqProperties
    <3>. HIDE DEF b, n
    <3>. QED
      BY <1>1, <3>1, <3>2
  <2>3. DOMAIN b = 1 .. n - k
    BY <2>2, LenProperties
  <2>4. ASSUME NEW i \in 1 .. n - k PROVE b[i] = s[k + i]
    BY <1>1
  <2>. QED
    BY <2>2, <2>3, <2>4
<1>. HIDE DEF n, a, b
<1>4. \A i \in 1 .. k : i \in 1 .. n
  BY <1>1
<1>5. \A i \in 1 .. n - k : k + i \in k + 1 .. n /\ k + i \in 1 .. n /\ ~(k + i \in 1 .. k)
  BY <1>1
<1>6. \A i \in k + 1 .. n : i - k \in 1 .. n - k /\ k + (i - k) = i
  BY <1>1
<1>7. \A i \in 1 .. n : i \in 1 .. k \/ i \in k + 1 .. n
  BY <1>1
<1>8. IsInjective(a)
  BY <1>1, <1>2, <1>4 DEF IsInjective
<1>9. IsInjective(b)
  <2>. SUFFICES ASSUME NEW i \in 1 .. n - k, NEW j \in 1 .. n - k, b[i] = b[j]
                PROVE  i = j
    BY <1>3 DEF IsInjective
  <2>1. k + i = k + j
    BY <1>1, <1>3, <1>5 DEF IsInjective
  <2>. QED
    BY <1>1, <2>1
<1>10. Range(a) \cap Range(b) = {}
  <2>. SUFFICES ASSUME NEW i \in 1 .. k, NEW j \in 1 .. n - k, a[i] = b[j]
                PROVE  FALSE
    BY <1>2, <1>3 DEF Range
  <2>1. i \in DOMAIN s /\ k + j \in DOMAIN s /\ s[i] = s[k + j]
    BY <1>1, <1>2, <1>3, <1>4, <1>5
  <2>2. i = k + j
    BY <2>1, Zenon DEF IsInjective
  <2>. QED
    BY <1>5, <2>2
<1>11. Range(s) = Range(a) \cup Range(b)
  <2>1. ASSUME NEW i \in 1 .. n PROVE s[i] \in Range(a) \cup Range(b)
    <3>1. CASE i \in 1 .. k
      BY <1>2, <3>1 DEF Range
    <3>2. CASE i \in k + 1 .. n
      <4>1. b[i - k] = s[i] /\ i - k \in DOMAIN b
        BY <1>3, <1>6, <3>2
      <4>. QED
        BY <4>1 DEF Range
    <3>. QED
      BY <1>7, <3>1, <3>2
  <2>2. ASSUME NEW i \in 1 .. k PROVE a[i] \in Range(s)
    BY <1>1, <1>2, <1>4 DEF Range
  <2>3. ASSUME NEW i \in 1 .. n - k PROVE b[i] \in Range(s)
    BY <1>1, <1>3, <1>5 DEF Range
  <2>4. Range(s) \subseteq Range(a) \cup Range(b)
    BY <1>1, <2>1 DEF Range
  <2>5. Range(a) \subseteq Range(s)
    BY <1>2, <2>2 DEF Range
  <2>6. Range(b) \subseteq Range(s)
    BY <1>3, <2>3 DEF Range
  <2>. QED
    BY <2>4, <2>5, <2>6
<1>. QED
  BY <1>2, <1>3, <1>8, <1>9, <1>10, <1>11 DEF n, a, b

\* The oldest of a list, and the others.
LEMMA TailList ==
  ASSUME NEW B, NEW s \in Seq(B), s # <<>>, IsInjective(s)
  PROVE  /\ Tail(s) \in Seq(B) /\ Len(Tail(s)) = Len(s) - 1 /\ IsInjective(Tail(s))
         /\ Head(s) \in B /\ Head(s) \in Range(s)
         /\ Range(Tail(s)) = Range(s) \ {Head(s)}
<1>. DEFINE n == Len(s)
            t == Tail(s)
<1>1. n \in Nat /\ n > 0 /\ DOMAIN s = 1 .. n
  <2>1. n # 0
    BY EmptySeq
  <2>. QED
    BY <2>1, ListType
<1>2. /\ t \in Seq(B) /\ Len(t) = n - 1 /\ DOMAIN t = 1 .. n - 1
      /\ \A i \in 1 .. n - 1 : t[i] = s[i + 1]
      /\ Head(s) = s[1] /\ Head(s) \in B
  BY <1>1
<1>. HIDE DEF n, t
<1>3. /\ \A i \in 1 .. n - 1 : i + 1 \in 1 .. n /\ i + 1 # 1
      /\ \A i \in 1 .. n : i = 1 \/ (i - 1 \in 1 .. n - 1 /\ (i - 1) + 1 = i)
      /\ 1 \in 1 .. n
  BY <1>1
<1>4. Head(s) \in Range(s)
  BY <1>1, <1>2, <1>3 DEF Range
<1>5. IsInjective(t)
  <2>. SUFFICES ASSUME NEW i \in 1 .. n - 1, NEW j \in 1 .. n - 1, t[i] = t[j]
                PROVE  i = j
    BY <1>2 DEF IsInjective
  <2>1. i + 1 = j + 1
    BY <1>1, <1>2, <1>3 DEF IsInjective
  <2>. QED
    BY <1>1, <2>1
<1>6. Range(t) = Range(s) \ {Head(s)}
  <2>1. ASSUME NEW i \in 1 .. n - 1 PROVE t[i] \in Range(s) /\ t[i] # Head(s)
    <3>1. i + 1 \in DOMAIN s /\ 1 \in DOMAIN s /\ i + 1 # 1 /\ t[i] = s[i + 1]
      BY <1>1, <1>2, <1>3
    <3>2. s[i + 1] # s[1]
      BY <3>1, Zenon DEF IsInjective
    <3>. QED
      BY <1>2, <3>1, <3>2 DEF Range
  <2>2. ASSUME NEW i \in 1 .. n, s[i] # Head(s) PROVE s[i] \in Range(t)
    <3>1. i - 1 \in 1 .. n - 1 /\ t[i - 1] = s[i]
      BY <1>2, <1>3, <2>2
    <3>. QED
      BY <1>2, <3>1 DEF Range
  <2>3. Range(t) \subseteq Range(s) \ {Head(s)}
    BY <1>2, <2>1 DEF Range
  <2>4. Range(s) \ {Head(s)} \subseteq Range(t)
    BY <1>1, <2>2 DEF Range
  <2>. QED
    BY <2>3, <2>4
<1>. QED
  BY <1>2, <1>4, <1>5, <1>6 DEF n, t

\* What g has at the positions that f goes through.
Through(f, g) == [i \in DOMAIN f |-> g[f[i]]]

\* A list of n different things, the elements of E.
Listing(t, B, n, E) == t \in Seq(B) /\ Len(t) = n /\ IsInjective(t) /\ Range(t) = E

\* What is picked in the order of its positions, each thing being at one of them.
LEMMA PickedImage ==
  ASSUME NEW B, NEW m \in Nat, NEW K \in SUBSET (0 .. m), NEW g \in [K -> B],
         IsInjective(g), NEW f \in InOrder(K)
  PROVE  Listing(Through(f, g), B, Cardinality(K), Range(g))
<1>. DEFINE n == Cardinality(K)
            t == Through(f, g)
<1>1. n \in Nat /\ f \in [1 .. n -> K]
  BY InOrderType
<1>2. \A i, j \in 1 .. n : i < j => f[i] < f[j]
  BY <1>1 DEF InOrder
<1>. HIDE DEF n
<1>3. \A i \in 1 .. n : f[i] \in K /\ f[i] \in Nat
  <2>1. \A i \in 1 .. n : f[i] \in K
    BY <1>1
  <2>2. \A k \in K : k \in Nat
    OBVIOUS
  <2>. QED
    BY <2>1, <2>2
<1>4. f \in Injection(1 .. n, K)
  <2>. SUFFICES ASSUME NEW i \in 1 .. n, NEW j \in 1 .. n, f[i] = f[j]
                PROVE  i = j
    BY <1>1 DEF Injection, IsInjective
  <2>. QED
    BY <1>1, <1>2, <1>3
<1>5. \A k \in K : \E i \in 1 .. n : f[i] = k
  <2>1. IsFiniteSet(0 .. m)
    BY FS_Interval
  <2>2. IsFiniteSet(K)
    BY <2>1, FS_Subset
  <2>3. Cardinality(1 .. n) = n
    BY <1>1, FS_Interval
  <2>4. f \in Surjection(1 .. n, K)
    BY <1>4, <2>2, <2>3, FS_Injection DEF n
  <2>. QED
    BY <2>4 DEF Surjection
<1>6. /\ t \in [1 .. n -> B] /\ DOMAIN t = 1 .. n
      /\ \A i \in 1 .. n : t[i] = g[f[i]]
  BY <1>1, <1>3 DEF Through
<1>. HIDE DEF t
<1>7. t \in Seq(B) /\ Len(t) = n
  BY <1>1, <1>6
<1>8. IsInjective(t)
  <2>. SUFFICES ASSUME NEW i \in 1 .. n, NEW j \in 1 .. n, t[i] = t[j]
                PROVE  i = j
    BY <1>6 DEF IsInjective
  <2>1. f[i] \in DOMAIN g /\ f[j] \in DOMAIN g /\ g[f[i]] = g[f[j]]
    BY <1>3, <1>6
  <2>2. f[i] = f[j]
    BY <2>1, Zenon DEF IsInjective
  <2>. QED
    BY <1>1, <1>4, <2>2 DEF Injection, IsInjective
<1>9. Range(t) = Range(g)
  <2>1. \A i \in 1 .. n : t[i] \in Range(g)
    BY <1>3, <1>6 DEF Range
  <2>2. ASSUME NEW k \in K PROVE g[k] \in Range(t)
    <3>1. PICK i \in 1 .. n : f[i] = k
      BY <1>5
    <3>. QED
      BY <1>6, <3>1 DEF Range
  <2>. QED
    BY <1>6, <2>1, <2>2 DEF Range
<1>. QED
  BY <1>7, <1>8, <1>9 DEF t, n, Listing

\* What is picked from a list in its order.
LEMMA PickedList ==
  ASSUME NEW B, NEW s \in Seq(B), IsInjective(s),
         NEW K \in SUBSET (1 .. Len(s)), NEW f \in InOrder(K)
  PROVE  /\ Through(f, s) \in Seq(B) /\ Len(Through(f, s)) = Cardinality(K)
         /\ IsInjective(Through(f, s)) /\ Range(Through(f, s)) = {s[i] : i \in K}
<1>. DEFINE g == [k \in K |-> s[k]]
            t == Through(f, g)
<1>1. Len(s) \in Nat /\ DOMAIN s = 1 .. Len(s) /\ \A i \in 1 .. Len(s) : s[i] \in B
  BY ListType
<1>2. g \in [K -> B] /\ Range(g) = {s[i] : i \in K}
  BY <1>1 DEF Range
<1>3. IsInjective(g)
  <2>. SUFFICES ASSUME NEW k \in K, NEW l \in K, s[k] = s[l] PROVE k = l
    BY DEF IsInjective
  <2>1. k \in DOMAIN s /\ l \in DOMAIN s
    BY <1>1
  <2>. QED
    BY <2>1, Zenon DEF IsInjective
<1>4. \A i \in DOMAIN f : f[i] \in K
  <2>1. K \in SUBSET (0 .. Len(s))
    BY <1>1
  <2>2. f \in [1 .. Cardinality(K) -> K]
    BY <1>1, <2>1, InOrderType
  <2>. QED
    BY <2>2
<1>5. t = Through(f, s)
  BY <1>4 DEF Through
<1>. HIDE DEF g
<1>6. t \in Seq(B) /\ Len(t) = Cardinality(K) /\ IsInjective(t) /\ Range(t) = Range(g)
  <2>. DEFINE m == Len(s)
  <2>1. m \in Nat
    BY <1>1
  <2>2. K \in SUBSET (0 .. m)
    BY <1>1
  <2>3. g \in [K -> B]
    BY <1>2
  <2>. HIDE DEF m
  <2>4. Listing(t, B, Cardinality(K), Range(g))
    BY <1>3, <2>1, <2>2, <2>3, PickedImage
  <2>. QED
    BY <2>4 DEF Listing
<1>. HIDE DEF t
<1>. QED
  BY <1>2, <1>5, <1>6

\* Some positions of a list, and the others.
LEMMA PickedApart ==
  ASSUME NEW B, NEW s \in Seq(B), IsInjective(s), NEW K \in SUBSET (1 .. Len(s))
  PROVE  /\ Cardinality(K) + Cardinality(1 .. Len(s) \ K) = Len(s)
         /\ {s[i] : i \in K} \cap {s[i] : i \in 1 .. Len(s) \ K} = {}
         /\ {s[i] : i \in K} \cup {s[i] : i \in 1 .. Len(s) \ K} = Range(s)
<1>. DEFINE n == Len(s)
            M == 1 .. n \ K
<1>1. n \in Nat /\ DOMAIN s = 1 .. n /\ K \in SUBSET (1 .. n)
  BY ListType
<1>. HIDE DEF n
<1>2. IsFiniteSet(1 .. n) /\ Cardinality(1 .. n) = n
  BY <1>1, FS_Interval
<1>3. IsFiniteSet(K) /\ Cardinality(K) \in Nat
  BY <1>1, <1>2, FS_Subset, FS_CardinalityType
<1>4. Cardinality(M) = n - Cardinality(K)
  <2>1. (1 .. n) \cap K = K
    BY <1>1
  <2>. DEFINE S == 1 .. n
  <2>2. IsFiniteSet(S)
    BY <1>2
  <2>. HIDE DEF S
  <2>3. Cardinality(S \ K) = Cardinality(S) - Cardinality(S \cap K)
    BY <2>2, FS_Difference
  <2>. QED
    BY <1>2, <2>1, <2>3 DEF S
<1>5. \A i \in K, j \in M : s[i] # s[j]
  BY <1>1, Zenon DEF IsInjective
<1>6. Range(s) = {s[i] : i \in K} \cup {s[i] : i \in M}
  BY <1>1 DEF Range
<1>. HIDE DEF M
<1>7. {s[i] : i \in K} \cap {s[i] : i \in M} = {}
  BY <1>5
<1>8. Cardinality(K) + Cardinality(M) = n
  BY <1>1, <1>3, <1>4
<1>. QED
  BY <1>6, <1>7, <1>8 DEF M, n

-----------------------------------------------------------------------------
\* A call that is not through works on an NB of its chain.
CallsInBounds ==
  \A c \in Calls :
    snd[c].pc \in {"new", "alloc", "map", "count", "fail"} =>
      snd[c].nbl \in 1 .. Len(c) /\ snd[c].nb \in 1 .. NBCount[Nbl(c)]

\* Sends are accepted before the first start, but no descriptor is free
\* for them, and no slot holds a frame that an early interrupt could reap.
NoSlotBeforeStart ==
  NdisStatus = "SUCCESS" /\ ~EnetStarted =>
    FreeBDCount = 0 /\ \A i \in Ring : SwExt[i] = NULL

Inv == TypeOK /\ CallsInBounds /\ NoSlotBeforeStart

-----------------------------------------------------------------------------
(* Lemmas about the operators of EnetTx.                                   *)

\* The NBs are the pairs of an NBL and one of its positions.
LEMMA NBsAre ==
  \A nb : nb \in NBs <=> \E l \in NBLs : \E i \in 1 .. NBCount[l] : nb = <<l, i>>
  BY DEF NBs

\* The first component of an NB is its NBL.
LEMMA NBsType == \A nb \in NBs : nb[1] \in NBLs
  BY NBsAre

\* Of k frames that are filled in, the one that ends up in a slot is one of them.
LEMMA FilledRange ==
  ASSUME TypeOK, NEW i \in Ring, NEW k \in Nat
  PROVE  Filled(i, k) \in 0 .. k
<1>1. Ahead(FreeIdx, i) \in Ring
  BY AheadInRing DEF TypeOK
<1>. DEFINE d == Ahead(FreeIdx, i) + 1
<1>2. d \in Nat /\ d > 0
  BY <1>1, RingAssumption DEF Ring
<1>3. ItemCount \in Nat
  BY RingAssumption
<1>4. Filled(i, k) = IF d + ItemCount <= k THEN d + ItemCount ELSE IF d <= k THEN d ELSE 0
  BY DEF Filled
<1>. HIDE DEF d
<1>. QED
  BY <1>2, <1>3, <1>4

\* No more frames are sent than wait, nor than there are free descriptors.
LEMMA SendableRange ==
  ASSUME TypeOK
  PROVE  /\ Sendable \in Nat /\ Sendable <= Len(mpQ) /\ Sendable <= FreeBDCount
         /\ Sendable > 0 => NdisStatus = "SUCCESS" /\ FreeBDCount > 0
  BY DEF TypeOK, Sendable, SmallerOf

\* The types of what TxFill changes.
FillTypes ==
  /\ mpQ \in Seq(NBs) /\ dmaQ \in Seq(NBs)
  /\ SwExt \in [Ring -> NBs \cup {NULL}] /\ R \in [Ring -> BOOLEAN]
  /\ FreeIdx \in Ring /\ PendingIdx \in Ring /\ FreeBDCount \in Nat
  /\ hang \in 0 .. 3
  /\ hw \in [eir : BOOLEAN, eimr : BOOLEAN, tdar : BOOLEAN, idx : Ring,
             dpcQueued : BOOLEAN]

\* Feeding the DMA keeps them.
LEMMA SendNextTypes ==
  ASSUME TypeOK, MpSendNextNB
  PROVE  FillTypes'
<1>. DEFINE k == Sendable
<1>1. k \in Nat /\ k <= Len(mpQ) /\ k <= FreeBDCount
  BY SendableRange
<1>2. TxFill(k)
  BY DEF MpSendNextNB
<1>. HIDE DEF k
<1>3. SubSeq(mpQ, 1, k) \in Seq(NBs) /\ SubSeq(mpQ, k + 1, Len(mpQ)) \in Seq(NBs)
  BY <1>1 DEF TypeOK
<1>4. mpQ' \in Seq(NBs) /\ dmaQ' \in Seq(NBs)
  BY <1>2, <1>3 DEF TxFill, TypeOK
<1>5. SwExt' \in [Ring -> NBs \cup {NULL}]
  <2>1. ASSUME NEW i \in Ring, Filled(i, k) # 0
        PROVE  mpQ[Filled(i, k)] \in NBs
    <3>1. Filled(i, k) \in 0 .. k
      BY <1>1, FilledRange
    <3>2. Filled(i, k) \in 1 .. Len(mpQ)
      BY <1>1, <2>1, <3>1
    <3>. QED
      BY <3>2 DEF TypeOK
  <2>. QED
    BY <1>2, <2>1 DEF TxFill, TypeOK
<1>6. R' \in [Ring -> BOOLEAN]
  BY <1>2, Zenon DEF TxFill, TypeOK
<1>7. FreeIdx' \in Ring
  <2>1. FreeIdx \in Nat
    BY RingAssumption DEF TypeOK, Ring
  <2>2. FreeIdx' = (FreeIdx + k) % ItemCount
    BY <1>2 DEF TxFill, FreeAfter
  <2>. QED
    BY <1>1, <2>1, <2>2, ModInRing
<1>8. FreeBDCount' \in Nat
  BY <1>1, <1>2 DEF TxFill, TypeOK
<1>9. /\ PendingIdx' \in Ring /\ hang' \in 0 .. 3
  BY <1>2 DEF TxFill, TypeOK
<1>10. hw' \in [eir : BOOLEAN, eimr : BOOLEAN, tdar : BOOLEAN, idx : Ring,
                dpcQueued : BOOLEAN]
  <2>1. hw' = [hw EXCEPT !.tdar = hw.tdar \/ k > 0]
    BY <1>2 DEF TxFill
  <2>. QED
    BY <2>1 DEF TypeOK
<1>. QED
  BY <1>4, <1>5, <1>6, <1>7, <1>8, <1>9, <1>10 DEF FillTypes

\* What MpHandleTxInterrupt reaps are frames, and it only moves inside the ring.
LEMMA ReapTypes ==
  ASSUME TypeOK, NEW m \in 0 .. ItemCount, Reap(m)
  PROVE  /\ SwExt' \in [Ring -> NBs \cup {NULL}]
         /\ PendingIdx' \in Ring /\ FreeBDCount' \in Nat /\ hang' \in 0 .. 3
         /\ dmaQ' \in Seq(NBs)
         /\ unwinding' \in [Unwinders -> Seq(NBs)]
<1>. DEFINE Slot(d) == Wrap(PendingIdx + d)
<1>1. \A d \in 0 .. m - 1 : Slot(d) \in Ring /\ SwExt[Slot(d)] \in NBs
  <2>1. ASSUME NEW d \in 0 .. m - 1
        PROVE  Slot(d) \in Ring
    <3>1. d \in 0 .. ItemCount
      BY RingAssumption
    <3>. QED
      BY <3>1, WrapInRing DEF TypeOK
  <2>2. \A d \in 0 .. m - 1 : SwExt[Slot(d)] # NULL
    BY DEF Reap, Sent
  <2>. QED
    BY <2>1, <2>2 DEF TypeOK
<1>2. SwExt' \in [Ring -> NBs \cup {NULL}]
  BY DEF Reap, TypeOK
<1>3. PendingIdx' \in Ring
  BY WrapInRing DEF Reap, TypeOK
<1>4. FreeBDCount' \in Nat /\ hang' \in 0 .. 3
  BY RingAssumption DEF Reap, HangAfterReap, TypeOK
<1>5. dmaQ' \in Seq(NBs)
  BY RingAssumption DEF Reap, QueueAfterReap, TypeOK
<1>6. unwinding' \in [Unwinders -> Seq(NBs)]
  <2>. DEFINE reaped == [d \in 1 .. m |-> SwExt[Slot(d - 1)]]
  <2>1. reaped \in Seq(NBs)
    <3>1. m \in Nat
      BY RingAssumption
    <3>2. \A d \in 1 .. m : SwExt[Slot(d - 1)] \in NBs
      BY <1>1, <3>1
    <3>. QED
      BY <3>1, <3>2
  <2>2. unwinding' = [unwinding EXCEPT !["dpc"] = reaped]
    BY DEF Reap
  <2>. HIDE DEF reaped
  <2>. QED
    BY <2>1, <2>2 DEF TypeOK
<1>. QED
  BY <1>2, <1>3, <1>4, <1>5, <1>6

\* The parts of the queue that a cancel takes and leaves.
LEMMA CancelTypes ==
  ASSUME TypeOK, NEW K \in SUBSET (1 .. Len(mpQ)), NEW f \in InOrder(K)
  PROVE  [i \in DOMAIN f |-> mpQ[f[i]]] \in Seq(NBs)
<1>1. Len(mpQ) \in Nat /\ K \in SUBSET (0 .. Len(mpQ))
  BY DEF TypeOK
<1>2. Cardinality(K) \in Nat /\ f \in [1 .. Cardinality(K) -> K]
  BY <1>1, InOrderType
<1>3. \A j \in 1 .. Len(mpQ) : mpQ[j] \in NBs
  BY DEF TypeOK
<1>4. \A i \in 1 .. Cardinality(K) : mpQ[f[i]] \in NBs
  BY <1>2, <1>3
<1>. QED
  BY <1>2, <1>4

\* Giving an NB back keeps the types of the counters of its NBL.
LEMMA ReleaseTypes ==
  ASSUME nbCounter \in [NBLs -> Int], completions \in [NBLs -> Nat],
         NEW l \in NBLs, ReleaseNB(l)
  PROVE  nbCounter' \in [NBLs -> Int] /\ completions' \in [NBLs -> Nat]
<1>1. nbCounter' = [nbCounter EXCEPT ![l] = nbCounter[l] - 1]
  BY DEF ReleaseNB
<1>2. PICK n \in Nat : completions' = [completions EXCEPT ![l] = n]
  <2>1. completions[l] \in Nat /\ completions[l] + 1 \in Nat
    OBVIOUS
  <2>. QED
    BY <2>1 DEF ReleaseNB
<1>. QED
  BY <1>1, <1>2

-----------------------------------------------------------------------------
(* The invariant: initially, and after each action.                        *)

\* A freshly allocated adapter.
LEMMA InitInv == Init => Inv
<1>. SUFFICES ASSUME Init PROVE Inv
  OBVIOUS
<1>1. 0 \in Ring
  BY RingAssumption DEF Ring
<1>2. TypeOK
  <2>1. snd \in [Calls -> [pc : {"new", "alloc", "map", "count", "fail", "kick", "done"},
                           nbl : Nat, nb : Nat, queued : BOOLEAN]]
    BY DEF Init
  <2>2. unwinding \in [Unwinders -> Seq(NBs)]
    BY DEF Init
  <2>3. mpQ \in Seq(NBs) /\ dmaQ \in Seq(NBs)
    BY DEF Init
  <2>4. /\ SwExt \in [Ring -> NBs \cup {NULL}] /\ R \in [Ring -> BOOLEAN]
        /\ FreeIdx \in Ring /\ PendingIdx \in Ring
    BY <1>1 DEF Init
  <2>5. /\ sm \in [pc : {"idle", "cancel", "unwind"}, paused : BOOLEAN, starts : Nat]
        /\ hw \in [eir : BOOLEAN, eimr : BOOLEAN, tdar : BOOLEAN, idx : Ring,
                   dpcQueued : BOOLEAN]
    BY <1>1 DEF Init
  <2>6. nbCounter \in [NBLs -> Int] /\ completions \in [NBLs -> Nat]
    BY DEF Init
  <2>7. /\ NdisStatus \in {"SUCCESS", "PAUSED"}
        /\ dpc \in {"idle", "scan", "unwind", "enable"}
    BY DEF Init
  <2>8. EnetStarted \in BOOLEAN
    BY Zenon DEF Init
  <2>9. FreeBDCount \in Nat /\ PendingNBs \in Int /\ hang \in 0 .. 3
    BY DEF Init
  <2>. QED
    BY <2>1, <2>2, <2>3, <2>4, <2>5, <2>6, <2>7, <2>8, <2>9 DEF TypeOK
<1>3. CallsInBounds
  <2>. SUFFICES ASSUME NEW c \in Calls
                PROVE  snd[c].nbl \in 1 .. Len(c) /\ snd[c].nb \in 1 .. NBCount[Nbl(c)]
    BY DEF CallsInBounds
  <2>1. Len(c) \in Nat /\ Len(c) > 0 /\ c[1] \in NBLs
    BY TxAssumption
  <2>2. snd[c].nbl = 1 /\ snd[c].nb = 1
    BY DEF Init
  <2>. QED
    BY <2>1, <2>2, TxAssumption DEF Nbl
<1>4. NoSlotBeforeStart
  BY DEF Init, NoSlotBeforeStart
<1>. QED
  BY <1>2, <1>3, <1>4 DEF Inv

\* Steps of MpSendNetBufferLists but for the one that feeds the DMA.
LEMMA CallInv ==
  ASSUME Inv, NEW c \in Calls,
         Send(c) \/ AllocTxBD(c) \/ MapNB(c) \/ CountNB(c) \/ FailNB(c)
  PROVE  Inv'
<1>. USE DEF Inv
<1>1. At(c, "new") \/ At(c, "alloc") \/ At(c, "map") \/ At(c, "count") \/ At(c, "fail")
  BY DEF Send, AllocTxBD, MapNB, CountNB, FailNB
<1>2. /\ snd[c].nbl \in 1 .. Len(c) /\ snd[c].nb \in 1 .. NBCount[Nbl(c)]
      /\ Nbl(c) \in NBLs
  BY <1>1, TxAssumption DEF CallsInBounds, At, Nbl
<1>3. <<Nbl(c), snd[c].nb>> \in NBs
  BY <1>2, NBsAre
<1>4. mpQ' \in Seq(NBs)
  <2>1. mpQ \in Seq(NBs)
    BY DEF TypeOK
  <2>2. mpQ' = mpQ \/ mpQ' = Append(mpQ, <<Nbl(c), snd[c].nb>>)
    BY DEF queues, Send, AllocTxBD, MapNB, CountNB, FailNB
  <2>. QED
    BY <1>3, <2>1, <2>2
<1>5. /\ nbCounter' \in [NBLs -> Int] /\ completions' \in [NBLs -> Nat]
      /\ PendingNBs' \in Int
  <2>. /\ nbCounter \in [NBLs -> Int] /\ completions \in [NBLs -> Nat]
       /\ PendingNBs \in Int
    BY DEF TypeOK
  <2>1. CASE Send(c)
    <3>1. completions' \in [NBLs -> Nat]
      <4>1. CASE NdisStatus = "SUCCESS"
        BY <2>1, <4>1 DEF Send
      <4>2. CASE NdisStatus # "SUCCESS"
        <5>1. completions' = [l \in NBLs |->
                IF l \in Chain(c) THEN completions[l] + 1 ELSE completions[l]]
          BY <2>1, <4>2 DEF Send
        <5>. QED
          BY <5>1
      <4>. QED
        BY <4>1, <4>2
    <3>2. nbCounter' = nbCounter /\ PendingNBs' = PendingNBs
      BY <2>1 DEF Send
    <3>. QED
      BY <3>1, <3>2
  <2>2. CASE AllocTxBD(c)
    <3>1. /\ nbCounter' = [nbCounter EXCEPT ![Nbl(c)] = nbCounter[Nbl(c)] + 1]
          /\ completions' = completions /\ PendingNBs' = PendingNBs
      BY <2>2 DEF AllocTxBD
    <3>2. nbCounter[Nbl(c)] + 1 \in Int
      BY <1>2
    <3>. QED
      BY <3>1, <3>2
  <2>3. CASE MapNB(c)
    BY <2>3 DEF MapNB, nbls
  <2>4. CASE CountNB(c)
    BY <2>4 DEF CountNB, nbls
  <2>5. CASE FailNB(c)
    <3>1. ReleaseNB(Nbl(c)) /\ PendingNBs' = PendingNBs
      BY <2>5 DEF FailNB
    <3>. QED
      BY <1>2, <3>1, ReleaseTypes
  <2>. QED
    BY <2>1, <2>2, <2>3, <2>4, <2>5
<1>. DEFINE Call == [pc : {"new", "alloc", "map", "count", "fail", "kick", "done"},
                     nbl : Nat, nb : Nat, queued : BOOLEAN]
            Inside(r) == r.nbl \in 1 .. Len(c) /\ r.nb \in 1 .. NBCount[c[r.nbl]]
            Going(r) == r.pc \in {"new", "alloc", "map", "count", "fail"}
<1>6. /\ snd' = [snd EXCEPT ![c] = snd'[c]]
      /\ snd'[c] \in Call /\ (Going(snd'[c]) => Inside(snd'[c]))
  <2>1. snd \in [Calls -> Call] /\ snd[c] \in Call /\ Inside(snd[c])
    BY <1>2 DEF TypeOK, Nbl
  <2>2. ASSUME NEW q \in BOOLEAN, NextNbl(c, q)
        PROVE  /\ snd' = [snd EXCEPT ![c] = snd'[c]]
               /\ snd'[c] \in Call /\ (Going(snd'[c]) => Inside(snd'[c]))
    <3>1. Len(c) \in Nat /\ \A i \in 1 .. Len(c) : c[i] \in NBLs
      BY TxAssumption
    <3>2. \A i \in 1 .. Len(c) : 1 \in 1 .. NBCount[c[i]]
      BY <3>1, TxAssumption
    <3>3. snd[c].nbl < Len(c) => snd[c].nbl + 1 \in 1 .. Len(c)
      BY <2>1, <3>1
    <3>4. CASE snd[c].nbl < Len(c)
      BY <2>1, <2>2, <3>2, <3>3, <3>4 DEF NextNbl
    <3>5. CASE ~(snd[c].nbl < Len(c))
      BY <2>1, <2>2, <3>5 DEF NextNbl
    <3>. QED
      BY <3>4, <3>5
  <2>3. CASE Send(c)
    BY <2>1, <2>3 DEF Send
  <2>4. CASE AllocTxBD(c)
    <3>1. PICK outcome \in {"map", "fail"} : snd' = [snd EXCEPT ![c].pc = outcome]
      BY <2>4 DEF AllocTxBD
    <3>. QED
      BY <2>1, <3>1
  <2>5. CASE MapNB(c)
    <3>1. PICK p \in {"count", "fail"} : snd' = [snd EXCEPT ![c].pc = p]
      BY <2>5 DEF MapNB
    <3>. QED
      BY <2>1, <3>1
  <2>6. CASE CountNB(c)
    <3>1. CASE snd[c].nb < NBCount[Nbl(c)]
      <4>1. snd' = [snd EXCEPT ![c].pc = "alloc", ![c].nb = @ + 1]
        BY <2>6, <3>1 DEF CountNB
      <4>2. NBCount[c[snd[c].nbl]] \in Nat
        BY <1>2, TxAssumption DEF Nbl
      <4>3. /\ snd'[c].pc = "alloc" /\ snd'[c].nbl = snd[c].nbl
            /\ snd'[c].nb = snd[c].nb + 1 /\ snd'[c].queued = snd[c].queued
        BY <2>1, <4>1
      <4>4. snd[c].nb + 1 \in 1 .. NBCount[c[snd[c].nbl]]
        BY <2>1, <3>1, <4>2 DEF Nbl
      <4>5. snd'[c] \in Call
        BY <2>1, <4>1, <4>3
      <4>6. snd' = [snd EXCEPT ![c] = snd'[c]]
        BY <2>1, <4>1
      <4>. QED
        BY <2>1, <4>3, <4>4, <4>5, <4>6
    <3>2. CASE ~(snd[c].nb < NBCount[Nbl(c)])
      BY <2>2, <2>6, <3>2 DEF CountNB
    <3>. QED
      BY <3>1, <3>2
  <2>7. CASE FailNB(c)
    BY <2>1, <2>2, <2>7 DEF FailNB
  <2>. QED
    BY <2>3, <2>4, <2>5, <2>6, <2>7
<1>7. UNCHANGED <<status, dmaQ, bds, unwinding, dpc, sm, hw>>
  BY DEF Send, AllocTxBD, MapNB, CountNB, FailNB, queues
<1>8. snd' \in [Calls -> Call]
  BY <1>6 DEF TypeOK
<1>9. TypeOK'
  BY <1>4, <1>5, <1>7, <1>8 DEF TypeOK, status, bds, ring
<1>10. CallsInBounds'
  <2>1. ASSUME NEW e \in Calls, e # c PROVE snd'[e] = snd[e]
    BY <1>6, <2>1 DEF TypeOK
  <2>2. ASSUME NEW e \in Calls, Going(snd'[e])
        PROVE  snd'[e].nbl \in 1 .. Len(e) /\ snd'[e].nb \in 1 .. NBCount[e[snd'[e].nbl]]
    BY <1>6, <2>1, <2>2 DEF CallsInBounds, Nbl
  <2>. QED
    BY <2>2 DEF CallsInBounds, Nbl
<1>11. NoSlotBeforeStart'
  BY <1>7 DEF NoSlotBeforeStart, status, bds, ring
<1>. QED
  BY <1>9, <1>10, <1>11

\* The two steps that feed the DMA.
LEMMA FeedInv ==
  ASSUME Inv, (\E c \in Calls : KickSend(c)) \/ DpcSendNext
  PROVE  Inv'
<1>. TypeOK /\ CallsInBounds /\ NoSlotBeforeStart
  BY DEF Inv
<1>1. MpSendNextNB /\ UNCHANGED <<status, PendingNBs, nbls, unwinding, sm>>
  BY DEF KickSend, DpcSendNext
<1>2. FillTypes'
  BY <1>1, SendNextTypes
<1>3. /\ \/ snd' = snd
         \/ \E c \in Calls : snd' = [snd EXCEPT ![c].pc = "done"]
      /\ dpc' \in {dpc, "enable"}
  BY DEF KickSend, DpcSendNext
<1>. DEFINE Call == [pc : {"new", "alloc", "map", "count", "fail", "kick", "done"},
                     nbl : Nat, nb : Nat, queued : BOOLEAN]
<1>4. /\ snd' \in [Calls -> Call]
      /\ \A e \in Calls : snd'[e].pc = "done" \/ snd'[e] = snd[e]
  <2>. snd \in [Calls -> Call]
    BY DEF TypeOK
  <2>1. CASE snd' = snd
    BY <2>1
  <2>2. ASSUME NEW c \in Calls, snd' = [snd EXCEPT ![c].pc = "done"]
        PROVE  /\ snd' \in [Calls -> Call]
               /\ \A e \in Calls : snd'[e].pc = "done" \/ snd'[e] = snd[e]
    BY <2>2
  <2>. QED
    BY <1>3, <2>1, <2>2
<1>5. TypeOK'
  <2>1. /\ NdisStatus' \in {"SUCCESS", "PAUSED"} /\ EnetStarted' \in BOOLEAN
        /\ PendingNBs' \in Int
        /\ nbCounter' \in [NBLs -> Int] /\ completions' \in [NBLs -> Nat]
        /\ unwinding' \in [Unwinders -> Seq(NBs)]
        /\ sm' \in [pc : {"idle", "cancel", "unwind"}, paused : BOOLEAN, starts : Nat]
    BY <1>1 DEF TypeOK, status, nbls
  <2>2. dpc' \in {"idle", "scan", "unwind", "enable"}
    BY <1>3 DEF TypeOK
  <2>. QED
    BY <1>2, <1>4, <2>1, <2>2 DEF TypeOK, FillTypes
<1>6. CallsInBounds'
  BY <1>4 DEF CallsInBounds, Nbl
<1>7. NoSlotBeforeStart'
  <2>. SUFFICES ASSUME NdisStatus = "SUCCESS" /\ ~EnetStarted
                PROVE  FreeBDCount' = 0 /\ \A i \in Ring : SwExt'[i] = NULL
    BY <1>1 DEF NoSlotBeforeStart, status
  <2>1. FreeBDCount = 0 /\ \A i \in Ring : SwExt[i] = NULL
    BY DEF NoSlotBeforeStart
  <2>2. Sendable = 0
    BY <2>1, SendableRange
  <2>3. TxFill(0)
    BY <1>1, <2>2 DEF MpSendNextNB
  <2>4. \A i \in Ring : Filled(i, 0) = 0
    BY FilledRange
  <2>. QED
    BY <2>1, <2>3, <2>4 DEF TxFill
<1>. QED
  BY <1>5, <1>6, <1>7 DEF Inv

\* Steps of the MAC, the ISR and the DPC that move no frame, and hang checks.
LEMMA HwInv ==
  ASSUME Inv,
         \/ HwTransmit \/ HwTxError \/ EnetIsr \/ EnetDpc \/ DpcEnable
         \/ MpCheckForHangEx
  PROVE  Inv'
<1>. TypeOK /\ CallsInBounds /\ NoSlotBeforeStart
  BY DEF Inv
<1>1. /\ UNCHANGED <<status, queues, SwExt, FreeIdx, PendingIdx, FreeBDCount>>
      /\ UNCHANGED <<PendingNBs, nbls, snd, unwinding, sm>>
  BY DEF HwTransmit, HwTxError, EnetIsr, EnetDpc, DpcEnable, Unmask,
         MpCheckForHangEx, ring, bds
<1>. DEFINE Registers == [eir : BOOLEAN, eimr : BOOLEAN, tdar : BOOLEAN, idx : Ring,
                          dpcQueued : BOOLEAN]
<1>2. /\ R' \in [Ring -> BOOLEAN] /\ hw' \in Registers /\ hang' \in 0 .. 3
      /\ dpc' \in {"idle", "scan", "unwind", "enable"}
  <2>. /\ R \in [Ring -> BOOLEAN] /\ hw \in Registers /\ hang \in 0 .. 3
       /\ dpc \in {"idle", "scan", "unwind", "enable"}
    BY DEF TypeOK
  <2>1. CASE HwTransmit
    <3>1. hw.idx \in Ring /\ Wrap(hw.idx + 1) \in Ring
      <4>1. hw.idx \in Ring /\ 1 \in 0 .. ItemCount
        BY RingAssumption
      <4>. QED
        BY <4>1, WrapInRing
    <3>2. R' = [R EXCEPT ![hw.idx] = FALSE]
      BY <2>1 DEF HwTransmit
    <3>3. R' \in [Ring -> BOOLEAN]
      BY <3>1, <3>2
    <3>4. PICK t \in BOOLEAN :
            hw' = [hw EXCEPT !.idx = Wrap(hw.idx + 1), !.eir = TRUE, !.tdar = t]
      BY <2>1, <3>1, <3>3 DEF HwTransmit
    <3>5. hw' \in Registers
      BY <3>1, <3>4
    <3>. QED
      BY <2>1, <3>3, <3>5 DEF HwTransmit
  <2>2. CASE HwTxError
    BY <2>2 DEF HwTxError, bds, ring
  <2>3. CASE EnetIsr
    BY <2>3 DEF EnetIsr, bds, ring
  <2>4. CASE EnetDpc
    BY <2>4 DEF EnetDpc, bds, ring
  <2>5. CASE DpcEnable
    BY <2>5 DEF DpcEnable, Unmask, bds, ring
  <2>6. CASE MpCheckForHangEx
    BY <2>6 DEF MpCheckForHangEx, ring
  <2>. QED
    BY <2>1, <2>2, <2>3, <2>4, <2>5, <2>6
<1>3. TypeOK'
  BY <1>1, <1>2 DEF TypeOK, status, queues, nbls
<1>4. CallsInBounds' /\ NoSlotBeforeStart'
  BY <1>1 DEF CallsInBounds, Nbl, NoSlotBeforeStart, status
<1>. QED
  BY <1>3, <1>4 DEF Inv

\* The DPC reaps what the MAC has sent.
LEMMA ReapInv ==
  ASSUME Inv, MpHandleTxInterrupt
  PROVE  Inv'
<1>. TypeOK /\ CallsInBounds /\ NoSlotBeforeStart
  BY DEF Inv
<1>1. PICK m \in 0 .. ItemCount :
        /\ Reap(m)
        /\ hw' = [hw EXCEPT !.tdar = hw.tdar \/ (SwExt'[PendingIdx'] # NULL /\ R[PendingIdx'])]
  BY DEF MpHandleTxInterrupt
<1>2. dpc' = "unwind" /\ UNCHANGED <<status, PendingNBs, nbls, snd, sm, mpQ, R, FreeIdx>>
  BY <1>1 DEF MpHandleTxInterrupt, Reap
<1>3. /\ SwExt' \in [Ring -> NBs \cup {NULL}]
      /\ PendingIdx' \in Ring /\ FreeBDCount' \in Nat /\ hang' \in 0 .. 3
      /\ dmaQ' \in Seq(NBs)
      /\ unwinding' \in [Unwinders -> Seq(NBs)]
  BY <1>1, ReapTypes
<1>4. hw' \in [eir : BOOLEAN, eimr : BOOLEAN, tdar : BOOLEAN, idx : Ring,
               dpcQueued : BOOLEAN]
  BY <1>1 DEF TypeOK
<1>5. TypeOK'
  BY <1>2, <1>3, <1>4 DEF TypeOK, status, nbls
<1>6. CallsInBounds'
  BY <1>2 DEF CallsInBounds, Nbl
<1>7. NoSlotBeforeStart'
  <2>. SUFFICES ASSUME NdisStatus = "SUCCESS" /\ ~EnetStarted
                PROVE  FreeBDCount' = 0 /\ \A i \in Ring : SwExt'[i] = NULL
    BY <1>2 DEF NoSlotBeforeStart, status
  <2>1. FreeBDCount = 0 /\ \A i \in Ring : SwExt[i] = NULL
    BY DEF NoSlotBeforeStart
  <2>2. m = 0
    <3>. SUFFICES ASSUME m # 0 PROVE FALSE
      OBVIOUS
    <3>1. 0 \in 0 .. m - 1 /\ 0 \in 0 .. ItemCount /\ m \in 0 .. ItemCount
      BY RingAssumption
    <3>2. Sent(Wrap(PendingIdx + 0))
      BY <1>1, <3>1 DEF Reap
    <3>3. Wrap(PendingIdx + 0) \in Ring
      BY <3>1, WrapInRing DEF TypeOK
    <3>. QED
      BY <2>1, <3>2, <3>3 DEF Sent
  <2>3. \A i \in Ring : SwExt'[i] = NULL
    BY <1>1, <2>1 DEF Reap
  <2>4. FreeBDCount' = 0
    BY <1>1, <2>1, <2>2 DEF Reap
  <2>. QED
    BY <2>3, <2>4
<1>. QED
  BY <1>5, <1>6, <1>7 DEF Inv

\* Unwinding the oldest frame of a private list.
LEMMA UnwindInv ==
  ASSUME Inv, NEW u \in Unwinders, MpTxUnwindNetBuffer(u)
  PROVE  Inv'
<1>. TypeOK /\ CallsInBounds /\ NoSlotBeforeStart
  BY DEF Inv
<1>1. unwinding[u] \in Seq(NBs) /\ unwinding[u] # <<>>
  BY DEF MpTxUnwindNetBuffer, TypeOK
<1>2. Head(unwinding[u]) \in NBs /\ Tail(unwinding[u]) \in Seq(NBs)
  BY <1>1
<1>3. Head(unwinding[u])[1] \in NBLs
  BY <1>2, NBsType
<1>4. nbCounter' \in [NBLs -> Int] /\ completions' \in [NBLs -> Nat]
  <2>1. ReleaseNB(Head(unwinding[u])[1])
    BY DEF MpTxUnwindNetBuffer
  <2>2. nbCounter \in [NBLs -> Int] /\ completions \in [NBLs -> Nat]
    BY DEF TypeOK
  <2>. QED
    BY <1>3, <2>1, <2>2, ReleaseTypes
<1>5. PendingNBs' \in Int
  BY DEF MpTxUnwindNetBuffer, UncountNB, TypeOK
<1>6. unwinding' \in [Unwinders -> Seq(NBs)]
  <2>1. unwinding' = [unwinding EXCEPT ![u] = Tail(unwinding[u])]
    BY DEF MpTxUnwindNetBuffer
  <2>. QED
    BY <1>2, <2>1 DEF TypeOK
<1>7. UNCHANGED <<status, queues, bds, snd, dpc, sm, hw>>
  BY DEF MpTxUnwindNetBuffer
<1>8. TypeOK'
  BY <1>4, <1>5, <1>6, <1>7 DEF TypeOK, status, queues, bds, ring
<1>9. CallsInBounds' /\ NoSlotBeforeStart'
  BY <1>7 DEF CallsInBounds, Nbl, NoSlotBeforeStart, status, bds, ring
<1>. QED
  BY <1>8, <1>9 DEF Inv

\* NDIS cancels an NBL.
LEMMA CancelInv ==
  ASSUME Inv, NEW l \in NBLs, MpCancelSendNetBufferLists(l)
  PROVE  Inv'
<1>. TypeOK /\ CallsInBounds /\ NoSlotBeforeStart
  BY DEF Inv
<1>. DEFINE mine == {i \in 1 .. Len(mpQ) : mpQ[i][1] = l}
            Others == 1 .. Len(mpQ) \ mine
<1>1. PICK taken \in InOrder(mine), left \in InOrder(Others) :
        /\ mpQ' = [i \in DOMAIN left |-> mpQ[left[i]]]
        /\ unwinding' = [unwinding EXCEPT !["cancel"] =
             [i \in DOMAIN taken |-> mpQ[taken[i]]]]
  BY DEF MpCancelSendNetBufferLists
<1>2. mine \in SUBSET (1 .. Len(mpQ)) /\ Others \in SUBSET (1 .. Len(mpQ))
  OBVIOUS
<1>. HIDE DEF mine, Others
<1>. DEFINE gone == [i \in DOMAIN taken |-> mpQ[taken[i]]]
<1>3. mpQ' \in Seq(NBs) /\ gone \in Seq(NBs)
  BY <1>1, <1>2, CancelTypes
<1>4. unwinding' = [unwinding EXCEPT !["cancel"] = gone]
  BY <1>1
<1>. HIDE DEF gone
<1>5. unwinding' \in [Unwinders -> Seq(NBs)]
  BY <1>3, <1>4 DEF TypeOK
<1>6. UNCHANGED <<status, dmaQ, bds, PendingNBs, nbls, snd, dpc, sm, hw>>
  BY DEF MpCancelSendNetBufferLists
<1>7. TypeOK'
  BY <1>3, <1>5, <1>6 DEF TypeOK, status, bds, ring, nbls
<1>8. CallsInBounds' /\ NoSlotBeforeStart'
  BY <1>6 DEF CallsInBounds, Nbl, NoSlotBeforeStart, status, bds, ring
<1>. QED
  BY <1>7, <1>8 DEF Inv

\* Steps of the state machine.
LEMMA SmInv ==
  ASSUME Inv, EnetStart \/ EnetStop \/ MpTxCancelAll \/ CancelDone \/ PausingPoll
  PROVE  Inv'
<1>. TypeOK /\ CallsInBounds /\ NoSlotBeforeStart
  BY DEF Inv
<1>1. UNCHANGED <<SwExt, PendingNBs, nbls, snd, dpc>>
  BY DEF EnetStart, EnetStop, MpTxCancelAll, CancelDone, PausingPoll, bds, ring
<1>2. CallsInBounds'
  BY <1>1 DEF CallsInBounds, Nbl
<1>3. CASE EnetStart
  <2>1. /\ NdisStatus' = "SUCCESS" /\ EnetStarted' = TRUE
        /\ R' = [i \in Ring |-> FALSE]
        /\ FreeIdx' = 0 /\ PendingIdx' = 0 /\ FreeBDCount' = ItemCount /\ hang' = 0
        /\ UNCHANGED <<queues, unwinding>>
    BY <1>3 DEF EnetStart
  <2>2. 0 \in Ring /\ ItemCount \in Nat
    BY RingAssumption DEF Ring
  <2>3. hw' \in [eir : BOOLEAN, eimr : BOOLEAN, tdar : BOOLEAN, idx : Ring,
                 dpcQueued : BOOLEAN]
    BY <1>3, <2>2 DEF EnetStart, TypeOK
  <2>4. sm' \in [pc : {"idle", "cancel", "unwind"}, paused : BOOLEAN, starts : Nat]
    <3>1. sm \in [pc : {"idle", "cancel", "unwind"}, paused : BOOLEAN, starts : Nat]
      BY DEF TypeOK
    <3>2. sm' = [sm EXCEPT !.paused = FALSE, !.starts = sm.starts + 1]
      BY <1>3 DEF EnetStart
    <3>3. sm.starts + 1 \in Nat
      BY <3>1
    <3>4. sm' = [pc |-> sm.pc, paused |-> FALSE, starts |-> sm.starts + 1]
      BY <3>1, <3>2
    <3>. QED
      BY <3>1, <3>3, <3>4
  <2>5. TypeOK'
    BY <1>1, <2>1, <2>2, <2>3, <2>4 DEF TypeOK, queues, nbls
  <2>6. NoSlotBeforeStart'
    BY <2>1 DEF NoSlotBeforeStart
  <2>. QED
    BY <1>2, <2>5, <2>6 DEF Inv
<1>4. CASE EnetStop
  <2>1. /\ NdisStatus' = "PAUSED" /\ EnetStarted' = FALSE
        /\ UNCHANGED <<queues, bds, unwinding>>
    BY <1>4 DEF EnetStop
  <2>2. hw' \in [eir : BOOLEAN, eimr : BOOLEAN, tdar : BOOLEAN, idx : Ring,
                 dpcQueued : BOOLEAN]
    BY <1>4 DEF EnetStop, TypeOK
  <2>3. sm' \in [pc : {"idle", "cancel", "unwind"}, paused : BOOLEAN, starts : Nat]
    BY <1>4 DEF EnetStop, TypeOK
  <2>4. TypeOK'
    BY <1>1, <2>1, <2>2, <2>3 DEF TypeOK, queues, bds, ring, nbls
  <2>5. NoSlotBeforeStart'
    BY <2>1 DEF NoSlotBeforeStart
  <2>. QED
    BY <1>2, <2>4, <2>5 DEF Inv
<1>5. CASE MpTxCancelAll \/ CancelDone \/ PausingPoll
  <2>1. UNCHANGED <<status, bds, hw>>
    BY <1>5 DEF MpTxCancelAll, CancelDone, PausingPoll
  <2>2. sm' \in [pc : {"idle", "cancel", "unwind"}, paused : BOOLEAN, starts : Nat]
    <3>1. sm \in [pc : {"idle", "cancel", "unwind"}, paused : BOOLEAN, starts : Nat]
      BY DEF TypeOK
    <3>2. \/ sm' = [sm EXCEPT !.pc = "unwind"]
          \/ sm' = [sm EXCEPT !.pc = "idle"]
          \/ sm' = [sm EXCEPT !.paused = TRUE]
      BY <1>5 DEF MpTxCancelAll, CancelDone, PausingPoll
    <3>. QED
      BY <3>1, <3>2
  <2>3. /\ mpQ' \in Seq(NBs) /\ dmaQ' \in Seq(NBs)
        /\ unwinding' \in [Unwinders -> Seq(NBs)]
    <3>1. mpQ \in Seq(NBs) /\ dmaQ \in Seq(NBs) /\ unwinding \in [Unwinders -> Seq(NBs)]
      BY DEF TypeOK
    <3>2. CASE TakeAll
      <4>. DEFINE all == dmaQ \o mpQ
      <4>1. all \in Seq(NBs)
        BY <3>1
      <4>2. mpQ' = <<>> /\ dmaQ' = <<>> /\ unwinding' = [unwinding EXCEPT !["sm"] = all]
        BY <3>2 DEF TakeAll, Drained
      <4>. HIDE DEF all
      <4>3. unwinding' \in [Unwinders -> Seq(NBs)]
        BY <3>1, <4>1, <4>2
      <4>4. <<>> \in Seq(NBs)
        OBVIOUS
      <4>. QED
        BY <4>2, <4>3, <4>4
    <3>3. CASE UNCHANGED <<queues, unwinding>>
      BY <3>1, <3>3 DEF queues
    <3>4. TakeAll \/ UNCHANGED <<queues, unwinding>>
      BY <1>5 DEF MpTxCancelAll, CancelDone, PausingPoll
    <3>. QED
      BY <3>2, <3>3, <3>4
  <2>4. TypeOK'
    BY <1>1, <2>1, <2>2, <2>3 DEF TypeOK, status, bds, ring, nbls
  <2>5. NoSlotBeforeStart'
    BY <2>1 DEF NoSlotBeforeStart, status, bds, ring
  <2>. QED
    BY <1>2, <2>4, <2>5 DEF Inv
<1>. QED
  BY <1>3, <1>4, <1>5

\* Every step, action by action.
LEMMA NextInv == Inv /\ [Next]_vars => Inv'
<1>. SUFFICES ASSUME Inv, [Next]_vars PROVE Inv'
  OBVIOUS
<1>1. ASSUME NEW c \in Calls, CallStep(c) PROVE Inv'
  BY <1>1, CallInv, FeedInv DEF CallStep
<1>2. ASSUME NEW l \in NBLs, MpCancelSendNetBufferLists(l) PROVE Inv'
  BY <1>2, CancelInv
<1>3. CASE MpTxUnwindNetBuffer("cancel")
  BY <1>3, UnwindInv DEF Unwinders
<1>4. CASE HwTransmit \/ HwTxError \/ EnetIsr \/ MpCheckForHangEx
  BY <1>4, HwInv
<1>5. CASE DpcStep
  BY <1>5, HwInv, FeedInv, ReapInv, UnwindInv DEF DpcStep, Unwinders
<1>6. CASE SmStep
  BY <1>6, SmInv, UnwindInv DEF SmStep, Unwinders
<1>7. CASE EnetStart \/ EnetStop \/ PausingPoll
  BY <1>7, SmInv
<1>8. CASE UNCHANGED vars
  <2>. TypeOK /\ CallsInBounds /\ NoSlotBeforeStart
    BY DEF Inv
  <2>1. /\ UNCHANGED <<status, queues, bds, PendingNBs, nbls, snd>>
        /\ UNCHANGED <<unwinding, dpc, sm, hw>>
    BY <1>8 DEF vars
  <2>2. TypeOK'
    BY <2>1 DEF TypeOK, status, queues, bds, ring, nbls
  <2>3. CallsInBounds' /\ NoSlotBeforeStart'
    BY <2>1 DEF CallsInBounds, Nbl, NoSlotBeforeStart, status, bds, ring
  <2>. QED
    BY <2>2, <2>3 DEF Inv
<1>. QED
  BY <1>1, <1>2, <1>3, <1>4, <1>5, <1>6, <1>7, <1>8 DEF Next

-----------------------------------------------------------------------------
(* The theorems.                                                           *)

\* The invariant holds in every behaviour of the transmit path.
THEOREM Invariance == Spec => []Inv
<1>1. Init => Inv
  BY InitInv
<1>2. Inv /\ [Next]_vars => Inv'
  BY NextInv
<1>. QED
  BY <1>1, <1>2, PTL DEF Spec

\* Ring indices stay inside the ring and the free counter never drops below zero,
\* whatever is interleaved: MpSendNextNB, the reaping DPC and MpTxInit touch no
\* memory outside of the descriptor table.
THEOREM TypeCorrect == Spec => []TypeOK
<1>1. Inv => TypeOK
  BY DEF Inv
<1>. QED
  BY <1>1, Invariance, PTL

\* Frames are given to the DMA only by MpSendNextNB, which before the first start
\* and after a stop finds either no free descriptor or a status that refuses.
LEMMA FillStarted ==
  ASSUME Inv, [Next]_vars, NEW i \in Ring, R'[i], ~R[i]
  PROVE  EnetStarted /\ EnetStarted'
<1>. TypeOK /\ NoSlotBeforeStart
  BY DEF Inv
<1>1. CASE (\E c \in Calls : KickSend(c)) \/ DpcSendNext
  <2>1. MpSendNextNB /\ EnetStarted' = EnetStarted
    BY <1>1 DEF KickSend, DpcSendNext, status
  <2>2. TxFill(Sendable)
    BY <2>1 DEF MpSendNextNB
  <2>3. Sendable \in Nat /\ (Sendable > 0 => NdisStatus = "SUCCESS" /\ FreeBDCount > 0)
    BY SendableRange
  <2>4. Filled(i, Sendable) # 0
    BY <2>2 DEF TxFill
  <2>5. Sendable > 0
    BY <2>3, <2>4, FilledRange
  <2>6. EnetStarted
    BY <2>3, <2>5 DEF NoSlotBeforeStart
  <2>. QED
    BY <2>1, <2>6
<1>2. CASE HwTransmit
  BY <1>2 DEF HwTransmit, TypeOK
<1>3. CASE EnetStart
  BY <1>3 DEF EnetStart
<1>4. CASE UNCHANGED R
  BY <1>4
<1>5. ASSUME NEW c \in Calls, CallStep(c), ~KickSend(c) PROVE UNCHANGED R
  BY <1>5 DEF CallStep, Send, AllocTxBD, MapNB, CountNB, FailNB, bds, ring
<1>6. ASSUME NEW l \in NBLs, MpCancelSendNetBufferLists(l) PROVE UNCHANGED R
  BY <1>6 DEF MpCancelSendNetBufferLists, bds, ring
<1>7. ASSUME NEW u \in Unwinders, MpTxUnwindNetBuffer(u) PROVE UNCHANGED R
  BY <1>7 DEF MpTxUnwindNetBuffer, bds, ring
<1>8. CASE HwTxError \/ EnetIsr \/ EnetDpc \/ DpcEnable \/ MpCheckForHangEx
  BY <1>4, <1>8 DEF HwTxError, EnetIsr, EnetDpc, DpcEnable, Unmask, MpCheckForHangEx,
                    bds, ring
<1>9. CASE MpHandleTxInterrupt
  BY <1>4, <1>9 DEF MpHandleTxInterrupt, Reap
<1>10. CASE EnetStop \/ MpTxCancelAll \/ CancelDone \/ PausingPoll
  BY <1>4, <1>10 DEF EnetStop, MpTxCancelAll, CancelDone, PausingPoll, bds, ring
<1>11. CASE UNCHANGED vars
  BY <1>4, <1>11 DEF vars, bds, ring
<1>12. CASE Next
  <2>1. CASE \E c \in Calls : CallStep(c)
    BY <1>1, <1>4, <1>5, <2>1
  <2>2. CASE DpcStep
    BY <1>1, <1>4, <1>7, <1>8, <1>9, <2>2 DEF DpcStep, Unwinders
  <2>3. CASE SmStep
    BY <1>4, <1>7, <1>10, <2>3 DEF SmStep, Unwinders
  <2>4. CASE ~(\E c \in Calls : CallStep(c)) /\ ~DpcStep /\ ~SmStep
    BY <1>2, <1>3, <1>4, <1>6, <1>7, <1>8, <1>10, <1>12, <2>4 DEF Next, Unwinders
  <2>. QED
    BY <2>1, <2>2, <2>3, <2>4
<1>. QED
  BY <1>11, <1>12

\* Although MpSendNextNB looks at NdisStatus only, which is "success" from the
\* moment the adapter is allocated, no descriptor is ever handed to a MAC that has
\* not been started or has been stopped.
THEOREM NoEarlyFill == Spec => FillOnlyWhenStarted
<1>1. Inv /\ [Next]_vars =>
        [(\E i \in Ring : R'[i] /\ ~R[i]) => EnetStarted /\ EnetStarted']_vars
  BY FillStarted
<1>. QED
  BY <1>1, Invariance, PTL DEF Spec, FillOnlyWhenStarted

-----------------------------------------------------------------------------
(* The ring and its queue.  A stop cancels the frames the DMA holds but     *)
(* leaves them in their slots; a restart that finds such slots would reap   *)
(* them once more, so what follows holds where none is found ("stale").     *)

\* The MAC has sent the s oldest frames of Tx_qDmaOwnedBDs and owns the others.
SentBefore(s) ==
  /\ hw.idx = Wrap(PendingIdx + s)
  /\ \A i \in Ring : R[i] <=> Ahead(PendingIdx, i) \in s .. Len(dmaQ) - 1

\* From PendingIdx on, the slots hold the frames of Tx_qDmaOwnedBDs.
SlotsMatch ==
  \A i \in Ring : SwExt[i] = IF Ahead(PendingIdx, i) < Len(dmaQ)
                             THEN dmaQ[Ahead(PendingIdx, i) + 1] ELSE NULL

IndicesMatch ==
  /\ Len(dmaQ) + FreeBDCount = ItemCount
  /\ FreeIdx = Wrap(PendingIdx + Len(dmaQ))

RingMatches == IndicesMatch /\ SlotsMatch /\ \E s \in 0 .. Len(dmaQ) : SentBefore(s)

\* The MAC runs only with sends accepted and no cancel going on; once it is
\* stopped and its queue cancelled, the queue stays empty.
Running ==
  /\ EnetStarted => NdisStatus = "SUCCESS" /\ sm.pc = "idle"
  /\ ~EnetStarted /\ sm.pc # "cancel" => dmaQ = <<>>

RingInv == Running /\ (EnetStarted => RingMatches)

\* NULL is no frame.
LEMMA NullIsNoNB == NULL \notin NBs
  BY TxAssumption, NBsAre

\* The property, from the invariant.
LEMMA RingOrder ==
  ASSUME TypeOK, RingInv
  PROVE  RingMatchesQueue
<1>. SUFFICES ASSUME EnetStarted PROVE RingMatchesQueue!2
  BY DEF RingMatchesQueue
<1>1. RingMatches
  BY DEF RingInv
<1>2. PICK s \in 0 .. Len(dmaQ) : SentBefore(s)
  BY <1>1 DEF RingMatches
<1>3. Len(dmaQ) \in Nat /\ FreeBDCount \in Nat /\ PendingIdx \in Ring /\ Len(dmaQ) <= ItemCount
  BY <1>1, RingAssumption DEF RingMatches, IndicesMatch, TypeOK
<1>4. ASSUME NEW i \in Ring
      PROVE  /\ SwExt[i] = IF Ahead(PendingIdx, i) + 1 <= Len(dmaQ)
                           THEN dmaQ[Ahead(PendingIdx, i) + 1] ELSE NULL
             /\ R[i] => Ahead(PendingIdx, i) + 1 <= Len(dmaQ)
             /\ R[i] /\ Ahead(PendingIdx, i) + 1 < Len(dmaQ) => R[Wrap(i + 1)]
  <2>. DEFINE a == Ahead(PendingIdx, i)
  <2>1. a \in Ring /\ Wrap(PendingIdx + a) = i
    BY <1>3, AheadInRing
  <2>2. a \in Nat
    BY <2>1, RingAssumption DEF Ring
  <2>3. R[i] <=> a \in s .. Len(dmaQ) - 1
    BY <1>2 DEF SentBefore
  <2>4. SwExt[i] = IF a < Len(dmaQ) THEN dmaQ[a + 1] ELSE NULL
    BY <1>1 DEF RingMatches, SlotsMatch
  <2>5. ASSUME R[i], a + 1 < Len(dmaQ) PROVE R[Wrap(i + 1)]
    <3>. HIDE DEF a
    <3>1. a + 1 \in Ring /\ a \in 0 .. ItemCount /\ 1 \in 0 .. ItemCount /\ a + 1 <= ItemCount
      BY <1>3, <2>2, <2>5, RingAssumption DEF Ring
    <3>2. Wrap(i + 1) = Wrap(PendingIdx + (a + 1))
      BY <1>3, <2>1, <3>1, WrapTwice
    <3>3. Ahead(PendingIdx, Wrap(i + 1)) = a + 1
      BY <1>3, <3>1, <3>2, AheadOfWrap
    <3>4. Wrap(i + 1) \in Ring
      BY <3>1, WrapInRing
    <3>5. R[Wrap(i + 1)] <=> a + 1 \in s .. Len(dmaQ) - 1
      BY <1>2, <3>3, <3>4 DEF SentBefore
    <3>. QED
      BY <1>3, <2>2, <2>3, <2>5, <3>5
  <2>. HIDE DEF a
  <2>6. a + 1 <= Len(dmaQ) <=> a < Len(dmaQ)
    BY <1>3, <2>2
  <2>7. R[i] => a + 1 <= Len(dmaQ)
    BY <1>3, <2>2, <2>3
  <2>8. a = Ahead(PendingIdx, i)
    BY DEF a
  <2>. QED
    BY <2>4, <2>5, <2>6, <2>7, <2>8
<1>. QED
  BY <1>1, <1>4 DEF RingMatches, IndicesMatch

\* Steps that leave the ring, its queue and the MAC's pointer alone.
LEMMA RingKept ==
  ASSUME RingInv, UNCHANGED <<status, dmaQ, ring>>, sm'.pc = sm.pc, hw'.idx = hw.idx
  PROVE  RingInv'
  BY DEF RingInv, Running, RingMatches, IndicesMatch, SlotsMatch, SentBefore, status, ring

\* The MAC sends the oldest frame it owns.
LEMMA RingTransmit ==
  ASSUME TypeOK, RingInv, HwTransmit
  PROVE  RingInv'
<1>1. /\ EnetStarted /\ R[hw.idx]
      /\ R' = [R EXCEPT ![hw.idx] = FALSE]
      /\ UNCHANGED <<status, dmaQ, SwExt, FreeIdx, PendingIdx, FreeBDCount, sm>>
  BY DEF HwTransmit, queues
<1>2. hw'.idx = Wrap(hw.idx + 1)
  <2>1. hw' = [hw EXCEPT !.idx = Wrap(hw.idx + 1), !.eir = TRUE, !.tdar = R'[Wrap(hw.idx + 1)]]
    BY DEF HwTransmit
  <2>. QED
    BY <2>1 DEF TypeOK
<1>3. RingMatches
  BY <1>1 DEF RingInv
<1>4. PICK s \in 0 .. Len(dmaQ) : SentBefore(s)
  BY <1>3 DEF RingMatches
<1>5. /\ Len(dmaQ) \in Nat /\ PendingIdx \in Ring /\ Len(dmaQ) <= ItemCount /\ hw.idx \in Ring
      /\ R \in [Ring -> BOOLEAN]
  BY <1>3, RingAssumption DEF RingMatches, IndicesMatch, TypeOK
<1>6. hw.idx = Wrap(PendingIdx + s)
  BY <1>4 DEF SentBefore
<1>7. s < Len(dmaQ) /\ s \in Ring
  <2>1. Ahead(PendingIdx, hw.idx) \in s .. Len(dmaQ) - 1
    BY <1>1, <1>4, <1>5 DEF SentBefore
  <2>. QED
    BY <1>5, <2>1, RingAssumption DEF Ring
<1>8. Ahead(PendingIdx, hw.idx) = s
  BY <1>5, <1>6, <1>7, AheadOfWrap
<1>9. hw'.idx = Wrap(PendingIdx + (s + 1))
  <2>1. s \in 0 .. ItemCount /\ 1 \in 0 .. ItemCount /\ s + 1 <= ItemCount
    BY <1>5, <1>7, RingAssumption
  <2>. QED
    BY <1>2, <1>5, <1>6, <2>1, WrapTwice
<1>10. ASSUME NEW i \in Ring
       PROVE  R'[i] <=> Ahead(PendingIdx, i) \in s + 1 .. Len(dmaQ) - 1
  <2>. DEFINE a == Ahead(PendingIdx, i)
  <2>1. a \in Nat /\ Wrap(PendingIdx + a) = i
    <3>1. a \in Ring /\ Wrap(PendingIdx + a) = i
      BY <1>5, AheadInRing
    <3>. QED
      BY <3>1, RingAssumption DEF Ring
  <2>2. a = s <=> i = hw.idx
    BY <1>6, <1>8, <2>1
  <2>3. R[i] <=> a \in s .. Len(dmaQ) - 1
    BY <1>4 DEF SentBefore
  <2>4. R'[i] <=> i # hw.idx /\ R[i]
    BY <1>1, <1>5
  <2>. HIDE DEF a
  <2>5. R'[i] <=> a \in s + 1 .. Len(dmaQ) - 1
    BY <1>5, <2>1, <2>2, <2>3, <2>4
  <2>. QED
    BY <2>5 DEF a
<1>11. s + 1 \in 0 .. Len(dmaQ)
  BY <1>5, <1>7
<1>12. SentBefore(s + 1)'
  BY <1>1, <1>9, <1>10 DEF SentBefore
<1>13. RingMatches'
  BY <1>1, <1>3, <1>11, <1>12 DEF RingMatches, IndicesMatch, SlotsMatch
<1>. QED
  BY <1>1, <1>13 DEF RingInv, Running, status

\* MpSendNextNB hands the oldest waiting frames to the DMA, in order.
LEMMA RingFill ==
  ASSUME TypeOK, NoSlotBeforeStart, RingInv, MpSendNextNB, UNCHANGED <<status, sm>>
  PROVE  RingInv'
<1>. DEFINE k == Sendable
            n == Len(dmaQ)
<1>1. /\ k \in Nat /\ k <= Len(mpQ) /\ k <= FreeBDCount
      /\ k > 0 => NdisStatus = "SUCCESS" /\ FreeBDCount > 0
  BY SendableRange
<1>2. TxFill(k)
  BY DEF MpSendNextNB
<1>. HIDE DEF k
<1>3. /\ dmaQ' = dmaQ \o SubSeq(mpQ, 1, k) /\ FreeBDCount' = FreeBDCount - k
      /\ FreeIdx' = (FreeIdx + k) % ItemCount /\ PendingIdx' = PendingIdx
      /\ SwExt' = [i \in Ring |-> IF Filled(i, k) = 0 THEN SwExt[i] ELSE mpQ[Filled(i, k)]]
      /\ R' = [i \in Ring |-> R[i] \/ Filled(i, k) # 0]
  BY <1>2 DEF TxFill, FreeAfter
<1>4. hw'.idx = hw.idx
  <2>1. hw' = [hw EXCEPT !.tdar = hw.tdar \/ k > 0]
    BY <1>2 DEF TxFill
  <2>. QED
    BY <2>1 DEF TypeOK
<1>. /\ mpQ \in Seq(NBs) /\ dmaQ \in Seq(NBs) /\ PendingIdx \in Ring /\ FreeBDCount \in Nat
     /\ R \in [Ring -> BOOLEAN] /\ SwExt \in [Ring -> NBs \cup {NULL}]
     /\ ItemCount \in Nat
  BY RingAssumption DEF TypeOK
<1>5. CASE ~EnetStarted
  <2>1. k = 0
    BY <1>1, <1>5 DEF NoSlotBeforeStart
  <2>2. dmaQ' = dmaQ
    BY <1>3, <2>1
  <2>. QED
    BY <1>5, <2>2 DEF RingInv, Running, status
<1>6. CASE EnetStarted
  <2>1. RingMatches
    BY <1>6 DEF RingInv
  <2>2. PICK s \in 0 .. n : SentBefore(s)
    BY <2>1 DEF RingMatches
  <2>3. n \in Nat /\ n + k <= ItemCount /\ n + FreeBDCount = ItemCount
    BY <1>1, <2>1 DEF RingMatches, IndicesMatch
  <2>4. Len(dmaQ') = n + k
    BY <1>1, <1>3
  <2>5. /\ \A j \in 1 .. n : dmaQ'[j] = dmaQ[j]
        /\ \A j \in n + 1 .. n + k : dmaQ'[j] = mpQ[j - n]
    BY <1>1, <1>3
  <2>6. FreeIdx = Wrap(PendingIdx + n) /\ FreeIdx \in Ring
    BY <2>1 DEF RingMatches, IndicesMatch, TypeOK
  <2>. HIDE DEF n
  <2>7. IndicesMatch'
    <3>1. k \in 0 .. ItemCount /\ n \in 0 .. ItemCount
      BY <1>1, <2>3
    <3>2. FreeIdx' = Wrap(FreeIdx + k)
      BY <1>3, <2>6, <3>1, ModIsWrap
    <3>3. FreeIdx' = Wrap(PendingIdx + (n + k))
      BY <2>3, <2>6, <3>1, <3>2, WrapTwice
    <3>4. (n + k) + FreeBDCount' = ItemCount
      BY <1>1, <1>3, <2>3
    <3>. QED
      BY <1>3, <2>4, <3>3, <3>4 DEF IndicesMatch
  <2>8. ASSUME NEW i \in Ring
        PROVE  /\ Ahead(PendingIdx, i) \in Nat
               /\ Filled(i, k) = IF Ahead(PendingIdx, i) \in n .. n + k - 1
                                 THEN Ahead(PendingIdx, i) - n + 1 ELSE 0
    <3>. DEFINE a == Ahead(PendingIdx, i)
                b == Ahead(FreeIdx, i)
    <3>1. a \in Nat /\ a < ItemCount
      <4>1. a \in Ring
        BY AheadInRing
      <4>. QED
        BY <4>1, RingAssumption DEF Ring
    <3>2. b = IF a >= n THEN a - n ELSE a - n + ItemCount
      <4>1. n \in 0 .. ItemCount
        BY <1>1, <2>3
      <4>. QED
        BY <2>6, <4>1, AheadFromWrap
    <3>3. Filled(i, k) = IF b + 1 + ItemCount <= k THEN b + 1 + ItemCount
                         ELSE IF b + 1 <= k THEN b + 1 ELSE 0
      BY DEF Filled
    <3>4. a = Ahead(PendingIdx, i)
      OBVIOUS
    <3>. HIDE DEF a, b
    <3>5. Filled(i, k) = IF a \in n .. n + k - 1 THEN a - n + 1 ELSE 0
      BY <1>1, <2>3, <3>1, <3>2, <3>3
    <3>. QED
      BY <3>1, <3>4, <3>5
  <2>9. SlotsMatch'
    <3>. SUFFICES ASSUME NEW i \in Ring
                  PROVE  SwExt'[i] = IF Ahead(PendingIdx, i) < n + k
                                     THEN dmaQ'[Ahead(PendingIdx, i) + 1] ELSE NULL
      BY <1>3, <2>4 DEF SlotsMatch
    <3>. DEFINE a == Ahead(PendingIdx, i)
    <3>1. a \in Nat /\ Filled(i, k) = IF a \in n .. n + k - 1 THEN a - n + 1 ELSE 0
      BY <2>8
    <3>2. SwExt[i] = IF a < n THEN dmaQ[a + 1] ELSE NULL
      BY <2>1 DEF RingMatches, SlotsMatch, n
    <3>3. SwExt'[i] = IF Filled(i, k) = 0 THEN SwExt[i] ELSE mpQ[Filled(i, k)]
      BY <1>3
    <3>. HIDE DEF a
    <3>4. CASE a < n
      <4>1. a + 1 \in 1 .. n /\ Filled(i, k) = 0
        BY <2>3, <3>1, <3>4
      <4>2. dmaQ'[a + 1] = dmaQ[a + 1]
        BY <2>5, <4>1
      <4>. QED
        BY <1>1, <2>3, <3>1, <3>2, <3>3, <3>4, <4>1, <4>2 DEF a
    <3>5. CASE a \in n .. n + k - 1
      <4>1. a + 1 \in n + 1 .. n + k /\ Filled(i, k) = (a + 1) - n /\ (a + 1) - n # 0
        BY <1>1, <2>3, <3>1, <3>5
      <4>2. dmaQ'[a + 1] = mpQ[(a + 1) - n]
        BY <2>5, <4>1
      <4>. QED
        BY <1>1, <2>3, <3>1, <3>3, <3>5, <4>1, <4>2, SMTT(30) DEF a
    <3>6. CASE a >= n + k
      BY <1>1, <2>3, <3>1, <3>2, <3>3, <3>6 DEF a
    <3>7. a < n \/ a \in n .. n + k - 1 \/ a >= n + k
      BY <1>1, <2>3, <3>1
    <3>. QED
      BY <3>4, <3>5, <3>6, <3>7, Zenon
  <2>10. SentBefore(s)'
    <3>1. \A i \in Ring : R[i] <=> Ahead(PendingIdx, i) \in s .. n - 1
      BY <2>2 DEF SentBefore, n
    <3>2. ASSUME NEW i \in Ring
          PROVE  R'[i] <=> Ahead(PendingIdx', i) \in s .. Len(dmaQ') - 1
      <4>. DEFINE a == Ahead(PendingIdx, i)
      <4>1. R'[i] <=> R[i] \/ Filled(i, k) # 0
        BY <1>3
      <4>2. a \in Nat /\ Filled(i, k) = IF a \in n .. n + k - 1 THEN a - n + 1 ELSE 0
        BY <2>8
      <4>3. R[i] <=> a \in s .. n - 1
        BY <3>1
      <4>. HIDE DEF a
      <4>4. R'[i] <=> a \in s .. n + k - 1
        BY <1>1, <2>2, <2>3, <4>1, <4>2, <4>3
      <4>5. a = Ahead(PendingIdx', i)
        BY <1>3 DEF a
      <4>. QED
        BY <1>1, <2>3, <2>4, <4>4, <4>5
    <3>3. hw'.idx = Wrap(PendingIdx' + s)
      BY <1>3, <1>4, <2>2 DEF SentBefore
    <3>. QED
      BY <3>2, <3>3 DEF SentBefore
  <2>11. s \in 0 .. Len(dmaQ')
    BY <1>1, <2>2, <2>3, <2>4
  <2>12. RingMatches'
    BY <2>7, <2>9, <2>10, <2>11 DEF RingMatches
  <2>. QED
    BY <1>6, <2>12 DEF RingInv, Running, status
<1>. QED
  BY <1>5, <1>6

\* The DPC reaps no frame that the MAC has not sent.
LEMMA ReapSent ==
  ASSUME TypeOK, SlotsMatch, IndicesMatch, NEW s \in 0 .. Len(dmaQ), SentBefore(s),
         NEW m \in 0 .. ItemCount, Reap(m)
  PROVE  m <= s
<1>. DEFINE n == Len(dmaQ)
<1>. /\ PendingIdx \in Ring /\ ItemCount \in Nat /\ m \in Nat /\ n \in Nat
     /\ R \in [Ring -> BOOLEAN]
  BY RingAssumption DEF TypeOK
<1>1. \A i \in Ring : R[i] <=> Ahead(PendingIdx, i) \in s .. n - 1
  BY DEF SentBefore
<1>2. \A i \in Ring : SwExt[i] = IF Ahead(PendingIdx, i) < n
                                 THEN dmaQ[Ahead(PendingIdx, i) + 1] ELSE NULL
  BY DEF SlotsMatch
<1>. SUFFICES ASSUME m > s PROVE FALSE
  OBVIOUS
<1>3. s \in 0 .. m - 1 /\ s \in Ring /\ s \in 0 .. ItemCount
  BY DEF Ring
<1>4. Sent(Wrap(PendingIdx + s))
  BY <1>3 DEF Reap
<1>5. Wrap(PendingIdx + s) \in Ring /\ Ahead(PendingIdx, Wrap(PendingIdx + s)) = s
  BY <1>3, AheadOfWrap, WrapInRing
<1>6. SwExt[Wrap(PendingIdx + s)] # NULL /\ ~R[Wrap(PendingIdx + s)]
  BY <1>4 DEF Sent
<1>. HIDE DEF n
<1>7. s < n
  BY <1>2, <1>5, <1>6
<1>8. s \in s .. n - 1
  BY <1>3, <1>7
<1>. QED
  BY <1>1, <1>5, <1>6, <1>8

\* The DPC reaps frames the MAC has sent, and drops as many from the queue.
LEMMA RingReap ==
  ASSUME TypeOK, RingInv, MpHandleTxInterrupt
  PROVE  RingInv'
<1>1. PICK m \in 0 .. ItemCount :
        /\ Reap(m)
        /\ hw' = [hw EXCEPT !.tdar = hw.tdar \/ (SwExt'[PendingIdx'] # NULL /\ R[PendingIdx'])]
  BY DEF MpHandleTxInterrupt
<1>. DEFINE n == Len(dmaQ)
<1>2. UNCHANGED <<status, sm, R, FreeIdx>> /\ hw'.idx = hw.idx
  BY <1>1 DEF MpHandleTxInterrupt, Reap, TypeOK
<1>3. /\ \A d \in 0 .. m - 1 : Sent(Wrap(PendingIdx + d))
      /\ SwExt' = [i \in Ring |-> IF Ahead(PendingIdx, i) < m THEN NULL ELSE SwExt[i]]
      /\ PendingIdx' = Wrap(PendingIdx + m) /\ FreeBDCount' = FreeBDCount + m
      /\ dmaQ' = SubSeq(dmaQ, m + 1, n)
  BY <1>1 DEF Reap, QueueAfterReap
<1>. /\ dmaQ \in Seq(NBs) /\ PendingIdx \in Ring /\ FreeBDCount \in Nat
     /\ R \in [Ring -> BOOLEAN] /\ SwExt \in [Ring -> NBs \cup {NULL}]
     /\ ItemCount \in Nat /\ m \in 0 .. ItemCount /\ m \in Nat /\ n \in Nat
  BY RingAssumption DEF TypeOK
<1>4. CASE ~EnetStarted
  <2>1. sm.pc # "cancel" => dmaQ' = <<>>
    BY <1>3, <1>4 DEF RingInv, Running
  <2>. QED
    BY <1>2, <1>4, <2>1 DEF RingInv, Running, status
<1>5. CASE EnetStarted
  <2>1. RingMatches
    BY <1>5 DEF RingInv
  <2>2. PICK s \in 0 .. n : SentBefore(s)
    BY <2>1 DEF RingMatches
  <2>3. n + FreeBDCount = ItemCount /\ FreeIdx = Wrap(PendingIdx + n)
    BY <2>1 DEF RingMatches, IndicesMatch
  <2>4. \A i \in Ring : R[i] <=> Ahead(PendingIdx, i) \in s .. n - 1
    BY <2>2 DEF SentBefore
  <2>5. \A i \in Ring : SwExt[i] = IF Ahead(PendingIdx, i) < n
                                   THEN dmaQ[Ahead(PendingIdx, i) + 1] ELSE NULL
    BY <2>1 DEF RingMatches, SlotsMatch
  <2>6. hw.idx = Wrap(PendingIdx + s)
    BY <2>2 DEF SentBefore
  <2>. HIDE DEF n
  <2>7. m <= s
    BY <1>1, <2>1, <2>2, ReapSent DEF RingMatches, n
  <2>8. m <= n /\ s - m \in 0 .. n - m
    BY <2>2, <2>7
  <2>9. Len(dmaQ') = n - m /\ \A j \in 1 .. n - m : dmaQ'[j] = dmaQ[j + m]
    BY <1>3, <2>8 DEF n
  <2>10. IndicesMatch'
    <3>1. n - m \in 0 .. ItemCount /\ m + (n - m) <= ItemCount /\ m + (n - m) = n
      BY <2>3, <2>8
    <3>. DEFINE r == n - m
    <3>. HIDE DEF r
    <3>2. Wrap(Wrap(PendingIdx + m) + r) = Wrap(PendingIdx + (m + r))
      BY <3>1, WrapTwice DEF r
    <3>3. FreeIdx' = Wrap(PendingIdx' + r)
      BY <1>2, <1>3, <2>3, <3>1, <3>2 DEF r
    <3>4. r + FreeBDCount' = ItemCount
      BY <1>3, <2>3 DEF r
    <3>. QED
      BY <2>9, <3>3, <3>4 DEF IndicesMatch, r
  <2>11. ASSUME NEW i \in Ring
         PROVE  /\ Ahead(PendingIdx, i) \in Nat /\ Ahead(PendingIdx, i) < ItemCount
                /\ Ahead(PendingIdx', i) = IF Ahead(PendingIdx, i) >= m
                                           THEN Ahead(PendingIdx, i) - m
                                           ELSE Ahead(PendingIdx, i) - m + ItemCount
    <3>1. Ahead(PendingIdx, i) \in Ring
      BY AheadInRing
    <3>2. Ahead(PendingIdx, i) \in Nat /\ Ahead(PendingIdx, i) < ItemCount
      BY <3>1 DEF Ring
    <3>. QED
      BY <1>3, <3>2, AheadFromWrap
  <2>12. SlotsMatch'
    <3>. SUFFICES ASSUME NEW i \in Ring
                  PROVE  SwExt'[i] = IF Ahead(PendingIdx', i) < n - m
                                     THEN dmaQ'[Ahead(PendingIdx', i) + 1] ELSE NULL
      BY <2>9 DEF SlotsMatch
    <3>. DEFINE a == Ahead(PendingIdx, i)
                b == Ahead(PendingIdx', i)
    <3>1. /\ a \in Nat /\ a < ItemCount
          /\ b = IF a >= m THEN a - m ELSE a - m + ItemCount
      BY <2>11
    <3>2. SwExt'[i] = IF a < m THEN NULL ELSE SwExt[i]
      BY <1>3
    <3>3. SwExt[i] = IF a < n THEN dmaQ[a + 1] ELSE NULL
      BY <2>5
    <3>. HIDE DEF a, b
    <3>4. CASE a < m
      <4>1. ~(b < n - m)
        BY <2>3, <2>8, <3>1, <3>4
      <4>. QED
        BY <3>2, <3>4, <4>1 DEF b
    <3>5. CASE a >= m /\ a < n
      <4>1. b + 1 \in 1 .. n - m /\ b < n - m /\ (b + 1) + m = a + 1
        BY <3>1, <3>5
      <4>2. dmaQ'[b + 1] = dmaQ[a + 1]
        BY <2>9, <4>1
      <4>3. SwExt'[i] = dmaQ[a + 1]
        BY <3>1, <3>2, <3>3, <3>5
      <4>. QED
        BY <4>1, <4>2, <4>3 DEF b
    <3>6. CASE a >= m /\ a >= n
      <4>1. ~(b < n - m) /\ ~(a < n) /\ ~(a < m)
        BY <3>1, <3>6
      <4>. QED
        BY <3>2, <3>3, <4>1 DEF b
    <3>. QED
      BY <3>1, <3>4, <3>5, <3>6
  <2>13. SentBefore(s - m)'
    <3>1. hw'.idx = Wrap(PendingIdx' + (s - m))
      <4>. DEFINE r == s - m
      <4>1. r \in 0 .. ItemCount /\ m + r = s /\ m + r <= ItemCount
        BY <2>2, <2>3, <2>7
      <4>. HIDE DEF r
      <4>2. Wrap(Wrap(PendingIdx + m) + r) = Wrap(PendingIdx + (m + r))
        BY <4>1, WrapTwice
      <4>3. hw'.idx = Wrap(PendingIdx' + r)
        BY <1>2, <1>3, <2>6, <4>1, <4>2
      <4>. QED
        BY <4>3 DEF r
    <3>2. ASSUME NEW i \in Ring
          PROVE  R'[i] <=> Ahead(PendingIdx', i) \in s - m .. n - m - 1
      <4>. DEFINE a == Ahead(PendingIdx, i)
                  b == Ahead(PendingIdx', i)
      <4>1. /\ a \in Nat /\ a < ItemCount
            /\ b = IF a >= m THEN a - m ELSE a - m + ItemCount
        BY <2>11
      <4>2. R'[i] <=> a \in s .. n - 1
        BY <1>2, <2>4
      <4>. HIDE DEF a, b
      <4>3. R'[i] <=> b \in s - m .. n - m - 1
        BY <2>2, <2>3, <2>7, <2>8, <4>1, <4>2
      <4>. QED
        BY <4>3 DEF b
    <3>. QED
      BY <2>9, <3>1, <3>2 DEF SentBefore
  <2>14. s - m \in 0 .. Len(dmaQ')
    BY <2>8, <2>9
  <2>15. RingMatches'
    BY <2>10, <2>12, <2>13, <2>14 DEF RingMatches
  <2>. QED
    BY <1>2, <1>5, <2>15 DEF RingInv, Running, status
<1>. QED
  BY <1>4, <1>5

\* The state machine starts and stops the MAC, and cancels its queue.
LEMMA RingSm ==
  ASSUME "stale" \notin Overlap, TypeOK, RingInv,
         EnetStart \/ EnetStop \/ MpTxCancelAll \/ CancelDone \/ PausingPoll
  PROVE  RingInv'
<1>1. CASE EnetStart
  <2>1. sm.pc = "idle" /\ \A i \in Ring : SwExt[i] = NULL
    BY <1>1 DEF EnetStart
  <2>2. dmaQ = <<>>
    <3>1. CASE ~EnetStarted
      BY <2>1, <3>1 DEF RingInv, Running
    <3>2. CASE EnetStarted
      <4>1. SlotsMatch
        BY <3>2 DEF RingInv, RingMatches
      <4>2. PendingIdx \in Ring /\ dmaQ \in Seq(NBs)
        BY DEF TypeOK
      <4>3. Ahead(PendingIdx, PendingIdx) = 0
        BY <4>2, RingAssumption DEF Ring, Ahead
      <4>4. ~(0 < Len(dmaQ))
        <5>. SUFFICES ASSUME 0 < Len(dmaQ) PROVE FALSE
          OBVIOUS
        <5>1. SwExt[PendingIdx] = dmaQ[1]
          BY <4>1, <4>2, <4>3 DEF SlotsMatch
        <5>2. dmaQ[1] \in NBs
          BY <4>2
        <5>. QED
          BY <2>1, <4>2, <5>1, <5>2, NullIsNoNB
      <4>. QED
        BY <4>2, <4>4
    <3>. QED
      BY <3>1, <3>2
  <2>3. /\ NdisStatus' = "SUCCESS" /\ EnetStarted'
        /\ R' = [i \in Ring |-> FALSE]
        /\ FreeIdx' = 0 /\ PendingIdx' = 0 /\ FreeBDCount' = ItemCount
        /\ dmaQ' = <<>> /\ UNCHANGED SwExt
    BY <1>1, <2>2 DEF EnetStart, queues
  <2>4. hw'.idx = 0 /\ sm'.pc = "idle"
    <3>1. /\ hw' = [hw EXCEPT !.eir = FALSE, !.eimr = TRUE, !.tdar = FALSE, !.idx = 0]
          /\ sm' = [sm EXCEPT !.paused = FALSE, !.starts = sm.starts + 1]
      BY <1>1 DEF EnetStart
    <3>. QED
      BY <2>1, <3>1 DEF TypeOK
  <2>5. Wrap(0 + 0) = 0 /\ Len(dmaQ') = 0 /\ ItemCount \in Nat
    BY <2>3, RingAssumption DEF Wrap
  <2>6. IndicesMatch'
    BY <2>3, <2>5 DEF IndicesMatch
  <2>7. \A i \in Ring : Ahead(0, i) \in Nat
    BY RingAssumption DEF Ahead, Ring
  <2>8. SlotsMatch'
    BY <2>1, <2>3, <2>5, <2>7 DEF SlotsMatch
  <2>9. SentBefore(0)'
    BY <2>3, <2>4, <2>5, <2>7 DEF SentBefore
  <2>10. 0 \in 0 .. Len(dmaQ')
    BY <2>5
  <2>11. RingMatches'
    BY <2>6, <2>8, <2>9, <2>10 DEF RingMatches
  <2>. QED
    BY <2>3, <2>4, <2>11 DEF RingInv, Running
<1>2. CASE EnetStop
  <2>1. EnetStarted' = FALSE /\ sm' = [sm EXCEPT !.pc = "cancel"]
    BY <1>2 DEF EnetStop
  <2>2. sm'.pc = "cancel"
    BY <2>1 DEF TypeOK
  <2>. QED
    BY <2>1, <2>2 DEF RingInv, Running
<1>3. CASE MpTxCancelAll \/ PausingPoll
  <2>1. dmaQ' = <<>> /\ EnetStarted' = EnetStarted
    BY <1>3 DEF MpTxCancelAll, PausingPoll, TakeAll, Drained, status
  <2>2. ~EnetStarted
    BY <1>3 DEF MpTxCancelAll, PausingPoll, RingInv, Running
  <2>. QED
    BY <2>1, <2>2 DEF RingInv, Running
<1>4. CASE CancelDone
  <2>1. /\ UNCHANGED <<status, dmaQ, ring, hw>> /\ sm.pc = "unwind"
        /\ sm' = [sm EXCEPT !.pc = "idle"]
    BY <1>4 DEF CancelDone, queues, bds
  <2>2. ~EnetStarted /\ dmaQ = <<>>
    BY <2>1 DEF RingInv, Running
  <2>. QED
    BY <2>1, <2>2 DEF RingInv, Running, status
<1>. QED
  BY <1>1, <1>2, <1>3, <1>4

\* Initially the MAC is stopped and its queue empty.
LEMMA RingInit == Init => RingInv
  BY DEF Init, RingInv, Running

\* Each step keeps the invariant of the ring.
LEMMA RingNext ==
  ASSUME "stale" \notin Overlap, Inv, RingInv, [Next]_vars
  PROVE  RingInv'
<1>. TypeOK /\ NoSlotBeforeStart
  BY DEF Inv
<1>1. ASSUME NEW c \in Calls, CallStep(c) PROVE RingInv'
  <2>1. CASE KickSend(c)
    BY <2>1, RingFill DEF KickSend, status
  <2>2. CASE Send(c) \/ AllocTxBD(c) \/ MapNB(c) \/ CountNB(c) \/ FailNB(c)
    <3>1. UNCHANGED <<status, dmaQ, bds, sm, hw>>
      BY <2>2 DEF Send, AllocTxBD, MapNB, CountNB, FailNB, queues
    <3>. QED
      BY <3>1, RingKept DEF bds
  <2>. QED
    BY <1>1, <2>1, <2>2 DEF CallStep
<1>2. ASSUME NEW l \in NBLs, MpCancelSendNetBufferLists(l) PROVE RingInv'
  BY <1>2, RingKept DEF MpCancelSendNetBufferLists, bds
<1>3. ASSUME NEW u \in Unwinders, MpTxUnwindNetBuffer(u) PROVE RingInv'
  BY <1>3, RingKept DEF MpTxUnwindNetBuffer, queues, bds
<1>4. CASE HwTransmit
  BY <1>4, RingTransmit
<1>5. CASE HwTxError \/ EnetIsr \/ EnetDpc \/ DpcEnable \/ MpCheckForHangEx
  <2>1. UNCHANGED <<status, dmaQ, ring, sm>>
    BY <1>5 DEF HwTxError, EnetIsr, EnetDpc, DpcEnable, MpCheckForHangEx, queues, bds
  <2>2. hw'.idx = hw.idx
    BY <1>5 DEF HwTxError, EnetIsr, EnetDpc, DpcEnable, MpCheckForHangEx, Unmask, TypeOK
  <2>. QED
    BY <2>1, <2>2, RingKept
<1>6. CASE MpHandleTxInterrupt
  BY <1>6, RingReap
<1>7. CASE DpcSendNext
  BY <1>7, RingFill DEF DpcSendNext, status
<1>8. CASE EnetStart \/ EnetStop \/ MpTxCancelAll \/ CancelDone \/ PausingPoll
  BY <1>8, RingSm
<1>9. CASE UNCHANGED vars
  BY <1>9, RingKept DEF vars, queues, bds
<1>10. CASE DpcStep
  BY <1>3, <1>5, <1>6, <1>7, <1>10 DEF DpcStep, Unwinders
<1>11. CASE SmStep
  BY <1>3, <1>8, <1>11 DEF SmStep, Unwinders
<1>12. CASE Next
  BY <1>1, <1>2, <1>3, <1>4, <1>5, <1>8, <1>10, <1>11, <1>12 DEF Next, Unwinders
<1>. QED
  BY <1>9, <1>12

\* Unless a start finds slots whose frames a stop cancelled, the descriptor ring
\* holds the frames of Tx_qDmaOwnedBDs in their order while the MAC runs, for every
\* ring size: the DPC never drops a frame from the queue other than the one it reaps.
THEOREM RingInOrder ==
  ASSUME "stale" \notin Overlap
  PROVE  Spec => []RingMatchesQueue
<1>1. Init => RingInv
  BY RingInit
<1>2. Inv /\ RingInv /\ [Next]_vars => RingInv'
  BY RingNext
<1>3. Inv /\ RingInv => RingMatchesQueue
  BY RingOrder DEF Inv
<1>. QED
  BY <1>1, <1>2, <1>3, Invariance, PTL DEF Spec

-----------------------------------------------------------------------------
(* The frames: each is in one list, and its NBL is completed once.         *)

\* The five lists a frame can be in, and their contents.
Places == {"mp", "dma", "dpc", "sm", "cancel"}
Lists == [p \in Places |-> IF p = "mp" THEN mpQ ELSE IF p = "dma" THEN dmaQ ELSE unwinding[p]]

\* Of five lists: no frame is twice in one or in two of them; the frames in them; how many.
Apart(L) ==
  /\ \A p \in Places : IsInjective(L[p])
  /\ \A p, q \in Places : p # q => Range(L[p]) \cap Range(L[q]) = {}
Frames(L) == UNION {Range(L[p]) : p \in Places}
Total(L) == Len(L["mp"]) + Len(L["dma"]) + Len(L["dpc"]) + Len(L["sm"]) + Len(L["cancel"])

\* The lists are lists of frames.
LEMMA ListsType ==
  ASSUME TypeOK
  PROVE  /\ Lists \in [Places -> Seq(NBs)]
         /\ Lists["mp"] = mpQ /\ Lists["dma"] = dmaQ
         /\ \A u \in Unwinders : u \in Places /\ Lists[u] = unwinding[u]
  BY DEF TypeOK, Lists, Places, Unwinders

\* So is what is counted of them a number.
LEMMA TotalType ==
  ASSUME NEW L \in [Places -> Seq(NBs)]
  PROVE  Total(L) \in Nat /\ \A p \in Places : L[p] \in Seq(NBs) /\ Len(L[p]) \in Nat
  BY DEF Total, Places

SumOf(l) == l["mp"] + l["dma"] + l["dpc"] + l["sm"] + l["cancel"]

\* A sum of five in which one summand changes.
LEMMA SumChange ==
  ASSUME NEW l \in [Places -> Nat], NEW m \in [Places -> Nat],
         NEW p \in Places, \A r \in Places : r # p => m[r] = l[r]
  PROVE  SumOf(m) = SumOf(l) - l[p] + m[p]
<1>1. /\ l["mp"] \in Nat /\ l["dma"] \in Nat /\ l["dpc"] \in Nat /\ l["sm"] \in Nat
      /\ l["cancel"] \in Nat
      /\ m["mp"] \in Nat /\ m["dma"] \in Nat /\ m["dpc"] \in Nat /\ m["sm"] \in Nat
      /\ m["cancel"] \in Nat
  BY DEF Places
<1>2. /\ p # "mp" => m["mp"] = l["mp"]
      /\ p # "dma" => m["dma"] = l["dma"]
      /\ p # "dpc" => m["dpc"] = l["dpc"]
      /\ p # "sm" => m["sm"] = l["sm"]
      /\ p # "cancel" => m["cancel"] = l["cancel"]
      /\ p \in {"mp", "dma", "dpc", "sm", "cancel"}
  BY DEF Places
<1>. QED
  BY <1>1, <1>2 DEF SumOf

\* The number of frames when one list changes.
LEMMA TotalChange ==
  ASSUME NEW L \in [Places -> Seq(NBs)], NEW M \in [Places -> Seq(NBs)],
         NEW p \in Places, \A r \in Places : r # p => M[r] = L[r]
  PROVE  Total(M) = Total(L) - Len(L[p]) + Len(M[p])
<1>. DEFINE l == [r \in Places |-> Len(L[r])]
            m == [r \in Places |-> Len(M[r])]
<1>1. /\ l \in [Places -> Nat] /\ m \in [Places -> Nat]
      /\ \A r \in Places : r # p => m[r] = l[r]
  BY TotalType
<1>2. /\ Total(L) = SumOf(l) /\ Total(M) = SumOf(m)
      /\ l[p] = Len(L[p]) /\ m[p] = Len(M[p])
  BY DEF Total, SumOf, Places
<1>. HIDE DEF l, m
<1>3. SumOf(m) = SumOf(l) - l[p] + m[p]
  BY <1>1, SumChange
<1>. QED
  BY <1>2, <1>3

\* Frames pass between the lists p and q of L, which become those of M.
Moved(L, M, p, q) ==
  /\ p # q /\ \A r \in Places : r # p /\ r # q => M[r] = L[r]
  /\ IsInjective(M[p]) /\ IsInjective(M[q]) /\ Range(M[p]) \cap Range(M[q]) = {}
  /\ Range(M[p]) \cup Range(M[q]) = Range(L[p]) \cup Range(L[q])
  /\ Len(M[p]) + Len(M[q]) = Len(L[p]) + Len(L[q])

\* Then no frame is lost or gained, and none is in two places.
LEMMA Move ==
  ASSUME NEW L \in [Places -> Seq(NBs)], NEW M \in [Places -> Seq(NBs)], Apart(L),
         NEW p \in Places, NEW q \in Places, Moved(L, M, p, q)
  PROVE  Apart(M) /\ Frames(M) = Frames(L) /\ Total(M) = Total(L)
<1>. /\ p # q /\ \A r \in Places : r # p /\ r # q => M[r] = L[r]
     /\ IsInjective(M[p]) /\ IsInjective(M[q]) /\ Range(M[p]) \cap Range(M[q]) = {}
     /\ Range(M[p]) \cup Range(M[q]) = Range(L[p]) \cup Range(L[q])
     /\ Len(M[p]) + Len(M[q]) = Len(L[p]) + Len(L[q])
  BY DEF Moved
<1>1. \A r \in Places : IsInjective(M[r])
  BY DEF Apart
<1>2. ASSUME NEW r \in Places, NEW t \in Places, r # t
      PROVE  Range(M[r]) \cap Range(M[t]) = {}
  <2>1. CASE r \notin {p, q} /\ t \notin {p, q}
    BY <1>2, <2>1 DEF Apart
  <2>2. CASE r \in {p, q} /\ t \in {p, q}
    BY <1>2, <2>2
  <2>3. ASSUME NEW w \in Places, w \notin {p, q}
        PROVE  Range(L[w]) \cap (Range(M[p]) \cup Range(M[q])) = {} /\ M[w] = L[w]
    BY <2>3 DEF Apart
  <2>. QED
    BY <2>1, <2>2, <2>3
<1>3. Frames(M) = Frames(L)
  <2>. DEFINE Rest == UNION {Range(L[r]) : r \in Places \ {p, q}}
  <2>1. Frames(L) = Rest \cup (Range(L[p]) \cup Range(L[q]))
    BY DEF Frames
  <2>2. Rest = UNION {Range(M[r]) : r \in Places \ {p, q}}
    OBVIOUS
  <2>3. Frames(M) = Rest \cup (Range(M[p]) \cup Range(M[q]))
    BY <2>2 DEF Frames
  <2>. QED
    BY <2>1, <2>3
<1>4. Total(M) = Total(L)
  <2>. DEFINE K == [M EXCEPT ![p] = L[p]]
  <2>1. K \in [Places -> Seq(NBs)] /\ K[p] = L[p] /\ K[q] = M[q]
    OBVIOUS
  <2>2. /\ \A r \in Places : r # p => M[r] = K[r]
        /\ \A r \in Places : r # q => K[r] = L[r]
    OBVIOUS
  <2>. HIDE DEF K
  <2>3. Total(M) = Total(K) - Len(K[p]) + Len(M[p])
    BY <2>1, <2>2, TotalChange
  <2>4. Total(K) = Total(L) - Len(L[q]) + Len(K[q])
    BY <2>1, <2>2, TotalChange
  <2>5. /\ Total(M) \in Nat /\ Total(K) \in Nat /\ Total(L) \in Nat
        /\ Len(L[p]) \in Nat /\ Len(L[q]) \in Nat /\ Len(M[p]) \in Nat /\ Len(M[q]) \in Nat
    BY <2>1, TotalType
  <2>. QED
    BY <2>1, <2>3, <2>4, <2>5, SMTT(30)
<1>. QED
  BY <1>1, <1>2, <1>3, <1>4 DEF Apart

\* A frame is appended to a list.
LEMMA Enter ==
  ASSUME NEW L \in [Places -> Seq(NBs)], NEW M \in [Places -> Seq(NBs)], Apart(L),
         NEW p \in Places, NEW f \in NBs, f \notin Frames(L),
         M[p] = Append(L[p], f), \A r \in Places : r # p => M[r] = L[r]
  PROVE  Apart(M) /\ Frames(M) = Frames(L) \cup {f} /\ Total(M) = Total(L) + 1
<1>1. L[p] \in Seq(NBs) /\ IsInjective(L[p]) /\ \A r \in Places : f \notin Range(L[r])
  BY DEF Apart, Frames
<1>2. Len(M[p]) = Len(L[p]) + 1 /\ IsInjective(M[p]) /\ Range(M[p]) = Range(L[p]) \cup {f}
  BY <1>1, AppendList
<1>3. Apart(M)
  <2>1. \A r \in Places : IsInjective(M[r])
    BY <1>2 DEF Apart
  <2>2. \A r \in Places : r # p => Range(M[r]) = Range(L[r]) /\ f \notin Range(L[r])
    BY <1>1
  <2>3. ASSUME NEW r \in Places, NEW t \in Places, r # t
        PROVE  Range(M[r]) \cap Range(M[t]) = {}
    <3>1. Range(L[r]) \cap Range(L[t]) = {}
      BY <2>3 DEF Apart
    <3>. QED
      BY <1>2, <2>2, <2>3, <3>1
  <2>. QED
    BY <2>1, <2>3 DEF Apart
<1>4. Frames(M) = Frames(L) \cup {f}
  <2>. DEFINE Rest == UNION {Range(L[r]) : r \in Places \ {p}}
  <2>1. Frames(L) = Rest \cup Range(L[p])
    BY DEF Frames
  <2>2. Rest = UNION {Range(M[r]) : r \in Places \ {p}}
    OBVIOUS
  <2>3. Frames(M) = Rest \cup Range(M[p])
    BY <2>2 DEF Frames
  <2>. QED
    BY <1>2, <2>1, <2>3
<1>5. Total(M) = Total(L) + 1
  <2>1. Total(L) \in Nat /\ Len(M[p]) \in Nat /\ Len(L[p]) \in Nat
    BY TotalType
  <2>2. Total(M) = Total(L) - Len(L[p]) + Len(M[p])
    BY TotalChange
  <2>. QED
    BY <1>2, <2>1, <2>2
<1>. QED
  BY <1>3, <1>4, <1>5

\* The oldest frame leaves a list.
LEMMA Leave ==
  ASSUME NEW L \in [Places -> Seq(NBs)], NEW M \in [Places -> Seq(NBs)], Apart(L),
         NEW p \in Places, L[p] # <<>>,
         M[p] = Tail(L[p]), \A r \in Places : r # p => M[r] = L[r]
  PROVE  /\ Apart(M) /\ Frames(M) = Frames(L) \ {Head(L[p])} /\ Total(M) = Total(L) - 1
         /\ Head(L[p]) \in Frames(L) /\ Head(L[p]) \in NBs
<1>1. L[p] \in Seq(NBs) /\ IsInjective(L[p])
  BY DEF Apart
<1>2. /\ Len(M[p]) = Len(L[p]) - 1 /\ IsInjective(M[p])
      /\ Head(L[p]) \in NBs /\ Head(L[p]) \in Range(L[p])
      /\ Range(M[p]) = Range(L[p]) \ {Head(L[p])}
  BY <1>1, TailList
<1>. DEFINE h == Head(L[p])
<1>. HIDE DEF h
<1>3. Apart(M)
  BY <1>2 DEF Apart
<1>4. Frames(M) = Frames(L) \ {h}
  <2>. DEFINE Rest == UNION {Range(L[r]) : r \in Places \ {p}}
  <2>1. Frames(L) = Rest \cup Range(L[p])
    BY DEF Frames
  <2>2. Rest = UNION {Range(M[r]) : r \in Places \ {p}}
    OBVIOUS
  <2>3. Frames(M) = Rest \cup Range(M[p])
    BY <2>2 DEF Frames
  <2>4. h \notin Rest
    <3>. SUFFICES ASSUME NEW r \in Places \ {p}, h \in Range(L[r]) PROVE FALSE
      OBVIOUS
    <3>. QED
      BY <1>2 DEF Apart, h
  <2>5. Range(M[p]) = Range(L[p]) \ {h}
    BY <1>2 DEF h
  <2>. HIDE DEF Rest
  <2>. QED
    BY <2>1, <2>3, <2>4, <2>5
<1>5. Total(M) = Total(L) - 1
  <2>1. Total(L) \in Nat /\ Len(M[p]) \in Nat /\ Len(L[p]) \in Nat
    BY TotalType
  <2>2. Total(M) = Total(L) - Len(L[p]) + Len(M[p])
    BY TotalChange
  <2>. QED
    BY <1>2, <2>1, <2>2
<1>6. h \in Frames(L)
  BY <1>2 DEF Frames, h
<1>. QED
  BY <1>2, <1>3, <1>4, <1>5, <1>6 DEF h

\* What FrameInOnePlace counts.
LEMMA HeldAre ==
  ASSUME TypeOK, Apart(Lists)
  PROVE  Held = Frames(Lists) /\ Cardinality(Held) = Total(Lists) /\ Len(Linked) = Total(Lists)
<1>. DEFINE L == Lists
            m == L["mp"]
            n == L["dma"]
            x == L["dpc"]
            y == L["sm"]
            z == L["cancel"]
            a == m \o n
            b == a \o x
            c == b \o y
            d == c \o z
<1>1. /\ \A p \in Places : L[p] \in Seq(NBs) /\ Len(L[p]) \in Nat /\ IsInjective(L[p])
      /\ \A p, q \in Places : p # q => Range(L[p]) \cap Range(L[q]) = {}
  BY ListsType, TotalType DEF Apart
<1>2. d = Linked
  BY ListsType DEF Linked, Unwinders
<1>. HIDE DEF L
<1>3. \A p \in {m, n, x, y, z} : p \in Seq(NBs) /\ Len(p) \in Nat /\ IsInjective(p)
  BY <1>1 DEF Places
<1>4. /\ Range(m) \cap Range(n) = {} /\ (Range(m) \cup Range(n)) \cap Range(x) = {}
      /\ (Range(m) \cup Range(n) \cup Range(x)) \cap Range(y) = {}
      /\ (Range(m) \cup Range(n) \cup Range(x) \cup Range(y)) \cap Range(z) = {}
  BY <1>1 DEF Places
<1>. HIDE DEF m, n, x, y, z
<1>5. a \in Seq(NBs) /\ Len(a) = Len(m) + Len(n) /\ IsInjective(a) /\ Range(a) = Range(m) \cup Range(n)
  BY <1>3, <1>4, JoinLists
<1>. HIDE DEF a
<1>6. b \in Seq(NBs) /\ Len(b) = Len(a) + Len(x) /\ IsInjective(b) /\ Range(b) = Range(a) \cup Range(x)
  <2>1. x \in Seq(NBs) /\ IsInjective(x) /\ Range(a) \cap Range(x) = {}
    BY <1>3, <1>4, <1>5
  <2>. QED
    BY <1>5, <2>1, JoinLists
<1>. HIDE DEF b
<1>7. c \in Seq(NBs) /\ Len(c) = Len(b) + Len(y) /\ IsInjective(c) /\ Range(c) = Range(b) \cup Range(y)
  <2>1. y \in Seq(NBs) /\ IsInjective(y) /\ Range(b) \cap Range(y) = {}
    BY <1>3, <1>4, <1>5, <1>6
  <2>. QED
    BY <1>6, <2>1, JoinLists
<1>. HIDE DEF c
<1>8. d \in Seq(NBs) /\ Len(d) = Len(c) + Len(z) /\ IsInjective(d) /\ Range(d) = Range(c) \cup Range(z)
  <2>1. z \in Seq(NBs) /\ IsInjective(z) /\ Range(c) \cap Range(z) = {}
    BY <1>3, <1>4, <1>5, <1>6, <1>7
  <2>. QED
    BY <1>7, <2>1, JoinLists
<1>. HIDE DEF d
<1>9. Len(d) = Total(L)
  BY <1>5, <1>6, <1>7, <1>8 DEF Total, m, n, x, y, z
<1>10. Range(d) = Frames(L)
  <2>1. Range(d) = Range(m) \cup Range(n) \cup Range(x) \cup Range(y) \cup Range(z)
    BY <1>5, <1>6, <1>7, <1>8
  <2>. QED
    BY <2>1 DEF Frames, Places, m, n, x, y, z
<1>11. Cardinality(Range(d)) = Len(d)
  BY <1>8, ListCardinality
<1>12. Held = Range(d)
  BY <1>2 DEF Held, Range
<1>. QED
  BY <1>2, <1>9, <1>10, <1>11, <1>12 DEF L

-----------------------------------------------------------------------------
\* The DPC reaps only while the MAC runs, and the private lists of the DPC and of
\* the state machine are empty before they take the next frames.
Emptied ==
  /\ hw.eir \/ dpc \in {"scan", "unwind"} => EnetStarted
  /\ dpc # "unwind" => unwinding["dpc"] = <<>>
  /\ sm.pc # "unwind" => unwinding["sm"] = <<>>

\* What passes between lists neither loses a frame nor links one twice.
Kept ==
  /\ Apart(Lists') /\ Frames(Lists') = Frames(Lists) /\ Total(Lists') = Total(Lists)

\* The lists after a step.
LEMMA ListsNext ==
  ASSUME TypeOK'
  PROVE  /\ Lists' \in [Places -> Seq(NBs)]
         /\ Lists'["mp"] = mpQ' /\ Lists'["dma"] = dmaQ'
         /\ \A u \in Unwinders : u \in Places /\ Lists'[u] = unwinding'[u]
  BY DEF TypeOK, Lists, Places, Unwinders

\* No frame moves.
LEMMA KeptSame ==
  ASSUME Apart(Lists), UNCHANGED <<queues, unwinding>>
  PROVE  Kept
<1>1. Lists' = Lists
  BY DEF Lists, queues
<1>. QED
  BY <1>1 DEF Kept

\* From the waiting frames to the DMA.
LEMMA KeptFill ==
  ASSUME TypeOK, TypeOK', Apart(Lists), MpSendNextNB, UNCHANGED unwinding
  PROVE  Kept
<1>. DEFINE k == Sendable
            L == Lists
            M == Lists'
            x == SubSeq(mpQ, 1, k)
            y == SubSeq(mpQ, k + 1, Len(mpQ))
<1>1. k \in Nat /\ k <= Len(mpQ)
  BY SendableRange
<1>2. TxFill(k)
  BY DEF MpSendNextNB
<1>. HIDE DEF k
<1>3. dmaQ' = dmaQ \o x /\ mpQ' = y
  BY <1>2 DEF TxFill
<1>4. /\ mpQ \in Seq(NBs) /\ dmaQ \in Seq(NBs) /\ IsInjective(mpQ) /\ IsInjective(dmaQ)
      /\ Range(mpQ) \cap Range(dmaQ) = {} /\ k \in 0 .. Len(mpQ)
      /\ Len(mpQ) \in Nat /\ Len(dmaQ) \in Nat
  BY <1>1, ListsType, SMTT(30) DEF Apart, TypeOK, Places
<1>5. /\ x \in Seq(NBs) /\ y \in Seq(NBs) /\ Len(x) = k /\ Len(y) = Len(mpQ) - k
      /\ IsInjective(x) /\ IsInjective(y) /\ Range(x) \cap Range(y) = {}
      /\ Range(mpQ) = Range(x) \cup Range(y)
  BY <1>4, CutList
<1>. HIDE DEF x, y
<1>6. Range(dmaQ) \cap Range(x) = {}
  BY <1>4, <1>5
<1>7. /\ dmaQ' \in Seq(NBs) /\ Len(dmaQ') = Len(dmaQ) + Len(x)
      /\ IsInjective(dmaQ') /\ Range(dmaQ') = Range(dmaQ) \cup Range(x)
  <2>1. /\ dmaQ \o x \in Seq(NBs) /\ Len(dmaQ \o x) = Len(dmaQ) + Len(x)
        /\ IsInjective(dmaQ \o x) /\ Range(dmaQ \o x) = Range(dmaQ) \cup Range(x)
    BY <1>4, <1>5, <1>6, JoinLists, SMTT(30)
  <2>. QED
    BY <1>3, <2>1
<1>8. /\ L \in [Places -> Seq(NBs)] /\ M \in [Places -> Seq(NBs)] /\ Apart(L)
      /\ L["mp"] = mpQ /\ L["dma"] = dmaQ /\ M["mp"] = y /\ M["dma"] = dmaQ'
      /\ "mp" \in Places /\ "dma" \in Places
  BY <1>3, ListsType, ListsNext DEF Places
<1>9. \A r \in Places : r # "mp" /\ r # "dma" => M[r] = L[r]
  BY DEF Lists
<1>. HIDE DEF L, M
<1>10. Len(M["mp"]) + Len(M["dma"]) = Len(L["mp"]) + Len(L["dma"])
  <2>1. /\ Len(M["mp"]) = Len(mpQ) - k /\ Len(M["dma"]) = Len(dmaQ) + k
        /\ Len(L["mp"]) = Len(mpQ) /\ Len(L["dma"]) = Len(dmaQ)
    BY <1>5, <1>7, <1>8
  <2>. QED
    BY <1>1, <1>4, <2>1
<1>11. Range(M["mp"]) \cup Range(M["dma"]) = Range(L["mp"]) \cup Range(L["dma"])
  BY <1>5, <1>7, <1>8
<1>12. /\ IsInjective(M["mp"]) /\ IsInjective(M["dma"])
       /\ Range(M["mp"]) \cap Range(M["dma"]) = {}
  BY <1>4, <1>5, <1>7, <1>8
<1>13. Apart(M) /\ Frames(M) = Frames(L) /\ Total(M) = Total(L)
  <2>1. Moved(L, M, "mp", "dma")
    BY <1>9, <1>10, <1>11, <1>12 DEF Moved
  <2>. QED
    BY <1>8, <2>1, Move
<1>. QED
  BY <1>13 DEF Kept, L, M

\* The slots the DPC reaps hold the oldest frames of Tx_qDmaOwnedBDs.
LEMMA ReapedAre ==
  ASSUME TypeOK, RingMatches, NEW m \in 0 .. ItemCount, Reap(m)
  PROVE  /\ m <= Len(dmaQ)
         /\ \A d \in 1 .. m : SwExt[Wrap(PendingIdx + (d - 1))] = dmaQ[d]
<1>. /\ dmaQ \in Seq(NBs) /\ PendingIdx \in Ring /\ ItemCount \in Nat /\ m \in Nat
     /\ Len(dmaQ) \in Nat
  BY RingAssumption DEF TypeOK
<1>1. PICK s \in 0 .. Len(dmaQ) : SentBefore(s)
  BY DEF RingMatches
<1>2. m <= s
  BY <1>1, ReapSent DEF RingMatches
<1>3. ASSUME NEW d \in 1 .. m
      PROVE  SwExt[Wrap(PendingIdx + (d - 1))] = dmaQ[d]
  <2>1. d - 1 \in Ring /\ d - 1 \in 0 .. ItemCount /\ d - 1 < Len(dmaQ) /\ (d - 1) + 1 = d
    BY <1>1, <1>2, <1>3 DEF Ring
  <2>2. Wrap(PendingIdx + (d - 1)) \in Ring
    BY <2>1, WrapInRing
  <2>3. Ahead(PendingIdx, Wrap(PendingIdx + (d - 1))) = d - 1
    BY <2>1, AheadOfWrap
  <2>. QED
    BY <2>1, <2>2, <2>3 DEF RingMatches, SlotsMatch
<1>. QED
  BY <1>1, <1>2, <1>3

\* From the DMA to the DPC.
LEMMA KeptReap ==
  ASSUME TypeOK, TypeOK', RingInv, Emptied, Apart(Lists), MpHandleTxInterrupt
  PROVE  Kept
<1>1. PICK m \in 0 .. ItemCount : Reap(m)
  BY DEF MpHandleTxInterrupt
<1>2. dpc = "scan" /\ EnetStarted /\ unwinding["dpc"] = <<>>
  BY DEF MpHandleTxInterrupt, Emptied
<1>3. RingMatches
  BY <1>2 DEF RingInv
<1>. DEFINE L == Lists
            M == Lists'
            n == Len(dmaQ)
            x == SubSeq(dmaQ, 1, m)
            y == SubSeq(dmaQ, m + 1, n)
            reaped == [d \in 1 .. m |-> SwExt[Wrap(PendingIdx + (d - 1))]]
<1>4. m \in Nat /\ m <= n /\ n \in Nat /\ dmaQ \in Seq(NBs) /\ m \in 0 .. n
  BY <1>1, <1>3, ReapedAre, RingAssumption DEF TypeOK
<1>5. reaped = x
  <2>1. \A d \in 1 .. m : reaped[d] = dmaQ[d]
    BY <1>1, <1>3, ReapedAre
  <2>2. x = [d \in 1 .. m |-> dmaQ[d]]
    BY <1>4
  <2>. QED
    BY <2>1, <2>2
<1>6. mpQ' = mpQ /\ dmaQ' = y /\ unwinding' = [unwinding EXCEPT !["dpc"] = reaped]
  BY <1>1 DEF Reap, QueueAfterReap
<1>. HIDE DEF reaped
<1>7. /\ x \in Seq(NBs) /\ y \in Seq(NBs) /\ Len(x) = m /\ Len(y) = n - m
      /\ IsInjective(x) /\ IsInjective(y) /\ Range(x) \cap Range(y) = {}
      /\ Range(dmaQ) = Range(x) \cup Range(y)
  <2>1. IsInjective(dmaQ)
    BY ListsType DEF Apart, Places
  <2>. QED
    BY <1>4, <2>1, CutList
<1>. HIDE DEF x, y
<1>8. /\ L \in [Places -> Seq(NBs)] /\ M \in [Places -> Seq(NBs)] /\ Apart(L)
      /\ L["dma"] = dmaQ /\ L["dpc"] = <<>> /\ M["dma"] = y
      /\ "dma" \in Places /\ "dpc" \in Places
  BY <1>2, <1>6, ListsType, ListsNext DEF Places, Unwinders
<1>9. M["dpc"] = x
  <2>1. unwinding'["dpc"] = x
    BY <1>5, <1>6 DEF TypeOK, Unwinders
  <2>. QED
    BY <2>1, ListsNext DEF Unwinders
<1>10. \A r \in Places : r # "dma" /\ r # "dpc" => M[r] = L[r]
  BY <1>6 DEF Lists, TypeOK, Unwinders, Places
<1>. HIDE DEF L, M
<1>11. Len(<<>>) = 0 /\ Range(<<>>) = {}
  BY DEF Range
<1>12. /\ Len(M["dma"]) + Len(M["dpc"]) = Len(L["dma"]) + Len(L["dpc"])
       /\ Range(M["dma"]) \cup Range(M["dpc"]) = Range(L["dma"]) \cup Range(L["dpc"])
       /\ IsInjective(M["dma"]) /\ IsInjective(M["dpc"])
       /\ Range(M["dma"]) \cap Range(M["dpc"]) = {}
  <2>1. Len(M["dma"]) + Len(M["dpc"]) = Len(L["dma"]) + Len(L["dpc"])
    <3>1. /\ Len(M["dma"]) = n - m /\ Len(M["dpc"]) = m
          /\ Len(L["dma"]) = n /\ Len(L["dpc"]) = 0
      BY <1>7, <1>8, <1>9, <1>11
    <3>. QED
      BY <1>4, <3>1
  <2>. QED
    BY <1>7, <1>8, <1>9, <1>11, <2>1
<1>13. Apart(M) /\ Frames(M) = Frames(L) /\ Total(M) = Total(L)
  <2>1. Moved(L, M, "dma", "dpc")
    BY <1>10, <1>12 DEF Moved
  <2>. QED
    BY <1>8, <2>1, Move
<1>. QED
  BY <1>13 DEF Kept, L, M

\* From the waiting frames to a cancelling NDIS.
LEMMA KeptCancel ==
  ASSUME TypeOK, TypeOK', Apart(Lists), NEW l \in NBLs, MpCancelSendNetBufferLists(l)
  PROVE  Kept
<1>. DEFINE mine == {i \in 1 .. Len(mpQ) : mpQ[i][1] = l}
            Others == 1 .. Len(mpQ) \ mine
            Picked(f) == [i \in DOMAIN f |-> mpQ[f[i]]]
            L == Lists
            M == Lists'
<1>1. PICK taken \in InOrder(mine), left \in InOrder(Others) :
        /\ mpQ' = [i \in DOMAIN left |-> mpQ[left[i]]]
        /\ unwinding' = [unwinding EXCEPT !["cancel"] =
             [i \in DOMAIN taken |-> mpQ[taken[i]]]]
  BY DEF MpCancelSendNetBufferLists
<1>2. unwinding["cancel"] = <<>> /\ dmaQ' = dmaQ
  BY DEF MpCancelSendNetBufferLists
<1>3. mine \in SUBSET (1 .. Len(mpQ)) /\ Others \in SUBSET (1 .. Len(mpQ))
  OBVIOUS
<1>. DEFINE x == Picked(taken)
            y == Picked(left)
<1>4. mpQ \in Seq(NBs) /\ IsInjective(mpQ)
  BY ListsType, SMTT(30) DEF Apart, TypeOK, Places
<1>5. /\ Cardinality(mine) + Cardinality(Others) = Len(mpQ)
      /\ {mpQ[i] : i \in mine} \cap {mpQ[i] : i \in Others} = {}
      /\ {mpQ[i] : i \in mine} \cup {mpQ[i] : i \in Others} = Range(mpQ)
  <2>. HIDE DEF mine
  <2>. QED
    BY <1>3, <1>4, PickedApart
<1>. HIDE DEF mine, Others
<1>6. ASSUME NEW K \in SUBSET (1 .. Len(mpQ)), NEW f \in InOrder(K)
      PROVE  /\ Picked(f) \in Seq(NBs) /\ Len(Picked(f)) = Cardinality(K)
             /\ IsInjective(Picked(f)) /\ Range(Picked(f)) = {mpQ[i] : i \in K}
  <2>1. Picked(f) = Through(f, mpQ)
    BY DEF Through
  <2>2. /\ Through(f, mpQ) \in Seq(NBs) /\ Len(Through(f, mpQ)) = Cardinality(K)
        /\ IsInjective(Through(f, mpQ)) /\ Range(Through(f, mpQ)) = {mpQ[i] : i \in K}
    BY <1>4, PickedList
  <2>. QED
    BY <2>1, <2>2
<1>7. mpQ' = y /\ unwinding' = [unwinding EXCEPT !["cancel"] = x]
  BY <1>1
<1>. HIDE DEF Picked
<1>8. /\ x \in Seq(NBs) /\ Len(x) = Cardinality(mine) /\ IsInjective(x)
      /\ Range(x) = {mpQ[i] : i \in mine}
      /\ y \in Seq(NBs) /\ Len(y) = Cardinality(Others) /\ IsInjective(y)
      /\ Range(y) = {mpQ[i] : i \in Others}
  BY <1>3, <1>6
<1>. HIDE DEF x, y
<1>9. /\ L \in [Places -> Seq(NBs)] /\ M \in [Places -> Seq(NBs)] /\ Apart(L)
      /\ L["mp"] = mpQ /\ L["cancel"] = <<>> /\ M["mp"] = y
      /\ "mp" \in Places /\ "cancel" \in Places
  BY <1>2, <1>7, ListsType, ListsNext DEF Places, Unwinders
<1>10. M["cancel"] = x
  <2>1. unwinding'["cancel"] = x
    BY <1>7 DEF TypeOK, Unwinders
  <2>. QED
    BY <2>1, ListsNext DEF Unwinders
<1>11. \A r \in Places : r # "mp" /\ r # "cancel" => M[r] = L[r]
  BY <1>2, <1>7 DEF Lists, TypeOK, Unwinders, Places
<1>. HIDE DEF L, M
<1>12. Len(<<>>) = 0 /\ Range(<<>>) = {} /\ Len(mpQ) \in Nat
  BY <1>4 DEF Range
<1>13. Len(M["mp"]) + Len(M["cancel"]) = Len(L["mp"]) + Len(L["cancel"])
  <2>1. Len(x) \in Nat /\ Len(y) \in Nat /\ Len(x) + Len(y) = Len(mpQ)
    BY <1>5, <1>8
  <2>. QED
    BY <1>9, <1>10, <1>12, <2>1
<1>14. /\ Range(M["mp"]) \cup Range(M["cancel"]) = Range(L["mp"]) \cup Range(L["cancel"])
       /\ IsInjective(M["mp"]) /\ IsInjective(M["cancel"])
       /\ Range(M["mp"]) \cap Range(M["cancel"]) = {}
  BY <1>5, <1>8, <1>9, <1>10, <1>12
<1>15. Apart(M) /\ Frames(M) = Frames(L) /\ Total(M) = Total(L)
  <2>1. Moved(L, M, "mp", "cancel")
    BY <1>11, <1>13, <1>14 DEF Moved
  <2>. QED
    BY <1>9, <2>1, Move
<1>. QED
  BY <1>15 DEF Kept, L, M

\* From both queues to the state machine.
LEMMA KeptTakeAll ==
  ASSUME TypeOK, TypeOK', Apart(Lists), TakeAll, unwinding["sm"] = <<>>
  PROVE  Kept
<1>. DEFINE L == Lists
            M == Lists'
            all == dmaQ \o mpQ
            K == [L EXCEPT !["mp"] = <<>>, !["dma"] = all]
<1>1. mpQ' = <<>> /\ dmaQ' = <<>> /\ unwinding' = [unwinding EXCEPT !["sm"] = all]
  BY DEF TakeAll, Drained
<1>2. /\ mpQ \in Seq(NBs) /\ dmaQ \in Seq(NBs) /\ IsInjective(mpQ) /\ IsInjective(dmaQ)
      /\ Range(dmaQ) \cap Range(mpQ) = {} /\ Len(mpQ) \in Nat /\ Len(dmaQ) \in Nat
  BY ListsType, SMTT(30) DEF Apart, TypeOK, Places
<1>3. /\ all \in Seq(NBs) /\ Len(all) = Len(dmaQ) + Len(mpQ) /\ IsInjective(all)
      /\ Range(all) = Range(dmaQ) \cup Range(mpQ)
  BY <1>2, JoinLists
<1>. HIDE DEF all
<1>4. Len(<<>>) = 0 /\ Range(<<>>) = {} /\ IsInjective(<<>>) /\ <<>> \in Seq(NBs)
  BY DEF Range, IsInjective
<1>5. /\ L \in [Places -> Seq(NBs)] /\ M \in [Places -> Seq(NBs)] /\ Apart(L)
      /\ L["mp"] = mpQ /\ L["dma"] = dmaQ /\ L["sm"] = <<>>
      /\ M["mp"] = <<>> /\ M["dma"] = <<>>
      /\ "mp" \in Places /\ "dma" \in Places /\ "sm" \in Places
  BY <1>1, ListsType, ListsNext DEF Places, Unwinders
<1>6. M["sm"] = all
  <2>1. unwinding'["sm"] = all
    BY <1>1 DEF TypeOK, Unwinders
  <2>. QED
    BY <2>1, ListsNext DEF Unwinders
<1>7. \A r \in Places : r \notin {"mp", "dma", "sm"} => M[r] = L[r]
  BY <1>1 DEF Lists, TypeOK, Unwinders, Places
<1>. HIDE DEF L, M
<1>8. /\ K \in [Places -> Seq(NBs)] /\ K["mp"] = <<>> /\ K["dma"] = all
      /\ \A r \in Places : r # "mp" /\ r # "dma" => K[r] = L[r]
  BY <1>3, <1>4, <1>5
<1>. HIDE DEF K
<1>9. Apart(K) /\ Frames(K) = Frames(L) /\ Total(K) = Total(L)
  <2>1. Len(K["mp"]) + Len(K["dma"]) = Len(L["mp"]) + Len(L["dma"])
    BY <1>2, <1>3, <1>4, <1>5, <1>8
  <2>2. /\ Range(K["mp"]) \cup Range(K["dma"]) = Range(L["mp"]) \cup Range(L["dma"])
        /\ IsInjective(K["mp"]) /\ IsInjective(K["dma"])
        /\ Range(K["mp"]) \cap Range(K["dma"]) = {}
    BY <1>3, <1>4, <1>5, <1>8
  <2>. QED
    <3>1. Moved(L, K, "mp", "dma")
      BY <1>8, <2>1, <2>2 DEF Moved
    <3>. QED
      BY <1>5, <1>8, <3>1, Move
<1>10. Apart(M) /\ Frames(M) = Frames(K) /\ Total(M) = Total(K)
  <2>1. \A r \in Places : r # "dma" /\ r # "sm" => M[r] = K[r]
    BY <1>5, <1>7, <1>8
  <2>2. K["sm"] = <<>>
    BY <1>5, <1>8
  <2>3. Len(M["dma"]) + Len(M["sm"]) = Len(K["dma"]) + Len(K["sm"])
    BY <1>2, <1>3, <1>4, <1>5, <1>6, <1>8, <2>2
  <2>4. /\ Range(M["dma"]) \cup Range(M["sm"]) = Range(K["dma"]) \cup Range(K["sm"])
        /\ IsInjective(M["dma"]) /\ IsInjective(M["sm"])
        /\ Range(M["dma"]) \cap Range(M["sm"]) = {}
    BY <1>3, <1>4, <1>5, <1>6, <1>8, <2>2
  <2>. QED
    <3>1. Moved(K, M, "dma", "sm")
      BY <2>1, <2>3, <2>4 DEF Moved
    <3>. QED
      BY <1>5, <1>8, <1>9, <3>1, Move
<1>. QED
  BY <1>9, <1>10 DEF Kept, L, M

-----------------------------------------------------------------------------
\* A call begins with the first NB of its chain, and feeds the DMA after its last NBL.
CallEnds ==
  \A c \in Calls : /\ snd[c].pc = "new" => snd[c].nbl = 1 /\ snd[c].nb = 1
                   /\ snd[c].pc = "kick" => snd[c].nbl = Len(c) + 1

\* Where a call with record r is: NB i of NBL j has been mapped or given up; NBL j is
\* untouched; its current NB is being allocated or mapped.
Passed(r, j, i) == j < r.nbl \/ (j = r.nbl /\ (i < r.nb \/ (i = r.nb /\ r.pc = "count")))
Fresh(r, j) == r.pc # "done" /\ (r.nbl < j \/ (r.nbl = j /\ r.pc \in {"new", "alloc"}))
Working(r, j) == r.nbl = j /\ r.pc \in {"map", "fail"}

\* A frame in the driver's hands is one that its call has mapped.
FramesPassed ==
  \A f \in Frames(Lists) : \E c \in Calls : \E j \in 1 .. Len(c) :
    f[1] = c[j] /\ Passed(snd[c], j, f[2])

\* Tx_PendingNBs counts the frames, but for those whose sender has yet to count them.
Counting == {c \in Calls : At(c, "count")}
Counted == IsFiniteSet(Counting) /\ PendingNBs = Total(Lists) - Cardinality(Counting)

\* The NB counter n and the completions k of an NBL with a single NB.
OneNB(r, j, held, n, k) ==
  IF Fresh(r, j) THEN n = 0 /\ k = 0
  ELSE IF Working(r, j) \/ held THEN n = 1 /\ k = 0
  ELSE n = 0 /\ k = 1

Completions ==
  /\ \A c \in Calls : \A j \in 1 .. Len(c) : NBCount[c[j]] = 1 =>
       OneNB(snd[c], j, <<c[j], 1>> \in Frames(Lists), nbCounter[c[j]], completions[c[j]])
  /\ \A l \in NBLs : (\A c \in Calls : \A j \in 1 .. Len(c) : c[j] # l) => completions[l] = 0

ListsInv == Apart(Lists) /\ CallEnds /\ FramesPassed /\ Counted /\ Completions
FrameInv == Emptied /\ ListsInv

\* What the chains of the calls are made of; an NBL is in one place of one chain.
LEMMA ChainsType ==
  /\ \A c \in Calls : Len(c) \in Nat /\ DOMAIN c = 1 .. Len(c)
  /\ \A c \in Calls : \A j \in 1 .. Len(c) : c[j] \in NBLs /\ NBCount[c[j]] \in Nat
  /\ \A c, e \in Calls : \A i \in 1 .. Len(c), j \in 1 .. Len(e) : c[i] = e[j] => c = e /\ i = j
<1>1. \A c \in Calls : Len(c) \in Nat /\ DOMAIN c = 1 .. Len(c) /\ \A j \in 1 .. Len(c) : c[j] \in NBLs
  BY TxAssumption
<1>. QED
  BY <1>1, TxAssumption, NBLSentOnce

\* A frame its call has not mapped is in no list.
LEMMA NotPassed ==
  ASSUME FramesPassed, NEW c \in Calls, NEW j \in 1 .. Len(c), NEW i, ~Passed(snd[c], j, i)
  PROVE  <<c[j], i>> \notin Frames(Lists)
<1>. SUFFICES ASSUME <<c[j], i>> \in Frames(Lists) PROVE FALSE
  OBVIOUS
<1>. DEFINE f == <<c[j], i>>
<1>1. f[1] = c[j] /\ f[2] = i
  OBVIOUS
<1>. HIDE DEF f
<1>2. PICK e \in Calls : \E k \in 1 .. Len(e) : f[1] = e[k] /\ Passed(snd[e], k, f[2])
  BY DEF FramesPassed, f
<1>3. PICK k \in 1 .. Len(e) : c[j] = e[k] /\ Passed(snd[e], k, i)
  BY <1>1, <1>2
<1>4. e = c /\ k = j
  BY <1>3, ChainsType
<1>. QED
  BY <1>3, <1>4

\* Steps that touch no call's counters.
LEMMA FrameKept ==
  ASSUME Kept, CallEnds, FramesPassed, Counted, Completions, UNCHANGED <<snd, nbls, PendingNBs>>
  PROVE  ListsInv'
<1>1. Apart(Lists)'
  BY DEF Kept, Apart
<1>2. Frames(Lists)' = Frames(Lists) /\ Total(Lists)' = Total(Lists)
  BY DEF Kept, Frames, Total
<1>3. CallEnds' /\ FramesPassed'
  BY <1>2 DEF CallEnds, FramesPassed
<1>4. Counted'
  <2>1. Counting' = Counting
    BY DEF Counting, At
  <2>. QED
    BY <1>2, <2>1 DEF Counted
<1>5. Completions'
  BY <1>2 DEF Completions, nbls
<1>. QED
  BY <1>1, <1>3, <1>4, <1>5 DEF ListsInv

\* A call that feeds the DMA is through.
LEMMA FrameKick ==
  ASSUME TypeOK, Kept, CallEnds, FramesPassed, Counted, Completions, NEW c \in Calls, KickSend(c)
  PROVE  ListsInv'
<1>1. Apart(Lists)'
  BY DEF Kept, Apart
<1>2. Frames(Lists)' = Frames(Lists) /\ Total(Lists)' = Total(Lists)
  BY DEF Kept, Frames, Total
<1>3. /\ snd[c].pc = "kick" /\ snd[c].nbl = Len(c) + 1
      /\ snd'[c].pc = "done" /\ snd'[c].nbl = snd[c].nbl /\ snd'[c].nb = snd[c].nb
      /\ \A e \in Calls : e # c => snd'[e] = snd[e]
      /\ UNCHANGED <<nbls, PendingNBs>>
  BY DEF KickSend, At, CallEnds, TypeOK
<1>4. \A e \in Calls : snd'[e] # snd[e] => snd[e].pc = "kick" /\ snd'[e].pc = "done"
  BY <1>3
<1>5. CallEnds'
  BY <1>4 DEF CallEnds
<1>6. FramesPassed'
  <2>1. \A e \in Calls : \A j, i : Passed(snd[e], j, i) => Passed(snd'[e], j, i)
    BY <1>3 DEF Passed
  <2>. QED
    BY <1>2, <2>1 DEF FramesPassed
<1>7. Counted'
  <2>1. Counting' = Counting
    BY <1>4 DEF Counting, At
  <2>. QED
    BY <1>2, <1>3, <2>1 DEF Counted
<1>8. Completions'
  <2>1. ASSUME NEW e \in Calls, NEW j \in 1 .. Len(e)
        PROVE  (Fresh(snd'[e], j) <=> Fresh(snd[e], j)) /\ (Working(snd'[e], j) <=> Working(snd[e], j))
    <3>1. CASE e = c
      <4>1. Len(c) \in Nat /\ ~(snd[c].nbl < j)
        BY <1>3, <3>1, ChainsType
      <4>. QED
        BY <1>3, <3>1, <4>1 DEF Fresh, Working
    <3>2. CASE e # c
      BY <1>3, <3>2
    <3>. QED
      BY <3>1, <3>2
  <2>. QED
    BY <1>2, <1>3, <2>1 DEF Completions, OneNB, nbls
<1>. QED
  BY <1>1, <1>5, <1>6, <1>7, <1>8 DEF ListsInv

\* The other steps of a call, by what they do to its record and its current NBL.
LEMMA FrameSend ==
  ASSUME Inv, FrameInv, NEW c \in Calls, Send(c)
  PROVE  ListsInv'
<1>. TypeOK /\ CallEnds /\ FramesPassed /\ Counted /\ Completions /\ Apart(Lists)
  BY DEF Inv, FrameInv, ListsInv
<1>1. /\ snd[c].pc = "new" /\ snd[c].nbl = 1 /\ snd[c].nb = 1
      /\ snd'[c].pc \in {"alloc", "done"} /\ snd'[c].nbl = 1 /\ snd'[c].nb = 1
      /\ \A e \in Calls : e # c => snd'[e] = snd[e]
      /\ UNCHANGED <<queues, unwinding, nbCounter, PendingNBs>>
  BY DEF Send, At, CallEnds, TypeOK
<1>2. Lists' = Lists
  BY <1>1 DEF Lists, queues
<1>3. Apart(Lists)' /\ Frames(Lists)' = Frames(Lists) /\ Total(Lists)' = Total(Lists)
  BY <1>2 DEF Apart, Frames, Total
<1>4. CallEnds'
  BY <1>1 DEF CallEnds
<1>5. FramesPassed'
  <2>1. \A e \in Calls : \A j, i : Passed(snd[e], j, i) => Passed(snd'[e], j, i)
    BY <1>1 DEF Passed
  <2>. QED
    BY <1>3, <2>1 DEF FramesPassed
<1>6. Counted'
  <2>1. Counting' = Counting
    BY <1>1 DEF Counting, At
  <2>. QED
    BY <1>1, <1>3, <2>1 DEF Counted
<1>7. Completions'
  <2>1. CASE snd'[c].pc = "alloc" /\ completions' = completions
    <3>1. \A e \in Calls : \A j : (Fresh(snd'[e], j) <=> Fresh(snd[e], j))
                                  /\ (Working(snd'[e], j) <=> Working(snd[e], j))
      BY <1>1, <2>1 DEF Fresh, Working
    <3>. QED
      BY <1>1, <1>3, <2>1, <3>1 DEF Completions, OneNB
  <2>2. CASE /\ snd'[c].pc = "done"
             /\ completions' = [l \in NBLs |->
                  IF l \in Chain(c) THEN completions[l] + 1 ELSE completions[l]]
    <3>1. ASSUME NEW e \in Calls, NEW j \in 1 .. Len(e), NBCount[e[j]] = 1
          PROVE  OneNB(snd'[e], j, <<e[j], 1>> \in Frames(Lists), nbCounter[e[j]], completions'[e[j]])
      <4>1. OneNB(snd[e], j, <<e[j], 1>> \in Frames(Lists), nbCounter[e[j]], completions[e[j]])
        BY <3>1 DEF Completions
      <4>2. e[j] \in NBLs
        BY ChainsType
      <4>3. CASE e = c
        <5>1. j \in Nat /\ 1 <= j
          BY ChainsType
        <5>2. Fresh(snd[c], j) /\ ~Fresh(snd'[c], j) /\ ~Working(snd'[c], j) /\ ~Passed(snd[c], j, 1)
          BY <1>1, <2>2, <5>1 DEF Fresh, Working, Passed
        <5>3. <<e[j], 1>> \notin Frames(Lists)
          BY <4>3, <5>2, NotPassed
        <5>4. nbCounter[e[j]] = 0 /\ completions[e[j]] = 0
          BY <4>1, <4>3, <5>2 DEF OneNB
        <5>5. e[j] \in Chain(c)
          BY <4>3 DEF Chain
        <5>6. completions'[e[j]] = 1
          BY <2>2, <4>2, <5>4, <5>5
        <5>. QED
          BY <4>3, <5>2, <5>3, <5>4, <5>6 DEF OneNB
      <4>4. CASE e # c
        <5>1. e[j] \notin Chain(c)
          BY <4>4, ChainsType DEF Chain
        <5>2. completions'[e[j]] = completions[e[j]]
          BY <2>2, <4>2, <5>1
        <5>. QED
          BY <1>1, <4>1, <4>4, <5>2
      <4>. QED
        BY <4>3, <4>4
    <3>2. ASSUME NEW l \in NBLs, \A e \in Calls : \A j \in 1 .. Len(e) : e[j] # l
          PROVE  completions'[l] = 0
      <4>1. l \notin Chain(c) /\ completions[l] = 0
        BY <3>2 DEF Chain, Completions
      <4>. QED
        BY <2>2, <4>1
    <3>. QED
      BY <1>1, <1>3, <3>1, <3>2 DEF Completions
  <2>3. \/ snd' = [snd EXCEPT ![c].pc = "alloc"] /\ completions' = completions
        \/ /\ snd' = [snd EXCEPT ![c].pc = "done"]
           /\ completions' = [l \in NBLs |->
                IF l \in Chain(c) THEN completions[l] + 1 ELSE completions[l]]
    BY DEF Send
  <2>. QED
    BY <2>1, <2>2, <2>3 DEF TypeOK
<1>. QED
  BY <1>3, <1>4, <1>5, <1>6, <1>7 DEF ListsInv

\* A step of a call concerns its current NBL only.
LEMMA OneNBLStep ==
  ASSUME Completions, NEW c \in Calls, snd[c].nbl \in 1 .. Len(c),
         \A e \in Calls : e # c => snd'[e] = snd[e],
         \A j \in 1 .. Len(c) : j # snd[c].nbl =>
           (Fresh(snd'[c], j) <=> Fresh(snd[c], j)) /\ (Working(snd'[c], j) <=> Working(snd[c], j)),
         \A l \in NBLs : l # Nbl(c) =>
           /\ nbCounter'[l] = nbCounter[l] /\ completions'[l] = completions[l]
           /\ <<l, 1>> \in Frames(Lists') <=> <<l, 1>> \in Frames(Lists),
         NBCount[Nbl(c)] = 1 =>
           OneNB(snd'[c], snd[c].nbl, <<Nbl(c), 1>> \in Frames(Lists'),
                 nbCounter'[Nbl(c)], completions'[Nbl(c)])
  PROVE  Completions'
<1>1. ASSUME NEW e \in Calls, NEW j \in 1 .. Len(e), NBCount[e[j]] = 1
      PROVE  OneNB(snd'[e], j, <<e[j], 1>> \in Frames(Lists'), nbCounter'[e[j]], completions'[e[j]])
  <2>1. OneNB(snd[e], j, <<e[j], 1>> \in Frames(Lists), nbCounter[e[j]], completions[e[j]])
    BY <1>1 DEF Completions
  <2>2. CASE e = c /\ j = snd[c].nbl
    BY <1>1, <2>2 DEF Nbl
  <2>3. CASE ~(e = c /\ j = snd[c].nbl)
    <3>1. e[j] \in NBLs /\ e[j] # Nbl(c)
      BY <2>3, ChainsType DEF Nbl
    <3>2. (Fresh(snd'[e], j) <=> Fresh(snd[e], j)) /\ (Working(snd'[e], j) <=> Working(snd[e], j))
      BY <2>3
    <3>3. /\ nbCounter'[e[j]] = nbCounter[e[j]] /\ completions'[e[j]] = completions[e[j]]
          /\ <<e[j], 1>> \in Frames(Lists') <=> <<e[j], 1>> \in Frames(Lists)
      BY <3>1
    <3>. QED
      BY <2>1, <3>2, <3>3 DEF OneNB
  <2>. QED
    BY <2>2, <2>3
<1>2. ASSUME NEW l \in NBLs, \A e \in Calls : \A j \in 1 .. Len(e) : e[j] # l
      PROVE  completions'[l] = 0
  <2>1. l # Nbl(c)
    BY <1>2 DEF Nbl
  <2>. QED
    BY <1>2, <2>1 DEF Completions
<1>. QED
  BY <1>1, <1>2 DEF Completions, Frames

\* What a call at work has: its place, and its current NBL.
LEMMA AtWork ==
  ASSUME Inv, NEW c \in Calls, snd[c].pc \in {"alloc", "map", "count", "fail"}
  PROVE  /\ snd[c].nbl \in 1 .. Len(c) /\ snd[c].nb \in 1 .. NBCount[Nbl(c)]
         /\ Nbl(c) \in NBLs /\ Nbl(c) = c[snd[c].nbl] /\ NBCount[Nbl(c)] \in Nat /\ Len(c) \in Nat
         /\ snd[c] \in [pc : {"new", "alloc", "map", "count", "fail", "kick", "done"},
                        nbl : Nat, nb : Nat, queued : BOOLEAN]
<1>1. snd[c].nbl \in 1 .. Len(c) /\ snd[c].nb \in 1 .. NBCount[Nbl(c)]
  BY DEF Inv, CallsInBounds
<1>. QED
  BY <1>1, ChainsType DEF Inv, TypeOK, Nbl

\* The record after the last NB of an NBL.
LEMMA NextRecord ==
  ASSUME Inv, NEW c \in Calls, snd[c].pc \in {"count", "fail"}, NEW q, NextNbl(c, q)
  PROVE  /\ \A e \in Calls : e # c => snd'[e] = snd[e]
         /\ snd'[c].nbl = snd[c].nbl + 1 /\ snd'[c].nb = 1
         /\ IF snd[c].nbl < Len(c) THEN snd'[c].pc = "alloc" ELSE snd'[c].pc \in {"kick", "done"}
  BY DEF NextNbl, Inv, TypeOK

\* A frame's call only goes on.
LEMMA PassedStep ==
  ASSUME TypeOK, FramesPassed, Frames(Lists)' = Frames(Lists),
         \A e \in Calls : \A j, i \in Nat : Passed(snd[e], j, i) => Passed(snd'[e], j, i)
  PROVE  FramesPassed'
<1>. SUFFICES ASSUME NEW f \in Frames(Lists)
              PROVE  \E c \in Calls : \E j \in 1 .. Len(c) : f[1] = c[j] /\ Passed(snd'[c], j, f[2])
  BY DEF FramesPassed
<1>1. f \in NBs
  BY ListsType, ListType DEF Frames, Range
<1>2. f[2] \in Nat
  <2>1. PICK l \in NBLs : \E i \in 1 .. NBCount[l] : f = <<l, i>>
    BY <1>1, NBsAre
  <2>2. NBCount[l] \in Nat
    BY TxAssumption
  <2>. QED
    BY <2>1, <2>2
<1>3. PICK c \in Calls : \E j \in 1 .. Len(c) : f[1] = c[j] /\ Passed(snd[c], j, f[2])
  BY DEF FramesPassed
<1>4. \A j \in 1 .. Len(c) : j \in Nat
  BY ChainsType
<1>. QED
  BY <1>2, <1>3, <1>4

\* The NBLs before and after the current one do not notice that it is through.
LEMMA NextOthers ==
  ASSUME Inv, NEW c \in Calls, snd[c].pc \in {"count", "fail"}, NEW q, NextNbl(c, q)
  PROVE  /\ CallEnds => CallEnds'
         /\ \A e \in Calls : \A j, i \in Nat : Passed(snd[e], j, i) => Passed(snd'[e], j, i)
         /\ Counting' = Counting \ {c}
         /\ \A j \in 1 .. Len(c) : j # snd[c].nbl =>
              (Fresh(snd'[c], j) <=> Fresh(snd[c], j)) /\ (Working(snd'[c], j) <=> Working(snd[c], j))
         /\ ~Fresh(snd'[c], snd[c].nbl) /\ ~Working(snd'[c], snd[c].nbl)
<1>1. /\ \A e \in Calls : e # c => snd'[e] = snd[e]
      /\ snd'[c].nbl = snd[c].nbl + 1 /\ snd'[c].nb = 1
      /\ IF snd[c].nbl < Len(c) THEN snd'[c].pc = "alloc" ELSE snd'[c].pc \in {"kick", "done"}
  BY NextRecord
<1>2. /\ snd[c].nbl \in 1 .. Len(c) /\ Len(c) \in Nat /\ snd[c].nbl \in Nat
  BY AtWork
<1>3. snd'[c].pc \in {"kick", "done"} => snd'[c].nbl = Len(c) + 1
  BY <1>1, <1>2
<1>4. CallEnds => CallEnds'
  BY <1>1, <1>3 DEF CallEnds
<1>5. ASSUME NEW j \in Nat, NEW i \in Nat, Passed(snd[c], j, i) PROVE Passed(snd'[c], j, i)
  <2>1. j < snd[c].nbl => j < snd[c].nbl + 1
    BY <1>2, <1>5
  <2>. QED
    BY <1>1, <1>2, <1>5, <2>1 DEF Passed
<1>6. Counting' = Counting \ {c}
  BY <1>1 DEF Counting, At
<1>7. ASSUME NEW j \in 1 .. Len(c), j # snd[c].nbl
      PROVE  (Fresh(snd'[c], j) <=> Fresh(snd[c], j)) /\ (Working(snd'[c], j) <=> Working(snd[c], j))
  <2>1. CASE j < snd[c].nbl
    BY <1>1, <1>2, <2>1 DEF Fresh, Working
  <2>2. CASE j > snd[c].nbl
    <3>1. snd'[c].pc = "alloc"
      BY <1>1, <1>2, <2>2
    <3>2. snd[c].nbl + 1 < j \/ snd[c].nbl + 1 = j
      BY <1>2, <2>2
    <3>. QED
      BY <1>1, <1>2, <2>2, <3>1, <3>2 DEF Fresh, Working
  <2>. QED
    BY <1>2, <1>7, <2>1, <2>2
<1>8. ~Fresh(snd'[c], snd[c].nbl) /\ ~Working(snd'[c], snd[c].nbl)
  BY <1>1, <1>2 DEF Fresh, Working
<1>. QED
  BY <1>1, <1>4, <1>5, <1>6, <1>7, <1>8

\* The step from an NB's counting to its mapping.
LEMMA FrameAlloc ==
  ASSUME Inv, FrameInv, NEW c \in Calls, AllocTxBD(c)
  PROVE  ListsInv'
<1>. TypeOK /\ CallEnds /\ FramesPassed /\ Counted /\ Completions /\ Apart(Lists)
  BY DEF Inv, FrameInv, ListsInv
<1>. DEFINE l == Nbl(c)
            n == snd[c].nbl
<1>1. /\ snd[c].pc = "alloc" /\ UNCHANGED <<queues, unwinding, completions, PendingNBs>>
      /\ nbCounter' = [nbCounter EXCEPT ![l] = nbCounter[l] + 1]
  BY DEF AllocTxBD, At
<1>2. /\ n \in 1 .. Len(c) /\ snd[c].nb \in 1 .. NBCount[l] /\ l \in NBLs /\ l = c[n]
      /\ Len(c) \in Nat /\ NBCount[l] \in Nat
  BY <1>1, AtWork
<1>3. /\ snd'[c].pc \in {"map", "fail"} /\ snd'[c].nbl = n /\ snd'[c].nb = snd[c].nb
      /\ \A e \in Calls : e # c => snd'[e] = snd[e]
  <2>1. PICK outcome \in {"map", "fail"} : snd' = [snd EXCEPT ![c].pc = outcome]
    BY DEF AllocTxBD
  <2>. QED
    BY <2>1 DEF TypeOK
<1>4. Lists' = Lists
  BY <1>1 DEF Lists, queues
<1>5. Apart(Lists)' /\ Frames(Lists)' = Frames(Lists) /\ Total(Lists)' = Total(Lists)
  BY <1>4 DEF Apart, Frames, Total
<1>6. CallEnds'
  BY <1>3 DEF CallEnds
<1>7. FramesPassed'
  <2>1. \A e \in Calls : \A j, i : Passed(snd[e], j, i) => Passed(snd'[e], j, i)
    BY <1>1, <1>3 DEF Passed
  <2>. QED
    BY <1>5, <2>1 DEF FramesPassed
<1>8. Counted'
  <2>1. Counting' = Counting
    BY <1>1, <1>3 DEF Counting, At
  <2>. QED
    BY <1>1, <1>5, <2>1 DEF Counted
<1>9. Completions'
  <2>1. \A j \in 1 .. Len(c) : j # n =>
          (Fresh(snd'[c], j) <=> Fresh(snd[c], j)) /\ (Working(snd'[c], j) <=> Working(snd[c], j))
    BY <1>1, <1>3 DEF Fresh, Working
  <2>2. \A k \in NBLs : k # l => nbCounter'[k] = nbCounter[k] /\ completions'[k] = completions[k]
    BY <1>1, <1>2 DEF TypeOK
  <2>3. ASSUME NBCount[l] = 1
        PROVE  OneNB(snd'[c], n, <<l, 1>> \in Frames(Lists'), nbCounter'[l], completions'[l])
    <3>1. Fresh(snd[c], n) /\ ~Fresh(snd'[c], n) /\ Working(snd'[c], n)
      BY <1>1, <1>2, <1>3 DEF Fresh, Working
    <3>2. OneNB(snd[c], n, <<l, 1>> \in Frames(Lists), nbCounter[l], completions[l])
      BY <1>2, <2>3 DEF Completions
    <3>3. nbCounter[l] = 0 /\ completions[l] = 0
      BY <3>1, <3>2 DEF OneNB
    <3>4. nbCounter'[l] = 1 /\ completions'[l] = 0
      BY <1>1, <1>2, <3>3 DEF TypeOK
    <3>. QED
      BY <3>1, <3>4 DEF OneNB
  <2>. QED
    BY <1>2, <1>3, <1>4, <2>1, <2>2, <2>3, OneNBLStep
<1>. QED
  BY <1>5, <1>6, <1>7, <1>8, <1>9 DEF ListsInv

\* Counting an NB whose frame is queued already.
LEMMA FrameCount ==
  ASSUME Inv, FrameInv, NEW c \in Calls, CountNB(c)
  PROVE  ListsInv'
<1>. TypeOK /\ CallEnds /\ FramesPassed /\ Counted /\ Completions /\ Apart(Lists)
  BY DEF Inv, FrameInv, ListsInv
<1>. DEFINE l == Nbl(c)
            n == snd[c].nbl
<1>1. /\ snd[c].pc = "count" /\ UNCHANGED <<queues, unwinding, nbCounter, completions>>
      /\ PendingNBs' = PendingNBs + 1
  BY DEF CountNB, At, nbls
<1>2. /\ n \in 1 .. Len(c) /\ snd[c].nb \in 1 .. NBCount[l] /\ l \in NBLs /\ l = c[n]
      /\ Len(c) \in Nat /\ NBCount[l] \in Nat /\ snd[c].nb \in Nat
  BY <1>1, AtWork
<1>3. /\ \A e \in Calls : e # c => snd'[e] = snd[e]
      /\ CallEnds'
      /\ \A e \in Calls : \A j, i \in Nat : Passed(snd[e], j, i) => Passed(snd'[e], j, i)
      /\ Counting' = Counting \ {c}
      /\ \A j \in 1 .. Len(c) : j # n =>
           (Fresh(snd'[c], j) <=> Fresh(snd[c], j)) /\ (Working(snd'[c], j) <=> Working(snd[c], j))
      /\ NBCount[l] = 1 => ~Fresh(snd'[c], n) /\ ~Working(snd'[c], n)
  <2>1. CASE snd[c].nb < NBCount[l]
    <3>1. snd' = [snd EXCEPT ![c].pc = "alloc", ![c].nb = @ + 1]
      BY <2>1 DEF CountNB
    <3>2. /\ \A e \in Calls : e # c => snd'[e] = snd[e]
          /\ snd'[c].pc = "alloc" /\ snd'[c].nbl = n /\ snd'[c].nb = snd[c].nb + 1
      BY <3>1 DEF TypeOK
    <3>3. CallEnds'
      BY <3>2 DEF CallEnds
    <3>4. \A j, i \in Nat : Passed(snd[c], j, i) => Passed(snd'[c], j, i)
      <4>1. \A i \in Nat : i < snd[c].nb \/ i = snd[c].nb => i < snd[c].nb + 1
        BY <1>2
      <4>. QED
        BY <1>2, <3>2, <4>1 DEF Passed
    <3>5. Counting' = Counting \ {c}
      BY <3>2 DEF Counting, At
    <3>6. \A j \in 1 .. Len(c) : j # n =>
           (Fresh(snd'[c], j) <=> Fresh(snd[c], j)) /\ (Working(snd'[c], j) <=> Working(snd[c], j))
      BY <1>1, <3>2 DEF Fresh, Working
    <3>7. NBCount[l] # 1
      BY <1>2, <2>1
    <3>. QED
      BY <3>2, <3>3, <3>4, <3>5, <3>6, <3>7
  <2>2. CASE ~(snd[c].nb < NBCount[l])
    <3>1. NextNbl(c, TRUE)
      BY <2>2 DEF CountNB
    <3>. QED
      BY <1>1, <3>1, NextRecord, NextOthers
  <2>. QED
    BY <2>1, <2>2
<1>4. Lists' = Lists
  BY <1>1 DEF Lists, queues
<1>5. Apart(Lists)' /\ Frames(Lists)' = Frames(Lists) /\ Total(Lists)' = Total(Lists)
  BY <1>4 DEF Apart, Frames, Total
<1>6. FramesPassed'
  BY <1>3, <1>5, PassedStep
<1>7. Counted'
  <2>1. c \in Counting
    BY <1>1 DEF Counting, At
  <2>2. /\ IsFiniteSet(Counting \ {c})
        /\ Cardinality(Counting \ {c}) = Cardinality(Counting) - 1
    BY <2>1, FS_RemoveElement DEF Counted
  <2>3. Cardinality(Counting) \in Nat /\ Total(Lists) \in Nat
    BY ListsType, TotalType, FS_CardinalityType DEF Counted
  <2>4. PendingNBs + 1 = Total(Lists) - (Cardinality(Counting) - 1)
    BY <2>3 DEF Counted
  <2>. QED
    BY <1>1, <1>3, <1>5, <2>2, <2>4 DEF Counted
<1>8. Completions'
  <2>1. ASSUME NBCount[l] = 1
        PROVE  OneNB(snd'[c], n, <<l, 1>> \in Frames(Lists'), nbCounter'[l], completions'[l])
    <3>1. ~Fresh(snd[c], n) /\ ~Working(snd[c], n)
      BY <1>1, <1>2 DEF Fresh, Working
    <3>2. OneNB(snd[c], n, <<l, 1>> \in Frames(Lists), nbCounter[l], completions[l])
      BY <1>2, <2>1 DEF Completions
    <3>. QED
      BY <1>1, <1>3, <1>4, <2>1, <3>1, <3>2 DEF OneNB
  <2>. QED
    BY <1>1, <1>2, <1>3, <1>4, <2>1, OneNBLStep
<1>. QED
  BY <1>3, <1>5, <1>6, <1>7, <1>8 DEF ListsInv

\* Giving an NB up, and the rest of its NBL with it.
LEMMA FrameFail ==
  ASSUME Inv, FrameInv, NEW c \in Calls, FailNB(c)
  PROVE  ListsInv'
<1>. TypeOK /\ CallEnds /\ FramesPassed /\ Counted /\ Completions /\ Apart(Lists)
  BY DEF Inv, FrameInv, ListsInv
<1>. DEFINE l == Nbl(c)
            n == snd[c].nbl
<1>1. /\ snd[c].pc = "fail" /\ UNCHANGED <<queues, unwinding, PendingNBs>>
      /\ ReleaseNB(l) /\ NextNbl(c, snd[c].queued)
  BY DEF FailNB, At
<1>2. /\ n \in 1 .. Len(c) /\ snd[c].nb \in 1 .. NBCount[l] /\ l \in NBLs /\ l = c[n]
      /\ Len(c) \in Nat /\ NBCount[l] \in Nat
  BY <1>1, AtWork
<1>3. /\ \A e \in Calls : e # c => snd'[e] = snd[e]
      /\ CallEnds'
      /\ \A e \in Calls : \A j, i \in Nat : Passed(snd[e], j, i) => Passed(snd'[e], j, i)
      /\ Counting' = Counting \ {c}
      /\ \A j \in 1 .. Len(c) : j # n =>
           (Fresh(snd'[c], j) <=> Fresh(snd[c], j)) /\ (Working(snd'[c], j) <=> Working(snd[c], j))
      /\ ~Fresh(snd'[c], n) /\ ~Working(snd'[c], n)
  BY <1>1, NextRecord, NextOthers
<1>4. Lists' = Lists
  BY <1>1 DEF Lists, queues
<1>5. Apart(Lists)' /\ Frames(Lists)' = Frames(Lists) /\ Total(Lists)' = Total(Lists)
  BY <1>4 DEF Apart, Frames, Total
<1>6. FramesPassed'
  BY <1>3, <1>5, PassedStep
<1>7. Counted'
  <2>1. c \notin Counting
    BY <1>1 DEF Counting, At
  <2>2. Counting' = Counting
    BY <1>3, <2>1
  <2>. QED
    BY <1>1, <1>5, <2>2 DEF Counted
<1>8. Completions'
  <2>1. \A k \in NBLs : k # l => nbCounter'[k] = nbCounter[k] /\ completions'[k] = completions[k]
    BY <1>1, <1>2 DEF TypeOK, ReleaseNB
  <2>2. ASSUME NBCount[l] = 1
        PROVE  OneNB(snd'[c], n, <<l, 1>> \in Frames(Lists'), nbCounter'[l], completions'[l])
    <3>1. ~Fresh(snd[c], n) /\ Working(snd[c], n) /\ ~Passed(snd[c], n, 1)
      BY <1>1, <1>2, <2>2 DEF Fresh, Working, Passed
    <3>2. nbCounter[l] = 1 /\ completions[l] = 0
      BY <1>2, <2>2, <3>1 DEF Completions, OneNB
    <3>3. nbCounter'[l] = 0 /\ completions'[l] = 1
      BY <1>1, <1>2, <3>2 DEF TypeOK, ReleaseNB
    <3>4. <<l, 1>> \notin Frames(Lists')
      BY <1>2, <1>4, <3>1, NotPassed
    <3>. QED
      BY <1>3, <3>3, <3>4 DEF OneNB
  <2>. QED
    BY <1>2, <1>3, <1>4, <2>1, <2>2, OneNBLStep
<1>. QED
  BY <1>3, <1>5, <1>6, <1>7, <1>8 DEF ListsInv

\* Queueing a frame, which no list has.
LEMMA FrameMap ==
  ASSUME Inv, Inv', FrameInv, NEW c \in Calls, MapNB(c)
  PROVE  ListsInv'
<1>. TypeOK /\ TypeOK' /\ CallEnds /\ FramesPassed /\ Counted /\ Completions /\ Apart(Lists)
  BY DEF Inv, FrameInv, ListsInv
<1>. DEFINE l == Nbl(c)
            n == snd[c].nbl
            b == snd[c].nb
            f == <<l, b>>
<1>1. /\ snd[c].pc = "map" /\ UNCHANGED <<dmaQ, unwinding, nbCounter, completions, PendingNBs>>
  BY DEF MapNB, At, nbls
<1>2. /\ n \in 1 .. Len(c) /\ b \in 1 .. NBCount[l] /\ l \in NBLs /\ l = c[n]
      /\ Len(c) \in Nat /\ NBCount[l] \in Nat
  BY <1>1, AtWork
<1>3. CASE mpQ' = Append(mpQ, f) /\ snd' = [snd EXCEPT ![c].pc = "count"]
  <2>1. /\ snd'[c].pc = "count" /\ snd'[c].nbl = n /\ snd'[c].nb = b
        /\ \A e \in Calls : e # c => snd'[e] = snd[e]
    BY <1>3 DEF TypeOK
  <2>2. f \in NBs /\ f \notin Frames(Lists)
    <3>1. ~Passed(snd[c], n, b)
      BY <1>1, <1>2 DEF Passed
    <3>. QED
      BY <1>2, <3>1, NotPassed, NBsAre
  <2>3. /\ Apart(Lists') /\ Frames(Lists') = Frames(Lists) \cup {f}
        /\ Total(Lists') = Total(Lists) + 1
    <3>. DEFINE L == Lists
                M == Lists'
    <3>1. /\ L \in [Places -> Seq(NBs)] /\ M \in [Places -> Seq(NBs)] /\ "mp" \in Places
          /\ M["mp"] = Append(L["mp"], f)
      BY <1>3, ListsType, ListsNext DEF Places
    <3>2. \A r \in Places : r # "mp" => M[r] = L[r]
      BY <1>1 DEF Lists
    <3>. HIDE DEF L, M, f
    <3>3. Apart(L) /\ f \in NBs /\ f \notin Frames(L)
      BY <2>2 DEF L
    <3>4. Apart(M) /\ Frames(M) = Frames(L) \cup {f} /\ Total(M) = Total(L) + 1
      BY <3>1, <3>2, <3>3, Enter
    <3>. QED
      BY <3>4 DEF L, M
  <2>4. Apart(Lists)' /\ Frames(Lists)' = Frames(Lists') /\ Total(Lists)' = Total(Lists')
    BY <2>3 DEF Apart, Frames, Total
  <2>5. CallEnds'
    BY <2>1 DEF CallEnds
  <2>6. FramesPassed'
    <3>1. \A e \in Calls : \A j, i : Passed(snd[e], j, i) => Passed(snd'[e], j, i)
      BY <1>1, <2>1 DEF Passed
    <3>2. f[1] = c[n] /\ f[2] = b /\ Passed(snd'[c], n, b)
      BY <1>2, <2>1 DEF Passed
    <3>3. ASSUME NEW g \in Frames(Lists) \cup {f}
          PROVE  \E e \in Calls : \E j \in 1 .. Len(e) : g[1] = e[j] /\ Passed(snd'[e], j, g[2])
      <4>1. CASE g \in Frames(Lists)
        BY <3>1, <4>1 DEF FramesPassed
      <4>2. CASE g = f
        BY <1>2, <3>2, <4>2
      <4>. QED
        BY <4>1, <4>2
    <3>. QED
      BY <2>3, <2>4, <3>3 DEF FramesPassed
  <2>7. Counted'
    <3>1. c \notin Counting /\ Counting' = Counting \cup {c}
      BY <1>1, <2>1 DEF Counting, At
    <3>2. /\ IsFiniteSet(Counting \cup {c})
          /\ Cardinality(Counting \cup {c}) = Cardinality(Counting) + 1
      BY <3>1, FS_AddElement DEF Counted
    <3>3. Cardinality(Counting) \in Nat /\ Total(Lists) \in Nat
      BY ListsType, TotalType, FS_CardinalityType DEF Counted
    <3>4. PendingNBs = (Total(Lists) + 1) - (Cardinality(Counting) + 1)
      BY <3>3 DEF Counted
    <3>. QED
      BY <1>1, <2>3, <2>4, <3>1, <3>2, <3>4 DEF Counted
  <2>8. Completions'
    <3>1. \A j \in 1 .. Len(c) : j # n =>
            (Fresh(snd'[c], j) <=> Fresh(snd[c], j)) /\ (Working(snd'[c], j) <=> Working(snd[c], j))
      BY <1>1, <2>1 DEF Fresh, Working
    <3>2. \A k \in NBLs : k # l => (<<k, 1>> \in Frames(Lists') <=> <<k, 1>> \in Frames(Lists))
      BY <2>3
    <3>3. ASSUME NBCount[l] = 1
          PROVE  OneNB(snd'[c], n, <<l, 1>> \in Frames(Lists'), nbCounter'[l], completions'[l])
      <4>1. /\ ~Fresh(snd[c], n) /\ Working(snd[c], n)
            /\ ~Fresh(snd'[c], n) /\ ~Working(snd'[c], n)
        BY <1>1, <1>2, <2>1 DEF Fresh, Working
      <4>2. nbCounter[l] = 1 /\ completions[l] = 0
        BY <1>2, <3>3, <4>1 DEF Completions, OneNB
      <4>3. b = 1
        BY <1>2, <3>3
      <4>4. <<l, 1>> \in Frames(Lists')
        BY <2>3, <4>3
      <4>. QED
        BY <1>1, <4>1, <4>2, <4>4 DEF OneNB
    <3>. QED
      BY <1>1, <1>2, <2>1, <3>1, <3>2, <3>3, OneNBLStep
  <2>. QED
    BY <2>3, <2>4, <2>5, <2>6, <2>7, <2>8 DEF ListsInv
<1>4. CASE mpQ' = mpQ /\ snd' = [snd EXCEPT ![c].pc = "fail"]
  <2>1. /\ snd'[c].pc = "fail" /\ snd'[c].nbl = n /\ snd'[c].nb = b
        /\ \A e \in Calls : e # c => snd'[e] = snd[e]
    BY <1>4 DEF TypeOK
  <2>2. Lists' = Lists
    BY <1>1, <1>4 DEF Lists
  <2>3. Apart(Lists)' /\ Frames(Lists)' = Frames(Lists) /\ Total(Lists)' = Total(Lists)
    BY <2>2 DEF Apart, Frames, Total
  <2>4. CallEnds'
    BY <2>1 DEF CallEnds
  <2>5. FramesPassed'
    <3>1. \A e \in Calls : \A j, i : Passed(snd[e], j, i) => Passed(snd'[e], j, i)
      BY <1>1, <2>1 DEF Passed
    <3>. QED
      BY <2>3, <3>1 DEF FramesPassed
  <2>6. Counted'
    <3>1. Counting' = Counting
      BY <1>1, <2>1 DEF Counting, At
    <3>. QED
      BY <1>1, <2>3, <3>1 DEF Counted
  <2>7. Completions'
    <3>1. \A e \in Calls : \A j : (Fresh(snd'[e], j) <=> Fresh(snd[e], j))
                                  /\ (Working(snd'[e], j) <=> Working(snd[e], j))
      BY <1>1, <2>1 DEF Fresh, Working
    <3>. QED
      BY <1>1, <2>3, <3>1 DEF Completions, OneNB
  <2>. QED
    BY <2>3, <2>4, <2>5, <2>6, <2>7 DEF ListsInv
<1>. QED
  BY <1>3, <1>4 DEF MapNB, ListsInv
\* Unwinding a frame gives it up, and completes its NBL with its last NB.
LEMMA FrameUnwind ==
  ASSUME Inv, Inv', FrameInv, NEW u \in Unwinders, MpTxUnwindNetBuffer(u)
  PROVE  ListsInv'
<1>. TypeOK /\ TypeOK' /\ CallsInBounds /\ CallEnds /\ FramesPassed /\ Counted /\ Completions
     /\ Apart(Lists)
  BY DEF Inv, FrameInv, ListsInv
<1>. DEFINE f == Head(unwinding[u])
            l == f[1]
<1>1. /\ unwinding[u] # <<>> /\ UNCHANGED <<queues, snd>>
      /\ unwinding' = [unwinding EXCEPT ![u] = Tail(unwinding[u])]
      /\ ReleaseNB(l) /\ PendingNBs' = PendingNBs - 1
  BY DEF MpTxUnwindNetBuffer, UncountNB
<1>2. /\ Apart(Lists') /\ Frames(Lists') = Frames(Lists) \ {f} /\ Total(Lists') = Total(Lists) - 1
      /\ f \in Frames(Lists) /\ f \in NBs
  <2>. DEFINE L == Lists
              M == Lists'
  <2>1. /\ L \in [Places -> Seq(NBs)] /\ M \in [Places -> Seq(NBs)] /\ u \in Places
        /\ L[u] = unwinding[u] /\ M[u] = unwinding'[u]
    BY ListsType, ListsNext
  <2>2. M[u] = Tail(L[u]) /\ L[u] # <<>>
    <3>1. unwinding'[u] = Tail(unwinding[u])
      BY <1>1 DEF TypeOK
    <3>. QED
      BY <1>1, <2>1, <3>1
  <2>3. \A r \in Places : r # u => M[r] = L[r]
    BY <1>1 DEF Lists, TypeOK, Unwinders, Places, queues
  <2>4. Apart(L)
    OBVIOUS
  <2>5. f = Head(L[u])
    BY <2>1
  <2>. HIDE DEF L, M, f
  <2>6. /\ Apart(M) /\ Frames(M) = Frames(L) \ {Head(L[u])} /\ Total(M) = Total(L) - 1
        /\ Head(L[u]) \in Frames(L) /\ Head(L[u]) \in NBs
    BY <2>1, <2>2, <2>3, <2>4, Leave
  <2>. QED
    BY <2>5, <2>6 DEF L, M
<1>3. Apart(Lists)' /\ Frames(Lists)' = Frames(Lists') /\ Total(Lists)' = Total(Lists')
  BY <1>2 DEF Apart, Frames, Total
<1>. HIDE DEF f
<1>4. PICK e \in Calls : \E j \in 1 .. Len(e) : l = e[j] /\ Passed(snd[e], j, f[2])
  BY <1>2 DEF FramesPassed
<1>5. PICK j \in 1 .. Len(e) : l = e[j] /\ Passed(snd[e], j, f[2])
  BY <1>4
<1>6. l \in NBLs /\ f[2] \in 1 .. NBCount[l] /\ NBCount[l] \in Nat /\ f = <<l, f[2]>>
  <2>1. PICK k \in NBLs : \E i \in 1 .. NBCount[k] : f = <<k, i>>
    BY <1>2, NBsAre
  <2>2. PICK i \in 1 .. NBCount[k] : f = <<k, i>>
    BY <2>1
  <2>. QED
    BY <2>2, TxAssumption
<1>. HIDE DEF l
<1>7. CallEnds'
  BY <1>1 DEF CallEnds
<1>8. FramesPassed'
  BY <1>1, <1>2, <1>3 DEF FramesPassed
<1>9. Counted'
  <2>1. Counting' = Counting
    BY <1>1 DEF Counting, At
  <2>2. Cardinality(Counting) \in Nat /\ Total(Lists) \in Nat
    BY ListsType, TotalType, FS_CardinalityType DEF Counted
  <2>3. PendingNBs - 1 = (Total(Lists) - 1) - Cardinality(Counting)
    BY <2>2 DEF Counted
  <2>. QED
    BY <1>1, <1>2, <1>3, <2>1, <2>3 DEF Counted
<1>10. Completions'
  <2>1. \A k \in NBLs : k # l => nbCounter'[k] = nbCounter[k] /\ completions'[k] = completions[k]
    BY <1>1, <1>6 DEF TypeOK, ReleaseNB
  <2>2. \A k \in NBLs : k # l => (<<k, 1>> \in Frames(Lists') <=> <<k, 1>> \in Frames(Lists))
    BY <1>2, <1>6
  <2>3. ASSUME NBCount[l] = 1
        PROVE  OneNB(snd'[e], j, <<l, 1>> \in Frames(Lists'), nbCounter'[l], completions'[l])
    <3>1. f[2] = 1
      BY <1>6, <2>3
    <3>2. f = <<l, 1>> /\ Passed(snd[e], j, 1)
      BY <1>5, <1>6, <3>1
    <3>3. ~Fresh(snd[e], j) /\ ~Working(snd[e], j)
      <4>1. Len(e) \in Nat /\ j \in Nat
        BY ChainsType
      <4>2. snd[e].nbl \in Nat /\ snd[e].nb \in Nat
        BY DEF TypeOK
      <4>3. CASE j < snd[e].nbl
        BY <4>1, <4>2, <4>3 DEF Fresh, Working
      <4>4. CASE j = snd[e].nbl /\ (1 < snd[e].nb \/ snd[e].pc = "count")
        <5>1. snd[e].pc \in {"new", "alloc", "map", "fail"} => snd[e].nb \in 1 .. NBCount[e[j]]
          BY <4>4 DEF CallsInBounds, Nbl
        <5>2. snd[e].pc \notin {"new", "alloc", "map", "fail"}
          BY <1>5, <2>3, <4>2, <4>4, <5>1
        <5>. QED
          BY <4>2, <4>4, <5>2 DEF Fresh, Working
      <4>. QED
        BY <3>2, <4>3, <4>4 DEF Passed
    <3>4. OneNB(snd[e], j, <<l, 1>> \in Frames(Lists), nbCounter[l], completions[l])
      BY <1>5, <2>3 DEF Completions
    <3>5. nbCounter[l] = 1 /\ completions[l] = 0
      BY <1>2, <3>2, <3>3, <3>4 DEF OneNB
    <3>6. nbCounter'[l] = 0 /\ completions'[l] = 1
      BY <1>1, <1>6, <3>5 DEF TypeOK, ReleaseNB
    <3>7. <<l, 1>> \notin Frames(Lists')
      BY <1>2, <3>2
    <3>. QED
      BY <1>1, <3>3, <3>6, <3>7 DEF OneNB
  <2>4. ASSUME NEW c \in Calls, NEW k \in 1 .. Len(c), NBCount[c[k]] = 1
        PROVE  OneNB(snd'[c], k, <<c[k], 1>> \in Frames(Lists'), nbCounter'[c[k]], completions'[c[k]])
    <3>1. CASE c[k] = l
      <4>1. c = e /\ k = j
        BY <1>5, <3>1, ChainsType
      <4>. QED
        BY <1>5, <2>3, <2>4, <4>1
    <3>2. CASE c[k] # l
      <4>1. OneNB(snd[c], k, <<c[k], 1>> \in Frames(Lists), nbCounter[c[k]], completions[c[k]])
        BY <2>4 DEF Completions
      <4>2. c[k] \in NBLs
        BY ChainsType
      <4>. QED
        BY <1>1, <2>1, <2>2, <3>2, <4>1, <4>2
    <3>. QED
      BY <3>1, <3>2
  <2>5. ASSUME NEW k \in NBLs, \A c \in Calls : \A i \in 1 .. Len(c) : c[i] # k
        PROVE  completions'[k] = 0
    <3>1. k # l
      BY <1>5, <2>5
    <3>. QED
      BY <2>1, <2>5, <3>1 DEF Completions
  <2>. QED
    BY <1>3, <2>4, <2>5 DEF Completions
<1>. QED
  BY <1>3, <1>7, <1>8, <1>9, <1>10 DEF ListsInv

-----------------------------------------------------------------------------
\* Where the state machine does not find EnetDpc at work, the DPC's interrupts and
\* its list are those of a MAC that runs.
LEMMA EmptiedNext ==
  ASSUME "dpc" \notin Overlap, TypeOK, Emptied, [Next]_vars
  PROVE  Emptied'
<1>. unwinding \in [Unwinders -> Seq(NBs)] /\ "dpc" \in Unwinders /\ "sm" \in Unwinders
  BY DEF TypeOK, Unwinders
<1>1. CASE UNCHANGED <<status, unwinding, dpc>> /\ hw'.eir = hw.eir /\ sm'.pc = sm.pc
  BY <1>1 DEF Emptied, status
<1>2. ASSUME MpSendNextNB
      PROVE  hw'.eir = hw.eir
  BY <1>2 DEF MpSendNextNB, TxFill, TypeOK
<1>3. ASSUME NEW c \in Calls, CallStep(c) PROVE Emptied'
  <2>1. CASE KickSend(c)
    BY <1>1, <1>2, <2>1 DEF KickSend
  <2>2. CASE Send(c) \/ AllocTxBD(c) \/ MapNB(c) \/ CountNB(c) \/ FailNB(c)
    BY <1>1, <2>2 DEF Send, AllocTxBD, MapNB, CountNB, FailNB
  <2>. QED
    BY <1>3, <2>1, <2>2 DEF CallStep
<1>4. ASSUME NEW l \in NBLs, MpCancelSendNetBufferLists(l) PROVE Emptied'
  <2>1. /\ UNCHANGED <<status, dpc, sm, hw>>
        /\ unwinding'["dpc"] = unwinding["dpc"] /\ unwinding'["sm"] = unwinding["sm"]
    BY <1>4 DEF MpCancelSendNetBufferLists
  <2>. QED
    BY <2>1 DEF Emptied, status
<1>5. ASSUME NEW u \in Unwinders, MpTxUnwindNetBuffer(u) PROVE Emptied'
  <2>1. /\ UNCHANGED <<status, dpc, sm, hw>> /\ unwinding[u] # <<>>
        /\ \A v \in Unwinders : v # u => unwinding'[v] = unwinding[v]
    BY <1>5 DEF MpTxUnwindNetBuffer
  <2>2. (u = "dpc" => dpc = "unwind") /\ (u = "sm" => sm.pc = "unwind")
    BY <2>1 DEF Emptied
  <2>. QED
    BY <2>1, <2>2 DEF Emptied, status
<1>6. CASE HwTransmit
  <2>1. EnetStarted /\ UNCHANGED <<status, unwinding, dpc, sm>>
    BY <1>6 DEF HwTransmit
  <2>. QED
    BY <2>1 DEF Emptied, status
<1>7. CASE HwTxError
  <2>1. EnetStarted /\ UNCHANGED <<status, unwinding, dpc, sm>>
    BY <1>7 DEF HwTxError
  <2>. QED
    BY <2>1 DEF Emptied, status
<1>8. CASE EnetIsr \/ MpCheckForHangEx
  BY <1>1, <1>8 DEF EnetIsr, MpCheckForHangEx, TypeOK
<1>9. CASE EnetDpc
  <2>1. /\ dpc = "idle" /\ UNCHANGED <<status, unwinding, sm>>
        /\ dpc' = IF hw.eir THEN "scan" ELSE "enable"
        /\ ~hw'.eir
    BY <1>9 DEF EnetDpc, TypeOK
  <2>. QED
    BY <2>1 DEF Emptied, status
<1>10. CASE MpHandleTxInterrupt
  <2>1. PICK m \in 0 .. ItemCount :
        /\ Reap(m)
        /\ hw' = [hw EXCEPT !.tdar = hw.tdar \/ (SwExt'[PendingIdx'] # NULL /\ R[PendingIdx'])]
    BY <1>10 DEF MpHandleTxInterrupt
  <2>2. dpc = "scan" /\ dpc' = "unwind" /\ UNCHANGED <<status, sm>>
    BY <1>10 DEF MpHandleTxInterrupt
  <2>3. hw'.eir = hw.eir /\ unwinding'["sm"] = unwinding["sm"]
    BY <2>1 DEF Reap, TypeOK
  <2>. QED
    BY <2>2, <2>3 DEF Emptied, status
<1>11. CASE DpcSendNext
  <2>1. /\ unwinding["dpc"] = <<>> /\ dpc' = "enable" /\ UNCHANGED <<status, unwinding, sm>>
        /\ hw'.eir = hw.eir
    BY <1>2, <1>11 DEF DpcSendNext
  <2>. QED
    BY <2>1 DEF Emptied, status
<1>12. CASE DpcEnable
  <2>1. /\ dpc = "enable" /\ dpc' = "idle" /\ UNCHANGED <<status, unwinding, sm>>
        /\ hw'.eir = hw.eir
    BY <1>12 DEF DpcEnable, Unmask, TypeOK
  <2>. QED
    BY <2>1 DEF Emptied, status
<1>13. CASE EnetStart
  <2>1. EnetStarted' /\ UNCHANGED <<unwinding, dpc>> /\ sm'.pc = sm.pc
    BY <1>13 DEF EnetStart, TypeOK
  <2>. QED
    BY <2>1 DEF Emptied
<1>14. CASE EnetStop
  <2>1. dpc = "idle" /\ UNCHANGED <<unwinding, dpc>> /\ ~hw'.eir /\ sm.pc = "idle"
    BY <1>14 DEF EnetStop, DpcIdle, TypeOK
  <2>. QED
    BY <2>1 DEF Emptied
<1>15. CASE MpTxCancelAll
  <2>1. /\ UNCHANGED <<status, dpc, hw>> /\ unwinding'["dpc"] = unwinding["dpc"]
        /\ sm'.pc = "unwind"
    BY <1>15 DEF MpTxCancelAll, TakeAll, TypeOK
  <2>. QED
    BY <2>1 DEF Emptied, status
<1>16. CASE CancelDone
  <2>1. unwinding["sm"] = <<>> /\ UNCHANGED <<status, dpc, hw, unwinding>>
    BY <1>16 DEF CancelDone
  <2>. QED
    BY <2>1 DEF Emptied, status
<1>17. CASE PausingPoll
  <2>1. /\ UNCHANGED <<status, dpc, hw>> /\ unwinding'["dpc"] = unwinding["dpc"]
        /\ unwinding'["sm"] = dmaQ \o mpQ
        /\ sm' = IF NothingQueued THEN [sm EXCEPT !.paused = TRUE] ELSE [sm EXCEPT !.pc = "unwind"]
    BY <1>17 DEF PausingPoll, TakeAll
  <2>2. sm'.pc = "unwind" \/ unwinding'["sm"] = <<>>
    <3>1. CASE NothingQueued
      BY <2>1, <3>1 DEF NothingQueued
    <3>2. CASE ~NothingQueued
      BY <2>1, <3>2 DEF TypeOK
    <3>. QED
      BY <3>1, <3>2
  <2>. QED
    BY <2>1, <2>2 DEF Emptied, status
<1>18. CASE UNCHANGED vars
  BY <1>1, <1>18 DEF vars
<1>19. CASE DpcStep
  BY <1>5, <1>9, <1>10, <1>11, <1>12, <1>19 DEF DpcStep
<1>20. CASE SmStep
  BY <1>5, <1>15, <1>16, <1>20 DEF SmStep
<1>21. CASE Next
  BY <1>3, <1>4, <1>5, <1>6, <1>7, <1>8, <1>13, <1>14, <1>17, <1>19, <1>20, <1>21 DEF Next, Unwinders
<1>. QED
  BY <1>18, <1>21

\* Initially all lists are empty and every NBL is fresh.
LEMMA FrameInit == Init => FrameInv
<1>. SUFFICES ASSUME Init PROVE FrameInv
  OBVIOUS
<1>1. TypeOK
  BY InitInv DEF Inv
<1>2. \A p \in Places : Lists[p] = <<>>
  BY DEF Init, Lists, Places, Unwinders
<1>3. Range(<<>>) = {} /\ Len(<<>>) = 0 /\ IsInjective(<<>>)
  BY DEF Range, IsInjective
<1>4. Apart(Lists) /\ Frames(Lists) = {}
  BY <1>2, <1>3 DEF Apart, Frames
<1>5. Total(Lists) = 0
  <2>1. \A p \in Places : Len(Lists[p]) = 0
    BY <1>2, <1>3
  <2>2. 0 + 0 + 0 + 0 + 0 = 0
    OBVIOUS
  <2>. QED
    BY <2>1, <2>2 DEF Total, Places
<1>6. Emptied
  BY DEF Init, Emptied, Unwinders
<1>7. CallEnds
  BY DEF Init, CallEnds
<1>8. FramesPassed
  BY <1>4 DEF FramesPassed
<1>9. Counted
  <2>1. Counting = {}
    BY DEF Init, Counting, At
  <2>2. PendingNBs = 0
    BY DEF Init
  <2>. QED
    BY <1>5, <2>1, <2>2, FS_EmptySet DEF Counted
<1>10. Completions
  <2>1. ASSUME NEW c \in Calls, NEW j \in 1 .. Len(c)
        PROVE  Fresh(snd[c], j) /\ nbCounter[c[j]] = 0 /\ completions[c[j]] = 0
    <3>1. j \in Nat /\ 1 <= j /\ c[j] \in NBLs
      BY ChainsType
    <3>. QED
      BY <3>1 DEF Init, Fresh
  <2>2. \A l \in NBLs : completions[l] = 0
    BY DEF Init
  <2>. QED
    BY <2>1, <2>2 DEF Completions, OneNB
<1>. QED
  BY <1>4, <1>6, <1>7, <1>8, <1>9, <1>10 DEF FrameInv, ListsInv

\* Each step keeps the invariant of the lists.
LEMMA FrameNext ==
  ASSUME "dpc" \notin Overlap, Inv, Inv', RingInv, FrameInv, [Next]_vars
  PROVE  FrameInv'
<1>. /\ TypeOK /\ TypeOK' /\ Emptied /\ Apart(Lists) /\ CallEnds /\ FramesPassed /\ Counted
     /\ Completions
  BY DEF Inv, FrameInv, ListsInv
<1>. SUFFICES ListsInv'
  BY EmptiedNext DEF FrameInv
<1>1. CASE Kept /\ UNCHANGED <<snd, nbls, PendingNBs>>
  BY <1>1, FrameKept
<1>2. ASSUME UNCHANGED <<queues, unwinding, snd, nbls, PendingNBs>> PROVE ListsInv'
  BY <1>1, <1>2, KeptSame
<1>3. ASSUME NEW c \in Calls, CallStep(c) PROVE ListsInv'
  <2>1. CASE KickSend(c)
    <3>1. Kept
      BY <2>1, KeptFill DEF KickSend
    <3>. QED
      BY <2>1, <3>1, FrameKick
  <2>. QED
    BY <1>3, <2>1, FrameSend, FrameAlloc, FrameMap, FrameCount, FrameFail DEF CallStep
<1>4. ASSUME NEW l \in NBLs, MpCancelSendNetBufferLists(l) PROVE ListsInv'
  BY <1>1, <1>4, KeptCancel DEF MpCancelSendNetBufferLists
<1>5. ASSUME NEW u \in Unwinders, MpTxUnwindNetBuffer(u) PROVE ListsInv'
  BY <1>5, FrameUnwind
<1>6. CASE HwTransmit \/ HwTxError \/ EnetIsr \/ MpCheckForHangEx \/ EnetStart \/ EnetStop
  BY <1>2, <1>6 DEF HwTransmit, HwTxError, EnetIsr, MpCheckForHangEx, EnetStart, EnetStop
<1>7. CASE EnetDpc \/ DpcEnable \/ CancelDone
  BY <1>2, <1>7 DEF EnetDpc, DpcEnable, CancelDone
<1>8. CASE MpHandleTxInterrupt
  BY <1>1, <1>8, KeptReap DEF MpHandleTxInterrupt
<1>9. CASE DpcSendNext
  BY <1>1, <1>9, KeptFill DEF DpcSendNext
<1>10. CASE MpTxCancelAll \/ PausingPoll
  <2>1. TakeAll /\ sm.pc # "unwind" /\ UNCHANGED <<snd, nbls, PendingNBs>>
    BY <1>10 DEF MpTxCancelAll, PausingPoll
  <2>2. unwinding["sm"] = <<>>
    BY <2>1 DEF Emptied
  <2>. QED
    BY <1>1, <2>1, <2>2, KeptTakeAll
<1>11. CASE UNCHANGED vars
  BY <1>2, <1>11 DEF vars
<1>12. CASE DpcStep
  BY <1>5, <1>7, <1>8, <1>9, <1>12 DEF DpcStep, Unwinders
<1>13. CASE SmStep
  BY <1>5, <1>7, <1>10, <1>13 DEF SmStep, Unwinders
<1>14. CASE Next
  BY <1>3, <1>4, <1>5, <1>6, <1>10, <1>12, <1>13, <1>14 DEF Next, Unwinders
<1>. QED
  BY <1>11, <1>14

\* The invariant of the lists holds in every behaviour.
LEMMA FrameInvariance ==
  ASSUME "dpc" \notin Overlap, "stale" \notin Overlap
  PROVE  Spec => [](Inv /\ RingInv /\ FrameInv)
<1>1. Init => Inv /\ RingInv /\ FrameInv
  BY InitInv, RingInit, FrameInit
<1>2. Inv /\ RingInv /\ FrameInv /\ [Next]_vars => (Inv /\ RingInv /\ FrameInv)'
  BY NextInv, RingNext, FrameNext
<1>. QED
  BY <1>1, <1>2, PTL DEF Spec

\* Where EnetStop and EnetStart find EnetDpc idle, and EnetStart no slot with a frame
\* that a stop cancelled, no frame of an MP_TX_BD is ever linked twice, whatever NDIS
\* sends and cancels, and Tx_PendingNBs counts the frames that are linked.
THEOREM OnePlace ==
  ASSUME "dpc" \notin Overlap, "stale" \notin Overlap
  PROVE  Spec => []FrameInOnePlace
<1>1. Inv /\ RingInv /\ FrameInv => FrameInOnePlace
  BY HeldAre DEF Inv, FrameInv, ListsInv, Counted, Counting, FrameInOnePlace
<1>. QED
  BY <1>1, FrameInvariance, PTL

\* There, an NBL of one frame goes back to NDIS at most once, when the driver has
\* finished with it, for any calls, chains and NBLs.
THEOREM CompletesOnce ==
  ASSUME "dpc" \notin Overlap, "stale" \notin Overlap
  PROVE  Spec => []CompletedOnce
<1>1. ASSUME Inv, FrameInv PROVE CompletedOnce
  <2>. TypeOK /\ CallsInBounds /\ Completions /\ Apart(Lists)
    BY <1>1 DEF Inv, FrameInv, ListsInv
  <2>. SUFFICES ASSUME NEW l \in NBLs, NBCount[l] = 1, completions[l] > 0
                PROVE  /\ completions[l] = 1 /\ <<l, 1>> \notin Held
                       /\ \A c \in Calls : ~(snd[c].pc \in {"map", "fail"} /\ Nbl(c) = l)
    BY DEF CompletedOnce
  <2>1. completions[l] # 0
    BY DEF TypeOK
  <2>2. PICK e \in Calls : \E k \in 1 .. Len(e) : e[k] = l
    BY <2>1 DEF Completions
  <2>3. PICK k \in 1 .. Len(e) : e[k] = l
    BY <2>2
  <2>4. OneNB(snd[e], k, <<l, 1>> \in Frames(Lists), nbCounter[l], completions[l])
    BY <2>3 DEF Completions
  <2>5. completions[l] = 1 /\ ~Working(snd[e], k) /\ <<l, 1>> \notin Frames(Lists)
    BY <2>1, <2>4 DEF OneNB
  <2>6. ASSUME NEW c \in Calls, snd[c].pc \in {"map", "fail"}, Nbl(c) = l
        PROVE  FALSE
    <3>1. snd[c].nbl \in 1 .. Len(c) /\ c[snd[c].nbl] = l
      BY <2>6 DEF CallsInBounds, Nbl
    <3>2. c = e /\ snd[c].nbl = k
      BY <2>3, <3>1, ChainsType
    <3>. QED
      BY <2>5, <2>6, <3>2 DEF Working
  <2>7. <<l, 1>> \notin Held
    BY <2>5, HeldAre
  <2>. QED
    BY <2>5, <2>6, <2>7
<1>2. Inv /\ RingInv /\ FrameInv => CompletedOnce
  BY <1>1
<1>. QED
  BY <1>2, FrameInvariance, PTL
=============================================================================
