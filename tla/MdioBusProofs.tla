---------------------------- MODULE MdioBusProofs ---------------------------
(***************************************************************************)
(* The MDIO bus, for any number of adapters, PHY addresses, frames per     *)
(* device and lengths of commands: the reference count is the number of    *)
(* handles, and no device loses a frame.  All of it assumes that adapters  *)
(* come and go one at a time and that the controller's registers can be    *)
(* mapped (Overlap).                                                       *)
(***************************************************************************)
EXTENDS MdioBus, SequenceTheorems, FiniteSetTheorems, TLAPS

-----------------------------------------------------------------------------
(* The inductive invariant.                                                *)

\* The objects, with their fields.
BusObject == [listed : BOOLEAN, refs : Nat, first : Seq(Devices), active : Devices \cup {NULL},
              inProgress : BOOLEAN, event : BOOLEAN, timer : {"off", "set", "signaled"},
              kill : BOOLEAN]
ThreadObject == [pc : {"none", "wait", "callback", "scan", "rearm"}, dev : Devices \cup {NULL},
                 start : Devices \cup {NULL}, last : BOOLEAN]
Controller == [mii : BOOLEAN, mmfr : Devices \cup {NULL}, busy : BOOLEAN]
Types ==
  /\ address \in [Devices -> Addresses]
  /\ adapter \in [Devices -> {"out", "create", "link", "add", "in", "close", "stop"}]
  /\ at \in [Devices -> Buses \cup {NULL}]
  /\ free \in [Devices -> 0 .. FrameCount] /\ pending \in [Devices -> Seq(BOOLEAN)]
  /\ CmdPending \in [Devices -> BOOLEAN] /\ engine \in [Devices -> Reads \cup {0}]
  /\ bus \in [Buses -> BusObject] /\ thread \in [Buses -> ThreadObject] /\ hw \in Controller

\* One adapter at a time comes or goes; the ones that create or free the bus are alone.
Resting(d) == adapter[d] \in {"out", "in"}
OneMoves ==
  \A d, e \in Devices : d # e =>
    /\ Resting(d) \/ Resting(e)
    /\ adapter[d] \in {"create", "link", "stop"} => adapter[e] = "out"

\* Who has a handle, and that there is one bus.
Handles ==
  /\ \A d \in Devices : at[d] = NULL <=> adapter[d] \in {"out", "create"}
  /\ \A d, e \in Devices : at[d] # NULL /\ at[e] # NULL => at[d] = at[e]
  /\ \A d \in Devices : adapter[d] = "link" => at[d] = d
  /\ \A b \in Buses : bus[b].refs = Cardinality(HandlesOf(b))

\* A bus that somebody holds has a thread, until it is told to end; one that nobody
\* holds is not there.
BusLives ==
  \A b \in Buses :
    /\ \A d \in Devices : at[d] = b =>
         /\ bus[b].listed <=> adapter[d] # "link"
         /\ bus[b].kill <=> adapter[d] = "stop"
         /\ adapter[d] # "stop" => thread[b].pc # "none"
    /\ (\A d \in Devices : at[d] # b) => bus[b] = NoBus /\ thread[b].pc = "none"

\* The list of a bus holds the adapters that are in, each once; the active device and
\* the ones the thread deals with are in the list.
Listed ==
  \A b \in Buses :
    /\ IsInjective(bus[b].first)
    /\ ToSet(bus[b].first) = {d \in Devices : at[d] = b /\ adapter[d] = "in"}
    /\ bus[b].active \in ToSet(bus[b].first) \cup {NULL}
    /\ thread[b].pc \in {"callback", "scan"} =>
         {thread[b].dev, thread[b].start} \subseteq ToSet(bus[b].first)
    /\ thread[b].pc = "callback" => bus[b].active = thread[b].dev

\* The frames of a device whose adapter is in, and the command they belong to.
Told(d) == thread[at[d]].pc = "callback" /\ thread[at[d]].dev = d /\ thread[at[d]].last
Commands ==
  \A d \in Devices :
    /\ adapter[d] \in {"create", "link", "add"} =>
         free[d] = FrameCount /\ pending[d] = <<>> /\ ~CmdPending[d]
    /\ adapter[d] # "in" => engine[d] = 0
    /\ adapter[d] = "in" =>
         /\ free[d] + Len(pending[d]) = FrameCount
         /\ ~CmdPending[d] => pending[d] = <<>> /\ engine[d] = 0 /\ ~Told(d)
         /\ Told(d) => pending[d] = <<>> /\ engine[d] = 0
         /\ engine[d] > 0 => engine[d] <= free[d]
         /\ \A i \in 1 .. Len(pending[d]) : pending[d][i] => i = Len(pending[d]) /\ engine[d] = 0

Inv ==
  /\ Types /\ OneMoves /\ Handles /\ BusLives /\ Listed /\ Commands

-----------------------------------------------------------------------------
(* Lists.                                                                  *)

\* A list has its elements at 1 to its length.
LEMMA ListType ==
  ASSUME NEW B, NEW s \in Seq(B)
  PROVE  /\ Len(s) \in Nat /\ DOMAIN s = 1 .. Len(s)
         /\ \A i \in 1 .. Len(s) : s[i] \in B
         /\ ToSet(s) \subseteq B /\ (s = <<>> <=> ToSet(s) = {})
         /\ s # <<>> => s[1] \in ToSet(s) /\ 1 \in 1 .. Len(s)
<1>1. /\ Len(s) \in Nat /\ DOMAIN s = 1 .. Len(s)
      /\ \A i \in 1 .. Len(s) : s[i] \in B
  OBVIOUS
<1>2. ToSet(s) \subseteq B
  BY <1>1 DEF ToSet
<1>3. s # <<>> => s[1] \in ToSet(s) /\ 1 \in 1 .. Len(s)
  <2>1. s # <<>> => Len(s) # 0
    BY EmptySeq
  <2>2. s # <<>> => 1 \in 1 .. Len(s)
    BY <1>1, <2>1
  <2>. QED
    BY <1>1, <2>2 DEF ToSet
<1>4. s = <<>> => ToSet(s) = {}
  BY DEF ToSet
<1>. QED
  BY <1>1, <1>2, <1>3, <1>4

\* A device in front of the others.
LEMMA AddedList ==
  ASSUME NEW B, NEW s \in Seq(B), IsInjective(s), NEW d \in B, d \notin ToSet(s)
  PROVE  /\ <<d>> \o s \in Seq(B) /\ IsInjective(<<d>> \o s)
         /\ ToSet(<<d>> \o s) = ToSet(s) \cup {d}
<1>. DEFINE t == <<d>> \o s
            n == Len(s)
<1>1. n \in Nat /\ DOMAIN s = 1 .. n
  BY ListType
<1>2. /\ t \in Seq(B) /\ Len(t) = 1 + n /\ DOMAIN t = 1 .. 1 + n /\ t[1] = d
      /\ \A i \in 2 .. 1 + n : t[i] = s[i - 1]
  BY <1>1
<1>. HIDE DEF t, n
<1>3. /\ \A i \in 1 .. 1 + n : i = 1 \/ (i \in 2 .. 1 + n /\ i - 1 \in 1 .. n)
      /\ \A i \in 1 .. n : i + 1 \in 2 .. 1 + n /\ (i + 1) - 1 = i /\ i + 1 \in 1 .. 1 + n
      /\ 1 \in 1 .. 1 + n
  BY <1>1
<1>4. \A i \in 2 .. 1 + n : t[i] \in ToSet(s) /\ i \in 1 .. 1 + n /\ i - 1 \in 1 .. n
  <2>1. \A i \in 2 .. 1 + n : i - 1 \in 1 .. n /\ i \in 1 .. 1 + n
    BY <1>1
  <2>. QED
    BY <1>1, <1>2, <2>1 DEF ToSet
<1>5. IsInjective(t)
  <2>. SUFFICES ASSUME NEW i \in 1 .. 1 + n, NEW j \in 1 .. 1 + n, t[i] = t[j]
                PROVE  i = j
    BY <1>2 DEF IsInjective
  <2>1. CASE i = 1 \/ j = 1
    BY <1>2, <1>3, <1>4, <2>1
  <2>2. CASE i \in 2 .. 1 + n /\ j \in 2 .. 1 + n
    <3>1. i - 1 \in DOMAIN s /\ j - 1 \in DOMAIN s /\ s[i - 1] = s[j - 1]
      BY <1>1, <1>2, <1>4, <2>2
    <3>2. i - 1 = j - 1
      BY <3>1, Zenon DEF IsInjective
    <3>. QED
      BY <1>1, <2>2, <3>2
  <2>. QED
    BY <1>3, <2>1, <2>2
<1>6. ToSet(t) = ToSet(s) \cup {d}
  <2>1. ASSUME NEW i \in 1 .. 1 + n PROVE t[i] \in ToSet(s) \cup {d}
    BY <1>2, <1>3, <1>4
  <2>2. ASSUME NEW i \in 1 .. n PROVE s[i] \in ToSet(t)
    <3>1. t[i + 1] = s[i] /\ i + 1 \in DOMAIN t
      BY <1>2, <1>3
    <3>. QED
      BY <3>1 DEF ToSet
  <2>3. d \in ToSet(t)
    BY <1>2, <1>3 DEF ToSet
  <2>4. ToSet(t) \subseteq ToSet(s) \cup {d}
    BY <1>2, <2>1 DEF ToSet
  <2>5. ToSet(s) \subseteq ToSet(t)
    BY <1>1, <2>2 DEF ToSet
  <2>. QED
    BY <2>3, <2>4, <2>5
<1>. QED
  BY <1>2, <1>5, <1>6 DEF t

\* One device less.
LEMMA RemovedList ==
  ASSUME NEW B, NEW s \in Seq(B), IsInjective(s), NEW k \in 1 .. Len(s)
  PROVE  /\ RemoveAt(s, k) \in Seq(B) /\ IsInjective(RemoveAt(s, k))
         /\ ToSet(RemoveAt(s, k)) = ToSet(s) \ {s[k]}
<1>. DEFINE t == RemoveAt(s, k)
            n == Len(s)
            a == SubSeq(s, 1, k - 1)
            c == SubSeq(s, k + 1, n)
            at0(i) == IF i < k THEN i ELSE i + 1
<1>1. n \in Nat /\ DOMAIN s = 1 .. n /\ k \in Nat /\ 1 <= k /\ k <= n
      /\ \A i \in 1 .. n : s[i] \in B
  BY ListType
<1>2. /\ a \in Seq(B) /\ Len(a) = k - 1 /\ \A i \in 1 .. k - 1 : a[i] = s[i]
  BY <1>1
<1>3. /\ c \in Seq(B) /\ Len(c) = n - k /\ \A i \in 1 .. n - k : c[i] = s[k + i]
  <2>1. k + 1 \in Int /\ n \in Int /\ \A i \in k + 1 .. n : s[i] \in B
    BY <1>1
  <2>2. c \in Seq(B)
    BY <1>1
  <2>3. Len(c) = n - k
    <3>1. Len(c) = IF k + 1 <= n THEN n - (k + 1) + 1 ELSE 0
      BY <1>1, <2>1, SubSeqProperties
    <3>. HIDE DEF c, n
    <3>. QED
      BY <1>1, <3>1
  <2>4. ASSUME NEW i \in 1 .. n - k PROVE c[i] = s[k + i]
    BY <1>1
  <2>. QED
    BY <2>2, <2>3, <2>4
<1>4. t = a \o c
  BY DEF RemoveAt
<1>. HIDE DEF a, c, n, t
<1>5. /\ t \in Seq(B) /\ Len(t) = n - 1 /\ DOMAIN t = 1 .. n - 1
      /\ \A i \in 1 .. n - 1 : t[i] = s[at0(i)]
  <2>1. t \in Seq(B) /\ Len(t) = (k - 1) + (n - k)
    <3>1. a \in Seq(B) /\ c \in Seq(B)
      BY <1>2, <1>3
    <3>2. a \o c \in Seq(B) /\ Len(a \o c) = Len(a) + Len(c)
      BY <3>1, ConcatProperties
    <3>. QED
      BY <1>2, <1>3, <1>4, <3>2
  <2>2. Len(t) = n - 1
    BY <1>1, <2>1
  <2>3. DOMAIN t = 1 .. n - 1
    BY <2>1, <2>2, LenProperties
  <2>4. ASSUME NEW i \in 1 .. n - 1 PROVE t[i] = s[at0(i)]
    <3>1. CASE i < k
      <4>1. i \in 1 .. k - 1 /\ i \in 1 .. Len(a)
        BY <1>1, <1>2, <3>1
      <4>2. t[i] = a[i]
        BY <1>2, <1>3, <1>4, <4>1, ConcatProperties
      <4>. QED
        BY <1>2, <3>1, <4>1, <4>2
    <3>2. CASE ~(i < k)
      <4>1. i - (k - 1) \in 1 .. n - k /\ k + (i - (k - 1)) = i + 1
            /\ i \in Len(a) + 1 .. Len(a) + Len(c)
        BY <1>1, <1>2, <1>3, <3>2
      <4>2. t[i] = c[i - Len(a)]
        BY <1>2, <1>3, <1>4, <4>1, ConcatProperties
      <4>. QED
        BY <1>2, <1>3, <3>2, <4>1, <4>2
    <3>. QED
      BY <3>1, <3>2
  <2>. QED
    BY <2>1, <2>2, <2>3, <2>4
<1>6. \A i \in 1 .. n - 1 : at0(i) \in 1 .. n /\ at0(i) # k
  BY <1>1
<1>7. \A i, j \in 1 .. n - 1 : at0(i) = at0(j) => i = j
  BY <1>1
<1>8. \A j \in 1 .. n : j # k => \E i \in 1 .. n - 1 : at0(i) = j
  <2>. SUFFICES ASSUME NEW j \in 1 .. n, j # k PROVE \E i \in 1 .. n - 1 : at0(i) = j
    OBVIOUS
  <2>1. CASE j < k
    <3>1. j \in 1 .. n - 1 /\ at0(j) = j
      BY <1>1, <2>1
    <3>. QED
      BY <3>1
  <2>2. CASE ~(j < k)
    <3>1. j - 1 \in 1 .. n - 1 /\ at0(j - 1) = j
      BY <1>1, <2>2
    <3>. QED
      BY <3>1
  <2>. QED
    BY <2>1, <2>2
<1>. HIDE DEF at0
<1>9. IsInjective(t)
  <2>. SUFFICES ASSUME NEW i \in 1 .. n - 1, NEW j \in 1 .. n - 1, t[i] = t[j]
                PROVE  i = j
    BY <1>5 DEF IsInjective
  <2>1. at0(i) \in DOMAIN s /\ at0(j) \in DOMAIN s /\ s[at0(i)] = s[at0(j)]
    BY <1>1, <1>5, <1>6
  <2>2. at0(i) = at0(j)
    BY <2>1, Zenon DEF IsInjective
  <2>. QED
    BY <1>7, <2>2
<1>10. ToSet(t) = ToSet(s) \ {s[k]}
  <2>1. ASSUME NEW i \in 1 .. n - 1 PROVE t[i] \in ToSet(s) /\ t[i] # s[k]
    <3>1. at0(i) \in DOMAIN s /\ k \in DOMAIN s /\ at0(i) # k /\ t[i] = s[at0(i)]
      BY <1>1, <1>5, <1>6
    <3>2. s[at0(i)] # s[k]
      BY <3>1, Zenon DEF IsInjective
    <3>. QED
      BY <3>1, <3>2 DEF ToSet
  <2>2. ASSUME NEW j \in 1 .. n, s[j] # s[k] PROVE s[j] \in ToSet(t)
    <3>1. PICK i \in 1 .. n - 1 : at0(i) = j
      BY <1>8, <2>2
    <3>2. t[i] = s[j] /\ i \in DOMAIN t
      BY <1>5, <3>1
    <3>. QED
      BY <3>2 DEF ToSet
  <2>3. ToSet(t) \subseteq ToSet(s) \ {s[k]}
    BY <1>5, <2>1 DEF ToSet
  <2>4. ToSet(s) \ {s[k]} \subseteq ToSet(t)
    BY <1>1, <2>2 DEF ToSet
  <2>. QED
    BY <2>3, <2>4
<1>. QED
  BY <1>5, <1>9, <1>10 DEF t

\* The place of a device in the list of its bus, and the next device.
LEMMA PlaceInList ==
  ASSUME NEW b, bus[b].first \in Seq(Devices), NEW d \in ToSet(bus[b].first)
  PROVE  /\ Place(b, d) \in 1 .. Len(bus[b].first) /\ bus[b].first[Place(b, d)] = d
         /\ NextDevice(b, d) \in ToSet(bus[b].first) \cup {NULL}
         /\ bus[b].first[1] \in ToSet(bus[b].first)
<1>. DEFINE s == bus[b].first
            i == Place(b, d)
<1>1. Len(s) \in Nat /\ DOMAIN s = 1 .. Len(s)
  BY ListType
<1>2. \E j \in DOMAIN s : s[j] = d
  BY DEF ToSet
<1>3. i \in DOMAIN s /\ s[i] = d
  BY <1>2 DEF Place
<1>4. i < Len(s) => i + 1 \in DOMAIN s
  BY <1>1, <1>3
<1>5. NextDevice(b, d) \in ToSet(s) \cup {NULL}
  BY <1>4 DEF NextDevice, ToSet
<1>6. 1 \in DOMAIN s
  BY <1>1, <1>3
<1>. QED
  BY <1>1, <1>3, <1>5, <1>6 DEF ToSet

-----------------------------------------------------------------------------
(* The thread and the controller.                                          *)

\* A bus with a thread or a timer is held by an adapter; all adapters hold the same one.
LEMMA HeldBus ==
  ASSUME Inv, NEW b \in Buses, thread[b].pc # "none" \/ bus[b].timer # "off" \/ bus[b].listed
  PROVE  \E d \in Devices : at[d] = b
  BY DEF Inv, BusLives, NoBus

\* All adapters that have a bus have the same one.
LEMMA OneBus ==
  ASSUME Inv, NEW d \in Devices, NEW e \in Devices, NEW b \in Buses, at[d] = b
  PROVE  at[e] = b \/ at[e] = NULL
  BY MdioAssumption DEF Inv, Handles, Buses

\* The active device, and those the thread deals with, are adapters that are in.
LEMMA InList ==
  ASSUME Inv, NEW b \in Buses, NEW d \in ToSet(bus[b].first)
  PROVE  d \in Devices /\ at[d] = b /\ adapter[d] = "in" /\ d # NULL
  BY MdioAssumption DEF Inv, Listed

\* A step of a bus that somebody holds: nobody comes or goes, and the list stays.
BusStep(b) ==
  /\ \E d \in Devices : at[d] = b
  /\ UNCHANGED devs
  /\ bus' \in [Buses -> BusObject] /\ thread' \in [Buses -> ThreadObject]
  /\ \A c \in Buses \ {b} : bus'[c] = bus[c] /\ thread'[c] = thread[c]
  /\ bus'[b].listed = bus[b].listed /\ bus'[b].refs = bus[b].refs
  /\ bus'[b].first = bus[b].first /\ bus'[b].kill = bus[b].kill
  /\ bus'[b].active \in ToSet(bus[b].first) \cup {NULL}
  /\ thread'[b].pc = "none" => bus[b].kill
  /\ thread'[b].pc \in {"callback", "scan"} =>
       {thread'[b].dev, thread'[b].start} \subseteq ToSet(bus[b].first)
  /\ thread'[b].pc = "callback" => bus'[b].active = thread'[b].dev

\* A step of a bus's thread leaves adapters, handles and the list of devices alone.
LEMMA BusStepKeeps ==
  ASSUME Inv, NEW b \in Buses, BusStep(b)
  PROVE  OneMoves' /\ Handles' /\ BusLives' /\ Listed'
<1>1. UNCHANGED <<address, adapter, at>>
  BY DEF BusStep, devs
<1>2. OneMoves'
  BY <1>1 DEF Inv, OneMoves, Resting
<1>3. \A c \in Buses : bus'[c].refs = bus[c].refs /\ bus'[c].first = bus[c].first
                       /\ bus'[c].listed = bus[c].listed /\ bus'[c].kill = bus[c].kill
  BY DEF BusStep
<1>4. \A c \in Buses : HandlesOf(c)' = HandlesOf(c)
  BY <1>1 DEF HandlesOf
<1>5. Handles'
  BY <1>1, <1>3, <1>4 DEF Inv, Handles
<1>6. BusLives'
  <2>. SUFFICES ASSUME NEW c \in Buses
                PROVE  /\ \A d \in Devices : at[d] = c =>
                            /\ bus'[c].listed <=> adapter[d] # "link"
                            /\ bus'[c].kill <=> adapter[d] = "stop"
                            /\ adapter[d] # "stop" => thread'[c].pc # "none"
                       /\ (\A d \in Devices : at[d] # c) =>
                            bus'[c] = NoBus /\ thread'[c].pc = "none"
    BY <1>1 DEF BusLives
  <2>1. /\ \A d \in Devices : at[d] = c =>
             /\ bus[c].listed <=> adapter[d] # "link"
             /\ bus[c].kill <=> adapter[d] = "stop"
             /\ adapter[d] # "stop" => thread[c].pc # "none"
        /\ (\A d \in Devices : at[d] # c) => bus[c] = NoBus /\ thread[c].pc = "none"
    BY DEF Inv, BusLives
  <2>2. CASE c = b
    <3>1. \E d \in Devices : at[d] = c
      BY <2>2 DEF BusStep
    <3>2. thread'[c].pc = "none" => bus[c].kill
      BY <2>2 DEF BusStep
    <3>. QED
      BY <1>3, <2>1, <3>1, <3>2
  <2>3. CASE c # b
    <3>1. bus'[c] = bus[c] /\ thread'[c] = thread[c]
      BY <2>3 DEF BusStep
    <3>. QED
      BY <2>1, <3>1
  <2>. QED
    BY <2>2, <2>3
<1>7. Listed'
  <2>. SUFFICES ASSUME NEW c \in Buses
                PROVE  /\ bus'[c].active \in ToSet(bus[c].first) \cup {NULL}
                       /\ thread'[c].pc \in {"callback", "scan"} =>
                            {thread'[c].dev, thread'[c].start} \subseteq ToSet(bus[c].first)
                       /\ thread'[c].pc = "callback" => bus'[c].active = thread'[c].dev
    BY <1>1, <1>3 DEF Inv, Listed
  <2>1. CASE c = b
    BY <2>1 DEF BusStep
  <2>2. CASE c # b
    <3>1. bus'[c] = bus[c] /\ thread'[c] = thread[c]
      BY <2>2 DEF BusStep
    <3>. QED
      BY <3>1 DEF Inv, Listed
  <2>. QED
    BY <2>1, <2>2
<1>. QED
  BY <1>2, <1>5, <1>6, <1>7

\* The command of a device goes on as before unless the device is told of its end.
LEMMA CommandsKept ==
  ASSUME Inv, UNCHANGED <<adapter, free, pending, CmdPending, engine>>,
         \A d \in Devices : adapter[d] = "in" /\ Told(d)' => Told(d)
  PROVE  Commands'
  BY DEF Inv, Commands

\* Nobody is told of anything when the thread is not about to call back.
LEMMA NotTold ==
  ASSUME Inv, NEW b \in Buses, BusStep(b), thread'[b].pc # "callback"
  PROVE  \A d \in Devices : adapter[d] = "in" /\ Told(d)' => Told(d)
<1>. SUFFICES ASSUME NEW d \in Devices, adapter[d] = "in", Told(d)'
              PROVE  Told(d)
  OBVIOUS
<1>1. at' = at
  BY DEF BusStep, devs
<1>2. at[d] \in Buses
  BY DEF Inv, Types, Handles
<1>3. CASE at[d] = b
  BY <1>1, <1>3 DEF Told
<1>4. CASE at[d] # b
  <2>1. thread'[at[d]] = thread[at[d]]
    BY <1>2, <1>4 DEF BusStep
  <2>. QED
    BY <1>1, <2>1 DEF Told
<1>. QED
  BY <1>3, <1>4

\* KillThread, RearmTimer and TimerExpires: the thread's and the timer's states.
LEMMA TimerSteps ==
  ASSUME Inv, NEW b \in Buses, KillThread(b) \/ RearmTimer(b) \/ TimerExpires(b)
  PROVE  Inv'
<1>1. bus \in [Buses -> BusObject] /\ thread \in [Buses -> ThreadObject]
  BY DEF Inv, Types
<1>2. \E d \in Devices : at[d] = b
  <2>1. thread[b].pc # "none" \/ bus[b].timer # "off"
    BY DEF KillThread, RearmTimer, TimerExpires, Thread
  <2>. QED
    BY <2>1, HeldBus
<1>3. PICK t \in {"off", "set", "signaled"} : bus' = [bus EXCEPT ![b].timer = t]
  BY <1>1 DEF KillThread, RearmTimer, TimerExpires, BusObject
<1>4. /\ bus' \in [Buses -> BusObject] /\ \A c \in Buses \ {b} : bus'[c] = bus[c]
      /\ bus'[b] = [bus[b] EXCEPT !.timer = t]
  BY <1>1, <1>3, ZenonT(60) DEF BusObject
<1>5. /\ bus'[b].listed = bus[b].listed /\ bus'[b].refs = bus[b].refs
      /\ bus'[b].first = bus[b].first /\ bus'[b].kill = bus[b].kill
      /\ bus'[b].active = bus[b].active /\ bus'[b].inProgress = bus[b].inProgress
  BY <1>1, <1>4 DEF BusObject
<1>6. /\ UNCHANGED <<devs, lists, engine, hw>>
      /\ \A c \in Buses \ {b} : thread'[c] = thread[c]
      /\ thread' \in [Buses -> ThreadObject]
      /\ thread'[b].pc \in {"callback", "scan"} => thread'[b] = thread[b]
      /\ thread'[b].pc = "none" => bus[b].kill \/ thread[b].pc = "none"
  <2>1. CASE KillThread(b)
    BY <1>1, <2>1 DEF KillThread, Thread, ThreadObject
  <2>2. CASE RearmTimer(b)
    BY <1>1, <2>2 DEF RearmTimer, Thread, ThreadObject
  <2>3. CASE TimerExpires(b)
    BY <1>1, <2>3 DEF TimerExpires
  <2>. QED
    BY <2>1, <2>2, <2>3
<1>7. thread[b].pc = "none" => bus[b].kill
  BY <1>2 DEF Inv, BusLives
<1>8. BusStep(b)
  BY <1>2, <1>4, <1>5, <1>6, <1>7 DEF BusStep, Inv, Listed
<1>10. Commands'
  <2>1. \A d \in Devices : adapter[d] = "in" /\ Told(d)' => Told(d)
    <3>1. CASE thread'[b].pc # "callback"
      BY <1>8, <3>1, NotTold
    <3>2. CASE thread'[b].pc = "callback"
      <4>1. \A c \in Buses : thread'[c] = thread[c]
        BY <1>6, <3>2
      <4>2. \A d \in Devices : adapter[d] = "in" => at[d] \in Buses
        BY DEF Inv, Types, Handles
      <4>3. at' = at
        BY <1>6 DEF devs
      <4>. QED
        BY <4>1, <4>2, <4>3 DEF Told
    <3>. QED
      BY <3>1, <3>2
  <2>. QED
    BY <1>6, <2>1, CommandsKept DEF devs, lists
<1>11. Types'
  BY <1>4, <1>6 DEF Inv, Types, devs, lists
<1>. QED
  BY <1>8, <1>10, <1>11, BusStepKeeps DEF Inv

\* What the wait leaves of the bus object.
LEMMA AfterWaitKeeps ==
  ASSUME Inv, NEW b \in Buses
  PROVE  /\ AfterWait(b) \in BusObject
         /\ AfterWait(b).listed = bus[b].listed /\ AfterWait(b).refs = bus[b].refs
         /\ AfterWait(b).first = bus[b].first /\ AfterWait(b).kill = bus[b].kill
         /\ AfterWait(b).active = bus[b].active /\ AfterWait(b).inProgress = bus[b].inProgress
<1>1. bus[b] \in BusObject
  BY DEF Inv, Types
<1>2. AfterWait(b) = [bus[b] EXCEPT !.timer = "off"] \/ AfterWait(b) = [bus[b] EXCEPT !.event = FALSE]
  BY DEF AfterWait
<1>3. CASE AfterWait(b) = [bus[b] EXCEPT !.timer = "off"]
  BY <1>1, <1>3 DEF BusObject
<1>4. CASE AfterWait(b) = [bus[b] EXCEPT !.event = FALSE]
  BY <1>1, <1>4 DEF BusObject
<1>. QED
  BY <1>2, <1>3, <1>4

\* A device's frames when the oldest one is done.
LEMMA OneFrameDone ==
  ASSUME NEW s \in Seq(BOOLEAN), s # <<>>
  PROVE  /\ Tail(s) \in Seq(BOOLEAN) /\ Len(s) \in Nat /\ Len(s) >= 1
         /\ Len(Tail(s)) = Len(s) - 1 /\ Head(s) = s[1] /\ 1 \in 1 .. Len(s)
         /\ \A i \in 1 .. Len(Tail(s)) : Tail(s)[i] = s[i + 1] /\ i + 1 \in 1 .. Len(s)
         /\ Len(s) = 1 => Tail(s) = <<>>
<1>1. Tail(s) \in Seq(BOOLEAN) /\ Len(s) \in Nat /\ Head(s) = s[1] /\ Len(Tail(s)) = Len(s) - 1
      /\ \A i \in 1 .. Len(Tail(s)) : Tail(s)[i] = s[i + 1]
  BY HeadTailProperties
<1>2. Len(s) # 0
  BY EmptySeq
<1>3. Len(s) = 1 => Tail(s) = <<>>
  <2>1. Len(s) = 1 => Len(Tail(s)) = 0
    BY <1>1
  <2>. QED
    BY <1>1, <2>1, EmptySeq
<1>4. \A i \in 1 .. Len(s) - 1 : i + 1 \in 1 .. Len(s)
  BY <1>1
<1>. QED
  BY <1>1, <1>2, <1>3, <1>4

\* The frame that was on the wire goes from the pending list to the free list.
LEMMA FinishTransferStep ==
  ASSUME Inv, NEW b \in Buses, FinishTransfer(b)
  PROVE  Inv'
<1>0. PICK d \in Devices : d = bus[b].active /\ d \in ToSet(bus[b].first)
  <2>1. bus[b].active # NULL
    BY DEF FinishTransfer
  <2>2. bus[b].active \in ToSet(bus[b].first)
    BY <2>1 DEF Inv, Listed
  <2>. QED
    BY <2>2, InList
<1>. DEFINE isFrame == pending[d] # <<>>
            last == isFrame /\ Head(pending[d])
<1>1. /\ thread[b].pc = "wait" /\ hw.mii
      /\ hw' = [hw EXCEPT !.mii = FALSE]
      /\ pending' = (IF isFrame THEN [pending EXCEPT ![d] = Tail(@)] ELSE pending)
      /\ free' = (IF isFrame THEN [free EXCEPT ![d] = free[d] + 1] ELSE free)
      /\ bus' = [bus EXCEPT ![b] = [AfterWait(b) EXCEPT !.inProgress = FALSE]]
      /\ thread' = [thread EXCEPT ![b] = [pc |-> "callback", dev |-> d, start |-> d, last |-> last]]
      /\ UNCHANGED <<address, adapter, at, CmdPending, engine>>
  BY <1>0 DEF FinishTransfer, TransferDone, MiiCleared, Freed, devs
<1>3. at[d] = b /\ adapter[d] = "in"
  BY <1>0, InList
<1>4. /\ pending[d] \in Seq(BOOLEAN) /\ free[d] \in Nat /\ engine[d] \in Nat /\ FrameCount \in Nat
      /\ free[d] + Len(pending[d]) = FrameCount
  <2>1. FrameCount \in Nat /\ \A r \in Reads \cup {0} : r \in Nat
    BY MdioAssumption
  <2>2. pending[d] \in Seq(BOOLEAN) /\ free[d] \in 0 .. FrameCount /\ engine[d] \in Reads \cup {0}
    BY DEF Inv, Types
  <2>3. free[d] + Len(pending[d]) = FrameCount
    BY <1>3 DEF Inv, Commands
  <2>. QED
    BY <2>1, <2>2, <2>3
<1>5. last \in BOOLEAN
  <2>1. isFrame => Head(pending[d]) \in BOOLEAN
    BY <1>4
  <2>. QED
    BY <2>1
<1>6. Types'
  <2>1. free' \in [Devices -> 0 .. FrameCount]
    <3>1. CASE isFrame
      <4>1. free[d] + 1 \in 0 .. FrameCount
        BY <1>4, <3>1, OneFrameDone
      <4>. QED
        BY <1>1, <3>1, <4>1 DEF Inv, Types
    <3>2. CASE ~isFrame
      BY <1>1, <3>2 DEF Inv, Types
    <3>. QED
      BY <3>1, <3>2
  <2>2. pending' \in [Devices -> Seq(BOOLEAN)]
    BY <1>1, <1>4, OneFrameDone DEF Inv, Types
  <2>3. bus' \in [Buses -> BusObject]
    <3>1. [AfterWait(b) EXCEPT !.inProgress = FALSE] \in BusObject
      BY AfterWaitKeeps DEF BusObject
    <3>. QED
      BY <1>1, <3>1 DEF Inv, Types
  <2>4. thread' \in [Buses -> ThreadObject]
    <3>1. [pc |-> "callback", dev |-> d, start |-> d, last |-> last] \in ThreadObject
      BY <1>3, <1>5 DEF ThreadObject
    <3>. HIDE DEF last
    <3>. QED
      BY <1>1, <3>1 DEF Inv, Types
  <2>5. hw' \in Controller
    BY <1>1 DEF Inv, Types, Controller
  <2>. QED
    BY <1>1, <2>1, <2>2, <2>3, <2>4, <2>5 DEF Inv, Types
<1>. HIDE DEF last
<1>7. /\ bus'[b] = [AfterWait(b) EXCEPT !.inProgress = FALSE]
      /\ thread'[b] = [pc |-> "callback", dev |-> d, start |-> d, last |-> last]
      /\ \A c \in Buses \ {b} : bus'[c] = bus[c] /\ thread'[c] = thread[c]
  BY <1>1 DEF Inv, Types
<1>8. /\ bus'[b].listed = bus[b].listed /\ bus'[b].refs = bus[b].refs
      /\ bus'[b].first = bus[b].first /\ bus'[b].kill = bus[b].kill
      /\ bus'[b].active = d /\ bus'[b].inProgress = FALSE
  BY <1>0, <1>7, AfterWaitKeeps DEF BusObject
<1>9. BusStep(b)
  BY <1>0, <1>1, <1>3, <1>6, <1>7, <1>8 DEF BusStep, Types, devs
<1>11. ~Told(d)
  BY <1>1, <1>3 DEF Told
<1>12. ASSUME NEW e \in Devices, adapter[e] = "in", e # d
       PROVE  /\ ~(Told(e)' /\ ~Told(e)) /\ free'[e] = free[e] /\ pending'[e] = pending[e]
  <2>1. at[e] \in Buses /\ at' = at
    BY <1>1, <1>12 DEF Inv, Types, Handles
  <2>2. Told(e)' => Told(e)
    BY <1>7, <1>12, <2>1 DEF Told
  <2>3. free'[e] = free[e] /\ pending'[e] = pending[e]
    BY <1>1, <1>12 DEF Inv, Types
  <2>. QED
    BY <2>2, <2>3
<1>13. ASSUME isFrame
       PROVE  /\ free'[d] = free[d] + 1 /\ pending'[d] = Tail(pending[d])
              /\ Told(d)' => pending[d][1]
  <2>1. free'[d] = free[d] + 1 /\ pending'[d] = Tail(pending[d])
    BY <1>1, <1>3, <1>13 DEF Inv, Types
  <2>2. Told(d)' => last
    BY <1>1, <1>3, <1>7 DEF Told
  <2>3. last => pending[d][1]
    BY <1>4, <1>13, OneFrameDone DEF last
  <2>. QED
    BY <2>1, <2>2, <2>3
<1>14. ASSUME ~isFrame PROVE free' = free /\ pending' = pending /\ ~Told(d)'
  <2>1. ~last
    BY <1>14 DEF last
  <2>. QED
    BY <1>1, <1>3, <1>7, <1>14, <2>1 DEF Told
<1>15. Commands'
  <2>. SUFFICES ASSUME NEW e \in Devices, adapter[e] = "in"
                PROVE  /\ free'[e] + Len(pending'[e]) = FrameCount
                       /\ ~CmdPending[e] => pending'[e] = <<>> /\ engine[e] = 0 /\ ~Told(e)'
                       /\ Told(e)' => pending'[e] = <<>> /\ engine[e] = 0
                       /\ engine[e] > 0 => engine[e] <= free'[e]
                       /\ \A i \in 1 .. Len(pending'[e]) :
                            pending'[e][i] => i = Len(pending'[e]) /\ engine[e] = 0
    <3>1. ASSUME NEW e \in Devices, adapter[e] # "in"
          PROVE  free'[e] = free[e] /\ pending'[e] = pending[e]
      BY <1>1, <1>3, <3>1 DEF Inv, Types
    <3>. QED
      BY <1>1, <3>1 DEF Inv, Commands
  <2>1. /\ free[e] + Len(pending[e]) = FrameCount
        /\ ~CmdPending[e] => pending[e] = <<>> /\ engine[e] = 0 /\ ~Told(e)
        /\ Told(e) => pending[e] = <<>> /\ engine[e] = 0
        /\ engine[e] > 0 => engine[e] <= free[e]
        /\ \A i \in 1 .. Len(pending[e]) : pending[e][i] => i = Len(pending[e]) /\ engine[e] = 0
    BY DEF Inv, Commands
  <2>2. CASE e # d
    BY <1>12, <2>1, <2>2
  <2>3. CASE e = d /\ isFrame
    <3>. DEFINE s == pending[d]
                t == Tail(pending[d])
                n == engine[d]
                m == free[d]
    <3>1. /\ Len(s) \in Nat /\ Len(t) = Len(s) - 1 /\ 1 \in 1 .. Len(s)
          /\ \A i \in 1 .. Len(t) : t[i] = s[i + 1] /\ i + 1 \in 1 .. Len(s)
          /\ Len(s) = 1 => t = <<>>
      BY <1>4, <2>3, OneFrameDone
    <3>2. s[1] => t = <<>> /\ n = 0
      BY <2>1, <2>3, <3>1
    <3>3. m + 1 + Len(t) = FrameCount /\ (n > 0 => n <= m + 1)
      <4>1. m \in Nat /\ n \in Nat /\ m + Len(s) = FrameCount /\ (n > 0 => n <= m)
        BY <1>4, <2>1, <2>3
      <4>2. Len(s) \in Nat /\ Len(t) = Len(s) - 1
        BY <3>1
      <4>. HIDE DEF s, t, m, n
      <4>. QED
        BY <4>1, <4>2
    <3>4. ASSUME NEW i \in 1 .. Len(t), t[i] PROVE i = Len(t) /\ n = 0
      <4>1. i + 1 = Len(s) /\ n = 0
        BY <2>1, <2>3, <3>1, <3>4
      <4>. HIDE DEF s, t, n
      <4>. QED
        BY <3>1, <4>1
    <3>5. CmdPending[d]
      BY <2>1, <2>3
    <3>6. free'[d] = m + 1 /\ pending'[d] = t /\ (Told(d)' => s[1])
      BY <1>13, <2>3
    <3>. HIDE DEF s, t, n, m
    <3>7. Told(d)' => pending'[d] = <<>> /\ n = 0
      BY <3>2, <3>6
    <3>8. free'[d] + Len(pending'[d]) = FrameCount /\ (n > 0 => n <= free'[d])
      BY <3>3, <3>6
    <3>9. \A i \in 1 .. Len(pending'[d]) : pending'[d][i] => i = Len(pending'[d]) /\ n = 0
      BY <3>4, <3>6
    <3>. QED
      BY <2>3, <3>5, <3>7, <3>8, <3>9 DEF n
  <2>4. CASE e = d /\ ~isFrame
    BY <1>11, <1>14, <2>1, <2>4
  <2>. QED
    BY <2>2, <2>3, <2>4
<1>. QED
  BY <1>6, <1>9, <1>15, BusStepKeeps DEF Inv

\* Woken without the end of a transfer, the thread looks for a frame to send.
LEMMA NothingDoneStep ==
  ASSUME Inv, NEW b \in Buses, NothingDone(b)
  PROVE  Inv'
<1>. DEFINE d == Candidate(b)
            pc == IF bus[b].inProgress \/ d = NULL THEN "rearm" ELSE "scan"
            t == [pc |-> pc, dev |-> d, start |-> d, last |-> FALSE]
<1>1. /\ thread[b].pc = "wait" /\ hw' = [hw EXCEPT !.mii = FALSE]
      /\ bus' = [bus EXCEPT ![b] = AfterWait(b)] /\ thread' = [thread EXCEPT ![b] = t]
      /\ UNCHANGED <<address, adapter, at, free, pending, CmdPending, engine>>
  BY DEF NothingDone, TryStart, MiiCleared, devs, lists
<1>2. d \in ToSet(bus[b].first) \cup {NULL}
  <2>1. bus[b].first \in Seq(Devices) /\ bus[b].active \in ToSet(bus[b].first) \cup {NULL}
    BY DEF Inv, Types, BusObject, Listed
  <2>2. bus[b].first # <<>> => bus[b].first[1] \in ToSet(bus[b].first)
    BY <2>1, ListType
  <2>. QED
    BY <2>1, <2>2 DEF Candidate
<1>3. d \in Devices \cup {NULL}
  BY <1>2, InList
<1>. HIDE DEF d
<1>4. t \in ThreadObject
  BY <1>3 DEF ThreadObject
<1>5. Types'
  <2>1. bus' \in [Buses -> BusObject]
    BY <1>1, AfterWaitKeeps DEF Inv, Types
  <2>2. thread' \in [Buses -> ThreadObject]
    BY <1>1, <1>4 DEF Inv, Types
  <2>3. hw' \in Controller
    BY <1>1 DEF Inv, Types, Controller
  <2>. QED
    BY <1>1, <2>1, <2>2, <2>3 DEF Inv, Types
<1>6. /\ bus'[b] = AfterWait(b) /\ thread'[b].pc = pc /\ thread'[b].dev = d /\ thread'[b].start = d
      /\ \A c \in Buses \ {b} : bus'[c] = bus[c] /\ thread'[c] = thread[c]
  BY <1>1 DEF Inv, Types
<1>7. \E e \in Devices : at[e] = b
  BY <1>1, HeldBus
<1>8. BusStep(b)
  <2>1. bus[b].active \in ToSet(bus[b].first) \cup {NULL}
    BY DEF Inv, Listed
  <2>2. pc \in {"rearm", "scan"} /\ (pc = "scan" => d \in ToSet(bus[b].first))
    BY <1>2
  <2>3. bus' \in [Buses -> BusObject] /\ thread' \in [Buses -> ThreadObject]
    BY <1>5 DEF Types
  <2>. HIDE DEF pc
  <2>. QED
    BY <1>1, <1>6, <1>7, <2>1, <2>2, <2>3, AfterWaitKeeps DEF BusStep, devs
<1>10. Commands'
  <2>1. thread'[b].pc # "callback"
    BY <1>6
  <2>. QED
    BY <1>1, <1>8, <2>1, NotTold, CommandsKept
<1>. QED
  BY <1>5, <1>8, <1>10, BusStepKeeps DEF Inv

\* The callback ends the command with its last frame, and the thread goes to the next device.
LEMMA CallbackStep ==
  ASSUME Inv, NEW b \in Buses, Callback(b)
  PROVE  Inv'
<1>0. PICK d \in Devices : d = thread[b].dev /\ d \in ToSet(bus[b].first)
  <2>1. thread[b].dev \in ToSet(bus[b].first)
    BY DEF Callback, Inv, Listed
  <2>. QED
    BY <2>1, InList
<1>1. at[d] = b /\ adapter[d] = "in"
  BY <1>0, InList
<1>. DEFINE next == Turn(b, d)
            dev == IF next # NULL THEN next ELSE bus[b].first[1]
            t == [pc |-> IF FALSE \/ dev = NULL THEN "rearm" ELSE "scan",
                  dev |-> dev, start |-> dev, last |-> FALSE]
<1>2. /\ thread[b].pc = "callback"
      /\ CmdPending' = [CmdPending EXCEPT ![d] = CmdPending[d] /\ ~thread[b].last]
      /\ bus' = [bus EXCEPT ![b].active = next]
      /\ thread' = [thread EXCEPT ![b] = t]
      /\ UNCHANGED <<address, adapter, at, free, pending, engine, hw>>
  BY <1>0, <1>1 DEF Callback, TryStart, TellsEngine, devs
<1>3. next \in ToSet(bus[b].first) \cup {NULL} /\ dev \in ToSet(bus[b].first)
  <2>1. bus[b].first \in Seq(Devices)
    BY DEF Inv, Types, BusObject
  <2>. QED
    BY <1>0, <2>1, PlaceInList DEF Turn
<1>4. next \in Devices \cup {NULL} /\ dev \in Devices /\ dev # NULL
  BY <1>3, InList
<1>. HIDE DEF next, dev
<1>5. t = [pc |-> "scan", dev |-> dev, start |-> dev, last |-> FALSE]
  BY <1>4
<1>. HIDE DEF t
<1>6. Types'
  <2>1. bus' \in [Buses -> BusObject]
    <3>1. bus[b] \in BusObject /\ bus \in [Buses -> BusObject]
      BY DEF Inv, Types
    <3>2. [bus[b] EXCEPT !.active = next] \in BusObject
      BY <1>4, <3>1 DEF BusObject
    <3>. QED
      BY <1>2, <3>1, <3>2
  <2>2. t \in ThreadObject
    BY <1>4, <1>5 DEF ThreadObject
  <2>3. thread' \in [Buses -> ThreadObject]
    BY <1>2, <2>2 DEF Inv, Types
  <2>4. CmdPending' \in [Devices -> BOOLEAN]
    BY <1>2 DEF Inv, Types
  <2>. QED
    BY <1>2, <2>1, <2>3, <2>4 DEF Inv, Types
<1>7. /\ bus'[b] = [bus[b] EXCEPT !.active = next] /\ thread'[b] = t
      /\ \A c \in Buses \ {b} : bus'[c] = bus[c] /\ thread'[c] = thread[c]
  BY <1>2 DEF Inv, Types
<1>8. /\ bus'[b].listed = bus[b].listed /\ bus'[b].refs = bus[b].refs
      /\ bus'[b].first = bus[b].first /\ bus'[b].kill = bus[b].kill
      /\ bus'[b].active = next /\ bus'[b].inProgress = bus[b].inProgress
      /\ thread'[b].pc = "scan" /\ thread'[b].dev = dev /\ thread'[b].start = dev
  <2>1. bus[b] \in BusObject
    BY DEF Inv, Types
  <2>. QED
    BY <1>5, <1>7, <2>1 DEF BusObject
<1>9. BusStep(b)
  BY <1>1, <1>2, <1>3, <1>6, <1>7, <1>8 DEF BusStep, Types, devs
<1>12. \A e \in Devices : adapter[e] = "in" /\ Told(e)' => Told(e)
  BY <1>8, <1>9, NotTold
<1>13. ~Told(d)'
  BY <1>1, <1>2, <1>8 DEF Told
<1>14. thread[b].last <=> Told(d)
  BY <1>0, <1>1, <1>2 DEF Told
<1>15. \A e \in Devices \ {d} : CmdPending'[e] = CmdPending[e]
  BY <1>2 DEF Inv, Types
<1>16. CmdPending'[d] = (CmdPending[d] /\ ~Told(d))
  BY <1>2, <1>14 DEF Inv, Types
<1>17. Commands'
  BY <1>1, <1>2, <1>12, <1>13, <1>15, <1>16 DEF Inv, Commands
<1>. QED
  BY <1>6, <1>9, <1>17, BusStepKeeps DEF Inv

\* The thread looks at the next device, and starts its first frame.
LEMMA ScanDeviceStep ==
  ASSUME Inv, NEW b \in Buses, ScanDevice(b)
  PROVE  Inv'
<1>0. PICK d \in Devices : d = thread[b].dev /\ d \in ToSet(bus[b].first)
  <2>1. thread[b].dev \in ToSet(bus[b].first)
    BY DEF ScanDevice, Inv, Listed
  <2>. QED
    BY <2>1, InList
<1>1. at[d] = b /\ adapter[d] = "in"
  BY <1>0, InList
<1>. DEFINE next == IF NextDevice(b, d) # NULL THEN NextDevice(b, d) ELSE bus[b].first[1]
<1>2. /\ thread[b].pc = "scan"
      /\ UNCHANGED <<address, adapter, at, free, pending, CmdPending, engine>>
  BY DEF ScanDevice, devs, lists
<1>3. next \in ToSet(bus[b].first) /\ next \in Devices
  <2>1. bus[b].first \in Seq(Devices)
    BY DEF Inv, Types, BusObject
  <2>. QED
    BY <1>0, <2>1, PlaceInList, InList
<1>4. bus[b] \in BusObject /\ thread[b] \in ThreadObject /\ hw \in Controller
  BY DEF Inv, Types
<1>5. CASE /\ hw' = [hw EXCEPT !.mmfr = d, !.busy = TRUE]
           /\ bus' = [bus EXCEPT ![b].active = d, ![b].inProgress = TRUE]
           /\ thread' = [thread EXCEPT ![b].pc = "rearm"]
  <2>1. /\ bus'[b] = [bus[b] EXCEPT !.active = d, !.inProgress = TRUE]
        /\ thread'[b] = [thread[b] EXCEPT !.pc = "rearm"]
        /\ \A c \in Buses \ {b} : bus'[c] = bus[c] /\ thread'[c] = thread[c]
    BY <1>5 DEF Inv, Types
  <2>2. /\ bus'[b].listed = bus[b].listed /\ bus'[b].refs = bus[b].refs
        /\ bus'[b].first = bus[b].first /\ bus'[b].kill = bus[b].kill
        /\ bus'[b].active = d /\ bus'[b].inProgress = TRUE /\ thread'[b].pc = "rearm"
        /\ bus'[b] \in BusObject
    BY <1>4, <2>1 DEF BusObject, ThreadObject
  <2>3. Types'
    <3>1. bus' \in [Buses -> BusObject]
      <4>1. bus' = [bus EXCEPT ![b] = bus'[b]]
        BY <1>5, <2>1
      <4>. QED
        BY <2>2, <4>1 DEF Inv, Types
    <3>2. thread' \in [Buses -> ThreadObject]
      BY <1>5, ZenonT(60) DEF Inv, Types, ThreadObject
    <3>3. hw' \in Controller
      BY <1>5 DEF Inv, Types, Controller
    <3>. QED
      BY <1>2, <3>1, <3>2, <3>3 DEF Inv, Types
  <2>4. BusStep(b)
    BY <1>0, <1>1, <1>2, <2>1, <2>2, <2>3 DEF BusStep, Types, devs
  <2>6. Commands'
    BY <1>2, <2>2, <2>4, NotTold, CommandsKept
  <2>. QED
    BY <2>3, <2>4, <2>6, BusStepKeeps DEF Inv
<1>6. CASE UNCHANGED <<bus, hw>> /\ \/ thread' = [thread EXCEPT ![b].pc = "rearm"]
                                    \/ thread' = [thread EXCEPT ![b].dev = next]
  <2>1. /\ thread' \in [Buses -> ThreadObject]
        /\ \A c \in Buses \ {b} : thread'[c] = thread[c]
        /\ \/ thread'[b] = [thread[b] EXCEPT !.pc = "rearm"]
           \/ thread'[b] = [thread[b] EXCEPT !.dev = next]
    <3>. HIDE DEF next
    <3>1. CASE thread' = [thread EXCEPT ![b].pc = "rearm"]
      BY <3>1, ZenonT(60) DEF Inv, Types, ThreadObject
    <3>2. CASE thread' = [thread EXCEPT ![b].dev = next]
      BY <1>3, <3>2, ZenonT(60) DEF Inv, Types, ThreadObject
    <3>. QED
      BY <1>6, <3>1, <3>2
  <2>. HIDE DEF next
  <2>2. /\ thread'[b].start = thread[b].start /\ thread'[b].pc \in {"rearm", "scan"}
        /\ thread'[b].pc = "scan" => thread'[b].dev = next
    BY <1>2, <1>4, <2>1 DEF ThreadObject
  <2>3. bus[b].active \in ToSet(bus[b].first) \cup {NULL} /\ thread[b].start \in ToSet(bus[b].first)
    BY <1>2 DEF Inv, Listed
  <2>4. bus \in [Buses -> BusObject]
    BY DEF Inv, Types
  <2>5. BusStep(b)
    BY <1>1, <1>2, <1>3, <1>6, <2>1, <2>2, <2>3, <2>4 DEF BusStep, devs
  <2>7. Commands'
    BY <1>2, <2>2, <2>5, NotTold, CommandsKept
  <2>8. Types'
    BY <1>2, <1>6, <2>1 DEF Inv, Types
  <2>. QED
    BY <2>5, <2>7, <2>8, BusStepKeeps DEF Inv
<1>. QED
  BY <1>0, <1>5, <1>6 DEF ScanDevice

\* The controller ends the transfer.
LEMMA HwTransferDoneStep ==
  ASSUME Inv, HwTransferDone
  PROVE  Inv'
<1>1. /\ hw.busy /\ hw' = [hw EXCEPT !.busy = FALSE, !.mii = TRUE]
      /\ UNCHANGED <<address, adapter, at, free, pending, CmdPending, engine, bus, thread>>
  BY DEF HwTransferDone, devs, lists
<1>2. Types'
  BY <1>1 DEF Inv, Types, Controller
<1>3. OneMoves' /\ Handles' /\ BusLives' /\ Listed' /\ Commands'
  <2>1. OneMoves'
    BY <1>1 DEF Inv, OneMoves, Resting
  <2>2. \A c \in Buses : HandlesOf(c)' = HandlesOf(c)
    BY <1>1 DEF HandlesOf
  <2>3. Handles'
    BY <1>1, <2>2 DEF Inv, Handles
  <2>4. BusLives'
    BY <1>1 DEF Inv, BusLives
  <2>5. Listed'
    BY <1>1 DEF Inv, Listed
  <2>6. Commands'
    BY <1>1 DEF Inv, Commands, Told
  <2>. QED
    BY <2>1, <2>3, <2>4, <2>5, <2>6
<1>. QED
  BY <1>2, <1>3 DEF Inv

-----------------------------------------------------------------------------
(* The commands of the engine.                                             *)

\* Frames are counted in naturals, and a read takes at least one.
LEMMA Numbers ==
  FrameCount \in Nat /\ \A r \in Reads \cup {0} : r \in Nat /\ (r \in Reads => r # 0)
  BY MdioAssumption

\* A command's frames at the end of the pending ones.
LEMMA Queued ==
  ASSUME NEW s \in Seq(BOOLEAN), \A i \in 1 .. Len(s) : ~s[i],
         NEW n \in Nat \ {0}, NEW c \in BOOLEAN
  PROVE  LET t == s \o [i \in 1 .. n |-> c /\ i = n]
         IN  /\ t \in Seq(BOOLEAN) /\ Len(t) = Len(s) + n
             /\ \A i \in 1 .. Len(t) : t[i] => c /\ i = Len(t)
<1>. DEFINE new(i) == c /\ i = n
            q == [i \in 1 .. n |-> new(i)]
            t == s \o q
<1>1. Len(s) \in Nat
  OBVIOUS
<1>2. \A i \in 1 .. n : new(i) \in BOOLEAN
  OBVIOUS
<1>3. q \in Seq(BOOLEAN) /\ Len(q) = n /\ \A i \in 1 .. n : q[i] = new(i)
  <2>. HIDE DEF new
  <2>. QED
    BY <1>2
<1>. HIDE DEF q
<1>4. t \in Seq(BOOLEAN) /\ Len(t) = Len(s) + n
  BY <1>3, ConcatProperties
<1>5. ASSUME NEW i \in 1 .. Len(s) + n, t[i] PROVE c /\ i = Len(s) + n
  <2>1. CASE i \in 1 .. Len(s)
    <3>1. t[i] = s[i]
      BY <1>3, <2>1, ConcatProperties
    <3>. QED
      BY <1>5, <2>1, <3>1
  <2>2. CASE i \notin 1 .. Len(s)
    <3>1. i \in Len(s) + 1 .. Len(s) + Len(q) /\ i - Len(s) \in 1 .. n
      BY <1>1, <1>3, <2>2
    <3>2. t[i] = q[i - Len(s)]
      BY <1>3, <3>1, ConcatProperties
    <3>3. c /\ i - Len(s) = n
      BY <1>3, <1>5, <3>1, <3>2
    <3>. QED
      BY <1>1, <3>3
  <2>. QED
    BY <2>1, <2>2
<1>. QED
  BY <1>4, <1>5 DEF t, q

\* MDIODev_QueueCommand for a device whose pending frames have no callback.
LEMMA QueueStep ==
  ASSUME Inv, NEW d \in Devices, adapter[d] = "in", ~Told(d),
         \A i \in 1 .. Len(pending[d]) : ~pending[d][i],
         NEW n \in Nat \ {0}, NEW c \in BOOLEAN, QueueCommand(d, n, c),
         NEW r \in Reads \cup {0}, engine' = [engine EXCEPT ![d] = r],
         n + r <= free[d], c => r = 0, UNCHANGED <<devs, thread, hw>>
  PROVE  Inv'
<1>. DEFINE q == [i \in 1 .. n |-> c /\ i = n]
            p == pending[d] \o q
            e == bus[at[d]].event \/ pending[d] = <<>>
<1>1. /\ pending[d] \in Seq(BOOLEAN) /\ free[d] \in Nat /\ free[d] <= FrameCount
      /\ FrameCount \in Nat /\ r \in Nat /\ Len(pending[d]) \in Nat
      /\ free[d] + Len(pending[d]) = FrameCount
  <2>1. FrameCount \in Nat /\ r \in Nat
    BY Numbers
  <2>2. pending[d] \in Seq(BOOLEAN) /\ free[d] \in 0 .. FrameCount
    BY DEF Inv, Types
  <2>3. free[d] + Len(pending[d]) = FrameCount
    BY DEF Inv, Commands
  <2>. QED
    BY <2>1, <2>2, <2>3
<1>2. n <= free[d] /\ free[d] - n \in 0 .. FrameCount /\ r <= free[d] - n
  BY <1>1
<1>3. /\ free' = [free EXCEPT ![d] = free[d] - n] /\ pending' = [pending EXCEPT ![d] = p]
      /\ CmdPending' = [CmdPending EXCEPT ![d] = TRUE]
      /\ bus' = [bus EXCEPT ![at[d]].event = e]
      /\ UNCHANGED <<address, adapter, at, thread, hw>>
  BY <1>2 DEF QueueCommand, devs
<1>4. /\ p \in Seq(BOOLEAN) /\ Len(p) = Len(pending[d]) + n
      /\ \A i \in 1 .. Len(p) : p[i] => c /\ i = Len(p)
  BY <1>1, Queued
<1>. HIDE DEF q, p
<1>5. at[d] \in Buses /\ bus[at[d]] \in BusObject /\ e \in BOOLEAN
  BY DEF Inv, Types, Handles, BusObject
<1>. HIDE DEF e
<1>6. PICK b \in Buses : b = at[d]
  BY <1>5
<1>7. /\ bus'[b] = [bus[b] EXCEPT !.event = e] /\ bus'[b] \in BusObject
      /\ bus' = [bus EXCEPT ![b] = bus'[b]]
      /\ \A x \in Buses \ {b} : bus'[x] = bus[x]
  <2>1. [bus[b] EXCEPT !.event = e] \in BusObject
    BY <1>5, <1>6 DEF BusObject
  <2>2. bus'[b] = [bus[b] EXCEPT !.event = e] /\ \A x \in Buses \ {b} : bus'[x] = bus[x]
    BY <1>3, <1>6 DEF Inv, Types
  <2>3. bus' = [bus EXCEPT ![b] = [bus[b] EXCEPT !.event = e]]
    BY <1>3, <1>6
  <2>. QED
    BY <2>1, <2>2, <2>3
<1>8. /\ bus'[b].listed = bus[b].listed /\ bus'[b].refs = bus[b].refs
      /\ bus'[b].first = bus[b].first /\ bus'[b].kill = bus[b].kill
      /\ bus'[b].active = bus[b].active /\ bus'[b].inProgress = bus[b].inProgress
  BY <1>5, <1>6, <1>7 DEF BusObject
<1>9. Types'
  <2>1. free' \in [Devices -> 0 .. FrameCount]
    BY <1>2, <1>3 DEF Inv, Types
  <2>2. pending' \in [Devices -> Seq(BOOLEAN)]
    BY <1>3, <1>4 DEF Inv, Types
  <2>3. CmdPending' \in [Devices -> BOOLEAN] /\ engine' \in [Devices -> Reads \cup {0}]
    BY <1>3 DEF Inv, Types
  <2>4. bus' \in [Buses -> BusObject]
    BY <1>7 DEF Inv, Types
  <2>. QED
    BY <1>3, <2>1, <2>2, <2>3, <2>4 DEF Inv, Types
<1>10. BusStep(b)
  <2>1. bus' \in [Buses -> BusObject] /\ thread' \in [Buses -> ThreadObject]
    BY <1>9 DEF Types
  <2>2. thread[b].pc # "none"
    BY <1>6 DEF Inv, BusLives
  <2>3. /\ bus[b].active \in ToSet(bus[b].first) \cup {NULL}
        /\ thread[b].pc \in {"callback", "scan"} =>
             {thread[b].dev, thread[b].start} \subseteq ToSet(bus[b].first)
        /\ thread[b].pc = "callback" => bus[b].active = thread[b].dev
    BY DEF Inv, Listed
  <2>. QED
    BY <1>3, <1>6, <1>7, <1>8, <2>1, <2>2, <2>3 DEF BusStep, devs
<1>12. /\ free'[d] = free[d] - n /\ pending'[d] = p /\ CmdPending'[d] /\ engine'[d] = r
       /\ \A x \in Devices \ {d} : /\ free'[x] = free[x] /\ pending'[x] = pending[x]
                                   /\ CmdPending'[x] = CmdPending[x] /\ engine'[x] = engine[x]
  BY <1>3 DEF Inv, Types
<1>13. \A x \in Devices : Told(x)' <=> Told(x)
  BY <1>3 DEF Told
<1>14. Commands'
  <2>. SUFFICES ASSUME NEW x \in Devices
                PROVE  /\ adapter[x] \in {"create", "link", "add"} =>
                            free'[x] = FrameCount /\ pending'[x] = <<>> /\ ~CmdPending'[x]
                       /\ adapter[x] # "in" => engine'[x] = 0
                       /\ adapter[x] = "in" =>
                            /\ free'[x] + Len(pending'[x]) = FrameCount
                            /\ ~CmdPending'[x] => pending'[x] = <<>> /\ engine'[x] = 0 /\ ~Told(x)
                            /\ Told(x) => pending'[x] = <<>> /\ engine'[x] = 0
                            /\ engine'[x] > 0 => engine'[x] <= free'[x]
                            /\ \A i \in 1 .. Len(pending'[x]) :
                                 pending'[x][i] => i = Len(pending'[x]) /\ engine'[x] = 0
    BY <1>3, <1>13 DEF Commands
  <2>1. CASE x = d
    <3>1. free'[d] + Len(pending'[d]) = FrameCount
      <4>. DEFINE f == free[d]
                  k == Len(pending[d])
      <4>1. /\ f \in Nat /\ k \in Nat /\ n \in Nat /\ f + k = FrameCount
            /\ free'[d] = f - n /\ Len(pending'[d]) = k + n
        BY <1>1, <1>4, <1>12
      <4>. HIDE DEF f, k
      <4>. QED
        BY <4>1
    <3>2. engine'[d] <= free'[d]
      BY <1>2, <1>12
    <3>3. \A i \in 1 .. Len(pending'[d]) : pending'[d][i] => i = Len(pending'[d]) /\ engine'[d] = 0
      BY <1>4, <1>12
    <3>. QED
      BY <1>12, <2>1, <3>1, <3>2, <3>3
  <2>2. CASE x # d
    BY <1>12, <2>2 DEF Inv, Commands
  <2>. QED
    BY <2>1, <2>2
<1>. QED
  BY <1>9, <1>10, <1>14, BusStepKeeps DEF Inv

\* The engine queues a command, or the first of two, when the last one is over.
LEMMA StateEngineStep ==
  ASSUME Inv, NEW d \in Devices, MII_StateEngine(d)
  PROVE  Inv'
<1>1. adapter[d] = "in" /\ engine[d] = 0 /\ ~CmdPending[d] /\ UNCHANGED <<devs, thread, hw>>
  BY DEF MII_StateEngine
<1>2. pending[d] = <<>> /\ ~Told(d) /\ free[d] + Len(pending[d]) = FrameCount
  BY <1>1 DEF Inv, Commands
<1>3. free[d] = FrameCount /\ \A i \in 1 .. Len(pending[d]) : ~pending[d][i]
  <2>1. free[d] \in Int /\ FrameCount \in Int
    BY MdioAssumption DEF Inv, Types
  <2>2. Len(pending[d]) = 0
    BY <1>2
  <2>. QED
    BY <1>2, <2>1, <2>2
<1>4. ASSUME NEW n \in Configs, NEW r \in Reads, QueueCommand(d, n, FALSE),
             engine' = [engine EXCEPT ![d] = r]
      PROVE  Inv'
  <2>1. n \in Nat \ {0} /\ r \in Reads \cup {0} /\ n + r <= free[d]
    BY <1>3, MdioAssumption
  <2>. QED
    BY <1>1, <1>2, <1>3, <1>4, <2>1, QueueStep
<1>5. ASSUME NEW r \in Reads, QueueCommand(d, r, TRUE), UNCHANGED engine
      PROVE  Inv'
  <2>1. r \in Nat \ {0} /\ r + 0 <= free[d]
    BY <1>3, MdioAssumption
  <2>2. engine' = [engine EXCEPT ![d] = 0]
    BY <1>1, <1>5 DEF Inv, Types
  <2>. QED
    BY <1>1, <1>2, <1>3, <1>5, <2>1, <2>2, QueueStep
<1>. QED
  BY <1>4, <1>5 DEF MII_StateEngine

\* The second of two commands is queued behind the first.
LEMMA QueueReadStep ==
  ASSUME Inv, NEW d \in Devices, QueueRead(d)
  PROVE  Inv'
<1>1. engine[d] > 0 /\ QueueCommand(d, engine[d], TRUE) /\ engine' = [engine EXCEPT ![d] = 0]
      /\ UNCHANGED <<devs, thread, hw>>
  BY DEF QueueRead
<1>2. engine[d] \in Nat \ {0} /\ free[d] \in Nat
  <2>1. engine[d] \in Reads \cup {0} /\ free[d] \in 0 .. FrameCount
    BY DEF Inv, Types
  <2>. QED
    BY <1>1, <2>1, Numbers
<1>3. adapter[d] = "in"
  BY <1>1, <1>2 DEF Inv, Commands
<1>4. /\ ~Told(d) /\ engine[d] <= free[d]
      /\ \A i \in 1 .. Len(pending[d]) : ~pending[d][i]
  BY <1>1, <1>2, <1>3 DEF Inv, Commands
<1>5. PICK n \in Nat \ {0} : n = engine[d]
  BY <1>2
<1>6. QueueCommand(d, n, TRUE) /\ n + 0 <= free[d]
  <2>1. QueueCommand(d, n, TRUE)
    BY <1>1, <1>5
  <2>2. n <= free[d]
    BY <1>4, <1>5
  <2>3. n + 0 <= free[d]
    BY <1>2, <2>2
  <2>. QED
    BY <2>1, <2>3
<1>. QED
  BY <1>1, <1>3, <1>4, <1>6, QueueStep

-----------------------------------------------------------------------------
(* Adapters that come and go.                                              *)

\* The adapters other than the one that comes or goes.
LEMMA OthersRest ==
  ASSUME Inv, NEW d \in Devices, ~Resting(d)
  PROVE  \A e \in Devices \ {d} :
           /\ Resting(e) /\ (at[e] = NULL <=> adapter[e] = "out")
           /\ adapter[d] \in {"create", "link", "stop"} => adapter[e] = "out" /\ at[e] = NULL
<1>. SUFFICES ASSUME NEW e \in Devices \ {d}
              PROVE  /\ Resting(e) /\ (at[e] = NULL <=> adapter[e] = "out")
                     /\ adapter[d] \in {"create", "link", "stop"} => adapter[e] = "out" /\ at[e] = NULL
  OBVIOUS
<1>1. Resting(e) /\ (adapter[d] \in {"create", "link", "stop"} => adapter[e] = "out")
  BY DEF Inv, OneMoves
<1>2. at[e] = NULL <=> adapter[e] \in {"out", "create"}
  BY DEF Inv, Handles
<1>. QED
  BY <1>1, <1>2 DEF Resting

\* Adapter d goes on to t.
Moves(d, t) ==
  /\ adapter' = [adapter EXCEPT ![d] = t] /\ UNCHANGED <<address, engine, hw>>
  /\ t \in {"out", "create", "link", "add", "in", "close", "stop"}
  /\ \A e \in Devices \ {d} : Resting(e)
  /\ t \in {"create", "link", "stop"} => \A e \in Devices \ {d} : adapter[e] = "out"

\* One adapter comes or goes a step further, and the others stay where they are.
LEMMA Moved ==
  ASSUME Inv, NEW d \in Devices, NEW t, Moves(d, t)
  PROVE  /\ adapter' \in [Devices -> {"out", "create", "link", "add", "in", "close", "stop"}]
         /\ adapter'[d] = t /\ \A e \in Devices \ {d} : adapter'[e] = adapter[e]
         /\ OneMoves'
<1>1. /\ adapter' \in [Devices -> {"out", "create", "link", "add", "in", "close", "stop"}]
      /\ adapter'[d] = t /\ \A e \in Devices \ {d} : adapter'[e] = adapter[e]
  BY DEF Inv, Types, Moves
<1>2. \A e \in Devices \ {d} : adapter'[e] \in {"out", "in"}
  BY <1>1 DEF Moves, Resting
<1>3. t \in {"create", "link", "stop"} => \A e \in Devices \ {d} : adapter'[e] = "out"
  BY <1>1 DEF Moves
<1>4. OneMoves'
  BY <1>1, <1>2, <1>3 DEF OneMoves, Resting
<1>. QED
  BY <1>1, <1>4

\* The frames and commands when adapter d goes on to t.
LEMMA MovedCommands ==
  ASSUME Inv, NEW d \in Devices, NEW t, Moves(d, t),
         \A e \in Devices \ {d} : /\ free'[e] = free[e] /\ pending'[e] = pending[e]
                                  /\ CmdPending'[e] = CmdPending[e] /\ at'[e] = at[e],
         \A b \in Buses : thread'[b].pc = "callback" => thread'[b] = thread[b],
         engine[d] = 0,
         t \in {"create", "link", "add", "in"} =>
           free'[d] = FrameCount /\ pending'[d] = <<>> /\ ~CmdPending'[d],
         t = "in" => ~Told(d)'
  PROVE  Commands'
<1>1. adapter'[d] = t /\ (\A e \in Devices \ {d} : adapter'[e] = adapter[e]) /\ engine' = engine
  BY Moved DEF Moves
<1>. SUFFICES ASSUME NEW e \in Devices
              PROVE  /\ adapter'[e] \in {"create", "link", "add"} =>
                          free'[e] = FrameCount /\ pending'[e] = <<>> /\ ~CmdPending'[e]
                     /\ adapter'[e] # "in" => engine[e] = 0
                     /\ adapter'[e] = "in" =>
                          /\ free'[e] + Len(pending'[e]) = FrameCount
                          /\ ~CmdPending'[e] => pending'[e] = <<>> /\ engine[e] = 0 /\ ~Told(e)'
                          /\ Told(e)' => pending'[e] = <<>> /\ engine[e] = 0
                          /\ engine[e] > 0 => engine[e] <= free'[e]
                          /\ \A i \in 1 .. Len(pending'[e]) :
                               pending'[e][i] => i = Len(pending'[e]) /\ engine[e] = 0
  BY <1>1 DEF Commands
<1>2. CASE e # d
  <2>1. adapter[e] = "in" => at[e] \in Buses
    BY ZenonT(60) DEF Inv, Types, Handles
  <2>2. adapter[e] = "in" => (Told(e)' => Told(e))
    BY <1>2, <2>1 DEF Told
  <2>. QED
    BY <1>1, <1>2, <2>2 DEF Inv, Commands
<1>3. CASE e = d
  <2>1. FrameCount + 0 = FrameCount /\ Len(<<>>) = 0 /\ ~(0 > 0)
    BY Numbers
  <2>2. adapter'[d] = "in" => free'[d] + Len(pending'[d]) = FrameCount
    BY <1>1, <2>1
  <2>3. adapter'[d] = "in" => 1 .. Len(pending'[d]) = {}
    BY <1>1, <2>1
  <2>. QED
    BY <1>1, <1>3, <2>1, <2>2, <2>3
<1>. QED
  BY <1>2, <1>3

\* Handles: one more, one less.
LEMMA OneMoreHandle ==
  ASSUME NEW b, NEW d \in Devices, HandlesOf(b)' = HandlesOf(b) \cup {d}, d \notin HandlesOf(b)
  PROVE  Cardinality(HandlesOf(b)') = Cardinality(HandlesOf(b)) + 1
<1>1. HandlesOf(b) \subseteq Devices
  BY DEF HandlesOf
<1>2. IsFiniteSet(HandlesOf(b))
  BY <1>1, MdioAssumption, FS_Subset
<1>. QED
  BY <1>2, FS_AddElement

\* A handle less is one less in the reference count.
LEMMA OneHandleLess ==
  ASSUME NEW b, NEW d \in HandlesOf(b), HandlesOf(b)' = HandlesOf(b) \ {d}
  PROVE  Cardinality(HandlesOf(b)') = Cardinality(HandlesOf(b)) - 1
<1>1. HandlesOf(b) \subseteq Devices
  BY DEF HandlesOf
<1>2. IsFiniteSet(HandlesOf(b))
  BY <1>1, MdioAssumption, FS_Subset
<1>. QED
  BY <1>2, FS_RemoveElement

\* The last handle.
LEMMA LastHandle ==
  ASSUME Inv, NEW b \in Buses, NEW d \in HandlesOf(b)
  PROVE  bus[b].refs = 1 <=> HandlesOf(b) = {d}
<1>1. HandlesOf(b) \subseteq Devices
  BY DEF HandlesOf
<1>2. IsFiniteSet(HandlesOf(b))
  BY <1>1, MdioAssumption, FS_Subset
<1>3. bus[b].refs = Cardinality(HandlesOf(b))
  BY DEF Inv, Handles
<1>4. Cardinality(HandlesOf(b)) = 1 <=> \E x : HandlesOf(b) = {x}
  BY <1>2, FS_Singleton
<1>. QED
  BY <1>3, <1>4

\* The bus is found, and d gets a handle of it.
LEMMA BusFound ==
  ASSUME Inv, NEW d \in Devices, NEW b \in Buses, bus[b].listed, Moves(d, "add"),
         adapter[d] = "out", InitFrameLists(d), thread' = thread,
         bus' = [bus EXCEPT ![b].refs = Found(b)], at' = [at EXCEPT ![d] = b]
  PROVE  Inv'
<1>0. bus[b] \in BusObject /\ at[d] = NULL /\ NULL \notin Buses /\ engine[d] = 0
  BY MdioAssumption DEF Inv, Types, Handles, Buses, Commands
<1>1. /\ adapter'[d] = "add" /\ (\A e \in Devices \ {d} : adapter'[e] = adapter[e])
      /\ OneMoves' /\ UNCHANGED <<address, engine, hw>>
      /\ adapter' \in [Devices -> {"out", "create", "link", "add", "in", "close", "stop"}]
  BY Moved DEF Moves
<1>2. at'[d] = b /\ (\A e \in Devices \ {d} : at'[e] = at[e]) /\ at' \in [Devices -> Buses \cup {NULL}]
  BY DEF Inv, Types
<1>3. PICK h \in Devices : at[h] = b
  BY HeldBus
<1>4. h # d /\ \A e \in Devices : at'[e] = b \/ at'[e] = NULL
  BY <1>0, <1>2, <1>3, OneBus
<1>5. adapter[h] = "in"
  <2>1. Resting(h)
    BY <1>4 DEF Moves
  <2>. QED
    BY <1>0, <1>3, <2>1 DEF Inv, Handles, Resting
<1>6. /\ bus' \in [Buses -> BusObject] /\ bus'[b].refs = bus[b].refs + 1
      /\ \A c \in Buses : /\ bus'[c] = bus[c] \/ c = b
                          /\ bus'[c].listed = bus[c].listed /\ bus'[c].first = bus[c].first
                          /\ bus'[c].kill = bus[c].kill /\ bus'[c].active = bus[c].active
                          /\ bus'[c].inProgress = bus[c].inProgress
  <2>1. bus[b].refs + 1 \in Nat
    BY <1>0 DEF BusObject
  <2>2. [bus[b] EXCEPT !.refs = bus[b].refs + 1] \in BusObject
    BY <1>0, <2>1 DEF BusObject
  <2>3. bus' = [bus EXCEPT ![b] = [bus[b] EXCEPT !.refs = bus[b].refs + 1]]
    BY DEF Found
  <2>. QED
    <3>1. bus \in [Buses -> BusObject]
      BY DEF Inv, Types
    <3>2. bus' \in [Buses -> BusObject] /\ bus'[b] = [bus[b] EXCEPT !.refs = bus[b].refs + 1]
          /\ \A c \in Buses \ {b} : bus'[c] = bus[c]
      BY <2>2, <2>3, <3>1
    <3>3. /\ bus'[b].refs = bus[b].refs + 1
          /\ bus'[b].listed = bus[b].listed /\ bus'[b].first = bus[b].first
          /\ bus'[b].kill = bus[b].kill /\ bus'[b].active = bus[b].active
          /\ bus'[b].inProgress = bus[b].inProgress
      BY <1>0, <3>2 DEF BusObject
    <3>. QED
      BY <3>2, <3>3
<1>7. Handles'
  <2>1. HandlesOf(b)' = HandlesOf(b) \cup {d} /\ d \notin HandlesOf(b)
    BY <1>0, <1>1, <1>2 DEF HandlesOf
  <2>2. \A c \in Buses \ {b} : HandlesOf(c)' = HandlesOf(c)
    BY <1>0, <1>1, <1>2 DEF HandlesOf
  <2>3. \A c \in Buses : bus[c].refs = Cardinality(HandlesOf(c))
    BY DEF Inv, Handles
  <2>4. \A c \in Buses : bus'[c].refs = Cardinality(HandlesOf(c)')
    BY <1>6, <2>1, <2>2, <2>3, OneMoreHandle
  <2>5. \A e \in Devices : at'[e] = NULL <=> adapter'[e] \in {"out", "create"}
    BY <1>0, <1>1, <1>2 DEF Inv, Handles
  <2>6. \A e \in Devices : adapter'[e] # "link"
    BY <1>1 DEF Moves, Resting
  <2>7. \A e, x \in Devices : at'[e] # NULL /\ at'[x] # NULL => at'[e] = at'[x]
    BY <1>4
  <2>. QED
    BY <2>4, <2>5, <2>6, <2>7 DEF Handles
<1>8. BusLives'
  <2>. SUFFICES ASSUME NEW c \in Buses
                PROVE  /\ \A e \in Devices : at'[e] = c =>
                            /\ bus[c].listed <=> adapter'[e] # "link"
                            /\ bus[c].kill <=> adapter'[e] = "stop"
                            /\ adapter'[e] # "stop" => thread[c].pc # "none"
                       /\ (\A e \in Devices : at'[e] # c) =>
                            bus'[c] = NoBus /\ thread[c].pc = "none"
    BY <1>6 DEF BusLives
  <2>1. CASE c = b
    <3>1. bus[b].listed /\ ~bus[b].kill /\ thread[b].pc # "none"
      BY <1>3, <1>5 DEF Inv, BusLives
    <3>2. \A e \in Devices : adapter'[e] \notin {"link", "stop"}
      BY <1>1 DEF Moves, Resting
    <3>. QED
      BY <1>2, <2>1, <3>1, <3>2
  <2>2. CASE c # b
    <3>1. bus'[c] = bus[c] /\ \A e \in Devices : at'[e] # c /\ at[e] # c
      BY <1>0, <1>2, <1>3, <1>4, <1>6, <2>2, OneBus
    <3>. QED
      BY <3>1 DEF Inv, BusLives
  <2>. QED
    BY <2>1, <2>2
<1>9. Listed'
  <2>1. \A c \in Buses : {e \in Devices : at'[e] = c /\ adapter'[e] = "in"}
                          = {e \in Devices : at[e] = c /\ adapter[e] = "in"}
    BY <1>0, <1>1, <1>2
  <2>. QED
    BY <1>6, <2>1 DEF Inv, Listed
<1>10. /\ free'[d] = FrameCount /\ pending'[d] = <<>> /\ ~CmdPending'[d]
       /\ \A e \in Devices \ {d} : /\ free'[e] = free[e] /\ pending'[e] = pending[e]
                                   /\ CmdPending'[e] = CmdPending[e]
       /\ free' \in [Devices -> 0 .. FrameCount] /\ pending' \in [Devices -> Seq(BOOLEAN)]
       /\ CmdPending' \in [Devices -> BOOLEAN]
  <2>1. FrameCount \in 0 .. FrameCount /\ <<>> \in Seq(BOOLEAN)
    BY Numbers
  <2>. QED
    BY <2>1 DEF Inv, Types, InitFrameLists
<1>11. Commands'
  BY <1>0, <1>2, <1>10, MovedCommands
<1>13. Types'
  BY <1>1, <1>2, <1>6, <1>10 DEF Inv, Types
<1>. QED
  BY <1>1, <1>7, <1>8, <1>9, <1>11, <1>13 DEF Inv

\* A step that leaves the objects and the handles alone: there is no bus yet, or d comes
\* back from an attempt to create one.
LEMMA NoHandle ==
  ASSUME Inv, NEW d \in Devices, NEW t \in {"out", "create"}, Moves(d, t),
         adapter[d] \in {"out", "create"}, UNCHANGED <<at, bus, thread>>,
         free' \in [Devices -> 0 .. FrameCount], pending' \in [Devices -> Seq(BOOLEAN)],
         CmdPending' \in [Devices -> BOOLEAN],
         \A e \in Devices \ {d} : /\ free'[e] = free[e] /\ pending'[e] = pending[e]
                                  /\ CmdPending'[e] = CmdPending[e],
         t = "create" => free'[d] = FrameCount /\ pending'[d] = <<>> /\ ~CmdPending'[d]
  PROVE  Inv'
<1>0. at[d] = NULL /\ NULL \notin Buses /\ engine[d] = 0
  BY MdioAssumption DEF Inv, Handles, Buses, Commands
<1>1. /\ adapter'[d] = t /\ (\A e \in Devices \ {d} : adapter'[e] = adapter[e])
      /\ OneMoves' /\ UNCHANGED <<address, engine, hw>>
      /\ adapter' \in [Devices -> {"out", "create", "link", "add", "in", "close", "stop"}]
  BY Moved DEF Moves
<1>2. \A c \in Buses : /\ HandlesOf(c)' = HandlesOf(c)
                       /\ {e \in Devices : at'[e] = c /\ adapter'[e] = "in"}
                          = {e \in Devices : at[e] = c /\ adapter[e] = "in"}
  BY <1>0, <1>1 DEF HandlesOf
<1>3. Handles'
  <2>1. \A e \in Devices : at[e] = NULL <=> adapter'[e] \in {"out", "create"}
    BY <1>0, <1>1 DEF Inv, Handles
  <2>2. \A e \in Devices : adapter'[e] = "link" => at[e] = e
    BY <1>1 DEF Inv, Handles
  <2>. QED
    BY <1>2, <2>1, <2>2 DEF Inv, Handles
<1>4. BusLives'
  <2>. SUFFICES ASSUME NEW c \in Buses
                PROVE  /\ \A e \in Devices : at[e] = c =>
                            /\ bus[c].listed <=> adapter'[e] # "link"
                            /\ bus[c].kill <=> adapter'[e] = "stop"
                            /\ adapter'[e] # "stop" => thread[c].pc # "none"
                       /\ (\A e \in Devices : at[e] # c) =>
                            bus[c] = NoBus /\ thread[c].pc = "none"
    BY DEF BusLives
  <2>1. \A e \in Devices : at[e] = c => adapter'[e] = adapter[e]
    BY <1>0, <1>1
  <2>2. /\ \A e \in Devices : at[e] = c =>
             /\ bus[c].listed <=> adapter[e] # "link"
             /\ bus[c].kill <=> adapter[e] = "stop"
             /\ adapter[e] # "stop" => thread[c].pc # "none"
        /\ (\A e \in Devices : at[e] # c) => bus[c] = NoBus /\ thread[c].pc = "none"
    BY DEF Inv, BusLives
  <2>. QED
    BY <2>1, <2>2
<1>5. Listed'
  BY <1>2 DEF Inv, Listed
<1>6. Commands'
  BY <1>0, MovedCommands
<1>8. Types'
  BY <1>1 DEF Inv, Types
<1>. QED
  BY <1>1, <1>3, <1>4, <1>5, <1>6, <1>8 DEF Inv

\* An adapter finds the bus in the list, or none.
LEMMA OpenBusStep ==
  ASSUME Inv, "open" \notin Overlap, NEW d \in Devices, OpenBus(d)
  PROVE  Inv'
<1>1. adapter[d] = "out" /\ InitFrameLists(d) /\ UNCHANGED <<address, engine, thread, hw>>
  BY DEF OpenBus, Adapter
<1>2. \A e \in Devices \ {d} : Resting(e)
  BY DEF Inv, Types, OpenBus, Settled, Resting
<1>3. CASE \E b \in Buses : bus[b].listed
  <2>1. PICK b \in Buses : /\ bus[b].listed /\ Adapter(d, "out", "add")
                           /\ bus' = [bus EXCEPT ![b].refs = Found(b)]
                           /\ at' = [at EXCEPT ![d] = b]
    BY <1>3 DEF OpenBus
  <2>2. Moves(d, "add")
    BY <1>1, <1>2, <2>1 DEF Moves, Adapter
  <2>. QED
    BY <1>1, <2>1, <2>2, BusFound
<1>4. CASE ~\E b \in Buses : bus[b].listed
  <2>1. Adapter(d, "out", "create") /\ UNCHANGED <<bus, at>>
    BY <1>4 DEF OpenBus
  <2>2. ASSUME NEW e \in Devices \ {d} PROVE adapter[e] = "out"
    <3>1. adapter[e] = "in" => at[e] \in Buses
      BY DEF Inv, Types, Handles
    <3>2. adapter[e] = "in" => bus[at[e]].listed
      BY <3>1 DEF Inv, BusLives
    <3>. QED
      BY <1>2, <1>4, <3>1, <3>2 DEF Resting
  <2>3. Moves(d, "create")
    BY <1>1, <1>2, <2>1, <2>2 DEF Moves, Adapter
  <2>4. /\ free'[d] = FrameCount /\ pending'[d] = <<>> /\ ~CmdPending'[d]
        /\ \A e \in Devices \ {d} : /\ free'[e] = free[e] /\ pending'[e] = pending[e]
                                    /\ CmdPending'[e] = CmdPending[e]
        /\ free' \in [Devices -> 0 .. FrameCount] /\ pending' \in [Devices -> Seq(BOOLEAN)]
        /\ CmdPending' \in [Devices -> BOOLEAN]
    <3>1. FrameCount \in 0 .. FrameCount /\ <<>> \in Seq(BOOLEAN)
      BY Numbers
    <3>. QED
      BY <1>1, <3>1 DEF Inv, Types, InitFrameLists
  <2>. QED
    BY <1>1, <2>1, <2>3, <2>4, NoHandle
<1>. QED
  BY <1>3, <1>4

\* The bus that d creates: its own.
LEMMA BusCreated ==
  ASSUME Inv, NEW d \in Devices, Moves(d, "link"), adapter[d] = "create",
         UNCHANGED <<free, pending, CmdPending>>, at' = [at EXCEPT ![d] = d],
         bus' = [bus EXCEPT ![d] = [NoBus EXCEPT !.refs = 1]],
         thread' = [thread EXCEPT ![d].pc = "wait"]
  PROVE  Inv'
<1>. DEFINE new == [NoBus EXCEPT !.refs = 1]
<1>0. d \in Buses /\ NULL \notin Devices /\ engine[d] = 0 /\ at[d] = NULL
  BY MdioAssumption DEF Inv, Handles, Buses, Commands
<1>1. /\ adapter'[d] = "link" /\ (\A e \in Devices \ {d} : adapter'[e] = adapter[e])
      /\ OneMoves' /\ UNCHANGED <<address, engine, hw>>
      /\ adapter' \in [Devices -> {"out", "create", "link", "add", "in", "close", "stop"}]
  BY Moved DEF Moves
<1>2. at'[d] = d /\ (\A e \in Devices \ {d} : at'[e] = at[e]) /\ at' \in [Devices -> Buses \cup {NULL}]
  BY <1>0 DEF Inv, Types
<1>3. \A e \in Devices \ {d} : adapter[e] = "out" /\ at[e] = NULL
  BY OthersRest DEF Resting
<1>4. \A e \in Devices : at[e] = NULL
  BY <1>0, <1>3
<1>5. \A c \in Buses : bus[c] = NoBus /\ thread[c].pc = "none"
  BY <1>0, <1>4 DEF Inv, BusLives, Buses
<1>6. /\ new \in BusObject /\ new.refs = 1 /\ ~new.listed /\ ~new.kill /\ new.first = <<>>
      /\ new.active = NULL /\ ~new.inProgress
  <2>1. <<>> \in Seq(Devices) /\ 0 \in Nat /\ 1 \in Nat
    OBVIOUS
  <2>2. /\ NoBus \in BusObject /\ ~NoBus.listed /\ ~NoBus.kill /\ NoBus.first = <<>>
        /\ NoBus.active = NULL /\ ~NoBus.inProgress
    BY <2>1 DEF NoBus, BusObject
  <2>. QED
    BY <2>1, <2>2 DEF BusObject
<1>. HIDE DEF new
<1>7. /\ bus' \in [Buses -> BusObject] /\ bus'[d] = new
      /\ \A c \in Buses \ {d} : bus'[c] = bus[c]
  BY <1>0, <1>6 DEF Inv, Types, new
<1>8. /\ thread' \in [Buses -> ThreadObject] /\ thread'[d].pc = "wait"
      /\ \A c \in Buses \ {d} : thread'[c] = thread[c]
  <2>1. thread[d] \in ThreadObject
    BY <1>0 DEF Inv, Types
  <2>2. [thread[d] EXCEPT !.pc = "wait"] \in ThreadObject /\ [thread[d] EXCEPT !.pc = "wait"].pc = "wait"
    BY <2>1 DEF ThreadObject
  <2>. QED
    BY <1>0, <2>2 DEF Inv, Types
<1>9. Handles'
  <2>1. HandlesOf(d)' = {d}
    BY <1>0, <1>1, <1>2, <1>3 DEF HandlesOf
  <2>2. ASSUME NEW c \in Buses \ {d} PROVE HandlesOf(c)' = {}
    BY <1>0, <1>2, <1>3 DEF HandlesOf, Buses
  <2>3. Cardinality({d}) = 1 /\ Cardinality({}) = 0
    BY FS_Singleton, FS_EmptySet
  <2>4. \A c \in Buses : bus'[c].refs = Cardinality(HandlesOf(c)')
    <3>1. \A c \in Buses \ {d} : bus'[c].refs = 0
      BY <1>5, <1>7 DEF NoBus
    <3>. QED
      BY <1>6, <1>7, <2>1, <2>2, <2>3, <3>1
  <2>5. \A e \in Devices : at'[e] = NULL <=> adapter'[e] \in {"out", "create"}
    BY <1>0, <1>1, <1>2, <1>3
  <2>6. \A e \in Devices : adapter'[e] = "link" => at'[e] = e
    BY <1>1, <1>2, <1>3
  <2>7. \A e, x \in Devices : at'[e] # NULL /\ at'[x] # NULL => at'[e] = at'[x]
    BY <1>2, <1>3
  <2>. QED
    BY <2>4, <2>5, <2>6, <2>7 DEF Handles
<1>10. BusLives'
  <2>1. \A c \in Buses \ {d} : /\ \A e \in Devices : at'[e] # c
                               /\ bus'[c] = NoBus /\ thread'[c].pc = "none"
    BY <1>0, <1>2, <1>3, <1>5, <1>7, <1>8 DEF Buses
  <2>2. \A e \in Devices : at'[e] = d => e = d
    BY <1>0, <1>2, <1>3
  <2>3. ~bus'[d].listed /\ ~bus'[d].kill /\ thread'[d].pc # "none" /\ adapter'[d] = "link" /\ at'[d] = d
    BY <1>1, <1>2, <1>6, <1>7, <1>8
  <2>. SUFFICES ASSUME NEW c \in Buses
                PROVE  /\ \A e \in Devices : at'[e] = c =>
                            /\ bus'[c].listed <=> adapter'[e] # "link"
                            /\ bus'[c].kill <=> adapter'[e] = "stop"
                            /\ adapter'[e] # "stop" => thread'[c].pc # "none"
                       /\ (\A e \in Devices : at'[e] # c) =>
                            bus'[c] = NoBus /\ thread'[c].pc = "none"
    BY DEF BusLives
  <2>. QED
    BY <2>1, <2>2, <2>3
<1>11. Listed'
  <2>1. \A c \in Buses : {e \in Devices : at'[e] = c /\ adapter'[e] = "in"} = {}
    BY <1>1, <1>3
  <2>2. \A c \in Buses : /\ bus'[c].first = <<>> /\ bus'[c].active = NULL
                         /\ thread'[c].pc \notin {"callback", "scan"}
    BY <1>5, <1>6, <1>7, <1>8 DEF NoBus
  <2>3. IsInjective(<<>>) /\ ToSet(<<>>) = {}
    BY DEF IsInjective, ToSet
  <2>. QED
    BY <2>1, <2>2, <2>3 DEF Listed
<1>12. free[d] = FrameCount /\ pending[d] = <<>> /\ ~CmdPending[d]
  BY DEF Inv, Commands
<1>13. Commands'
  <2>1. \A c \in Buses : thread'[c].pc = "callback" => thread'[c] = thread[c]
    BY <1>8
  <2>. QED
    BY <1>0, <1>2, <1>12, <2>1, MovedCommands
<1>15. Types'
  BY <1>1, <1>2, <1>7, <1>8 DEF Inv, Types
<1>. QED
  BY <1>1, <1>9, <1>10, <1>11, <1>13, <1>15 DEF Inv

\* An adapter creates the bus, alone, with a thread and one handle; or it fails and leaves.
LEMMA CreateBusStep ==
  ASSUME Inv, "map" \notin Overlap, NEW d \in Devices, CreateBus(d)
  PROVE  Inv'
<1>1. adapter[d] = "create" /\ UNCHANGED <<address, free, pending, CmdPending, engine, hw>>
  BY DEF CreateBus, Adapter, lists
<1>2. \A e \in Devices \ {d} : Resting(e) /\ adapter[e] = "out"
  BY <1>1, OthersRest DEF Resting
<1>3. CASE Adapter(d, "create", "link") /\ bus' = [bus EXCEPT ![d] = [NoBus EXCEPT !.refs = 1]]
           /\ thread' = [thread EXCEPT ![d].pc = "wait"] /\ at' = [at EXCEPT ![d] = d]
  <2>1. Moves(d, "link")
    BY <1>1, <1>2, <1>3 DEF Moves, Adapter
  <2>. QED
    BY <1>1, <1>3, <2>1, BusCreated
<1>4. CASE Adapter(d, "create", "out") /\ UNCHANGED <<bus, thread, at>>
  <2>1. Moves(d, "out")
    BY <1>1, <1>2, <1>4 DEF Moves, Adapter
  <2>2. /\ free' \in [Devices -> 0 .. FrameCount] /\ pending' \in [Devices -> Seq(BOOLEAN)]
        /\ CmdPending' \in [Devices -> BOOLEAN]
    BY <1>1 DEF Inv, Types
  <2>. QED
    BY <1>1, <1>4, <2>1, <2>2, NoHandle
<1>. QED
  BY <1>3, <1>4 DEF CreateBus

\* The handles do not change: d goes on with its bus.
LEMMA SameHandles ==
  ASSUME Inv, NEW d \in Devices, NEW t \in {"add", "in", "close"}, Moves(d, t),
         adapter[d] \in {"link", "add", "in"}, at' = at,
         \A c \in Buses : bus'[c].refs = bus[c].refs
  PROVE  Handles'
<1>1. adapter'[d] = t /\ (\A e \in Devices \ {d} : adapter'[e] = adapter[e])
  BY Moved
<1>2. \A e \in Devices : at[e] = NULL <=> adapter'[e] \in {"out", "create"}
  BY <1>1 DEF Inv, Handles
<1>3. \A e \in Devices : adapter'[e] = "link" => at[e] = e
  BY <1>1 DEF Inv, Handles
<1>4. \A c \in Buses : HandlesOf(c)' = HandlesOf(c)
  BY <1>1 DEF HandlesOf
<1>. QED
  BY <1>2, <1>3, <1>4 DEF Inv, Handles

\* The new bus is listed; its creator is still alone.
LEMMA LinkBusStep ==
  ASSUME Inv, NEW d \in Devices, LinkBus(d)
  PROVE  Inv'
<1>0. /\ adapter[d] = "link" /\ bus' = [bus EXCEPT ![d].listed = TRUE]
      /\ UNCHANGED <<at, free, pending, CmdPending, thread>>
  BY DEF LinkBus, Adapter, lists
<1>1. \A e \in Devices \ {d} : Resting(e) /\ adapter[e] = "out" /\ at[e] = NULL
  BY <1>0, OthersRest DEF Resting
<1>2. Moves(d, "add")
  BY <1>1 DEF LinkBus, Adapter, Moves
<1>3. /\ adapter'[d] = "add" /\ (\A e \in Devices \ {d} : adapter'[e] = adapter[e])
      /\ OneMoves' /\ UNCHANGED <<address, engine, hw>>
      /\ adapter' \in [Devices -> {"out", "create", "link", "add", "in", "close", "stop"}]
  BY <1>2, Moved DEF Moves
<1>4. d \in Buses /\ NULL \notin Devices /\ engine[d] = 0 /\ at[d] = d /\ bus[d] \in BusObject
  BY <1>0, MdioAssumption DEF Inv, Handles, Buses, Commands, Types
<1>5. /\ bus' \in [Buses -> BusObject] /\ bus'[d].listed
      /\ \A c \in Buses : /\ bus'[c].refs = bus[c].refs /\ bus'[c].first = bus[c].first
                          /\ bus'[c].kill = bus[c].kill /\ bus'[c].active = bus[c].active
                          /\ bus'[c].inProgress = bus[c].inProgress
      /\ \A c \in Buses \ {d} : bus'[c] = bus[c]
  <2>1. bus' \in [Buses -> BusObject] /\ bus'[d] = [bus[d] EXCEPT !.listed = TRUE]
        /\ \A c \in Buses \ {d} : bus'[c] = bus[c]
    <3>1. [bus[d] EXCEPT !.listed = TRUE] \in BusObject
      BY <1>4 DEF BusObject
    <3>. QED
      BY <1>0, <1>4, <3>1 DEF Inv, Types
  <2>2. /\ bus'[d].refs = bus[d].refs /\ bus'[d].first = bus[d].first
        /\ bus'[d].kill = bus[d].kill /\ bus'[d].active = bus[d].active
        /\ bus'[d].inProgress = bus[d].inProgress /\ bus'[d].listed
    BY <1>4, <2>1 DEF BusObject
  <2>. QED
    BY <2>1, <2>2
<1>6. Handles'
  BY <1>0, <1>2, <1>5, SameHandles
<1>7. BusLives'
  <2>1. ~bus[d].kill /\ thread[d].pc # "none"
    BY <1>0, <1>4 DEF Inv, BusLives
  <2>2. \A c \in Buses \ {d} : /\ \A e \in Devices : at[e] # c
                               /\ bus[c] = NoBus /\ thread[c].pc = "none"
    <3>1. \A c \in Buses \ {d} : \A e \in Devices : at[e] # c
      BY <1>1, <1>4 DEF Buses
    <3>. QED
      BY <3>1 DEF Inv, BusLives
  <2>. SUFFICES ASSUME NEW c \in Buses
                PROVE  /\ \A e \in Devices : at[e] = c =>
                            /\ bus'[c].listed <=> adapter'[e] # "link"
                            /\ bus'[c].kill <=> adapter'[e] = "stop"
                            /\ adapter'[e] # "stop" => thread[c].pc # "none"
                       /\ (\A e \in Devices : at[e] # c) =>
                            bus'[c] = NoBus /\ thread[c].pc = "none"
    BY <1>0 DEF BusLives
  <2>3. CASE c = d
    <3>1. \A e \in Devices : at[e] = d => e = d
      BY <1>1, <1>4
    <3>. QED
      BY <1>3, <1>4, <1>5, <2>1, <2>3, <3>1
  <2>4. CASE c # d
    BY <1>5, <2>2, <2>4
  <2>. QED
    BY <2>3, <2>4
<1>8. Listed'
  <2>1. \A c \in Buses : {e \in Devices : at'[e] = c /\ adapter'[e] = "in"}
                          = {e \in Devices : at[e] = c /\ adapter[e] = "in"}
    BY <1>0, <1>3
  <2>. QED
    BY <1>0, <1>5, <2>1 DEF Inv, Listed
<1>9. free[d] = FrameCount /\ pending[d] = <<>> /\ ~CmdPending[d]
  BY <1>0 DEF Inv, Commands
<1>10. Commands'
  BY <1>0, <1>2, <1>4, <1>9, MovedCommands
<1>12. Types'
  BY <1>0, <1>3, <1>5 DEF Inv, Types
<1>. QED
  BY <1>3, <1>6, <1>7, <1>8, <1>10, <1>12 DEF Inv

\* Adapter d goes on with the bus b, of which only the list, the active device and its
\* transfer may change.
LEMMA BusKept ==
  ASSUME Inv, NEW d \in Devices, NEW t \in {"in", "close"}, Moves(d, t),
         adapter[d] \in {"add", "in"}, UNCHANGED <<at, thread>>,
         NEW b \in Buses, b = at[d], Unlocked(b),
         bus' \in [Buses -> BusObject], \A c \in Buses \ {b} : bus'[c] = bus[c],
         bus'[b].listed = bus[b].listed, bus'[b].refs = bus[b].refs, bus'[b].kill = bus[b].kill,
         IsInjective(bus'[b].first), bus'[b].active \in ToSet(bus'[b].first) \cup {NULL},
         IF t = "in" THEN ToSet(bus'[b].first) = ToSet(bus[b].first) \cup {d}
                     ELSE ToSet(bus'[b].first) = ToSet(bus[b].first) \ {d}
  PROVE  OneMoves' /\ Handles' /\ BusLives' /\ Listed'
<1>1. /\ adapter'[d] = t /\ OneMoves' /\ \A e \in Devices \ {d} : adapter'[e] = adapter[e]
  BY Moved
<1>2. /\ \A c \in Buses : /\ bus'[c].listed = bus[c].listed /\ bus'[c].refs = bus[c].refs
                          /\ bus'[c].kill = bus[c].kill
  OBVIOUS
<1>3. Handles'
  BY <1>2, SameHandles
<1>4. BusLives'
  <2>. SUFFICES ASSUME NEW c \in Buses
                PROVE  /\ \A e \in Devices : at[e] = c =>
                            /\ bus[c].listed <=> adapter'[e] # "link"
                            /\ bus[c].kill <=> adapter'[e] = "stop"
                            /\ adapter'[e] # "stop" => thread[c].pc # "none"
                       /\ (\A e \in Devices : at[e] # c) =>
                            bus'[c] = NoBus /\ thread[c].pc = "none"
    BY <1>2 DEF BusLives
  <2>1. /\ \A e \in Devices : at[e] = c =>
             /\ bus[c].listed <=> adapter[e] # "link"
             /\ bus[c].kill <=> adapter[e] = "stop"
             /\ adapter[e] # "stop" => thread[c].pc # "none"
        /\ (\A e \in Devices : at[e] # c) => bus[c] = NoBus /\ thread[c].pc = "none"
    BY DEF Inv, BusLives
  <2>2. \A e \in Devices : /\ adapter'[e] = "link" <=> adapter[e] = "link"
                           /\ adapter'[e] = "stop" <=> adapter[e] = "stop"
    BY <1>1
  <2>3. (\A e \in Devices : at[e] # c) => bus'[c] = bus[c]
    OBVIOUS
  <2>. QED
    BY <2>1, <2>2, <2>3
<1>5. Listed'
  <2>. SUFFICES ASSUME NEW c \in Buses
                PROVE  /\ IsInjective(bus'[c].first)
                       /\ ToSet(bus'[c].first) = {e \in Devices : at[e] = c /\ adapter'[e] = "in"}
                       /\ bus'[c].active \in ToSet(bus'[c].first) \cup {NULL}
                       /\ thread[c].pc \in {"callback", "scan"} =>
                            {thread[c].dev, thread[c].start} \subseteq ToSet(bus'[c].first)
                       /\ thread[c].pc = "callback" => bus'[c].active = thread[c].dev
    BY DEF Listed
  <2>1. ToSet(bus[c].first) = {e \in Devices : at[e] = c /\ adapter[e] = "in"}
    BY DEF Inv, Listed
  <2>2. CASE c = b
    <3>1. ToSet(bus'[c].first) = {e \in Devices : at[e] = c /\ adapter'[e] = "in"}
      <4>1. CASE t = "in"
        BY <1>1, <2>1, <2>2, <4>1
      <4>2. CASE t = "close"
        BY <1>1, <2>1, <2>2, <4>2
      <4>. QED
        BY <4>1, <4>2
    <3>. QED
      BY <2>2, <3>1 DEF Unlocked
  <2>3. CASE c # b
    <3>1. {e \in Devices : at[e] = c /\ adapter'[e] = "in"}
            = {e \in Devices : at[e] = c /\ adapter[e] = "in"}
      BY <1>1, <2>3
    <3>2. bus'[c] = bus[c]
      BY <2>3
    <3>. QED
      BY <3>1, <3>2 DEF Inv, Listed
  <2>. QED
    BY <2>2, <2>3
<1>. QED
  BY <1>1, <1>3, <1>4, <1>5

\* The device is put first in the list of its bus, or refused for its address.
LEMMA AddDeviceStep ==
  ASSUME Inv, NEW d \in Devices, AddDevice(d)
  PROVE  Inv'
<1>. DEFINE taken == \E e \in ToSet(bus[at[d]].first) : address[e] = address[d]
            t == IF taken THEN "close" ELSE "in"
<1>1. /\ adapter[d] = "add" /\ Adapter(d, "add", t) /\ Unlocked(at[d])
      /\ bus' = IF taken THEN bus ELSE [bus EXCEPT ![at[d]].first = <<d>> \o @]
      /\ UNCHANGED <<address, at, free, pending, CmdPending, engine, thread, hw>>
  BY DEF AddDevice, Adapter, lists
<1>2. t \in {"in", "close"}
  OBVIOUS
<1>3. \A e \in Devices \ {d} : Resting(e)
  BY <1>1, OthersRest DEF Resting
<1>4. Moves(d, t)
  BY <1>1, <1>2, <1>3 DEF Moves, Adapter
<1>5. PICK b \in Buses : b = at[d]
  BY <1>1 DEF Inv, Types, Handles
<1>6. /\ bus[b] \in BusObject /\ bus[b].first \in Seq(Devices) /\ IsInjective(bus[b].first)
      /\ ToSet(bus[b].first) = {e \in Devices : at[e] = b /\ adapter[e] = "in"}
      /\ bus[b].active \in ToSet(bus[b].first) \cup {NULL}
  BY DEF Inv, Types, Listed, BusObject
<1>7. d \notin ToSet(bus[b].first)
  BY <1>1, <1>6
<1>8. /\ bus' \in [Buses -> BusObject] /\ \A c \in Buses \ {b} : bus'[c] = bus[c]
      /\ bus'[b].listed = bus[b].listed /\ bus'[b].refs = bus[b].refs
      /\ bus'[b].kill = bus[b].kill /\ bus'[b].active = bus[b].active
      /\ bus'[b].inProgress = bus[b].inProgress
      /\ IsInjective(bus'[b].first) /\ bus'[b].active \in ToSet(bus'[b].first) \cup {NULL}
      /\ IF t = "in" THEN ToSet(bus'[b].first) = ToSet(bus[b].first) \cup {d}
                     ELSE ToSet(bus'[b].first) = ToSet(bus[b].first) \ {d}
  <2>1. CASE taken
    <3>1. bus' = bus /\ t = "close"
      BY <1>1, <2>1
    <3>2. bus \in [Buses -> BusObject]
      BY DEF Inv, Types
    <3>. HIDE DEF taken, t
    <3>. QED
      BY <1>6, <1>7, <3>1, <3>2
  <2>2. CASE ~taken
    <3>. DEFINE s == <<d>> \o bus[b].first
    <3>1. s \in Seq(Devices) /\ IsInjective(s) /\ ToSet(s) = ToSet(bus[b].first) \cup {d}
      BY <1>6, <1>7, AddedList
    <3>2. bus' = [bus EXCEPT ![b] = [bus[b] EXCEPT !.first = s]] /\ t = "in"
      BY <1>1, <1>5, <2>2
    <3>. HIDE DEF s, taken, t
    <3>3. [bus[b] EXCEPT !.first = s] \in BusObject
      BY <1>6, <3>1 DEF BusObject
    <3>4. /\ bus' \in [Buses -> BusObject] /\ \A c \in Buses \ {b} : bus'[c] = bus[c]
          /\ bus'[b] = [bus[b] EXCEPT !.first = s]
      BY <3>2, <3>3 DEF Inv, Types
    <3>5. /\ bus'[b].listed = bus[b].listed /\ bus'[b].refs = bus[b].refs
          /\ bus'[b].kill = bus[b].kill /\ bus'[b].active = bus[b].active
          /\ bus'[b].inProgress = bus[b].inProgress /\ bus'[b].first = s
      BY <1>6, <3>4 DEF BusObject
    <3>. QED
      BY <1>6, <3>1, <3>2, <3>4, <3>5
  <2>. QED
    BY <2>1, <2>2
<1>. HIDE DEF t, taken
<1>9. OneMoves' /\ Handles' /\ BusLives' /\ Listed'
  <2>1. Unlocked(b) /\ UNCHANGED <<at, thread>> /\ adapter[d] \in {"add", "in"}
    BY <1>1, <1>5
  <2>. QED
    BY <1>2, <1>4, <1>5, <1>8, <2>1, BusKept
<1>10. free[d] = FrameCount /\ pending[d] = <<>> /\ ~CmdPending[d] /\ engine[d] = 0
  BY <1>1 DEF Inv, Commands
<1>11. ~Told(d)'
  BY <1>1 DEF Told, Unlocked
<1>12. Commands'
  BY <1>1, <1>4, <1>10, <1>11, MovedCommands
<1>14. Types'
  BY <1>1, <1>4, <1>8, Moved DEF Inv, Types
<1>. QED
  BY <1>9, <1>12, <1>14 DEF Inv

\* The device leaves the list.
LEMMA RemoveDeviceStep ==
  ASSUME Inv, "open" \notin Overlap, NEW d \in Devices, RemoveDevice(d)
  PROVE  Inv'
<1>. DEFINE b0 == at[d]
            isActive == bus[b0].active = d
            new == [bus[b0] EXCEPT !.first = RemoveAt(@, Place(b0, d)),
                                   !.active = IF isActive THEN NULL ELSE @,
                                   !.inProgress = @ /\ ~isActive,
                                   !.event = @ \/ isActive]
<1>1. /\ adapter[d] = "in" /\ Adapter(d, "in", "close") /\ Unlocked(b0) /\ engine[d] = 0
      /\ bus' = [bus EXCEPT ![b0] = new]
      /\ UNCHANGED <<address, at, free, pending, CmdPending, engine, thread, hw>>
  <2>1. adapter[d] = "in" /\ Adapter(d, "in", "close") /\ Unlocked(b0) /\ engine[d] = 0
    BY DEF RemoveDevice, Adapter
  <2>3. bus' = [bus EXCEPT ![b0] = new]
    BY DEF RemoveDevice
  <2>4. UNCHANGED <<address, at, free, pending, CmdPending, engine, thread, hw>>
    BY DEF RemoveDevice, lists
  <2>. QED
    BY <2>1, <2>3, <2>4
<1>2. \A e \in Devices \ {d} : Resting(e)
  BY DEF Inv, Types, RemoveDevice, Settled, Resting
<1>3. Moves(d, "close")
  BY <1>1, <1>2 DEF Moves, Adapter
<1>4. PICK b \in Buses : b = b0
  BY <1>1 DEF Inv, Types, Handles
<1>5. /\ bus[b] \in BusObject /\ bus[b].first \in Seq(Devices) /\ IsInjective(bus[b].first)
      /\ ToSet(bus[b].first) = {e \in Devices : at[e] = b /\ adapter[e] = "in"}
      /\ bus[b].active \in ToSet(bus[b].first) \cup {NULL}
      /\ bus \in [Buses -> BusObject]
  BY DEF Inv, Types, Listed, BusObject
<1>6. d \in ToSet(bus[b].first) /\ d # NULL /\ b = at[d]
  BY <1>1, <1>4, <1>5, MdioAssumption
<1>7. Place(b, d) \in 1 .. Len(bus[b].first) /\ bus[b].first[Place(b, d)] = d
  BY <1>5, <1>6, PlaceInList
<1>. DEFINE s == RemoveAt(bus[b].first, Place(b, d))
<1>8. s \in Seq(Devices) /\ IsInjective(s) /\ ToSet(s) = ToSet(bus[b].first) \ {d}
  BY <1>5, <1>7, RemovedList
<1>9. /\ new.listed = bus[b].listed /\ new.refs = bus[b].refs /\ new.kill = bus[b].kill
      /\ new.first = s /\ new.active = (IF isActive THEN NULL ELSE bus[b].active)
      /\ new.inProgress = (bus[b].inProgress /\ ~isActive) /\ new \in BusObject
  <2>1. new = [bus[b] EXCEPT !.first = s,
                             !.active = IF isActive THEN NULL ELSE bus[b].active,
                             !.inProgress = bus[b].inProgress /\ ~isActive,
                             !.event = bus[b].event \/ isActive]
    BY <1>4
  <2>2. /\ (IF isActive THEN NULL ELSE bus[b].active) \in Devices \cup {NULL}
        /\ (bus[b].inProgress /\ ~isActive) \in BOOLEAN /\ (bus[b].event \/ isActive) \in BOOLEAN
    BY <1>5 DEF BusObject
  <2>. HIDE DEF s, isActive, new
  <2>. QED
    BY <1>5, <1>8, <2>1, <2>2 DEF BusObject
<1>10. isActive <=> bus[b].active = d
  BY <1>4
<1>. HIDE DEF new, s, isActive, b0
<1>11. /\ bus' \in [Buses -> BusObject] /\ bus'[b] = new
       /\ \A c \in Buses \ {b} : bus'[c] = bus[c]
  BY <1>1, <1>4, <1>5, <1>9
<1>12. bus'[b].active \in ToSet(bus'[b].first) \cup {NULL}
  BY <1>5, <1>8, <1>9, <1>10, <1>11
<1>13. OneMoves' /\ Handles' /\ BusLives' /\ Listed'
  <2>1. Unlocked(b) /\ at' = at /\ thread' = thread
    BY <1>1, <1>4
  <2>. QED
    BY <1>1, <1>3, <1>6, <1>8, <1>9, <1>11, <1>12, <2>1, BusKept
<1>14. Commands'
  BY <1>1, <1>3, MovedCommands
<1>16. Types'
  BY <1>1, <1>3, <1>11, Moved DEF Inv, Types
<1>. QED
  BY <1>13, <1>14, <1>16 DEF Inv

\* Adapter d gives its handle back.
LEMMA HandleLess ==
  ASSUME Inv, NEW d \in Devices, NEW t \in {"stop", "out"}, Moves(d, t), adapter[d] = "close",
         NEW b \in Buses, b = at[d], t = "stop" <=> bus[b].refs = 1,
         at' = IF t = "stop" THEN at ELSE [at EXCEPT ![d] = NULL],
         \A c \in Buses \ {b} : bus'[c].refs = bus[c].refs, bus'[b].refs = bus[b].refs - 1
  PROVE  Handles'
<1>1. adapter'[d] = t /\ \A e \in Devices \ {d} : adapter'[e] = adapter[e]
  BY Moved
<1>2. /\ \A e \in Devices \ {d} : at'[e] = at[e]
      /\ at'[d] = (IF t = "stop" THEN b ELSE NULL) /\ NULL \notin Buses
  BY MdioAssumption DEF Inv, Types, Buses
<1>3. d \in HandlesOf(b) /\ HandlesOf(b)' = HandlesOf(b) \ {d}
  BY <1>1, <1>2 DEF HandlesOf
<1>4. \A c \in Buses \ {b} : HandlesOf(c)' = HandlesOf(c)
  BY <1>1, <1>2 DEF HandlesOf
<1>5. \A c \in Buses : bus[c].refs = Cardinality(HandlesOf(c))
  BY DEF Inv, Handles
<1>6. \A c \in Buses : bus'[c].refs = Cardinality(HandlesOf(c)')
  BY <1>3, <1>4, <1>5, OneHandleLess
<1>7. \A e \in Devices : at'[e] = NULL <=> adapter'[e] \in {"out", "create"}
  BY <1>1, <1>2 DEF Inv, Handles
<1>8. \A e \in Devices : adapter'[e] = "link" => at'[e] = e
  BY <1>1, <1>2 DEF Inv, Handles
<1>9. \A e, x \in Devices : at'[e] # NULL /\ at'[x] # NULL => at'[e] = at'[x]
  <2>1. \A e \in Devices : at'[e] = at[e] \/ at'[e] = NULL
    BY <1>2
  <2>. QED
    BY <2>1 DEF Inv, Handles
<1>. QED
  BY <1>6, <1>7, <1>8, <1>9 DEF Handles

\* The handle is given back, and the last one stops the thread.
LEMMA CloseBusStep ==
  ASSUME Inv, NEW d \in Devices, CloseBus(d)
  PROVE  Inv'
<1>. DEFINE b0 == at[d]
            last == bus[b0].refs = 1
            t == IF last THEN "stop" ELSE "out"
<1>1. /\ adapter[d] = "close" /\ Adapter(d, "close", t)
      /\ bus' = [bus EXCEPT ![b0].refs = @ - 1, ![b0].kill = last]
      /\ at' = (IF last THEN at ELSE [at EXCEPT ![d] = NULL])
      /\ UNCHANGED <<address, free, pending, CmdPending, engine, thread, hw>>
  BY DEF CloseBus, Adapter, lists
<1>2. PICK b \in Buses : b = b0
  BY <1>1 DEF Inv, Types, Handles
<1>3. /\ t \in {"stop", "out"} /\ (t = "stop" <=> bus[b].refs = 1) /\ (last <=> bus[b].refs = 1)
      /\ b = at[d] /\ last \in BOOLEAN
  BY <1>2
<1>4. /\ bus' = [bus EXCEPT ![b] = [bus[b] EXCEPT !.refs = bus[b].refs - 1, !.kill = last]]
      /\ at' = (IF t = "stop" THEN at ELSE [at EXCEPT ![d] = NULL])
  BY <1>1, <1>2
<1>. HIDE DEF t, last, b0
<1>5. /\ engine[d] = 0 /\ NULL \notin Buses /\ d \in HandlesOf(b)
      /\ bus[b] \in BusObject /\ bus \in [Buses -> BusObject]
      /\ bus[b].listed /\ thread[b].pc # "none" /\ ~bus[b].kill
  BY <1>1, <1>3, MdioAssumption DEF Inv, Types, Commands, Buses, HandlesOf, BusLives
<1>6. \A e \in Devices \ {d} : Resting(e) /\ (at[e] # NULL => e \in HandlesOf(b))
  <2>. TAKE e \in Devices \ {d}
  <2>1. Resting(e)
    BY <1>1, OthersRest DEF Resting
  <2>2. at[e] # NULL => at[e] = b
    BY <1>3, OneBus
  <2>. QED
    BY <2>1, <2>2 DEF HandlesOf, Resting
<1>7. t = "stop" => \A e \in Devices \ {d} : at[e] = NULL /\ adapter[e] = "out"
  <2>1. t = "stop" => HandlesOf(b) = {d}
    BY <1>3, <1>5, LastHandle
  <2>2. t = "stop" => \A e \in Devices \ {d} : at[e] = NULL
    BY <1>6, <2>1
  <2>3. \A e \in Devices \ {d} : at[e] = NULL <=> adapter[e] = "out"
    BY <1>1, OthersRest DEF Resting
  <2>. QED
    BY <2>2, <2>3
<1>8. t # "stop" => \E e \in Devices \ {d} : at[e] = b
  <2>1. t # "stop" => HandlesOf(b) # {d}
    BY <1>3, <1>5, LastHandle
  <2>2. t # "stop" => \E e \in HandlesOf(b) : e # d
    BY <1>5, <2>1
  <2>. QED
    BY <2>2 DEF HandlesOf
<1>9. Moves(d, t)
  BY <1>1, <1>3, <1>6, <1>7 DEF Moves, Adapter
<1>10. /\ adapter'[d] = t /\ (\A e \in Devices \ {d} : adapter'[e] = adapter[e]) /\ OneMoves'
       /\ adapter' \in [Devices -> {"out", "create", "link", "add", "in", "close", "stop"}]
  BY <1>9, Moved
<1>11. /\ \A e \in Devices \ {d} : at'[e] = at[e]
       /\ at'[d] = (IF t = "stop" THEN b ELSE NULL) /\ at' \in [Devices -> Buses \cup {NULL}]
  BY <1>3, <1>4 DEF Inv, Types
<1>12. bus[b].refs - 1 \in Nat
  <2>1. bus[b].refs \in Nat /\ bus[b].refs = Cardinality(HandlesOf(b))
    BY <1>5 DEF BusObject, Inv, Handles
  <2>2. HandlesOf(b) \subseteq Devices
    BY DEF HandlesOf
  <2>3. bus[b].refs # 0
    BY <1>5, <2>1, <2>2, MdioAssumption, FS_Subset, FS_EmptySet
  <2>. QED
    BY <2>1, <2>3
<1>13. /\ bus' \in [Buses -> BusObject] /\ \A c \in Buses \ {b} : bus'[c] = bus[c]
       /\ bus'[b].refs = bus[b].refs - 1 /\ (bus'[b].kill <=> t = "stop")
       /\ bus'[b].listed = bus[b].listed /\ bus'[b].first = bus[b].first
       /\ bus'[b].active = bus[b].active /\ bus'[b].inProgress = bus[b].inProgress
  <2>. DEFINE new == [bus[b] EXCEPT !.refs = bus[b].refs - 1, !.kill = last]
  <2>1. /\ new \in BusObject /\ new.refs = bus[b].refs - 1 /\ new.kill = last
        /\ new.listed = bus[b].listed /\ new.first = bus[b].first
        /\ new.active = bus[b].active /\ new.inProgress = bus[b].inProgress
    BY <1>3, <1>5, <1>12 DEF BusObject
  <2>. HIDE DEF new
  <2>2. bus' = [bus EXCEPT ![b] = new]
    BY <1>4 DEF new
  <2>3. bus' \in [Buses -> BusObject] /\ bus'[b] = new /\ \A c \in Buses \ {b} : bus'[c] = bus[c]
    BY <1>5, <2>1, <2>2
  <2>. QED
    BY <1>3, <2>1, <2>3
<1>14. Handles'
  <2>1. \A c \in Buses \ {b} : bus'[c].refs = bus[c].refs
    BY <1>13
  <2>2. bus'[b].refs = bus[b].refs - 1 /\ adapter[d] = "close"
    BY <1>1, <1>13
  <2>. QED
    BY <1>3, <1>4, <1>9, <2>1, <2>2, HandleLess
<1>15. BusLives'
  <2>. SUFFICES ASSUME NEW c \in Buses
                PROVE  /\ \A e \in Devices : at'[e] = c =>
                            /\ bus'[c].listed <=> adapter'[e] # "link"
                            /\ bus'[c].kill <=> adapter'[e] = "stop"
                            /\ adapter'[e] # "stop" => thread[c].pc # "none"
                       /\ (\A e \in Devices : at'[e] # c) =>
                            bus'[c] = NoBus /\ thread[c].pc = "none"
    BY <1>1 DEF BusLives
  <2>1. CASE c = b
    <3>1. \E e \in Devices : at'[e] = b
      BY <1>8, <1>11
    <3>2. ASSUME NEW e \in Devices, at'[e] = b
          PROVE  adapter'[e] # "link" /\ (adapter'[e] = "stop" <=> t = "stop")
      <4>1. CASE e = d
        BY <1>3, <1>10, <4>1
      <4>2. CASE e # d
        <5>1. adapter'[e] \in {"out", "in"} /\ at[e] = b
          BY <1>6, <1>10, <1>11, <3>2, <4>2 DEF Resting
        <5>2. t # "stop"
          BY <1>3, <1>5, <1>7, <4>2, <5>1
        <5>. QED
          BY <5>1, <5>2
      <4>. QED
        BY <4>1, <4>2
    <3>. QED
      BY <1>5, <1>13, <2>1, <3>1, <3>2
  <2>2. CASE c # b
    <3>1. \A e \in Devices : at[e] # c /\ at'[e] # c
      BY <1>3, <1>5, <1>11, <2>2, OneBus
    <3>2. bus'[c] = bus[c]
      BY <1>13, <2>2
    <3>. QED
      BY <3>1, <3>2 DEF Inv, BusLives
  <2>. QED
    BY <2>1, <2>2
<1>16. Listed'
  <2>1. \A c \in Buses : {e \in Devices : at'[e] = c /\ adapter'[e] = "in"}
                          = {e \in Devices : at[e] = c /\ adapter[e] = "in"}
    BY <1>1, <1>3, <1>10, <1>11
  <2>2. \A c \in Buses : bus'[c].first = bus[c].first /\ bus'[c].active = bus[c].active
    BY <1>13
  <2>3. thread' = thread
    BY <1>1
  <2>. QED
    BY <2>1, <2>2, <2>3 DEF Inv, Listed
<1>17. Commands'
  BY <1>1, <1>3, <1>5, <1>9, <1>11, MovedCommands
<1>19. Types'
  BY <1>1, <1>10, <1>11, <1>13 DEF Inv, Types
<1>. QED
  BY <1>10, <1>14, <1>15, <1>16, <1>17, <1>19 DEF Inv

\* The bus goes with its last handle, when its thread has ended.
LEMMA FreeBusStep ==
  ASSUME Inv, NEW d \in Devices, FreeBus(d)
  PROVE  Inv'
<1>1. /\ adapter[d] = "stop" /\ Adapter(d, "stop", "out") /\ thread[at[d]].pc = "none"
      /\ bus' = [bus EXCEPT ![at[d]] = NoBus] /\ at' = [at EXCEPT ![d] = NULL]
      /\ UNCHANGED <<address, free, pending, CmdPending, engine, thread, hw>>
  BY DEF FreeBus, Adapter, lists
<1>2. PICK b \in Buses : b = at[d]
  BY <1>1 DEF Inv, Types, Handles
<1>3. \A e \in Devices \ {d} : Resting(e) /\ adapter[e] = "out" /\ at[e] = NULL
  BY <1>1, OthersRest DEF Resting
<1>4. Moves(d, "out")
  BY <1>1, <1>3 DEF Moves, Adapter
<1>5. /\ adapter'[d] = "out" /\ (\A e \in Devices \ {d} : adapter'[e] = adapter[e]) /\ OneMoves'
      /\ adapter' \in [Devices -> {"out", "create", "link", "add", "in", "close", "stop"}]
  BY <1>4, Moved
<1>6. /\ NULL \notin Buses /\ at' \in [Devices -> Buses \cup {NULL}] /\ engine[d] = 0
      /\ \A e \in Devices : at'[e] = NULL /\ adapter'[e] = "out"
  BY <1>1, <1>3, <1>5, MdioAssumption DEF Inv, Types, Buses, Commands
<1>7. /\ NoBus \in BusObject /\ NoBus.refs = 0 /\ NoBus.first = <<>> /\ NoBus.active = NULL
      /\ ~NoBus.inProgress
  <2>1. <<>> \in Seq(Devices) /\ 0 \in Nat
    OBVIOUS
  <2>. QED
    BY <2>1 DEF NoBus, BusObject
<1>8. bus' \in [Buses -> BusObject] /\ \A c \in Buses : bus'[c] = NoBus /\ thread[c].pc = "none"
  <2>1. \A c \in Buses \ {b} : \A e \in Devices : at[e] # c
    BY <1>2, <1>3, <1>6
  <2>2. \A c \in Buses \ {b} : bus[c] = NoBus /\ thread[c].pc = "none"
    BY <2>1 DEF Inv, BusLives
  <2>. QED
    BY <1>1, <1>2, <1>7, <2>2 DEF Inv, Types
<1>9. Handles'
  <2>1. \A c \in Buses : HandlesOf(c)' = {}
    BY <1>6 DEF HandlesOf
  <2>. QED
    BY <1>6, <1>7, <1>8, <2>1, FS_EmptySet DEF Handles
<1>10. BusLives'
  BY <1>1, <1>6, <1>8 DEF BusLives
<1>11. Listed'
  <2>1. IsInjective(<<>>) /\ ToSet(<<>>) = {}
    BY DEF IsInjective, ToSet
  <2>2. \A c \in Buses : {e \in Devices : at'[e] = c /\ adapter'[e] = "in"} = {}
    BY <1>6
  <2>. QED
    BY <1>1, <1>7, <1>8, <2>1, <2>2 DEF Listed
<1>12. Commands'
  BY <1>1, <1>4, <1>6, MovedCommands
<1>14. Types'
  BY <1>1, <1>5, <1>6, <1>8 DEF Inv, Types
<1>. QED
  BY <1>5, <1>9, <1>10, <1>11, <1>12, <1>14 DEF Inv

-----------------------------------------------------------------------------
(* The theorems: adapters come and go one at a time.                       *)

\* Initially there is no bus and no adapter.
LEMMA InitInv == Init => Inv
<1>. SUFFICES ASSUME Init PROVE Inv
  OBVIOUS
<1>1. <<>> \in Seq(Devices) /\ <<>> \in Seq(BOOLEAN) /\ 0 \in Nat /\ 0 \in 0 .. FrameCount
  BY Numbers
<1>2. /\ NoBus \in BusObject /\ NoBus.refs = 0 /\ NoBus.first = <<>> /\ NoBus.active = NULL
      /\ ~NoBus.inProgress
  BY <1>1 DEF NoBus, BusObject
<1>3. Types
  <2>1. bus \in [Buses -> BusObject]
    BY <1>2 DEF Init
  <2>2. thread \in [Buses -> ThreadObject]
    BY DEF Init, ThreadObject
  <2>. QED
    BY <1>1, <2>1, <2>2 DEF Init, Types, Controller
<1>4. OneMoves
  BY DEF Init, OneMoves, Resting
<1>5. /\ \A c \in Buses : bus[c] = NoBus /\ thread[c].pc = "none"
      /\ \A d \in Devices : at[d] = NULL /\ adapter[d] = "out"
      /\ NULL \notin Buses
  BY MdioAssumption DEF Init, Buses
<1>6. Handles
  <2>1. \A c \in Buses : HandlesOf(c) = {}
    BY <1>5 DEF HandlesOf
  <2>. QED
    BY <1>2, <1>5, <2>1, FS_EmptySet DEF Handles
<1>7. BusLives
  BY <1>5 DEF BusLives
<1>8. Listed
  <2>1. IsInjective(<<>>) /\ ToSet(<<>>) = {}
    BY DEF IsInjective, ToSet
  <2>2. \A c \in Buses : {e \in Devices : at[e] = c /\ adapter[e] = "in"} = {}
    BY <1>5
  <2>. QED
    BY <1>2, <1>5, <2>1, <2>2 DEF Listed
<1>9. Commands
  BY <1>5 DEF Init, Commands
<1>. QED
  BY <1>3, <1>4, <1>6, <1>7, <1>8, <1>9 DEF Inv

\* The invariant is inductive.
LEMMA NextInv ==
  ASSUME "open" \notin Overlap, "map" \notin Overlap, Inv, [Next]_vars
  PROVE  Inv'
<1>1. ASSUME NEW d \in Devices, AdapterStep(d) PROVE Inv'
  BY <1>1, OpenBusStep, CreateBusStep, LinkBusStep, AddDeviceStep, RemoveDeviceStep,
     CloseBusStep, FreeBusStep, StateEngineStep, QueueReadStep DEF AdapterStep
<1>2. ASSUME NEW b \in Buses, MDIOBus_Main(b) \/ TimerExpires(b) PROVE Inv'
  BY <1>2, TimerSteps, FinishTransferStep, NothingDoneStep, CallbackStep, ScanDeviceStep
     DEF MDIOBus_Main
<1>3. CASE HwTransferDone
  BY <1>3, HwTransferDoneStep
<1>4. CASE UNCHANGED vars
  <2>1. UNCHANGED <<address, adapter, at, free, pending, CmdPending, engine, bus, thread, hw>>
    BY <1>4 DEF vars, devs, lists
  <2>2. \A c \in Buses : HandlesOf(c)' = HandlesOf(c)
    BY <2>1 DEF HandlesOf
  <2>3. Types' /\ OneMoves' /\ BusLives' /\ Listed' /\ Commands'
    BY <2>1 DEF Inv, Types, OneMoves, Resting, BusLives, Listed, Commands, Told
  <2>4. Handles'
    BY <2>1, <2>2 DEF Inv, Handles
  <2>. QED
    BY <2>3, <2>4 DEF Inv
<1>. QED
  BY <1>1, <1>2, <1>3, <1>4 DEF Next

\* The invariant holds in every reachable state.
THEOREM Invariance ==
  ASSUME "open" \notin Overlap, "map" \notin Overlap PROVE Spec => []Inv
<1>1. Init => Inv
  BY InitInv
<1>2. Inv /\ [Next]_vars => Inv'
  BY NextInv
<1>. QED
  BY <1>1, <1>2, PTL DEF Spec

\* Every variable has its type; all devices share one bus and one thread, which lives as
\* long as one of them has a handle, and the reference count is the number of handles
\* (MDIOBus_Open, MDIOBus_Close).
THEOREM TypeCorrect ==
  ASSUME "open" \notin Overlap, "map" \notin Overlap PROVE Spec => []TypeOK
<1>1. Inv => TypeOK
  <2>. SUFFICES ASSUME Inv PROVE TypeOK
    OBVIOUS
  <2>1. /\ address \in [Devices -> Addresses]
        /\ adapter \in [Devices -> {"out", "create", "link", "add", "in", "close", "stop"}]
        /\ at \in [Devices -> Buses \cup {NULL}]
        /\ free \in [Devices -> 0 .. FrameCount]
        /\ \A d \in Devices : pending[d] \in Seq(BOOLEAN)
        /\ CmdPending \in [Devices -> BOOLEAN]
        /\ engine \in [Devices -> Reads \cup {0}]
    BY DEF Inv, Types
  <2>2. thread \in [Buses -> [pc : {"none", "wait", "callback", "scan", "rearm"},
                              dev : Devices \cup {NULL}, start : Devices \cup {NULL},
                              last : BOOLEAN]]
        /\ hw \in [mii : BOOLEAN, mmfr : Devices \cup {NULL}, busy : BOOLEAN]
    BY DEF Inv, Types, ThreadObject, Controller
  <2>3. ASSUME NEW b \in Buses
        PROVE  /\ bus[b].listed \in BOOLEAN /\ bus[b].refs = Cardinality(HandlesOf(b))
               /\ bus[b].first \in Seq(Devices) /\ bus[b].active \in Devices \cup {NULL}
               /\ {bus[b].inProgress, bus[b].event, bus[b].kill} \subseteq BOOLEAN
               /\ bus[b].timer \in {"off", "set", "signaled"}
    <3>1. bus[b] \in BusObject /\ bus[b].refs = Cardinality(HandlesOf(b))
      BY DEF Inv, Types, Handles
    <3>. QED
      BY <3>1 DEF BusObject
  <2>4. ASSUME NEW b \in Buses, HandlesOf(b) # {}
        PROVE  thread[b].pc # "none" /\ \A c \in Buses \ {b} : HandlesOf(c) = {}
    <3>1. PICK d \in Devices : at[d] = b /\ adapter[d] # "stop"
      BY <2>4 DEF HandlesOf
    <3>2. thread[b].pc # "none"
      BY <3>1 DEF Inv, BusLives
    <3>3. \A c \in Buses \ {b} : \A e \in Devices : at[e] # c
      BY <3>1, OneBus, MdioAssumption DEF Buses
    <3>. QED
      BY <3>2, <3>3 DEF HandlesOf
  <2>. QED
    BY <2>1, <2>2, <2>3, <2>4 DEF TypeOK
<1>2. Spec => []Inv
  BY Invariance
<1>. QED
  BY <1>1, <1>2, PTL

\* A device neither loses frames nor gets some twice (MDIODev_QueueCommand, MDIOBus_Main).
THEOREM FramesKept ==
  ASSUME "open" \notin Overlap, "map" \notin Overlap PROVE Spec => []FramesConserved
<1>1. Inv => FramesConserved
  BY DEF Inv, Commands, FramesConserved
<1>2. Spec => []Inv
  BY Invariance
<1>. QED
  BY <1>1, <1>2, PTL
=============================================================================
