--------------------------- MODULE PlatformProofs ---------------------------
(* What the platform passes on around the audit stays sound, for any clients,   *)
(* messages, callers, adders, signatures, flows, sessions and entities: the     *)
(* stream of events and its bridge, the gate of the LLM calls, the window of    *)
(* messages, the cache of verdicts, the capture of packets into flows and       *)
(* files, the chains of correlated events and the baselines of the anomaly      *)
(* detector, each by an invariant of its own.                                   *)
EXTENDS RecordsProofs

-----------------------------------------------------------------------------
(* The bridge between the buses *)

USE BridgeAssumption

FilterKeys == {KeyOf(m) : m \in Messages}

BridgeTypes ==
    /\ published \subseteq Messages /\ filtered \subseteq published
    /\ channel \in Seq(Messages) /\ IsInjective(channel) /\ Range(channel) \subseteq published
    /\ filter \in Seq(FilterKeys) /\ IsInjective(filter) /\ Len(filter) <= SeenMax
    /\ bridge \in {"on", "dead"} /\ shown \in [Messages -> Nat]

\* What is on its way from the other process was neither shown nor left out yet.
ShownLater ==
    \A m \in Messages :
        /\ m \notin published => shown[m] = 0
        /\ Foreign(m) /\ m \in Range(channel) => shown[m] = 0 /\ m \notin filtered
        /\ m \in filtered => Foreign(m)

\* A key that the filter holds is of an event that came through the channel and was shown.
KeysOfShown ==
    \A k \in Range(filter) : \E n \in published : n \notin Range(channel) /\ KeyOf(n) = k /\ shown[n] = 1

BridgeInv == BridgeTypes /\ ShownLater /\ KeysOfShown /\ ShownOnce /\ LoneIsNotFiltered
-----------------------------------------------------------------------------
LEMMA BridgeInvInit == BridgeInit => BridgeInv
<1> SUFFICES ASSUME BridgeInit PROVE BridgeInv
  OBVIOUS
<1>1. channel = <<>> /\ filter = <<>> /\ published = {} /\ filtered = {} /\ shown = [m \in Messages |-> 0] /\ bridge = "on"
  BY DEF BridgeInit
<1>2. channel \in Seq(Messages) /\ filter \in Seq(FilterKeys) /\ Len(filter) = 0 /\ Range(channel) = {} /\ Range(filter) = {}
      /\ IsInjective(channel) /\ IsInjective(filter)
  BY <1>1 DEF Range, IsInjective
<1> QED BY <1>1, <1>2 DEF BridgeInv, BridgeTypes, ShownLater, KeysOfShown, ShownOnce, LoneIsNotFiltered

\* A key that is forgotten leaves the filter; one that is remembered is in it, at its end.
LEMMA KeyForgotten ==
    ASSUME BridgeTypes, NEW k
    PROVE  LET f == Forgotten(filter, k) IN
           /\ f \in Seq(FilterKeys) /\ IsInjective(f) /\ Range(f) = Range(filter) \ {k}
           /\ Len(f) = IF k \in Range(filter) THEN Len(filter) - 1 ELSE Len(filter)
<1> DEFINE f == Forgotten(filter, k)
           i == CHOOSE j \in DOMAIN filter : filter[j] = k
<1>1. /\ filter \in Seq(FilterKeys) /\ IsInjective(filter) /\ DOMAIN filter = 1..Len(filter)
      /\ \A x : x \in Range(filter) <=> \E j \in 1..Len(filter) : filter[j] = x
  BY SeqShape DEF BridgeTypes
<1>2. CASE k \in Range(filter)
  <2>1. i \in 1..Len(filter) /\ filter[i] = k
    BY <1>1, <1>2
  <2>2. f = RemoveAt(filter, i)
    BY <1>1, <1>2, SMTT(30) DEF Forgotten, Contains
  <2> HIDE DEF f, i
  <2>3. f \in Seq(FilterKeys) /\ Len(f) = Len(filter) - 1 /\ IsInjective(f) /\ Range(f) = Range(filter) \ {filter[i]}
    BY <1>1, <2>1, <2>2, RangeWithout
  <2> QED BY <1>2, <2>1, <2>3 DEF f
<1>3. CASE k \notin Range(filter)
  BY <1>1, <1>3 DEF Forgotten, Contains
<1> QED BY <1>2, <1>3

LEMMA KeyRemembered ==
    ASSUME BridgeTypes, NEW k \in FilterKeys
    PROVE  LET f == Remembered(filter, k) IN
           f \in Seq(FilterKeys) /\ IsInjective(f) /\ Len(f) <= SeenMax /\ Range(f) \subseteq Range(filter) \cup {k}
<1> DEFINE e == Forgotten(filter, k)
           g == Append(e, k)
<1>1. /\ e \in Seq(FilterKeys) /\ IsInjective(e) /\ Range(e) = Range(filter) \ {k}
      /\ Len(e) = IF k \in Range(filter) THEN Len(filter) - 1 ELSE Len(filter)
  BY KeyForgotten
<1> HIDE DEF e
<1>2. g \in Seq(FilterKeys) /\ IsInjective(g) /\ Range(g) = Range(e) \cup {k} /\ Len(g) = Len(e) + 1
  BY <1>1, RangeAppend
<1> HIDE DEF g
<1>3. Len(filter) \in Nat /\ Len(e) \in Nat /\ SeenMax \in Nat \ {0} /\ Len(filter) <= SeenMax
  BY <1>1, SeqShape DEF BridgeTypes
<1>4. Len(g) <= SeenMax + 1 /\ Len(g) \in Nat /\ (Len(g) > SeenMax => Len(g) # 0)
  BY <1>1, <1>2, <1>3
<1>5. Remembered(filter, k) = IF Len(g) > SeenMax THEN Tail(g) ELSE g
  BY DEF Remembered, g, e
<1>6. CASE Len(g) > SeenMax
  <2>1. g # <<>>
    BY <1>4, <1>6
  <2>2. Tail(g) \in Seq(FilterKeys) /\ Len(Tail(g)) = Len(g) - 1 /\ Range(Tail(g)) \subseteq Range(g) /\ IsInjective(Tail(g))
    BY <1>2, <2>1, RangeTail
  <2>3. Len(Tail(g)) <= SeenMax
    BY <1>3, <1>4, <2>2
  <2> QED BY <1>1, <1>2, <1>5, <1>6, <2>2, <2>3
<1>7. CASE ~(Len(g) > SeenMax)
  BY <1>1, <1>2, <1>3, <1>4, <1>5, <1>7
<1> QED BY <1>6, <1>7

LEMMA BridgeInvStep == BridgeInv /\ [BridgeNext]_bridgeVars => BridgeInv'
<1> SUFFICES ASSUME BridgeInv, [BridgeNext]_bridgeVars PROVE BridgeInv'
  OBVIOUS
<1> USE DEF BridgeInv
<1>t. /\ published \subseteq Messages /\ filtered \subseteq published
      /\ channel \in Seq(Messages) /\ IsInjective(channel) /\ Range(channel) \subseteq published
      /\ filter \in Seq(FilterKeys) /\ IsInjective(filter) /\ Len(filter) <= SeenMax
      /\ bridge \in {"on", "dead"} /\ shown \in [Messages -> Nat]
  BY DEF BridgeTypes
<1>1. ASSUME NEW m \in Messages, PublishMessage(m) PROVE BridgeInv'
  <2>1. /\ m \notin published /\ published' = published \cup {m} /\ channel' = Append(channel, m)
        /\ UNCHANGED <<filter, bridge, filtered>>
        /\ shown' = IF Foreign(m) THEN shown ELSE [shown EXCEPT ![m] = @ + 1]
    BY <1>1 DEF PublishMessage, Shows, Foreign
  <2>2. shown[m] = 0 /\ m \notin Range(channel) /\ m \notin filtered
    BY <1>t, <2>1 DEF ShownLater
  <2>3. channel' \in Seq(Messages) /\ Range(channel') = Range(channel) \cup {m} /\ IsInjective(channel')
    BY <1>t, <2>1, <2>2, RangeAppend
  <2>4. shown' \in [Messages -> Nat] /\ (\A n \in Messages : n # m => shown'[n] = shown[n])
        /\ shown'[m] = IF Foreign(m) THEN 0 ELSE 1
    BY <1>t, <2>1, <2>2
  <2>5. BridgeTypes'
    BY <1>t, <2>1, <2>3, <2>4 DEF BridgeTypes
  <2>6. ShownLater'
    BY <1>t, <2>1, <2>2, <2>3, <2>4 DEF ShownLater, Foreign
  <2>7. KeysOfShown'
    <3> SUFFICES ASSUME NEW k \in Range(filter) PROVE \E n \in published' : n \notin Range(channel') /\ KeyOf(n) = k /\ shown'[n] = 1
      BY <2>1 DEF KeysOfShown, KeyOf
    <3>1. PICK n \in published : n \notin Range(channel) /\ KeyOf(n) = k /\ shown[n] = 1
      BY DEF KeysOfShown
    <3> QED BY <1>t, <2>1, <2>3, <2>4, <3>1
  <2>8. ShownOnce'
    BY <2>4 DEF ShownOnce
  <2>9. LoneIsNotFiltered'
    BY <1>t, <2>1, <2>2, <2>4 DEF LoneIsNotFiltered
  <2> QED BY <2>5, <2>6, <2>7, <2>8, <2>9
<1>2. ASSUME BroadcastLost PROVE BridgeInv'
  <2>1. PICK i \in 1..Len(channel) : channel' = RemoveAt(channel, i)
    BY <1>2, <1>t, SeqShape DEF BroadcastLost
  <2>2. channel' \in Seq(Messages) /\ IsInjective(channel') /\ Range(channel') \subseteq Range(channel)
    BY <1>t, <2>1, RangeWithout
  <2>3. UNCHANGED <<published, filter, bridge, shown, filtered>>
    BY <1>2 DEF BroadcastLost
  <2> QED BY <1>t, <2>2, <2>3 DEF BridgeTypes, ShownLater, KeysOfShown, ShownOnce, LoneIsNotFiltered, Foreign, KeyOf
<1>3. ASSUME Listen PROVE BridgeInv'
  <2> DEFINE m == Head(channel)
  <2>1. channel # <<>> /\ channel' = Tail(channel) /\ UNCHANGED <<published, bridge>>
    BY <1>3 DEF Listen
  <2>2. /\ m \in Messages /\ channel' \in Seq(Messages) /\ IsInjective(channel')
        /\ Range(channel) = Range(channel') \cup {m} /\ m \notin Range(channel')
    BY <1>t, <2>1, RangeTail
  <2>3. \/ ~Foreign(m) /\ UNCHANGED <<filter, shown, filtered>>
        \/ /\ Foreign(m) /\ KeyOf(m) \in Range(filter)
           /\ filtered' = filtered \cup {m}
           /\ filter' = Remembered(filter, KeyOf(m)) /\ shown' = shown
        \/ /\ Foreign(m) /\ KeyOf(m) \notin Range(filter)
           /\ shown' = [shown EXCEPT ![m] = @ + 1] /\ filter' = Remembered(filter, KeyOf(m)) /\ filtered' = filtered
    BY <1>3, <1>t, SeqShape DEF Listen, Shows, Contains
  <2> HIDE DEF m
  <2>4. KeyOf(m) \in FilterKeys
    BY <2>2 DEF FilterKeys
  <2>5. CASE ~Foreign(m) /\ UNCHANGED <<filter, shown, filtered>>
    BY <1>t, <2>1, <2>2, <2>5 DEF BridgeTypes, ShownLater, KeysOfShown, ShownOnce, LoneIsNotFiltered, Foreign, KeyOf
  <2>6. ASSUME filter' = Remembered(filter, KeyOf(m))
        PROVE  filter' \in Seq(FilterKeys) /\ IsInjective(filter') /\ Len(filter') <= SeenMax
               /\ Range(filter') \subseteq Range(filter) \cup {KeyOf(m)}
    BY <2>4, <2>6, KeyRemembered
  <2>7. CASE Foreign(m) /\ KeyOf(m) \in Range(filter) /\ filtered' = filtered \cup {m}
             /\ filter' = Remembered(filter, KeyOf(m)) /\ shown' = shown
    <3>1. PICK n \in published : n \notin Range(channel) /\ KeyOf(n) = KeyOf(m) /\ shown[n] = 1
      BY <2>7 DEF KeysOfShown
    <3>2. n # m /\ Origin[n] = Origin[m] /\ Key[n] = Key[m] /\ m \in published
      BY <1>t, <2>2, <3>1 DEF KeyOf
    <3>3. BridgeTypes'
      BY <1>t, <2>1, <2>2, <2>6, <2>7, <3>2 DEF BridgeTypes
    <3>4. ShownLater'
      BY <1>t, <2>1, <2>2, <2>7 DEF ShownLater, Foreign
    <3>5. KeysOfShown'
      <4> SUFFICES ASSUME NEW k \in Range(filter) PROVE \E l \in published' : l \notin Range(channel') /\ KeyOf(l) = k /\ shown'[l] = 1
        BY <2>6, <2>7 DEF KeysOfShown, KeyOf
      <4>1. PICK l \in published : l \notin Range(channel) /\ KeyOf(l) = k /\ shown[l] = 1
        BY DEF KeysOfShown
      <4> QED BY <2>1, <2>2, <2>7, <4>1
    <3>6. ShownOnce' /\ LoneIsNotFiltered'
      BY <1>t, <2>1, <2>7, <3>1, <3>2 DEF ShownOnce, LoneIsNotFiltered
    <3> QED BY <3>3, <3>4, <3>5, <3>6
  <2>8. CASE Foreign(m) /\ KeyOf(m) \notin Range(filter) /\ filtered' = filtered
             /\ filter' = Remembered(filter, KeyOf(m)) /\ shown' = [shown EXCEPT ![m] = @ + 1]
    <3>1. shown[m] = 0 /\ m \in published
      BY <1>t, <2>2, <2>8 DEF ShownLater
    <3>2. shown' \in [Messages -> Nat] /\ shown'[m] = 1 /\ \A n \in Messages : n # m => shown'[n] = shown[n]
      BY <1>t, <2>2, <2>8, <3>1
    <3>3. BridgeTypes'
      BY <1>t, <2>1, <2>2, <2>6, <2>8, <3>2 DEF BridgeTypes
    <3>4. ShownLater'
      BY <1>t, <2>1, <2>2, <2>8, <3>1, <3>2 DEF ShownLater, Foreign
    <3>5. KeysOfShown'
      <4> SUFFICES ASSUME NEW k \in Range(filter') PROVE \E n \in published' : n \notin Range(channel') /\ KeyOf(n) = k /\ shown'[n] = 1
        BY DEF KeysOfShown, KeyOf
      <4>1. CASE k = KeyOf(m)
        BY <2>1, <2>2, <3>1, <3>2, <4>1
      <4>2. CASE k \in Range(filter)
        <5>1. PICK n \in published : n \notin Range(channel) /\ KeyOf(n) = k /\ shown[n] = 1
          BY <4>2 DEF KeysOfShown
        <5> QED BY <1>t, <2>1, <2>2, <3>1, <3>2, <5>1
      <4> QED BY <2>6, <2>8, <4>1, <4>2
    <3>6. ShownOnce'
      BY <3>2 DEF ShownOnce
    <3>7. LoneIsNotFiltered'
      BY <1>t, <2>1, <2>8, <3>1, <3>2 DEF LoneIsNotFiltered
    <3> QED BY <3>3, <3>4, <3>5, <3>6, <3>7
  <2> QED BY <2>3, <2>5, <2>7, <2>8
<1>4. ASSUME Forgets PROVE BridgeInv'
  <2>1. PICK k \in Range(filter) : filter' = Forgotten(filter, k)
    BY <1>4 DEF Forgets
  <2>2. filter' \in Seq(FilterKeys) /\ IsInjective(filter') /\ Range(filter') \subseteq Range(filter) /\ Len(filter') = Len(filter) - 1
    BY <2>1, KeyForgotten
  <2>3. Len(filter') <= SeenMax
    BY <1>t, <2>2, SeqShape
  <2>4. UNCHANGED <<published, channel, bridge, shown, filtered>>
    BY <1>4 DEF Forgets
  <2> QED BY <1>t, <2>2, <2>3, <2>4 DEF BridgeTypes, ShownLater, KeysOfShown, ShownOnce, LoneIsNotFiltered, Foreign, KeyOf
<1>5. ASSUME BridgeDies PROVE BridgeInv'
  BY <1>5 DEF BridgeDies, BridgeTypes, ShownLater, KeysOfShown, ShownOnce, LoneIsNotFiltered, Foreign, KeyOf
<1>6. CASE UNCHANGED bridgeVars
  BY <1>6 DEF bridgeVars, BridgeTypes, ShownLater, KeysOfShown, ShownOnce, LoneIsNotFiltered, Foreign, KeyOf
<1> QED BY <1>1, <1>2, <1>3, <1>4, <1>5, <1>6 DEF BridgeNext

LEMMA BridgeInvSound == BridgeInv => BridgeTypeOK /\ ShownOnce /\ LoneIsNotFiltered
BY DEF BridgeInv, BridgeTypes, BridgeTypeOK

HIDE BridgeAssumption

-----------------------------------------------------------------------------
(* The stream of events *)

USE StreamAssumption

\* The numbers of q follow each other, up to e.
Ascends(q, e) == \A i \in 1..Len(q) : q[i] = e - Len(q) + i

KnownTo(c) == seen[c] \cup excused[c]
Solid(c, t) == \A u \in seen[c] : t..u \subseteq seen[c]

StreamTypes ==
    /\ boot \in 1..MaxBoots + 1 /\ last \in 0..MaxSeq
    /\ link \in [Clients -> {"off", "opened", "live"}] /\ Cardinality(Subscribed) <= MaxSubscribers
    /\ queue \in [Clients -> Seq(1..MaxSeq)] /\ replay \in [Clients -> Seq(1..MaxSeq)]
    /\ resume \in [Clients -> 0..MaxSeq] /\ lastId \in [Clients -> 0..MaxSeq]
    /\ knownMax \in [Clients -> 0..MaxSeq] /\ epoch \in [Clients -> Nat]
    /\ seen \in [Clients -> SUBSET (1..MaxSeq)] /\ excused \in [Clients -> SUBSET (1..MaxSeq)]
    /\ cut \subseteq Clients /\ late \subseteq Clients

\* What a connection holds: the queue up to the last event, and a replay of this boot.
Connected(c) ==
    /\ link[c] = "off" => queue[c] = <<>>
    /\ link[c] # "live" => replay[c] = <<>>
    /\ link[c] = "live" => epoch[c] = boot
    /\ link[c] = "opened" => resume[c] \in {lastId[c], knownMax[c]}
    /\ Ascends(queue[c], last) /\ Len(queue[c]) <= QueueMax /\ Len(queue[c]) <= last
    /\ \E e \in 0..last : Ascends(replay[c], e) /\ Len(replay[c]) <= ReplayLimit /\ Len(replay[c]) <= e

\* What the browser remembers is of the boot it knows.
SeenWithin(c) ==
    /\ seen[c] \subseteq 1..knownMax[c] /\ epoch[c] <= boot
    /\ epoch[c] = boot => knownMax[c] <= last
    /\ epoch[c] = 0 => lastId[c] = 0 /\ knownMax[c] = 0 /\ (link[c] # "off" => resume[c] = 0)

\* Everything up to the numbers that a connection may resume from is known to the browser,
\* and the rest of the events waits in its replay or in its queue.
HolesKnown(c) ==
    /\ knownMax[c] = 0 => lastId[c] = 0 /\ (link[c] # "off" => resume[c] = 0)
    /\ epoch[c] = boot =>
        lastId[c] <= last /\ 1..lastId[c] \subseteq KnownTo(c) /\ 1..knownMax[c] \subseteq KnownTo(c)
    /\ link[c] = "live" =>
        /\ resume[c] <= last /\ 1..resume[c] \subseteq KnownTo(c)
        /\ knownMax[c] = 0 /\ last > 0 => replay[c] # <<>> \/ queue[c] # <<>>
        /\ 1..last \subseteq KnownTo(c) \cup Range(replay[c]) \cup Range(queue[c])
        /\ replay[c] # <<>> => 1..Head(replay[c]) - 1 \subseteq KnownTo(c)

\* From the next event on, the browser has seen the numbers without a gap: what waits
\* below a number it has seen, it has seen.
TurnsKept(c) ==
    /\ epoch[c] = boot => Solid(c, lastId[c] + 1)
    /\ link[c] = "live" =>
        /\ \A t \in Range(replay[c]) : Solid(c, t)
        /\ \A t \in Range(queue[c]) : t > resume[c] =>
             Solid(c, t) /\ (replay[c] # <<>> /\ t < Head(replay[c]) => t \in seen[c])

ClientInv(c) ==
    /\ Connected(c) /\ SeenWithin(c)
    /\ c \notin cut => HolesKnown(c)
    /\ c \notin late => TurnsKept(c)

StreamInv == StreamTypes /\ \A c \in Clients : ClientInv(c)
-----------------------------------------------------------------------------
\* The members of a row of numbers.
LEMMA AscendsRange ==
    ASSUME NEW q \in Seq(1..MaxSeq), NEW e \in Nat, Ascends(q, e)
    PROVE  /\ Len(q) \in Nat /\ \A x : x \in Range(q) <=> x \in Int /\ e - Len(q) < x /\ x <= e
           /\ q # <<>> => Len(q) >= 1 /\ Head(q) = e - Len(q) + 1
           /\ q = <<>> => Len(q) = 0
<1>1. Len(q) \in Nat /\ \A x : x \in Range(q) <=> \E i \in 1..Len(q) : q[i] = x
  BY SeqShape
<1>2. \A i \in 1..Len(q) : q[i] = e - Len(q) + i
  BY DEF Ascends
<1>3. ASSUME NEW x \in Range(q) PROVE x \in Int /\ e - Len(q) < x /\ x <= e
  <2>1. PICK i \in 1..Len(q) : q[i] = x
    BY <1>1
  <2>2. x = e - Len(q) + i
    BY <1>2, <2>1
  <2> QED BY <1>1, <2>1, <2>2
<1>4. ASSUME NEW x \in Int, e - Len(q) < x, x <= e PROVE x \in Range(q)
  <2>1. x - e + Len(q) \in 1..Len(q) /\ e - Len(q) + (x - e + Len(q)) = x
    BY <1>1, <1>4
  <2> QED BY <1>1, <1>2, <2>1
<1>5. ASSUME q # <<>> PROVE Len(q) >= 1 /\ Head(q) = e - Len(q) + 1
  <2>1. Len(q) >= 1 /\ Head(q) = q[1]
    BY <1>1, <1>5, EmptySeq
  <2> QED BY <1>1, <1>2, <2>1
<1> QED BY <1>1, <1>3, <1>4, <1>5

LEMMA HeadWithin ==
    ASSUME NEW q \in Seq(1..MaxSeq), NEW e \in Nat, Ascends(q, e), q # <<>>, NEW n \in Nat, e <= n
    PROVE  ~(n + 1 < Head(q))
<1>1. Len(q) \in Nat /\ Len(q) >= 1 /\ Head(q) = e - Len(q) + 1
  BY AscendsRange
<1>2. PICK l : l = Len(q)
  OBVIOUS
<1>3. l \in Nat /\ l >= 1 /\ Head(q) = e - l + 1
  BY <1>1, <1>2
<1> QED BY <1>3

LEMMA TailAscends ==
    ASSUME NEW q \in Seq(1..MaxSeq), NEW e \in Nat, Ascends(q, e), q # <<>>
    PROVE  Tail(q) \in Seq(1..MaxSeq) /\ Ascends(Tail(q), e) /\ Len(Tail(q)) = Len(q) - 1
<1> DEFINE t == Tail(q)
<1>1. t \in Seq(1..MaxSeq) /\ Len(t) = Len(q) - 1 /\ \A i \in 1..Len(t) : t[i] = q[i + 1]
  BY HeadTailProperties
<1> HIDE DEF t
<1>2. Len(q) \in Nat /\ \A i \in 1..Len(q) : q[i] = e - Len(q) + i
  BY SeqShape DEF Ascends
<1>3. ASSUME NEW i \in 1..Len(t) PROVE t[i] = e - Len(t) + i
  <2>n. Len(q) \in Nat /\ Len(t) = Len(q) - 1 /\ i \in Nat /\ 1 <= i /\ i <= Len(t)
    BY <1>1, <1>2
  <2>1. i + 1 \in 1..Len(q)
    BY <2>n
  <2>2. e - Len(q) + (i + 1) = e - Len(t) + i
    BY <2>n
  <2>3. t[i] = q[i + 1] /\ q[i + 1] = e - Len(q) + (i + 1)
    BY <1>1, <1>2, <2>1
  <2> QED BY <2>2, <2>3
<1> QED BY <1>1, <1>3 DEF Ascends, t

LEMMA PutAscends ==
    ASSUME NEW q \in Seq(1..MaxSeq), NEW e \in Nat, e < MaxSeq, Ascends(q, e), Len(q) <= QueueMax, Len(q) <= e
    PROVE  LET r == Put(q, e + 1) IN
           /\ r \in Seq(1..MaxSeq) /\ Ascends(r, e + 1) /\ Len(r) <= QueueMax /\ Len(r) <= e + 1
           /\ Len(r) = IF Len(q) < QueueMax THEN Len(q) + 1 ELSE Len(q)
<1> DEFINE p == IF Len(q) < QueueMax THEN q ELSE Tail(q)
           r == Append(p, e + 1)
<1>n. Len(q) \in Nat /\ QueueMax \in Nat \ {0} /\ MaxSeq \in Nat
  BY SeqShape
<1>1. p \in Seq(1..MaxSeq) /\ Ascends(p, e) /\ Len(p) = IF Len(q) < QueueMax THEN Len(q) ELSE Len(q) - 1
  <2>1. CASE Len(q) < QueueMax
    BY <2>1
  <2>2. CASE ~(Len(q) < QueueMax)
    <3>1. q # <<>>
      BY <1>n, <2>2
    <3> QED BY <2>2, <3>1, TailAscends
  <2> QED BY <2>1, <2>2
<1> HIDE DEF p
<1>2. /\ r \in Seq(1..MaxSeq) /\ Len(r) = Len(p) + 1 /\ r[Len(p) + 1] = e + 1
      /\ \A i \in 1..Len(p) : r[i] = p[i]
  <2>1. e + 1 \in 1..MaxSeq
    BY <1>n
  <2> QED BY <1>1, <2>1, AppendProperties
<1>3. r = Put(q, e + 1)
  BY DEF Put, p
<1> HIDE DEF r
<1>4. Len(p) \in Nat /\ \A i \in 1..Len(p) : p[i] = e - Len(p) + i
  BY <1>1, SeqShape DEF Ascends
<1>5. Ascends(r, e + 1)
  <2> SUFFICES ASSUME NEW i \in 1..Len(r) PROVE r[i] = e + 1 - Len(r) + i
    BY DEF Ascends
  <2>1. CASE i \in 1..Len(p)
    <3>1. r[i] = e - Len(p) + i /\ Len(r) = Len(p) + 1
      BY <1>2, <1>4, <2>1
    <3> QED BY <1>4, <3>1
  <2>2. CASE i = Len(p) + 1
    <3>1. r[i] = e + 1 /\ Len(r) = Len(p) + 1
      BY <1>2, <2>2
    <3> QED BY <1>4, <2>2, <3>1
  <2>3. i \in 1..Len(p) \/ i = Len(p) + 1
    BY <1>2, <1>4
  <2> QED BY <2>1, <2>2, <2>3
<1>6. Len(r) = IF Len(q) < QueueMax THEN Len(q) + 1 ELSE Len(q)
  BY <1>n, <1>1, <1>2
<1>7. Len(r) <= QueueMax /\ Len(r) <= e + 1
  BY <1>n, <1>6
<1> QED BY <1>2, <1>3, <1>5, <1>6, <1>7

LEMMA NumbersAscend ==
    ASSUME NEW from \in Nat \ {0}, NEW to \in 0..MaxSeq
    PROVE  LET r == Numbers(from, to) IN
           /\ r \in Seq(1..MaxSeq) /\ Ascends(r, to)
           /\ Len(r) = IF from <= to THEN to - from + 1 ELSE 0
<1> DEFINE r == Numbers(from, to)
           n == IF from <= to THEN to - from + 1 ELSE 0
<1>n. MaxSeq \in Nat
  OBVIOUS
<1>1. n \in Nat /\ 1..to - from + 1 = 1..n /\ \A i \in 1..n : from + i - 1 \in 1..MaxSeq /\ from + i - 1 = to - n + i
  BY <1>n
<1> HIDE DEF n
<1>2. r = [i \in 1..n |-> from + i - 1]
  BY <1>1 DEF Numbers
<1> HIDE DEF r
<1>3. r \in Seq(1..MaxSeq)
  BY <1>1, <1>2, SeqDef
<1>4. Len(r) = n
  BY <1>1, <1>2, <1>3, LenProperties
<1>5. Ascends(r, to)
  BY <1>1, <1>2, <1>4 DEF Ascends
<1> QED BY <1>3, <1>4, <1>5 DEF r, n

LEMMA StreamInvInit == StreamInit => StreamInv
<1> SUFFICES ASSUME StreamInit PROVE StreamInv
  OBVIOUS
<1> USE DEF StreamInit, Each
<1>n. MaxSeq \in Nat /\ MaxBoots \in Nat /\ QueueMax \in Nat /\ ReplayLimit \in Nat /\ MaxSubscribers \in Nat
  OBVIOUS
<1>1. Subscribed = {} /\ Cardinality({}) = 0
  BY FS_EmptySet DEF Subscribed
<1>2. StreamTypes
  <2>1. <<>> \in Seq(1..MaxSeq)
    OBVIOUS
  <2> QED BY <1>n, <1>1, <2>1 DEF StreamTypes
<1>3. ASSUME NEW c \in Clients PROVE ClientInv(c)
  <2>1. /\ queue[c] = <<>> /\ replay[c] = <<>> /\ Len(<<>>) = 0 /\ link[c] = "off" /\ epoch[c] = 0 /\ boot = 1 /\ last = 0
        /\ seen[c] = {} /\ lastId[c] = 0 /\ knownMax[c] = 0 /\ resume[c] = 0
    OBVIOUS
  <2>2. Connected(c)
    <3>1. Ascends(<<>>, 0)
      BY DEF Ascends
    <3> QED BY <1>n, <2>1, <3>1 DEF Connected
  <2>3. SeenWithin(c) /\ HolesKnown(c) /\ TurnsKept(c)
    BY <2>1 DEF SeenWithin, HolesKnown, TurnsKept, Solid
  <2> QED BY <2>2, <2>3 DEF ClientInv
<1> QED BY <1>2, <1>3 DEF StreamInv

\* A client that a step leaves alone.
LEMMA OthersKeep ==
    ASSUME NEW d, ClientInv(d), UNCHANGED serverVars,
           link'[d] = link[d], resume'[d] = resume[d], queue'[d] = queue[d], replay'[d] = replay[d],
           lastId'[d] = lastId[d], knownMax'[d] = knownMax[d], epoch'[d] = epoch[d],
           seen'[d] = seen[d], excused'[d] = excused[d],
           d \notin cut' => d \notin cut, d \notin late' => d \notin late
    PROVE  ClientInv(d)'
<1>1. Connected(d)'
  BY DEF ClientInv, Connected, serverVars
<1>2. SeenWithin(d)'
  BY DEF ClientInv, SeenWithin, serverVars
<1>3. d \notin cut' => HolesKnown(d)'
  BY DEF ClientInv, HolesKnown, KnownTo, serverVars
<1>4. d \notin late' => TurnsKept(d)'
  BY DEF ClientInv, TurnsKept, Solid, serverVars
<1> QED BY <1>1, <1>2, <1>3, <1>4 DEF ClientInv

LEMMA SubscribersFinite ==
    ASSUME NEW S \in SUBSET Clients
    PROVE  IsFiniteSet(S) /\ Cardinality(S) \in Nat
BY FS_Subset, FS_CardinalityType

\* An event is received: nothing waits below it that was not seen.
LEMMA SolidGrows ==
    ASSUME NEW c, seen[c] \subseteq Nat, NEW s \in Nat, NEW t \in Nat, Solid(c, s),
           seen'[c] = seen[c] \cup {s}, \A x \in t..s - 1 : x \in seen[c]
    PROVE  Solid(c, t)'
<1> SUFFICES ASSUME NEW u \in seen[c] \cup {s}, NEW x \in t..u PROVE x \in seen[c] \cup {s}
  BY DEF Solid
<1>1. u \in Nat /\ x \in Nat /\ t <= x /\ x <= u
  OBVIOUS
<1>2. CASE x < s
  BY <1>1, <1>2
<1>3. CASE x > s
  <2>1. u \in seen[c] /\ x \in s..u
    BY <1>1, <1>3
  <2> QED BY <2>1 DEF Solid
<1> QED BY <1>1, <1>2, <1>3

LEMMA ClientTypes ==
    ASSUME StreamInv, NEW c \in Clients
    PROVE  /\ boot \in Nat \ {0} /\ last \in Nat /\ last <= MaxSeq /\ MaxSeq \in Nat /\ QueueMax \in Nat \ {0} /\ ReplayLimit \in Nat \ {0}
           /\ queue[c] \in Seq(1..MaxSeq) /\ replay[c] \in Seq(1..MaxSeq)
           /\ resume[c] \in 0..MaxSeq /\ lastId[c] \in 0..MaxSeq /\ knownMax[c] \in 0..MaxSeq /\ epoch[c] \in Nat
           /\ seen[c] \subseteq 1..MaxSeq /\ excused[c] \subseteq 1..MaxSeq
           /\ Connected(c) /\ SeenWithin(c) /\ (c \notin cut => HolesKnown(c)) /\ (c \notin late => TurnsKept(c))
<1>1. StreamTypes /\ ClientInv(c) /\ MaxSeq \in Nat /\ QueueMax \in Nat \ {0} /\ ReplayLimit \in Nat \ {0} /\ MaxBoots \in Nat
  BY DEF StreamInv
<1>2. boot \in Nat \ {0} /\ last \in Nat /\ last <= MaxSeq
  BY <1>1 DEF StreamTypes
<1> QED BY <1>1, <1>2 DEF StreamTypes, ClientInv

LEMMA SendMissedKeeps ==
    ASSUME StreamInv, NEW c \in Clients, SendMissed(c)
    PROVE  StreamInv'
<1>0. PICK h : h = Head(replay[c])
  OBVIOUS
<1> DEFINE k == Max({knownMax[c], h})
<1>1. /\ link[c] = "live" /\ replay[c] # <<>>
      /\ lastId' = [lastId EXCEPT ![c] = h] /\ seen' = [seen EXCEPT ![c] = @ \cup {h}]
      /\ knownMax' = [knownMax EXCEPT ![c] = k] /\ replay' = [replay EXCEPT ![c] = Tail(@)]
      /\ UNCHANGED <<boot, last, link, resume, queue, epoch, excused, cut, late>>
  BY <1>0 DEF SendMissed, Receive, serverVars
<1>t. StreamTypes
  BY DEF StreamInv
<1>2. /\ boot \in Nat \ {0} /\ last \in Nat /\ last <= MaxSeq /\ MaxSeq \in Nat
      /\ queue[c] \in Seq(1..MaxSeq) /\ replay[c] \in Seq(1..MaxSeq)
      /\ resume[c] \in 0..MaxSeq /\ lastId[c] \in 0..MaxSeq /\ knownMax[c] \in 0..MaxSeq /\ epoch[c] \in Nat
      /\ seen[c] \subseteq 1..MaxSeq /\ excused[c] \subseteq 1..MaxSeq
      /\ Connected(c) /\ SeenWithin(c) /\ (c \notin cut => HolesKnown(c)) /\ (c \notin late => TurnsKept(c))
  BY ClientTypes
<1>3. PICK e \in 0..last : Ascends(replay[c], e) /\ Len(replay[c]) <= ReplayLimit /\ Len(replay[c]) <= e
  BY <1>2 DEF Connected
<1>e. e \in Nat /\ e <= last
  BY <1>2
<1> DEFINE r == Tail(replay[c])
<1>4. /\ Len(replay[c]) \in Nat /\ h = e - Len(replay[c]) + 1 /\ Len(replay[c]) >= 1
      /\ \A x : x \in Range(replay[c]) <=> x \in Int /\ e - Len(replay[c]) < x /\ x <= e
  BY <1>0, <1>1, <1>2, <1>3, <1>e, AscendsRange
<1>5. r \in Seq(1..MaxSeq) /\ Ascends(r, e) /\ Len(r) = Len(replay[c]) - 1
  BY <1>1, <1>2, <1>3, <1>e, TailAscends
<1>6. /\ r # <<>> => Head(r) = e - Len(r) + 1
      /\ \A x : x \in Range(r) <=> x \in Int /\ e - Len(r) < x /\ x <= e
  BY <1>5, <1>e, AscendsRange
<1> HIDE DEF r
<1>n. /\ h \in Nat \ {0} /\ h <= last /\ h <= e /\ h \in 1..MaxSeq /\ e \in Nat
      /\ (r # <<>> => Head(r) = h + 1) /\ Len(r) <= ReplayLimit /\ Len(r) <= e
      /\ \A x : x \in Range(r) <=> x \in Range(replay[c]) /\ x # h
      /\ \A x \in Range(replay[c]) : x \in Int /\ h <= x /\ x <= e
      /\ h \in Range(replay[c])
  <2>1. /\ h = e - Len(replay[c]) + 1 /\ Len(r) = Len(replay[c]) - 1 /\ ReplayLimit \in Nat
        /\ Len(replay[c]) \in Nat /\ Len(replay[c]) >= 1 /\ Len(replay[c]) <= ReplayLimit /\ Len(replay[c]) <= e
        /\ last \in Nat /\ last <= MaxSeq /\ MaxSeq \in Nat
    BY <1>2, <1>3, <1>4, <1>5
  <2>2. /\ h \in Nat \ {0} /\ h <= e /\ e - Len(r) = h /\ e - Len(replay[c]) = h - 1 /\ Len(r) <= ReplayLimit /\ Len(r) <= e
        /\ h <= last /\ h \in 1..MaxSeq
    BY <1>e, <2>1
  <2>3. \A x : x \in Range(r) <=> x \in Int /\ h < x /\ x <= e
    BY <1>6, <2>2
  <2>4. \A x : x \in Range(replay[c]) <=> x \in Int /\ h - 1 < x /\ x <= e
    BY <1>4, <2>2
  <2>5. r # <<>> => Head(r) = h + 1
    BY <1>6, <2>2
  <2>6. \A x : x \in Int => ((h - 1 < x) <=> (h < x \/ x = h))
    BY <2>2
  <2>7. \A x : x \in Range(r) <=> x \in Range(replay[c]) /\ x # h
    <3> SUFFICES ASSUME NEW x PROVE x \in Range(r) <=> x \in Range(replay[c]) /\ x # h
      OBVIOUS
    <3>1. x \in Int => ((h < x) <=> (h - 1 < x /\ x # h))
      BY <2>2
    <3> QED BY <2>3, <2>4, <3>1
  <2>8. h \in Range(replay[c]) /\ \A x \in Range(replay[c]) : x \in Int /\ h <= x /\ x <= e
    <3>1. h \in Int /\ h - 1 < h /\ h <= e /\ \A x \in Int : h - 1 < x => h <= x
      BY <2>2
    <3> QED BY <2>4, <3>1
  <2> QED BY <1>e, <2>2, <2>5, <2>7, <2>8
<1>h. h \in Nat \ {0} /\ h \in 1..MaxSeq /\ h <= last
  BY <1>n
<1>7. k \in 0..MaxSeq /\ k = IF knownMax[c] >= h THEN knownMax[c] ELSE h
  <2>1. knownMax[c] \in Int /\ h \in Int /\ knownMax[c] \in 0..MaxSeq
    BY <1>2, <1>h
  <2>2. k = IF knownMax[c] >= h THEN knownMax[c] ELSE h
    BY <2>1, MaxOfTwo
  <2> HIDE DEF k
  <2> QED BY <1>h, <2>1, <2>2
<1> HIDE DEF k
<1>8. /\ lastId'[c] = h /\ seen'[c] = seen[c] \cup {h} /\ knownMax'[c] = k /\ replay'[c] = r
      /\ \A d \in Clients : d # c =>
            lastId'[d] = lastId[d] /\ seen'[d] = seen[d] /\ knownMax'[d] = knownMax[d] /\ replay'[d] = replay[d]
      /\ replay' \in [Clients -> Seq(1..MaxSeq)] /\ lastId' \in [Clients -> 0..MaxSeq]
      /\ knownMax' \in [Clients -> 0..MaxSeq] /\ seen' \in [Clients -> SUBSET (1..MaxSeq)]
  <2>1. lastId' = [lastId EXCEPT ![c] = h] /\ h \in 0..MaxSeq /\ lastId \in [Clients -> 0..MaxSeq]
    BY <1>1, <1>h, <1>2, <1>t DEF StreamTypes
  <2>2. seen' = [seen EXCEPT ![c] = @ \cup {h}] /\ h \in 1..MaxSeq /\ seen \in [Clients -> SUBSET (1..MaxSeq)]
    BY <1>1, <1>h, <1>t DEF StreamTypes
  <2>3. knownMax' = [knownMax EXCEPT ![c] = k] /\ knownMax \in [Clients -> 0..MaxSeq]
    BY <1>1, <1>t DEF StreamTypes
  <2>4. replay' = [replay EXCEPT ![c] = r] /\ replay \in [Clients -> Seq(1..MaxSeq)]
    BY <1>1, <1>t DEF StreamTypes, r
  <2>5. lastId'[c] = h /\ (\A d \in Clients : d # c => lastId'[d] = lastId[d]) /\ lastId' \in [Clients -> 0..MaxSeq]
    BY <2>1
  <2>6. seen'[c] = seen[c] \cup {h} /\ (\A d \in Clients : d # c => seen'[d] = seen[d]) /\ seen' \in [Clients -> SUBSET (1..MaxSeq)]
    BY <2>2
  <2>7. knownMax'[c] = k /\ (\A d \in Clients : d # c => knownMax'[d] = knownMax[d]) /\ knownMax' \in [Clients -> 0..MaxSeq]
    BY <2>3, <1>7
  <2>8. replay'[c] = r /\ (\A d \in Clients : d # c => replay'[d] = replay[d]) /\ replay' \in [Clients -> Seq(1..MaxSeq)]
    BY <2>4, <1>5
  <2> QED BY <2>5, <2>6, <2>7, <2>8
<1>9. StreamTypes'
  BY <1>1, <1>t, <1>8 DEF StreamTypes, Subscribed
<1>10. Connected(c)'
  <2>1. Ascends(replay'[c], e) /\ Len(replay'[c]) <= ReplayLimit /\ Len(replay'[c]) <= e /\ e \in 0..last'
    BY <1>1, <1>5, <1>8, <1>n
  <2> QED BY <1>1, <1>2, <1>8, <2>1 DEF Connected
<1>11. SeenWithin(c)'
  <2>1. seen[c] \subseteq 1..knownMax[c] /\ epoch[c] = boot /\ knownMax[c] <= last
    BY <1>1, <1>2 DEF SeenWithin, Connected
  <2>2. seen[c] \cup {h} \subseteq 1..k /\ k <= last
    <3>1. knownMax[c] \in Nat /\ h \in Nat \ {0} /\ last \in Nat /\ h <= last
      BY <1>2, <1>h, <1>n
    <3>2. k \in Nat /\ knownMax[c] <= k /\ h <= k /\ k <= last
      BY <1>7, <2>1, <3>1
    <3>3. 1..knownMax[c] \subseteq 1..k /\ h \in 1..k
      BY <3>1, <3>2
    <3> QED BY <2>1, <3>2, <3>3
  <2> QED BY <1>1, <1>2, <1>8, <2>1, <2>2 DEF SeenWithin
<1>12. ASSUME c \notin cut PROVE HolesKnown(c)'
  <2>1. /\ 1..knownMax[c] \subseteq KnownTo(c) /\ resume[c] <= last /\ 1..resume[c] \subseteq KnownTo(c)
        /\ 1..last \subseteq KnownTo(c) \cup Range(replay[c]) \cup Range(queue[c])
        /\ 1..h - 1 \subseteq KnownTo(c)
    BY <1>0, <1>1, <1>2, <1>12 DEF HolesKnown, Connected
  <2>2. KnownTo(c)' = KnownTo(c) \cup {h}
    BY <1>1, <1>8 DEF KnownTo
  <2>3. 1..h \subseteq KnownTo(c)'
    <3>1. \A x \in 1..h : x \in 1..h - 1 \/ x = h
      BY <1>h
    <3> QED BY <2>1, <2>2, <3>1
  <2>4. 1..k \subseteq KnownTo(c)' /\ k # 0
    BY <1>2, <1>7, <1>n, <2>1, <2>2, <2>3
  <2>5. 1..last \subseteq KnownTo(c)' \cup Range(r) \cup Range(queue[c])
    BY <1>n, <2>1, <2>2
  <2>6. r # <<>> => 1..Head(r) - 1 \subseteq KnownTo(c)'
    <3>1. (h + 1) - 1 = h
      BY <1>n
    <3> QED BY <1>n, <2>3, <3>1
  <2> QED BY <1>1, <1>8, <1>n, <2>1, <2>2, <2>3, <2>4, <2>5, <2>6 DEF HolesKnown
<1>13. ASSUME c \notin late PROVE TurnsKept(c)'
  <2>1. /\ \A t \in Range(replay[c]) : Solid(c, t)
        /\ \A t \in Range(queue[c]) : t > resume[c] =>
             Solid(c, t) /\ (t < h => t \in seen[c])
    BY <1>0, <1>1, <1>2, <1>13 DEF TurnsKept
  <2>2. Solid(c, h) /\ seen[c] \subseteq Nat
    BY <1>2, <1>n, <2>1
  <2>3. ASSUME NEW t \in Nat, t > h PROVE Solid(c, t)'
    <3>1. \A x \in t..h - 1 : x \in seen[c]
      BY <1>n, <2>3
    <3> QED BY <1>8, <1>n, <2>2, <3>1, SolidGrows
  <2>4. \A t \in Range(r) : Solid(c, t)'
    <3> SUFFICES ASSUME NEW t \in Range(r) PROVE Solid(c, t)'
      OBVIOUS
    <3>1. t \in Nat /\ t > h
      <4>1. t \in Int /\ h <= t /\ t # h
        BY <1>n
      <4> QED BY <1>h, <4>1
    <3> QED BY <2>3, <3>1
  <2>5. ASSUME NEW t \in Range(queue[c]), t > resume[c]
        PROVE  Solid(c, t)' /\ (r # <<>> /\ t < Head(r) => t \in seen[c] \cup {h})
    <3>1. \A x : x \in Range(queue[c]) <=> x \in Int /\ last - Len(queue[c]) < x /\ x <= last
      BY <1>2, AscendsRange DEF Connected
    <3>2. t \in Nat /\ resume[c] \in Nat
      <4>1. t \in 1..MaxSeq
        BY <1>2, SeqShape, SMTT(30)
      <4> QED BY <1>2, <4>1
    <3>3. ASSUME NEW x \in t..h - 1 PROVE x \in seen[c]
      <4>0. x \in Int /\ t <= x /\ x < h
        BY <1>n, <3>2
      <4>9. x > resume[c]
        BY <2>5, <3>2, <4>0
      <4>1. x \in Range(queue[c]) /\ x > resume[c] /\ x < h
        <5>1. last - Len(queue[c]) < t
          BY <3>1
        <5>2. last - Len(queue[c]) < x /\ x <= last
          <6>1. Len(queue[c]) \in Nat
            BY <1>2, SeqShape, SMTT(30)
          <6> QED BY <1>2, <1>n, <3>2, <4>0, <5>1, <6>1
        <5> QED BY <3>1, <4>0, <4>9, <5>2
      <4> QED BY <2>1, <4>1
    <3>4. Solid(c, t)'
      BY <1>8, <1>n, <2>2, <3>2, <3>3, SolidGrows
    <3>5. ASSUME r # <<>>, t < Head(r) PROVE t \in seen[c] \cup {h}
      <4>1. t = h \/ t < h
        BY <1>n, <3>2, <3>5
      <4> QED BY <2>1, <2>5, <4>1
    <3> QED BY <3>4, <3>5
  <2>6. Solid(c, h + 1)'
    <3>1. h + 1 \in Nat /\ h + 1 > h
      BY <1>h
    <3> QED BY <2>3, <3>1
  <2>7. Solid(c, lastId[c] + 1)'
    BY <1>8, <2>6 DEF Solid
  <2>8. \A t \in Range(replay[c])' : Solid(c, t)'
    BY <1>8, <2>4
  <2>9. \A t \in Range(queue[c]) : t > resume[c] =>
             Solid(c, t)' /\ (replay'[c] # <<>> /\ t < Head(replay'[c]) => t \in seen'[c])
    BY <1>8, <2>5
  <2> QED BY <1>1, <2>7, <2>8, <2>9 DEF TurnsKept
<1>14. ASSUME NEW d \in Clients, d # c PROVE ClientInv(d)'
  <2>1. ClientInv(d)
    BY DEF StreamInv
  <2> QED BY <1>1, <1>8, <1>14, <2>1, OthersKeep DEF serverVars
<1> QED BY <1>1, <1>9, <1>10, <1>11, <1>12, <1>13, <1>14 DEF StreamInv, ClientInv

LEMMA SendLiveKeeps ==
    ASSUME StreamInv, NEW c \in Clients, SendLive(c)
    PROVE  StreamInv'
<1>0. PICK h : h = Head(queue[c])
  OBVIOUS
<1> DEFINE k == Max({knownMax[c], h})
           r == Tail(queue[c])
<1>1. /\ link[c] = "live" /\ replay[c] = <<>> /\ queue[c] # <<>> /\ queue' = [queue EXCEPT ![c] = r]
      /\ UNCHANGED <<boot, last, link, resume, replay, epoch, excused, cut, late>>
      /\ \/ h <= resume[c] /\ UNCHANGED <<lastId, seen, knownMax>>
         \/ /\ ~(h <= resume[c])
            /\ lastId' = [lastId EXCEPT ![c] = h] /\ seen' = [seen EXCEPT ![c] = @ \cup {h}]
            /\ knownMax' = [knownMax EXCEPT ![c] = k]
  BY <1>0 DEF SendLive, TurnOf, Receive, serverVars
<1>t. StreamTypes
  BY DEF StreamInv
<1>2. /\ boot \in Nat \ {0} /\ last \in Nat /\ last <= MaxSeq /\ MaxSeq \in Nat /\ QueueMax \in Nat
      /\ queue[c] \in Seq(1..MaxSeq) /\ replay[c] \in Seq(1..MaxSeq)
      /\ resume[c] \in 0..MaxSeq /\ lastId[c] \in 0..MaxSeq /\ knownMax[c] \in 0..MaxSeq /\ epoch[c] \in Nat
      /\ seen[c] \subseteq 1..MaxSeq /\ excused[c] \subseteq 1..MaxSeq
      /\ Connected(c) /\ SeenWithin(c) /\ (c \notin cut => HolesKnown(c)) /\ (c \notin late => TurnsKept(c))
  BY ClientTypes
<1>3. Ascends(queue[c], last) /\ Len(queue[c]) <= QueueMax /\ Len(queue[c]) <= last
  BY <1>2 DEF Connected
<1>4. /\ Len(queue[c]) \in Nat /\ h = last - Len(queue[c]) + 1 /\ Len(queue[c]) >= 1
      /\ \A x : x \in Range(queue[c]) <=> x \in Int /\ last - Len(queue[c]) < x /\ x <= last
  BY <1>0, <1>1, <1>2, <1>3, AscendsRange
<1>5. r \in Seq(1..MaxSeq) /\ Ascends(r, last) /\ Len(r) = Len(queue[c]) - 1
  BY <1>1, <1>2, <1>3, TailAscends
<1>6. \A x : x \in Range(r) <=> x \in Int /\ last - Len(r) < x /\ x <= last
  BY <1>2, <1>5, AscendsRange
<1> HIDE DEF r
<1>h. h \in Nat \ {0} /\ h \in 1..MaxSeq /\ h <= last /\ Len(r) <= QueueMax /\ Len(r) <= last
      /\ last - Len(r) = h /\ last - Len(queue[c]) = h - 1
  <2>1. Len(queue[c]) \in Nat /\ h = last - Len(queue[c]) + 1 /\ Len(queue[c]) >= 1 /\ Len(r) = Len(queue[c]) - 1
        /\ Len(queue[c]) <= QueueMax /\ Len(queue[c]) <= last /\ last \in Nat /\ last <= MaxSeq /\ MaxSeq \in Nat /\ QueueMax \in Nat
    BY <1>2, <1>3, <1>4, <1>5
  <2> QED BY <2>1
<1>n. /\ \A x : x \in Range(r) <=> x \in Range(queue[c]) /\ x # h
      /\ \A x \in Range(queue[c]) : x \in Int /\ h <= x /\ x <= last
      /\ h \in Range(queue[c])
  <2>3. \A x : x \in Range(r) <=> x \in Int /\ h < x /\ x <= last
    BY <1>6, <1>h
  <2>4. \A x : x \in Range(queue[c]) <=> x \in Int /\ h - 1 < x /\ x <= last
    BY <1>4, <1>h
  <2>7. \A x : x \in Range(r) <=> x \in Range(queue[c]) /\ x # h
    <3> SUFFICES ASSUME NEW x PROVE x \in Range(r) <=> x \in Range(queue[c]) /\ x # h
      OBVIOUS
    <3>1. x \in Int => ((h < x) <=> (h - 1 < x /\ x # h))
      BY <1>h
    <3> QED BY <2>3, <2>4, <3>1
  <2>8. h \in Range(queue[c]) /\ \A x \in Range(queue[c]) : x \in Int /\ h <= x /\ x <= last
    <3>1. h \in Int /\ h - 1 < h /\ h <= last /\ \A x \in Int : h - 1 < x => h <= x
      BY <1>h
    <3> QED BY <2>4, <3>1
  <2> QED BY <2>7, <2>8
<1>q. queue'[c] = r /\ (\A d \in Clients : d # c => queue'[d] = queue[d]) /\ queue' \in [Clients -> Seq(1..MaxSeq)]
  BY <1>1, <1>5, <1>t DEF StreamTypes
<1>e. epoch[c] = boot /\ Range(replay[c]) = {}
  BY <1>1, <1>2 DEF Connected, Range
<1>10. Connected(c)'
  <2>1. PICK e \in 0..last : Ascends(replay[c], e) /\ Len(replay[c]) <= ReplayLimit /\ Len(replay[c]) <= e
    BY <1>2 DEF Connected
  <2>2. Ascends(queue'[c], last') /\ Len(queue'[c]) <= QueueMax /\ Len(queue'[c]) <= last'
    BY <1>1, <1>5, <1>h, <1>q
  <2> QED BY <1>1, <1>e, <2>1, <2>2 DEF Connected
<1>a. CASE h <= resume[c] /\ UNCHANGED <<lastId, seen, knownMax>>
  <2>1. StreamTypes'
    BY <1>1, <1>t, <1>q, <1>a DEF StreamTypes, Subscribed
  <2>2. SeenWithin(c)'
    BY <1>1, <1>2, <1>a DEF SeenWithin
  <2>3. ASSUME c \notin cut PROVE HolesKnown(c)'
    <3>1. HolesKnown(c) /\ KnownTo(c)' = KnownTo(c)
      BY <1>1, <1>2, <1>a, <2>3 DEF KnownTo
    <3>2. h \in KnownTo(c) /\ knownMax[c] # 0
      <4>1. 1..resume[c] \subseteq KnownTo(c) /\ (knownMax[c] = 0 => resume[c] = 0)
        BY <1>1, <3>1 DEF HolesKnown
      <4>2. h \in 1..resume[c] /\ resume[c] # 0
        BY <1>2, <1>a, <1>h, SMTT(30)
      <4> QED BY <4>1, <4>2
    <3>3. 1..last \subseteq KnownTo(c) \cup Range(replay[c]) \cup Range(r)
      <4>1. 1..last \subseteq KnownTo(c) \cup Range(replay[c]) \cup Range(queue[c])
        BY <1>1, <3>1 DEF HolesKnown
      <4> QED BY <1>n, <3>2, <4>1
    <3> QED BY <1>1, <1>q, <1>a, <3>1, <3>2, <3>3 DEF HolesKnown
  <2>4. ASSUME c \notin late PROVE TurnsKept(c)'
    <3>1. TurnsKept(c)
      BY <1>2, <2>4
    <3>2. \A t : t \in Range(queue'[c]) => t \in Range(queue[c])
      BY <1>n, <1>q
    <3> QED BY <1>1, <1>a, <3>1, <3>2 DEF TurnsKept, Solid
  <2>5. ASSUME NEW d \in Clients, d # c PROVE ClientInv(d)'
    <3>1. ClientInv(d)
      BY DEF StreamInv
    <3> QED BY <1>1, <1>q, <1>a, <2>5, <3>1, OthersKeep DEF serverVars
  <2> QED BY <1>1, <1>10, <2>1, <2>2, <2>3, <2>4, <2>5 DEF StreamInv, ClientInv
<1>b. CASE /\ ~(h <= resume[c])
           /\ lastId' = [lastId EXCEPT ![c] = h] /\ seen' = [seen EXCEPT ![c] = @ \cup {h}]
           /\ knownMax' = [knownMax EXCEPT ![c] = k]
  <2>1. knownMax[c] \in Int /\ h \in Int /\ knownMax[c] \in 0..MaxSeq
    BY <1>2, <1>h
  <2>2. k = IF knownMax[c] >= h THEN knownMax[c] ELSE h
    BY <2>1, MaxOfTwo
  <2> HIDE DEF k
  <2>3. k \in 0..MaxSeq
    BY <1>h, <2>1, <2>2
  <2>4. lastId'[c] = h /\ (\A d \in Clients : d # c => lastId'[d] = lastId[d]) /\ lastId' \in [Clients -> 0..MaxSeq]
    <3>1. h \in 0..MaxSeq /\ lastId \in [Clients -> 0..MaxSeq]
      BY <1>h, <1>2, <1>t DEF StreamTypes
    <3> QED BY <1>b, <3>1
  <2>5. seen'[c] = seen[c] \cup {h} /\ (\A d \in Clients : d # c => seen'[d] = seen[d]) /\ seen' \in [Clients -> SUBSET (1..MaxSeq)]
    <3>1. seen \in [Clients -> SUBSET (1..MaxSeq)]
      BY <1>t DEF StreamTypes
    <3> QED BY <1>b, <1>h, <3>1
  <2>6. knownMax'[c] = k /\ (\A d \in Clients : d # c => knownMax'[d] = knownMax[d]) /\ knownMax' \in [Clients -> 0..MaxSeq]
    <3>1. knownMax \in [Clients -> 0..MaxSeq]
      BY <1>t DEF StreamTypes
    <3> QED BY <1>b, <2>3, <3>1
  <2>7. StreamTypes'
    <3>1. UNCHANGED <<boot, last, link, resume, replay, epoch, excused, cut, late>>
      BY <1>1
    <3>2. Subscribed' = Subscribed
      BY <3>1 DEF Subscribed
    <3>3. /\ lastId' \in [Clients -> 0..MaxSeq] /\ seen' \in [Clients -> SUBSET (1..MaxSeq)]
          /\ knownMax' \in [Clients -> 0..MaxSeq] /\ queue' \in [Clients -> Seq(1..MaxSeq)]
      BY <1>q, <2>4, <2>5, <2>6
    <3> QED BY <1>t, <3>1, <3>2, <3>3 DEF StreamTypes
  <2>8. SeenWithin(c)'
    <3>1. seen[c] \subseteq 1..knownMax[c] /\ knownMax[c] <= last
      BY <1>1, <1>2, <1>e DEF SeenWithin
    <3>2. seen[c] \cup {h} \subseteq 1..k /\ k <= last
      BY <1>2, <1>h, <2>2, <3>1, SMTT(30)
    <3> QED BY <1>1, <1>2, <1>e, <2>4, <2>5, <2>6, <3>1, <3>2 DEF SeenWithin
  <2>9. ASSUME c \notin cut PROVE HolesKnown(c)'
    <3>1. /\ 1..knownMax[c] \subseteq KnownTo(c) /\ resume[c] <= last /\ 1..resume[c] \subseteq KnownTo(c)
          /\ 1..last \subseteq KnownTo(c) \cup Range(queue[c])
      BY <1>1, <1>2, <1>e, <2>9 DEF HolesKnown
    <3>2. KnownTo(c)' = KnownTo(c) \cup {h}
      BY <1>1, <2>5 DEF KnownTo
    <3>3. 1..h \subseteq KnownTo(c)'
      <4> SUFFICES ASSUME NEW x \in 1..h PROVE x \in KnownTo(c) \cup {h}
        BY <3>2
      <4>1. x \in 1..last /\ (x = h \/ ~(h <= x))
        <5>1. last \in Nat /\ h \in Nat /\ h <= last
          BY <1>2, <1>h
        <5> QED BY <5>1
      <4> QED BY <1>n, <3>1, <4>1
    <3>4. 1..k \subseteq KnownTo(c)' /\ k # 0
      BY <1>h, <2>1, <2>2, <3>1, <3>2, <3>3
    <3>5. 1..last \subseteq KnownTo(c)' \cup Range(r)
      BY <1>n, <3>1, <3>2
    <3> QED BY <1>1, <1>q, <1>h, <2>4, <2>5, <2>6, <3>1, <3>2, <3>3, <3>4, <3>5 DEF HolesKnown
  <2>10. ASSUME c \notin late PROVE TurnsKept(c)'
    <3>1. \A t \in Range(queue[c]) : t > resume[c] => Solid(c, t)
      BY <1>1, <1>2, <2>10 DEF TurnsKept
    <3>2. Solid(c, h) /\ seen[c] \subseteq Nat
      <4>1. h > resume[c]
        <5>1. ~(h <= resume[c])
          BY <1>b
        <5>2. h \in Int /\ resume[c] \in Int
          BY <1>2, <2>1
        <5> QED BY <5>1, <5>2
      <4> QED BY <1>2, <1>n, <3>1, <4>1
    <3>3. ASSUME NEW t \in Nat, t > h PROVE Solid(c, t)'
      <4>1. \A x \in t..h - 1 : x \in seen[c]
        BY <1>h, <3>3
      <4> QED BY <2>5, <1>h, <3>2, <4>1, SolidGrows
    <3>4. ASSUME NEW t \in Range(r) PROVE Solid(c, t)'
      <4>1. t \in Int /\ h <= t /\ t # h
        BY <1>n
      <4>2. t \in Nat /\ t > h
        BY <1>h, <4>1
      <4> QED BY <3>3, <4>2
    <3>5. Solid(c, h + 1)'
      <4>1. h + 1 \in Nat /\ h + 1 > h
        BY <1>h
      <4> QED BY <3>3, <4>1
    <3>6. Solid(c, lastId[c] + 1)'
      BY <2>4, <3>5 DEF Solid
    <3>7. \A t \in Range(queue[c])' : Solid(c, t)'
      BY <1>q, <3>4
    <3> QED BY <1>1, <1>e, <3>6, <3>7 DEF TurnsKept
  <2>11. ASSUME NEW d \in Clients, d # c PROVE ClientInv(d)'
    <3>1. ClientInv(d)
      BY DEF StreamInv
    <3> QED BY <1>1, <1>q, <2>4, <2>5, <2>6, <2>11, <3>1, OthersKeep DEF serverVars
  <2> QED BY <1>1, <1>10, <2>7, <2>8, <2>9, <2>10, <2>11 DEF StreamInv, ClientInv
<1> QED BY <1>1, <1>a, <1>b

LEMMA PingKeeps ==
    ASSUME StreamInv, NEW c \in Clients, Ping(c)
    PROVE  StreamInv'
<1>1. /\ link[c] = "live" /\ replay[c] = <<>> /\ queue[c] = <<>> /\ lastId' = [lastId EXCEPT ![c] = last]
      /\ UNCHANGED <<boot, last, link, resume, queue, replay, knownMax, epoch, seen, excused, cut, late>>
  BY DEF Ping, Quiet, serverVars, linkVars
<1>t. StreamTypes
  BY DEF StreamInv
<1>2. /\ boot \in Nat \ {0} /\ last \in Nat /\ last <= MaxSeq /\ MaxSeq \in Nat
      /\ Connected(c) /\ SeenWithin(c) /\ (c \notin cut => HolesKnown(c)) /\ (c \notin late => TurnsKept(c))
  BY ClientTypes
<1>e. epoch[c] = boot /\ Range(replay[c]) = {} /\ Range(queue[c]) = {} /\ seen[c] \subseteq 1..knownMax[c] /\ knownMax[c] <= last
  BY <1>1, <1>2 DEF Connected, Range, SeenWithin
<1>3. lastId'[c] = last /\ (\A d \in Clients : d # c => lastId'[d] = lastId[d]) /\ lastId' \in [Clients -> 0..MaxSeq]
  BY <1>1, <1>2, <1>t DEF StreamTypes
<1>4. StreamTypes'
  <2>1. Subscribed' = Subscribed
    BY <1>1 DEF Subscribed
  <2> QED BY <1>1, <1>3, <1>t, <2>1 DEF StreamTypes
<1>5. Connected(c)'
  BY <1>1, <1>2 DEF Connected
<1>6. SeenWithin(c)'
  BY <1>1, <1>2, <1>e DEF SeenWithin
<1>7. ASSUME c \notin cut PROVE HolesKnown(c)'
  <2>1. 1..last \subseteq KnownTo(c) /\ KnownTo(c)' = KnownTo(c) /\ (knownMax[c] = 0 => ~(last > 0))
    BY <1>1, <1>2, <1>e, <1>7 DEF HolesKnown, KnownTo
  <2>2. knownMax[c] = 0 => last = 0
    BY <1>2, <2>1
  <2> QED BY <1>1, <1>2, <1>3, <1>e, <1>7, <2>1, <2>2 DEF HolesKnown
<1>8. ASSUME c \notin late PROVE TurnsKept(c)'
  <2>1. Solid(c, last + 1)
    <3> SUFFICES ASSUME NEW u \in seen[c], NEW x \in last + 1..u PROVE FALSE
      BY DEF Solid
    <3>1. u \in 1..knownMax[c]
      BY <1>e
    <3>2. knownMax[c] \in Int
      BY <1>t DEF StreamTypes
    <3> QED BY <1>2, <1>e, <3>1, <3>2
  <2>2. Solid(c, lastId[c] + 1)'
    BY <1>1, <1>3, <2>1 DEF Solid
  <2> QED BY <1>1, <1>e, <2>2 DEF TurnsKept
<1>9. ASSUME NEW d \in Clients, d # c PROVE ClientInv(d)'
  <2>1. ClientInv(d)
    BY DEF StreamInv
  <2> QED BY <1>1, <1>3, <1>9, <2>1, OthersKeep DEF serverVars
<1> QED BY <1>1, <1>4, <1>5, <1>6, <1>7, <1>8, <1>9 DEF StreamInv, ClientInv

LEMMA BreakKeeps ==
    ASSUME StreamInv, NEW c \in Clients, Break(c)
    PROVE  StreamInv'
<1>1. /\ link' = [link EXCEPT ![c] = "off"] /\ queue' = [queue EXCEPT ![c] = <<>>] /\ replay' = [replay EXCEPT ![c] = <<>>]
      /\ UNCHANGED <<boot, last, resume, lastId, knownMax, epoch, seen, excused, cut, late>>
  BY DEF Break, serverVars, clientVars
<1>t. StreamTypes
  BY DEF StreamInv
<1>2. /\ boot \in Nat \ {0} /\ last \in Nat /\ last <= MaxSeq /\ MaxSeq \in Nat /\ QueueMax \in Nat /\ ReplayLimit \in Nat
      /\ Connected(c) /\ SeenWithin(c) /\ (c \notin cut => HolesKnown(c)) /\ (c \notin late => TurnsKept(c))
  BY ClientTypes
<1>3. /\ link'[c] = "off" /\ queue'[c] = <<>> /\ replay'[c] = <<>>
      /\ \A d \in Clients : d # c => link'[d] = link[d] /\ queue'[d] = queue[d] /\ replay'[d] = replay[d]
      /\ link' \in [Clients -> {"off", "opened", "live"}]
      /\ queue' \in [Clients -> Seq(1..MaxSeq)] /\ replay' \in [Clients -> Seq(1..MaxSeq)]
  <2>1. <<>> \in Seq(1..MaxSeq)
    OBVIOUS
  <2> QED BY <1>1, <1>t, <2>1 DEF StreamTypes
<1>4. StreamTypes'
  <2>1. Subscribed' \subseteq Subscribed /\ Subscribed \subseteq Clients
    BY <1>3 DEF Subscribed
  <2>2. IsFiniteSet(Subscribed)
    BY <2>1, SubscribersFinite
  <2>3. Cardinality(Subscribed') <= Cardinality(Subscribed) /\ Cardinality(Subscribed') \in Nat /\ Cardinality(Subscribed) \in Nat
    BY <2>1, <2>2, FS_Subset, FS_CardinalityType
  <2>4. Cardinality(Subscribed) <= MaxSubscribers /\ MaxSubscribers \in Nat
    BY <1>t DEF StreamTypes
  <2>5. Cardinality(Subscribed') <= MaxSubscribers
    BY <2>3, <2>4
  <2> QED BY <1>1, <1>3, <1>t, <2>5 DEF StreamTypes
<1>5. Connected(c)'
  <2>1. Len(<<>>) = 0 /\ Ascends(<<>>, last)
    BY DEF Ascends
  <2> QED BY <1>1, <1>2, <1>3, <2>1 DEF Connected
<1>6. SeenWithin(c)'
  BY <1>1, <1>2, <1>3 DEF SeenWithin
<1>7. c \notin cut => HolesKnown(c)'
  BY <1>1, <1>2, <1>3 DEF HolesKnown, KnownTo
<1>8. c \notin late => TurnsKept(c)'
  BY <1>1, <1>2, <1>3 DEF TurnsKept, Solid
<1>9. ASSUME NEW d \in Clients, d # c PROVE ClientInv(d)'
  <2>1. ClientInv(d)
    BY DEF StreamInv
  <2> QED BY <1>1, <1>3, <1>9, <2>1, OthersKeep DEF serverVars
<1> QED BY <1>1, <1>4, <1>5, <1>6, <1>7, <1>8, <1>9 DEF StreamInv, ClientInv

LEMMA OpenKeeps ==
    ASSUME StreamInv, NEW c \in Clients, Open(c)
    PROVE  StreamInv'
<1>1. PICK from \in {lastId[c], knownMax[c]} :
         /\ link[c] = "off" /\ Cardinality(Subscribed) < MaxSubscribers
         /\ link' = [link EXCEPT ![c] = "opened"] /\ resume' = [resume EXCEPT ![c] = from]
         /\ UNCHANGED <<boot, last, queue, replay, lastId, knownMax, epoch, seen, excused, cut, late>>
  BY DEF Open, serverVars, clientVars
<1>t. StreamTypes
  BY DEF StreamInv
<1>2. /\ boot \in Nat \ {0} /\ last \in Nat /\ last <= MaxSeq /\ MaxSeq \in Nat
      /\ lastId[c] \in 0..MaxSeq /\ knownMax[c] \in 0..MaxSeq
      /\ Connected(c) /\ SeenWithin(c) /\ (c \notin cut => HolesKnown(c)) /\ (c \notin late => TurnsKept(c))
  BY ClientTypes
<1>3. /\ link'[c] = "opened" /\ resume'[c] = from
      /\ \A d \in Clients : d # c => link'[d] = link[d] /\ resume'[d] = resume[d]
      /\ link' \in [Clients -> {"off", "opened", "live"}] /\ resume' \in [Clients -> 0..MaxSeq]
  BY <1>1, <1>2, <1>t DEF StreamTypes
<1>4. StreamTypes'
  <2>1. Subscribed' = Subscribed \cup {c} /\ c \notin Subscribed /\ Subscribed \subseteq Clients
    BY <1>1, <1>3 DEF Subscribed
  <2>2. IsFiniteSet(Subscribed) /\ Cardinality(Subscribed) \in Nat
    BY <2>1, SubscribersFinite
  <2>3. Cardinality(Subscribed') = Cardinality(Subscribed) + 1
    BY <2>1, <2>2, FS_AddElement
  <2>4. MaxSubscribers \in Nat
    OBVIOUS
  <2>5. Cardinality(Subscribed') <= MaxSubscribers
    BY <1>1, <2>2, <2>3, <2>4
  <2> QED BY <1>1, <1>3, <1>t, <2>5 DEF StreamTypes
<1>5. Connected(c)'
  BY <1>1, <1>2, <1>3 DEF Connected
<1>6. SeenWithin(c)'
  BY <1>1, <1>2, <1>3 DEF SeenWithin
<1>7. c \notin cut => HolesKnown(c)'
  BY <1>1, <1>2, <1>3 DEF HolesKnown, KnownTo
<1>8. c \notin late => TurnsKept(c)'
  BY <1>1, <1>2, <1>3 DEF TurnsKept, Solid
<1>9. ASSUME NEW d \in Clients, d # c PROVE ClientInv(d)'
  <2>1. ClientInv(d)
    BY DEF StreamInv
  <2> QED BY <1>1, <1>3, <1>9, <2>1, OthersKeep DEF serverVars
<1> QED BY <1>1, <1>4, <1>5, <1>6, <1>7, <1>8, <1>9 DEF StreamInv, ClientInv

LEMMA RestartKeeps ==
    ASSUME StreamInv, BackendRestarts
    PROVE  StreamInv'
<1>1. /\ boot <= MaxBoots /\ boot' = boot + 1 /\ last' = 0
      /\ link' = [c \in Clients |-> "off"] /\ queue' = [c \in Clients |-> <<>>] /\ replay' = [c \in Clients |-> <<>>]
      /\ UNCHANGED <<resume, lastId, knownMax, epoch, seen, excused, cut, late>>
  BY DEF BackendRestarts, clientVars, Each
<1>t. StreamTypes
  BY DEF StreamInv
<1>2. StreamTypes'
  <2>1. Subscribed' = {} /\ Cardinality({}) = 0 /\ MaxSubscribers \in Nat
    BY <1>1, FS_EmptySet DEF Subscribed
  <2>2. <<>> \in Seq(1..MaxSeq)
    OBVIOUS
  <2>3. boot' \in 1..MaxBoots + 1 /\ last' \in 0..MaxSeq
    BY <1>1, <1>t DEF StreamTypes
  <2> QED BY <1>1, <1>t, <2>1, <2>2, <2>3 DEF StreamTypes
<1>3. ASSUME NEW c \in Clients PROVE ClientInv(c)'
  <2>1. /\ boot \in Nat \ {0} /\ QueueMax \in Nat /\ ReplayLimit \in Nat /\ epoch[c] \in Nat /\ knownMax[c] \in 0..MaxSeq
        /\ Connected(c) /\ SeenWithin(c) /\ (c \notin cut => HolesKnown(c))
    BY ClientTypes
  <2>2. /\ link'[c] = "off" /\ queue'[c] = <<>> /\ replay'[c] = <<>> /\ epoch'[c] = epoch[c]
        /\ epoch[c] <= boot /\ epoch[c] # boot + 1 /\ epoch[c] <= boot + 1
    BY <1>1, <2>1 DEF SeenWithin
  <2>3. Connected(c)'
    <3>1. Len(<<>>) = 0 /\ Ascends(<<>>, 0)
      BY DEF Ascends
    <3> QED BY <1>1, <2>1, <2>2, <3>1 DEF Connected
  <2>4. SeenWithin(c)'
    BY <1>1, <2>1, <2>2 DEF SeenWithin
  <2>5. c \notin cut => HolesKnown(c)'
    BY <1>1, <2>1, <2>2 DEF HolesKnown
  <2>6. TurnsKept(c)'
    BY <1>1, <2>1, <2>2 DEF TurnsKept
  <2> QED BY <1>1, <2>3, <2>4, <2>5, <2>6 DEF ClientInv
<1> QED BY <1>2, <1>3 DEF StreamInv

LEMMA PublishKeeps ==
    ASSUME StreamInv, Publish
    PROVE  StreamInv'
<1>1. /\ last < MaxSeq /\ last' = last + 1
      /\ queue' = [c \in Clients |-> IF c \in Subscribed THEN Put(queue[c], last + 1) ELSE queue[c]]
      /\ excused' = [c \in Clients |-> IF Len(queue[c]) = QueueMax
                                       THEN excused[c] \cup {Head(queue[c])} ELSE excused[c]]
      /\ UNCHANGED <<boot, link, resume, replay, lastId, knownMax, epoch, seen, cut, late>>
  BY DEF Publish, clientVars
<1>t. StreamTypes
  BY DEF StreamInv
<1>2. ASSUME NEW c \in Clients
      PROVE  queue'[c] \in Seq(1..MaxSeq) /\ excused'[c] \in SUBSET (1..MaxSeq) /\ ClientInv(c)'
  <2>2. /\ boot \in Nat \ {0} /\ last \in Nat /\ last <= MaxSeq /\ MaxSeq \in Nat /\ QueueMax \in Nat \ {0} /\ ReplayLimit \in Nat
        /\ queue[c] \in Seq(1..MaxSeq) /\ replay[c] \in Seq(1..MaxSeq)
        /\ resume[c] \in 0..MaxSeq /\ lastId[c] \in 0..MaxSeq /\ knownMax[c] \in 0..MaxSeq
        /\ excused[c] \subseteq 1..MaxSeq
        /\ Connected(c) /\ SeenWithin(c) /\ (c \notin cut => HolesKnown(c)) /\ (c \notin late => TurnsKept(c))
    BY ClientTypes
  <2> DEFINE q == queue[c]
             r == queue'[c]
  <2>3. Ascends(q, last) /\ Len(q) <= QueueMax /\ Len(q) <= last
    BY <2>2 DEF Connected
  <2>4. /\ Len(q) \in Nat /\ \A x : x \in Range(q) <=> x \in Int /\ last - Len(q) < x /\ x <= last
        /\ q # <<>> => Len(q) >= 1 /\ Head(q) = last - Len(q) + 1
        /\ q = <<>> => Len(q) = 0
    BY <2>2, <2>3, AscendsRange
  <2>5. excused'[c] = IF Len(q) = QueueMax THEN excused[c] \cup {Head(q)} ELSE excused[c]
    BY <1>1
  <2>6. excused'[c] \in SUBSET (1..MaxSeq) /\ excused[c] \subseteq excused'[c]
    <3>1. CASE Len(q) = QueueMax
      <4>1. q # <<>>
        BY <2>2, <2>4, <3>1
      <4>2. Head(q) \in 1..MaxSeq
        BY <2>2, <4>1, RangeTail
      <4> QED BY <2>2, <2>5, <4>2
    <3>2. CASE Len(q) # QueueMax
      BY <2>2, <2>5, <3>2
    <3> QED BY <3>1, <3>2
  <2>7. \E e \in 0..last' : Ascends(replay[c], e) /\ Len(replay[c]) <= ReplayLimit /\ Len(replay[c]) <= e
    <3>1. PICK e \in 0..last : Ascends(replay[c], e) /\ Len(replay[c]) <= ReplayLimit /\ Len(replay[c]) <= e
      BY <2>2 DEF Connected
    <3>2. e \in 0..last'
      BY <1>1, <2>2
    <3> QED BY <3>1, <3>2
  <2>8. SeenWithin(c)'
    BY <1>1, <2>2 DEF SeenWithin
  <2>a. CASE link[c] = "off"
    <3>1. r = <<>> /\ q = <<>>
      BY <1>1, <2>2, <2>a DEF Connected, Subscribed
    <3>2. Connected(c)'
      <4>1. Len(<<>>) = 0 /\ Ascends(<<>>, last')
        BY DEF Ascends
      <4>2. last' \in Nat
        BY <1>1, <2>2
      <4> QED BY <1>1, <2>2, <2>7, <2>a, <3>1, <4>1, <4>2 DEF Connected
    <3>3. c \notin cut => HolesKnown(c)'
      <4>1. KnownTo(c) \subseteq KnownTo(c)'
        BY <1>1, <2>6 DEF KnownTo
      <4>2. lastId[c] <= last => lastId[c] <= last'
        BY <1>1, <2>2
      <4> QED BY <1>1, <2>2, <2>a, <4>1, <4>2 DEF HolesKnown
    <3>4. c \notin late => TurnsKept(c)'
      BY <1>1, <2>2, <2>a DEF TurnsKept, Solid
    <3>5. r \in Seq(1..MaxSeq) /\ cut' = cut /\ late' = late
      BY <1>1, <2>2, <3>1
    <3> QED BY <2>6, <2>8, <3>2, <3>3, <3>4, <3>5 DEF ClientInv
  <2>b. CASE link[c] # "off"
    <3>1. r = Put(q, last + 1)
      BY <1>1, <2>b DEF Subscribed
    <3>2. /\ r \in Seq(1..MaxSeq) /\ Ascends(r, last + 1) /\ Len(r) <= QueueMax /\ Len(r) <= last + 1
          /\ Len(r) = IF Len(q) < QueueMax THEN Len(q) + 1 ELSE Len(q)
      BY <1>1, <2>2, <2>3, <3>1, PutAscends, ZenonT(60)
    <3> HIDE DEF r, q
    <3>3. /\ Len(r) \in Nat /\ (r = <<>> => Len(r) = 0)
          /\ \A x : x \in Range(r) <=> x \in Int /\ last + 1 - Len(r) < x /\ x <= last + 1
      <4>1. PICK n \in Nat : n = last + 1
        BY <2>2
      <4>2. Ascends(r, n) /\ r \in Seq(1..MaxSeq)
        BY <3>2, <4>1
      <4>3. /\ Len(r) \in Nat /\ (r = <<>> => Len(r) = 0)
            /\ \A x : x \in Range(r) <=> x \in Int /\ n - Len(r) < x /\ x <= n
        BY <4>2, AscendsRange
      <4>4. \A x : x \in Range(r) <=> x \in Int /\ last + 1 - Len(r) < x /\ x <= last + 1
        <5> SUFFICES ASSUME NEW x PROVE x \in Range(r) <=> x \in Int /\ last + 1 - Len(r) < x /\ x <= last + 1
          OBVIOUS
        <5>1. x \in Range(r) <=> x \in Int /\ n - Len(r) < x /\ x <= n
          BY <4>3
        <5>2. last \in Nat /\ Len(r) \in Nat
          BY <2>2, <4>3
        <5> QED BY <4>1, <5>1, <5>2
      <4> QED BY <4>3, <4>4
    <3>n. /\ last \in Nat /\ Len(q) \in Nat /\ Len(r) \in Nat /\ QueueMax \in Nat /\ QueueMax > 0 /\ Len(q) <= QueueMax
          /\ (Len(r) = Len(q) + 1 /\ Len(q) < QueueMax) \/ (Len(r) = Len(q) /\ Len(q) = QueueMax)
      <4>1. last \in Nat /\ Len(q) \in Nat /\ Len(r) \in Nat /\ QueueMax \in Nat \ {0} /\ Len(q) <= QueueMax
        BY <2>2, <2>3, <2>4, <3>3
      <4>2. Len(r) = IF Len(q) < QueueMax THEN Len(q) + 1 ELSE Len(q)
        BY <3>2
      <4> QED BY <4>1, <4>2
    <3>4. last + 1 \in Range(r) /\ r # <<>>
      <4>1. last + 1 \in Int /\ last + 1 - Len(r) < last + 1 /\ Len(r) # 0
        BY <3>n
      <4> QED BY <3>3, <4>1
    <3>5. ASSUME NEW x \in Range(r), x # last + 1 PROVE x \in Range(q)
      <4>1. x \in Int /\ last + 1 - Len(r) < x /\ x <= last + 1
        BY <3>3
      <4>2. last - Len(q) < x /\ x <= last
        BY <3>n, <3>5, <4>1
      <4> QED BY <2>4, <4>1, <4>2
    <3>6. ASSUME NEW x \in Range(q) PROVE x \in Range(r) \cup excused'[c]
      <4>1. x \in Int /\ last - Len(q) < x /\ x <= last
        BY <2>4
      <4>2. CASE Len(q) < QueueMax
        <5>1. last + 1 - Len(r) < x /\ x <= last + 1
          BY <3>n, <4>1, <4>2
        <5> QED BY <3>3, <4>1, <5>1
      <4>3. CASE Len(q) = QueueMax
        <5>1. q # <<>>
          BY <2>4, <3>n, <4>3
        <5>2. Head(q) = last - Len(q) + 1
          BY <2>4, <5>1
        <5>3. x = Head(q) \/ (last + 1 - Len(r) < x /\ x <= last + 1)
          BY <3>n, <4>1, <4>3, <5>2
        <5> QED BY <2>5, <3>3, <4>1, <4>3, <5>3
      <4> QED BY <3>n, <4>2, <4>3
    <3>7. Connected(c)'
      BY <1>1, <2>2, <2>7, <2>b, <3>2 DEF Connected, r
    <3>8. ASSUME c \notin cut PROVE HolesKnown(c)'
      <4>1. KnownTo(c)' = seen[c] \cup excused'[c] /\ KnownTo(c) \subseteq KnownTo(c)' /\ HolesKnown(c)
        BY <1>1, <2>2, <2>6, <3>8 DEF KnownTo
      <4>2. ASSUME link[c] = "live" PROVE 1..last + 1 \subseteq KnownTo(c)' \cup Range(replay[c]) \cup Range(r)
        <5>1. 1..last \subseteq KnownTo(c) \cup Range(replay[c]) \cup Range(q)
          BY <4>1, <4>2 DEF HolesKnown, q
        <5>2. \A x \in 1..last + 1 : x = last + 1 \/ x \in 1..last
          BY <2>2
        <5> QED BY <3>4, <3>6, <4>1, <5>1, <5>2
      <4>3. (lastId[c] <= last => lastId[c] <= last + 1) /\ (resume[c] <= last => resume[c] <= last + 1)
        BY <2>2
      <4> QED BY <1>1, <3>4, <4>1, <4>2, <4>3 DEF HolesKnown, r
    <3>9. ASSUME c \notin late PROVE TurnsKept(c)'
      <4>1. TurnsKept(c) /\ \A t : Solid(c, t)' <=> Solid(c, t)
        BY <1>1, <2>2, <3>9 DEF Solid
      <4>2. CASE link[c] = "live"
        <5>1. Solid(c, last + 1)
          <6> SUFFICES ASSUME NEW u \in seen[c], NEW x \in last + 1..u PROVE FALSE
            BY DEF Solid
          <6>1. u \in 1..knownMax[c] /\ knownMax[c] <= last
            BY <2>2, <4>2 DEF SeenWithin, Connected
          <6> QED BY <2>2, <6>1
        <5>2. replay[c] # <<>> => ~(last + 1 < Head(replay[c]))
          <6>1. PICK e \in 0..last : Ascends(replay[c], e) /\ Len(replay[c]) <= e
            BY <2>2 DEF Connected
          <6>2. e \in Nat /\ e <= last
            BY <2>2
          <6>3. replay[c] \in Seq(1..MaxSeq) /\ last \in Nat
            BY <2>2
          <6> QED BY <6>1, <6>2, <6>3, HeadWithin
        <5>3. \A t \in Range(r) : t > resume[c] => Solid(c, t) /\ (replay[c] # <<>> /\ t < Head(replay[c]) => t \in seen[c])
          <6> SUFFICES ASSUME NEW t \in Range(r), t > resume[c]
                       PROVE Solid(c, t) /\ (replay[c] # <<>> /\ t < Head(replay[c]) => t \in seen[c])
            OBVIOUS
          <6>1. CASE t = last + 1
            BY <5>1, <5>2, <6>1
          <6>2. CASE t # last + 1
            <7>1. t \in Range(queue[c])
              BY <3>5, <6>2 DEF q
            <7> QED BY <4>1, <4>2, <7>1 DEF TurnsKept
          <6> QED BY <6>1, <6>2
        <5> QED BY <1>1, <4>1, <4>2, <5>3 DEF TurnsKept, r
      <4>3. CASE link[c] # "live"
        BY <1>1, <4>1, <4>3 DEF TurnsKept
      <4> QED BY <4>2, <4>3
    <3> QED BY <1>1, <2>6, <2>8, <3>2, <3>7, <3>8, <3>9 DEF ClientInv, r
  <2> QED BY <2>a, <2>b
<1>3. StreamTypes'
  <2>1. Subscribed' = Subscribed /\ last' \in 0..MaxSeq
    BY <1>1, <1>t DEF Subscribed, StreamTypes
  <2>2. queue' \in [Clients -> Seq(1..MaxSeq)] /\ excused' \in [Clients -> SUBSET (1..MaxSeq)]
    BY <1>1, <1>2
  <2> QED BY <1>1, <1>t, <2>1, <2>2 DEF StreamTypes
<1> QED BY <1>2, <1>3 DEF StreamInv

\* The replay of a connection begins behind the number it resumes from, and is the newest
\* part of what the history has.
LEMMA ReplayFacts ==
    ASSUME StreamInv, NEW c \in Clients
    PROVE  LET from == ReplayFrom(c) IN
           /\ from \in Nat \ {0} /\ from > resume[c] /\ last - from + 1 <= ReplayLimit
           /\ resume[c] = 0 /\ last > 0 => from <= last
           /\ Oldest <= resume[c] + 1 => MissedFrom(c) = resume[c] + 1
<1>1. last \in Nat /\ resume[c] \in 0..MaxSeq /\ ReplayLimit \in Nat \ {0} /\ HistoryMax \in Nat \ {0} /\ MaxSeq \in Nat
  BY ClientTypes
<1>2. Oldest \in Nat /\ Oldest <= last
  <2>1. CASE last = 0
    BY <2>1 DEF Oldest
  <2>2. CASE last # 0
    <3>1. PICK n \in Int : n = last - HistoryMax + 1
      BY <1>1
    <3>2. Max({1, n}) = IF 1 >= n THEN 1 ELSE n
      BY MaxOfTwo
    <3>3. Oldest = Max({1, n})
      BY <2>2, <3>1 DEF Oldest
    <3> QED BY <1>1, <2>2, <3>1, <3>2, <3>3
  <2> QED BY <2>1, <2>2
<1>3. PICK r \in Nat : r = resume[c] + 1
  BY <1>1
<1>4. PICK l \in Int : l = last - ReplayLimit + 1
  BY <1>1
<1>5. MissedFrom(c) = IF Oldest >= r THEN Oldest ELSE r
  BY <1>2, <1>3, MaxOfTwo DEF MissedFrom
<1>6. MissedFrom(c) \in Nat
  BY <1>2, <1>5
<1>7. ReplayFrom(c) = IF MissedFrom(c) >= l THEN MissedFrom(c) ELSE l
  BY <1>4, <1>6, MaxOfTwo DEF ReplayFrom
<1>8. PICK f, m, o \in Int : f = ReplayFrom(c) /\ m = MissedFrom(c) /\ o = Oldest
  BY <1>2, <1>6, <1>7
<1> QED BY <1>1, <1>2, <1>3, <1>4, <1>5, <1>7, <1>8

LEMMA StartKeeps ==
    ASSUME StreamInv, NEW c \in Clients, Start(c)
    PROVE  StreamInv'
<1> DEFINE restarted == epoch[c] \notin {0, boot}
<1>0. PICK f, p : f = ReplayFrom(c) /\ p = Numbers(f, last)
  OBVIOUS
<1>1. /\ link[c] = "opened" /\ link' = [link EXCEPT ![c] = "live"]
      /\ replay' = [replay EXCEPT ![c] = p] /\ epoch' = [epoch EXCEPT ![c] = boot]
      /\ seen' = IF restarted THEN [seen EXCEPT ![c] = {}] ELSE seen
      /\ knownMax' = IF restarted THEN [knownMax EXCEPT ![c] = 0] ELSE knownMax
      /\ excused' = [excused EXCEPT ![c] = IF restarted \/ resume[c] = 0 \/ ~Complete(c) THEN 1..last ELSE @]
      /\ cut' = IF resume[c] > 0 /\ (restarted \/ (Oldest <= resume[c] + 1 /\ f # MissedFrom(c)))
                THEN cut \cup {c} ELSE cut
      /\ late' = IF \E s \in Range(queue[c]) : resume[c] < s /\ s < f THEN late \cup {c} ELSE late
      /\ UNCHANGED <<boot, last, resume, queue, lastId>>
  BY <1>0 DEF Start, serverVars
<1>t. StreamTypes
  BY DEF StreamInv
<1>2. /\ boot \in Nat \ {0} /\ last \in Nat /\ last <= MaxSeq /\ MaxSeq \in Nat /\ QueueMax \in Nat /\ ReplayLimit \in Nat \ {0}
      /\ queue[c] \in Seq(1..MaxSeq)
      /\ resume[c] \in 0..MaxSeq /\ lastId[c] \in 0..MaxSeq /\ knownMax[c] \in 0..MaxSeq /\ epoch[c] \in Nat
      /\ seen[c] \subseteq 1..MaxSeq /\ excused[c] \subseteq 1..MaxSeq
      /\ Connected(c) /\ SeenWithin(c) /\ (c \notin cut => HolesKnown(c)) /\ (c \notin late => TurnsKept(c))
  BY ClientTypes
<1>3. /\ f \in Nat \ {0} /\ f > resume[c] /\ last - f + 1 <= ReplayLimit
      /\ resume[c] = 0 /\ last > 0 => f <= last
      /\ Oldest <= resume[c] + 1 => MissedFrom(c) = resume[c] + 1
  BY <1>0, ReplayFacts
<1>4. p \in Seq(1..MaxSeq) /\ Ascends(p, last) /\ Len(p) = IF f <= last THEN last - f + 1 ELSE 0
  <2>1. last \in 0..MaxSeq
    BY <1>2
  <2> QED BY <1>0, <1>3, <2>1, NumbersAscend
<1>5. /\ Len(p) \in Nat /\ \A x : x \in Range(p) <=> x \in Int /\ last - Len(p) < x /\ x <= last
      /\ p # <<>> => Len(p) >= 1 /\ Head(p) = last - Len(p) + 1
      /\ p = <<>> => Len(p) = 0
  BY <1>2, <1>4, AscendsRange
<1>6. /\ \A x : x \in Range(p) <=> x \in Int /\ f <= x /\ x <= last
      /\ p # <<>> => Head(p) = f /\ f <= last
      /\ p = <<>> => f > last
      /\ Len(p) <= ReplayLimit /\ Len(p) <= last
  <2>n. last \in Nat /\ f \in Nat \ {0} /\ ReplayLimit \in Nat \ {0} /\ Len(p) \in Nat /\ last - f + 1 <= ReplayLimit
    BY <1>2, <1>3, <1>5
  <2>1. CASE f <= last
    <3>1. Len(p) = last - f + 1
      BY <1>4, <2>1
    <3>2. last - Len(p) = f - 1 /\ last - Len(p) + 1 = f /\ Len(p) <= last /\ Len(p) # 0
      BY <2>n, <2>1, <3>1
    <3>3. \A x \in Int : f - 1 < x <=> f <= x
      BY <2>n
    <3> QED BY <1>5, <2>n, <2>1, <3>1, <3>2, <3>3
  <2>2. CASE ~(f <= last)
    <3>1. Len(p) = 0 /\ p = <<>>
      <4>1. Len(p) = 0
        BY <1>4, <2>2
      <4> QED BY <1>5, <4>1
    <3>2. Range(p) = {}
      BY <3>1 DEF Range
    <3>3. \A x \in Int : ~(f <= x /\ x <= last)
      BY <2>n, <2>2
    <3> QED BY <2>n, <2>2, <3>1, <3>2, <3>3
  <2> QED BY <2>1, <2>2
<1>7. /\ link'[c] = "live" /\ replay'[c] = p /\ epoch'[c] = boot
      /\ seen'[c] = (IF restarted THEN {} ELSE seen[c]) /\ knownMax'[c] = (IF restarted THEN 0 ELSE knownMax[c])
      /\ excused'[c] = IF restarted \/ resume[c] = 0 \/ ~Complete(c) THEN 1..last ELSE excused[c]
  BY <1>1, <1>t DEF StreamTypes
<1>8. ASSUME NEW d \in Clients, d # c
      PROVE  /\ link'[d] = link[d] /\ replay'[d] = replay[d] /\ epoch'[d] = epoch[d] /\ seen'[d] = seen[d]
             /\ knownMax'[d] = knownMax[d] /\ excused'[d] = excused[d]
  BY <1>1, <1>8, <1>t DEF StreamTypes
<1>9. StreamTypes'
  <2>1. Subscribed' = Subscribed
    BY <1>1, <1>7, <1>8 DEF Subscribed
  <2>2. link' \in [Clients -> {"off", "opened", "live"}] /\ replay' \in [Clients -> Seq(1..MaxSeq)] /\ epoch' \in [Clients -> Nat]
    BY <1>1, <1>2, <1>4, <1>t DEF StreamTypes
  <2>3. seen' \in [Clients -> SUBSET (1..MaxSeq)] /\ knownMax' \in [Clients -> 0..MaxSeq]
    <3>1. 0 \in 0..MaxSeq /\ {} \in SUBSET (1..MaxSeq)
      BY <1>2
    <3> QED BY <1>1, <1>t, <3>1 DEF StreamTypes
  <2>4. excused' \in [Clients -> SUBSET (1..MaxSeq)]
    <3>1. 1..last \in SUBSET (1..MaxSeq)
      BY <1>2
    <3> QED BY <1>1, <1>t, <3>1 DEF StreamTypes
  <2>5. cut' \subseteq Clients /\ late' \subseteq Clients
    BY <1>1, <1>t DEF StreamTypes
  <2> QED BY <1>1, <1>t, <2>1, <2>2, <2>3, <2>4, <2>5 DEF StreamTypes
<1>10. Connected(c)'
  <2>1. last \in 0..last
    BY <1>2
  <2> QED BY <1>1, <1>2, <1>4, <1>6, <1>7, <2>1 DEF Connected
<1>11. SeenWithin(c)'
  <2>1. seen'[c] \subseteq 1..knownMax'[c] /\ knownMax'[c] <= last
    <3>1. CASE restarted
      BY <1>2, <1>7, <3>1
    <3>2. CASE ~restarted
      BY <1>2, <1>7, <3>2 DEF SeenWithin
    <3> QED BY <3>1, <3>2
  <2> QED BY <1>1, <1>2, <1>7, <2>1 DEF SeenWithin
\* What the connection may resume from, unless it comes from another boot.
<1>12. /\ resume[c] \in {lastId[c], knownMax[c]}
       /\ epoch[c] = 0 => resume[c] = 0 /\ lastId[c] = 0 /\ knownMax[c] = 0 /\ seen[c] = {}
       /\ c \notin cut /\ epoch[c] = boot => lastId[c] <= last /\ knownMax[c] <= last
       /\ c \notin cut /\ knownMax[c] = 0 => lastId[c] = 0 /\ resume[c] = 0
  <2>1. epoch[c] = 0 => seen[c] = {}
    BY <1>2 DEF SeenWithin
  <2> QED BY <1>1, <1>2, <2>1 DEF Connected, SeenWithin, HolesKnown
<1>13. ASSUME c \notin cut' PROVE HolesKnown(c)'
  <2>1. c \notin cut /\ (restarted => resume[c] = 0) /\ (resume[c] > 0 /\ Oldest <= resume[c] + 1 => f = MissedFrom(c))
    <3>1. CASE resume[c] > 0
      BY <1>1, <1>13, <3>1
    <3>2. CASE ~(resume[c] > 0)
      <4>1. resume[c] = 0
        BY <1>2, <3>2
      <4> QED BY <1>1, <1>13, <3>2, <4>1
    <3> QED BY <3>1, <3>2
  <2>2. restarted => lastId[c] = 0
    BY <1>12, <2>1
  <2>3. lastId[c] <= last /\ knownMax'[c] <= last /\ resume[c] <= last
    BY <1>2, <1>7, <1>12, <2>1, <2>2
  <2>4. knownMax'[c] = 0 => lastId[c] = 0 /\ resume[c] = 0
    BY <1>7, <1>12, <2>1, <2>2
  <2>5. knownMax'[c] = 0 /\ last > 0 => p # <<>>
    <3> SUFFICES ASSUME knownMax'[c] = 0, last > 0, p = <<>> PROVE FALSE
      OBVIOUS
    <3>1. f <= last /\ f > last
      BY <1>3, <1>6, <2>4
    <3> QED BY <1>2, <1>3, <3>1
  <2>6. /\ 1..lastId[c] \subseteq KnownTo(c)' /\ 1..knownMax'[c] \subseteq KnownTo(c)' /\ 1..resume[c] \subseteq KnownTo(c)'
        /\ 1..last \subseteq KnownTo(c)' \cup Range(p)
        /\ p # <<>> => 1..f - 1 \subseteq KnownTo(c)'
    <3>a. CASE restarted \/ resume[c] = 0 \/ ~Complete(c)
      <4>1. 1..last \subseteq KnownTo(c)'
        BY <1>7, <3>a DEF KnownTo
      <4>2. \A n \in Int : n <= last => 1..n \subseteq KnownTo(c)'
        BY <1>2, <4>1
      <4>3. lastId[c] \in Int /\ knownMax'[c] \in Int /\ resume[c] \in Int /\ (p # <<>> => f - 1 \in Int /\ f - 1 <= last)
        <5>1. lastId[c] \in Int /\ knownMax'[c] \in Int /\ resume[c] \in Int
          BY <1>2, <1>7
        <5>2. f \in Nat \ {0} /\ last \in Nat
          BY <1>2, <1>3
        <5>3. f <= last => f - 1 \in Int /\ f - 1 <= last
          BY <5>2
        <5> QED BY <1>6, <5>1, <5>3
      <4> QED BY <2>3, <4>1, <4>2, <4>3
    <3>b. CASE ~(restarted \/ resume[c] = 0 \/ ~Complete(c))
      <4>1. epoch[c] = boot /\ resume[c] > 0
        BY <1>2, <1>12, <3>b
      <4>2. f = resume[c] + 1
        <5>1. Oldest <= resume[c] + 1
          <6>1. 0 <= resume[c] + 1
            BY <1>2
          <6> QED BY <3>b, <6>1 DEF Complete
        <5> QED BY <1>3, <2>1, <4>1, <5>1
      <4>3. KnownTo(c)' = KnownTo(c) /\ knownMax'[c] = knownMax[c]
        BY <1>7, <3>b DEF KnownTo
      <4>4. 1..lastId[c] \subseteq KnownTo(c) /\ 1..knownMax[c] \subseteq KnownTo(c)
        BY <1>2, <2>1, <4>1 DEF HolesKnown
      <4>5. 1..resume[c] \subseteq KnownTo(c)
        BY <1>12, <4>4
      <4>6. \A x \in 1..last : x \in 1..resume[c] \/ (x \in Int /\ f <= x /\ x <= last)
        <5>1. last \in Int /\ resume[c] \in Int
          BY <1>2
        <5> QED BY <4>2, <5>1
      <4>7. f - 1 = resume[c]
        <5>1. resume[c] \in Int
          BY <1>2
        <5> QED BY <4>2, <5>1
      <4> QED BY <1>6, <4>3, <4>4, <4>5, <4>6, <4>7
    <3> QED BY <3>a, <3>b
  <2>7. 1..last \subseteq KnownTo(c)' \cup Range(replay'[c]) \cup Range(queue[c])
    BY <1>7, <2>6
  <2>8. replay'[c] # <<>> => 1..Head(replay'[c]) - 1 \subseteq KnownTo(c)'
    BY <1>6, <1>7, <2>6
  <2> QED BY <1>1, <1>7, <2>3, <2>4, <2>5, <2>6, <2>7, <2>8 DEF HolesKnown
<1>14. ASSUME c \notin late' PROVE TurnsKept(c)'
  <2>1. c \notin late /\ \A s \in Range(queue[c]) : ~(resume[c] < s /\ s < f)
    BY <1>1, <1>14
  <2>2. \A t : (Solid(c, t) => Solid(c, t)') /\ (restarted \/ epoch[c] = 0 => Solid(c, t)')
    BY <1>7, <1>12 DEF Solid
  <2>3. Solid(c, lastId[c] + 1)'
    <3>1. CASE restarted \/ epoch[c] = 0
      BY <2>2, <3>1
    <3>2. CASE ~(restarted \/ epoch[c] = 0)
      <4>1. epoch[c] = boot
        BY <3>2
      <4>2. PICK n : n = lastId[c] + 1 /\ Solid(c, n)
        BY <1>2, <2>1, <4>1 DEF TurnsKept
      <4>3. Solid(c, n)' /\ n = (lastId[c] + 1)'
        BY <1>1, <2>2, <4>2
      <4> QED BY <4>3
    <3> QED BY <3>1, <3>2
  <2>4. ASSUME NEW t \in Nat, t > resume[c] PROVE Solid(c, t)'
    <3>1. CASE restarted \/ epoch[c] = 0
      BY <2>2, <3>1
    <3>2. CASE ~(restarted \/ epoch[c] = 0)
      <4>1. epoch[c] = boot /\ Solid(c, lastId[c] + 1)
        BY <1>2, <2>1, <3>2 DEF TurnsKept
      <4>2. Solid(c, t)
        <5> SUFFICES ASSUME NEW u \in seen[c], NEW x \in t..u PROVE x \in seen[c]
          BY DEF Solid
        <5>1. u \in Int /\ x \in Int /\ t <= x /\ x <= u
          BY <1>2, <2>4
        <5>2. CASE resume[c] = lastId[c]
          <6>1. lastId[c] \in Int
            BY <1>2
          <6>2. x \in lastId[c] + 1..u
            BY <2>4, <5>1, <5>2, <6>1
          <6> QED BY <4>1, <6>2 DEF Solid
        <5>3. CASE resume[c] = knownMax[c]
          <6>1. u \in 1..knownMax[c] /\ knownMax[c] \in Int
            BY <1>2 DEF SeenWithin
          <6> QED BY <2>4, <5>1, <5>3, <6>1
        <5> QED BY <1>12, <5>2, <5>3
      <4> QED BY <2>2, <4>2
    <3> QED BY <3>1, <3>2
  <2>5. ASSUME NEW t \in Range(p) PROVE Solid(c, t)'
    <3>1. t \in Int /\ f <= t
      BY <1>6
    <3>2. f \in Nat /\ resume[c] \in Nat /\ f > resume[c]
      BY <1>2, <1>3
    <3>3. t \in Nat /\ t > resume[c]
      BY <3>1, <3>2
    <3> QED BY <2>4, <3>3
  <2>6. ASSUME NEW t \in Range(queue[c]), t > resume[c]
        PROVE  Solid(c, t)' /\ (p # <<>> => ~(t < Head(p)))
    <3>1. t \in 1..MaxSeq
      BY <1>2, SeqShape
    <3>2. t \in Nat
      BY <3>1
    <3>3. resume[c] < t
      BY <1>2, <2>6, <3>2
    <3>4. ~(t < f)
      BY <2>1, <3>3
    <3> QED BY <1>6, <2>4, <2>6, <3>2, <3>4
  <2>7. \A t \in Range(replay'[c]) : Solid(c, t)'
    BY <1>7, <2>5
  <2>8. \A t \in Range(queue[c]) : t > resume[c] =>
            Solid(c, t)' /\ (replay'[c] # <<>> /\ t < Head(replay'[c]) => t \in seen'[c])
    BY <1>7, <2>6
  <2>9. lastId'[c] = lastId[c] /\ Solid(c, lastId[c] + 1)'
    BY <1>1, <2>3
  <2> QED BY <1>1, <2>7, <2>8, <2>9 DEF TurnsKept
<1>15. ASSUME NEW d \in Clients, d # c PROVE ClientInv(d)'
  <2>1. ClientInv(d)
    BY DEF StreamInv
  <2>2. (d \notin cut' => d \notin cut) /\ (d \notin late' => d \notin late)
    BY <1>1
  <2>3. /\ UNCHANGED serverVars /\ resume'[d] = resume[d] /\ queue'[d] = queue[d] /\ lastId'[d] = lastId[d]
    BY <1>1 DEF serverVars
  <2> QED BY <1>8, <1>15, <2>1, <2>2, <2>3, OthersKeep
<1> QED BY <1>9, <1>10, <1>11, <1>13, <1>14, <1>15 DEF StreamInv, ClientInv

LEMMA StreamInvStep == StreamInv /\ [StreamNext]_streamVars => StreamInv'
<1> SUFFICES ASSUME StreamInv, [StreamNext]_streamVars PROVE StreamInv'
  OBVIOUS
<1>1. CASE Publish
  BY <1>1, PublishKeeps
<1>2. CASE BackendRestarts
  BY <1>2, RestartKeeps
<1>3. ASSUME NEW c \in Clients, Open(c) \/ Start(c) \/ SendMissed(c) \/ SendLive(c) \/ Ping(c) \/ Break(c)
      PROVE  StreamInv'
  BY <1>3, OpenKeeps, StartKeeps, SendMissedKeeps, SendLiveKeeps, PingKeeps, BreakKeeps
<1>4. CASE UNCHANGED streamVars
  <2>1. UNCHANGED <<boot, last, link, resume, queue, replay, lastId, knownMax, epoch, seen, excused, cut, late>>
    BY <1>4 DEF streamVars, serverVars, linkVars, clientVars
  <2>2. StreamTypes'
    BY <2>1 DEF StreamInv, StreamTypes, Subscribed
  <2>3. ASSUME NEW c \in Clients PROVE ClientInv(c)'
    <3>1. ClientInv(c)
      BY DEF StreamInv
    <3> QED BY <2>1, <3>1, OthersKeep DEF serverVars
  <2> QED BY <2>2, <2>3 DEF StreamInv
<1> QED BY <1>1, <1>2, <1>3, <1>4 DEF StreamNext

LEMMA StreamInvSound == StreamInv => StreamTypeOK /\ NoSilentHole
<1> SUFFICES ASSUME StreamInv PROVE StreamTypeOK /\ NoSilentHole
  OBVIOUS
<1>1. StreamTypes
  BY DEF StreamInv
<1>2. ASSUME NEW c \in Clients
      PROVE  /\ resume[c] \in 0..MaxSeq /\ lastId[c] \in 0..MaxSeq /\ knownMax[c] \in 0..MaxSeq
             /\ epoch[c] \in 0..boot /\ seen[c] \subseteq 1..MaxSeq
             /\ Len(queue[c]) <= QueueMax /\ Len(replay[c]) <= ReplayLimit
             /\ c \notin cut /\ Quiet(c) => 1..last \subseteq seen[c] \cup excused[c]
  <2>1. /\ resume[c] \in 0..MaxSeq /\ lastId[c] \in 0..MaxSeq /\ knownMax[c] \in 0..MaxSeq /\ epoch[c] \in Nat
        /\ seen[c] \subseteq 1..MaxSeq /\ Connected(c) /\ SeenWithin(c) /\ (c \notin cut => HolesKnown(c)) /\ boot \in Nat
    BY ClientTypes
  <2>2. epoch[c] \in 0..boot
    BY <2>1 DEF SeenWithin
  <2>3. Len(queue[c]) <= QueueMax /\ Len(replay[c]) <= ReplayLimit
    BY <2>1 DEF Connected
  <2>4. ASSUME c \notin cut, Quiet(c) PROVE 1..last \subseteq seen[c] \cup excused[c]
    <3>1. Range(replay[c]) = {} /\ Range(queue[c]) = {}
      BY <2>4 DEF Quiet, Range
    <3> QED BY <2>1, <2>4, <3>1 DEF Quiet, HolesKnown, KnownTo
  <2> QED BY <2>1, <2>2, <2>3, <2>4
<1> QED BY <1>1, <1>2 DEF StreamTypes, StreamTypeOK, NoSilentHole

\* What is received is newer than everything the browser has seen, or was seen already.
LEMMA InOrderStep ==
    ASSUME StreamInv, [StreamNext]_streamVars, NEW c \in Clients \ late', epoch'[c] = epoch[c],
           NEW s \in seen'[c] \ seen[c], NEW u \in seen[c]
    PROVE  u < s
<1>1. seen \in [Clients -> SUBSET (1..MaxSeq)]
  BY DEF StreamInv, StreamTypes
<1>2. CASE UNCHANGED seen
  BY <1>2
<1>3. CASE Start(c)
  BY <1>1, <1>3 DEF Start
<1>4. CASE SendMissed(c) \/ SendLive(c)
  <2>1. /\ c \notin late /\ Solid(c, s) /\ s \in 1..MaxSeq
    <3>0. TurnsKept(c) /\ queue[c] \in Seq(1..MaxSeq) /\ replay[c] \in Seq(1..MaxSeq) /\ c \notin late /\ resume[c] \in Int
      <4>1. late' = late
        BY <1>4 DEF SendMissed, SendLive
      <4> QED BY <4>1, ClientTypes
    <3>1. CASE SendMissed(c)
      <4>1. replay[c] # <<>> /\ link[c] = "live" /\ seen' = [seen EXCEPT ![c] = @ \cup {Head(replay[c])}]
        BY <3>1 DEF SendMissed, Receive
      <4>2. s = Head(replay[c])
        BY <1>1, <4>1
      <4>3. s \in Range(replay[c]) /\ s \in 1..MaxSeq
        BY <3>0, <4>1, <4>2, RangeTail
      <4> QED BY <3>0, <4>1, <4>3 DEF TurnsKept
    <3>2. CASE SendLive(c)
      <4>1. queue[c] # <<>> /\ link[c] = "live" /\ ~(Head(queue[c]) <= resume[c]) /\ seen' = [seen EXCEPT ![c] = @ \cup {Head(queue[c])}]
        BY <3>2 DEF SendLive, TurnOf, Receive
      <4>2. s = Head(queue[c])
        BY <1>1, <4>1
      <4>3. s \in Range(queue[c]) /\ s \in 1..MaxSeq
        BY <3>0, <4>1, <4>2, RangeTail
      <4>4. s > resume[c]
        BY <3>0, <4>1, <4>2, <4>3
      <4> QED BY <3>0, <4>1, <4>3, <4>4 DEF TurnsKept
    <3> QED BY <1>4, <3>1, <3>2
  <2>2. u \in 1..MaxSeq /\ s \notin seen[c]
    BY <1>1
  <2>3. ~(s <= u)
    <3> SUFFICES ASSUME s <= u PROVE FALSE
      OBVIOUS
    <3>1. s \in s..u
      BY <2>1, <2>2
    <3> QED BY <2>1, <2>2, <3>1 DEF Solid
  <2> QED BY <2>1, <2>2, <2>3
<1>5. ASSUME NEW d \in Clients, d # c, Start(d) \/ SendMissed(d) \/ SendLive(d) PROVE seen'[c] = seen[c]
  BY <1>1, <1>5 DEF Start, SendMissed, SendLive, Receive
<1>6. ASSUME NEW d \in Clients, Open(d) \/ Ping(d) \/ Break(d) PROVE UNCHANGED seen
  BY <1>6 DEF Open, Ping, Break, clientVars
<1>7. Publish \/ BackendRestarts \/ UNCHANGED streamVars => UNCHANGED seen
  BY DEF Publish, BackendRestarts, streamVars, clientVars
<1> QED BY <1>2, <1>3, <1>4, <1>5, <1>6, <1>7 DEF StreamNext

HIDE StreamAssumption

-----------------------------------------------------------------------------
(* The gate of the LLM calls *)

USE LimiterAssumption

CallerPlaces == {"out", "asleep", "awake", "inside"}
InsideGate == In("inside")
WaitingAtGate == In("asleep") \cup In("awake")

\* The counters are cardinalities, so that a counter never meets its floor of zero.
CallersCounted ==
    /\ used = Cardinality(InsideGate)
    /\ p0Used = Cardinality(InsideGate \cap P0)
    /\ waiters = Cardinality(WaitingAtGate)

GateBounds == used <= Limit /\ used - p0Used <= Limit - Reserve

LimiterInv == caller \in [Callers -> CallerPlaces] /\ CallersCounted /\ GateBounds /\ NoSleeperAtOpenGate
-----------------------------------------------------------------------------
(* Counting *)

\* Any set of callers is finite and has a natural number of members.
LEMMA CallerSets ==
    ASSUME NEW S \in SUBSET Callers
    PROVE  IsFiniteSet(S) /\ Cardinality(S) \in Nat
BY FS_Subset, FS_CardinalityType

LEMMA OneMore ==
    ASSUME NEW S \in SUBSET Callers, NEW c \in Callers, c \notin S
    PROVE  Cardinality(S \cup {c}) = Cardinality(S) + 1
BY CallerSets, FS_AddElement

LEMMA OneLess ==
    ASSUME NEW S \in SUBSET Callers, NEW c \in S
    PROVE  Cardinality(S) \in Nat \ {0} /\ Cardinality(S \ {c}) = Cardinality(S) - 1
<1>1. IsFiniteSet(S) /\ Cardinality(S) \in Nat
  BY CallerSets
<1>2. Cardinality(S \ {c}) = Cardinality(S) - 1
  BY <1>1, FS_RemoveElement
<1>3. Cardinality(S) # 0
  BY <1>1, FS_EmptySet
<1> QED BY <1>1, <1>2, <1>3

\* The counts as numbers, and those below P0 as their difference.
LEMMA CallerNumbers ==
    ASSUME CallersCounted
    PROVE  /\ used \in Nat /\ waiters \in Nat /\ p0Used \in 0..used
           /\ Cardinality(InsideGate \ P0) = used - p0Used
<1>1. InsideGate \in SUBSET Callers /\ WaitingAtGate \in SUBSET Callers /\ InsideGate \cap P0 \in SUBSET Callers
  BY DEF InsideGate, WaitingAtGate, In
<1>2. used \in Nat /\ waiters \in Nat /\ p0Used \in Nat
  BY <1>1, CallerSets DEF CallersCounted
<1>3. Cardinality(InsideGate \cap P0) <= Cardinality(InsideGate)
  BY <1>1, CallerSets, FS_Subset
<1>4. Cardinality(InsideGate \ P0) = Cardinality(InsideGate) - Cardinality(InsideGate \cap P0)
  BY <1>1, CallerSets, FS_Difference
<1> QED BY <1>2, <1>3, <1>4 DEF CallersCounted
-----------------------------------------------------------------------------
(* The parts of a step *)

\* A call that moves leaves every place but the one it goes to.
LEMMA Moved ==
    ASSUME caller \in [Callers -> CallerPlaces], NEW c \in Callers, NEW where \in CallerPlaces, Moves(c, where)
    PROVE  /\ caller' \in [Callers -> CallerPlaces]
           /\ \A p : In(p)' = IF p = where THEN In(p) \cup {c} ELSE In(p) \ {c}
BY DEF Moves, In, CallerPlaces

\* Who takes a slot is counted, and the gate closes a little for everyone.
LEMMA TakesASlot ==
    ASSUME LimiterInv, NEW c \in Callers, caller[c] # "inside", CanEnter(c), Takes(c)
    PROVE  /\ used' = Cardinality(InsideGate') /\ p0Used' = Cardinality((InsideGate \cap P0)')
           /\ GateBounds'
           /\ \A d \in Callers : ~CanEnter(d) => ~CanEnter(d)'
<1>1. InsideGate' = InsideGate \cup {c} /\ InsideGate \in SUBSET Callers /\ c \notin InsideGate
  BY Moved DEF LimiterInv, Takes, InsideGate, In, CallerPlaces
<1>2. used' = Cardinality(InsideGate')
  BY <1>1, OneMore DEF Takes, LimiterInv, CallersCounted
<1>3. p0Used' = Cardinality((InsideGate \cap P0)')
  <2>1. CASE c \in P0
    <3>1. (InsideGate \cap P0)' = (InsideGate \cap P0) \cup {c}
      BY <1>1, <2>1
    <3>2. Cardinality((InsideGate \cap P0) \cup {c}) = Cardinality(InsideGate \cap P0) + 1
      BY <1>1, OneMore
    <3> QED BY <2>1, <3>1, <3>2 DEF Takes, LimiterInv, CallersCounted
  <2>2. CASE c \notin P0
    BY <1>1, <2>2 DEF Takes, LimiterInv, CallersCounted
  <2> QED BY <2>1, <2>2
<1>4. used \in Nat /\ p0Used \in 0..used
  BY CallerNumbers DEF LimiterInv
<1>5. used' = used + 1 /\ p0Used' = (IF c \in P0 THEN p0Used + 1 ELSE p0Used)
  BY DEF Takes
<1>6. GateBounds'
  BY <1>4, <1>5 DEF GateBounds, LimiterInv, CanEnter
<1>7. \A d \in Callers : ~CanEnter(d) => ~CanEnter(d)'
  BY <1>4, <1>5 DEF CanEnter
<1> QED BY <1>2, <1>3, <1>6, <1>7

\* Who joins, leaves or stays in the queue: the callers inside do not change.
LEMMA OnlyWaits ==
    ASSUME LimiterInv, NEW c \in Callers, caller[c] # "inside", NEW where \in CallerPlaces \ {"inside"},
           Moves(c, where), UNCHANGED <<used, p0Used>>,
           where = "asleep" => ~CanEnter(c)
    PROVE  /\ used' = Cardinality(InsideGate') /\ p0Used' = Cardinality((InsideGate \cap P0)')
           /\ GateBounds' /\ NoSleeperAtOpenGate'
<1>1. InsideGate' = InsideGate
  BY Moved DEF LimiterInv, InsideGate, In
<1>2. used' = Cardinality(InsideGate') /\ p0Used' = Cardinality((InsideGate \cap P0)') /\ GateBounds'
  BY <1>1 DEF LimiterInv, CallersCounted, GateBounds
<1>3. NoSleeperAtOpenGate'
  <2> SUFFICES ASSUME NEW d \in In("asleep")' PROVE ~CanEnter(d)'
    BY DEF NoSleeperAtOpenGate
  <2>1. d \in In("asleep") \/ (d = c /\ where = "asleep")
    BY Moved DEF LimiterInv
  <2>2. ~CanEnter(d)
    BY <2>1 DEF LimiterInv, NoSleeperAtOpenGate
  <2> QED BY <2>2 DEF CanEnter
<1> QED BY <1>2, <1>3

\* The count of those who wait, for each way in and out of the queue.
LEMMA QueueCounted ==
    ASSUME LimiterInv, NEW c \in Callers, NEW where \in CallerPlaces, Moves(c, where),
           waiters' = IF where \in {"asleep", "awake"}
                      THEN IF c \in WaitingAtGate THEN waiters ELSE waiters + 1
                      ELSE IF c \in WaitingAtGate THEN Less(waiters) ELSE waiters
    PROVE  waiters' = Cardinality(WaitingAtGate')
<1>1. WaitingAtGate \in SUBSET Callers /\ waiters = Cardinality(WaitingAtGate)
  BY DEF LimiterInv, CallersCounted, WaitingAtGate, In
<1>2. WaitingAtGate' = IF where \in {"asleep", "awake"} THEN WaitingAtGate \cup {c} ELSE WaitingAtGate \ {c}
  BY Moved DEF LimiterInv, WaitingAtGate, CallerPlaces
<1>3. CASE where \in {"asleep", "awake"} /\ c \notin WaitingAtGate
  BY <1>1, <1>2, <1>3, OneMore
<1>4. CASE where \notin {"asleep", "awake"} /\ c \in WaitingAtGate
  <2>1. Cardinality(WaitingAtGate) \in Nat \ {0} /\ Cardinality(WaitingAtGate \ {c}) = Cardinality(WaitingAtGate) - 1
    BY <1>1, <1>4, OneLess
  <2> QED BY <1>1, <1>2, <1>4, <2>1 DEF Less
<1>5. CASE (where \in {"asleep", "awake"}) = (c \in WaitingAtGate)
  <2>1. WaitingAtGate' = WaitingAtGate
    BY <1>2, <1>5
  <2> QED BY <1>1, <1>5, <2>1
<1> QED BY <1>3, <1>4, <1>5
-----------------------------------------------------------------------------
(* The invariant *)

LEMMA LimiterInvInit == LimiterInit => LimiterInv
<1> SUFFICES ASSUME LimiterInit PROVE LimiterInv
  OBVIOUS
<1>1. InsideGate = {} /\ WaitingAtGate = {} /\ In("asleep") = {} /\ caller \in [Callers -> CallerPlaces]
  BY DEF LimiterInit, InsideGate, WaitingAtGate, In, CallerPlaces
<1>2. CallersCounted
  BY <1>1, FS_EmptySet DEF CallersCounted, LimiterInit
<1>3. GateBounds
  BY DEF GateBounds, LimiterInit
<1> QED BY <1>1, <1>2, <1>3 DEF LimiterInv, NoSleeperAtOpenGate

\* A slot that is taken, by a call that comes or by one that was notified.
LEMMA TakingKeepsInv ==
    ASSUME LimiterInv, NEW c \in Callers, caller[c] # "inside", CanEnter(c), Takes(c),
           waiters' = IF c \in WaitingAtGate THEN Less(waiters) ELSE waiters
    PROVE  LimiterInv'
<1>1. /\ used' = Cardinality(InsideGate') /\ p0Used' = Cardinality((InsideGate \cap P0)') /\ GateBounds'
      /\ \A d \in Callers : ~CanEnter(d) => ~CanEnter(d)'
  BY TakesASlot
<1>2. waiters' = Cardinality(WaitingAtGate')
  BY QueueCounted DEF Takes, CallerPlaces
<1>3. caller' \in [Callers -> CallerPlaces] /\ In("asleep")' \subseteq In("asleep")
  BY Moved DEF LimiterInv, Takes, CallerPlaces
<1>4. NoSleeperAtOpenGate'
  BY <1>1, <1>3 DEF LimiterInv, NoSleeperAtOpenGate, In
<1> QED BY <1>1, <1>2, <1>3, <1>4 DEF LimiterInv, CallersCounted

\* A call that begins to wait, or goes on waiting, or gives up.
LEMMA WaitingKeepsInv ==
    ASSUME LimiterInv, NEW c \in Callers, caller[c] # "inside", NEW where \in {"out", "asleep"},
           Moves(c, where), UNCHANGED <<used, p0Used>>, where = "asleep" => ~CanEnter(c),
           waiters' = IF where = "asleep"
                      THEN IF c \in WaitingAtGate THEN waiters ELSE waiters + 1
                      ELSE IF c \in WaitingAtGate THEN Less(waiters) ELSE waiters
    PROVE  LimiterInv'
<1>1. where \in CallerPlaces \ {"inside"}
  BY DEF CallerPlaces
<1>2. /\ used' = Cardinality(InsideGate') /\ p0Used' = Cardinality((InsideGate \cap P0)')
      /\ GateBounds' /\ NoSleeperAtOpenGate'
  BY <1>1, OnlyWaits
<1>3. waiters' = Cardinality(WaitingAtGate')
  BY <1>1, QueueCounted
<1>4. caller' \in [Callers -> CallerPlaces]
  BY <1>1, Moved DEF LimiterInv
<1> QED BY <1>2, <1>3, <1>4 DEF LimiterInv, CallersCounted

\* Who leaves wakes all sleepers, so that none is left in front of the free slot.
LEMMA LeavingKeepsInv ==
    ASSUME LimiterInv, NEW c \in Callers, Leave(c)
    PROVE  LimiterInv'
<1>1. caller' \in [Callers -> CallerPlaces]
  BY DEF LimiterInv, Leave, CallerPlaces
<1>2. InsideGate' = InsideGate \ {c} /\ c \in InsideGate /\ InsideGate \in SUBSET Callers
  BY DEF LimiterInv, Leave, InsideGate, In, Notified, CallerPlaces
<1>3. WaitingAtGate' = WaitingAtGate /\ In("asleep")' = {}
  BY DEF LimiterInv, Leave, WaitingAtGate, In, Notified, CallerPlaces
<1>4. Cardinality(InsideGate) \in Nat \ {0} /\ Cardinality(InsideGate \ {c}) = Cardinality(InsideGate) - 1
  BY <1>2, OneLess
<1>5. used' = Cardinality(InsideGate') /\ used' = used - 1
  BY <1>2, <1>4 DEF Leave, Less, LimiterInv, CallersCounted
<1>6. p0Used' = Cardinality((InsideGate \cap P0)') /\ p0Used' = IF c \in P0 THEN p0Used - 1 ELSE p0Used
  <2>1. CASE c \in P0
    <3>1. c \in InsideGate \cap P0 /\ (InsideGate \cap P0)' = (InsideGate \cap P0) \ {c}
      BY <1>2, <2>1
    <3>2. /\ Cardinality(InsideGate \cap P0) \in Nat \ {0}
          /\ Cardinality((InsideGate \cap P0) \ {c}) = Cardinality(InsideGate \cap P0) - 1
      BY <1>2, <3>1, OneLess
    <3> QED BY <2>1, <3>1, <3>2 DEF Leave, P0Left, Less, LimiterInv, CallersCounted
  <2>2. CASE c \notin P0
    <3>1. (InsideGate \cap P0)' = InsideGate \cap P0
      BY <1>2, <2>2
    <3> QED BY <2>2, <3>1 DEF Leave, P0Left, LimiterInv, CallersCounted
  <2> QED BY <2>1, <2>2
<1>7. used \in Nat /\ p0Used \in 0..used
  BY CallerNumbers DEF LimiterInv
<1>8. GateBounds'
  BY <1>5, <1>6, <1>7 DEF GateBounds, LimiterInv
<1>9. CallersCounted' /\ NoSleeperAtOpenGate'
  BY <1>3, <1>5, <1>6 DEF LimiterInv, CallersCounted, Leave, NoSleeperAtOpenGate
<1> QED BY <1>1, <1>8, <1>9 DEF LimiterInv

LEMMA LimiterInvStep == LimiterInv /\ [LimiterNext]_limiterVars => LimiterInv'
<1> SUFFICES ASSUME LimiterInv, [LimiterNext]_limiterVars PROVE LimiterInv'
  OBVIOUS
<1>1. ASSUME NEW c \in Callers, Arrive(c) PROVE LimiterInv'
  <2>1. caller[c] # "inside" /\ c \notin WaitingAtGate
    BY <1>1 DEF Arrive, WaitingAtGate, In
  <2>2. CASE CanEnter(c) /\ Takes(c) /\ waiters' = waiters
    BY <2>1, <2>2, TakingKeepsInv
  <2>3. CASE ~CanEnter(c) /\ Moves(c, "asleep") /\ waiters' = waiters + 1 /\ UNCHANGED <<used, p0Used>>
    BY <2>1, <2>3, WaitingKeepsInv
  <2> QED BY <1>1, <2>2, <2>3 DEF Arrive
<1>2. ASSUME NEW c \in Callers, Recheck(c) PROVE LimiterInv'
  <2>1. caller[c] # "inside" /\ c \in WaitingAtGate
    BY <1>2 DEF Recheck, WaitingAtGate, In
  <2>2. CASE CanEnter(c) /\ Takes(c) /\ waiters' = Less(waiters)
    BY <2>1, <2>2, TakingKeepsInv
  <2>3. CASE ~CanEnter(c) /\ Moves(c, "asleep") /\ UNCHANGED <<used, p0Used, waiters>>
    BY <2>1, <2>3, WaitingKeepsInv
  <2> QED BY <1>2, <2>2, <2>3 DEF Recheck
<1>3. ASSUME NEW c \in Callers, GivesUp(c) PROVE LimiterInv'
  <2>1. caller[c] # "inside" /\ c \in WaitingAtGate
    BY <1>3 DEF GivesUp, WaitingAtGate, In
  <2> QED BY <1>3, <2>1, WaitingKeepsInv DEF GivesUp
<1>4. ASSUME NEW c \in Callers, Leave(c) PROVE LimiterInv'
  BY <1>4, LeavingKeepsInv
<1>5. CASE UNCHANGED limiterVars
  BY <1>5 DEF limiterVars, LimiterInv, CallersCounted, GateBounds, NoSleeperAtOpenGate, CanEnter, InsideGate, WaitingAtGate, In
<1> QED BY <1>1, <1>2, <1>3, <1>4, <1>5 DEF LimiterNext, LimiterStep

LEMMA LimiterInvSound == LimiterInv => LimiterSound
<1> SUFFICES ASSUME LimiterInv PROVE LimiterSound
  OBVIOUS
<1>1. used \in Nat /\ waiters \in Nat /\ p0Used \in 0..used /\ Cardinality(InsideGate \ P0) = used - p0Used
  BY CallerNumbers DEF LimiterInv
<1>2. LimiterTypeOK
  BY <1>1 DEF LimiterInv, GateBounds, LimiterTypeOK, CallerPlaces
<1>3. LimitKept /\ WaitersCounted
  BY <1>1 DEF LimiterInv, CallersCounted, GateBounds, LimitKept, WaitersCounted, InsideGate, WaitingAtGate
<1> QED BY <1>2, <1>3 DEF LimiterInv, LimiterSound

\* For any callers, limit and reserve: the counters of _enter and _leave (:71-113) are the
\* numbers of calls, no more calls are under way than the limit, those below P0 leave the
\* reserve free, and no call sleeps in front of a slot that it could take.
THEOREM LimiterIsSound == LimiterSpec => []LimiterSound
BY LimiterInvInit, LimiterInvStep, LimiterInvSound, PTL DEF LimiterSpec

HIDE LimiterAssumption

-----------------------------------------------------------------------------
(* The window of messages *)

USE WindowAssumption

CallPlaces == {"new", "peek", "pop", "record time", "length", "count", "record count", "done", "failed"}

WindowTypes ==
    /\ adder \in [Adders -> CallPlaces]
    /\ hands \in [Adders -> Seq(Adders)] /\ left \in [Adders -> 0..PopCount]
    /\ window \in Seq(Adders) /\ evicted \in Seq(Adders) /\ old \subseteq Pushed
    /\ windowFaults \in 0..MaxWindowFaults /\ contended \in BOOLEAN

\* No message is in two places.
OnePlace ==
    /\ IsInjective(window) /\ IsInjective(evicted) /\ \A a \in Adders : IsInjective(hands[a])
    /\ Range(window) \cap Range(evicted) = {}
    /\ \A a \in Adders : Range(hands[a]) \cap (Range(window) \cup Range(evicted)) = {}
    /\ \A a, b \in Adders : a # b => Range(hands[a]) \cap Range(hands[b]) = {}

\* What a call holds while it is at each command.
HandsHeld ==
    \A a \in Adders :
        /\ adder[a] \in {"record time", "record count"} => hands[a] # <<>>
        /\ adder[a] \in {"new", "length", "done"} => hands[a] = <<>>
        /\ adder[a] = "count" => left[a] # 0

\* The calls that have not yet read the length, or not yet popped a message for it.
Owing == {a \in Adders : adder[a] \in {"peek", "pop", "record time", "length"} \/ (adder[a] = "count" /\ hands[a] = <<>>)}
WindowOwed == Len(window) <= MaxSize + Cardinality(Owing) + windowFaults

\* A lone call that is about to pop has the old message in front of it.
LoneCall ==
    ~contended =>
        /\ \A a, b \in AtWork : a = b
        /\ \A a \in Adders : adder[a] = "pop" => window # <<>> /\ Head(window) \in old
        /\ wronged = {}

WindowInv == WindowTypes /\ OnePlace /\ MessagesKept /\ HandsHeld /\ WindowOwed /\ LoneCall
-----------------------------------------------------------------------------
LEMMA PopCountNat == PopCount \in Nat \ {0}
<1>1. MaxSize \div 4 \in Nat
  BY SMT
<1> QED BY <1>1, MaxOfTwo DEF PopCount

LEMMA WindowFacts ==
    ASSUME WindowTypes
    PROVE  /\ Len(window) \in Nat /\ windowFaults \in Nat /\ AtWork \subseteq Adders /\ Owing \subseteq AtWork
           /\ \A S \in SUBSET Adders : IsFiniteSet(S) /\ Cardinality(S) \in Nat
           /\ \A a \in Adders : hands[a] \in Seq(Adders) /\ adder[a] \in CallPlaces /\ left[a] \in 0..PopCount
<1>1. Len(window) \in Nat
  BY SeqShape DEF WindowTypes
<1>2. \A S \in SUBSET Adders : IsFiniteSet(S) /\ Cardinality(S) \in Nat
  BY FS_Subset, FS_CardinalityType
<1>3. Owing \subseteq AtWork /\ AtWork \subseteq Adders
  BY DEF Owing, AtWork
<1> QED BY <1>1, <1>2, <1>3 DEF WindowTypes

\* What is held is held by one of the calls.
LEMMA KeptEach ==
    ASSUME NEW P, NEW W, NEW E, NEW H
    PROVE  P = W \cup E \cup UNION {Range(H[a]) : a \in Adders}
             <=> \A m : m \in P <=> (m \in W \/ m \in E \/ \E a \in Adders : m \in Range(H[a]))
OBVIOUS

LEMMA WindowInvInit == WindowInit => WindowInv
<1> SUFFICES ASSUME WindowInit PROVE WindowInv
  OBVIOUS
<1>1. /\ window = <<>> /\ evicted = <<>> /\ <<>> \in Seq(Adders) /\ Len(<<>>) = 0 /\ Range(<<>>) = {} /\ IsInjective(<<>>)
  BY EmptySeq, SeqShape DEF WindowInit, Range, IsInjective
<1>2. \A a \in Adders : adder[a] = "new" /\ hands[a] = <<>>
  BY DEF WindowInit
<1>3. WindowTypes
  <2>1. adder \in [Adders -> CallPlaces] /\ hands \in [Adders -> Seq(Adders)]
    BY <1>1 DEF WindowInit, CallPlaces
  <2>2. left \in [Adders -> 0..PopCount] /\ windowFaults \in 0..MaxWindowFaults
    BY PopCountNat DEF WindowInit
  <2>3. old \subseteq Pushed /\ contended \in BOOLEAN
    BY DEF WindowInit
  <2> QED BY <1>1, <2>1, <2>2, <2>3 DEF WindowTypes
<1>4. OnePlace /\ HandsHeld
  BY <1>1, <1>2 DEF OnePlace, HandsHeld
<1>5. MessagesKept
  BY <1>1, <1>2 DEF MessagesKept, Pushed
<1>6. WindowOwed
  <2>1. Cardinality(Owing) \in Nat /\ windowFaults \in Nat
    BY <1>3, WindowFacts
  <2> QED BY <1>1, <2>1 DEF WindowOwed
<1>7. LoneCall
  BY <1>2 DEF LoneCall, AtWork, WindowInit
<1> QED BY <1>3, <1>4, <1>5, <1>6, <1>7 DEF WindowInv

\* Between two steps the calls that owe a pop become fewer by no more than n.
LEMMA Owed ==
    ASSUME WindowTypes, WindowTypes', WindowOwed, NEW k \in Nat, NEW S \in SUBSET Adders,
           Owing \subseteq Owing' \cup S, Cardinality(S) <= k,
           \/ Len(window') + k <= Len(window) /\ windowFaults' = windowFaults
           \/ Len(window') = Len(window) /\ windowFaults' = windowFaults + k
    PROVE  WindowOwed'
<1>1. /\ Cardinality(Owing) \in Nat /\ Cardinality(Owing') \in Nat /\ Cardinality(S) \in Nat
      /\ Cardinality(Owing' \cup S) <= Cardinality(Owing') + Cardinality(S) /\ Cardinality(Owing' \cup S) \in Nat
      /\ Cardinality(Owing) <= Cardinality(Owing' \cup S)
  <2>1. Owing \subseteq Adders /\ Owing' \subseteq Adders /\ Owing' \cup S \subseteq Adders
    BY DEF Owing
  <2>2. /\ IsFiniteSet(Owing) /\ IsFiniteSet(Owing') /\ IsFiniteSet(S) /\ IsFiniteSet(Owing' \cup S)
        /\ Cardinality(Owing) \in Nat /\ Cardinality(Owing') \in Nat /\ Cardinality(S) \in Nat
        /\ Cardinality(Owing' \cup S) \in Nat
    BY <2>1, WindowFacts
  <2>3. Cardinality(Owing' \cup S) = Cardinality(Owing') + Cardinality(S) - Cardinality(Owing' \cap S)
        /\ Cardinality(Owing' \cap S) \in Nat
    BY <2>2, FS_Union, FS_Intersection, FS_CardinalityType
  <2>4. Cardinality(Owing) <= Cardinality(Owing' \cup S)
    BY <2>2, FS_Subset
  <2> QED BY <2>2, <2>3, <2>4
<1>2. Len(window) \in Nat /\ Len(window') \in Nat /\ windowFaults \in Nat /\ windowFaults' \in Nat
  BY SeqShape DEF WindowTypes
<1>3. Len(window) <= MaxSize + Cardinality(Owing) + windowFaults
  BY DEF WindowOwed
<1>4. Len(window') <= MaxSize + Cardinality(Owing') + windowFaults'
  BY <1>1, <1>2, <1>3
<1> QED BY <1>4 DEF WindowOwed

\* A pop takes the first message, or finds none.
LEMMA PopsMove ==
    ASSUME WindowTypes, OnePlace, MessagesKept, NEW a \in Adders, Pops(a), evicted' = evicted, Pushed' = Pushed
    PROVE  /\ window' \in Seq(Adders) /\ hands' \in [Adders -> Seq(Adders)]
           /\ OnePlace' /\ MessagesKept'
           /\ \A b \in Adders : b # a => hands'[b] = hands[b]
           /\ window = <<>> => window' = <<>> /\ hands' = hands
           /\ window # <<>> => /\ Len(window') = Len(window) - 1 /\ hands'[a] # <<>>
                               /\ Range(window) = Range(window') \cup {Head(window)}
           /\ Len(window') <= Len(window)
<1>1. CASE window = <<>>
  BY <1>1, WindowFacts DEF Pops, WindowTypes, OnePlace, MessagesKept
<1>2. CASE window # <<>>
  <2> DEFINE h == Head(window)
  <2>1. window' = Tail(window) /\ hands' = [hands EXCEPT ![a] = Append(@, h)]
    BY <1>2 DEF Pops
  <2>2. /\ h \in Adders /\ window' \in Seq(Adders) /\ Len(window) \in Nat \ {0} /\ Len(window') = Len(window) - 1
        /\ Range(window) = Range(window') \cup {h} /\ IsInjective(window') /\ h \notin Range(window')
    BY <1>2, <2>1, RangeTail DEF WindowTypes, OnePlace
  <2> HIDE DEF h
  <2>3. hands[a] \in Seq(Adders) /\ h \notin Range(hands[a])
    BY <2>2 DEF WindowTypes, OnePlace
  <2>4. /\ hands'[a] \in Seq(Adders) /\ Range(hands'[a]) = Range(hands[a]) \cup {h} /\ IsInjective(hands'[a])
        /\ hands'[a] # <<>>
    <3>1. hands'[a] = Append(hands[a], h)
      BY <2>1 DEF WindowTypes
    <3>2. Append(hands[a], h) # <<>>
      BY <2>2, <2>3, AppendProperties, EmptySeq
    <3> QED BY <2>2, <2>3, <3>1, <3>2, RangeAppend DEF OnePlace
  <2>5. \A b \in Adders : b # a => hands'[b] = hands[b]
    BY <2>1 DEF WindowTypes
  <2>6. hands' \in [Adders -> Seq(Adders)]
    BY <2>1, <2>4, <2>5 DEF WindowTypes
  <2>7. \A b \in Adders : Range(hands'[b]) = IF b = a THEN Range(hands[b]) \cup {h} ELSE Range(hands[b])
    BY <2>4, <2>5
  <2>8. OnePlace'
    <3>1. \A b \in Adders : IsInjective(hands'[b])
      BY <2>4, <2>5 DEF OnePlace
    <3>2. Range(window') \cap Range(evicted') = {}
      BY <2>2 DEF OnePlace
    <3>3. h \notin Range(evicted) /\ \A b \in Adders : h \notin Range(hands[b])
      BY <2>2 DEF OnePlace
    <3>4. ASSUME NEW b \in Adders PROVE Range(hands'[b]) \cap (Range(window') \cup Range(evicted')) = {}
      <4>1. Range(hands[b]) \cap (Range(window) \cup Range(evicted)) = {}
        BY DEF OnePlace
      <4>2. Range(hands'[b]) \subseteq Range(hands[b]) \cup {h}
        BY <2>7
      <4> QED BY <2>2, <3>3, <4>1, <4>2
    <3>5. \A b, c \in Adders : b # c => Range(hands'[b]) \cap Range(hands'[c]) = {}
      BY <2>7, <3>3 DEF OnePlace
    <3> QED BY <2>2, <3>1, <3>2, <3>4, <3>5 DEF OnePlace
  <2>9. \A m : (\E b \in Adders : m \in Range(hands'[b])) <=> (m = h \/ \E b \in Adders : m \in Range(hands[b]))
    BY <2>7
  <2>10. MessagesKept'
    <3>1. \A m : m \in Pushed <=> (m \in Range(window) \/ m \in Range(evicted) \/ \E b \in Adders : m \in Range(hands[b]))
      BY KeptEach DEF MessagesKept
    <3>2. \A m : m \in Pushed' <=> (m \in Range(window') \/ m \in Range(evicted') \/ \E b \in Adders : m \in Range(hands'[b]))
      BY <2>2, <2>9, <3>1
    <3> QED BY <3>2, KeptEach DEF MessagesKept
  <2> QED BY <1>2, <2>2, <2>4, <2>5, <2>6, <2>8, <2>10 DEF h
<1> QED BY <1>1, <1>2

LEMMA WindowInvStep == WindowInv /\ [WindowNext]_windowVars => WindowInv'
<1> SUFFICES ASSUME WindowInv, [WindowNext]_windowVars PROVE WindowInv'
  OBVIOUS
<1> USE DEF WindowInv
<1>0. /\ WindowTypes /\ Len(window) \in Nat /\ windowFaults \in Nat /\ PopCount \in Nat \ {0}
      /\ \A a \in Adders : hands[a] \in Seq(Adders) /\ adder[a] \in CallPlaces /\ left[a] \in 0..PopCount
  BY WindowFacts, PopCountNat
<1>n. MaxSize \in Nat /\ Len(window) \in Nat /\ windowFaults \in Nat /\ PopCount \in Nat \ {0}
  BY <1>0
<1>k. \A m : m \in Pushed <=> (m \in Range(window) \/ m \in Range(evicted) \/ \E b \in Adders : m \in Range(hands[b]))
  BY KeptEach DEF MessagesKept
<1>1. ASSUME NEW a \in Adders, NEW p \in CallPlaces, Goes(a, p)
      PROVE  /\ adder' \in [Adders -> CallPlaces] /\ adder'[a] = p /\ \A b \in Adders : b # a => adder'[b] = adder[b]
             /\ adder[a] # "new" /\ p # "new" => Pushed' = Pushed
  <2>1. adder' = [adder EXCEPT ![a] = p]
    BY <1>1 DEF Goes
  <2>2. adder'[a] = p /\ \A b \in Adders : b # a => adder'[b] = adder[b]
    BY <2>1 DEF WindowTypes
  <2> QED BY <1>1, <2>1, <2>2 DEF WindowTypes, Pushed
\* Calls at work, for a lone call that goes on.
<1>2. ASSUME NEW a \in Adders, NEW p \in CallPlaces, Goes(a, p), a \in AtWork, contended' = contended,
             wronged' = wronged \/ (adder[a] = "pop" /\ (window # <<>> /\ Head(window) \in old => wronged' = wronged)),
             ~contended /\ p = "pop" => window' # <<>> /\ Head(window') \in old'
      PROVE  LoneCall'
  <2> SUFFICES ASSUME ~contended
               PROVE  /\ \A b, c \in AtWork' : b = c
                      /\ \A b \in Adders : adder'[b] = "pop" => window' # <<>> /\ Head(window') \in old'
                      /\ wronged' = {}
    BY <1>2 DEF LoneCall
  <2>1. AtWork' \subseteq AtWork
    BY <1>1, <1>2 DEF AtWork
  <2>2. \A b \in AtWork : b = a
    BY <1>2 DEF LoneCall
  <2>3. \A b \in Adders : adder'[b] = "pop" => b = a /\ p = "pop"
    BY <1>1, <1>2, <2>1, <2>2 DEF AtWork
  <2>4. wronged' = {}
    BY <1>2 DEF LoneCall
  <2> QED BY <1>2, <2>1, <2>2, <2>3, <2>4
<1>3. CASE MessageAges
  <2>1. /\ UNCHANGED <<adder, hands, left, window, evicted, windowFaults, wronged, contended>>
        /\ old \subseteq old' /\ old' \subseteq old \cup Range(window)
    BY <1>3 DEF MessageAges
  <2>2. Range(window) \subseteq Pushed
    BY DEF MessagesKept
  <2>3. WindowTypes' /\ OnePlace' /\ MessagesKept' /\ HandsHeld'
    BY <2>1, <2>2 DEF WindowTypes, OnePlace, MessagesKept, HandsHeld, Pushed
  <2>4. WindowOwed' /\ LoneCall'
    BY <2>1 DEF WindowOwed, LoneCall, Owing, AtWork
  <2> QED BY <2>3, <2>4
<1>4. ASSUME NEW a \in Adders, Push(a) PROVE WindowInv'
  <2>1. /\ adder[a] = "new" /\ Goes(a, "peek") /\ window' = Append(window, a) /\ contended' = (contended \/ AtWork # {})
        /\ UNCHANGED <<hands, left, evicted, old, windowFaults, wronged>>
    BY <1>4 DEF Push
  <2>2. adder' \in [Adders -> CallPlaces] /\ adder'[a] = "peek" /\ \A b \in Adders : b # a => adder'[b] = adder[b]
    BY <1>1, <2>1 DEF CallPlaces
  <2>3. Pushed' = Pushed \cup {a} /\ a \notin Pushed
    BY <2>1, <2>2 DEF Pushed
  <2>4. \A m : m \in Pushed <=> (m \in Range(window) \/ m \in Range(evicted) \/ \E b \in Adders : m \in Range(hands[b]))
    BY KeptEach DEF MessagesKept
  <2>5. a \notin Range(window) /\ a \notin Range(evicted) /\ \A b \in Adders : a \notin Range(hands[b])
    BY <2>3, <2>4
  <2>6. /\ window' \in Seq(Adders) /\ Len(window') = Len(window) + 1 /\ Range(window') = Range(window) \cup {a}
        /\ IsInjective(window')
    BY <2>1, <2>5, RangeAppend DEF WindowTypes, OnePlace
  <2>7. WindowTypes'
    <3>1. contended' \in BOOLEAN
      BY <2>1 DEF WindowTypes
    <3> QED BY <2>1, <2>2, <2>3, <2>6, <3>1 DEF WindowTypes
  <2>8. OnePlace'
    <3>1. \A b \in Adders : Range(hands[b]) \cap (Range(window') \cup Range(evicted)) = {}
      BY <2>5, <2>6 DEF OnePlace
    <3> QED BY <2>1, <2>5, <2>6, <3>1 DEF OnePlace
  <2>9. MessagesKept'
    <3>1. \A m : m \in Pushed' <=> (m \in Range(window') \/ m \in Range(evicted') \/ \E b \in Adders : m \in Range(hands'[b]))
      BY <2>1, <2>3, <2>4, <2>6
    <3> QED BY <3>1, KeptEach DEF MessagesKept
  <2>10. HandsHeld'
    BY <2>1, <2>2 DEF HandsHeld
  <2>11. WindowOwed'
    <3>1. Owing' = Owing \cup {a} /\ a \notin Owing /\ Owing \subseteq Adders
      BY <2>1, <2>2 DEF Owing
    <3>2. Cardinality(Owing') = Cardinality(Owing) + 1 /\ Cardinality(Owing) \in Nat
      BY <3>1, WindowFacts, FS_AddElement
    <3>3. Len(window) <= MaxSize + Cardinality(Owing) + windowFaults
      BY DEF WindowOwed
    <3>4. Len(window') <= MaxSize + Cardinality(Owing') + windowFaults'
      BY <1>0, <2>1, <2>6, <3>2, <3>3
    <3> QED BY <3>4 DEF WindowOwed
  <2>12. LoneCall'
    <3> SUFFICES ASSUME ~contended'
                 PROVE  /\ \A b, c \in AtWork' : b = c
                        /\ \A b \in Adders : adder'[b] = "pop" => window' # <<>> /\ Head(window') \in old'
                        /\ wronged' = {}
      BY DEF LoneCall
    <3>1. ~contended /\ AtWork = {}
      BY <2>1
    <3>2. \A b \in Adders : b # a => adder'[b] \in {"new", "done", "failed"}
      BY <2>2, <3>1 DEF AtWork
    <3>3. \A b \in AtWork' : b = a
      BY <3>2 DEF AtWork
    <3>4. \A b \in Adders : adder'[b] # "pop"
      BY <2>2, <3>2
    <3> QED BY <2>1, <3>1, <3>3, <3>4 DEF LoneCall
  <2> QED BY <2>7, <2>8, <2>9, <2>10, <2>11, <2>12
\* A step of a call that moves no message.
<1>5. ASSUME NEW a \in AtWork, NEW p \in CallPlaces \ {"new"}, Goes(a, p),
             UNCHANGED <<hands, window, evicted, old, wronged, contended>>,
             left' \in [Adders -> 0..PopCount], windowFaults' \in 0..MaxWindowFaults,
             \A b \in Adders : b # a => left'[b] = left[b],
             p \in {"record time", "record count"} => hands[a] # <<>>,
             p \in {"length", "done"} => hands[a] = <<>>,
             p = "count" => left'[a] # 0,
             ~contended /\ p = "pop" => window # <<>> /\ Head(window) \in old,
             WindowTypes' => WindowOwed'
      PROVE  WindowInv'
  <2>1. /\ adder' \in [Adders -> CallPlaces] /\ adder'[a] = p /\ \A b \in Adders : b # a => adder'[b] = adder[b]
        /\ Pushed' = Pushed
    BY <1>1, <1>5 DEF AtWork
  <2>2. WindowTypes'
    BY <1>5, <2>1 DEF WindowTypes
  <2>3. OnePlace' /\ MessagesKept'
    BY <1>5, <2>1 DEF OnePlace, MessagesKept
  <2>4. HandsHeld'
    <3> SUFFICES ASSUME NEW b \in Adders
                 PROVE  /\ adder'[b] \in {"record time", "record count"} => hands[b] # <<>>
                        /\ adder'[b] \in {"new", "length", "done"} => hands[b] = <<>>
                        /\ adder'[b] = "count" => left'[b] # 0
      BY <1>5 DEF HandsHeld
    <3> QED BY <1>5, <2>1 DEF HandsHeld
  <2>5. LoneCall'
    BY <1>2, <1>5 DEF AtWork
  <2> QED BY <1>5, <2>2, <2>3, <2>4, <2>5
<1>6. ASSUME NEW a \in Adders, Peek(a) PROVE WindowInv'
  <2>1. adder[a] = "peek" /\ UNCHANGED <<hands, left, window, evicted, old, windowFaults, wronged, contended>>
    BY <1>6 DEF Peek
  <2>2. PICK p \in CallPlaces :
            /\ p \in {"pop", "record time", "length"}
            /\ Goes(a, p)
            /\ p = "pop" => window # <<>> /\ Head(window) \in old
            /\ p = "record time" => hands[a] # <<>>
            /\ p = "length" => hands[a] = <<>>
    BY <1>6 DEF Peek, TooOld, CallPlaces
  <2>3. p \in CallPlaces \ {"new"} /\ a \in AtWork
    BY <2>1, <2>2 DEF CallPlaces, AtWork
  <2>4. WindowTypes' => WindowOwed'
    <3>1. Owing' = Owing
      BY <1>1, <2>1, <2>2, <2>3 DEF Owing
    <3> QED BY <2>1, <3>1 DEF WindowOwed
  <2> QED BY <1>5, <2>1, <2>2, <2>3, <2>4 DEF WindowTypes
<1>7. ASSUME NEW a \in Adders, Length(a) PROVE WindowInv'
  <2>1. adder[a] = "length" /\ UNCHANGED <<hands, window, evicted, old, windowFaults, wronged, contended>> /\ a \in AtWork
    BY <1>7 DEF Length, AtWork
  <2>2. hands[a] = <<>>
    BY <2>1 DEF HandsHeld
  <2>3. CASE Over
    <3>1. Goes(a, "count") /\ left' = [left EXCEPT ![a] = PopCount]
      BY <1>7, <2>3 DEF Length
    <3>2. left' \in [Adders -> 0..PopCount] /\ left'[a] # 0 /\ \A b \in Adders : b # a => left'[b] = left[b]
      BY <1>0, <3>1 DEF WindowTypes
    <3>3. "count" \in CallPlaces
      BY DEF CallPlaces
    <3>4. Owing' = Owing
      <4>1. adder'[a] = "count" /\ \A b \in Adders : b # a => adder'[b] = adder[b]
        BY <1>1, <3>1, <3>3
      <4>2. hands' = hands /\ hands[a] = <<>> /\ adder[a] = "length"
        BY <2>1, <2>2
      <4> HIDE DEF WindowInv
      <4> QED BY <4>1, <4>2 DEF Owing
    <3>5. WindowOwed'
      BY <2>1, <3>4 DEF WindowOwed
    <3> QED BY <1>5, <2>1, <2>2, <3>1, <3>2, <3>3, <3>5 DEF WindowTypes
  <2>4. CASE ~Over
    <3>1. Goes(a, "done") /\ left' = left
      BY <1>7, <2>4 DEF Length
    <3>2. "done" \in CallPlaces
      BY DEF CallPlaces
    <3>3. WindowTypes' => WindowOwed'
      <4> SUFFICES ASSUME WindowTypes' PROVE WindowOwed'
        OBVIOUS
      <4>1. Cardinality(Owing') \in Nat
        <5>1. Owing' \subseteq Adders
          BY DEF Owing
        <5> QED BY <5>1, WindowFacts
      <4>2. Len(window) <= MaxSize
        BY <1>0, <2>4 DEF Over
      <4>3. Len(window') <= MaxSize + Cardinality(Owing') + windowFaults'
        BY <1>0, <2>1, <4>1, <4>2
      <4> QED BY <4>3 DEF WindowOwed
    <3> QED BY <1>5, <2>1, <2>2, <3>1, <3>2, <3>3 DEF WindowTypes
  <2> QED BY <2>3, <2>4
<1>8. ASSUME NEW a \in Adders, WindowFails(a) PROVE WindowInv'
  <2>1. /\ a \in AtWork /\ windowFaults < MaxWindowFaults /\ windowFaults' = windowFaults + 1 /\ Goes(a, "failed")
        /\ UNCHANGED <<hands, left, window, evicted, old, wronged, contended>>
    BY <1>8 DEF WindowFails
  <2>2. "failed" \in CallPlaces /\ windowFaults' \in 0..MaxWindowFaults
    <3>1. windowFaults' = windowFaults + 1 /\ windowFaults < MaxWindowFaults
      BY <2>1
    <3>2. windowFaults' \in 0..MaxWindowFaults
      BY <1>n, <3>1
    <3> QED BY <3>2 DEF CallPlaces
  <2>3. WindowTypes' => WindowOwed'
    <3>1. Owing \subseteq Owing' \cup {a} /\ Cardinality({a}) = 1
      BY <1>1, <2>1, <2>2, FS_Singleton DEF Owing
    <3> QED BY <2>1, <3>1, Owed
  <2> QED BY <1>5, <2>1, <2>2, <2>3 DEF WindowTypes
<1>9. ASSUME NEW a \in Adders, TimePop(a) PROVE WindowInv'
  <2>1. /\ adder[a] = "pop" /\ Goes(a, "peek") /\ Pops(a) /\ UNCHANGED <<left, evicted, old, windowFaults, contended>>
        /\ wronged' = wronged \cup (Range(window) \ (Range(window') \cup old))
    BY <1>9 DEF TimePop
  <2>2. "peek" \in CallPlaces /\ a \in AtWork
    BY <2>1 DEF CallPlaces, AtWork
  <2>3. adder' \in [Adders -> CallPlaces] /\ adder'[a] = "peek" /\ Pushed' = Pushed
        /\ \A b \in Adders : b # a => adder'[b] = adder[b]
    BY <1>1, <2>1, <2>2
  <2>4. /\ window' \in Seq(Adders) /\ hands' \in [Adders -> Seq(Adders)] /\ OnePlace' /\ MessagesKept'
        /\ \A b \in Adders : b # a => hands'[b] = hands[b]
        /\ window # <<>> => Range(window) = Range(window') \cup {Head(window)} /\ Len(window') = Len(window) - 1
        /\ window = <<>> => window' = <<>>
    BY <2>1, <2>3, PopsMove
  <2>5. WindowTypes'
    BY <2>1, <2>3, <2>4 DEF WindowTypes
  <2>6. HandsHeld'
    BY <2>1, <2>3, <2>4 DEF HandsHeld
  <2>7. WindowOwed'
    <3>1. Owing' = Owing
      BY <2>1, <2>3, <2>4 DEF Owing
    <3>2. Len(window') \in Nat /\ Len(window') <= Len(window)
      BY <1>0, <2>4, SeqShape
    <3>3. Cardinality(Owing) \in Nat
      BY WindowFacts DEF Owing
    <3>4. Len(window) <= MaxSize + Cardinality(Owing) + windowFaults
      BY DEF WindowOwed
    <3>5. Len(window') <= MaxSize + Cardinality(Owing') + windowFaults'
      BY <1>0, <2>1, <3>1, <3>2, <3>3, <3>4
    <3> QED BY <3>5 DEF WindowOwed
  <2>8. window # <<>> /\ Head(window) \in old => wronged' = wronged
    BY <2>1, <2>4
  <2>9. LoneCall'
    BY <1>2, <2>1, <2>2, <2>8
  <2> QED BY <2>4, <2>5, <2>6, <2>7, <2>9
<1>10. ASSUME NEW a \in Adders, CountPop(a) PROVE WindowInv'
  <2>1. /\ adder[a] = "count" /\ Pops(a) /\ left' = [left EXCEPT ![a] = @ - 1]
        /\ UNCHANGED <<evicted, old, windowFaults, wronged, contended>>
    BY <1>10 DEF CountPop
  <2>2. PICK p \in CallPlaces :
            /\ p \in {"count", "done", "record count"}
            /\ Goes(a, p)
            /\ p = "count" => left[a] > 1
            /\ p = "done" => hands'[a] = <<>>
            /\ p = "record count" => hands'[a] # <<>>
    BY <1>10 DEF CountPop, CallPlaces
  <2>3. p \in CallPlaces \ {"new"} /\ a \in AtWork
    BY <2>1, <2>2 DEF CallPlaces, AtWork
  <2>4. adder' \in [Adders -> CallPlaces] /\ adder'[a] = p /\ Pushed' = Pushed
        /\ \A b \in Adders : b # a => adder'[b] = adder[b]
    BY <1>1, <2>1, <2>2, <2>3
  <2>5. /\ window' \in Seq(Adders) /\ hands' \in [Adders -> Seq(Adders)] /\ OnePlace' /\ MessagesKept'
        /\ \A b \in Adders : b # a => hands'[b] = hands[b]
        /\ window = <<>> => window' = <<>> /\ hands' = hands
        /\ window # <<>> => Len(window') = Len(window) - 1 /\ hands'[a] # <<>>
    BY <2>1, <2>4, PopsMove
  <2>6. left' \in [Adders -> 0..PopCount] /\ left'[a] = left[a] - 1 /\ \A b \in Adders : b # a => left'[b] = left[b]
    <3>1. left[a] \in 0..PopCount /\ left[a] # 0
      BY <1>0, <2>1 DEF HandsHeld
    <3>2. left[a] - 1 \in 0..PopCount
      <4>1. left[a] \in Nat \ {0} /\ left[a] <= PopCount
        BY <1>n, <3>1
      <4>2. left[a] - 1 \in Nat /\ left[a] - 1 <= PopCount
        BY <1>n, <4>1
      <4> QED BY <1>n, <4>2
    <3> QED BY <2>1, <3>2 DEF WindowTypes
  <2>7. WindowTypes'
    BY <2>1, <2>4, <2>5, <2>6 DEF WindowTypes
  <2>8. HandsHeld'
    <3>1. p = "count" => left'[a] # 0
      BY <1>0, <2>2, <2>6
    <3> SUFFICES ASSUME NEW b \in Adders
                 PROVE  /\ adder'[b] \in {"record time", "record count"} => hands'[b] # <<>>
                        /\ adder'[b] \in {"new", "length", "done"} => hands'[b] = <<>>
                        /\ adder'[b] = "count" => left'[b] # 0
      BY DEF HandsHeld
    <3>2. CASE b = a
      BY <2>2, <2>4, <3>1, <3>2
    <3>3. CASE b # a
      BY <2>4, <2>5, <2>6, <3>3 DEF HandsHeld
    <3> QED BY <3>2, <3>3
  <2>9. WindowOwed'
    <3>1. CASE window = <<>>
      <4>1. Len(window') = 0
        BY <2>5, <3>1, EmptySeq
      <4>2. Cardinality(Owing') \in Nat
        <5>1. Owing' \subseteq Adders
          BY DEF Owing
        <5> QED BY <5>1, WindowFacts
      <4>3. windowFaults' = windowFaults
        BY <2>1
      <4>4. Len(window') <= MaxSize + Cardinality(Owing') + windowFaults'
        BY <1>n, <4>1, <4>2, <4>3
      <4> QED BY <4>4 DEF WindowOwed
    <3>2. CASE window # <<>>
      <4>1. Owing \subseteq Owing' \cup {a} /\ Cardinality({a}) = 1
        BY <2>4, <2>5, FS_Singleton DEF Owing
      <4>2. Len(window') + 1 <= Len(window)
        BY <1>n, <2>5, <3>2
      <4>3. windowFaults' = windowFaults /\ {a} \in SUBSET Adders
        BY <2>1
      <4> QED BY <2>7, <4>1, <4>2, <4>3, Owed
    <3> QED BY <3>1, <3>2
  <2>10. LoneCall'
    BY <1>2, <2>1, <2>2, <2>3
  <2> QED BY <2>5, <2>7, <2>8, <2>9, <2>10
<1>11. ASSUME NEW a \in Adders, Record(a) PROVE WindowInv'
  <2> DEFINE h == Head(hands[a])
  <2>1. /\ adder[a] \in {"record time", "record count"} /\ evicted' = Append(evicted, h)
        /\ hands' = [hands EXCEPT ![a] = Tail(@)]
        /\ UNCHANGED <<left, window, old, windowFaults, wronged, contended>>
    BY <1>11 DEF Record, Records
  <2>2. PICK p \in CallPlaces :
            /\ p \in {"record time", "record count", "length", "done"}
            /\ Goes(a, p)
            /\ p \in {"record time", "record count"} => Len(hands[a]) # 1 /\ adder[a] = p
            /\ p \in {"length", "done"} => Len(hands[a]) = 1
            /\ adder[a] = "record time" <=> p \in {"record time", "length"}
    BY <1>11 DEF Record, CallPlaces
  <2>3. p \in CallPlaces \ {"new"} /\ a \in AtWork
    BY <2>1, <2>2 DEF CallPlaces, AtWork
  <2>4. adder' \in [Adders -> CallPlaces] /\ adder'[a] = p /\ Pushed' = Pushed
        /\ \A b \in Adders : b # a => adder'[b] = adder[b]
    BY <1>1, <2>1, <2>2, <2>3
  <2>5. hands[a] \in Seq(Adders) /\ hands[a] # <<>> /\ IsInjective(hands[a])
    BY <1>0, <2>1 DEF HandsHeld, OnePlace
  <2>6. /\ h \in Adders /\ Tail(hands[a]) \in Seq(Adders) /\ Len(Tail(hands[a])) = Len(hands[a]) - 1
        /\ Range(hands[a]) = Range(Tail(hands[a])) \cup {h} /\ IsInjective(Tail(hands[a]))
        /\ h \notin Range(Tail(hands[a])) /\ Len(hands[a]) \in Nat \ {0}
    BY <2>5, RangeTail
  <2>7. hands'[a] = Tail(hands[a]) /\ \A b \in Adders : b # a => hands'[b] = hands[b]
    BY <2>1 DEF WindowTypes
  <2> HIDE DEF h
  <2>8. h \notin Range(window) /\ h \notin Range(evicted) /\ \A b \in Adders : b # a => h \notin Range(hands[b])
    BY <2>6 DEF OnePlace
  <2>9. evicted' \in Seq(Adders) /\ Range(evicted') = Range(evicted) \cup {h} /\ IsInjective(evicted')
    <3>1. evicted \in Seq(Adders) /\ IsInjective(evicted) /\ evicted' = Append(evicted, h) /\ h \in Adders
      BY <2>1, <2>6 DEF WindowTypes, OnePlace
    <3> QED BY <2>8, <3>1, RangeAppend
  <2>10. hands' \in [Adders -> Seq(Adders)]
    BY <2>1, <2>6 DEF WindowTypes
  <2>11. WindowTypes'
    BY <2>1, <2>4, <2>9, <2>10 DEF WindowTypes
  <2>12. \A b \in Adders : Range(hands'[b]) \subseteq Range(hands[b]) /\ h \notin Range(hands'[b]) /\ IsInjective(hands'[b])
    <3> SUFFICES ASSUME NEW b \in Adders
                 PROVE  Range(hands'[b]) \subseteq Range(hands[b]) /\ h \notin Range(hands'[b]) /\ IsInjective(hands'[b])
      OBVIOUS
    <3>1. CASE b = a
      BY <2>6, <2>7, <3>1
    <3>2. CASE b # a
      BY <2>7, <2>8, <3>2 DEF OnePlace
    <3> QED BY <3>1, <3>2
  <2>13. OnePlace'
    <3>1. Range(window') \cap Range(evicted') = {}
      BY <2>1, <2>8, <2>9 DEF OnePlace
    <3>2. ASSUME NEW b \in Adders PROVE Range(hands'[b]) \cap (Range(window') \cup Range(evicted')) = {}
      <4>1. Range(hands[b]) \cap (Range(window) \cup Range(evicted)) = {}
        BY DEF OnePlace
      <4> QED BY <2>1, <2>9, <2>12, <4>1
    <3>3. ASSUME NEW b \in Adders, NEW c \in Adders, b # c PROVE Range(hands'[b]) \cap Range(hands'[c]) = {}
      <4>1. Range(hands[b]) \cap Range(hands[c]) = {}
        BY <3>3 DEF OnePlace
      <4> QED BY <2>12, <4>1
    <3>4. IsInjective(window')
      BY <2>1 DEF OnePlace
    <3> QED BY <2>9, <2>12, <3>1, <3>2, <3>3, <3>4 DEF OnePlace
  <2>14. MessagesKept'
    <3>2. \A m : (m = h \/ \E b \in Adders : m \in Range(hands'[b])) <=> (\E b \in Adders : m \in Range(hands[b]))
      BY <2>6, <2>7
    <3>3. \A m : m \in Pushed' <=> (m \in Range(window') \/ m \in Range(evicted') \/ \E b \in Adders : m \in Range(hands'[b]))
      BY <1>k, <2>1, <2>4, <2>9, <3>2
    <3> QED BY <3>3, KeptEach DEF MessagesKept
  <2>15. HandsHeld'
    <3>0. hands'[a] = <<>> <=> Len(hands[a]) = 1
      <4>1. Len(hands'[a]) = Len(hands[a]) - 1 /\ hands'[a] \in Seq(Adders) /\ Len(hands[a]) \in Nat \ {0}
        BY <2>6, <2>7
      <4>2. hands'[a] = <<>> <=> Len(hands'[a]) = 0
        BY <4>1, EmptySeq
      <4>3. Len(hands'[a]) = 0 <=> Len(hands[a]) = 1
        BY <4>1
      <4> QED BY <4>2, <4>3
    <3>1. p \in {"record time", "record count"} => hands'[a] # <<>>
      BY <2>2, <3>0
    <3>2. p \in {"length", "done"} => hands'[a] = <<>>
      BY <2>2, <3>0
    <3> SUFFICES ASSUME NEW b \in Adders
                 PROVE  /\ adder'[b] \in {"record time", "record count"} => hands'[b] # <<>>
                        /\ adder'[b] \in {"new", "length", "done"} => hands'[b] = <<>>
                        /\ adder'[b] = "count" => left'[b] # 0
      BY DEF HandsHeld
    <3>3. CASE b = a
      BY <2>2, <2>4, <3>1, <3>2, <3>3
    <3>4. CASE b # a
      BY <2>1, <2>4, <2>7, <3>4 DEF HandsHeld
    <3> QED BY <3>3, <3>4
  <2>16. WindowOwed'
    <3>1. Owing' = Owing
      <4> HIDE DEF WindowInv
      <4>1. a \in Owing <=> a \in Owing'
        BY <2>1, <2>2, <2>4 DEF Owing
      <4>2. \A b \in Adders : b # a => (b \in Owing <=> b \in Owing')
        BY <2>4, <2>7 DEF Owing
      <4>3. Owing \subseteq Adders /\ Owing' \subseteq Adders
        BY DEF Owing
      <4>4. \A b : b \in Owing <=> b \in Owing'
        BY <4>1, <4>2, <4>3
      <4> QED BY <4>4
    <3> QED BY <2>1, <3>1 DEF WindowOwed
  <2>17. LoneCall'
    BY <1>2, <2>1, <2>2, <2>3
  <2> QED BY <2>11, <2>13, <2>14, <2>15, <2>16, <2>17
<1>12. CASE UNCHANGED windowVars
  <2>1. WindowTypes' /\ OnePlace' /\ MessagesKept'
    BY <1>12 DEF windowVars, WindowTypes, OnePlace, MessagesKept, Pushed
  <2>2. HandsHeld' /\ WindowOwed' /\ LoneCall'
    BY <1>12 DEF windowVars, HandsHeld, WindowOwed, LoneCall, Owing, AtWork
  <2> QED BY <2>1, <2>2
<1>13. CASE WindowNext
  BY <1>3, <1>4, <1>6, <1>7, <1>8, <1>9, <1>10, <1>11, <1>13 DEF WindowNext
<1> QED BY <1>12, <1>13

LEMMA WindowInvSound == WindowInv => WindowSound
<1> SUFFICES ASSUME WindowInv PROVE WindowSound
  OBVIOUS
<1> USE DEF WindowInv
<1>1. WindowTypeOK
  <2>1. Range(window) \cup Range(evicted) \subseteq Pushed
    BY DEF MessagesKept
  <2> QED BY <2>1 DEF WindowTypeOK, WindowTypes, OnePlace, CallPlaces
<1>2. WindowBounded
  <2>1. /\ Owing \subseteq AtWork /\ AtWork \subseteq Adders /\ Len(window) \in Nat /\ windowFaults \in Nat
        /\ \A S \in SUBSET Adders : IsFiniteSet(S) /\ Cardinality(S) \in Nat
    BY WindowFacts
  <2>2. Cardinality(Owing) <= Cardinality(AtWork) /\ Cardinality(Owing) \in Nat /\ Cardinality(AtWork) \in Nat
    BY <2>1, FS_Subset
  <2>3. Len(window) <= MaxSize + Cardinality(Owing) + windowFaults
    BY DEF WindowOwed
  <2>4. Len(window) <= MaxSize + Cardinality(AtWork) + windowFaults
    BY <2>1, <2>2, <2>3
  <2> QED BY <2>4 DEF WindowBounded
<1>3. OnlyOldTimedOut
  BY DEF LoneCall, OnlyOldTimedOut
<1> QED BY <1>1, <1>2, <1>3 DEF WindowSound

HIDE WindowAssumption

-----------------------------------------------------------------------------
(* The cache of verdicts *)

USE CacheAssumption

KeyEach(q) == \A i, j \in DOMAIN q : q[i].sig = q[j].sig => i = j

CacheTypes ==
    /\ nowIs \in 0..MaxNow /\ answers \in 0..MaxAnswers /\ crossed \subseteq Signatures
    /\ mem \in [Processes -> Seq(Entry)] /\ \A p \in Processes : KeyEach(mem[p])
    /\ redis \in [Signatures -> [exp : Int, of : Int]]
    /\ getter \in [Processes -> [at : {"idle", "asked", "hit"}, sig : Signatures \cup {"none"}, since : Int, of : Int]]
    /\ setter \in [Processes -> [sig : Signatures \cup {"none"}, of : Int]]
    /\ own \in [Processes -> [Signatures -> Int]]

\* A call waits for Redis within one unit of the clock.
CallsNow ==
    \A p \in Processes :
        /\ getter[p].at # "idle" => getter[p].since = nowIs /\ getter[p].sig \in Signatures
        /\ getter[p].at = "hit" => nowIs < getter[p].of + VerdictTtl
        /\ setter[p] # NoSet => setter[p].of = nowIs /\ setter[p].sig \in Signatures

\* Redis keeps a verdict for one TTL, and the memory for two.
Lifetimes ==
    /\ \A p \in Processes : \A e \in Range(mem[p]) : e.exp <= e.of + 2 * VerdictTtl
    /\ \A s \in Signatures : redis[s].exp <= redis[s].of + VerdictTtl

\* The put() of a process has its verdict fresh in memory, so that no get() of the process
\* asks Redis for it meanwhile.
PutsFirst(p, s) ==
    setter[p] # NoSet /\ setter[p].sig = s =>
        /\ \E e \in Range(mem[p]) : e.sig = s /\ e.exp > nowIs
        /\ getter[p].at = "idle" \/ getter[p].sig # s

\* Wherever a process may find a verdict, it is no older than its own last one.
Newer(p, s) ==
    /\ PutsFirst(p, s)
    /\ \A e \in Range(mem[p]) : e.sig = s => own[p][s] <= e.of
    /\ setter[p] = NoSet \/ setter[p].sig # s => own[p][s] <= redis[s].of
    /\ getter[p].at = "hit" /\ getter[p].sig = s => own[p][s] <= getter[p].of

NoneOlder ==
    /\ \A p \in Processes : \A s \in Signatures : own[p][s] <= nowIs
    /\ \A s \in Signatures \ crossed : \A p \in Processes : Newer(p, s)

CacheInv == CacheTypes /\ CallsNow /\ Lifetimes /\ NoneOlder /\ VerdictsExpire /\ NoReturnToOlder
-----------------------------------------------------------------------------
\* The memory without a signature.
LEMMA WithoutKey ==
    ASSUME NEW p, mem[p] \in Seq(Entry), KeyEach(mem[p]), NEW s
    PROVE  /\ Without(p, s) \in Seq(Entry) /\ KeyEach(Without(p, s))
           /\ \A e : e \in Range(Without(p, s)) <=> e \in Range(mem[p]) /\ e.sig # s
<1> DEFINE q == mem[p]
           w == Without(p, s)
<1>1. q \in Seq(Entry) /\ Len(q) \in Nat /\ DOMAIN q = 1..Len(q) /\ \A x : x \in Range(q) <=> \E i \in 1..Len(q) : q[i] = x
  BY SeqShape
<1>2. \A i, j \in 1..Len(q) : q[i].sig = q[j].sig => i = j
  BY <1>1 DEF KeyEach
<1>3. CASE ~InMemory(p, s)
  <2>1. w = q
    BY <1>3 DEF Without
  <2>2. \A i \in 1..Len(q) : q[i].sig # s
    BY <1>1, <1>3 DEF InMemory
  <2> QED BY <1>1, <2>1, <2>2
<1>4. CASE InMemory(p, s)
  <2> DEFINE k == Place(p, s)
  <2>1. k \in 1..Len(q) /\ q[k].sig = s /\ w = RemoveAt(q, k)
    BY <1>1, <1>4, SMTT(30) DEF InMemory, Place, Without
  <2> HIDE DEF k, q, w
  <2>2. /\ w \in Seq(Entry) /\ Len(w) = Len(q) - 1
        /\ \A i \in 1..Len(w) : w[i] = IF i < k THEN q[i] ELSE q[i + 1]
        /\ \A i \in 1..Len(q) : i # k => \E j \in 1..Len(w) : w[j] = q[i]
    BY <1>1, <2>1, WithoutOne, ZenonT(60)
  <2>3. Len(w) \in Nat /\ DOMAIN w = 1..Len(w) /\ \A x : x \in Range(w) <=> \E i \in 1..Len(w) : w[i] = x
    BY <2>2, SeqShape
  <2> DEFINE g(i) == IF i < k THEN i ELSE i + 1
  <2>4. \A i \in 1..Len(w) : g(i) \in 1..Len(q) /\ g(i) # k /\ w[i] = q[g(i)]
    BY <1>1, <2>1, <2>2, <2>3
  <2>5. \A i, j \in 1..Len(w) : g(i) = g(j) => i = j
    BY <1>1, <2>1, <2>3
  <2> HIDE DEF g
  <2>6. KeyEach(w)
    <3> SUFFICES ASSUME NEW i \in 1..Len(w), NEW j \in 1..Len(w), w[i].sig = w[j].sig PROVE i = j
      BY <2>3 DEF KeyEach
    <3>1. g(i) \in 1..Len(q) /\ g(j) \in 1..Len(q) /\ q[g(i)].sig = q[g(j)].sig
      BY <2>4
    <3>2. g(i) = g(j)
      BY <1>2, <3>1
    <3> QED BY <2>5, <3>2
  <2>7. ASSUME NEW e \in Range(w) PROVE e \in Range(q) /\ e.sig # s
    <3>1. PICK i \in 1..Len(w) : w[i] = e
      BY <2>3
    <3>2. g(i) \in 1..Len(q) /\ g(i) # k /\ q[g(i)] = e
      BY <2>4, <3>1
    <3> QED BY <1>1, <1>2, <2>1, <3>2
  <2>8. ASSUME NEW e \in Range(q), e.sig # s PROVE e \in Range(w)
    <3>1. PICK i \in 1..Len(q) : q[i] = e
      BY <1>1
    <3>2. i # k
      BY <2>1, <2>8, <3>1
    <3> QED BY <2>2, <2>3, <3>1, <3>2
  <2> QED BY <2>2, <2>6, <2>7, <2>8 DEF q, w
<1> QED BY <1>3, <1>4

\* A new entry behind entries of other signatures.
LEMMA AppendKey ==
    ASSUME NEW q \in Seq(Entry), KeyEach(q), NEW e \in Entry, \A d \in Range(q) : d.sig # e.sig
    PROVE  Append(q, e) \in Seq(Entry) /\ KeyEach(Append(q, e)) /\ Range(Append(q, e)) = Range(q) \cup {e}
<1> DEFINE t == Append(q, e)
<1>1. /\ t \in Seq(Entry) /\ Len(t) = Len(q) + 1 /\ t[Len(q) + 1] = e
      /\ \A i \in 1..Len(q) : t[i] = q[i]
  BY AppendProperties
<1>2. Len(q) \in Nat /\ DOMAIN q = 1..Len(q) /\ DOMAIN t = 1..Len(q) + 1 /\ \A i \in 1..Len(q) : q[i].sig # e.sig
  BY <1>1, SeqShape
<1>3. Range(t) = Range(q) \cup {e}
  BY RangeAppend
<1> HIDE DEF t
<1>4. KeyEach(t)
  <2> SUFFICES ASSUME NEW i \in 1..Len(q) + 1, NEW j \in 1..Len(q) + 1, t[i].sig = t[j].sig PROVE i = j
    BY <1>2 DEF KeyEach
  <2>1. CASE i \in 1..Len(q) /\ j \in 1..Len(q)
    <3>1. q[i].sig = q[j].sig
      BY <1>1, <2>1
    <3> QED BY <1>2, <2>1, <3>1 DEF KeyEach
  <2>2. CASE i = Len(q) + 1 \/ j = Len(q) + 1
    <3>1. i \in 1..Len(q) => t[i].sig # e.sig
      BY <1>1, <1>2
    <3>2. j \in 1..Len(q) => t[j].sig # e.sig
      BY <1>1, <1>2
    <3>3. (i = Len(q) + 1 \/ i \in 1..Len(q)) /\ (j = Len(q) + 1 \/ j \in 1..Len(q))
      BY <1>2
    <3> QED BY <1>1, <2>2, <3>1, <3>2, <3>3
  <2>3. (i = Len(q) + 1 \/ i \in 1..Len(q)) /\ (j = Len(q) + 1 \/ j \in 1..Len(q))
    BY <1>2
  <2> QED BY <2>1, <2>2, <2>3
<1> QED BY <1>1, <1>3, <1>4 DEF t

\* Redis has answered: the entry is there, and those of other signatures stay.
LEMMA AssignedKey ==
    ASSUME NEW p, mem[p] \in Seq(Entry), KeyEach(mem[p]), NEW e \in Entry
    PROVE  /\ Assigned(p, e) \in Seq(Entry) /\ KeyEach(Assigned(p, e))
           /\ \A d : d \in Range(Assigned(p, e)) <=> d = e \/ (d \in Range(mem[p]) /\ d.sig # e.sig)
<1> DEFINE q == mem[p]
           w == Assigned(p, e)
<1>1. q \in Seq(Entry) /\ Len(q) \in Nat /\ DOMAIN q = 1..Len(q) /\ \A x : x \in Range(q) <=> \E i \in 1..Len(q) : q[i] = x
  BY SeqShape
<1>2. \A i, j \in 1..Len(q) : q[i].sig = q[j].sig => i = j
  BY <1>1 DEF KeyEach
<1>3. CASE ~InMemory(p, e.sig)
  <2>1. w = Append(q, e)
    BY <1>3 DEF Assigned
  <2>2. \A d \in Range(q) : d.sig # e.sig
    BY <1>1, <1>3 DEF InMemory
  <2> QED BY <1>1, <2>1, <2>2, AppendKey
<1>4. CASE InMemory(p, e.sig)
  <2> DEFINE k == Place(p, e.sig)
  <2>1. k \in 1..Len(q) /\ q[k].sig = e.sig /\ w = [q EXCEPT ![k] = e]
    BY <1>1, <1>4 DEF InMemory, Place, Assigned
  <2> HIDE DEF k, q, w
  <2>2. w \in Seq(Entry) /\ Len(w) = Len(q) /\ w[k] = e /\ \A i \in 1..Len(q) : i # k => w[i] = q[i]
    BY <1>1, <2>1, ExceptSeq
  <2>3. DOMAIN w = 1..Len(q) /\ \A x : x \in Range(w) <=> \E i \in 1..Len(q) : w[i] = x
    BY <2>2, SeqShape
  <2>4. \A i \in 1..Len(q) : w[i].sig = q[i].sig
    BY <2>1, <2>2
  <2>5. KeyEach(w)
    BY <1>2, <2>3, <2>4 DEF KeyEach
  <2>6. ASSUME NEW d PROVE d \in Range(w) <=> d = e \/ (d \in Range(q) /\ d.sig # e.sig)
    <3>1. ASSUME d \in Range(w) PROVE d = e \/ (d \in Range(q) /\ d.sig # e.sig)
      <4>1. PICK i \in 1..Len(q) : w[i] = d
        BY <2>3, <3>1
      <4>2. i # k => q[i].sig # q[k].sig
        BY <1>2, <2>1
      <4> QED BY <1>1, <2>1, <2>2, <4>1, <4>2
    <3>2. ASSUME d \in Range(q), d.sig # e.sig PROVE d \in Range(w)
      <4>1. PICK i \in 1..Len(q) : q[i] = d
        BY <1>1, <3>2
      <4>2. w[i] = d
        BY <2>1, <2>2, <3>2, <4>1
      <4> QED BY <2>3, <4>2
    <3>3. e \in Range(w)
      BY <2>1, <2>2, <2>3
    <3> QED BY <3>1, <3>2, <3>3
  <2> QED BY <2>2, <2>5, <2>6 DEF q, w
<1> QED BY <1>3, <1>4

\* What does not fit goes from the front.
LEMMA TrimmedKeys ==
    ASSUME NEW q \in Seq(Entry), KeyEach(q), Len(q) > MemMax
    PROVE  /\ Trimmed(q) \in Seq(Entry) /\ KeyEach(Trimmed(q)) /\ Range(Trimmed(q)) \subseteq Range(q)
           /\ q[Len(q)] \in Range(Trimmed(q))
<1> DEFINE n == Len(q) - MemMax
           r == SubSeq(q, n + 1, Len(q))
<1>1. Len(q) \in Nat /\ n \in Nat \ {0} /\ n < Len(q) /\ DOMAIN q = 1..Len(q) /\ Len(q) \in 1..Len(q) /\ ~(Len(q) <= n)
  BY SeqShape
<1>2. r = Trimmed(q)
  BY DEF Trimmed
<1> HIDE DEF n
<1>0. /\ r \in Seq(Entry) /\ Len(r) = (IF n <= Len(q) THEN Len(q) - n ELSE 0)
      /\ \A i \in 1..Len(r) : r[i] = q[n + i]
      /\ Range(r) \subseteq Range(q)
      /\ \A i \in 1..Len(q) : i <= n \/ q[i] \in Range(r)
  BY <1>1, RangeRest
<1> HIDE DEF r
<1>7. n <= Len(q)
  BY <1>1
<1>3. /\ r \in Seq(Entry) /\ Len(r) = Len(q) - n
      /\ \A i \in 1..Len(r) : r[i] = q[n + i]
      /\ Range(r) \subseteq Range(q)
      /\ \A i \in 1..Len(q) : i <= n \/ q[i] \in Range(r)
  BY <1>0, <1>7
<1>4. DOMAIN r = 1..Len(r)
  BY <1>3, SeqShape
<1>5. KeyEach(r)
  <2> SUFFICES ASSUME NEW i \in 1..Len(r), NEW j \in 1..Len(r), r[i].sig = r[j].sig PROVE i = j
    BY <1>4 DEF KeyEach
  <2>1. n + i \in DOMAIN q /\ n + j \in DOMAIN q
    BY <1>1, <1>3
  <2>2. q[n + i].sig = q[n + j].sig
    BY <1>3
  <2>3. n + i = n + j
    BY <2>1, <2>2 DEF KeyEach
  <2> QED BY <1>1, <2>3
<1> QED BY <1>1, <1>2, <1>3, <1>5

LEMMA CacheInvInit == CacheInit => CacheInv
<1> SUFFICES ASSUME CacheInit PROVE CacheInv
  OBVIOUS
<1>1. /\ \A p \in Processes : mem[p] = <<>> /\ getter[p] = NoGet /\ setter[p] = NoSet
      /\ \A p \in Processes : \A s \in Signatures : own[p][s] = -1
      /\ \A s \in Signatures : redis[s] = Nothing
      /\ nowIs = 0
  BY DEF CacheInit
<1>2. <<>> \in Seq(Entry) /\ KeyEach(<<>>) /\ Range(<<>>) = {}
  BY EmptySeq, SeqShape DEF KeyEach, Range
<1>3. CacheTypes
  BY <1>2 DEF CacheTypes, CacheInit, NoGet, NoSet, Nothing
<1>4. CallsNow
  BY <1>1 DEF CallsNow, NoGet
<1>5. Lifetimes
  BY <1>1, <1>2 DEF Lifetimes, Nothing
<1>6. NoneOlder
  BY <1>1, <1>2 DEF NoneOlder, Newer, PutsFirst, NoGet, Nothing
<1>7. VerdictsExpire /\ NoReturnToOlder
  BY DEF VerdictsExpire, NoReturnToOlder, CacheInit, NotServed
<1> QED BY <1>3, <1>4, <1>5, <1>6, <1>7 DEF CacheInv

\* A change of the memory of one process.
LEMMA MemoryOf ==
    ASSUME CacheTypes, NEW p \in Processes, NEW q \in Seq(Entry), KeyEach(q), mem' = [mem EXCEPT ![p] = q]
    PROVE  /\ mem' \in [Processes -> Seq(Entry)] /\ \A r \in Processes : KeyEach(mem'[r])
           /\ mem'[p] = q /\ \A r \in Processes : r # p => mem'[r] = mem[r]
<1>1. mem'[p] = q /\ \A r \in Processes : r # p => mem'[r] = mem[r]
  BY DEF CacheTypes
<1>2. \A r \in Processes : KeyEach(mem'[r])
  BY <1>1 DEF CacheTypes
<1> QED BY <1>1, <1>2 DEF CacheTypes

LEMMA CacheInvStep == CacheInv /\ [CacheNext]_cacheVars => CacheInv'
<1> SUFFICES ASSUME CacheInv, [CacheNext]_cacheVars PROVE CacheInv'
  OBVIOUS
<1> DEFINE Getters == [at : {"idle", "asked", "hit"}, sig : Signatures \cup {"none"}, since : Int, of : Int]
<1>1. CacheTypes /\ CallsNow /\ Lifetimes /\ NoneOlder /\ VerdictsExpire /\ NoReturnToOlder
  BY DEF CacheInv
<1>2. /\ nowIs \in Nat /\ VerdictTtl \in Nat \ {0} /\ getter \in [Processes -> Getters]
      /\ \A p \in Processes : mem[p] \in Seq(Entry) /\ KeyEach(mem[p])
      /\ \A p \in Processes : \A e \in Range(mem[p]) : e \in Entry
      /\ \A p \in Processes : getter[p].since \in Int /\ getter[p].of \in Int /\ setter[p].of \in Int
      /\ \A s \in Signatures : redis[s].exp \in Int /\ redis[s].of \in Int
      /\ \A p \in Processes : \A s \in Signatures : own[p][s] \in Int
  <2>1. \A p \in Processes : mem[p] \in Seq(Entry) /\ KeyEach(mem[p])
    BY <1>1 DEF CacheTypes
  <2>2. \A p \in Processes : \A e \in Range(mem[p]) : e \in Entry
    BY <2>1, SeqShape
  <2> QED BY <1>1, <2>1, <2>2 DEF CacheTypes
<1> HIDE DEF Getters
\* A step that serves nothing.
<1>3. ASSUME served' = NotServed, CacheTypes', CallsNow', Lifetimes', NoneOlder' PROVE CacheInv'
  BY <1>3 DEF CacheInv, VerdictsExpire, NoReturnToOlder, NotServed
<1>4. CASE ClockMoves
  <2>1. /\ nowIs' = nowIs + 1 /\ nowIs < MaxNow /\ served' = NotServed
        /\ \A p \in Processes : getter[p] = NoGet /\ setter[p] = NoSet
        /\ UNCHANGED <<mem, redis, getter, setter, answers, own, crossed>>
    BY <1>4 DEF ClockMoves
  <2>2. CacheTypes'
    <3>1. nowIs' \in 0..MaxNow
      BY <1>2, <2>1
    <3> QED BY <1>1, <2>1, <3>1 DEF CacheTypes
  <2>3. CallsNow'
    BY <2>1 DEF CallsNow, NoGet
  <2>4. Lifetimes'
    BY <1>1, <2>1 DEF Lifetimes
  <2>5. NoneOlder'
    <3>1. \A p \in Processes : \A s \in Signatures : own'[p][s] <= nowIs'
      BY <1>1, <1>2, <2>1 DEF NoneOlder
    <3>2. \A s \in Signatures \ crossed' : \A p \in Processes : Newer(p, s)'
      BY <1>1, <2>1 DEF NoneOlder, Newer, PutsFirst
    <3> QED BY <3>1, <3>2 DEF NoneOlder
  <2> QED BY <1>3, <2>1, <2>2, <2>3, <2>4, <2>5
<1>5. ASSUME NEW p \in Processes, NEW s \in Signatures, AsksMemory(p, s) PROVE CacheInv'
  <2> DEFINE entry == mem[p][Place(p, s)]
  <2>1. getter[p].at = "idle" /\ UNCHANGED <<nowIs, redis, setter, answers, own, crossed>>
    BY <1>5 DEF AsksMemory
  <2>2. /\ Without(p, s) \in Seq(Entry) /\ KeyEach(Without(p, s))
        /\ \A e : e \in Range(Without(p, s)) <=> e \in Range(mem[p]) /\ e.sig # s
    BY <1>2, WithoutKey
  <2>3. InMemory(p, s) => entry \in Range(mem[p]) /\ entry.sig = s
    <3>1. InMemory(p, s) => Place(p, s) \in DOMAIN mem[p] /\ mem[p][Place(p, s)].sig = s
      BY DEF InMemory, Place
    <3> QED BY <3>1 DEF Range
  <2>4. CASE InMemory(p, s) /\ entry.exp > nowIs
    <3>1. mem' = [mem EXCEPT ![p] = Append(Without(p, s), entry)] /\ Serves(p, s, entry.of) /\ getter' = getter
      BY <1>5, <2>4 DEF AsksMemory
    <3> HIDE DEF entry
    <3> DEFINE q == Append(Without(p, s), entry)
    <3>2. entry \in Entry /\ entry \in Range(mem[p]) /\ entry.sig = s
      BY <1>2, <2>3, <2>4
    <3>3. q \in Seq(Entry) /\ KeyEach(q) /\ Range(q) = Range(Without(p, s)) \cup {entry}
      BY <2>2, <3>2, AppendKey
    <3> HIDE DEF q
    <3>4. /\ mem' \in [Processes -> Seq(Entry)] /\ \A r \in Processes : KeyEach(mem'[r])
          /\ mem'[p] = q /\ \A r \in Processes : r # p => mem'[r] = mem[r]
      BY <1>1, <3>1, <3>3, MemoryOf DEF q
    <3>5. \A e \in Range(mem[p]) : e.sig = s => e = entry
      <4>1. ASSUME NEW e \in Range(mem[p]), e.sig = s PROVE e = entry
        <5>1. PICK i \in DOMAIN mem[p] : mem[p][i] = e
          BY DEF Range
        <5>2. PICK j \in DOMAIN mem[p] : mem[p][j] = entry
          BY <3>2 DEF Range
        <5>3. i = j
          BY <1>2, <3>2, <4>1, <5>1, <5>2 DEF KeyEach
        <5> QED BY <5>1, <5>2, <5>3
      <4> QED BY <4>1
    <3>6. \A r \in Processes : Range(mem'[r]) = Range(mem[r])
      <4>1. Range(q) = Range(mem[p])
        BY <2>2, <3>2, <3>3, <3>5
      <4> QED BY <3>4, <4>1
    <3>7. CacheTypes' /\ CallsNow'
      BY <1>1, <2>1, <3>1, <3>4 DEF CacheTypes, CallsNow
    <3>8. Lifetimes'
      BY <1>1, <2>1, <3>6 DEF Lifetimes
    <3>9. NoneOlder'
      <4>1. \A t \in Signatures \ crossed : \A r \in Processes : Newer(r, t)'
        BY <1>1, <2>1, <3>1, <3>6 DEF NoneOlder, Newer, PutsFirst
      <4> QED BY <1>1, <2>1, <4>1 DEF NoneOlder
    <3>10. VerdictsExpire'
      <4>1. entry.exp <= entry.of + 2 * VerdictTtl /\ entry.exp \in Int /\ entry.of \in Int
        BY <1>1, <3>2 DEF Lifetimes, Entry
      <4>2. served'.age = nowIs - entry.of
        BY <3>1 DEF Serves
      <4>3. nowIs < entry.exp
        BY <1>2, <2>4, <4>1
      <4>4. nowIs - entry.of < 2 * VerdictTtl
        BY <1>2, <4>1, <4>3
      <4> QED BY <4>2, <4>4 DEF VerdictsExpire
    <3>11. NoReturnToOlder'
      <4>1. s \notin crossed => own[p][s] <= entry.of
        BY <1>1, <3>2 DEF NoneOlder, Newer
      <4>2. s \notin crossed => ~(entry.of < own[p][s])
        BY <1>2, <3>2, <4>1 DEF Entry
      <4>3. served' = [age |-> nowIs - entry.of, older |-> s \notin crossed /\ entry.of < own[p][s]]
        BY <3>1 DEF Serves
      <4>4. served'.older = (s \notin crossed /\ entry.of < own[p][s])
        BY <4>3
      <4> QED BY <4>2, <4>4 DEF NoReturnToOlder
    <3> QED BY <3>7, <3>8, <3>9, <3>10, <3>11 DEF CacheInv
  <2>5. CASE ~(InMemory(p, s) /\ entry.exp > nowIs)
    <3> DEFINE g == [at |-> "asked", sig |-> s, since |-> nowIs, of |-> -1]
    <3>1. mem' = [mem EXCEPT ![p] = Without(p, s)] /\ getter' = [getter EXCEPT ![p] = g] /\ served' = NotServed
      BY <1>5, <2>5 DEF AsksMemory
    <3>2. /\ mem' \in [Processes -> Seq(Entry)] /\ \A r \in Processes : KeyEach(mem'[r])
          /\ mem'[p] = Without(p, s) /\ \A r \in Processes : r # p => mem'[r] = mem[r]
      BY <1>1, <2>2, <3>1, MemoryOf
    <3>3. \A r \in Processes : \A e : e \in Range(mem'[r]) <=> e \in Range(mem[r]) /\ (r = p => e.sig # s)
      BY <2>2, <3>2
    <3>4. g \in Getters /\ g.at = "asked" /\ g.sig = s /\ g.since = nowIs
      BY <1>2 DEF Getters
    <3> HIDE DEF g
    <3>5. getter' \in [Processes -> Getters] /\ getter'[p] = g /\ \A r \in Processes : r # p => getter'[r] = getter[r]
      BY <1>2, <3>1, <3>4
    <3>6. CacheTypes'
      BY <1>1, <2>1, <3>2, <3>5 DEF CacheTypes, Getters
    <3>7. CallsNow'
      BY <1>1, <2>1, <3>4, <3>5 DEF CallsNow
    <3>8. Lifetimes'
      BY <1>1, <2>1, <3>3 DEF Lifetimes
    <3>9. ASSUME setter[p] # NoSet, setter[p].sig = s, s \notin crossed PROVE FALSE
      <4>1. PICK e \in Range(mem[p]) : e.sig = s /\ e.exp > nowIs
        BY <1>1, <3>9 DEF NoneOlder, Newer, PutsFirst
      <4>2. PICK i \in DOMAIN mem[p] : mem[p][i] = e
        BY DEF Range
      <4>3. InMemory(p, s)
        BY <4>1, <4>2 DEF InMemory
      <4>4. Place(p, s) \in DOMAIN mem[p] /\ mem[p][Place(p, s)].sig = s
        BY <4>3 DEF InMemory, Place
      <4>5. i = Place(p, s)
        BY <1>2, <4>1, <4>2, <4>4 DEF KeyEach
      <4> QED BY <2>5, <4>1, <4>2, <4>3, <4>5
    <3>10. NoneOlder'
      <4>1. ASSUME NEW t \in Signatures \ crossed, NEW r \in Processes PROVE Newer(r, t)'
        <5>1. Newer(r, t)
          BY <1>1 DEF NoneOlder
        <5>2. PutsFirst(r, t)'
          <6>1. CASE r = p /\ t = s
            BY <2>1, <3>9, <6>1 DEF PutsFirst
          <6>2. CASE r = p /\ t # s
            BY <2>1, <3>3, <3>4, <3>5, <5>1, <6>2 DEF PutsFirst, Newer
          <6>3. CASE r # p
            BY <2>1, <3>3, <3>5, <5>1, <6>3 DEF PutsFirst, Newer
          <6> QED BY <6>1, <6>2, <6>3
        <5>3. \A e \in Range(mem'[r]) : e.sig = t => own'[r][t] <= e.of
          BY <2>1, <3>3, <5>1 DEF Newer
        <5>4. setter'[r] = NoSet \/ setter'[r].sig # t => own'[r][t] <= redis'[t].of
          BY <2>1, <5>1 DEF Newer
        <5>5. getter'[r].at = "hit" /\ getter'[r].sig = t => own'[r][t] <= getter'[r].of
          BY <2>1, <3>4, <3>5, <5>1 DEF Newer
        <5> QED BY <5>2, <5>3, <5>4, <5>5 DEF Newer
      <4> QED BY <1>1, <2>1, <4>1 DEF NoneOlder
    <3> QED BY <1>3, <3>1, <3>6, <3>7, <3>8, <3>10
  <2> QED BY <2>4, <2>5
<1>6. ASSUME NEW p \in Processes, RedisAnswers(p) PROVE CacheInv'
  <2>1. getter[p].at = "asked" /\ served' = NotServed /\ UNCHANGED <<nowIs, mem, redis, setter, answers, own, crossed>>
    BY <1>6 DEF RedisAnswers
  <2> DEFINE s == getter[p].sig
             hit == redis[s]
  <2>2. s \in Signatures /\ getter[p].since = nowIs /\ getter[p] \in Getters
    BY <1>1, <1>2, <2>1 DEF CallsNow
  <2>3. ASSUME NEW g \in Getters, getter' = [getter EXCEPT ![p] = g],
               g.at = "idle" \/ (/\ g.at = "hit" /\ g.sig = s /\ g.since = nowIs /\ nowIs < g.of + VerdictTtl
                                 /\ g.of = hit.of)
        PROVE  CacheInv'
    <3>1. getter' \in [Processes -> Getters] /\ getter'[p] = g /\ \A r \in Processes : r # p => getter'[r] = getter[r]
      BY <1>2, <2>3
    <3>2. CacheTypes'
      BY <1>1, <2>1, <3>1 DEF CacheTypes, Getters
    <3>3. CallsNow'
      BY <1>1, <2>1, <2>2, <2>3, <3>1 DEF CallsNow
    <3>4. Lifetimes'
      BY <1>1, <2>1 DEF Lifetimes
    <3>5. NoneOlder'
      <4>1. ASSUME NEW t \in Signatures \ crossed, NEW r \in Processes PROVE Newer(r, t)'
        <5>1. Newer(r, t)
          BY <1>1 DEF NoneOlder
        <5>2. PutsFirst(r, t)'
          <6>1. CASE r = p
            BY <2>1, <2>3, <3>1, <5>1, <6>1 DEF PutsFirst, Newer
          <6>2. CASE r # p
            BY <2>1, <3>1, <5>1, <6>2 DEF PutsFirst, Newer
          <6> QED BY <6>1, <6>2
        <5>3. getter'[r].at = "hit" /\ getter'[r].sig = t => own'[r][t] <= getter'[r].of
          <6>1. CASE r = p
            <7>1. ASSUME getter'[r].at = "hit", getter'[r].sig = t PROVE own[r][t] <= hit.of
              <8>1. t = s
                BY <2>3, <3>1, <6>1, <7>1
              <8>2. setter[p] = NoSet \/ setter[p].sig # s
                BY <2>1, <5>1, <6>1, <8>1 DEF Newer, PutsFirst
              <8> QED BY <5>1, <6>1, <8>1, <8>2 DEF Newer
            <7> QED BY <2>1, <2>3, <3>1, <6>1, <7>1
          <6>2. CASE r # p
            BY <2>1, <3>1, <5>1, <6>2 DEF Newer
          <6> QED BY <6>1, <6>2
        <5>4. setter'[r] = NoSet \/ setter'[r].sig # t => own'[r][t] <= redis'[t].of
          BY <2>1, <5>1 DEF Newer
        <5>5. \A e \in Range(mem'[r]) : e.sig = t => own'[r][t] <= e.of
          BY <2>1, <5>1 DEF Newer
        <5> QED BY <5>2, <5>3, <5>4, <5>5 DEF Newer
      <4> QED BY <1>1, <2>1, <4>1 DEF NoneOlder
    <3> QED BY <1>3, <2>1, <3>2, <3>3, <3>4, <3>5
  <2>4. CASE hit.exp > nowIs /\ getter' = [getter EXCEPT ![p].at = "hit", ![p].of = hit.of]
    <3> DEFINE g == [getter[p] EXCEPT !.at = "hit", !.of = hit.of]
    <3>1. getter' = [getter EXCEPT ![p] = g]
      BY <1>2, <2>4
    <3>2. hit.of \in Int /\ hit.exp \in Int /\ hit.exp <= hit.of + VerdictTtl
      BY <1>1, <1>2, <2>2 DEF Lifetimes
    <3>3. nowIs < hit.of + VerdictTtl
      BY <1>2, <2>4, <3>2
    <3>4. g \in Getters /\ g.at = "hit" /\ g.sig = s /\ g.since = nowIs /\ g.of = hit.of
      BY <2>2, <3>2 DEF Getters
    <3> HIDE DEF g, hit, s
    <3> QED BY <2>3, <3>1, <3>3, <3>4
  <2>5. CASE getter' = [getter EXCEPT ![p] = NoGet]
    <3>1. NoGet \in Getters /\ NoGet.at = "idle"
      BY DEF NoGet, Getters
    <3> QED BY <2>3, <2>5, <3>1
  <2> QED BY <1>6, <2>4, <2>5 DEF RedisAnswers
<1>7. ASSUME NEW p \in Processes, KeepsHit(p) PROVE CacheInv'
  <2> DEFINE s == getter[p].sig
             entry == [sig |-> s, exp |-> Renewed(p), of |-> getter[p].of]
             q == Assigned(p, entry)
  <2>1. /\ getter[p].at = "hit" /\ mem' = [mem EXCEPT ![p] = q] /\ Serves(p, s, getter[p].of)
        /\ getter' = [getter EXCEPT ![p] = NoGet] /\ UNCHANGED <<nowIs, redis, setter, answers, own, crossed>>
    BY <1>7 DEF KeepsHit
  <2>2. s \in Signatures /\ getter[p].since = nowIs /\ nowIs < getter[p].of + VerdictTtl
    BY <1>1, <2>1 DEF CallsNow
  <2>3. entry \in Entry /\ entry.sig = s /\ entry.exp = nowIs + VerdictTtl /\ entry.of = getter[p].of
    BY <1>2, <2>2 DEF Entry, Renewed
  <2> HIDE DEF entry
  <2>4. q \in Seq(Entry) /\ KeyEach(q) /\ \A d : d \in Range(q) <=> d = entry \/ (d \in Range(mem[p]) /\ d.sig # s)
    BY <1>2, <2>3, AssignedKey
  <2> HIDE DEF q
  <2>5. /\ mem' \in [Processes -> Seq(Entry)] /\ \A r \in Processes : KeyEach(mem'[r])
        /\ mem'[p] = q /\ \A r \in Processes : r # p => mem'[r] = mem[r]
    BY <1>1, <2>1, <2>4, MemoryOf
  <2>6. /\ getter' \in [Processes -> Getters] /\ getter'[p] = NoGet /\ \A r \in Processes : r # p => getter'[r] = getter[r]
        /\ NoGet.at = "idle"
    <3>1. NoGet \in Getters /\ NoGet.at = "idle"
      BY DEF NoGet, Getters
    <3> QED BY <1>2, <2>1, <3>1
  <2>7. CacheTypes'
    BY <1>1, <2>1, <2>5, <2>6 DEF CacheTypes, Getters
  <2>8. CallsNow'
    BY <1>1, <2>1, <2>6 DEF CallsNow
  <2>9. Lifetimes'
    <3>1. entry.exp <= entry.of + 2 * VerdictTtl
      BY <1>2, <2>2, <2>3
    <3> QED BY <1>1, <2>1, <2>4, <2>5, <3>1 DEF Lifetimes
  <2>10. s \notin crossed => own[p][s] <= getter[p].of
    BY <1>1, <2>1, <2>2 DEF NoneOlder, Newer
  <2>11. NoneOlder'
    <3>1. ASSUME NEW t \in Signatures \ crossed, NEW r \in Processes PROVE Newer(r, t)'
      <4>1. Newer(r, t)
        BY <1>1 DEF NoneOlder
      <4>2. \A e \in Range(mem[r]) : e.sig = t /\ ~(r = p /\ t = s) => e \in Range(mem'[r])
        BY <2>4, <2>5
      <4>3. PutsFirst(r, t)'
        <5>1. CASE r = p /\ t = s
          BY <2>1, <4>1, <5>1 DEF PutsFirst, Newer
        <5>2. CASE ~(r = p /\ t = s)
          BY <2>1, <2>6, <4>1, <4>2, <5>2 DEF PutsFirst, Newer
        <5> QED BY <5>1, <5>2
      <4>4. \A e \in Range(mem'[r]) : e.sig = t => own'[r][t] <= e.of
        BY <2>1, <2>3, <2>4, <2>5, <2>10, <4>1 DEF Newer
      <4>5. setter'[r] = NoSet \/ setter'[r].sig # t => own'[r][t] <= redis'[t].of
        BY <2>1, <4>1 DEF Newer
      <4>6. getter'[r].at = "hit" /\ getter'[r].sig = t => own'[r][t] <= getter'[r].of
        BY <2>1, <2>6, <4>1 DEF Newer
      <4> QED BY <4>3, <4>4, <4>5, <4>6 DEF Newer
    <3> QED BY <1>1, <2>1, <3>1 DEF NoneOlder
  <2>12. VerdictsExpire'
    <3>1. served'.age = nowIs - getter[p].of
      BY <2>1 DEF Serves
    <3>2. nowIs - getter[p].of < 2 * VerdictTtl
      BY <1>2, <2>2
    <3> QED BY <3>1, <3>2 DEF VerdictsExpire
  <2>13. NoReturnToOlder'
    <3>1. served' = [age |-> nowIs - getter[p].of, older |-> s \notin crossed /\ getter[p].of < own[p][s]]
      BY <2>1 DEF Serves
    <3>2. served'.older = (s \notin crossed /\ getter[p].of < own[p][s])
      BY <3>1
    <3>3. s \notin crossed => ~(getter[p].of < own[p][s])
      BY <1>2, <2>2, <2>10
    <3> QED BY <3>2, <3>3 DEF NoReturnToOlder
  <2> QED BY <2>7, <2>8, <2>9, <2>11, <2>12, <2>13 DEF CacheInv
<1>8. ASSUME NEW p \in Processes, NEW s \in Signatures, PutsMemory(p, s) PROVE CacheInv'
  <2> DEFINE entry == [sig |-> s, exp |-> nowIs + VerdictTtl, of |-> nowIs]
             longer == Append(Without(p, s), entry)
             q == IF Len(longer) > MemMax THEN Trimmed(longer) ELSE longer
             put == [sig |-> s, of |-> nowIs]
  <2>1. /\ setter[p] = NoSet /\ answers < MaxAnswers /\ answers' = answers + 1
        /\ mem' = [mem EXCEPT ![p] = q] /\ setter' = [setter EXCEPT ![p] = put]
        /\ own' = [own EXCEPT ![p][s] = nowIs]
        /\ crossed' = (IF Crosses(p, s) THEN crossed \cup {s} ELSE crossed)
        /\ served' = NotServed /\ UNCHANGED <<nowIs, redis, getter>>
    BY <1>8 DEF PutsMemory
  <2>2. /\ Without(p, s) \in Seq(Entry) /\ KeyEach(Without(p, s))
        /\ \A e : e \in Range(Without(p, s)) <=> e \in Range(mem[p]) /\ e.sig # s
    BY <1>2, WithoutKey
  <2>3. entry \in Entry /\ entry.sig = s /\ entry.exp = nowIs + VerdictTtl /\ entry.of = nowIs
    BY <1>2 DEF Entry
  <2> HIDE DEF entry
  <2>4. longer \in Seq(Entry) /\ KeyEach(longer) /\ Range(longer) = Range(Without(p, s)) \cup {entry}
        /\ longer[Len(longer)] = entry
    <3>1. longer \in Seq(Entry) /\ KeyEach(longer) /\ Range(longer) = Range(Without(p, s)) \cup {entry}
      BY <2>2, <2>3, AppendKey
    <3>2. longer[Len(longer)] = entry
      BY <2>2, <2>3, AppendProperties
    <3> QED BY <3>1, <3>2
  <2> HIDE DEF longer
  <2>5. /\ q \in Seq(Entry) /\ KeyEach(q) /\ entry \in Range(q)
        /\ \A e \in Range(q) : e = entry \/ (e \in Range(mem[p]) /\ e.sig # s)
    <3>1. CASE Len(longer) > MemMax
      <4>1. /\ Trimmed(longer) \in Seq(Entry) /\ KeyEach(Trimmed(longer)) /\ Range(Trimmed(longer)) \subseteq Range(longer)
            /\ longer[Len(longer)] \in Range(Trimmed(longer))
        BY <2>4, <3>1, TrimmedKeys
      <4> QED BY <2>2, <2>4, <3>1, <4>1
    <3>2. CASE ~(Len(longer) > MemMax)
      BY <2>2, <2>4, <3>2
    <3> QED BY <3>1, <3>2
  <2> HIDE DEF q
  <2>6. /\ mem' \in [Processes -> Seq(Entry)] /\ \A r \in Processes : KeyEach(mem'[r])
        /\ mem'[p] = q /\ \A r \in Processes : r # p => mem'[r] = mem[r]
    BY <1>1, <2>1, <2>5, MemoryOf
  <2>7. /\ own' \in [Processes -> [Signatures -> Int]] /\ own'[p][s] = nowIs
        /\ \A r \in Processes : \A t \in Signatures : r # p \/ t # s => own'[r][t] = own[r][t]
    BY <1>1, <1>2, <2>1 DEF CacheTypes
  <2>8. /\ setter' \in [Processes -> [sig : Signatures \cup {"none"}, of : Int]]
        /\ setter'[p] = put /\ \A r \in Processes : r # p => setter'[r] = setter[r]
        /\ put.sig = s /\ put.of = nowIs /\ put # NoSet
    <3>1. put \in [sig : Signatures \cup {"none"}, of : Int] /\ put.sig = s /\ put.of = nowIs /\ put # NoSet
      BY <1>2 DEF NoSet
    <3> HIDE DEF put
    <3> QED BY <1>1, <2>1, <3>1 DEF CacheTypes
  <2> HIDE DEF put
  <2>9. CacheTypes'
    <3>1. answers' \in 0..MaxAnswers
      <4>1. answers \in 0..MaxAnswers
        BY <1>1 DEF CacheTypes
      <4>2. answers' = answers + 1 /\ answers < MaxAnswers
        BY <2>1
      <4> QED BY <4>1, <4>2
    <3>2. crossed' \subseteq Signatures
      BY <1>1, <2>1 DEF CacheTypes
    <3> QED BY <1>1, <2>1, <2>6, <2>7, <2>8, <3>1, <3>2 DEF CacheTypes
  <2>10. CallsNow'
    BY <1>1, <2>1, <2>8 DEF CallsNow
  <2>11. Lifetimes'
    <3>1. entry.exp <= entry.of + 2 * VerdictTtl
      BY <1>2, <2>3
    <3> QED BY <1>1, <2>1, <2>5, <2>6, <3>1 DEF Lifetimes
  <2>12. NoneOlder'
    <3>1. \A r \in Processes : \A t \in Signatures : own'[r][t] <= nowIs'
      <4> SUFFICES ASSUME NEW r \in Processes, NEW t \in Signatures PROVE own'[r][t] <= nowIs
        BY <2>1
      <4>1. own[r][t] <= nowIs
        BY <1>1 DEF NoneOlder
      <4>2. CASE r = p /\ t = s
        BY <1>2, <2>7, <4>2
      <4>3. CASE ~(r = p /\ t = s)
        BY <2>7, <4>1, <4>3
      <4> QED BY <4>2, <4>3
    <3>2. ASSUME NEW t \in Signatures \ crossed', NEW r \in Processes PROVE Newer(r, t)'
      <4>1. Newer(r, t) /\ t \notin crossed
        BY <1>1, <2>1, <3>2 DEF NoneOlder
      <4>2. t = s => ~Crosses(p, s)
        BY <2>1, <3>2
      <4>3. t = s => getter[r].sig # s /\ (r # p => setter[r].sig # s)
        BY <4>2 DEF Crosses
      <4>4. PutsFirst(r, t)'
        <5>1. CASE r = p /\ t = s
          <6>1. entry.exp > nowIs
            BY <1>2, <2>3
          <6> QED BY <2>1, <2>3, <2>5, <2>6, <4>3, <5>1, <6>1 DEF PutsFirst
        <5>2. CASE r = p /\ t # s
          BY <2>8, <5>2 DEF PutsFirst
        <5>3. CASE r # p
          BY <2>1, <2>6, <2>8, <4>1, <5>3 DEF PutsFirst, Newer
        <5> QED BY <5>1, <5>2, <5>3
      <4>5. \A e \in Range(mem'[r]) : e.sig = t => own'[r][t] <= e.of
        <5>1. CASE r = p /\ t = s
          <6>1. \A e \in Range(mem'[r]) : e.sig = t => e = entry
            BY <2>5, <2>6, <5>1
          <6> QED BY <1>2, <2>3, <2>7, <5>1, <6>1
        <5>2. CASE r = p /\ t # s
          BY <2>3, <2>5, <2>6, <2>7, <4>1, <5>2 DEF Newer
        <5>3. CASE r # p
          BY <2>6, <2>7, <4>1, <5>3 DEF Newer
        <5> QED BY <5>1, <5>2, <5>3
      <4>6. setter'[r] = NoSet \/ setter'[r].sig # t => own'[r][t] <= redis'[t].of
        <5>1. CASE r = p /\ t = s
          BY <2>8, <5>1
        <5>2. CASE r = p /\ t # s
          BY <2>1, <2>7, <4>1, <5>2 DEF Newer
        <5>3. CASE r # p
          BY <2>1, <2>7, <2>8, <4>1, <5>3 DEF Newer
        <5> QED BY <5>1, <5>2, <5>3
      <4>7. getter'[r].at = "hit" /\ getter'[r].sig = t => own'[r][t] <= getter'[r].of
        <5>1. CASE t = s
          BY <2>1, <4>3, <5>1
        <5>2. CASE t # s
          BY <2>1, <2>7, <4>1, <5>2 DEF Newer
        <5> QED BY <5>1, <5>2
      <4> QED BY <4>4, <4>5, <4>6, <4>7 DEF Newer
    <3> QED BY <3>1, <3>2 DEF NoneOlder
  <2> QED BY <1>3, <2>1, <2>9, <2>10, <2>11, <2>12
<1>9. ASSUME NEW p \in Processes, PutsRedis(p) PROVE CacheInv'
  <2> DEFINE s == setter[p].sig
             row == [exp |-> nowIs + VerdictTtl, of |-> setter[p].of]
  <2>1. /\ setter[p] # NoSet /\ setter' = [setter EXCEPT ![p] = NoSet] /\ served' = NotServed
        /\ UNCHANGED <<nowIs, mem, getter, answers, own>>
    BY <1>9 DEF PutsRedis
  <2>2. s \in Signatures /\ setter[p].of = nowIs
    BY <1>1, <2>1 DEF CallsNow
  <2>3. /\ setter' \in [Processes -> [sig : Signatures \cup {"none"}, of : Int]]
        /\ setter'[p] = NoSet /\ \A r \in Processes : r # p => setter'[r] = setter[r]
    <3>1. NoSet \in [sig : Signatures \cup {"none"}, of : Int]
      BY DEF NoSet
    <3> QED BY <1>1, <2>1, <3>1 DEF CacheTypes
  <2>4. /\ redis' \in [Signatures -> [exp : Int, of : Int]] /\ crossed \subseteq crossed' /\ crossed' \subseteq Signatures
        /\ \A t \in Signatures : t # s => redis'[t] = redis[t]
        /\ \/ redis'[s].exp = nowIs + VerdictTtl /\ redis'[s].of = nowIs
           \/ redis'[s] = redis[s] /\ s \in crossed'
    <3>1. CASE redis' = [redis EXCEPT ![s] = row] /\ crossed' = crossed
      <4>1. row \in [exp : Int, of : Int] /\ row.exp = nowIs + VerdictTtl /\ row.of = nowIs
        BY <1>2, <2>2
      <4> HIDE DEF row, s
      <4> QED BY <1>1, <2>2, <3>1, <4>1 DEF CacheTypes
    <3>2. CASE redis' = redis /\ crossed' = crossed \cup {s}
      BY <1>1, <2>2, <3>2 DEF CacheTypes
    <3> QED BY <1>9, <3>1, <3>2 DEF PutsRedis
  <2> HIDE DEF s
  <2>5. CacheTypes'
    BY <1>1, <2>1, <2>3, <2>4 DEF CacheTypes
  <2>6. CallsNow'
    BY <1>1, <2>1, <2>3 DEF CallsNow
  <2>7. Lifetimes'
    <3>1. ASSUME NEW t \in Signatures PROVE redis'[t].exp <= redis'[t].of + VerdictTtl
      <4>1. redis[t].exp <= redis[t].of + VerdictTtl
        BY <1>1 DEF Lifetimes
      <4>2. CASE t # s \/ redis'[s] = redis[s]
        <5>1. redis'[t] = redis[t]
          BY <2>4, <4>2
        <5> QED BY <4>1, <5>1
      <4>3. CASE t = s /\ redis'[s].exp = nowIs + VerdictTtl /\ redis'[s].of = nowIs
        BY <1>2, <4>3
      <4> QED BY <2>4, <4>2, <4>3
    <3> QED BY <1>1, <2>1, <3>1 DEF Lifetimes
  <2>8. NoneOlder'
    <3>1. ASSUME NEW t \in Signatures \ crossed', NEW r \in Processes PROVE Newer(r, t)'
      <4>1. Newer(r, t) /\ own[r][t] <= nowIs
        BY <1>1, <2>4 DEF NoneOlder
      <4>2. PutsFirst(r, t)'
        <5>1. CASE r = p
          BY <2>3, <5>1 DEF PutsFirst
        <5>2. CASE r # p
          BY <2>1, <2>3, <4>1, <5>2 DEF PutsFirst, Newer
        <5> QED BY <5>1, <5>2
      <4>3. setter'[r] = NoSet \/ setter'[r].sig # t => own'[r][t] <= redis'[t].of
        <5>1. CASE t = s
          <6>1. redis'[t].of = nowIs
            BY <2>4, <3>1, <5>1
          <6> QED BY <2>1, <4>1, <6>1
        <5>2. CASE t # s
          <6>1. redis'[t] = redis[t]
            BY <2>4, <5>2
          <6>2. setter'[r] = NoSet \/ setter'[r].sig # t => setter[r] = NoSet \/ setter[r].sig # t
            <7>1. CASE r = p
              BY <5>2, <7>1 DEF s
            <7>2. CASE r # p
              BY <2>3, <7>2
            <7> QED BY <7>1, <7>2
          <6> QED BY <2>1, <4>1, <6>1, <6>2 DEF Newer
        <5> QED BY <5>1, <5>2
      <4>4. \A e \in Range(mem'[r]) : e.sig = t => own'[r][t] <= e.of
        BY <2>1, <4>1 DEF Newer
      <4>5. getter'[r].at = "hit" /\ getter'[r].sig = t => own'[r][t] <= getter'[r].of
        BY <2>1, <4>1 DEF Newer
      <4> QED BY <4>2, <4>3, <4>4, <4>5 DEF Newer
    <3> QED BY <1>1, <2>1, <3>1 DEF NoneOlder
  <2> QED BY <1>3, <2>1, <2>5, <2>6, <2>7, <2>8
<1>10. CASE UNCHANGED cacheVars
  <2>1. CacheTypes' /\ CallsNow' /\ Lifetimes'
    BY <1>1, <1>10 DEF cacheVars, CacheTypes, CallsNow, Lifetimes
  <2>2. NoneOlder' /\ VerdictsExpire' /\ NoReturnToOlder'
    BY <1>1, <1>10 DEF cacheVars, NoneOlder, Newer, PutsFirst, VerdictsExpire, NoReturnToOlder
  <2> QED BY <2>1, <2>2 DEF CacheInv
<1>11. CASE CacheNext
  BY <1>4, <1>5, <1>6, <1>7, <1>8, <1>9, <1>11 DEF CacheNext
<1> QED BY <1>10, <1>11

LEMMA CacheInvSound == CacheInv => CacheSound
<1> SUFFICES ASSUME CacheInv PROVE CacheSound
  OBVIOUS
<1>1. CacheTypes /\ VerdictsExpire /\ NoReturnToOlder
  BY DEF CacheInv
<1>2. ASSUME NEW p \in Processes, NEW i \in DOMAIN mem[p], NEW j \in DOMAIN mem[p]
      PROVE  mem[p][i] \in Entry /\ (mem[p][i].sig = mem[p][j].sig => i = j)
  <2>1. mem[p] \in Seq(Entry) /\ KeyEach(mem[p])
    BY <1>1 DEF CacheTypes
  <2> QED BY <2>1, SeqShape DEF KeyEach
<1>3. \A p \in Processes : getter[p].at \in {"idle", "asked", "hit"}
  BY <1>1 DEF CacheTypes
<1>4. CacheTypeOK
  BY <1>1, <1>2, <1>3 DEF CacheTypes, CacheTypeOK
<1> QED BY <1>1, <1>4 DEF CacheSound

HIDE CacheAssumption

-----------------------------------------------------------------------------
(* Sizes of sets of pairs *)

LEMMA ColumnSize ==
    ASSUME NEW k, NEW n \in Nat
    PROVE  IsFiniteSet({k} \X (1..n)) /\ Cardinality({k} \X (1..n)) = n
<1> DEFINE C == {k} \X (1..n)
           g == [i \in 1..n |-> <<k, i>>]
<1>1. g \in Bijection(1..n, C)
  <2>1. g \in [1..n -> C] /\ \A i, j \in 1..n : g[i] = g[j] => i = j
    OBVIOUS
  <2>2. \A c \in C : \E i \in 1..n : g[i] = c
    OBVIOUS
  <2> QED BY <2>1, <2>2 DEF Bijection, Injection, IsInjective, Surjection
<1>2. IsFiniteSet(1..n) /\ Cardinality(1..n) = n
  <2>1. IsFiniteSet(1..n) /\ Cardinality(1..n) = IF 1 > n THEN 0 ELSE n - 1 + 1
    BY FS_Interval
  <2> QED BY <2>1
<1> HIDE DEF C
<1>3. ExistsBijection(1..n, C)
  BY <1>1 DEF ExistsBijection
<1> QED BY <1>2, <1>3, FS_Bijection DEF C

\* The sizes of disjoint sets add up.
LEMMA DisjointSize ==
    ASSUME NEW A, NEW B, IsFiniteSet(A), IsFiniteSet(B), A \cap B = {}
    PROVE  IsFiniteSet(A \cup B) /\ Cardinality(A \cup B) = Cardinality(A) + Cardinality(B)
<1>1. /\ IsFiniteSet(A \cup B)
      /\ Cardinality(A \cup B) = Cardinality(A) + Cardinality(B) - Cardinality(A \cap B)
  BY FS_Union
<1>2. Cardinality(A) \in Nat /\ Cardinality(B) \in Nat /\ Cardinality(A \cap B) = 0
  BY FS_CardinalityType, FS_EmptySet
<1> QED BY <1>1, <1>2

-----------------------------------------------------------------------------
(* Captured packets and their flows *)

OneFlow == [n : Nat, first : Nat, last : Nat]
OneRecord == [key : FlowKeys, n : Nat, first : Nat, last : Nat]
RowOf(k, flow) == [key |-> k, n |-> flow.n, first |-> flow.first, last |-> flow.last]

\* The packets of a key in a sequence of records, and with those of its open flow.
PacketsOf(recs, k) == UNION {{i} \X (1..recs[i].n) : i \in {j \in DOMAIN recs : recs[j].key = k}}
Tally(recs, fl, k) == Cardinality(PacketsOf(recs, k)) + fl[k].n
AllFinite(recs) == \A k \in FlowKeys : IsFiniteSet(PacketsOf(recs, k))

Spans(recs, fl) ==
    /\ \A i \in DOMAIN recs :
        recs[i].first <= recs[i].last /\ (fl[recs[i].key].n > 0 => recs[i].last <= fl[recs[i].key].first)
    /\ \A i, j \in DOMAIN recs : i < j /\ recs[i].key = recs[j].key => recs[i].last <= recs[j].first
    /\ \A k \in FlowKeys : fl[k].first <= fl[k].last

LEMMA PacketsOfAre ==
    ASSUME NEW recs, NEW k, NEW x
    PROVE  x \in PacketsOf(recs, k) <=>
             \E i \in DOMAIN recs : recs[i].key = k /\ \E j \in 1..recs[i].n : x = <<i, j>>
BY DEF PacketsOf

\* A record more, and a record less.
LEMMA OneRecordMore ==
    ASSUME NEW recs \in Seq(OneRecord), NEW r \in OneRecord, NEW k \in FlowKeys, AllFinite(recs)
    PROVE  LET all == Append(recs, r) IN
           /\ IsFiniteSet(PacketsOf(all, k))
           /\ Cardinality(PacketsOf(all, k))
                = Cardinality(PacketsOf(recs, k)) + (IF r.key = k THEN r.n ELSE 0)
<1> DEFINE all == Append(recs, r)
           m == Len(recs)
           C == {m + 1} \X (1..r.n)
<1>1. /\ all \in Seq(OneRecord) /\ Len(all) = m + 1 /\ all[m + 1] = r
      /\ \A i \in 1..m : all[i] = recs[i]
  BY AppendProperties
<1>2. DOMAIN all = 1..m + 1 /\ DOMAIN recs = 1..m /\ m \in Nat /\ r.n \in Nat
  BY <1>1, SeqShape DEF OneRecord
<1>3. IsFiniteSet(C) /\ Cardinality(C) = r.n
  BY <1>2, ColumnSize
<1>4. \A x : x \in C <=> \E j \in 1..r.n : x = <<m + 1, j>>
  OBVIOUS
<1>5. IsFiniteSet(PacketsOf(recs, k)) /\ Cardinality(PacketsOf(recs, k)) \in Nat
  BY FS_CardinalityType DEF AllFinite
<1> HIDE DEF all, m, C
<1>6. \A i : i \in 1..m + 1 <=> i \in 1..m \/ i = m + 1
  BY <1>2
<1>7. m + 1 \notin 1..m
  BY <1>2
<1>8. CASE r.key = k
  <2>1. ASSUME NEW x PROVE x \in PacketsOf(all, k) <=> x \in PacketsOf(recs, k) \/ x \in C
    BY <1>1, <1>2, <1>4, <1>6, <1>7, <1>8, PacketsOfAre, SMTT(30)
  <2>2. PacketsOf(all, k) = PacketsOf(recs, k) \cup C
    BY <2>1
  <2>3. PacketsOf(recs, k) \cap C = {}
    BY <1>2, <1>4, <1>7, PacketsOfAre
  <2> QED BY <1>3, <1>5, <1>8, <2>2, <2>3, DisjointSize, SMTT(30) DEF all
<1>9. CASE r.key # k
  <2>1. ASSUME NEW x PROVE x \in PacketsOf(all, k) <=> x \in PacketsOf(recs, k)
    BY <1>1, <1>2, <1>6, <1>7, <1>9, PacketsOfAre
  <2>2. PacketsOf(all, k) = PacketsOf(recs, k)
    BY <2>1
  <2> QED BY <1>5, <1>9, <2>2 DEF all
<1> QED BY <1>8, <1>9

LEMMA OneRecordLess ==
    ASSUME NEW recs \in Seq(OneRecord), NEW r \in OneRecord, NEW k \in FlowKeys, AllFinite(Append(recs, r))
    PROVE  /\ IsFiniteSet(PacketsOf(recs, k))
           /\ Cardinality(PacketsOf(recs, k)) <= Cardinality(PacketsOf(Append(recs, r), k))
<1> DEFINE all == Append(recs, r)
           m == Len(recs)
<1>1. /\ all \in Seq(OneRecord) /\ Len(all) = m + 1
      /\ \A i \in 1..m : all[i] = recs[i]
  BY AppendProperties
<1>2. DOMAIN all = 1..m + 1 /\ DOMAIN recs = 1..m /\ m \in Nat
  BY <1>1, SeqShape
<1>3. IsFiniteSet(PacketsOf(all, k))
  BY DEF AllFinite
<1> HIDE DEF all, m
<1>4. \A i \in 1..m : i \in 1..m + 1
  BY <1>2
<1>5. ASSUME NEW x, x \in PacketsOf(recs, k) PROVE x \in PacketsOf(all, k)
  BY <1>1, <1>2, <1>4, <1>5, PacketsOfAre
<1>6. PacketsOf(recs, k) \in SUBSET PacketsOf(all, k)
  BY <1>5
<1> QED BY <1>3, <1>6, FS_Subset DEF all

ClosesInto(recs, fl, k, all, remain) ==
    /\ recs \in Seq(OneRecord) /\ fl \in [FlowKeys -> OneFlow] /\ k \in FlowKeys
    /\ fl[k].n > 0 /\ AllFinite(recs) /\ Spans(recs, fl)
    /\ all = Append(recs, RowOf(k, fl[k])) /\ remain = [fl EXCEPT ![k] = NoFlow]

\* A flow that is closed becomes a record: nothing is lost, and spans stay in order.
LEMMA FlowClosed ==
    ASSUME NEW recs, NEW fl, NEW k, NEW all, NEW remain, ClosesInto(recs, fl, k, all, remain)
    PROVE  /\ all \in Seq(OneRecord) /\ remain \in [FlowKeys -> OneFlow]
           /\ AllFinite(all) /\ Spans(all, remain)
           /\ \A h \in FlowKeys : Tally(all, remain, h) = Tally(recs, fl, h)
<1>a. /\ recs \in Seq(OneRecord) /\ fl \in [FlowKeys -> OneFlow] /\ k \in FlowKeys
      /\ fl[k].n > 0 /\ AllFinite(recs) /\ Spans(recs, fl)
      /\ all = Append(recs, RowOf(k, fl[k])) /\ remain = [fl EXCEPT ![k] = NoFlow]
  BY DEF ClosesInto
<1> USE <1>a
<1> DEFINE r == RowOf(k, fl[k])
           m == Len(recs)
<1>1. r \in OneRecord /\ r.key = k /\ r.n = fl[k].n /\ r.first = fl[k].first /\ r.last = fl[k].last
  BY DEF RowOf, OneFlow, OneRecord
<1>2. NoFlow \in OneFlow /\ NoFlow.n = 0 /\ NoFlow.first = 0 /\ NoFlow.last = 0
  BY DEF NoFlow, OneFlow
<1>3. /\ remain \in [FlowKeys -> OneFlow] /\ remain[k] = NoFlow
      /\ \A h \in FlowKeys : h # k => remain[h] = fl[h]
  BY <1>2
<1>0. all = Append(recs, r)
  OBVIOUS
<1> HIDE DEF r
<1>4. /\ all \in Seq(OneRecord) /\ Len(all) = m + 1 /\ all[m + 1] = r
      /\ \A i \in 1..m : all[i] = recs[i]
  BY <1>0, <1>1, AppendProperties
<1>5. DOMAIN all = 1..m + 1 /\ DOMAIN recs = 1..m /\ m \in Nat
  BY <1>4, SeqShape
<1>6. \A h \in FlowKeys : /\ IsFiniteSet(PacketsOf(all, h))
                          /\ Cardinality(PacketsOf(all, h))
                               = Cardinality(PacketsOf(recs, h)) + (IF r.key = h THEN r.n ELSE 0)
  BY <1>0, <1>1, OneRecordMore
<1>7. \A h \in FlowKeys : Cardinality(PacketsOf(recs, h)) \in Nat /\ fl[h].n \in Nat
  BY FS_CardinalityType DEF AllFinite, OneFlow
<1>8. \A i \in 1..m : recs[i] \in OneRecord
  BY SeqShape
<1> HIDE DEF m
<1>9. \A h \in FlowKeys : Tally(all, remain, h) = Tally(recs, fl, h)
  <2> SUFFICES ASSUME NEW h \in FlowKeys PROVE Tally(all, remain, h) = Tally(recs, fl, h)
    OBVIOUS
  <2>1. CASE h = k
    BY <1>1, <1>2, <1>3, <1>6, <1>7, <2>1 DEF Tally
  <2>2. CASE h # k
    BY <1>1, <1>3, <1>6, <1>7, <2>2 DEF Tally
  <2> QED BY <2>1, <2>2
<1>10. \A i : i \in 1..m + 1 <=> i \in 1..m \/ i = m + 1
  BY <1>5
<1>11. Spans(all, remain)
  <2>1. ASSUME NEW i \in 1..m + 1
        PROVE  /\ all[i].first <= all[i].last
               /\ remain[all[i].key].n > 0 => all[i].last <= remain[all[i].key].first
    <3>1. CASE i \in 1..m
      <4>1. recs[i].key \in FlowKeys /\ all[i] = recs[i]
        BY <1>4, <1>8, <3>1 DEF OneRecord
      <4>2. CASE recs[i].key = k
        BY <1>2, <1>3, <1>5, <3>1, <4>1, <4>2 DEF Spans
      <4>3. CASE recs[i].key # k
        BY <1>3, <1>5, <3>1, <4>1, <4>3 DEF Spans
      <4> QED BY <4>2, <4>3
    <3>2. CASE i = m + 1
      BY <1>1, <1>2, <1>3, <1>4, <3>2 DEF Spans
    <3> QED BY <1>10, <3>1, <3>2
  <2>2. ASSUME NEW i \in 1..m + 1, NEW j \in 1..m + 1, i < j, all[i].key = all[j].key
        PROVE  all[i].last <= all[j].first
    <3>1. i \in 1..m
      BY <1>5, <2>2
    <3>2. CASE j \in 1..m
      BY <1>4, <1>5, <2>2, <3>1, <3>2 DEF Spans
    <3>3. CASE j = m + 1
      BY <1>1, <1>4, <1>5, <2>2, <3>1, <3>3 DEF Spans
    <3> QED BY <1>10, <3>2, <3>3
  <2>3. ASSUME NEW h \in FlowKeys PROVE remain[h].first <= remain[h].last
    BY <1>2, <1>3 DEF Spans
  <2> QED BY <1>5, <2>1, <2>2, <2>3 DEF Spans
<1>12. AllFinite(all)
  BY <1>6 DEF AllFinite
<1> QED BY <1>3, <1>4, <1>9, <1>11, <1>12

CountsInto(recs, fl, k, at, more) ==
    /\ recs \in Seq(OneRecord) /\ fl \in [FlowKeys -> OneFlow] /\ k \in FlowKeys /\ at \in Nat
    /\ AllFinite(recs) /\ Spans(recs, fl) /\ fl[k].last <= at /\ \A i \in DOMAIN recs : recs[i].last <= at
    /\ more = [fl EXCEPT ![k] = Counted(fl[k], at)]

\* A packet that is counted into its flow: one more, and not before what was counted already.
LEMMA FlowCounted ==
    ASSUME NEW recs, NEW fl, NEW k, NEW at, NEW more, CountsInto(recs, fl, k, at, more)
    PROVE  /\ more \in [FlowKeys -> OneFlow] /\ more[k] = Counted(fl[k], at) /\ more[k].n > 0
           /\ more[k].last = at /\ more[k].first \in {at, fl[k].first}
           /\ Spans(recs, more)
           /\ \A h \in FlowKeys : Tally(recs, more, h) = Tally(recs, fl, h) + (IF h = k THEN 1 ELSE 0)
<1>0. /\ recs \in Seq(OneRecord) /\ fl \in [FlowKeys -> OneFlow] /\ k \in FlowKeys /\ at \in Nat
      /\ AllFinite(recs) /\ Spans(recs, fl) /\ fl[k].last <= at /\ (\A i \in DOMAIN recs : recs[i].last <= at)
      /\ more = [fl EXCEPT ![k] = Counted(fl[k], at)]
  BY DEF CountsInto
<1> USE <1>0
<1> DEFINE new == Counted(fl[k], at)
<1>1. fl[k].n \in Nat /\ fl[k].first \in Nat /\ fl[k].last \in Nat /\ fl[k].first <= fl[k].last
  BY DEF OneFlow, Spans
<1>2. /\ new \in OneFlow /\ new.n = fl[k].n + 1 /\ new.last = at
      /\ new.first = IF fl[k].n = 0 THEN at ELSE fl[k].first
  BY <1>1 DEF Counted, OneFlow
<1> HIDE DEF new
<1>3. /\ more \in [FlowKeys -> OneFlow] /\ more[k] = new
      /\ \A h \in FlowKeys : h # k => more[h] = fl[h]
  BY <1>2 DEF new
<1>4. \A h \in FlowKeys : Cardinality(PacketsOf(recs, h)) \in Nat /\ fl[h].n \in Nat
  BY FS_CardinalityType DEF AllFinite, OneFlow
<1>5. \A h \in FlowKeys : Tally(recs, more, h) = Tally(recs, fl, h) + (IF h = k THEN 1 ELSE 0)
  <2> SUFFICES ASSUME NEW h \in FlowKeys
               PROVE  Tally(recs, more, h) = Tally(recs, fl, h) + (IF h = k THEN 1 ELSE 0)
    OBVIOUS
  <2>1. CASE h = k
    BY <1>2, <1>3, <1>4, <2>1 DEF Tally
  <2>2. CASE h # k
    BY <1>3, <1>4, <2>2 DEF Tally
  <2> QED BY <2>1, <2>2
<1>6. Spans(recs, more)
  <2>1. ASSUME NEW i \in DOMAIN recs
        PROVE  more[recs[i].key].n > 0 => recs[i].last <= more[recs[i].key].first
    <3>1. recs[i].key \in FlowKeys /\ recs[i].last \in Nat
      <4>1. recs[i] \in OneRecord
        BY SeqShape
      <4> QED BY <4>1 DEF OneRecord
    <3>2. CASE recs[i].key = k
      <4>1. recs[i].last <= at /\ (fl[k].n > 0 => recs[i].last <= fl[k].first)
        BY <3>2 DEF Spans
      <4> QED BY <1>1, <1>2, <1>3, <3>2, <4>1
    <3>3. CASE recs[i].key # k
      BY <1>3, <3>1, <3>3 DEF Spans
    <3> QED BY <3>2, <3>3
  <2>2. ASSUME NEW h \in FlowKeys PROVE more[h].first <= more[h].last
    <3>1. CASE h = k
      BY <1>1, <1>2, <1>3, <3>1
    <3>2. CASE h # k
      BY <1>3, <3>2 DEF Spans
    <3> QED BY <3>1, <3>2
  <2> QED BY <2>1, <2>2 DEF Spans
<1>7. new.n > 0 /\ new.first \in {at, fl[k].first}
  BY <1>1, <1>2
<1> QED BY <1>2, <1>3, <1>5, <1>6, <1>7 DEF new

\* The inductive invariant: who waits does so in the order of capture, nothing that was
\* counted is later than what waits, and a flow that is to be closed has packets.
Packet == [key : FlowKeys, at : 0..MaxTick, fin : BOOLEAN]
FlowTypes ==
    /\ tick \in 0..MaxTick /\ flowFaults \in 0..MaxFlowFaults
    /\ captured \in Seq(Packet) /\ Len(captured) <= MaxPackets
    /\ flows \in [FlowKeys -> [n : Nat, first : 0..MaxTick, last : 0..MaxTick]]
    /\ flowTurn \in Seq([packet : Nat, now : Nat])
    /\ flowRows \in Seq(OneRecord)
    /\ closing \in [record : Seq(OneRecord), rest : SUBSET FlowKeys]
    /\ closing.record = <<>> \/ \E r \in OneRecord : closing.record = <<r>>

QueueInOrder ==
    /\ \A i \in DOMAIN flowTurn : flowTurn[i].packet \in 0..Len(captured)
    /\ \A i, j \in DOMAIN flowTurn :
        i < j /\ flowTurn[i].packet # 0 /\ flowTurn[j].packet # 0 => flowTurn[i].packet < flowTurn[j].packet
    /\ \A i, j \in DOMAIN captured : i <= j => captured[i].at <= captured[j].at
    /\ \A i \in DOMAIN captured : captured[i].at <= tick

Past(t) ==
    t <= tick /\ \A i \in DOMAIN flowTurn : flowTurn[i].packet # 0 => t <= captured[flowTurn[i].packet].at

CountedIsPast ==
    (\A i \in DOMAIN Closed : Past(Closed[i].last)) /\ (\A k \in FlowKeys : Past(flows[k].last))

RowsSound ==
    /\ \A k \in closing.rest : flows[k].n > 0
    /\ AllFinite(Closed) /\ Spans(Closed, flows)
    /\ \A k \in FlowKeys :
        /\ Tally(Closed, flows, k) <= Cardinality(CountedOf(k))
        /\ flowFaults = 0 => Tally(Closed, flows, k) = Cardinality(CountedOf(k))

FlowsInv == FlowTypes /\ QueueInOrder /\ CountedIsPast /\ RowsSound

LEMMA FlowsInvInit == CaptureInit => FlowsInv
<1> SUFFICES ASSUME CaptureInit PROVE FlowsInv
  OBVIOUS
<1>1. /\ tick = 0 /\ captured = <<>> /\ flowTurn = <<>> /\ flowRows = <<>> /\ flowFaults = 0
      /\ flows = [k \in FlowKeys |-> NoFlow] /\ closing.record = <<>> /\ closing.rest = {}
      /\ closing = [record |-> <<>>, rest |-> {}]
  BY DEF CaptureInit, NoClosing
<1>2. MaxTick \in Nat /\ MaxFlowFaults \in Nat /\ MaxPackets \in Nat
  BY CaptureAssumption
<1>3. Closed = <<>> /\ DOMAIN Closed = {} /\ DOMAIN captured = {} /\ DOMAIN flowTurn = {} /\ Len(captured) = 0
  BY <1>1 DEF Closed
<1>4. \A k \in FlowKeys : flows[k].n = 0 /\ flows[k].first = 0 /\ flows[k].last = 0
  BY <1>1 DEF NoFlow
<1>5. \A k \in FlowKeys : PacketsOf(Closed, k) = {} /\ CountedOf(k) = {}
  BY <1>3 DEF PacketsOf, CountedOf
<1>6. FlowTypes
  <2>1. NoFlow \in [n : Nat, first : 0..MaxTick, last : 0..MaxTick] /\ 0 \in 0..MaxTick /\ 0 \in 0..MaxFlowFaults
    BY <1>2 DEF NoFlow
  <2>2. captured \in Seq(Packet) /\ flowRows \in Seq(OneRecord) /\ flowTurn \in Seq([packet : Nat, now : Nat])
    BY <1>1, EmptySeq
  <2> QED BY <1>1, <1>2, <1>3, <2>1, <2>2, EmptySeq DEF FlowTypes
<1>7. QueueInOrder /\ CountedIsPast
  BY <1>1, <1>3, <1>4 DEF QueueInOrder, CountedIsPast, Past
<1>8. RowsSound
  <2>1. Cardinality({}) = 0 /\ IsFiniteSet({})
    BY FS_EmptySet
  <2>2. \A k \in FlowKeys : Tally(Closed, flows, k) = 0 /\ Cardinality(CountedOf(k)) = 0
    BY <1>4, <1>5, <2>1 DEF Tally
  <2>3. AllFinite(Closed) /\ Spans(Closed, flows)
    <3>1. AllFinite(Closed)
      BY <1>5, <2>1 DEF AllFinite
    <3>2. \A k \in FlowKeys : flows[k].first <= flows[k].last
      BY <1>4
    <3> QED BY <1>3, <3>1, <3>2 DEF Spans
  <2> QED BY <1>1, <2>2, <2>3 DEF RowsSound
<1> QED BY <1>6, <1>7, <1>8 DEF FlowsInv

\* The packets that were handled can be counted.
LEMMA HandledSize ==
    ASSUME FlowTypes, NEW k \in FlowKeys
    PROVE  /\ IsFiniteSet(CountedOf(k)) /\ Cardinality(CountedOf(k)) \in Nat
           /\ Cardinality(CountedOf(k)) <= Len(captured) /\ Len(captured) \in Nat
<1>1. Len(captured) \in Nat /\ DOMAIN captured = 1..Len(captured)
  BY SeqShape DEF FlowTypes
<1>2. IsFiniteSet(1..Len(captured)) /\ Cardinality(1..Len(captured)) = Len(captured)
  <2>1. /\ IsFiniteSet(1..Len(captured))
        /\ Cardinality(1..Len(captured)) = IF 1 > Len(captured) THEN 0 ELSE Len(captured) - 1 + 1
    BY <1>1, FS_Interval
  <2> QED BY <1>1, <2>1
<1>3. CountedOf(k) \in SUBSET (1..Len(captured))
  BY <1>1 DEF CountedOf
<1> QED BY <1>1, <1>2, <1>3, FS_Subset, FS_CardinalityType

LEMMA ClosedShape ==
    ASSUME FlowTypes
    PROVE  Closed \in Seq(OneRecord) /\ Len(Closed) \in Nat /\ DOMAIN Closed = 1..Len(Closed)
           /\ \A i \in DOMAIN Closed : Closed[i] \in OneRecord
<1>1. Closed \in Seq(OneRecord)
  BY ConcatProperties DEF FlowTypes, Closed
<1> QED BY <1>1, SeqShape

\* A step that leaves the flows and their records alone.
LEMMA RowsStay ==
    ASSUME RowsSound, UNCHANGED <<flows, flowRows, flowFaults>>, closing'.record = closing.record,
           \A k \in FlowKeys : CountedOf(k)' = CountedOf(k),
           \A k \in closing'.rest : flows[k].n > 0
    PROVE  RowsSound'
<1>1. Closed' = Closed
  BY DEF Closed
<1>2. AllFinite(Closed)' /\ Spans(Closed, flows)'
  BY <1>1 DEF RowsSound, AllFinite, PacketsOf, Spans
<1>3. \A k \in FlowKeys : Tally(Closed, flows, k)' = Tally(Closed, flows, k)
  BY <1>1 DEF Tally, PacketsOf
<1> QED BY <1>2, <1>3 DEF RowsSound

\* The same of the times, if the clock does not go back and nothing earlier waits.
LEMMA PastStays ==
    ASSUME CountedIsPast, UNCHANGED <<flows, flowRows>>, closing'.record = closing.record,
           \A t \in Int : Past(t) => Past(t)', FlowTypes
    PROVE  CountedIsPast'
<1>1. Closed' = Closed
  BY DEF Closed
<1>2. \A i \in DOMAIN Closed : Closed[i].last \in Int
  BY ClosedShape DEF OneRecord
<1>3. \A k \in FlowKeys : flows[k].last \in Int
  BY DEF FlowTypes
<1> QED BY <1>1, <1>2, <1>3 DEF CountedIsPast

LEMMA TickKeeps == FlowsInv /\ ClockTicks => FlowsInv'
<1> SUFFICES ASSUME FlowsInv, ClockTicks PROVE FlowsInv'
  OBVIOUS
<1>1. /\ tick < MaxTick /\ tick' = tick + 1
      /\ UNCHANGED <<captured, flowTurn, flows, closing, flowRows, flowFaults>>
  BY DEF ClockTicks
<1>2. FlowTypes'
  BY <1>1, CaptureAssumption DEF FlowsInv, FlowTypes
<1>3. tick \in Int /\ \A i \in DOMAIN captured : captured[i].at \in Int
  <2>1. captured \in Seq(Packet) /\ tick \in 0..MaxTick
    BY DEF FlowsInv, FlowTypes
  <2>2. \A i \in DOMAIN captured : captured[i] \in Packet
    BY <2>1, SeqShape
  <2> QED BY <2>1, <2>2 DEF Packet
<1>4. QueueInOrder'
  BY <1>1, <1>3 DEF FlowsInv, QueueInOrder
<1>5. CountedIsPast'
  <2>1. \A t \in Int : Past(t) => Past(t)'
    BY <1>1, <1>3 DEF Past
  <2> QED BY <1>1, <2>1, PastStays DEF FlowsInv
<1>6. RowsSound'
  <2>1. \A k \in FlowKeys : CountedOf(k)' = CountedOf(k)
    BY <1>1 DEF CountedOf, Waiting
  <2> QED BY <1>1, <2>1, RowsStay DEF FlowsInv, RowsSound
<1> QED BY <1>2, <1>4, <1>5, <1>6 DEF FlowsInv

LEMMA SniffKeeps == FlowsInv /\ Sniffs => FlowsInv'
<1> SUFFICES ASSUME FlowsInv, Sniffs PROVE FlowsInv'
  OBVIOUS
<1> DEFINE m == Len(captured)
           w == Len(flowTurn)
<1>1. PICK pkt \in Packet : pkt.at = tick /\ captured' = Append(captured, pkt)
  <2>1. PICK k \in FlowKeys, fin \in BOOLEAN : captured' = Append(captured, [key |-> k, at |-> tick, fin |-> fin])
    BY DEF Sniffs
  <2> QED BY <2>1 DEF FlowsInv, FlowTypes, Packet
<1>2. /\ m < MaxPackets /\ UNCHANGED <<tick, flows, closing, flowRows, flowFaults>>
      /\ flowTurn' = Append(flowTurn, [packet |-> Len(captured'), now |-> 0])
  BY DEF Sniffs
<1>3. captured \in Seq(Packet) /\ flowTurn \in Seq([packet : Nat, now : Nat])
  BY DEF FlowsInv, FlowTypes
<1>4. /\ captured' \in Seq(Packet) /\ Len(captured') = m + 1 /\ captured'[m + 1] = pkt /\ m \in Nat
      /\ (\A i \in 1..m : captured'[i] = captured[i]) /\ DOMAIN captured' = 1..m + 1 /\ DOMAIN captured = 1..m
  BY <1>1, <1>3, AppendProperties, SeqShape
<1>5. /\ flowTurn' \in Seq([packet : Nat, now : Nat]) /\ Len(flowTurn') = w + 1 /\ w \in Nat
      /\ flowTurn'[w + 1].packet = m + 1
      /\ (\A i \in 1..w : flowTurn'[i] = flowTurn[i]) /\ DOMAIN flowTurn' = 1..w + 1 /\ DOMAIN flowTurn = 1..w
  <2>1. [packet |-> Len(captured'), now |-> 0] \in [packet : Nat, now : Nat]
    BY <1>4
  <2> QED BY <1>2, <1>3, <1>4, <2>1, AppendProperties, SeqShape
<1>6. /\ \A i \in 1..w : flowTurn[i].packet \in 0..m
      /\ \A i \in 1..m : captured[i].at \in Nat /\ captured[i].at <= tick
      /\ tick \in Nat
  <2>1. \A i \in 1..w : flowTurn[i].packet \in 0..m
    BY <1>5 DEF FlowsInv, QueueInOrder
  <2>2. \A i \in 1..m : captured[i] \in Packet
    BY <1>3, SeqShape
  <2>3. \A i \in 1..m : captured[i].at \in Nat /\ captured[i].at <= tick
    BY <1>4, <2>2 DEF FlowsInv, QueueInOrder, Packet
  <2> QED BY <2>1, <2>3 DEF FlowsInv, FlowTypes
<1> HIDE DEF m, w
<1>7. /\ \A i : i \in 1..m + 1 <=> i \in 1..m \/ i = m + 1
      /\ \A i : i \in 1..w + 1 <=> i \in 1..w \/ i = w + 1
  BY <1>4, <1>5
<1>8. FlowTypes'
  <2>1. m + 1 <= MaxPackets
    BY <1>2, <1>4, CaptureAssumption DEF m
  <2> QED BY <1>2, <1>4, <1>5, <2>1 DEF FlowsInv, FlowTypes
<1>9. QueueInOrder'
  <2>1. ASSUME NEW i \in 1..w + 1 PROVE flowTurn'[i].packet \in 0..m + 1
    BY <1>4, <1>5, <1>6, <1>7, SMTT(30)
  <2>2. ASSUME NEW i \in 1..w + 1, NEW j \in 1..w + 1, i < j, flowTurn'[i].packet # 0, flowTurn'[j].packet # 0
        PROVE  flowTurn'[i].packet < flowTurn'[j].packet
    <3>1. i \in 1..w
      BY <1>5, <2>2
    <3>2. CASE j \in 1..w
      BY <1>5, <2>2, <3>1, <3>2 DEF FlowsInv, QueueInOrder
    <3>3. CASE j = w + 1
      BY SMTT(30), <1>4, <1>5, <1>6, <3>1, <3>3
    <3> QED BY <1>7, <3>2, <3>3
  <2>3. ASSUME NEW i \in 1..m + 1, NEW j \in 1..m + 1, i <= j PROVE captured'[i].at <= captured'[j].at
    <3>1. CASE j \in 1..m
      <4>1. i \in 1..m
        BY <1>4, <2>3, <3>1
      <4> QED BY <1>4, <2>3, <3>1, <4>1 DEF FlowsInv, QueueInOrder
    <3>2. CASE j = m + 1
      BY <1>1, <1>4, <1>6, <1>7, <3>2
    <3> QED BY <1>7, <3>1, <3>2
  <2>4. ASSUME NEW i \in 1..m + 1 PROVE captured'[i].at <= tick'
    BY <1>1, <1>2, <1>4, <1>6, <1>7
  <2> QED BY <1>4, <1>5, <2>1, <2>2, <2>3, <2>4 DEF QueueInOrder
<1>10. CountedIsPast'
  <2>1. ASSUME NEW t \in Int, Past(t) PROVE Past(t)'
    <3> SUFFICES ASSUME NEW i \in 1..w + 1, flowTurn'[i].packet # 0
                 PROVE  t <= captured'[flowTurn'[i].packet].at
      BY <1>2, <1>5, <2>1 DEF Past
    <3>1. CASE i \in 1..w
      <4>1. flowTurn'[i] = flowTurn[i] /\ flowTurn[i].packet \in 1..m
        BY <1>4, <1>5, <1>6, <3>1
      <4> QED BY <1>4, <1>5, <2>1, <3>1, <4>1 DEF Past
    <3>2. CASE i = w + 1
      BY <1>1, <1>4, <1>5, <2>1, <3>2 DEF Past
    <3> QED BY <1>7, <3>1, <3>2
  <2> QED BY <1>2, <2>1, PastStays DEF FlowsInv
<1>11. RowsSound'
  <2>1. ASSUME NEW k \in FlowKeys PROVE CountedOf(k)' = CountedOf(k)
    <3>1. ASSUME NEW i \in 1..m PROVE i \in Waiting' <=> i \in Waiting
      <4>1. i # m + 1
        BY <1>4
      <4> QED BY <1>5, <1>7, <4>1 DEF Waiting
    <3>2. m + 1 \in Waiting'
      BY <1>5, <1>7 DEF Waiting
    <3>3. ASSUME NEW x PROVE x \in CountedOf(k)' <=> x \in CountedOf(k)
      BY <1>4, <1>7, <3>1, <3>2 DEF CountedOf
    <3> QED BY <3>3 DEF CountedOf
  <2> QED BY <1>2, <2>1, RowsStay DEF FlowsInv, RowsSound
<1> QED BY <1>8, <1>9, <1>10, <1>11 DEF FlowsInv

LEMMA CheckKeeps == FlowsInv /\ ChecksTimeouts => FlowsInv'
<1> SUFFICES ASSUME FlowsInv, ChecksTimeouts PROVE FlowsInv'
  OBVIOUS
<1> DEFINE w == Len(flowTurn)
<1>1. /\ UNCHANGED <<tick, captured, flows, closing, flowRows, flowFaults>>
      /\ flowTurn' = Append(flowTurn, [packet |-> 0, now |-> tick])
  BY DEF ChecksTimeouts
<1>2. flowTurn \in Seq([packet : Nat, now : Nat]) /\ tick \in 0..MaxTick /\ captured \in Seq(Packet)
  BY DEF FlowsInv, FlowTypes
<1>3. /\ flowTurn' \in Seq([packet : Nat, now : Nat]) /\ Len(flowTurn') = w + 1 /\ w \in Nat
      /\ flowTurn'[w + 1].packet = 0
      /\ (\A i \in 1..w : flowTurn'[i] = flowTurn[i]) /\ DOMAIN flowTurn' = 1..w + 1 /\ DOMAIN flowTurn = 1..w
  <2>1. [packet |-> 0, now |-> tick] \in [packet : Nat, now : Nat]
    BY <1>2
  <2> QED BY <1>1, <1>2, <2>1, AppendProperties, SeqShape
<1> HIDE DEF w
<1>4. \A i : i \in 1..w + 1 <=> i \in 1..w \/ i = w + 1
  BY <1>3
<1>5. Len(captured) \in Nat /\ DOMAIN captured = 1..Len(captured) /\ 0 \notin DOMAIN captured
  BY <1>2, SeqShape
<1>6. FlowTypes'
  BY <1>1, <1>3 DEF FlowsInv, FlowTypes
<1>7. QueueInOrder'
  <2>1. ASSUME NEW i \in 1..w + 1 PROVE flowTurn'[i].packet \in 0..Len(captured)
    <3>1. CASE i \in 1..w
      BY <1>3, <3>1 DEF FlowsInv, QueueInOrder
    <3>2. CASE i = w + 1
      BY <1>3, <1>5, <3>2
    <3> QED BY <1>4, <3>1, <3>2
  <2>2. ASSUME NEW i \in 1..w + 1, NEW j \in 1..w + 1, i < j, flowTurn'[i].packet # 0, flowTurn'[j].packet # 0
        PROVE  flowTurn'[i].packet < flowTurn'[j].packet
    <3>1. i \in 1..w /\ j \in 1..w
      BY <1>3, <1>4, <2>2
    <3> QED BY <1>3, <2>2, <3>1 DEF FlowsInv, QueueInOrder
  <2> QED BY <1>1, <1>3, <2>1, <2>2 DEF FlowsInv, QueueInOrder
<1>8. CountedIsPast'
  <2>1. \A t \in Int : Past(t) => Past(t)'
    BY <1>1, <1>3, <1>4 DEF Past
  <2> QED BY <1>1, <2>1, PastStays DEF FlowsInv
<1>9. RowsSound'
  <2>1. ASSUME NEW k \in FlowKeys PROVE CountedOf(k)' = CountedOf(k)
    <3>1. ASSUME NEW i \in DOMAIN captured PROVE i \in Waiting' <=> i \in Waiting
      BY <1>3, <1>4, <1>5 DEF Waiting
    <3>2. ASSUME NEW x PROVE x \in CountedOf(k)' <=> x \in CountedOf(k)
      BY <1>1, <3>1 DEF CountedOf
    <3> QED BY <3>2 DEF CountedOf
  <2> QED BY <1>1, <2>1, RowsStay DEF FlowsInv, RowsSound
<1> QED BY <1>6, <1>7, <1>8, <1>9 DEF FlowsInv

\* The one that waits longest takes its turn.
LEMMA TurnTaken ==
    ASSUME FlowsInv, flowTurn # <<>>, flowTurn' = Tail(flowTurn), UNCHANGED <<captured, tick>>
    PROVE  LET w == Len(flowTurn) IN
           /\ w \in Nat \ {0} /\ Head(flowTurn) = flowTurn[1] /\ DOMAIN flowTurn = 1..w
           /\ flowTurn' \in Seq([packet : Nat, now : Nat]) /\ DOMAIN flowTurn' = 1..w - 1
           /\ \A i \in 1..w - 1 : flowTurn'[i] = flowTurn[i + 1]
           /\ QueueInOrder' /\ (\A t \in Int : Past(t) => Past(t)')
           /\ Waiting = Waiting' \cup {flowTurn[1].packet}
<1> DEFINE w == Len(flowTurn)
<1>1. flowTurn \in Seq([packet : Nat, now : Nat])
  BY DEF FlowsInv, FlowTypes
<1>2. w \in Nat \ {0} /\ DOMAIN flowTurn = 1..w /\ Head(flowTurn) = flowTurn[1]
  BY <1>1, EmptySeq, SeqShape
<1>3. /\ flowTurn' \in Seq([packet : Nat, now : Nat]) /\ Len(flowTurn') = w - 1 /\ DOMAIN flowTurn' = 1..w - 1
      /\ \A i \in 1..w - 1 : flowTurn'[i] = flowTurn[i + 1]
  BY <1>1, HeadTailProperties, SeqShape
<1> HIDE DEF w
<1>4. \A i \in 1..w - 1 : i + 1 \in 1..w
  BY <1>2
<1>5. QueueInOrder'
  <2>1. \A i \in 1..w - 1 : flowTurn'[i].packet \in 0..Len(captured)
    BY <1>2, <1>3, <1>4 DEF FlowsInv, QueueInOrder
  <2>2. ASSUME NEW i \in 1..w - 1, NEW j \in 1..w - 1, i < j, flowTurn'[i].packet # 0, flowTurn'[j].packet # 0
        PROVE  flowTurn'[i].packet < flowTurn'[j].packet
    <3>1. i + 1 < j + 1
      BY <2>2
    <3> QED BY <1>2, <1>3, <1>4, <2>2, <3>1 DEF FlowsInv, QueueInOrder
  <2> QED BY <1>3, <2>1, <2>2 DEF FlowsInv, QueueInOrder
<1>6. \A t \in Int : Past(t) => Past(t)'
  BY <1>2, <1>3, <1>4, SMTT(30) DEF Past
<1>7. Waiting = Waiting' \cup {flowTurn[1].packet}
  <2>1. \A i \in 1..w : i = 1 \/ (i - 1 \in 1..w - 1 /\ flowTurn'[i - 1] = flowTurn[i])
    BY <1>2, <1>3
  <2>2. \A x : x \in Waiting' <=> \E i \in 1..w - 1 : x = flowTurn[i + 1].packet
    BY <1>3 DEF Waiting
  <2>3. \A x \in Waiting : x \in Waiting' \cup {flowTurn[1].packet}
    <3> SUFFICES ASSUME NEW i \in 1..w PROVE flowTurn[i].packet \in Waiting' \cup {flowTurn[1].packet}
      BY <1>2 DEF Waiting
    <3>1. CASE i = 1
      BY <3>1
    <3>2. CASE i # 1
      BY <1>3, <2>1, <3>2 DEF Waiting
    <3> QED BY <3>1, <3>2
  <2>4. \A x \in Waiting' \cup {flowTurn[1].packet} : x \in Waiting
    BY <1>2, <1>4, <2>2 DEF Waiting
  <2> QED BY <2>3, <2>4
<1> QED BY <1>2, <1>3, <1>5, <1>6, <1>7 DEF w

LEMMA FindKeeps == FlowsInv /\ FindsTimeouts => FlowsInv'
<1> SUFFICES ASSUME FlowsInv, FindsTimeouts PROVE FlowsInv'
  OBVIOUS
<1>1. /\ closing = NoClosing /\ flowTurn # <<>> /\ Head(flowTurn).packet = 0 /\ flowTurn' = Tail(flowTurn)
      /\ UNCHANGED <<tick, captured, flows, flowRows, flowFaults>>
      /\ closing'.record = <<>> /\ closing' = [record |-> <<>>, rest |-> closing'.rest]
      /\ \A k \in closing'.rest : k \in FlowKeys /\ flows[k].n > 0
  BY DEF FindsTimeouts, FlowLockFree
<1>2. /\ flowTurn' \in Seq([packet : Nat, now : Nat]) /\ QueueInOrder'
      /\ (\A t \in Int : Past(t) => Past(t)') /\ Waiting = Waiting' \cup {0}
  BY <1>1, TurnTaken
<1>3. FlowTypes'
  <2>1. closing' \in [record : Seq(OneRecord), rest : SUBSET FlowKeys]
    BY <1>1, EmptySeq
  <2> QED BY <1>1, <1>2, <2>1 DEF FlowsInv, FlowTypes
<1>4. closing'.record = closing.record
  BY <1>1 DEF NoClosing
<1>5. CountedIsPast'
  BY <1>1, <1>2, <1>4, PastStays DEF FlowsInv
<1>6. RowsSound'
  <2>1. ASSUME NEW k \in FlowKeys PROVE CountedOf(k)' = CountedOf(k)
    <3>1. 0 \notin DOMAIN captured
      BY SeqShape DEF FlowsInv, FlowTypes
    <3> QED BY <1>1, <1>2, <3>1 DEF CountedOf
  <2> QED BY <1>1, <1>4, <2>1, RowsStay DEF FlowsInv
<1> QED BY <1>2, <1>3, <1>5, <1>6 DEF FlowsInv

LEMMA CountKeeps == FlowsInv /\ CountsPacket => FlowsInv'
<1> SUFFICES ASSUME FlowsInv, CountsPacket PROVE FlowsInv'
  OBVIOUS
<1>1. PICK p, pkt, key, at : p = Head(flowTurn).packet /\ pkt = captured[p] /\ key = pkt.key /\ at = pkt.at
  OBVIOUS
<1>2. PICK fl, recs, more : fl = flows /\ recs = flowRows /\ more = [fl EXCEPT ![key] = Counted(fl[key], at)]
  OBVIOUS
<1>3. /\ closing = NoClosing /\ flowTurn # <<>> /\ p # 0 /\ flowTurn' = Tail(flowTurn)
      /\ UNCHANGED <<tick, captured, flowRows, flowFaults>>
      /\ flows' = [fl EXCEPT ![key] = IF pkt.fin THEN NoFlow ELSE Counted(fl[key], at)]
      /\ closing' = IF pkt.fin THEN [record |-> RecordOf(key, Counted(fl[key], at)), rest |-> {}] ELSE NoClosing
  BY <1>1, <1>2 DEF CountsPacket, FlowLockFree
<1>4. /\ flowTurn' \in Seq([packet : Nat, now : Nat]) /\ DOMAIN flowTurn' = 1..Len(flowTurn) - 1
      /\ Len(flowTurn) \in Nat \ {0} /\ DOMAIN flowTurn = 1..Len(flowTurn) /\ p = flowTurn[1].packet
      /\ \A i \in 1..Len(flowTurn) - 1 : flowTurn'[i] = flowTurn[i + 1]
      /\ QueueInOrder' /\ (\A t \in Int : Past(t) => Past(t)') /\ Waiting = Waiting' \cup {p}
  BY <1>1, <1>3, TurnTaken
<1>5. /\ p \in DOMAIN captured /\ captured \in Seq(Packet) /\ DOMAIN captured = 1..Len(captured)
      /\ tick \in 0..MaxTick
  <2>1. captured \in Seq(Packet) /\ DOMAIN captured = 1..Len(captured) /\ Len(captured) \in Nat
    BY SeqShape DEF FlowsInv, FlowTypes
  <2>2. 1 \in DOMAIN flowTurn
    BY <1>4
  <2>3. p \in 0..Len(captured)
    BY <1>4, <2>2 DEF FlowsInv, QueueInOrder
  <2> QED BY <1>3, <2>1, <2>3 DEF FlowsInv, FlowTypes
<1>6. pkt \in Packet /\ key \in FlowKeys /\ at \in 0..MaxTick /\ at \in Nat /\ pkt.fin \in BOOLEAN
  <2>1. pkt \in Packet
    BY <1>1, <1>5, SeqShape
  <2> QED BY <1>1, <2>1 DEF Packet
<1>7. /\ recs \in Seq(OneRecord) /\ Closed = recs
      /\ fl \in [FlowKeys -> OneFlow] /\ fl \in [FlowKeys -> [n : Nat, first : 0..MaxTick, last : 0..MaxTick]]
  <2>1. flowRows \in Seq(OneRecord) /\ flows \in [FlowKeys -> [n : Nat, first : 0..MaxTick, last : 0..MaxTick]]
    BY DEF FlowsInv, FlowTypes
  <2>2. Closed = recs
    BY <1>2, <1>3, <2>1, ConcatEmptySeq DEF Closed, NoClosing
  <2>3. \A f \in [n : Nat, first : 0..MaxTick, last : 0..MaxTick] : f \in OneFlow
    BY DEF OneFlow
  <2>4. \A k \in FlowKeys : fl[k] \in OneFlow
    BY <1>2, <2>1, <2>3
  <2> QED BY <1>2, <2>1, <2>2, <2>4
<1>8. \A q \in Waiting' : q = 0 \/ p < q
  <2> SUFFICES ASSUME NEW i \in 1..Len(flowTurn) - 1, flowTurn'[i].packet # 0 PROVE p < flowTurn'[i].packet
    BY <1>4 DEF Waiting
  <2>1. 1 < i + 1 /\ i + 1 \in DOMAIN flowTurn /\ 1 \in DOMAIN flowTurn
    BY <1>4
  <2> QED BY <1>3, <1>4, <2>1 DEF FlowsInv, QueueInOrder
<1>9. Past(at)'
  <2>1. at <= tick'
    BY <1>1, <1>3, <1>5 DEF FlowsInv, QueueInOrder
  <2>2. ASSUME NEW i \in DOMAIN flowTurn', flowTurn'[i].packet # 0
        PROVE  at <= captured'[flowTurn'[i].packet].at
    <3>1. flowTurn'[i].packet \in Waiting' /\ p < flowTurn'[i].packet
      BY <1>8, <2>2 DEF Waiting
    <3>2. flowTurn'[i].packet \in 1..Len(captured)
      BY <1>3, <1>4, <1>5, <2>2, SMTT(30) DEF QueueInOrder
    <3>3. p <= flowTurn'[i].packet
      BY <1>5, <3>1, <3>2
    <3> QED BY <1>1, <1>3, <1>5, <3>2, <3>3 DEF FlowsInv, QueueInOrder
  <2> QED BY <2>1, <2>2 DEF Past
<1>10. ASSUME NEW t, Past(t) PROVE t <= at
  <2>1. 1 \in DOMAIN flowTurn
    BY <1>4
  <2> QED BY <1>1, <1>3, <1>4, <1>10, <2>1 DEF Past
<1>11. fl[key].last <= at /\ \A i \in DOMAIN recs : recs[i].last <= at
  BY <1>2, <1>6, <1>7, <1>10 DEF FlowsInv, CountedIsPast
<1>12. AllFinite(recs) /\ Spans(recs, fl)
  BY <1>2, <1>7 DEF FlowsInv, RowsSound
<1>13. /\ more \in [FlowKeys -> OneFlow] /\ more[key] = Counted(fl[key], at) /\ more[key].n > 0
       /\ more[key].last = at /\ more[key].first \in {at, fl[key].first}
       /\ Spans(recs, more)
       /\ \A h \in FlowKeys : Tally(recs, more, h) = Tally(recs, fl, h) + (IF h = key THEN 1 ELSE 0)
  <2>1. CountsInto(recs, fl, key, at, more)
    BY <1>2, <1>6, <1>7, <1>11, <1>12 DEF CountsInto
  <2> QED BY <2>1, FlowCounted
<1>14. \A h \in FlowKeys : h # key => more[h] = fl[h]
  BY <1>2, <1>6, <1>7
<1>15. more \in [FlowKeys -> [n : Nat, first : 0..MaxTick, last : 0..MaxTick]]
  <2>1. fl[key].first \in 0..MaxTick
    BY <1>6, <1>7
  <2>2. more[key] \in [n : Nat, first : 0..MaxTick, last : 0..MaxTick]
    <3>1. more[key] \in OneFlow /\ more[key].first \in 0..MaxTick /\ more[key].last \in 0..MaxTick
      BY <1>6, <1>13, <2>1
    <3> QED BY <3>1 DEF OneFlow
  <2>3. \A h \in FlowKeys : more[h] \in [n : Nat, first : 0..MaxTick, last : 0..MaxTick]
    BY <1>7, <1>14, <2>2
  <2> QED BY <1>13, <2>3
<1>16. PICK all, remain : /\ all = (IF pkt.fin THEN Append(recs, RowOf(key, more[key])) ELSE recs)
                        /\ remain = (IF pkt.fin THEN [more EXCEPT ![key] = NoFlow] ELSE more)
  OBVIOUS
<1>17. /\ all \in Seq(OneRecord) /\ AllFinite(all) /\ Spans(all, remain)
       /\ \A h \in FlowKeys : Tally(all, remain, h) = Tally(recs, more, h)
  <2>1. CASE pkt.fin
    <3>1. all = Append(recs, RowOf(key, more[key])) /\ remain = [more EXCEPT ![key] = NoFlow]
      BY <1>16, <2>1
    <3>2. ClosesInto(recs, more, key, all, remain)
      BY <1>6, <1>7, <1>12, <1>13, <3>1 DEF ClosesInto
    <3> QED BY <3>2, FlowClosed
  <2>2. CASE ~pkt.fin
    BY <1>7, <1>12, <1>13, <1>16, <2>2
  <2> QED BY <2>1, <2>2
<1>18. flows' = remain
  <2>1. CASE pkt.fin
    <3>1. flows' = [fl EXCEPT ![key] = NoFlow] /\ remain = [more EXCEPT ![key] = NoFlow]
      BY <1>3, <1>16, <2>1
    <3> QED BY <1>2, <1>7, <3>1
  <2>2. CASE ~pkt.fin
    BY <1>2, <1>3, <1>16, <2>2
  <2> QED BY <2>1, <2>2
<1>19. /\ Closed' = all /\ closing' \in [record : Seq(OneRecord), rest : SUBSET FlowKeys] /\ closing'.rest = {}
       /\ closing'.record = <<>> \/ \E r \in OneRecord : closing'.record = <<r>>
  <2>1. CASE pkt.fin
    <3>1. PICK r : r = RowOf(key, more[key])
      OBVIOUS
    <3>2. r \in OneRecord
      BY <1>6, <1>13, <3>1 DEF RowOf, OneFlow, OneRecord
    <3>3. closing' = [record |-> <<r>>, rest |-> {}]
      BY <1>3, <1>13, <2>1, <3>1 DEF RecordOf, RowOf
    <3>4. <<r>> \in Seq(OneRecord) /\ recs \o <<r>> = Append(recs, r)
      BY <1>7, <3>2, AppendIsConcat
    <3>5. Closed' = all
      <4>1. all = recs \o <<r>> /\ flowRows' = recs
        BY <1>2, <1>3, <1>16, <2>1, <3>1, <3>4
      <4>2. closing'.record = <<r>>
        BY <3>3
      <4> QED BY <4>1, <4>2 DEF Closed
    <3> QED BY <3>2, <3>3, <3>4, <3>5
  <2>2. CASE ~pkt.fin
    <3>1. closing' = [record |-> <<>>, rest |-> {}] /\ <<>> \in Seq(OneRecord)
      BY <1>3, <2>2, EmptySeq DEF NoClosing
    <3>2. Closed' = all
      BY <1>2, <1>3, <1>7, <1>16, <2>2, <3>1, ConcatEmptySeq DEF Closed
    <3> QED BY <3>1, <3>2
  <2> QED BY <1>6, <2>1, <2>2
<1>20. FlowTypes'
  <2>1. NoFlow \in [n : Nat, first : 0..MaxTick, last : 0..MaxTick]
    BY CaptureAssumption DEF NoFlow
  <2>2. remain \in [FlowKeys -> [n : Nat, first : 0..MaxTick, last : 0..MaxTick]]
    BY <1>6, <1>15, <1>16, <2>1
  <2> QED BY <1>3, <1>4, <1>18, <1>19, <2>2 DEF FlowsInv, FlowTypes
<1>21. CountedIsPast'
  <2>1. \A k \in FlowKeys : Past(fl[k].last)' /\ fl[k].last \in Int
    BY <1>2, <1>4, <1>7 DEF FlowsInv, CountedIsPast
  <2>2. \A i \in DOMAIN recs : Past(recs[i].last)' /\ recs[i].last \in Int
    <3>1. \A i \in DOMAIN recs : recs[i].last \in Int
      <4>1. \A i \in DOMAIN recs : recs[i] \in OneRecord
        BY <1>7, SeqShape
      <4> QED BY <4>1 DEF OneRecord
    <3> QED BY <1>4, <1>7, <3>1 DEF FlowsInv, CountedIsPast
  <2>3. Past(0)'
    <3>1. 0 <= tick /\ Past(0)
      <4>1. \A i \in DOMAIN captured : 0 <= captured[i].at
        <5>1. \A i \in DOMAIN captured : captured[i] \in Packet
          BY <1>5, SeqShape
        <5> QED BY <5>1 DEF Packet
      <4>2. \A i \in DOMAIN flowTurn : flowTurn[i].packet # 0 => flowTurn[i].packet \in DOMAIN captured
        BY <1>5, SeqShape DEF FlowsInv, QueueInOrder
      <4> QED BY <1>5, <4>1, <4>2 DEF Past
    <3> QED BY <1>4, <3>1
  <2>4. ASSUME NEW k \in FlowKeys PROVE Past(remain[k].last)'
    <3>1. CASE k = key /\ pkt.fin
      BY <1>6, <1>13, <1>16, <2>3, <3>1 DEF NoFlow
    <3>2. CASE k = key /\ ~pkt.fin
      BY <1>9, <1>13, <1>16, <3>2
    <3>3. CASE k # key
      <4>1. remain[k] = fl[k]
        BY <1>13, <1>14, <1>16, <3>3
      <4> QED BY <2>1, <4>1
    <3> QED BY <1>6, <3>1, <3>2, <3>3
  <2>5. ASSUME NEW i \in DOMAIN all PROVE Past(all[i].last)'
    <3>1. CASE pkt.fin
      <4>1. PICK r : r = RowOf(key, more[key])
        OBVIOUS
      <4>2. r \in OneRecord /\ r.last = at
        BY <1>6, <1>13, <4>1 DEF RowOf, OneFlow, OneRecord
      <4>3. all = Append(recs, r)
        BY <1>16, <3>1, <4>1
      <4>4. /\ DOMAIN all = 1..Len(recs) + 1 /\ DOMAIN recs = 1..Len(recs) /\ all[Len(recs) + 1] = r
            /\ Len(recs) \in Nat /\ \A j \in 1..Len(recs) : all[j] = recs[j]
        BY <1>7, <1>17, <4>2, <4>3, AppendProperties, SeqShape
      <4>5. i \in DOMAIN recs \/ i = Len(recs) + 1
        BY <4>4
      <4>6. CASE i \in DOMAIN recs
        BY <2>2, <4>4, <4>6
      <4>7. CASE i = Len(recs) + 1
        BY <1>9, <4>2, <4>4, <4>7
      <4> QED BY <4>5, <4>6, <4>7
    <3>2. CASE ~pkt.fin
      BY <1>16, <2>2, <3>2
    <3> QED BY <1>6, <3>1, <3>2
  <2> QED BY <1>18, <1>19, <2>4, <2>5 DEF CountedIsPast
<1>22. RowsSound'
  <2>1. ASSUME NEW k \in FlowKeys
        PROVE  Cardinality(CountedOf(k)') = Cardinality(CountedOf(k)) + (IF k = key THEN 1 ELSE 0)
    <3>1. p \in Waiting /\ p \notin Waiting'
      BY <1>3, <1>4, <1>5, <1>8
    <3>2. \A x : x \in DOMAIN captured \ Waiting' <=> x \in DOMAIN captured \ Waiting \/ x = p
      BY <1>4, <1>5, <3>1
    <3>3. CASE k = key
      <4>1. CountedOf(k)' = CountedOf(k) \cup {p} /\ p \notin CountedOf(k)
        BY <1>1, <1>3, <1>5, <3>1, <3>2, <3>3 DEF CountedOf
      <4> QED BY <3>3, <4>1, HandledSize, FS_AddElement DEF FlowsInv
    <3>4. CASE k # key
      <4>1. CountedOf(k)' = CountedOf(k)
        BY <1>1, <1>3, <1>5, <3>2, <3>4 DEF CountedOf
      <4>2. Cardinality(CountedOf(k)) \in Nat
        BY HandledSize DEF FlowsInv
      <4> QED BY <3>4, <4>1, <4>2
    <3> QED BY <3>3, <3>4
  <2>2. ASSUME NEW k \in FlowKeys
        PROVE  /\ Tally(all, remain, k) <= Cardinality(CountedOf(k)')
               /\ flowFaults = 0 => Tally(all, remain, k) = Cardinality(CountedOf(k)')
    <3>1. /\ Tally(recs, fl, k) <= Cardinality(CountedOf(k))
          /\ flowFaults = 0 => Tally(recs, fl, k) = Cardinality(CountedOf(k))
      BY <1>2, <1>7 DEF FlowsInv, RowsSound
    <3>2. Tally(all, remain, k) = Tally(recs, fl, k) + (IF k = key THEN 1 ELSE 0)
      BY <1>13, <1>17
    <3>3. Tally(recs, fl, k) \in Nat
      BY <1>7, <1>12, FS_CardinalityType DEF Tally, AllFinite, OneFlow
    <3>4. Cardinality(CountedOf(k)) \in Nat
      BY HandledSize DEF FlowsInv
    <3> QED BY <2>1, <3>1, <3>2, <3>3, <3>4
  <2>3. \A k \in FlowKeys : Tally(Closed, flows, k)' = Tally(all, remain, k)
    BY <1>18, <1>19 DEF Tally, PacketsOf
  <2>4. AllFinite(Closed)' /\ Spans(Closed, flows)'
    BY <1>17, <1>18, <1>19 DEF AllFinite, PacketsOf, Spans
  <2> QED BY <1>3, <1>19, <2>2, <2>3, <2>4 DEF RowsSound
<1> QED BY <1>4, <1>20, <1>21, <1>22 DEF FlowsInv

LEMMA CloseKeeps == ASSUME FlowsInv, NEW k \in FlowKeys, ClosesNext(k) PROVE FlowsInv'
<1>1. /\ closing.record = <<>> /\ k \in closing.rest
      /\ closing' = [record |-> RecordOf(k, flows[k]), rest |-> closing.rest \ {k}]
      /\ flows' = [flows EXCEPT ![k] = NoFlow]
      /\ UNCHANGED <<tick, captured, flowTurn, flowRows, flowFaults>>
  BY DEF ClosesNext
<1>2. PICK fl, recs, r, all, remain :
        /\ fl = flows /\ recs = flowRows /\ r = RowOf(k, fl[k]) /\ all = Append(recs, RowOf(k, fl[k]))
        /\ remain = [fl EXCEPT ![k] = NoFlow]
  OBVIOUS
<1>3. /\ flowRows \in Seq(OneRecord) /\ closing \in [record : Seq(OneRecord), rest : SUBSET FlowKeys]
      /\ flows \in [FlowKeys -> [n : Nat, first : 0..MaxTick, last : 0..MaxTick]]
      /\ captured \in Seq(Packet) /\ tick \in 0..MaxTick
  BY DEF FlowsInv, FlowTypes
<1>4. Closed = recs /\ recs \in Seq(OneRecord) /\ fl \in [FlowKeys -> OneFlow]
  <2>1. Closed = recs
    BY <1>1, <1>2, <1>3, ConcatEmptySeq DEF Closed
  <2>2. \A f \in [n : Nat, first : 0..MaxTick, last : 0..MaxTick] : f \in OneFlow
    BY DEF OneFlow
  <2> QED BY <1>2, <1>3, <2>1, <2>2
<1>5. /\ fl[k].n > 0 /\ AllFinite(recs) /\ Spans(recs, fl)
      /\ \A h \in closing.rest : fl[h].n > 0
      /\ \A h \in FlowKeys : /\ Tally(recs, fl, h) <= Cardinality(CountedOf(h))
                             /\ flowFaults = 0 => Tally(recs, fl, h) = Cardinality(CountedOf(h))
  BY <1>1, <1>2, <1>4 DEF FlowsInv, RowsSound
<1>6. /\ all \in Seq(OneRecord) /\ remain \in [FlowKeys -> OneFlow] /\ AllFinite(all) /\ Spans(all, remain)
      /\ \A h \in FlowKeys : Tally(all, remain, h) = Tally(recs, fl, h)
  <2>1. ClosesInto(recs, fl, k, all, remain)
    BY <1>2, <1>4, <1>5 DEF ClosesInto
  <2> QED BY <2>1, FlowClosed
<1>7. r \in OneRecord /\ r.last = fl[k].last
  BY <1>2, <1>4 DEF RowOf, OneFlow, OneRecord
<1>8. closing'.record = <<r>> /\ closing'.rest = closing.rest \ {k} /\ flows' = remain
  BY <1>1, <1>2 DEF RecordOf, RowOf
<1>9. Closed' = all
  <2>1. recs \o <<r>> = Append(recs, r)
    BY <1>4, <1>7, AppendIsConcat
  <2> QED BY <1>1, <1>2, <1>8, <2>1 DEF Closed
<1>10. FlowTypes'
  <2>1. NoFlow \in [n : Nat, first : 0..MaxTick, last : 0..MaxTick]
    BY CaptureAssumption DEF NoFlow
  <2>2. flows' \in [FlowKeys -> [n : Nat, first : 0..MaxTick, last : 0..MaxTick]]
    BY <1>1, <1>3, <2>1
  <2>3. closing' \in [record : Seq(OneRecord), rest : SUBSET FlowKeys]
    <3>1. <<r>> \in Seq(OneRecord)
      BY <1>7
    <3> QED BY <1>1, <1>3, <1>8, <3>1
  <2> QED BY <1>1, <1>7, <1>8, <2>2, <2>3 DEF FlowsInv, FlowTypes
<1>11. QueueInOrder'
  BY <1>1 DEF FlowsInv, QueueInOrder
<1>12. CountedIsPast'
  <2>1. \A t : Past(t)' <=> Past(t)
    BY <1>1 DEF Past
  <2>2. Past(0)
    <3>1. \A i \in DOMAIN captured : 0 <= captured[i].at
      <4>1. \A i \in DOMAIN captured : captured[i] \in Packet
        BY <1>3, SeqShape
      <4> QED BY <4>1 DEF Packet
    <3>2. \A i \in DOMAIN flowTurn : flowTurn[i].packet # 0 => flowTurn[i].packet \in DOMAIN captured
      BY <1>3, SeqShape DEF FlowsInv, QueueInOrder
    <3> QED BY <1>3, <3>1, <3>2 DEF Past
  <2>3. (\A h \in FlowKeys : Past(fl[h].last)) /\ \A i \in DOMAIN recs : Past(recs[i].last)
    BY <1>2, <1>4 DEF FlowsInv, CountedIsPast
  <2>4. ASSUME NEW h \in FlowKeys PROVE Past(remain[h].last)
    <3>1. CASE h = k
      BY <1>2, <1>4, <2>2, <3>1 DEF NoFlow
    <3>2. CASE h # k
      BY <1>2, <1>4, <2>3, <3>2
    <3> QED BY <3>1, <3>2
  <2>5. ASSUME NEW i \in DOMAIN all PROVE Past(all[i].last)
    <3>1. /\ DOMAIN all = 1..Len(recs) + 1 /\ DOMAIN recs = 1..Len(recs) /\ all[Len(recs) + 1] = r
          /\ Len(recs) \in Nat /\ \A j \in 1..Len(recs) : all[j] = recs[j]
      BY <1>2, <1>4, <1>6, <1>7, AppendProperties, SeqShape
    <3>2. i \in DOMAIN recs \/ i = Len(recs) + 1
      BY <3>1
    <3>3. CASE i \in DOMAIN recs
      BY <2>3, <3>1, <3>3
    <3>4. CASE i = Len(recs) + 1
      BY <1>7, <2>3, <3>1, <3>4
    <3> QED BY <3>2, <3>3, <3>4
  <2> QED BY <1>8, <1>9, <2>1, <2>4, <2>5 DEF CountedIsPast
<1>13. RowsSound'
  <2>1. \A h \in FlowKeys : CountedOf(h)' = CountedOf(h)
    BY <1>1 DEF CountedOf, Waiting
  <2>2. \A h \in FlowKeys : Tally(Closed, flows, h)' = Tally(all, remain, h)
    BY <1>8, <1>9 DEF Tally, PacketsOf
  <2>3. AllFinite(Closed)' /\ Spans(Closed, flows)'
    BY <1>6, <1>8, <1>9 DEF AllFinite, PacketsOf, Spans
  <2>4. \A h \in closing'.rest : flows'[h].n > 0
    BY <1>2, <1>3, <1>4, <1>5, <1>8
  <2> QED BY <1>1, <1>5, <1>6, <2>1, <2>2, <2>3, <2>4 DEF RowsSound
<1> QED BY <1>10, <1>11, <1>12, <1>13 DEF FlowsInv

LEMMA StoreKeeps == FlowsInv /\ StoresFlow => FlowsInv'
<1> SUFFICES ASSUME FlowsInv, StoresFlow PROVE FlowsInv'
  OBVIOUS
<1>1. /\ closing.record # <<>> /\ UNCHANGED <<tick, captured, flowTurn, flows>>
      /\ closing' = [closing EXCEPT !.record = <<>>]
      /\ \/ flowRows' = flowRows \o closing.record /\ flowFaults' = flowFaults
         \/ flowRows' = flowRows /\ flowFaults < MaxFlowFaults /\ flowFaults' = flowFaults + 1
  BY DEF StoresFlow, RowRefused
<1>2. /\ flowRows \in Seq(OneRecord) /\ closing \in [record : Seq(OneRecord), rest : SUBSET FlowKeys]
      /\ flowFaults \in 0..MaxFlowFaults /\ MaxFlowFaults \in Nat
  BY CaptureAssumption DEF FlowsInv, FlowTypes
<1>3. PICK r \in OneRecord : closing.record = <<r>>
  BY <1>1 DEF FlowsInv, FlowTypes
<1>4. PICK recs, all : recs = flowRows /\ all = Append(flowRows, r)
  OBVIOUS
<1>5. recs \in Seq(OneRecord) /\ all \in Seq(OneRecord) /\ Closed = all /\ Closed \in Seq(OneRecord)
  <2>1. flowRows \o <<r>> = Append(flowRows, r) /\ Append(flowRows, r) \in Seq(OneRecord)
    BY <1>2, <1>3, AppendIsConcat, AppendProperties
  <2> QED BY <1>2, <1>3, <1>4, <2>1 DEF Closed
<1>6. closing' \in [record : Seq(OneRecord), rest : SUBSET FlowKeys] /\ closing'.record = <<>> /\ closing'.rest = closing.rest
  <2>1. <<>> \in Seq(OneRecord)
    BY EmptySeq
  <2> QED BY <1>1, <1>2, <2>1
<1>7. FlowTypes'
  <2>1. flowRows' \in Seq(OneRecord)
    BY <1>1, <1>2, <1>3, <1>5 DEF Closed
  <2>2. flowFaults' \in 0..MaxFlowFaults
    BY <1>1, <1>2
  <2> QED BY <1>1, <1>6, <2>1, <2>2 DEF FlowsInv, FlowTypes
<1>8. QueueInOrder'
  BY <1>1 DEF FlowsInv, QueueInOrder
<1>9. Closed' = flowRows'
  BY <1>6, <1>7, ConcatEmptySeq DEF Closed, FlowTypes
<1>10. \A k \in FlowKeys : CountedOf(k)' = CountedOf(k)
  BY <1>1 DEF CountedOf, Waiting
<1>11. \A t : Past(t)' <=> Past(t)
  BY <1>1 DEF Past
<1>12. CASE flowRows' = flowRows \o closing.record /\ flowFaults' = flowFaults
  <2>1. Closed' = Closed
    BY <1>9, <1>12 DEF Closed
  <2>2. CountedIsPast'
    BY <1>1, <1>11, <2>1 DEF FlowsInv, CountedIsPast
  <2>3. AllFinite(Closed)' /\ Spans(Closed, flows)'
    BY <1>1, <2>1 DEF FlowsInv, RowsSound, AllFinite, PacketsOf, Spans
  <2>4. \A k \in FlowKeys : Tally(Closed, flows, k)' = Tally(Closed, flows, k)
    BY <1>1, <2>1 DEF Tally, PacketsOf
  <2>5. RowsSound'
    BY <1>1, <1>6, <1>10, <1>12, <2>3, <2>4 DEF FlowsInv, RowsSound
  <2> QED BY <1>7, <1>8, <2>2, <2>5 DEF FlowsInv
<1>13. CASE flowRows' = flowRows /\ flowFaults' = flowFaults + 1
  <2>1. Closed' = recs
    BY <1>4, <1>9, <1>13
  <2>2. /\ DOMAIN all = 1..Len(recs) + 1 /\ DOMAIN recs = 1..Len(recs) /\ Len(recs) \in Nat
        /\ \A i \in 1..Len(recs) : all[i] = recs[i]
    BY <1>4, <1>5, AppendProperties, SeqShape
  <2>3. \A i \in DOMAIN recs : i \in DOMAIN all /\ all[i] = recs[i]
    BY <2>2
  <2>4. CountedIsPast'
    BY <1>1, <1>5, <1>11, <2>1, <2>3 DEF FlowsInv, CountedIsPast
  <2>5. AllFinite(all) /\ Spans(all, flows)
    BY <1>5 DEF FlowsInv, RowsSound
  <2>6. \A k \in FlowKeys : /\ IsFiniteSet(PacketsOf(recs, k))
                            /\ Cardinality(PacketsOf(recs, k)) <= Cardinality(PacketsOf(all, k))
    BY <1>4, <1>5, <2>5, OneRecordLess
  <2>7. AllFinite(Closed)'
    BY <2>1, <2>6 DEF AllFinite, PacketsOf
  <2>8. Spans(recs, flows)
    BY <2>3, <2>5 DEF Spans
  <2>9. Spans(Closed, flows)'
    BY <1>1, <2>1, <2>8 DEF Spans
  <2>10. ASSUME NEW k \in FlowKeys PROVE Tally(Closed, flows, k)' <= Cardinality(CountedOf(k)')
    <3>1. Tally(Closed, flows, k)' = Tally(recs, flows, k)
      BY <1>1, <2>1 DEF Tally, PacketsOf
    <3>2. Tally(all, flows, k) <= Cardinality(CountedOf(k)) /\ Cardinality(CountedOf(k)) \in Nat
      BY <1>5, HandledSize DEF FlowsInv, RowsSound
    <3>3. /\ Cardinality(PacketsOf(recs, k)) \in Nat /\ Cardinality(PacketsOf(all, k)) \in Nat
          /\ flows[k].n \in Nat
      BY <2>5, <2>6, FS_CardinalityType DEF AllFinite, FlowsInv, FlowTypes
    <3> QED BY <1>10, <2>6, <3>1, <3>2, <3>3 DEF Tally
  <2>11. RowsSound'
    BY <1>1, <1>2, <1>6, <1>13, <2>7, <2>9, <2>10 DEF FlowsInv, RowsSound
  <2> QED BY <1>7, <1>8, <2>4, <2>11 DEF FlowsInv
<1> QED BY <1>1, <1>12, <1>13

LEMMA FlowsInvStep == FlowsInv /\ [CaptureNext]_captureVars => FlowsInv'
<1>1. ASSUME FlowsInv, UNCHANGED captureVars PROVE FlowsInv'
  <2>1. FlowTypes' /\ QueueInOrder'
    BY <1>1 DEF captureVars, FlowsInv, FlowTypes, QueueInOrder
  <2>2. CountedIsPast'
    BY <1>1 DEF captureVars, FlowsInv, CountedIsPast, Past, Closed
  <2>3. RowsSound'
    <3>1. \A k \in FlowKeys : CountedOf(k)' = CountedOf(k)
      BY <1>1 DEF captureVars, CountedOf, Waiting
    <3> QED BY <1>1, <3>1, RowsStay DEF captureVars, FlowsInv, RowsSound
  <2> QED BY <2>1, <2>2, <2>3 DEF FlowsInv
<1> QED BY <1>1, TickKeeps, SniffKeeps, CheckKeeps, CountKeeps, FindKeeps, CloseKeeps, StoreKeeps DEF CaptureNext

LEMMA FlowsInvSound == FlowsInv => FlowsCounted
<1> SUFFICES ASSUME FlowsInv PROVE FlowsCounted
  OBVIOUS
<1>1. \A k \in FlowKeys : InRecords(k) = PacketsOf(Closed, k)
  BY DEF InRecords, PacketsOf
<1>2. EveryPacketCounted
  BY <1>1 DEF FlowsInv, RowsSound, Tally, EveryPacketCounted
<1>3. SpansInOrder
  BY DEF FlowsInv, RowsSound, Spans, SpansInOrder
<1>4. CaptureTypeOK
  <2>1. ASSUME NEW k \in FlowKeys PROVE flows[k].n \in 0..MaxPackets
    <3>1. /\ Cardinality(CountedOf(k)) <= Len(captured) /\ Cardinality(CountedOf(k)) \in Nat
          /\ Len(captured) \in Nat /\ Len(captured) <= MaxPackets
      BY HandledSize DEF FlowsInv, FlowTypes
    <3>2. /\ Cardinality(PacketsOf(Closed, k)) \in Nat /\ flows[k].n \in Nat
          /\ Cardinality(PacketsOf(Closed, k)) + flows[k].n <= Cardinality(CountedOf(k))
      BY FS_CardinalityType DEF FlowsInv, FlowTypes, RowsSound, AllFinite, Tally
    <3> QED BY <3>1, <3>2, CaptureAssumption
  <2>2. flows \in [FlowKeys -> [n : 0..MaxPackets, first : 0..MaxTick, last : 0..MaxTick]]
    <3>1. flows \in [FlowKeys -> [n : Nat, first : 0..MaxTick, last : 0..MaxTick]]
      BY DEF FlowsInv, FlowTypes
    <3>2. \A k \in FlowKeys : flows[k] \in [n : 0..MaxPackets, first : 0..MaxTick, last : 0..MaxTick]
      BY <2>1, <3>1
    <3> QED BY <3>1, <3>2
  <2> QED BY <2>2 DEF FlowsInv, FlowTypes, CaptureTypeOK, Packet
<1> QED BY <1>2, <1>3, <1>4 DEF FlowsCounted

-----------------------------------------------------------------------------
(* The files of captured packets *)

File == [packets : Seq(1..MaxWritten), told : 0..MaxWritten]

FilesInv ==
    /\ sniffed \in 0..MaxWritten /\ rotating \in BOOLEAN /\ metaFaults \in 0..MaxMetaFaults
    /\ files \in Seq(File) /\ open \in Seq(1..MaxWritten) /\ fileTurn \in Seq(1..MaxWritten)
    /\ rotating => open # <<>>
    /\ FilesHoldAll

LEMMA FilesInvInit == PcapInit => FilesInv
<1> SUFFICES ASSUME PcapInit PROVE FilesInv
  OBVIOUS
<1>1. files = <<>> /\ open = <<>> /\ fileTurn = <<>> /\ sniffed = 0 /\ metaFaults = 0 /\ rotating = FALSE
  BY DEF PcapInit
<1>2. open \o fileTurn = <<>> /\ Len(files) = 0 /\ DOMAIN files = {} /\ DOMAIN (open \o fileTurn) = {}
  BY <1>1
<1>3. Cardinality({i \in DOMAIN files : files[i].told # Len(files[i].packets)}) = 0
  BY <1>2, FS_EmptySet
<1>4. FilesHoldAll
  BY <1>1, <1>2, <1>3 DEF FilesHoldAll, Follow, UpTo
<1>5. 0 \in 0..MaxWritten /\ 0 \in 0..MaxMetaFaults
  BY PcapAssumption
<1>6. files \in Seq(File) /\ open \in Seq(1..MaxWritten) /\ fileTurn \in Seq(1..MaxWritten)
  BY <1>1, EmptySeq
<1> QED BY <1>1, <1>4, <1>5, <1>6 DEF FilesInv

\* What waits behind the files: the packets that are in the open file, and those in the queue.
LEMMA OpenAndWaiting ==
    ASSUME FilesInv
    PROVE  LET s == open \o fileTurn IN
           /\ s \in Seq(1..MaxWritten) /\ Len(s) = Len(open) + Len(fileTurn) /\ DOMAIN s = 1..Len(s)
           /\ UpTo(Len(files)) \in Nat /\ Len(files) \in Nat /\ Len(open) \in Nat /\ Len(fileTurn) \in Nat
           /\ \A i \in 1..Len(s) : s[i] = UpTo(Len(files)) + i
           /\ \A i \in 1..Len(open) : open[i] = UpTo(Len(files)) + i
           /\ \A i \in 1..Len(fileTurn) : fileTurn[i] = UpTo(Len(files)) + Len(open) + i
<1> DEFINE s == open \o fileTurn
<1>1. open \in Seq(1..MaxWritten) /\ fileTurn \in Seq(1..MaxWritten) /\ files \in Seq(File)
  BY DEF FilesInv
<1>2. /\ s \in Seq(1..MaxWritten) /\ Len(s) = Len(open) + Len(fileTurn)
      /\ \A i \in 1..Len(s) : s[i] = IF i <= Len(open) THEN open[i] ELSE fileTurn[i - Len(open)]
  BY <1>1, ConcatProperties
<1>3. Len(open) \in Nat /\ Len(fileTurn) \in Nat /\ DOMAIN s = 1..Len(s) /\ Len(files) \in Nat
  BY <1>1, <1>2, SeqShape
<1>4. UpTo(Len(files)) \in Nat
  <2>1. CASE Len(files) = 0
    BY <2>1 DEF UpTo
  <2>2. CASE Len(files) # 0
    <3>1. Len(files) \in DOMAIN files /\ files[Len(files)] \in File
      BY <1>1, <1>3, <2>2, SeqShape
    <3>2. files[Len(files)].packets # <<>> /\ files[Len(files)].packets \in Seq(1..MaxWritten)
      BY <3>1 DEF FilesInv, FilesHoldAll, File
    <3>3. files[Len(files)].packets[Len(files[Len(files)].packets)] \in 1..MaxWritten
      <4> DEFINE p == files[Len(files)].packets
      <4>1. p \in Seq(1..MaxWritten) /\ Len(p) \in Nat /\ Len(p) # 0
        BY <3>2, SeqShape, EmptySeq
      <4>2. Len(p) \in 1..Len(p)
        BY <4>1
      <4> QED BY <4>1, <4>2, SeqShape
    <3> QED BY <2>2, <3>3 DEF UpTo
  <2> QED BY <2>1, <2>2
<1>5. \A i \in 1..Len(s) : s[i] = UpTo(Len(files)) + i
  BY <1>3 DEF FilesInv, FilesHoldAll, Follow
<1> HIDE DEF s
<1>6. ASSUME NEW i \in 1..Len(open) PROVE open[i] = UpTo(Len(files)) + i
  <2>1. i \in 1..Len(s) /\ i <= Len(open)
    BY <1>2, <1>3
  <2> QED BY <1>2, <1>5, <2>1
<1>7. ASSUME NEW i \in 1..Len(fileTurn) PROVE fileTurn[i] = UpTo(Len(files)) + Len(open) + i
  <2>1. Len(open) + i \in 1..Len(s) /\ ~(Len(open) + i <= Len(open)) /\ (Len(open) + i) - Len(open) = i
    BY <1>2, <1>3
  <2>2. s[Len(open) + i] = fileTurn[i] /\ s[Len(open) + i] = UpTo(Len(files)) + (Len(open) + i)
    BY <1>2, <1>5, <2>1
  <2> QED BY <1>3, <1>4, <2>2
<1> QED BY <1>2, <1>3, <1>4, <1>5, <1>6, <1>7 DEF s

\* Two parts of a sequence that counts on.
LEMMA CountsOn ==
    ASSUME NEW S, NEW a \in Seq(S), NEW b \in Seq(S), NEW n \in Nat,
           \A i \in 1..Len(a) : a[i] = n + i,
           \A i \in 1..Len(b) : b[i] = n + Len(a) + i
    PROVE  Follow(a \o b, n) /\ Len(a \o b) = Len(a) + Len(b)
<1> DEFINE s == a \o b
<1>1. /\ s \in Seq(S) /\ Len(s) = Len(a) + Len(b) /\ Len(a) \in Nat /\ Len(b) \in Nat
      /\ \A i \in 1..Len(s) : s[i] = IF i <= Len(a) THEN a[i] ELSE b[i - Len(a)]
  BY ConcatProperties, SeqShape
<1>2. DOMAIN s = 1..Len(s)
  BY <1>1, SeqShape
<1> HIDE DEF s
<1>3. ASSUME NEW i \in 1..Len(s) PROVE s[i] = n + i
  <2>1. CASE i <= Len(a)
    BY <1>1, <2>1
  <2>2. CASE ~(i <= Len(a))
    <3>1. i - Len(a) \in 1..Len(b)
      BY <1>1, <2>2
    <3>2. s[i] = b[i - Len(a)] /\ b[i - Len(a)] = n + Len(a) + (i - Len(a))
      BY <1>1, <2>2, <3>1
    <3> QED BY <1>1, <3>2
  <2> QED BY <2>1, <2>2
<1> QED BY <1>1, <1>2, <1>3 DEF Follow, s

LEMMA ScheduleKeeps == FilesInv /\ SchedulesWrite => FilesInv'
<1> SUFFICES ASSUME FilesInv, SchedulesWrite PROVE FilesInv'
  OBVIOUS
<1>1. /\ sniffed < MaxWritten /\ sniffed' = sniffed + 1 /\ fileTurn' = Append(fileTurn, sniffed + 1)
      /\ open' = open /\ rotating' = rotating /\ files' = files /\ metaFaults' = metaFaults
  BY DEF SchedulesWrite
<1>2. /\ sniffed \in 0..MaxWritten /\ open \in Seq(1..MaxWritten) /\ fileTurn \in Seq(1..MaxWritten)
      /\ MaxWritten \in Nat
  BY PcapAssumption DEF FilesInv
<1>3. sniffed' \in 0..MaxWritten /\ sniffed + 1 \in 1..MaxWritten
  BY <1>1, <1>2
<1>4. PICK n, t : n = UpTo(Len(files)) /\ t = Append(fileTurn, sniffed + 1)
  OBVIOUS
<1>5. /\ t \in Seq(1..MaxWritten) /\ Len(t) = Len(fileTurn) + 1 /\ t[Len(fileTurn) + 1] = sniffed + 1
      /\ \A i \in 1..Len(fileTurn) : t[i] = fileTurn[i]
  BY <1>2, <1>3, <1>4, AppendProperties
<1>6. /\ n \in Nat /\ Len(open) \in Nat /\ Len(fileTurn) \in Nat
      /\ \A i \in 1..Len(open) : open[i] = n + i
      /\ \A i \in 1..Len(fileTurn) : fileTurn[i] = n + Len(open) + i
      /\ n + Len(open) + Len(fileTurn) = sniffed
  BY <1>4, OpenAndWaiting DEF FilesInv, FilesHoldAll
<1>7. ASSUME NEW i \in 1..Len(t) PROVE t[i] = n + Len(open) + i
  <2>1. i \in 1..Len(fileTurn) \/ i = Len(fileTurn) + 1
    BY <1>5, <1>6
  <2>2. CASE i \in 1..Len(fileTurn)
    BY <1>5, <1>6, <2>2
  <2>3. CASE i = Len(fileTurn) + 1
    BY <1>5, <1>6, <2>3
  <2> QED BY <2>1, <2>2, <2>3
<1>8. Follow(open \o t, n) /\ Len(open \o t) = Len(open) + Len(t)
  BY <1>2, <1>5, <1>6, <1>7, CountsOn
<1>9. UpTo(Len(files))' = n /\ fileTurn' = t
  BY <1>1, <1>4 DEF UpTo
<1>10. FilesHoldAll'
  <2>1. Follow(open \o fileTurn, UpTo(Len(files)))' /\ (UpTo(Len(files)) + Len(open \o fileTurn) = sniffed)'
    BY <1>1, <1>5, <1>6, <1>8, <1>9, SMTT(30) DEF Follow
  <2>2. (\A i \in DOMAIN files : files[i].packets # <<>> /\ Follow(files[i].packets, UpTo(i - 1)))'
    BY <1>1 DEF FilesInv, FilesHoldAll, Follow, UpTo
  <2>3. (Cardinality({i \in DOMAIN files : files[i].told # Len(files[i].packets)}) <= metaFaults)'
    BY <1>1 DEF FilesInv, FilesHoldAll
  <2> QED BY <2>1, <2>2, <2>3 DEF FilesHoldAll
<1> QED BY <1>1, <1>3, <1>5, <1>9, <1>10 DEF FilesInv

LEMMA WriteKeeps == FilesInv /\ WritesPacket => FilesInv'
<1> SUFFICES ASSUME FilesInv, WritesPacket PROVE FilesInv'
  OBVIOUS
<1>1. /\ fileTurn # <<>> /\ open' = Append(open, Head(fileTurn)) /\ fileTurn' = Tail(fileTurn)
      /\ sniffed' = sniffed /\ files' = files /\ metaFaults' = metaFaults
  BY DEF WritesPacket, FileLockFree
<1>2. /\ sniffed \in 0..MaxWritten /\ open \in Seq(1..MaxWritten) /\ fileTurn \in Seq(1..MaxWritten)
  BY DEF FilesInv
<1>3. PICK n, o, t : n = UpTo(Len(files)) /\ o = Append(open, Head(fileTurn)) /\ t = Tail(fileTurn)
  OBVIOUS
<1>4. /\ Head(fileTurn) \in 1..MaxWritten /\ Head(fileTurn) = fileTurn[1] /\ t \in Seq(1..MaxWritten)
      /\ Len(fileTurn) \in Nat \ {0} /\ Len(t) = Len(fileTurn) - 1
      /\ \A i \in 1..Len(t) : t[i] = fileTurn[i + 1]
  <2>1. Len(fileTurn) \in Nat \ {0}
    BY <1>1, <1>2, EmptySeq
  <2>2. /\ Head(fileTurn) \in 1..MaxWritten /\ t \in Seq(1..MaxWritten) /\ Len(t) = Len(fileTurn) - 1
        /\ \A i \in 1..Len(t) : t[i] = fileTurn[i + 1]
    BY <1>1, <1>2, <1>3, HeadTailProperties
  <2> QED BY <2>1, <2>2
<1>5. /\ o \in Seq(1..MaxWritten) /\ Len(o) = Len(open) + 1 /\ o[Len(open) + 1] = fileTurn[1]
      /\ \A i \in 1..Len(open) : o[i] = open[i]
  BY <1>2, <1>3, <1>4, AppendProperties
<1>6. /\ n \in Nat /\ Len(open) \in Nat
      /\ \A i \in 1..Len(open) : open[i] = n + i
      /\ \A i \in 1..Len(fileTurn) : fileTurn[i] = n + Len(open) + i
      /\ n + Len(open) + Len(fileTurn) = sniffed
  BY <1>3, OpenAndWaiting DEF FilesInv, FilesHoldAll
<1>7. ASSUME NEW i \in 1..Len(o) PROVE o[i] = n + i
  <2>1. i \in 1..Len(open) \/ i = Len(open) + 1
    BY <1>5, <1>6
  <2>2. fileTurn[1] = n + Len(open) + 1
    BY <1>4, <1>6
  <2>3. CASE i \in 1..Len(open)
    BY <1>5, <1>6, <2>3
  <2>4. CASE i = Len(open) + 1
    BY <1>5, <1>6, <2>2, <2>4
  <2> QED BY <2>1, <2>3, <2>4
<1>8. ASSUME NEW i \in 1..Len(t) PROVE t[i] = n + Len(o) + i
  <2>1. i + 1 \in 1..Len(fileTurn)
    BY <1>4
  <2>2. t[i] = n + Len(open) + (i + 1)
    BY <1>4, <1>6, <2>1
  <2> QED BY <1>5, <1>6, <2>2
<1>9. Follow(o \o t, n) /\ Len(o \o t) = Len(o) + Len(t)
  BY <1>4, <1>5, <1>6, <1>7, <1>8, CountsOn
<1>10. UpTo(Len(files))' = n /\ fileTurn' = t /\ open' = o
  BY <1>1, <1>3 DEF UpTo
<1>0. rotating' \in BOOLEAN
  <2>1. Len(open') \in Nat /\ PacketsPerFile \in Nat
    BY <1>5, <1>6, <1>10, PcapAssumption
  <2>2. (Len(open') >= PacketsPerFile) \in BOOLEAN
    BY <2>1
  <2> QED BY <2>2 DEF WritesPacket
<1>11. o # <<>>
  BY <1>5, <1>6, EmptySeq
<1>12. FilesHoldAll'
  <2>1. Follow(open \o fileTurn, UpTo(Len(files)))' /\ (UpTo(Len(files)) + Len(open \o fileTurn) = sniffed)'
    <3>1. n + Len(o \o t) = sniffed
      BY <1>4, <1>5, <1>6, <1>9
    <3>2. Follow(open \o fileTurn, UpTo(Len(files)))'
      BY <1>9, <1>10 DEF Follow
    <3> QED BY <1>1, <1>10, <3>1, <3>2
  <2>2. (\A i \in DOMAIN files : files[i].packets # <<>> /\ Follow(files[i].packets, UpTo(i - 1)))'
    BY <1>1 DEF FilesInv, FilesHoldAll, Follow, UpTo
  <2>3. (Cardinality({i \in DOMAIN files : files[i].told # Len(files[i].packets)}) <= metaFaults)'
    BY <1>1 DEF FilesInv, FilesHoldAll
  <2> QED BY <2>1, <2>2, <2>3 DEF FilesHoldAll
<1> QED BY <1>1, <1>4, <1>5, <1>10, <1>11, <1>12, <1>0 DEF FilesInv

LEMMA RotateKeeps == FilesInv /\ Rotates => FilesInv'
<1> SUFFICES ASSUME FilesInv, Rotates PROVE FilesInv'
  OBVIOUS
<1>1. PICK told \in {0, Len(open)} :
        /\ files' = Append(files, [packets |-> open, told |-> told])
        /\ metaFaults' = metaFaults + (IF told = Len(open) THEN 0 ELSE 1)
        /\ told # Len(open) => metaFaults < MaxMetaFaults
  <2>1. CASE files' = Append(files, [packets |-> open, told |-> Len(open)]) /\ UNCHANGED metaFaults
    BY <2>1 DEF FilesInv
  <2>2. CASE /\ metaFaults < MaxMetaFaults /\ metaFaults' = metaFaults + 1
             /\ files' = Append(files, [packets |-> open, told |-> 0])
    <3>1. Len(open) # 0
      BY EmptySeq DEF FilesInv, Rotates
    <3> QED BY <2>2, <3>1
  <2> QED BY <2>1, <2>2 DEF Rotates
<1>2. open # <<>> /\ open' = <<>> /\ rotating' = FALSE /\ sniffed' = sniffed /\ fileTurn' = fileTurn
  BY DEF Rotates, FilesInv
<1>3. /\ sniffed \in 0..MaxWritten /\ open \in Seq(1..MaxWritten) /\ fileTurn \in Seq(1..MaxWritten)
      /\ files \in Seq(File) /\ metaFaults \in 0..MaxMetaFaults /\ MaxMetaFaults \in Nat /\ MaxWritten \in Nat
  BY PcapAssumption DEF FilesInv
<1>4. PICK n, m, row : n = UpTo(Len(files)) /\ m = Len(files) /\ row = [packets |-> open, told |-> told]
  OBVIOUS
<1>5. /\ n \in Nat /\ m \in Nat /\ Len(open) \in Nat \ {0} /\ Len(fileTurn) \in Nat
      /\ \A i \in 1..Len(open) : open[i] = n + i
      /\ \A i \in 1..Len(fileTurn) : fileTurn[i] = n + Len(open) + i
      /\ n + Len(open) + Len(fileTurn) = sniffed
  BY <1>2, <1>3, <1>4, OpenAndWaiting, EmptySeq DEF FilesInv, FilesHoldAll
<1>6. row \in File /\ row.packets = open /\ row.told = told
  <2>1. Len(open) \in 0..MaxWritten /\ 0 \in 0..MaxWritten
    BY <1>3, <1>5
  <2> QED BY <1>3, <1>4, <2>1 DEF File
<1>7. /\ files' \in Seq(File) /\ Len(files') = m + 1 /\ files'[m + 1] = row
      /\ (\A i \in 1..m : files'[i] = files[i]) /\ DOMAIN files' = 1..m + 1 /\ DOMAIN files = 1..m
  BY <1>1, <1>3, <1>4, <1>5, <1>6, AppendProperties, SeqShape
<1>8. ASSUME NEW i \in 0..m PROVE UpTo(i)' = UpTo(i)
  <2>1. i = 0 \/ i \in 1..m
    BY <1>5
  <2> QED BY <1>7, <2>1 DEF UpTo
<1>9. UpTo(Len(files))' = n + Len(open)
  <2>1. Len(open) \in 1..Len(open) /\ m + 1 # 0
    BY <1>5
  <2> QED BY <1>5, <1>6, <1>7, <2>1 DEF UpTo
<1>10. (\A i \in DOMAIN files : files[i].packets # <<>> /\ Follow(files[i].packets, UpTo(i - 1)))'
  <2> SUFFICES ASSUME NEW i \in 1..m + 1
               PROVE  files'[i].packets # <<>> /\ Follow(files'[i].packets, UpTo(i - 1)')
    BY <1>7 DEF Follow
  <2>1. CASE i \in 1..m
    <3>1. i - 1 \in 0..m
      BY <1>5, <2>1
    <3>2. files[i].packets # <<>> /\ Follow(files[i].packets, UpTo(i - 1))
      BY <1>7, <2>1, SMTT(30) DEF FilesInv, FilesHoldAll
    <3> QED BY <1>7, <1>8, <2>1, <3>1, <3>2
  <2>2. CASE i = m + 1
    <3>1. UpTo(i - 1)' = n /\ files'[i].packets = open
      BY <1>4, <1>5, <1>6, <1>7, <1>8, <2>2
    <3>2. DOMAIN open = 1..Len(open)
      BY <1>3, SeqShape
    <3> QED BY <1>2, <1>5, <3>1, <3>2 DEF Follow
  <2> QED BY <1>5, <2>1, <2>2
<1>11. Follow(open \o fileTurn, UpTo(Len(files)))' /\ (UpTo(Len(files)) + Len(open \o fileTurn) = sniffed)'
  <2>1. <<>> \o fileTurn = fileTurn /\ DOMAIN fileTurn = 1..Len(fileTurn)
    BY <1>3, ConcatEmptySeq, SeqShape
  <2> QED BY <1>2, <1>5, <1>9, <2>1 DEF Follow
<1>12. (Cardinality({i \in DOMAIN files : files[i].told # Len(files[i].packets)}) <= metaFaults)'
  <2> DEFINE U == {i \in DOMAIN files : files[i].told # Len(files[i].packets)}
             V == {i \in DOMAIN files' : files'[i].told # Len(files'[i].packets)}
  <2>1. U \subseteq 1..m /\ IsFiniteSet(U) /\ Cardinality(U) \in Nat /\ Cardinality(U) <= metaFaults
    <3>1. U \subseteq 1..m /\ IsFiniteSet(1..m)
      BY <1>5, <1>7, FS_Interval
    <3> QED BY <3>1, FS_Subset, FS_CardinalityType DEF FilesInv, FilesHoldAll
  <2>2. V \subseteq U \cup {m + 1} /\ (told = Len(open) => V \subseteq U)
    BY <1>5, <1>6, <1>7
  <2> HIDE DEF U, V
  <2>3. Cardinality(V) <= metaFaults'
    <3>1. CASE told = Len(open)
      <4>1. Cardinality(V) <= Cardinality(U) /\ Cardinality(V) \in Nat
        BY <2>1, <2>2, <3>1, FS_Subset, FS_CardinalityType
      <4>2. metaFaults' = metaFaults
        BY <1>1, <1>3, <3>1
      <4> QED BY <1>3, <2>1, <4>1, <4>2
    <3>2. CASE told # Len(open)
      <4>1. m + 1 \notin U
        BY <1>5, <2>1
      <4>2. IsFiniteSet(U \cup {m + 1}) /\ Cardinality(U \cup {m + 1}) = Cardinality(U) + 1
        BY <2>1, <4>1, FS_AddElement
      <4>3. Cardinality(V) <= Cardinality(U \cup {m + 1}) /\ Cardinality(V) \in Nat
        BY <2>2, <4>2, FS_Subset, FS_CardinalityType
      <4>4. metaFaults' = metaFaults + 1
        BY <1>1, <3>2
      <4> QED BY <1>3, <2>1, <4>2, <4>3, <4>4
    <3> QED BY <3>1, <3>2
  <2> QED BY <2>3 DEF V
<1>13. metaFaults' \in 0..MaxMetaFaults
  BY <1>1, <1>3
<1>14. FilesHoldAll'
  BY <1>10, <1>11, <1>12 DEF FilesHoldAll
<1>15. open' \in Seq(1..MaxWritten) /\ rotating' \in BOOLEAN /\ ~rotating'
  BY <1>2, EmptySeq
<1> QED BY <1>2, <1>3, <1>7, <1>13, <1>14, <1>15 DEF FilesInv

LEMMA FilesInvStep == FilesInv /\ [PcapNext]_pcapVars => FilesInv'
<1>1. ASSUME FilesInv, UNCHANGED pcapVars PROVE FilesInv'
  BY <1>1 DEF FilesInv, FilesHoldAll, Follow, UpTo, pcapVars
<1> QED BY <1>1, ScheduleKeeps, WriteKeeps, RotateKeeps DEF PcapNext

LEMMA FilesInvSound == FilesInv => FilesSound
<1> SUFFICES ASSUME FilesInv PROVE FilesSound
  OBVIOUS
<1>1. files \in Seq([packets : Seq(1..MaxWritten), told : 0..MaxWritten])
  BY DEF FilesInv, File
<1> QED BY <1>1 DEF FilesInv, FilesSound, PcapTypeOK

-----------------------------------------------------------------------------
(* Baselines, and what decays leave of them *)

HourPairs(hourly) == UNION {{h} \X (1..hourly[h]) : h \in Hours}
HalfOf(hourly) == [h \in Hours |-> Half(hourly[h])]

LEMMA HourPairsAre ==
    ASSUME NEW hourly, NEW x
    PROVE  x \in HourPairs(hourly) <=> \E h \in Hours : \E j \in 1..hourly[h] : x = <<h, j>>
BY DEF HourPairs

\* Counts of nothing, of one event more, and of half the events.
LEMMA NothingSums == HourPairs([h \in Hours |-> 0]) = {}
<1> DEFINE none == [h \in Hours |-> 0]
<1>1. \A h \in Hours : 1..none[h] = {}
  OBVIOUS
<1> HIDE DEF none
<1>2. HourPairs(none) = {}
  BY <1>1, HourPairsAre
<1> QED BY <1>2 DEF none

LEMMA OneEventMore ==
    ASSUME NEW hourly \in [Hours -> Nat], NEW h \in Hours, IsFiniteSet(HourPairs(hourly))
    PROVE  LET more == [hourly EXCEPT ![h] = @ + 1] IN
           /\ more \in [Hours -> Nat] /\ IsFiniteSet(HourPairs(more))
           /\ Cardinality(HourPairs(more)) = Cardinality(HourPairs(hourly)) + 1
<1> DEFINE more == [hourly EXCEPT ![h] = @ + 1]
           new == <<h, hourly[h] + 1>>
<1>1. more \in [Hours -> Nat] /\ more[h] = hourly[h] + 1 /\ \A o \in Hours \ {h} : more[o] = hourly[o]
  OBVIOUS
<1>2. \A j : j \in 1..more[h] <=> j \in 1..hourly[h] \/ j = hourly[h] + 1
  BY <1>1
<1> HIDE DEF more
<1>3. ASSUME NEW x PROVE x \in HourPairs(more) <=> x \in HourPairs(hourly) \/ x = new
  BY <1>1, <1>2, HourPairsAre
<1>4. HourPairs(more) = HourPairs(hourly) \cup {new}
  BY <1>3
<1>5. new \notin HourPairs(hourly)
  <2>1. hourly[h] + 1 \notin 1..hourly[h]
    OBVIOUS
  <2> QED BY <2>1, HourPairsAre
<1> HIDE DEF new
<1>6. IsFiniteSet(HourPairs(more)) /\ Cardinality(HourPairs(more)) = Cardinality(HourPairs(hourly)) + 1
  BY <1>4, <1>5, FS_AddElement
<1> QED BY <1>1, <1>6 DEF more

LEMMA HalfTheEvents ==
    ASSUME NEW hourly \in [Hours -> Nat], IsFiniteSet(HourPairs(hourly))
    PROVE  /\ HalfOf(hourly) \in [Hours -> Nat] /\ IsFiniteSet(HourPairs(HalfOf(hourly)))
           /\ 2 * Cardinality(HourPairs(HalfOf(hourly))) <= Cardinality(HourPairs(hourly))
<1> DEFINE half == HalfOf(hourly)
           A == HourPairs(half)
           B == UNION {{h} \X (half[h] + 1..half[h] + half[h]) : h \in Hours}
           up == [x \in A |-> <<x[1], half[x[1]] + x[2]>>]
<1>1. half \in [Hours -> Nat] /\ \A h \in Hours : half[h] + half[h] <= hourly[h]
  BY DEF HalfOf, Half
<1> HIDE DEF half
<1>2. \A x : x \in A <=> \E h \in Hours : \E j \in 1..half[h] : x = <<h, j>>
  BY HourPairsAre
<1>3. \A x : x \in B <=> \E h \in Hours : \E j \in half[h] + 1..half[h] + half[h] : x = <<h, j>>
  OBVIOUS
<1> HIDE DEF A, B
<1>4. A \subseteq HourPairs(hourly) /\ B \subseteq HourPairs(hourly)
  <2>1. ASSUME NEW h \in Hours, NEW j, j \in 1..half[h] \/ j \in half[h] + 1..half[h] + half[h]
        PROVE  j \in 1..hourly[h]
    BY <1>1, <2>1
  <2> QED BY <1>2, <1>3, <2>1, HourPairsAre
<1>5. A \cap B = {}
  <2>1. ASSUME NEW h \in Hours, NEW j \in 1..half[h] PROVE j \notin half[h] + 1..half[h] + half[h]
    BY <1>1, <2>1
  <2> QED BY <1>2, <1>3, <2>1
<1>6. up \in Bijection(A, B)
  <2>1. ASSUME NEW h \in Hours, NEW j \in 1..half[h]
        PROVE  <<h, j>> \in A /\ up[<<h, j>>] = <<h, half[h] + j>> /\ <<h, half[h] + j>> \in B
    <3>1. half[h] + j \in half[h] + 1..half[h] + half[h]
      BY <1>1
    <3>2. <<h, j>> \in A /\ <<h, half[h] + j>> \in B
      BY <1>2, <1>3, <3>1
    <3> QED BY <3>2
  <2>2. up \in [A -> B]
    <3>1. ASSUME NEW x \in A PROVE up[x] \in B
      <4>1. PICK h \in Hours : \E j \in 1..half[h] : x = <<h, j>>
        BY <1>2
      <4>2. PICK j \in 1..half[h] : x = <<h, j>>
        BY <4>1
      <4> HIDE DEF up
      <4> QED BY <2>1, <4>2
    <3>2. up = [x \in A |-> up[x]]
      OBVIOUS
    <3> HIDE DEF up
    <3> QED BY <3>1, <3>2
  <2>3. ASSUME NEW x \in A, NEW y \in A, up[x] = up[y] PROVE x = y
    <3>1. PICK h \in Hours : \E j \in 1..half[h] : x = <<h, j>>
      BY <1>2
    <3>2. PICK j \in 1..half[h] : x = <<h, j>>
      BY <3>1
    <3>3. PICK o \in Hours : \E l \in 1..half[o] : y = <<o, l>>
      BY <1>2
    <3>4. PICK l \in 1..half[o] : y = <<o, l>>
      BY <3>3
    <3>5. <<h, half[h] + j>> = <<o, half[o] + l>>
      BY <2>1, <2>3, <3>2, <3>4
    <3>6. h = o /\ half[h] + j = half[o] + l
      BY <3>5
    <3>7. j = l
      BY <1>1, <3>6
    <3> QED BY <3>2, <3>4, <3>6, <3>7
  <2>4. ASSUME NEW y \in B PROVE \E x \in A : up[x] = y
    <3>1. PICK h \in Hours : \E l \in half[h] + 1..half[h] + half[h] : y = <<h, l>>
      BY <1>3
    <3>2. PICK l \in half[h] + 1..half[h] + half[h] : y = <<h, l>>
      BY <3>1
    <3>3. l - half[h] \in 1..half[h] /\ half[h] + (l - half[h]) = l
      BY <1>1
    <3> QED BY <2>1, <3>2, <3>3
  <2> HIDE DEF up
  <2> QED BY <2>2, <2>3, <2>4 DEF Bijection, Injection, IsInjective, Surjection
<1>7. ExistsBijection(A, B)
  BY <1>6 DEF ExistsBijection
<1>8. IsFiniteSet(A) /\ IsFiniteSet(B) /\ Cardinality(A) = Cardinality(B)
  BY <1>4, <1>7, FS_Subset, FS_Bijection
<1>9. IsFiniteSet(A \cup B) /\ Cardinality(A \cup B) = Cardinality(A) + Cardinality(B)
  BY <1>5, <1>8, DisjointSize
<1>10. A \cup B \in SUBSET HourPairs(hourly)
  BY <1>4
<1>11. Cardinality(A \cup B) <= Cardinality(HourPairs(hourly))
  BY <1>10, FS_Subset
<1>12. Cardinality(A) \in Nat /\ Cardinality(B) \in Nat /\ Cardinality(HourPairs(hourly)) \in Nat
  BY <1>8, FS_CardinalityType
<1>13. 2 * Cardinality(A) <= Cardinality(HourPairs(hourly))
  BY <1>8, <1>9, <1>11, <1>12
<1> QED BY <1>1, <1>8, <1>13 DEF half, A

BaselineOK(b) == b \in Baseline /\ IsFiniteSet(HourPairs(b.hourly)) /\ SumOf(b.hourly) <= b.total
Mark == [total : Nat, counted : Nat]
Write == [baselines : [Entities -> Baseline], globals : [hourly : Nat, types : Nat],
          held : [Entities -> Mark], decayed : SUBSET Entities]

\* What events and decays make of a baseline.
LEMMA NoneIsOK == BaselineOK(NoBaseline) /\ NoBaseline.total = 0
<1>1. NoBaseline \in Baseline /\ NoBaseline.total = 0 /\ NoBaseline.hourly = [h \in Hours |-> 0]
  BY DEF NoBaseline, Baseline
<1>2. HourPairs(NoBaseline.hourly) = {}
  BY <1>1, NothingSums
<1>3. SumOf(NoBaseline.hourly) = Cardinality(HourPairs(NoBaseline.hourly))
  BY DEF SumOf, HourPairs
<1>4. IsFiniteSet({}) /\ Cardinality({}) = 0
  BY FS_EmptySet
<1> QED BY <1>1, <1>2, <1>3, <1>4 DEF BaselineOK

LEMMA SeenIsOK ==
    ASSUME NEW b, BaselineOK(b), NEW h \in Hours
    PROVE  BaselineOK(Seen(b, h)) /\ Seen(b, h).total = b.total + 1
<1>1. b.hourly \in [Hours -> Nat] /\ b.total \in Nat /\ IsFiniteSet(HourPairs(b.hourly))
      /\ SumOf(b.hourly) <= b.total
  BY DEF BaselineOK, Baseline
<1> DEFINE more == [b.hourly EXCEPT ![h] = @ + 1]
<1>2. /\ more \in [Hours -> Nat] /\ IsFiniteSet(HourPairs(more))
      /\ Cardinality(HourPairs(more)) = Cardinality(HourPairs(b.hourly)) + 1
  BY <1>1, OneEventMore
<1>3. Seen(b, h).hourly = more /\ Seen(b, h).total = b.total + 1 /\ Seen(b, h).recent \in BOOLEAN
      /\ Seen(b, h) = [hourly |-> more, total |-> b.total + 1, recent |-> TRUE]
  BY DEF Seen
<1> HIDE DEF more
<1>4. Seen(b, h) \in Baseline
  BY <1>1, <1>2, <1>3 DEF Baseline
<1>5. SumOf(more) = Cardinality(HourPairs(more)) /\ SumOf(b.hourly) = Cardinality(HourPairs(b.hourly))
  BY DEF SumOf, HourPairs
<1>6. Cardinality(HourPairs(b.hourly)) \in Nat
  BY <1>1, FS_CardinalityType
<1>7. SumOf(more) <= b.total + 1
  BY <1>1, <1>2, <1>5, <1>6
<1> QED BY <1>2, <1>3, <1>4, <1>7 DEF BaselineOK

LEMMA DecayedIsOK ==
    ASSUME NEW b, BaselineOK(b)
    PROVE  BaselineOK(Decayed(b)) /\ Decayed(b).total <= b.total
<1>1. /\ b \in Baseline /\ b.hourly \in [Hours -> Nat] /\ b.total \in Nat
      /\ IsFiniteSet(HourPairs(b.hourly)) /\ SumOf(b.hourly) <= b.total
  BY DEF BaselineOK, Baseline
<1> DEFINE half == HalfOf(b.hourly)
<1>2. /\ half \in [Hours -> Nat] /\ IsFiniteSet(HourPairs(half))
      /\ 2 * Cardinality(HourPairs(half)) <= Cardinality(HourPairs(b.hourly))
  BY <1>1, HalfTheEvents
<1>3. Half(b.total) \in Nat /\ Half(b.total) <= b.total /\ \A n \in Nat : 2 * n <= b.total => n <= Half(b.total)
  BY <1>1 DEF Half
<1>4. Decayed(b) \in Baseline /\ Decayed(b).hourly = half /\ Decayed(b).total = Half(b.total)
  BY <1>1, <1>2, <1>3 DEF Decayed, Baseline, HalfOf
<1> HIDE DEF half
<1>5. SumOf(half) = Cardinality(HourPairs(half)) /\ SumOf(b.hourly) = Cardinality(HourPairs(b.hourly))
  BY DEF SumOf, HourPairs
<1>6. Cardinality(HourPairs(b.hourly)) \in Nat /\ Cardinality(HourPairs(half)) \in Nat
  BY <1>1, <1>2, FS_CardinalityType
<1>7. 2 * Cardinality(HourPairs(half)) <= b.total
  BY <1>1, <1>2, <1>5, <1>6
<1>8. SumOf(half) <= Half(b.total)
  BY <1>3, <1>5, <1>6, <1>7
<1> QED BY <1>2, <1>3, <1>4, <1>8 DEF BaselineOK

\* A total is at most what a mark left and was counted since.
Within(total, count, mark) == total + mark.counted <= mark.total + count

\* What memory, Redis and the writes have of an entity is within what is kept of its last decay,
\* and what came later than a decay that is not yet written is within that one.
Marked(b, im, c, k, ws, e) ==
    /\ k.counted <= c /\ Within(b, c, k) /\ Within(im, c, k)
    /\ \A i \in 1..Len(ws) :
        /\ ws[i].held[e].counted <= c
        /\ Within(ws[i].held[e].total, ws[i].held[e].counted, k)
        /\ e \in ws[i].decayed =>
            /\ Within(b, c, ws[i].held[e])
            /\ \A j \in 1..Len(ws) :
                i < j => Within(ws[j].held[e].total, ws[j].held[e].counted, ws[i].held[e])

MarkedTypes(b, im, c, k, ws, e) ==
    b \in Nat /\ im \in Nat /\ c \in Nat /\ k \in Mark /\ ws \in Seq(Write) /\ e \in Entities

LEMMA MarkShape ==
    ASSUME NEW ws \in Seq(Write), NEW i \in 1..Len(ws), NEW e \in Entities
    PROVE  ws[i] \in Write /\ ws[i].held[e].total \in Nat /\ ws[i].held[e].counted \in Nat
<1>1. ws[i] \in Write
  BY SeqShape
<1> QED BY <1>1 DEF Write, Mark

\* Counting, dropping and decaying.
LEMMA MarkedMoves ==
    ASSUME NEW b, NEW im, NEW c, NEW k, NEW ws, NEW e, MarkedTypes(b, im, c, k, ws, e),
           Marked(b, im, c, k, ws, e),
           NEW b2 \in Nat, NEW im2 \in Nat, NEW c2 \in Nat, c <= c2, b2 + c <= b + c2, im2 <= im
    PROVE  Marked(b2, im2, c2, k, ws, e)
<1>1. /\ k.counted \in Nat /\ k.total \in Nat /\ b \in Nat /\ im \in Nat /\ c \in Nat
      /\ ws \in Seq(Write) /\ e \in Entities
  BY DEF MarkedTypes, Mark
<1>2. ASSUME NEW mark, mark.counted \in Nat, mark.total \in Nat, mark.counted <= c
      PROVE  /\ mark.counted <= c2
             /\ Within(b, c, mark) => Within(b2, c2, mark)
             /\ Within(im, c, mark) => Within(im2, c2, mark)
  <2> DEFINE n == mark.counted
             t == mark.total
  <2>1. n \in Nat /\ t \in Nat /\ n <= c
    BY <1>2
  <2> HIDE DEF n, t
  <2>2. n <= c2
    BY <1>1, <2>1
  <2>3. b + n <= t + c => b2 + n <= t + c2
    BY <1>1, <2>1
  <2>4. im + n <= t + c => im2 + n <= t + c2
    BY <1>1, <2>1
  <2> QED BY <2>2, <2>3, <2>4 DEF n, t, Within
<1>3. k.counted <= c /\ Within(b, c, k) /\ Within(im, c, k)
  BY DEF Marked
<1>4. k.counted <= c2 /\ Within(b2, c2, k) /\ Within(im2, c2, k)
  BY <1>1, <1>2, <1>3
<1>5. ASSUME NEW i \in 1..Len(ws)
      PROVE  /\ ws[i].held[e].counted <= c2
             /\ e \in ws[i].decayed => Within(b2, c2, ws[i].held[e])
  <2>1. ws[i].held[e].total \in Nat /\ ws[i].held[e].counted \in Nat
    BY <1>1, MarkShape
  <2>2. ws[i].held[e].counted <= c /\ (e \in ws[i].decayed => Within(b, c, ws[i].held[e]))
    BY DEF Marked
  <2> QED BY <1>2, <2>1, <2>2
<1> QED BY <1>4, <1>5 DEF Marked

\* A write more.
LEMMA MarkedAppends ==
    ASSUME NEW b, NEW im, NEW c, NEW k, NEW ws, NEW e, MarkedTypes(b, im, c, k, ws, e),
           Marked(b, im, c, k, ws, e),
           NEW w \in Write, w.held[e].total = b, w.held[e].counted = c
    PROVE  Marked(b, im, c, k, Append(ws, w), e)
<1> USE DEF MarkedTypes
<1> DEFINE all == Append(ws, w)
           m == Len(ws)
<1>1. m \in Nat /\ Len(all) = m + 1 /\ all[m + 1] = w /\ \A i \in 1..m : all[i] = ws[i]
  BY AppendProperties, SeqShape
<1> HIDE DEF all, m
<1>2. ASSUME NEW i \in 1..m
      PROVE  /\ all[i].held[e].counted <= c
             /\ Within(all[i].held[e].total, all[i].held[e].counted, k)
             /\ e \in all[i].decayed =>
                /\ Within(b, c, all[i].held[e])
                /\ \A j \in 1..m + 1 :
                    i < j => Within(all[j].held[e].total, all[j].held[e].counted, all[i].held[e])
  <2>1. /\ ws[i].held[e].counted <= c
        /\ Within(ws[i].held[e].total, ws[i].held[e].counted, k)
        /\ e \in ws[i].decayed =>
           /\ Within(b, c, ws[i].held[e])
           /\ \A j \in 1..m :
               i < j => Within(ws[j].held[e].total, ws[j].held[e].counted, ws[i].held[e])
    BY DEF Marked, m
  <2>2. all[i] = ws[i]
    BY <1>1
  <2>3. ASSUME e \in all[i].decayed, NEW j \in 1..m + 1, i < j
        PROVE  Within(all[j].held[e].total, all[j].held[e].counted, all[i].held[e])
    <3>1. CASE j = m + 1
      BY <1>1, <2>1, <2>2, <2>3, <3>1
    <3>2. CASE j # m + 1
      <4>1. j \in 1..m /\ all[j] = ws[j]
        BY <1>1, <3>2
      <4> QED BY <2>1, <2>2, <2>3, <4>1
    <3> QED BY <3>1, <3>2
  <2> QED BY <2>1, <2>2, <2>3
<1>3. /\ w.held[e].counted <= c
      /\ Within(w.held[e].total, w.held[e].counted, k) /\ Within(b, c, w.held[e])
      /\ \A j \in 1..m + 1 : ~(m + 1 < j)
  BY <1>1 DEF Marked, Within
<1>4. \A i \in 1..m + 1 : i \in 1..m \/ i = m + 1
  BY <1>1
<1>5. k.counted <= c /\ Within(b, c, k) /\ Within(im, c, k)
  BY DEF Marked
<1>6. ASSUME NEW i \in 1..m + 1
      PROVE  /\ all[i].held[e].counted <= c
             /\ Within(all[i].held[e].total, all[i].held[e].counted, k)
             /\ e \in all[i].decayed =>
                /\ Within(b, c, all[i].held[e])
                /\ \A j \in 1..m + 1 :
                    i < j => Within(all[j].held[e].total, all[j].held[e].counted, all[i].held[e])
  <2>1. CASE i \in 1..m
    BY <1>2, <2>1
  <2>2. CASE i = m + 1
    BY <1>1, <1>3, <2>2
  <2> QED BY <1>4, <2>1, <2>2
<1>7. Marked(b, im, c, k, all, e)
  BY <1>1, <1>5, <1>6 DEF Marked
<1> QED BY <1>7 DEF all

\* A write less.
LEMMA MarkedWithout ==
    ASSUME NEW b, NEW im, NEW c, NEW k, NEW ws, NEW e, MarkedTypes(b, im, c, k, ws, e),
           Marked(b, im, c, k, ws, e), NEW n \in 1..Len(ws)
    PROVE  Marked(b, im, c, k, RemoveAt(ws, n), e)
<1> USE DEF MarkedTypes
<1> DEFINE r == RemoveAt(ws, n)
           at(i) == IF i < n THEN i ELSE i + 1
<1>1. /\ r \in Seq(Write) /\ Len(r) = Len(ws) - 1
      /\ \A i \in 1..Len(r) : r[i] = IF i < n THEN ws[i] ELSE ws[i + 1]
  BY WithoutOne
<1>2. Len(ws) \in Nat /\ Len(r) \in Nat /\ n \in Nat
  BY <1>1, SeqShape
<1> HIDE DEF r
<1>3. \A i \in 1..Len(r) : at(i) \in 1..Len(ws) /\ r[i] = ws[at(i)]
  BY <1>1, <1>2
<1>4. \A i, j \in 1..Len(r) : i < j => at(i) < at(j)
  BY <1>2
<1> HIDE DEF at
<1>5. ASSUME NEW i \in 1..Len(r)
      PROVE  /\ r[i].held[e].counted <= c
             /\ Within(r[i].held[e].total, r[i].held[e].counted, k)
             /\ e \in r[i].decayed =>
                /\ Within(b, c, r[i].held[e])
                /\ \A j \in 1..Len(r) :
                    i < j => Within(r[j].held[e].total, r[j].held[e].counted, r[i].held[e])
  <2>1. PICK o \in 1..Len(ws) : r[i] = ws[o] /\ o = at(i)
    BY <1>3
  <2>2. /\ ws[o].held[e].counted <= c
        /\ Within(ws[o].held[e].total, ws[o].held[e].counted, k)
        /\ e \in ws[o].decayed =>
           /\ Within(b, c, ws[o].held[e])
           /\ \A p \in 1..Len(ws) :
               o < p => Within(ws[p].held[e].total, ws[p].held[e].counted, ws[o].held[e])
    BY DEF Marked
  <2>3. ASSUME e \in r[i].decayed, NEW j \in 1..Len(r), i < j
        PROVE  Within(r[j].held[e].total, r[j].held[e].counted, r[i].held[e])
    <3>1. PICK p \in 1..Len(ws) : r[j] = ws[p] /\ p = at(j)
      BY <1>3
    <3>2. o < p
      BY <1>4, <2>1, <2>3, <3>1
    <3> QED BY <2>1, <2>2, <2>3, <3>1, <3>2
  <2> QED BY <2>1, <2>2, <2>3
<1>6. k.counted <= c /\ Within(b, c, k) /\ Within(im, c, k)
  BY DEF Marked
<1>7. Marked(b, im, c, k, r, e)
  BY <1>5, <1>6 DEF Marked
<1> QED BY <1>7 DEF r

\* A write reaches Redis, and the decay of the oldest is kept.
LEMMA MarkedWrites ==
    ASSUME NEW b, NEW im, NEW c, NEW k, NEW ws, NEW e, MarkedTypes(b, im, c, k, ws, e),
           Marked(b, im, c, k, ws, e), NEW n \in 1..Len(ws)
    PROVE  Marked(b, ws[n].held[e].total, c, k, RemoveAt(ws, n), e)
<1> DEFINE im2 == ws[n].held[e].total
<1>1. im2 \in Nat /\ ws[n].held[e].counted \in Nat /\ k.counted \in Nat /\ k.total \in Nat
  BY MarkShape DEF MarkedTypes, Mark
<1>2. ws[n].held[e].counted <= c /\ Within(im2, ws[n].held[e].counted, k)
  BY DEF Marked
<1> HIDE DEF im2
<1>3. Within(im2, c, k)
  BY <1>1, <1>2, SMTT(30) DEF Within, MarkedTypes
<1>4. Marked(b, im2, c, k, ws, e) /\ MarkedTypes(b, im2, c, k, ws, e)
  BY <1>1, <1>3 DEF Marked, MarkedTypes
<1>5. Marked(b, im2, c, k, RemoveAt(ws, n), e)
  BY <1>4, MarkedWithout
<1> QED BY <1>5 DEF im2

LEMMA MarkedKeeps ==
    ASSUME NEW b, NEW im, NEW c, NEW k, NEW ws, NEW e, MarkedTypes(b, im, c, k, ws, e),
           Marked(b, im, c, k, ws, e), 1 \in 1..Len(ws), e \in ws[1].decayed
    PROVE  Marked(b, ws[1].held[e].total, c, ws[1].held[e], RemoveAt(ws, 1), e)
<1> DEFINE r == RemoveAt(ws, 1)
           mk == ws[1].held[e]
<1>1. /\ r \in Seq(Write) /\ Len(r) = Len(ws) - 1
      /\ \A i \in 1..Len(r) : r[i] = IF i < 1 THEN ws[i] ELSE ws[i + 1]
  BY WithoutOne DEF MarkedTypes
<1>2. Marked(b, mk.total, c, k, r, e)
  BY MarkedWrites
<1>3. mk.total \in Nat /\ mk.counted \in Nat
  BY MarkShape DEF MarkedTypes
<1>4. /\ mk.counted <= c /\ Within(b, c, mk)
      /\ \A j \in 1..Len(ws) : 1 < j => Within(ws[j].held[e].total, ws[j].held[e].counted, mk)
  BY DEF Marked
<1>5. Len(r) \in Nat /\ Len(ws) \in Nat
  BY <1>1, SeqShape DEF MarkedTypes
<1> HIDE DEF r, mk
<1>6. Within(mk.total, c, mk)
  BY <1>3, <1>4 DEF Within, MarkedTypes
<1>7. ASSUME NEW i \in 1..Len(r) PROVE Within(r[i].held[e].total, r[i].held[e].counted, mk)
  <2>1. i + 1 \in 1..Len(ws) /\ 1 < i + 1 /\ r[i] = ws[i + 1]
    BY <1>1, <1>5
  <2> QED BY <1>4, <2>1
<1>8. Marked(b, mk.total, c, mk, r, e)
  BY <1>2, <1>4, <1>6, <1>7 DEF Marked
<1> QED BY <1>8 DEF r, mk

WriteOK(w) ==
    /\ w \in Write /\ w.globals.types <= w.globals.hourly
    /\ \A e \in Entities : BaselineOK(w.baselines[e]) /\ w.held[e].total = w.baselines[e].total

BaselineTypes ==
    /\ baselines \in [Entities -> Baseline] /\ images.baselines \in [Entities -> Baseline]
    /\ images = [baselines |-> images.baselines, globals |-> images.globals]
    /\ \A e \in Entities : BaselineOK(baselines[e]) /\ BaselineOK(images.baselines[e])
    /\ globals \in [hourly : Nat, types : Nat] /\ globals.types <= globals.hourly
    /\ images.globals \in [hourly : Nat, types : Nat] /\ images.globals.types <= images.globals.hourly
    /\ writes \in Seq(Write) /\ Len(writes) <= MaxWrites
    /\ \A i \in 1..Len(writes) : WriteOK(writes[i])
    /\ counted \in [Entities -> Nat] /\ kept \in [Entities -> Mark]
    /\ analyzed \in 0..MaxAnalyzed /\ decays \in 0..MaxDecays /\ loads \in 0..MaxLoads

MarkedNow(e) == Marked(baselines[e].total, images.baselines[e].total, counted[e], kept[e], writes, e)

BaselinesInv == BaselineTypes /\ \A e \in Entities : MarkedNow(e)

LEMMA BaselinesInvSound == BaselinesInv => BaselinesSound
<1> SUFFICES ASSUME BaselinesInv PROVE BaselinesSound
  OBVIOUS
<1>1. BaselinesTypeOK
  BY DEF BaselinesInv, BaselineTypes, BaselinesTypeOK
<1>2. CountsAgree
  BY DEF BaselinesInv, BaselineTypes, BaselineOK, CountsAgree
<1>3. DecaysHold
  BY DEF BaselinesInv, MarkedNow, Marked, Within, DecaysHold
<1> QED BY <1>1, <1>2, <1>3 DEF BaselinesSound

LEMMA BaselinesInvInit == BaselinesInit => BaselinesInv
<1> SUFFICES ASSUME BaselinesInit PROVE BaselinesInv
  OBVIOUS
<1>1. /\ baselines = [e \in Entities |-> NoBaseline] /\ images.baselines = baselines
      /\ images.globals = NoCounts /\ globals = NoCounts /\ writes = <<>>
      /\ counted = [e \in Entities |-> 0] /\ kept = [e \in Entities |-> [total |-> 0, counted |-> 0]]
      /\ images = [baselines |-> images.baselines, globals |-> images.globals]
  BY DEF BaselinesInit
<1>2. BaselineOK(NoBaseline) /\ NoBaseline.total = 0 /\ NoBaseline \in Baseline
  BY NoneIsOK DEF BaselineOK
<1>3. NoCounts \in [hourly : Nat, types : Nat] /\ NoCounts.types <= NoCounts.hourly
  BY DEF NoCounts
<1>4. writes \in Seq(Write) /\ Len(writes) = 0
  BY <1>1
<1>5. \A n : n \in Nat => 0 \in 0..n
  OBVIOUS
<1>6. BaselineTypes
  <2>1. counted \in [Entities -> Nat] /\ kept \in [Entities -> Mark]
    BY <1>1 DEF Mark
  <2>2. /\ analyzed \in 0..MaxAnalyzed /\ decays \in 0..MaxDecays /\ loads \in 0..MaxLoads
        /\ Len(writes) <= MaxWrites
    BY <1>4, BaselineAssumption DEF BaselinesInit
  <2>3. /\ baselines \in [Entities -> Baseline] /\ images.baselines \in [Entities -> Baseline]
        /\ \A e \in Entities : BaselineOK(baselines[e]) /\ BaselineOK(images.baselines[e])
    BY <1>1, <1>2
  <2> QED BY <1>1, <1>3, <1>4, <2>1, <2>2, <2>3 DEF BaselineTypes
<1>7. ASSUME NEW e \in Entities PROVE MarkedNow(e)
  <2>1. /\ baselines[e].total = 0 /\ images.baselines[e].total = 0 /\ counted[e] = 0
        /\ kept[e].total = 0 /\ kept[e].counted = 0
    BY <1>1, <1>2
  <2> QED BY <1>4, <2>1 DEF MarkedNow, Marked, Within
<1> QED BY <1>6, <1>7 DEF BaselinesInv

\* The invariant, entity by entity.
LEMMA MarkedNowTypes ==
    ASSUME BaselinesInv, NEW e \in Entities
    PROVE  /\ MarkedTypes(baselines[e].total, images.baselines[e].total, counted[e], kept[e], writes, e)
           /\ MarkedNow(e)
           /\ BaselineOK(baselines[e]) /\ baselines[e] \in Baseline
           /\ BaselineOK(images.baselines[e]) /\ images.baselines[e] \in Baseline
BY DEF BaselinesInv, BaselineTypes, MarkedTypes, Baseline

WritesOK(ws) == ws \in Seq(Write) /\ Len(ws) <= MaxWrites /\ \A i \in 1..Len(ws) : WriteOK(ws[i])

\* Of the writes: one more, and one less.
LEMMA WriteAppends ==
    ASSUME NEW ws, WritesOK(ws), NEW w, WriteOK(w), Len(ws) < MaxWrites
    PROVE  WritesOK(Append(ws, w))
<1> DEFINE all == Append(ws, w)
<1>1. ws \in Seq(Write) /\ w \in Write /\ \A i \in 1..Len(ws) : WriteOK(ws[i])
  BY DEF WritesOK, WriteOK
<1>2. /\ all \in Seq(Write) /\ Len(all) = Len(ws) + 1 /\ all[Len(ws) + 1] = w
      /\ \A i \in 1..Len(ws) : all[i] = ws[i]
  BY <1>1, AppendProperties
<1>3. Len(ws) \in Nat
  BY <1>1, SeqShape
<1> HIDE DEF all
<1>4. \A i \in 1..Len(all) : i \in 1..Len(ws) \/ i = Len(ws) + 1
  BY <1>2, <1>3
<1>5. \A i \in 1..Len(all) : WriteOK(all[i])
  BY <1>1, <1>2, <1>4
<1>6. Len(all) <= MaxWrites
  BY <1>2, <1>3, BaselineAssumption
<1> QED BY <1>2, <1>5, <1>6 DEF WritesOK, all

LEMMA WriteLeaves ==
    ASSUME NEW ws, WritesOK(ws), NEW n \in 1..Len(ws)
    PROVE  WritesOK(RemoveAt(ws, n))
<1> DEFINE r == RemoveAt(ws, n)
<1>1. ws \in Seq(Write) /\ Len(ws) <= MaxWrites /\ \A i \in 1..Len(ws) : WriteOK(ws[i])
  BY DEF WritesOK
<1>2. /\ r \in Seq(Write) /\ Len(r) = Len(ws) - 1
      /\ \A i \in 1..Len(r) : r[i] = IF i < n THEN ws[i] ELSE ws[i + 1]
  BY <1>1, WithoutOne
<1>3. Len(ws) \in Nat /\ Len(r) \in Nat
  BY <1>1, <1>2, SeqShape
<1> HIDE DEF r
<1>4. \A i \in 1..Len(r) : i \in 1..Len(ws) /\ i + 1 \in 1..Len(ws)
  BY <1>2, <1>3
<1>5. \A i \in 1..Len(r) : WriteOK(r[i])
  BY <1>1, <1>2, <1>4
<1>6. Len(r) <= MaxWrites
  BY <1>1, <1>2, <1>3, BaselineAssumption
<1> QED BY <1>2, <1>5, <1>6 DEF WritesOK, r

\* What _save_baselines_to_redis puts together of sound baselines.
LEMMA PipelineIsOK ==
    ASSUME NEW all \in [Entities -> Baseline], \A e \in Entities : BaselineOK(all[e]),
           NEW counts \in [hourly : Nat, types : Nat], counts.types <= counts.hourly,
           NEW some \in [Entities -> Nat], NEW which \in SUBSET Entities
    PROVE  LET w == Pipeline(all, counts, Held(all, some), which) IN
           /\ WriteOK(w)
           /\ \A e \in Entities : w.held[e].total = all[e].total /\ w.held[e].counted = some[e]
<1> DEFINE hd == Held(all, some)
           w == Pipeline(all, counts, hd, which)
<1>1. hd \in [Entities -> Mark] /\ \A e \in Entities : hd[e].total = all[e].total /\ hd[e].counted = some[e]
  BY DEF Held, Mark, Baseline
<1> HIDE DEF hd
<1>2. w \in Write /\ w.globals = counts /\ w.baselines = all /\ w.held = hd
  BY <1>1 DEF Pipeline, Write
<1> HIDE DEF w
<1>3. WriteOK(w) /\ \A e \in Entities : w.held[e].total = all[e].total /\ w.held[e].counted = some[e]
  BY <1>1, <1>2 DEF WriteOK
<1> QED BY <1>3 DEF w, hd

LEMMA MarkedMovesAppends ==
    ASSUME NEW b, NEW im, NEW c, NEW k, NEW ws, NEW e, MarkedTypes(b, im, c, k, ws, e),
           Marked(b, im, c, k, ws, e), WritesOK(ws), Len(ws) < MaxWrites,
           NEW b2 \in Nat, NEW c2 \in Nat, c <= c2, b2 + c <= b + c2,
           NEW w, WriteOK(w), w.held[e].total = b2, w.held[e].counted = c2
    PROVE  Marked(b2, im, c2, k, Append(ws, w), e)
<1>1. im \in Nat /\ im <= im
  BY DEF MarkedTypes
<1>2. Marked(b2, im, c2, k, ws, e)
  BY <1>1, MarkedMoves
<1>3. MarkedTypes(b2, im, c2, k, ws, e) /\ w \in Write
  BY DEF MarkedTypes, WriteOK
<1> QED BY <1>2, <1>3, MarkedAppends

LEMMA AnalyzesKeeps ==
    ASSUME BaselinesInv, NEW e \in Entities, NEW h \in Hours, Analyzes(e, h)
    PROVE  BaselinesInv'
<1>1. PICK before \in {baselines, Pruned(baselines)} : baselines' = [before EXCEPT ![e] = Seen(@, h)]
  BY DEF Analyzes
<1>2. /\ before \in [Entities -> Baseline]
      /\ \A o \in Entities : BaselineOK(before[o]) /\ before[o].total <= baselines[o].total
  <2>1. CASE before = baselines
    <3>1. \A o \in Entities : BaselineOK(before[o]) /\ before[o].total \in Nat
      BY <2>1 DEF BaselinesInv, BaselineTypes, BaselineOK, Baseline
    <3>2. before \in [Entities -> Baseline] /\ \A o \in Entities : before[o].total <= before[o].total
      BY <2>1, <3>1 DEF BaselinesInv, BaselineTypes
    <3> QED BY <2>1, <3>1, <3>2
  <2>2. CASE before = Pruned(baselines)
    <3>1. ASSUME NEW o \in Entities
          PROVE  BaselineOK(before[o]) /\ before[o] \in Baseline /\ before[o].total <= baselines[o].total
      <4>1. BaselineOK(baselines[o]) /\ baselines[o].total \in Nat
        BY MarkedNowTypes DEF Baseline
      <4>2. before[o] = baselines[o] \/ before[o] = NoBaseline
        BY <2>2 DEF Pruned
      <4> QED BY <4>1, <4>2, NoneIsOK DEF BaselineOK
    <3>2. before = [o \in Entities |-> before[o]]
      BY <2>2 DEF Pruned
    <3> QED BY <3>1, <3>2
  <2> QED BY <2>1, <2>2
<1>3. ASSUME NEW o \in Entities
      PROVE  /\ BaselineOK(baselines'[o]) /\ baselines'[o] \in Baseline /\ baselines'[o].total \in Nat
             /\ counted'[o] \in Nat /\ counted[o] <= counted'[o]
             /\ baselines'[o].total + counted[o] <= baselines[o].total + counted'[o]
  <2>1. counted[o] \in Nat /\ baselines[o].total \in Nat /\ before[o].total \in Nat /\ before[o] \in Baseline
    BY <1>2, MarkedNowTypes DEF MarkedTypes, Baseline
  <2>2. CASE o = e
    <3>1. counted'[o] = counted[o] + 1
      BY <2>2 DEF Analyzes, BaselinesInv, BaselineTypes
    <3>2. baselines'[o] = Seen(before[o], h)
      BY <1>1, <1>2, <2>2
    <3>3. BaselineOK(baselines'[o]) /\ baselines'[o].total = before[o].total + 1
      BY <1>2, <3>2, SeenIsOK
    <3>4. before[o].total <= baselines[o].total
      BY <1>2
    <3> QED BY <2>1, <3>1, <3>3, <3>4 DEF BaselineOK
  <2>3. CASE o # e
    <3>1. counted'[o] = counted[o] /\ baselines'[o] = before[o]
      BY <1>1, <1>2, <2>3 DEF Analyzes, BaselinesInv, BaselineTypes
    <3> QED BY <1>2, <2>1, <3>1
  <2> QED BY <2>2, <2>3
<1>4. baselines' \in [Entities -> Baseline] /\ counted' \in [Entities -> Nat]
  <2>1. baselines' = [o \in Entities |-> baselines'[o]] /\ counted' = [o \in Entities |-> counted'[o]]
    BY <1>1, <1>2 DEF Analyzes, BaselinesInv, BaselineTypes
  <2> QED BY <1>3, <2>1
<1>5. globals' \in [hourly : Nat, types : Nat] /\ globals'.types <= globals'.hourly
  BY DEF Analyzes, BaselinesInv, BaselineTypes
<1>6. images' = images /\ kept' = kept /\ decays' = decays /\ loads' = loads /\ analyzed' \in 0..MaxAnalyzed
  BY BaselineAssumption, SMTT(30) DEF Analyzes, BaselinesInv, BaselineTypes
<1>7. WritesOK(writes)
  BY DEF BaselinesInv, BaselineTypes, WritesOK
<1>8. WritesOK(writes') /\ \A o \in Entities : MarkedNow(o)'
  <2>1. CASE writes' = writes
    <3>1. ASSUME NEW o \in Entities PROVE MarkedNow(o)'
      <4>1. /\ MarkedTypes(baselines[o].total, images.baselines[o].total, counted[o], kept[o], writes, o)
            /\ Marked(baselines[o].total, images.baselines[o].total, counted[o], kept[o], writes, o)
        BY MarkedNowTypes DEF MarkedNow
      <4>2. images.baselines[o].total \in Nat /\ images.baselines[o].total <= images.baselines[o].total
        BY <4>1 DEF MarkedTypes
      <4>3. Marked(baselines'[o].total, images.baselines[o].total, counted'[o], kept[o], writes, o)
        BY <1>3, <4>1, <4>2, MarkedMoves
      <4> QED BY <1>6, <2>1, <4>3 DEF MarkedNow
    <3> QED BY <1>7, <2>1, <3>1
  <2>2. CASE /\ Len(writes) < MaxWrites
             /\ writes' = Append(writes, Pipeline(baselines', globals', Held(baselines', counted'), {}))
    <3>1. PICK w : w = Pipeline(baselines', globals', Held(baselines', counted'), {})
      OBVIOUS
    <3>2. WriteOK(w) /\ \A o \in Entities : w.held[o].total = baselines'[o].total /\ w.held[o].counted = counted'[o]
      BY <1>3, <1>4, <1>5, <3>1, PipelineIsOK
    <3>3. writes' = Append(writes, w)
      BY <2>2, <3>1
    <3>4. WritesOK(writes')
      BY <1>7, <2>2, <3>2, <3>3, WriteAppends
    <3>5. ASSUME NEW o \in Entities PROVE MarkedNow(o)'
      <4>1. /\ MarkedTypes(baselines[o].total, images.baselines[o].total, counted[o], kept[o], writes, o)
            /\ Marked(baselines[o].total, images.baselines[o].total, counted[o], kept[o], writes, o)
        BY MarkedNowTypes DEF MarkedNow
      <4>2. w.held[o].total = baselines'[o].total /\ w.held[o].counted = counted'[o]
        BY <3>2
      <4>3. Marked(baselines'[o].total, images.baselines[o].total, counted'[o], kept[o], Append(writes, w), o)
        BY <1>3, <1>7, <2>2, <3>2, <4>1, <4>2, MarkedMovesAppends
      <4> QED BY <1>6, <3>3, <4>3 DEF MarkedNow
    <3> QED BY <3>4, <3>5
  <2> QED BY <2>1, <2>2 DEF Analyzes
<1>9. BaselineTypes'
  BY <1>3, <1>4, <1>5, <1>6, <1>8 DEF BaselinesInv, BaselineTypes, WritesOK
<1> QED BY <1>8, <1>9 DEF BaselinesInv

LEMMA DecaysKeeps ==
    ASSUME BaselinesInv, NEW e \in Entities, Decays(e)
    PROVE  BaselinesInv'
<1>1. ASSUME NEW o \in Entities
      PROVE  /\ BaselineOK(baselines'[o]) /\ baselines'[o] \in Baseline /\ baselines'[o].total \in Nat
             /\ counted[o] \in Nat /\ counted[o] <= counted[o]
             /\ baselines'[o].total + counted[o] <= baselines[o].total + counted[o]
  <2>1. BaselineOK(baselines[o]) /\ baselines[o].total \in Nat /\ counted[o] \in Nat
    BY MarkedNowTypes DEF MarkedTypes
  <2>2. baselines'[o] = Decayed(baselines[o]) \/ baselines'[o] = baselines[o]
    BY DEF Decays, BaselinesInv, BaselineTypes
  <2>3. BaselineOK(Decayed(baselines[o])) /\ Decayed(baselines[o]).total <= baselines[o].total
    BY <2>1, DecayedIsOK
  <2>4. BaselineOK(baselines'[o]) /\ baselines'[o].total <= baselines[o].total
    BY <2>1, <2>2, <2>3
  <2>5. baselines'[o] \in Baseline /\ baselines'[o].total \in Nat
    BY <2>4 DEF BaselineOK, Baseline
  <2> QED BY <2>1, <2>4, <2>5
<1>2. baselines' \in [Entities -> Baseline]
  <2>1. baselines' = [o \in Entities |-> baselines'[o]]
    BY DEF Decays, BaselinesInv, BaselineTypes
  <2> QED BY <1>1, <2>1
<1>3. /\ images' = images /\ globals' = globals /\ kept' = kept /\ counted' = counted
      /\ analyzed' = analyzed /\ loads' = loads /\ decays' \in 0..MaxDecays /\ Len(writes) < MaxWrites
  BY BaselineAssumption, SMTT(30) DEF Decays, BaselinesInv, BaselineTypes
<1>4. WritesOK(writes)
  BY DEF BaselinesInv, BaselineTypes, WritesOK
<1>5. PICK w : w = Pipeline(baselines', globals, Held(baselines', counted), {e})
  OBVIOUS
<1>6. /\ counted \in [Entities -> Nat] /\ {e} \in SUBSET Entities
      /\ globals \in [hourly : Nat, types : Nat] /\ globals.types <= globals.hourly
  BY DEF BaselinesInv, BaselineTypes
<1>7. WriteOK(w) /\ \A o \in Entities : w.held[o].total = baselines'[o].total /\ w.held[o].counted = counted[o]
  BY <1>1, <1>2, <1>5, <1>6, PipelineIsOK
<1>8. writes' = Append(writes, w)
  BY <1>5 DEF Decays
<1>9. WritesOK(writes')
  BY <1>3, <1>4, <1>7, <1>8, WriteAppends
<1>10. ASSUME NEW o \in Entities PROVE MarkedNow(o)'
  <2>1. /\ MarkedTypes(baselines[o].total, images.baselines[o].total, counted[o], kept[o], writes, o)
        /\ Marked(baselines[o].total, images.baselines[o].total, counted[o], kept[o], writes, o)
    BY MarkedNowTypes DEF MarkedNow
  <2>2. w.held[o].total = baselines'[o].total /\ w.held[o].counted = counted[o]
    BY <1>7
  <2>3. Marked(baselines'[o].total, images.baselines[o].total, counted[o], kept[o], Append(writes, w), o)
    BY <1>1, <1>3, <1>4, <1>7, <2>1, <2>2, MarkedMovesAppends
  <2> QED BY <1>3, <1>8, <2>3 DEF MarkedNow
<1>11. BaselineTypes'
  BY <1>1, <1>2, <1>3, <1>6, <1>9 DEF BaselinesInv, BaselineTypes, WritesOK
<1> QED BY <1>10, <1>11 DEF BaselinesInv

LEMMA WriteRunsKeeps ==
    ASSUME BaselinesInv, NEW n \in 1..MaxWrites, WriteRuns(n)
    PROVE  BaselinesInv'
<1>1. WritesOK(writes) /\ writes \in Seq(Write)
  BY DEF BaselinesInv, BaselineTypes, WritesOK
<1>2. n \in 1..Len(writes)
  BY <1>1, SeqShape DEF WriteRuns
<1>3. /\ writes' = RemoveAt(writes, n) /\ WritesOK(writes') /\ baselines' = baselines /\ globals' = globals
      /\ counted' = counted /\ analyzed' = analyzed /\ decays' = decays /\ loads' = loads
  BY <1>1, <1>2, WriteLeaves DEF WriteRuns
<1>4. /\ writes[n] \in Write /\ writes[n].globals.types <= writes[n].globals.hourly
      /\ \A e \in Entities : /\ BaselineOK(writes[n].baselines[e])
                             /\ writes[n].held[e].total = writes[n].baselines[e].total
  BY <1>1, <1>2 DEF WritesOK, WriteOK
<1>5. writes[n].baselines \in [Entities -> Baseline] /\ writes[n].globals \in [hourly : Nat, types : Nat]
      /\ writes[n].held \in [Entities -> Mark]
  BY <1>4 DEF Write
<1>6. /\ images' = [baselines |-> images'.baselines, globals |-> images'.globals]
      /\ images'.globals = writes[n].globals
      /\ images'.baselines = [e \in Entities |-> images'.baselines[e]]
      /\ \A e \in Entities : images'.baselines[e] = IF writes[n].baselines[e].recent
                                                    THEN writes[n].baselines[e]
                                                    ELSE images.baselines[e]
  BY DEF WriteRuns
<1>7. ASSUME NEW e \in Entities PROVE BaselineOK(images'.baselines[e]) /\ images'.baselines[e] \in Baseline
  <2>1. images'.baselines[e] = writes[n].baselines[e] \/ images'.baselines[e] = images.baselines[e]
    BY <1>6
  <2> QED BY <1>4, <2>1, MarkedNowTypes DEF BaselineOK
<1>8. images'.baselines \in [Entities -> Baseline]
  BY <1>6, <1>7
<1>9. kept' \in [Entities -> Mark] /\ \A e \in Entities : kept'[e] = IF Keeps(n, e) THEN writes[n].held[e] ELSE kept[e]
  BY <1>5 DEF WriteRuns, BaselinesInv, BaselineTypes
<1>10. BaselineTypes'
  BY <1>3, <1>4, <1>5, <1>6, <1>7, <1>8, <1>9 DEF BaselinesInv, BaselineTypes, WritesOK
<1>11. ASSUME NEW e \in Entities PROVE MarkedNow(e)'
  <2>1. /\ MarkedTypes(baselines[e].total, images.baselines[e].total, counted[e], kept[e], writes, e)
        /\ Marked(baselines[e].total, images.baselines[e].total, counted[e], kept[e], writes, e)
    BY MarkedNowTypes DEF MarkedNow
  <2>2. CASE Keeps(n, e)
    <3>1. n = 1 /\ e \in writes[1].decayed /\ writes[1].baselines[e].recent
      BY <2>2 DEF Keeps
    <3>2. kept'[e] = writes[1].held[e] /\ images'.baselines[e].total = writes[1].held[e].total
      BY <1>4, <1>6, <1>9, <2>2, <3>1
    <3>3. Marked(baselines[e].total, writes[1].held[e].total, counted[e], writes[1].held[e], RemoveAt(writes, 1), e)
      BY <1>2, <2>1, <3>1, MarkedKeeps
    <3> QED BY <1>3, <3>1, <3>2, <3>3 DEF MarkedNow
  <2>3. CASE ~Keeps(n, e) /\ writes[n].baselines[e].recent
    <3>1. kept'[e] = kept[e] /\ images'.baselines[e].total = writes[n].held[e].total
      BY <1>4, <1>6, <1>9, <2>3
    <3>2. Marked(baselines[e].total, writes[n].held[e].total, counted[e], kept[e], RemoveAt(writes, n), e)
      BY <1>2, <2>1, MarkedWrites
    <3> QED BY <1>3, <3>1, <3>2 DEF MarkedNow
  <2>4. CASE ~Keeps(n, e) /\ ~writes[n].baselines[e].recent
    <3>1. kept'[e] = kept[e] /\ images'.baselines[e] = images.baselines[e]
      BY <1>6, <1>9, <2>4
    <3>2. Marked(baselines[e].total, images.baselines[e].total, counted[e], kept[e], RemoveAt(writes, n), e)
      BY <1>2, <2>1, MarkedWithout
    <3> QED BY <1>3, <3>1, <3>2 DEF MarkedNow
  <2> QED BY <2>2, <2>3, <2>4
<1> QED BY <1>10, <1>11 DEF BaselinesInv

LEMMA WriteFailsKeeps ==
    ASSUME BaselinesInv, NEW n \in 1..MaxWrites, WriteFails(n)
    PROVE  BaselinesInv'
<1>1. WritesOK(writes) /\ writes \in Seq(Write)
  BY DEF BaselinesInv, BaselineTypes, WritesOK
<1>2. n \in 1..Len(writes)
  BY <1>1, SeqShape DEF WriteFails
<1>3. writes' = RemoveAt(writes, n) /\ WritesOK(writes')
  BY <1>1, <1>2, WriteLeaves DEF WriteFails
<1>4. BaselineTypes'
  BY <1>3 DEF WriteFails, BaselinesInv, BaselineTypes, WritesOK
<1>5. ASSUME NEW e \in Entities PROVE MarkedNow(e)'
  <2>1. /\ MarkedTypes(baselines[e].total, images.baselines[e].total, counted[e], kept[e], writes, e)
        /\ Marked(baselines[e].total, images.baselines[e].total, counted[e], kept[e], writes, e)
    BY MarkedNowTypes DEF MarkedNow
  <2>2. Marked(baselines[e].total, images.baselines[e].total, counted[e], kept[e], RemoveAt(writes, n), e)
    BY <1>2, <2>1, MarkedWithout
  <2> QED BY <1>3, <2>2 DEF MarkedNow, WriteFails
<1> QED BY <1>4, <1>5 DEF BaselinesInv

\* An entity that leaves the window, in memory and in Redis, keeps its counts until it is dropped.
LEMMA AgedIsOK ==
    ASSUME NEW all \in [Entities -> Baseline], \A o \in Entities : BaselineOK(all[o]), NEW e \in Entities
    PROVE  /\ Aged(all, e) \in [Entities -> Baseline]
           /\ \A o \in Entities : BaselineOK(Aged(all, e)[o]) /\ Aged(all, e)[o].total = all[o].total
<1> DEFINE aged == Aged(all, e)
<1>1. ASSUME NEW o \in Entities
      PROVE  /\ aged[o] \in Baseline /\ aged[o].total = all[o].total /\ aged[o].hourly = all[o].hourly
  <2>1. all[o] \in Baseline
    OBVIOUS
  <2>2. CASE o = e
    <3>1. aged[o] = [all[o] EXCEPT !.recent = FALSE]
      BY <2>2 DEF Aged
    <3> HIDE DEF aged
    <3> QED BY <2>1, <3>1 DEF Baseline
  <2>3. CASE o # e
    <3>1. aged[o] = all[o]
      BY <2>3 DEF Aged
    <3> QED BY <2>1, <3>1
  <2> QED BY <2>2, <2>3
<1>2. aged = [o \in Entities |-> aged[o]]
  BY DEF Aged
<1> HIDE DEF aged
<1>3. \A o \in Entities : BaselineOK(aged[o])
  BY <1>1 DEF BaselineOK
<1> QED BY <1>1, <1>2, <1>3 DEF aged

\* Steps that neither count nor write, and leave no more than there was.
LEMMA NoMoreKeeps ==
    ASSUME BaselinesInv, writes' = writes, counted' = counted, kept' = kept, BaselineTypes',
           \A e \in Entities : /\ baselines'[e].total <= baselines[e].total
                               /\ images'.baselines[e].total <= images.baselines[e].total
    PROVE  BaselinesInv'
<1>1. ASSUME NEW e \in Entities PROVE MarkedNow(e)'
  <2>1. /\ MarkedTypes(baselines[e].total, images.baselines[e].total, counted[e], kept[e], writes, e)
        /\ Marked(baselines[e].total, images.baselines[e].total, counted[e], kept[e], writes, e)
    BY MarkedNowTypes DEF MarkedNow
  <2>2. /\ baselines'[e].total \in Nat /\ images'.baselines[e].total \in Nat /\ baselines[e].total \in Nat
        /\ counted[e] \in Nat /\ counted[e] <= counted[e]
        /\ baselines'[e].total + counted[e] <= baselines[e].total + counted[e]
        /\ images'.baselines[e].total <= images.baselines[e].total
    <3>1. /\ baselines'[e].total \in Nat /\ images'.baselines[e].total \in Nat
      BY DEF BaselineTypes, Baseline
    <3>2. baselines[e].total \in Nat /\ counted[e] \in Nat
      BY <2>1 DEF MarkedTypes
    <3> QED BY <3>1, <3>2
  <2>3. Marked(baselines'[e].total, images'.baselines[e].total, counted[e], kept[e], writes, e)
    BY <2>1, <2>2, MarkedMoves
  <2> QED BY <2>3 DEF MarkedNow
<1> QED BY <1>1 DEF BaselinesInv

LEMMA GrowsOldKeeps ==
    ASSUME BaselinesInv, NEW e \in Entities, GrowsOld(e)
    PROVE  BaselinesInv'
<1>1. /\ baselines \in [Entities -> Baseline] /\ images.baselines \in [Entities -> Baseline]
      /\ \A o \in Entities : BaselineOK(baselines[o]) /\ BaselineOK(images.baselines[o])
      /\ images = [baselines |-> images.baselines, globals |-> images.globals]
  BY DEF BaselinesInv, BaselineTypes
<1>2. /\ baselines' = Aged(baselines, e)
      /\ images' = [baselines |-> Aged(images.baselines, e), globals |-> images.globals]
  BY <1>1 DEF GrowsOld
<1>3. images'.baselines = Aged(images.baselines, e) /\ images'.globals = images.globals
      /\ images' = [baselines |-> images'.baselines, globals |-> images'.globals]
  BY <1>2
<1>4. /\ baselines' \in [Entities -> Baseline]
      /\ \A o \in Entities : BaselineOK(baselines'[o]) /\ baselines'[o].total = baselines[o].total
  BY <1>1, <1>2, AgedIsOK
<1>5. /\ images'.baselines \in [Entities -> Baseline]
      /\ \A o \in Entities : /\ BaselineOK(images'.baselines[o])
                             /\ images'.baselines[o].total = images.baselines[o].total
  BY <1>1, <1>3, AgedIsOK
<1>6. BaselineTypes'
  BY <1>3, <1>4, <1>5 DEF GrowsOld, BaselinesInv, BaselineTypes
<1>7. \A o \in Entities : baselines[o].total \in Nat /\ images.baselines[o].total \in Nat
  BY MarkedNowTypes DEF MarkedTypes
<1> QED BY <1>4, <1>5, <1>6, <1>7, NoMoreKeeps DEF GrowsOld

LEMMA ImageExpiresKeeps ==
    ASSUME BaselinesInv, NEW e \in Entities, ImageExpires(e)
    PROVE  BaselinesInv'
<1>1. /\ images.baselines \in [Entities -> Baseline]
      /\ \A o \in Entities : BaselineOK(images.baselines[o])
      /\ images = [baselines |-> images.baselines, globals |-> images.globals]
  BY DEF BaselinesInv, BaselineTypes
<1>2. images' = [baselines |-> [images.baselines EXCEPT ![e] = NoBaseline], globals |-> images.globals]
  BY <1>1 DEF ImageExpires
<1>3. images'.baselines = [images.baselines EXCEPT ![e] = NoBaseline] /\ images'.globals = images.globals
      /\ images' = [baselines |-> images'.baselines, globals |-> images'.globals]
  BY <1>2
<1>4. BaselineOK(NoBaseline) /\ NoBaseline.total = 0 /\ NoBaseline \in Baseline
  BY NoneIsOK DEF BaselineOK
<1>5. \A o \in Entities : images'.baselines[o] = NoBaseline \/ images'.baselines[o] = images.baselines[o]
  BY <1>1, <1>3
<1>6. images'.baselines \in [Entities -> Baseline] /\ \A o \in Entities : BaselineOK(images'.baselines[o])
  BY <1>1, <1>3, <1>4, <1>5
<1>7. BaselineTypes'
  BY <1>3, <1>6 DEF ImageExpires, BaselinesInv, BaselineTypes
<1>8. \A o \in Entities : baselines[o].total \in Nat /\ images.baselines[o].total \in Nat
  BY MarkedNowTypes DEF MarkedTypes
<1>9. \A o \in Entities : images'.baselines[o].total <= images.baselines[o].total
  BY <1>4, <1>5, <1>8
<1>10. \A o \in Entities : baselines'[o].total <= baselines[o].total
  BY <1>8 DEF ImageExpires
<1> QED BY <1>7, <1>9, <1>10, NoMoreKeeps DEF ImageExpires

LEMMA ReloadsKeeps ==
    ASSUME BaselinesInv, Reloads
    PROVE  BaselinesInv'
<1>1. PICK read \in SUBSET Entities,
           counts \in {NoCounts, [images.globals EXCEPT !.types = 0], images.globals} :
        /\ globals' = counts
        /\ baselines' = [e \in Entities |-> IF e \in read THEN images.baselines[e] ELSE NoBaseline]
  BY DEF Reloads
<1>2. counts \in [hourly : Nat, types : Nat] /\ counts.types <= counts.hourly
  <2>1. images.globals \in [hourly : Nat, types : Nat] /\ images.globals.types <= images.globals.hourly
    BY DEF BaselinesInv, BaselineTypes
  <2>2. NoCounts \in [hourly : Nat, types : Nat] /\ NoCounts.types <= NoCounts.hourly
    BY DEF NoCounts
  <2>3. CASE counts = [images.globals EXCEPT !.types = 0]
    <3>1. counts.hourly = images.globals.hourly /\ counts.types = 0 /\ counts \in [hourly : Nat, types : Nat]
      BY <2>1, <2>3
    <3>2. images.globals.hourly \in Nat
      BY <2>1
    <3> QED BY <3>1, <3>2
  <2> QED BY <2>1, <2>2, <2>3
<1>3. BaselineOK(NoBaseline) /\ NoBaseline.total = 0 /\ NoBaseline \in Baseline
  BY NoneIsOK DEF BaselineOK
<1>4. \A e \in Entities : baselines'[e] = images.baselines[e] \/ baselines'[e] = NoBaseline
  BY <1>1
<1>5. /\ baselines' = [e \in Entities |-> baselines'[e]]
      /\ \A e \in Entities : BaselineOK(baselines'[e]) /\ baselines'[e] \in Baseline
  BY <1>1, <1>3, <1>4, MarkedNowTypes
<1>6. baselines' \in [Entities -> Baseline]
  BY <1>5
<1>7. /\ writes' = <<>> /\ images' = images /\ analyzed' = analyzed /\ decays' = decays
      /\ counted' = counted /\ kept' = kept /\ loads' \in 0..MaxLoads
  BY BaselineAssumption DEF Reloads, BaselinesInv, BaselineTypes
<1>8. writes' \in Seq(Write) /\ Len(writes') = 0 /\ Len(writes') <= MaxWrites
  <2>1. writes' \in Seq(Write) /\ Len(writes') = 0
    BY <1>7
  <2> QED BY <2>1, BaselineAssumption
<1>9. \A i \in 1..Len(writes') : WriteOK(writes'[i])
  BY <1>8
<1>10. BaselineTypes'
  BY <1>1, <1>2, <1>5, <1>6, <1>7, <1>8, <1>9 DEF BaselinesInv, BaselineTypes
<1>11. ASSUME NEW e \in Entities PROVE MarkedNow(e)'
  <2>1. /\ Marked(baselines[e].total, images.baselines[e].total, counted[e], kept[e], writes, e)
        /\ MarkedTypes(baselines[e].total, images.baselines[e].total, counted[e], kept[e], writes, e)
    BY MarkedNowTypes DEF MarkedNow
  <2>2. /\ kept[e].counted <= counted[e] /\ Within(images.baselines[e].total, counted[e], kept[e])
    BY <2>1 DEF Marked
  <2>3. Within(baselines'[e].total, counted[e], kept[e])
    <3>1. CASE baselines'[e] = images.baselines[e]
      BY <2>2, <3>1
    <3>2. CASE baselines'[e] = NoBaseline
      BY <1>3, <2>1, <2>2, <3>2 DEF Within, MarkedTypes, Mark
    <3> QED BY <1>4, <3>1, <3>2
  <2> QED BY <1>7, <1>8, <2>2, <2>3 DEF MarkedNow, Marked
<1> QED BY <1>10, <1>11 DEF BaselinesInv

LEMMA BaselinesInvStep == BaselinesInv /\ [BaselinesNext]_baselineVars => BaselinesInv'
<1>1. ASSUME BaselinesInv, UNCHANGED baselineVars PROVE BaselinesInv'
  BY <1>1 DEF baselineVars, BaselinesInv, BaselineTypes, MarkedNow
<1> QED BY <1>1, AnalyzesKeeps, DecaysKeeps, GrowsOldKeeps, ImageExpiresKeeps, WriteRunsKeeps, WriteFailsKeeps,
           ReloadsKeeps DEF BaselinesNext

-----------------------------------------------------------------------------
(* Numbers: the smallest of a set, and induction up to a bound *)

LEMMA SmallestOf ==
    ASSUME NEW S \in SUBSET Nat, S # {}
    PROVE  Min(S) \in S /\ \A x \in S : Min(S) <= x
<1> DEFINE R == OpToRel(<, Nat)
<1>1. \A x, y \in Nat : <<x, y>> \in R <=> x < y
  BY DEF OpToRel
<1>2. IsWellFoundedOn(R, Nat)
  BY NatLessThanWellFounded
<1> HIDE DEF R
<1>3. PICK m \in S : \A y \in S : ~ (<<y, m>> \in R)
  BY <1>2, WFMin
<1>4. ASSUME NEW x \in S PROVE m <= x
  <2>1. m \in Nat /\ x \in Nat /\ ~ (x < m)
    BY <1>1, <1>3
  <2> QED BY <2>1
<1> QED BY <1>3, <1>4 DEF Min

LEMMA FromZero ==
    ASSUME NEW m \in Nat, NEW T, 0 \in T, \A n \in 1..m : n - 1 \in T => n \in T
    PROVE  0..m \subseteq T
<1> DEFINE S == {n \in 0..m : n \notin T}
<1>1. SUFFICES ASSUME S # {} PROVE FALSE
  OBVIOUS
<1>2. S \in SUBSET Nat
  OBVIOUS
<1>3. PICK n \in S : \A x \in S : n <= x
  <2> HIDE DEF S
  <2> QED BY <1>1, <1>2, SmallestOf
<1>4. n \in 1..m
  BY <1>3
<1>5. n - 1 \in 0..m /\ n - 1 \notin S
  BY <1>3, <1>4
<1> QED BY <1>3, <1>4, <1>5

\* Neighbours that ascend do so over any distance.
LEMMA AscendsFar ==
    ASSUME NEW m \in Nat, NEW f, \A i \in 1..m : f[i] \in Nat, \A i \in 2..m : f[i - 1] < f[i]
    PROVE  \A i, j \in 1..m : i < j => f[i] < f[j]
<1> SUFFICES ASSUME NEW i \in 1..m PROVE \A j \in 1..m : i < j => f[i] < f[j]
  OBVIOUS
<1> DEFINE T == {j \in 0..m : i < j => f[i] < f[j]}
<1>1. 0 \in T
  OBVIOUS
<1>2. ASSUME NEW n \in 1..m, n - 1 \in T PROVE n \in T
  <2> SUFFICES ASSUME i < n PROVE f[i] < f[n]
    OBVIOUS
  <2>1. n \in 2..m /\ n - 1 \in 1..m
    OBVIOUS
  <2>2. f[n - 1] < f[n] /\ f[n - 1] \in Nat /\ f[n] \in Nat /\ f[i] \in Nat
    BY <2>1
  <2>3. i = n - 1 \/ i < n - 1
    OBVIOUS
  <2> QED BY <1>2, <2>2, <2>3
<1> HIDE DEF T
<1>3. 0..m \subseteq T
  BY <1>1, <1>2, FromZero
<1> QED BY <1>3 DEF T

-----------------------------------------------------------------------------
(* The search for chains *)

Unread == [next |-> 1, events |-> <<>>]

\* TakesStep and Search in a session.
TakesIn(ses, p, found, n) ==
    LET fits == {s \in Ahead(p, found.next) : Steps[p][s] = ses[n].type} IN
    IF fits = {} THEN found ELSE [next |-> Min(fits) + 1, events |-> Append(found.events, n)]

RunsOf(ses, p, tl, f) ==
    f = [n \in 0..Len(ses) |->
            IF n = 0 THEN Unread ELSE IF n \in tl THEN TakesIn(ses, p, f[n - 1], n) ELSE f[n - 1]]

SearchIn(ses, p, tl) == CHOOSE f : RunsOf(ses, p, tl, f)

LEMMA SearchIsSearch ==
    /\ \A p, tl : Search(p, tl) = SearchIn(session, p, tl)
    /\ \A p, tl : Search(p, tl)' = SearchIn(session', p, tl)
BY Zenon DEF Search, SearchIn, RunsOf, TakesStep, TakesIn, Unread

LEMMA RunExists ==
    ASSUME NEW ses, NEW p, NEW tl, Len(ses) \in Nat
    PROVE  RunsOf(ses, p, tl, SearchIn(ses, p, tl))
<1> DEFINE m == Len(ses)
           G(f, n) == IF n \in tl THEN TakesIn(ses, p, f[n - 1], n) ELSE f[n - 1]
           Part(f, k) == f = [n \in 0..k |-> IF n = 0 THEN Unread ELSE G(f, n)]
           T == {k \in 0..m : \E f : Part(f, k)}
<1>1. 0 \in T
  <2> DEFINE g == [n \in 0..0 |-> Unread]
  <2>1. \A n \in 0..0 : Unread = IF n = 0 THEN Unread ELSE G(g, n)
    OBVIOUS
  <2> HIDE DEF G
  <2>2. Part(g, 0)
    BY <2>1
  <2> HIDE DEF g, Part
  <2>3. \E f : Part(f, 0)
    BY <2>2
  <2> QED BY <2>3
<1>2. ASSUME NEW k \in 1..m, k - 1 \in T PROVE k \in T
  <2>1. PICK f : Part(f, k - 1)
    BY <1>2
  <2> DEFINE g == [n \in 0..k |-> IF n = k THEN G(f, k) ELSE f[n]]
  <2>2. \A n \in 0..k - 1 : g[n] = f[n]
    OBVIOUS
  <2>3. ASSUME NEW n \in 0..k PROVE g[n] = IF n = 0 THEN Unread ELSE G(g, n)
    <3>1. CASE n = 0
      BY <2>1, <2>2, <3>1
    <3>2. CASE n = k
      <4>1. g[k] = G(f, k) /\ g[k - 1] = f[k - 1]
        BY <2>2
      <4> HIDE DEF g
      <4> QED BY <3>2, <4>1
    <3>3. CASE n \in 1..k - 1
      <4>1. n \in 0..k - 1 /\ n - 1 \in 0..k - 1
        BY <3>3
      <4>2. f[n] = G(f, n)
        BY <2>1, <3>3, <4>1
      <4>3. g[n] = f[n] /\ g[n - 1] = f[n - 1]
        BY <2>2, <4>1
      <4> HIDE DEF g
      <4> QED BY <3>3, <4>2, <4>3
    <3> QED BY <3>1, <3>2, <3>3
  <2>4. g = [n \in 0..k |-> g[n]]
    OBVIOUS
  <2> HIDE DEF g, G
  <2>5. Part(g, k)
    BY <2>3, <2>4
  <2> QED BY <2>5
<1> HIDE DEF T
<1>3. m \in T
  <2>1. m \in Nat
    OBVIOUS
  <2> HIDE DEF m
  <2>2. 0..m \subseteq T
    BY <1>1, <1>2, <2>1, FromZero
  <2> QED BY <2>1, <2>2
<1>4. \E f : RunsOf(ses, p, tl, f)
  BY <1>3 DEF T, RunsOf
<1> QED BY <1>4 DEF SearchIn

\* The search, event by event.
LEMMA SearchSteps ==
    ASSUME NEW ses, NEW p, NEW tl, Len(ses) \in Nat
    PROVE  LET f == SearchIn(ses, p, tl) IN
           /\ f[0] = Unread
           /\ \A n \in 1..Len(ses) : f[n] = IF n \in tl THEN TakesIn(ses, p, f[n - 1], n) ELSE f[n - 1]
<1> DEFINE f == SearchIn(ses, p, tl)
<1>1. RunsOf(ses, p, tl, f)
  BY RunExists
<1> HIDE DEF f
<1>2. f[0] = Unread
  BY <1>1 DEF RunsOf
<1>3. \A n \in 1..Len(ses) : n \in 0..Len(ses) /\ n # 0
  OBVIOUS
<1>4. \A n \in 1..Len(ses) : f[n] = IF n \in tl THEN TakesIn(ses, p, f[n - 1], n) ELSE f[n - 1]
  BY <1>1, <1>3 DEF RunsOf
<1> QED BY <1>2, <1>4 DEF f

LEMMA StepsShape ==
    ASSUME NEW p \in Patterns
    PROVE  /\ Steps[p] \in Seq(StepTypes) /\ Len(Steps[p]) \in Nat \ {0} /\ DOMAIN Steps[p] = 1..Len(Steps[p])
           /\ MinMatch[p] \in 1..Len(Steps[p])
<1>1. Steps[p] \in Seq(StepTypes) /\ MinMatch[p] \in 1..Len(Steps[p])
  BY CorrelationAssumption
<1>2. Len(Steps[p]) \in Nat /\ DOMAIN Steps[p] = 1..Len(Steps[p])
  BY <1>1, SeqShape
<1> QED BY <1>1, <1>2

\* What was found is a chain: events of the timeline in their order, that take steps in theirs.
TakenBy(ses, p, found, taken) ==
    /\ taken \in [1..Len(found.events) -> 1..Len(Steps[p])]
    /\ \A j \in 1..Len(found.events) : Steps[p][taken[j]] = ses[found.events[j]].type /\ taken[j] < found.next
    /\ \A j \in 2..Len(found.events) : taken[j - 1] < taken[j]

FoundReal(ses, p, tl, n, found) ==
    /\ found.next \in 1..Len(Steps[p]) + 1 /\ found.events \in Seq(Nat) /\ Len(found.events) < found.next
    /\ \A j \in 1..Len(found.events) : found.events[j] \in tl /\ found.events[j] \in 1..n
    /\ \A j \in 2..Len(found.events) : found.events[j - 1] < found.events[j]
    /\ \E taken : TakenBy(ses, p, found, taken)

\* An event that fits no step ahead changes nothing, and another one takes the first it fits.
StaysAt(ses, p, found, n) ==
    /\ TakesIn(ses, p, found, n) = found
    /\ \A s \in Ahead(p, found.next) : Steps[p][s] # ses[n].type
MovesTo(ses, p, found, n, s) ==
    /\ found.next <= s /\ Steps[p][s] = ses[n].type
    /\ \A o \in 1..Len(Steps[p]) : found.next <= o /\ Steps[p][o] = ses[n].type => s <= o
    /\ TakesIn(ses, p, found, n) = [next |-> s + 1, events |-> Append(found.events, n)]

LEMMA StepAhead ==
    ASSUME NEW ses, NEW p \in Patterns, NEW found, NEW n, found.next \in 1..Len(Steps[p]) + 1
    PROVE  \/ StaysAt(ses, p, found, n)
           \/ \E s \in 1..Len(Steps[p]) : MovesTo(ses, p, found, n, s)
<1> DEFINE fits == {s \in Ahead(p, found.next) : Steps[p][s] = ses[n].type}
<1>1. CASE fits = {}
  BY <1>1 DEF TakesIn, StaysAt
<1>2. CASE fits # {}
  <2>1. Len(Steps[p]) \in Nat
    BY StepsShape
  <2>2. \A s : s \in fits <=> s \in 1..Len(Steps[p]) /\ found.next <= s /\ Steps[p][s] = ses[n].type
    BY <2>1 DEF Ahead
  <2>3. TakesIn(ses, p, found, n) = [next |-> Min(fits) + 1, events |-> Append(found.events, n)]
    BY <1>2 DEF TakesIn
  <2> HIDE DEF fits
  <2>4. fits \in SUBSET Nat
    BY <2>1, <2>2
  <2>5. Min(fits) \in fits /\ \A x \in fits : Min(fits) <= x
    BY <1>2, <2>4, SmallestOf
  <2>6. MovesTo(ses, p, found, n, Min(fits)) /\ Min(fits) \in 1..Len(Steps[p])
    BY <2>2, <2>3, <2>5 DEF MovesTo
  <2> QED BY <2>6
<1> QED BY <1>1, <1>2

LEMMA RealStep ==
    ASSUME NEW ses, NEW p \in Patterns, NEW tl, NEW n \in Nat \ {0}, n \in tl, NEW found,
           FoundReal(ses, p, tl, n - 1, found)
    PROVE  FoundReal(ses, p, tl, n, TakesIn(ses, p, found, n))
<1> DEFINE L == Len(Steps[p])
           ev == found.events
           m == Len(ev)
<1>1. /\ found.next \in 1..L + 1 /\ ev \in Seq(Nat) /\ m < found.next
      /\ \A j \in 1..m : ev[j] \in tl /\ ev[j] \in 1..n - 1
      /\ \A j \in 2..m : ev[j - 1] < ev[j]
  BY DEF FoundReal
<1>2. L \in Nat
  BY StepsShape
<1>3. m \in Nat
  BY <1>1, SeqShape
<1>4. CASE TakesIn(ses, p, found, n) = found
  <2>1. \A j \in 1..m : ev[j] \in 1..n
    BY <1>1
  <2> QED BY <1>4, <2>1 DEF FoundReal
<1>5. ASSUME NEW s \in 1..L, found.next <= s, Steps[p][s] = ses[n].type,
             TakesIn(ses, p, found, n) = [next |-> s + 1, events |-> Append(ev, n)]
      PROVE  FoundReal(ses, p, tl, n, TakesIn(ses, p, found, n))
  <2> DEFINE new == TakesIn(ses, p, found, n)
             e2 == Append(ev, n)
  <2>1. new.next = s + 1 /\ new.events = e2
    BY <1>5
  <2>2. /\ e2 \in Seq(Nat) /\ Len(e2) = m + 1 /\ e2[m + 1] = n
        /\ \A j \in 1..m : e2[j] = ev[j]
    BY <1>1, AppendProperties
  <2> HIDE DEF new, e2, ev
  <2>3. s + 1 \in 1..L + 1 /\ m + 1 < s + 1
    BY <1>1, <1>2, <1>3, <1>5
  <2>4. \A j \in 1..m + 1 : j \in 1..m \/ j = m + 1
    BY <1>3
  <2>5. ASSUME NEW j \in 1..m + 1 PROVE e2[j] \in tl /\ e2[j] \in 1..n
    <3>1. CASE j \in 1..m
      <4>1. ev[j] \in tl /\ ev[j] \in 1..n - 1 /\ e2[j] = ev[j]
        BY <1>1, <2>2, <3>1
      <4> QED BY <4>1
    <3>2. CASE j = m + 1
      BY <2>2, <3>2
    <3> QED BY <2>4, <3>1, <3>2
  <2>6. ASSUME NEW j \in 2..m + 1 PROVE e2[j - 1] < e2[j]
    <3>1. CASE j \in 2..m
      <4>1. j \in 1..m /\ j - 1 \in 1..m
        BY <3>1
      <4> QED BY <1>1, <2>2, <3>1, <4>1
    <3>2. CASE j = m + 1
      <4>1. j - 1 \in 1..m
        BY <1>3, <3>2
      <4>2. ev[j - 1] \in 1..n - 1 /\ e2[j - 1] = ev[j - 1] /\ e2[j] = n
        BY <1>1, <2>2, <3>2, <4>1
      <4> QED BY <4>2
    <3>3. j \in 2..m \/ j = m + 1
      BY <1>3
    <3> QED BY <3>1, <3>2, <3>3
  <2>7. PICK taken : TakenBy(ses, p, found, taken)
    BY DEF FoundReal
  <2>8. /\ taken \in [1..m -> 1..L]
        /\ \A j \in 1..m : Steps[p][taken[j]] = ses[ev[j]].type /\ taken[j] < found.next
        /\ \A j \in 2..m : taken[j - 1] < taken[j]
    BY <2>7 DEF TakenBy, ev
  <2> DEFINE t2 == [j \in 1..m + 1 |-> IF j = m + 1 THEN s ELSE taken[j]]
  <2>9. t2[m + 1] = s /\ \A j \in 1..m : t2[j] = taken[j]
    BY <1>3
  <2>10. t2 \in [1..m + 1 -> 1..L]
    BY <2>4, <2>8
  <2> HIDE DEF t2
  <2>11. ASSUME NEW j \in 1..m + 1 PROVE Steps[p][t2[j]] = ses[e2[j]].type /\ t2[j] < s + 1
    <3>1. CASE j \in 1..m
      <4>1. taken[j] < found.next /\ taken[j] \in 1..L
        BY <2>8, <3>1
      <4>2. t2[j] < s + 1
        BY SMTT(30), <1>1, <1>2, <1>5, <2>9, <3>1, <4>1
      <4>3. Steps[p][taken[j]] = ses[ev[j]].type /\ t2[j] = taken[j] /\ e2[j] = ev[j]
        BY <2>2, <2>8, <2>9, <3>1
      <4> QED BY <4>2, <4>3
    <3>2. CASE j = m + 1
      BY <1>2, <1>5, <2>2, <2>9, <3>2
    <3> QED BY <2>4, <3>1, <3>2
  <2>12. ASSUME NEW j \in 2..m + 1 PROVE t2[j - 1] < t2[j]
    <3>1. CASE j \in 2..m
      <4>1. j \in 1..m /\ j - 1 \in 1..m
        BY <3>1
      <4> QED BY <2>8, <2>9, <3>1, <4>1
    <3>2. CASE j = m + 1
      <4>1. j - 1 \in 1..m
        BY <1>3, <3>2
      <4>2. taken[j - 1] < found.next /\ taken[j - 1] \in 1..L /\ t2[j - 1] = taken[j - 1] /\ t2[j] = s
        BY <2>8, <2>9, <3>2, <4>1
      <4> QED BY SMTT(30), <1>1, <1>2, <1>5, <4>2
    <3>3. j \in 2..m \/ j = m + 1
      BY <1>3
    <3> QED BY <3>1, <3>2, <3>3
  <2>13. TakenBy(ses, p, new, t2)
    BY <2>1, <2>2, <2>10, <2>11, <2>12 DEF TakenBy
  <2>14. FoundReal(ses, p, tl, n, new)
    BY <2>1, <2>2, <2>3, <2>5, <2>6, <2>13 DEF FoundReal
  <2> QED BY <2>14 DEF new
<1>6. found.next \in 1..Len(Steps[p]) + 1
  BY DEF FoundReal
<1>7. CASE StaysAt(ses, p, found, n)
  BY <1>4, <1>7 DEF StaysAt
<1>8. ASSUME NEW s \in 1..L, MovesTo(ses, p, found, n, s) PROVE FoundReal(ses, p, tl, n, TakesIn(ses, p, found, n))
  BY <1>5, <1>8 DEF MovesTo
<1> QED BY <1>6, <1>7, <1>8, StepAhead

\* The whole search finds a chain.
LEMMA SearchReal ==
    ASSUME NEW ses, NEW p \in Patterns, NEW tl, Len(ses) \in Nat
    PROVE  \A n \in 0..Len(ses) : FoundReal(ses, p, tl, n, SearchIn(ses, p, tl)[n])
<1> DEFINE f == SearchIn(ses, p, tl)
           m == Len(ses)
           T == {n \in 0..m : FoundReal(ses, p, tl, n, f[n])}
<1>1. f[0] = Unread /\ \A n \in 1..m : f[n] = IF n \in tl THEN TakesIn(ses, p, f[n - 1], n) ELSE f[n - 1]
  BY SearchSteps
<1> HIDE DEF f
<1>2. FoundReal(ses, p, tl, 0, Unread)
  <2>1. Unread.next = 1 /\ Unread.events = <<>>
    BY DEF Unread
  <2>2. Unread.events \in Seq(Nat) /\ Len(Unread.events) = 0
    BY <2>1
  <2>3. Len(Steps[p]) \in Nat
    BY StepsShape
  <2>4. [j \in 1..0 |-> 1] \in [1..Len(Unread.events) -> 1..Len(Steps[p])]
    BY <2>2
  <2>5. TakenBy(ses, p, Unread, [j \in 1..0 |-> 1])
    BY <2>2, <2>4 DEF TakenBy
  <2> HIDE DEF f
  <2> QED BY <2>1, <2>2, <2>3, <2>5 DEF FoundReal
<1>3. 0 \in T
  BY <1>1, <1>2
<1>4. ASSUME NEW n \in 1..m, n - 1 \in T PROVE n \in T
  <2>1. n \in Nat \ {0} /\ FoundReal(ses, p, tl, n - 1, f[n - 1])
    BY <1>4
  <2>2. CASE n \in tl
    <3>1. FoundReal(ses, p, tl, n, TakesIn(ses, p, f[n - 1], n))
      BY <2>1, <2>2, RealStep
    <3> QED BY <1>1, <2>2, <3>1
  <2>3. CASE n \notin tl
    <3>1. \A i \in 1..n - 1 : i \in 1..n
      BY <2>1
    <3>2. FoundReal(ses, p, tl, n, f[n - 1])
      BY <2>1, <3>1 DEF FoundReal
    <3> QED BY <1>1, <2>3, <3>2
  <2> QED BY <2>2, <2>3
<1> HIDE DEF T
<1>5. 0..m \subseteq T
  BY <1>3, <1>4, FromZero
<1> QED BY <1>5 DEF T, f

\* Steps whose first events are in their order, and how many of them the first n events hold.
FirstsOf(ses, p, tl, firsts) ==
    /\ Len(ses) \in Nat /\ firsts \in [1..Len(Steps[p]) -> 1..Len(ses)]
    /\ \A s \in 2..Len(Steps[p]) : firsts[s - 1] < firsts[s]
    /\ \A s \in 1..Len(Steps[p]) :
        /\ firsts[s] \in tl /\ ses[firsts[s]].type = Steps[p][s]
        /\ \A i \in tl : ses[i].type = Steps[p][s] => firsts[s] <= i

Holds(p, firsts, found, n, k) ==
    /\ \A s \in 1..Len(Steps[p]) : firsts[s] <= n <=> s <= k
    /\ found.next = k + 1 /\ found.events \in Seq(Nat) /\ Len(found.events) = k
    /\ \A j \in 1..k : found.events[j] = firsts[j]

LEMMA OrderlyStep ==
    ASSUME NEW ses, NEW p \in Patterns, NEW tl, NEW firsts, FirstsOf(ses, p, tl, firsts),
           NEW n \in 1..Len(ses), NEW found, NEW k \in 0..Len(Steps[p]), Holds(p, firsts, found, n - 1, k)
    PROVE  /\ n \in tl => \E l \in 0..Len(Steps[p]) : Holds(p, firsts, TakesIn(ses, p, found, n), n, l)
           /\ n \notin tl => Holds(p, firsts, found, n, k)
<1> DEFINE L == Len(Steps[p])
           ev == found.events
<1>1. L \in Nat /\ Len(ses) \in Nat
  BY StepsShape DEF FirstsOf
<1>2. /\ \A s \in 1..L : firsts[s] \in Nat /\ firsts[s] \in tl /\ ses[firsts[s]].type = Steps[p][s]
      /\ \A s \in 1..L : \A i \in tl : ses[i].type = Steps[p][s] => firsts[s] <= i
      /\ \A s \in 2..L : firsts[s - 1] < firsts[s]
  <2>1. firsts \in [1..L -> 1..Len(ses)]
    BY DEF FirstsOf
  <2>2. \A s \in 1..L : firsts[s] \in Nat
    BY <1>1, <2>1
  <2> QED BY <2>2 DEF FirstsOf
<1>3. \A s, o \in 1..L : s < o => firsts[s] < firsts[o]
  <2> HIDE DEF L
  <2> QED BY <1>1, <1>2, AscendsFar
<1>4. /\ \A s \in 1..L : firsts[s] <= n - 1 <=> s <= k
      /\ found.next = k + 1 /\ ev \in Seq(Nat) /\ Len(ev) = k
      /\ \A j \in 1..k : ev[j] = firsts[j]
  BY DEF Holds
<1> HIDE DEF L
<1>5. ASSUME \A s \in 1..L : firsts[s] # n PROVE Holds(p, firsts, found, n, k)
  <2>1. ASSUME NEW s \in 1..L PROVE firsts[s] <= n <=> firsts[s] <= n - 1
    BY <1>1, <1>2, <1>5
  <2>2. \A s \in 1..L : firsts[s] <= n <=> s <= k
    BY <1>4, <2>1
  <2> QED BY <1>4, <2>2 DEF Holds, L
<1>6. CASE n \notin tl
  BY <1>2, <1>5, <1>6
<1>7. CASE n \in tl
  <2>1. found.next \in 1..L + 1
    BY <1>1, <1>4 DEF L
  <2>2. ASSUME StaysAt(ses, p, found, n)
        PROVE  Holds(p, firsts, TakesIn(ses, p, found, n), n, k)
    <3>1. ASSUME NEW s \in 1..L, firsts[s] = n PROVE FALSE
      <4>1. ~(s <= k)
        BY <1>1, <1>4, <3>1
      <4>2. s \in Ahead(p, found.next)
        BY <1>1, <1>4, <4>1 DEF Ahead, L
      <4> QED BY <1>2, <2>2, <3>1, <4>2 DEF StaysAt
    <3>2. Holds(p, firsts, found, n, k)
      BY <1>5, <3>1
    <3> QED BY <2>2, <3>2 DEF StaysAt
  <2>3. ASSUME NEW s \in 1..L, MovesTo(ses, p, found, n, s)
        PROVE  Holds(p, firsts, TakesIn(ses, p, found, n), n, s) /\ s \in 0..L
    <3>1. /\ k + 1 <= s /\ Steps[p][s] = ses[n].type
          /\ TakesIn(ses, p, found, n) = [next |-> s + 1, events |-> Append(ev, n)]
      BY <1>4, <2>3 DEF MovesTo
    <3>2. ~(s <= k) /\ firsts[s] <= n /\ ~(firsts[s] <= n - 1)
      BY <1>1, <1>2, <1>4, <1>7, <3>1
    <3>3. firsts[s] = n
      BY <1>1, <1>2, <3>2
    <3>4. k + 1 = s
      <4> SUFFICES ASSUME k + 1 # s PROVE FALSE
        OBVIOUS
      <4>1. k + 1 \in 1..L /\ k + 1 < s /\ ~(k + 1 <= k)
        BY <1>1, <3>1
      <4>2. firsts[k + 1] < n /\ firsts[k + 1] \in Nat
        BY <1>2, <1>3, <3>3, <4>1
      <4>3. firsts[k + 1] <= n - 1
        BY <1>1, <4>2
      <4> QED BY <1>4, <4>1, <4>3
    <3> DEFINE e2 == Append(ev, n)
    <3>5. e2 \in Seq(Nat) /\ Len(e2) = k + 1 /\ e2[k + 1] = n /\ \A j \in 1..k : e2[j] = ev[j]
      BY <1>1, <1>4, AppendProperties
    <3> HIDE DEF e2, ev
    <3>6. \A j \in 1..s : e2[j] = firsts[j]
      <4>1. \A j \in 1..s : j \in 1..k \/ j = k + 1
        BY <1>1, <3>4
      <4> QED BY <1>4, <3>3, <3>4, <3>5, <4>1
    <3>7. ASSUME NEW o \in 1..L PROVE firsts[o] <= n <=> o <= s
      <4>1. CASE o <= s
        <5>1. o = s \/ o < s
          BY <4>1
        <5>2. firsts[o] \in Nat /\ (o < s => firsts[o] < n)
          BY <1>2, <1>3, <3>3
        <5> QED BY <1>1, <3>3, <4>1, <5>1, <5>2
      <4>2. CASE ~(o <= s)
        <5>1. n < firsts[o] /\ firsts[o] \in Nat
          BY <1>1, <1>2, <1>3, <3>3, <4>2
        <5> QED BY <1>1, <4>2, <5>1
      <4> QED BY <4>1, <4>2
    <3>8. Holds(p, firsts, [next |-> s + 1, events |-> e2], n, s)
      BY <3>4, <3>5, <3>6, <3>7 DEF Holds, L
    <3> QED BY <1>1, <3>1, <3>8 DEF e2
  <2>4. StaysAt(ses, p, found, n) \/ \E s \in 1..L : MovesTo(ses, p, found, n, s)
    BY <2>1, StepAhead DEF L
  <2>5. \E l \in 0..L : Holds(p, firsts, TakesIn(ses, p, found, n), n, l)
    <3>1. CASE StaysAt(ses, p, found, n)
      <4>1. Holds(p, firsts, TakesIn(ses, p, found, n), n, k)
        BY <2>2, <3>1
      <4> QED BY <4>1 DEF L
    <3> QED BY <2>3, <2>4, <3>1
  <2> QED BY <1>7, <2>5 DEF L
<1> QED BY <1>6, <1>7

\* Steps whose first events are in their order are all found, by those events.
LEMMA OrderlySearch ==
    ASSUME NEW ses, NEW p \in Patterns, NEW tl, NEW firsts, FirstsOf(ses, p, tl, firsts)
    PROVE  SearchIn(ses, p, tl)[Len(ses)].events = firsts
<1> DEFINE L == Len(Steps[p])
           m == Len(ses)
           f == SearchIn(ses, p, tl)
           T == {n \in 0..m : \E k \in 0..L : Holds(p, firsts, f[n], n, k)}
<1>1. L \in Nat /\ m \in Nat /\ firsts \in [1..L -> 1..m]
  BY StepsShape DEF FirstsOf
<1>2. f[0] = Unread /\ \A n \in 1..m : f[n] = IF n \in tl THEN TakesIn(ses, p, f[n - 1], n) ELSE f[n - 1]
  BY <1>1, SearchSteps
<1> HIDE DEF f
<1>3. 0 \in T
  <2>1. Unread.next = 1 /\ Unread.events \in Seq(Nat) /\ Len(Unread.events) = 0
    BY DEF Unread
  <2>2. \A s \in 1..L : ~(firsts[s] <= 0) /\ ~(s <= 0)
    BY <1>1
  <2>3. Holds(p, firsts, Unread, 0, 0)
    BY <2>1, <2>2 DEF Holds
  <2> QED BY <1>1, <1>2, <2>3
<1>4. ASSUME NEW n \in 1..m, n - 1 \in T PROVE n \in T
  <2>1. PICK k \in 0..L : Holds(p, firsts, f[n - 1], n - 1, k)
    BY <1>4
  <2>2. /\ n \in tl => \E l \in 0..L : Holds(p, firsts, TakesIn(ses, p, f[n - 1], n), n, l)
        /\ n \notin tl => Holds(p, firsts, f[n - 1], n, k)
    <3> HIDE DEF f
    <3> QED BY <2>1, OrderlyStep
  <2>3. CASE n \in tl
    <3>1. f[n] = TakesIn(ses, p, f[n - 1], n)
      BY <1>2, <2>3
    <3> QED BY <1>1, <2>2, <2>3, <3>1
  <2>4. CASE n \notin tl
    <3>1. f[n] = f[n - 1]
      BY <1>2, <2>4
    <3> QED BY <1>1, <2>1, <2>2, <2>4, <3>1
  <2> QED BY <2>3, <2>4
<1>5. 0..m \subseteq T
  <2> HIDE DEF T, m
  <2> QED BY <1>1, <1>3, <1>4, FromZero
<1>6. PICK k \in 0..L : Holds(p, firsts, f[m], m, k)
  BY <1>1, <1>5
<1> DEFINE ev == f[m].events
<1>7. /\ \A s \in 1..L : firsts[s] <= m <=> s <= k
      /\ ev \in Seq(Nat) /\ Len(ev) = k /\ \A j \in 1..k : ev[j] = firsts[j]
  BY <1>6 DEF Holds
<1> HIDE DEF ev
<1>8. k = L
  <2> SUFFICES ASSUME k # L PROVE FALSE
    OBVIOUS
  <2>1. L \in 1..L /\ ~(L <= k)
    BY <1>1
  <2>2. firsts[L] <= m
    BY <1>1, <2>1
  <2> QED BY <1>7, <2>1, <2>2
<1>9. ev = [j \in 1..L |-> ev[j]]
  BY <1>7, <1>8, LenProperties
<1>10. ev = firsts
  BY <1>1, <1>7, <1>8, <1>9
<1> QED BY <1>10 DEF ev, f

\* An event more changes nothing of what the ones before it took.
Extends(ses, more, tl, t2) ==
    /\ Len(ses) \in Nat /\ Len(more) = Len(ses) + 1
    /\ \A n \in 1..Len(ses) : more[n] = ses[n] /\ (n \in t2 <=> n \in tl)

LEMMA SearchKept ==
    ASSUME NEW ses, NEW more, NEW p, NEW tl, NEW t2, Extends(ses, more, tl, t2)
    PROVE  \A n \in 0..Len(ses) : SearchIn(more, p, t2)[n] = SearchIn(ses, p, tl)[n]
<1> DEFINE f == SearchIn(ses, p, tl)
           g == SearchIn(more, p, t2)
           m == Len(ses)
           T == {n \in 0..m : g[n] = f[n]}
<1>1. /\ m \in Nat /\ Len(more) = m + 1 /\ Len(more) \in Nat
      /\ \A n \in 1..m : more[n] = ses[n] /\ (n \in t2 <=> n \in tl)
  BY DEF Extends
<1>2. f[0] = Unread /\ \A n \in 1..m : f[n] = IF n \in tl THEN TakesIn(ses, p, f[n - 1], n) ELSE f[n - 1]
  BY <1>1, SearchSteps
<1>3. g[0] = Unread /\ \A n \in 1..m + 1 : g[n] = IF n \in t2 THEN TakesIn(more, p, g[n - 1], n) ELSE g[n - 1]
  BY <1>1, SearchSteps
<1> HIDE DEF f, g
<1>4. 0 \in T
  BY <1>1, <1>2, <1>3
<1>5. ASSUME NEW n \in 1..m, n - 1 \in T PROVE n \in T
  <2>1. n \in 1..m + 1 /\ g[n - 1] = f[n - 1]
    BY <1>1, <1>5
  <2>2. TakesIn(more, p, g[n - 1], n) = TakesIn(ses, p, f[n - 1], n)
    BY <1>1, <2>1 DEF TakesIn
  <2> QED BY <1>1, <1>2, <1>3, <2>1, <2>2
<1>6. 0..m \subseteq T
  <2> HIDE DEF T, m
  <2> QED BY <1>1, <1>4, <1>5, FromZero
<1> QED BY <1>6 DEF f, g

\* All steps that were found are found by the same events with an event more.
LEMMA WholeSearchStays ==
    ASSUME NEW ses, NEW more, NEW p \in Patterns, NEW tl, NEW t2, Extends(ses, more, tl, t2),
           Len(SearchIn(ses, p, tl)[Len(ses)].events) = Len(Steps[p])
    PROVE  SearchIn(more, p, t2)[Len(more)].events = SearchIn(ses, p, tl)[Len(ses)].events
<1> DEFINE f == SearchIn(ses, p, tl)
           g == SearchIn(more, p, t2)
           m == Len(ses)
           L == Len(Steps[p])
<1>1. m \in Nat /\ Len(more) = m + 1 /\ Len(more) \in Nat /\ L \in Nat
  BY StepsShape DEF Extends
<1>2. g[m] = f[m]
  BY <1>1, SearchKept
<1>3. g[m + 1] = IF m + 1 \in t2 THEN TakesIn(more, p, g[m], m + 1) ELSE g[m]
  <2>1. m + 1 \in 1..Len(more) /\ (m + 1) - 1 = m
    BY <1>1
  <2> HIDE DEF m, g
  <2>2. \A n \in 1..Len(more) : g[n] = IF n \in t2 THEN TakesIn(more, p, g[n - 1], n) ELSE g[n - 1]
    BY <1>1, SearchSteps DEF g
  <2>3. g[m + 1] = IF m + 1 \in t2 THEN TakesIn(more, p, g[(m + 1) - 1], m + 1) ELSE g[(m + 1) - 1]
    BY <2>1, <2>2
  <2> QED BY <2>1, <2>3
<1>4. f[m].next \in 1..L + 1 /\ f[m].events \in Seq(Nat) /\ Len(f[m].events) < f[m].next
  <2>1. FoundReal(ses, p, tl, m, f[m])
    BY <1>1, SearchReal
  <2> HIDE DEF f, m
  <2> QED BY <2>1 DEF FoundReal
<1> HIDE DEF f, g, m, L
<1>5. f[m].next = L + 1
  BY <1>1, <1>4 DEF f, m, L
<1>6. StaysAt(more, p, f[m], m + 1)
  <2>1. \A s \in 1..L : ~MovesTo(more, p, f[m], m + 1, s)
    BY <1>1, <1>5 DEF MovesTo
  <2> QED BY <1>4, <2>1, StepAhead DEF L
<1>7. g[m + 1] = f[m]
  BY <1>2, <1>3, <1>6 DEF StaysAt
<1> QED BY <1>1, <1>7 DEF f, g, m

\* What ChainsAreReal says of a chain, and what its pattern is.
RealChain(c) ==
    /\ c.pattern \in Patterns /\ c.events \in Seq(Nat)
    /\ \A j \in DOMAIN c.events : c.host \in {session[c.events[j]].src, session[c.events[j]].dst}
    /\ \A j \in 2..Len(c.events) :
        c.events[j - 1] < c.events[j]
        /\ session[c.events[j]].at - session[c.events[j - 1]].at <= MaxGap[c.pattern]
    /\ Len(c.events) >= MinMatch[c.pattern]
    /\ \E taken \in [DOMAIN c.events -> DOMAIN Steps[c.pattern]] :
        /\ \A j \in DOMAIN c.events : Steps[c.pattern][taken[j]] = session[c.events[j]].type
        /\ \A j \in 2..Len(c.events) : taken[j - 1] < taken[j]

Touching(h, tl) == \A i \in tl : h \in {session[i].src, session[i].dst}

\* Every match is a chain of the events that it was sought among.
LEMMA MatchReal ==
    ASSUME Len(session) \in Nat, NEW p \in Patterns, NEW h, NEW tl, Touching(h, tl)
    PROVE  \A c \in Matches(p, h, tl) : RealChain(c)
<1> DEFINE ev == Greedy(p, tl)
           found == SearchIn(session, p, tl)[Len(session)]
<1>1. ev = found.events
  BY SearchIsSearch DEF Greedy
<1>2. FoundReal(session, p, tl, Len(session), found)
  <2>1. Len(session) \in 0..Len(session)
    OBVIOUS
  <2> QED BY <2>1, SearchReal
<1> HIDE DEF found, ev
<1>3. /\ ev \in Seq(Nat)
      /\ \A j \in 1..Len(ev) : ev[j] \in tl
      /\ \A j \in 2..Len(ev) : ev[j - 1] < ev[j]
  BY <1>1, <1>2 DEF FoundReal
<1>4. PICK taken : TakenBy(session, p, found, taken)
  BY <1>2 DEF FoundReal
<1>5. /\ taken \in [1..Len(ev) -> 1..Len(Steps[p])]
      /\ \A j \in 1..Len(ev) : Steps[p][taken[j]] = session[ev[j]].type
      /\ \A j \in 2..Len(ev) : taken[j - 1] < taken[j]
  BY <1>1, <1>4 DEF TakenBy
<1>6. DOMAIN ev = 1..Len(ev) /\ DOMAIN Steps[p] = 1..Len(Steps[p])
  BY <1>3, SeqShape, StepsShape
<1>7. SUFFICES ASSUME Len(ev) >= MinMatch[p], WithinGaps(p, ev)
      PROVE  RealChain([pattern |-> p, host |-> h, events |-> ev])
  BY DEF Matches, ev
<1> DEFINE c == [pattern |-> p, host |-> h, events |-> ev]
<1>8. c.pattern = p /\ c.host = h /\ c.events = ev
  OBVIOUS
<1> HIDE DEF c
<1>9. \A j \in DOMAIN ev : h \in {session[ev[j]].src, session[ev[j]].dst}
  BY <1>3, <1>6 DEF Touching
<1>10. \A j \in 2..Len(ev) : ev[j - 1] < ev[j] /\ session[ev[j]].at - session[ev[j - 1]].at <= MaxGap[p]
  BY <1>3, <1>7 DEF WithinGaps
<1>11. RealChain(c)
  BY <1>3, <1>5, <1>6, <1>7, <1>8, <1>9, <1>10 DEF RealChain
<1> QED BY <1>11 DEF c

LEMMA TimelinesTouch ==
    \A h : Touching(h, FromSource(h)) /\ Touching(h, AroundHub(h))
BY DEF Touching, FromSource, AroundHub

\* Every chain is a match of one of the two timelines of its host.
LEMMA FoundIsMatch ==
    ASSUME NEW c \in Found
    PROVE  \E p \in Patterns, h \in Hosts : c \in Matches(p, h, FromSource(h)) \/ c \in Matches(p, h, AroundHub(h))
<1>1. CASE c \in SourceChains
  BY <1>1 DEF SourceChains
<1>2. ASSUME NEW h \in Hubs, c \in HubChains(h)
      PROVE  \E p \in Patterns : c \in Matches(p, h, AroundHub(h))
  <2> DEFINE hits == {n \in DOMAIN HubPatterns : Matches(HubPatterns[n], h, AroundHub(h)) # {}}
  <2>1. hits # {} /\ c \in Matches(HubPatterns[Min(hits)], h, AroundHub(h))
    BY <1>2 DEF HubChains
  <2>2. HubPatterns \in Seq(Patterns)
    BY CorrelationAssumption
  <2>3. DOMAIN HubPatterns = 1..Len(HubPatterns) /\ Len(HubPatterns) \in Nat
        /\ \A i \in 1..Len(HubPatterns) : HubPatterns[i] \in Patterns
    BY <2>2, SeqShape
  <2>4. hits \in SUBSET Nat /\ hits \subseteq 1..Len(HubPatterns)
    BY <2>3
  <2> HIDE DEF hits
  <2>5. Min(hits) \in hits
    BY <2>1, <2>4, SmallestOf
  <2> QED BY <2>1, <2>3, <2>4, <2>5
<1>3. Hubs \subseteq Hosts
  BY DEF Hubs
<1>4. c \in SourceChains \/ \E h \in Hubs : c \in HubChains(h)
  BY DEF Found
<1> QED BY <1>1, <1>2, <1>3, <1>4

LEMMA FoundReality ==
    ASSUME Len(session) \in Nat, NEW c \in Found
    PROVE  RealChain(c)
BY FoundIsMatch, TimelinesTouch, MatchReal

LEMMA ChainsReal ==
    ASSUME CorrelationTypeOK
    PROVE  ChainsAreReal
<1>1. Len(session) \in Nat
  BY LenProperties DEF CorrelationTypeOK
<1> QED BY <1>1, FoundReality DEF ChainsAreReal, RealChain

LEMMA FirstIsFirst ==
    ASSUME NEW tl \in SUBSET Nat, NEW t, FirstOf(tl, t) # 0
    PROVE  /\ FirstOf(tl, t) \in tl /\ session[FirstOf(tl, t)].type = t
           /\ \A i \in tl : session[i].type = t => FirstOf(tl, t) <= i
<1> DEFINE ofType == {i \in tl : session[i].type = t}
<1>1. ofType # {} /\ FirstOf(tl, t) = Min(ofType)
  BY DEF FirstOf
<1>2. ofType \in SUBSET Nat /\ \A i : i \in ofType <=> i \in tl /\ session[i].type = t
  OBVIOUS
<1> HIDE DEF ofType
<1>3. Min(ofType) \in ofType /\ \A x \in ofType : Min(ofType) <= x
  BY <1>1, <1>2, SmallestOf
<1> QED BY <1>1, <1>2, <1>3

LEMMA OrderlyFound ==
    ASSUME CorrelationTypeOK
    PROVE  OrderlyChainsFound
<1> SUFFICES ASSUME NEW p \in Patterns, NEW h \in Hosts,
                    LET firsts == [s \in DOMAIN Steps[p] |-> FirstOf(FromSource(h), Steps[p][s])] IN
                    /\ \A s \in DOMAIN firsts : firsts[s] # 0
                    /\ \A s \in 2..Len(firsts) :
                        firsts[s - 1] < firsts[s]
                        /\ session[firsts[s]].at - session[firsts[s - 1]].at <= MaxGap[p]
             PROVE  LET firsts == [s \in DOMAIN Steps[p] |-> FirstOf(FromSource(h), Steps[p][s])] IN
                    [pattern |-> p, host |-> h, events |-> firsts] \in SourceChains
  BY DEF OrderlyChainsFound
<1> DEFINE tl == FromSource(h)
           L == Len(Steps[p])
           m == Len(session)
           firsts == [s \in DOMAIN Steps[p] |-> FirstOf(tl, Steps[p][s])]
<1>1. m \in Nat /\ DOMAIN session = 1..m
  BY SeqShape DEF CorrelationTypeOK
<1>2. L \in Nat /\ DOMAIN Steps[p] = 1..L /\ MinMatch[p] <= L
  BY StepsShape
<1>3. tl \subseteq 1..m /\ tl \in SUBSET Nat
  BY <1>1 DEF FromSource
<1> HIDE DEF tl, L, m
<1>4. DOMAIN firsts = 1..L /\ \A s \in 1..L : firsts[s] = FirstOf(tl, Steps[p][s])
  BY <1>2
<1>5. firsts = [s \in 1..L |-> firsts[s]]
  BY <1>2
<1>6. /\ \A s \in 1..L : firsts[s] # 0
      /\ \A s \in 2..Len(firsts) :
          firsts[s - 1] < firsts[s] /\ session[firsts[s]].at - session[firsts[s - 1]].at <= MaxGap[p]
  BY <1>4 DEF tl
<1> HIDE DEF firsts
<1>7. \A s \in 1..L : /\ firsts[s] \in tl /\ session[firsts[s]].type = Steps[p][s]
                      /\ \A i \in tl : session[i].type = Steps[p][s] => firsts[s] <= i
  BY <1>3, <1>4, <1>6, FirstIsFirst
<1>8. firsts \in [1..L -> 1..m]
  BY <1>3, <1>5, <1>7
<1>9. Len(firsts) = L
  <2>1. Len([s \in 1..L |-> FirstOf(tl, Steps[p][s])]) = L
    BY <1>2
  <2> QED BY <1>2, <2>1 DEF firsts
<1>10. FirstsOf(session, p, tl, firsts)
  BY <1>1, <1>6, <1>7, <1>8, <1>9 DEF FirstsOf, L, m
<1>11. Greedy(p, tl) = firsts
  BY <1>10, OrderlySearch, SearchIsSearch DEF Greedy
<1>12. WithinGaps(p, firsts)
  BY <1>6 DEF WithinGaps
<1>13. [pattern |-> p, host |-> h, events |-> firsts] \in Matches(p, h, tl)
  BY <1>2, <1>9, <1>11, <1>12, StepsShape DEF Matches, L
<1>14. [pattern |-> p, host |-> h, events |-> firsts] \in SourceChains
  BY <1>13 DEF SourceChains, tl
<1> QED BY <1>14 DEF firsts, tl

-----------------------------------------------------------------------------
(* Dropping chains *)

ImageOf(F, S, T) == {F[x] : x \in S \X T}

LEMMA ImageFinite ==
    ASSUME NEW S, NEW T, IsFiniteSet(S), IsFiniteSet(T), NEW F, F = [x \in S \X T |-> F[x]]
    PROVE  IsFiniteSet(ImageOf(F, S, T))
<1> DEFINE R == {F[x] : x \in S \X T}
<1>1. F \in Surjection(S \X T, R)
  <2>1. F \in [S \X T -> R]
    OBVIOUS
  <2> QED BY <2>1 DEF Surjection
<1>2. IsFiniteSet(S \X T)
  BY FS_Product
<1> HIDE DEF R
<1> QED BY <1>1, <1>2, FS_Surjection DEF R, ImageOf

LEMMA FoundFinite == IsFiniteSet(Found)
<1> DEFINE F == [x \in Patterns \X Hosts |->
                    [pattern |-> x[1], host |-> x[2], events |-> Greedy(x[1], FromSource(x[2]))]]
           G == [x \in Patterns \X Hosts |->
                    [pattern |-> x[1], host |-> x[2], events |-> Greedy(x[1], AroundHub(x[2]))]]
           FS == ImageOf(F, Patterns, Hosts)
           GS == ImageOf(G, Patterns, Hosts)
<1>1. IsFiniteSet(Patterns) /\ IsFiniteSet(Hosts)
  BY CorrelationAssumption
<1>2. IsFiniteSet(FS) /\ IsFiniteSet(GS)
  <2>1. F = [x \in Patterns \X Hosts |-> F[x]] /\ G = [x \in Patterns \X Hosts |-> G[x]]
    OBVIOUS
  <2> HIDE DEF F, G
  <2>2. IsFiniteSet(FS)
    BY <1>1, <2>1, ImageFinite
  <2>3. IsFiniteSet(GS)
    BY <1>1, <2>1, ImageFinite
  <2> QED BY <2>2, <2>3
<1>3. ASSUME NEW c \in Found PROVE c \in FS \cup GS
  <2>1. PICK p \in Patterns, h \in Hosts :
            c \in Matches(p, h, FromSource(h)) \/ c \in Matches(p, h, AroundHub(h))
    BY FoundIsMatch
  <2>2. <<p, h>> \in Patterns \X Hosts
    OBVIOUS
  <2>3. CASE c \in Matches(p, h, FromSource(h))
    <3>1. c = F[<<p, h>>]
      BY <2>2, <2>3 DEF Matches
    <3> HIDE DEF F
    <3> QED BY <2>2, <3>1 DEF ImageOf
  <2>4. CASE c \in Matches(p, h, AroundHub(h))
    <3>1. c = G[<<p, h>>]
      BY <2>2, <2>4 DEF Matches
    <3> HIDE DEF G
    <3> QED BY <2>2, <3>1 DEF ImageOf
  <2> QED BY <2>1, <2>3, <2>4
<1> HIDE DEF FS, GS
<1>4. IsFiniteSet(FS \cup GS) /\ Found \in SUBSET (FS \cup GS)
  BY <1>2, <1>3, FS_Union
<1> QED BY <1>4, FS_Subset

\* Chains that can be compared by their number of events, of which they have some.
Comparable(all) == IsFiniteSet(all) /\ \A c \in all : Len(c.events) \in Nat \ {0} /\ DOMAIN c.events = 1..Len(c.events)

LEMMA ShortestOf ==
    ASSUME NEW chains, chains # {}, \A c \in chains : Len(c.events) \in Nat
    PROVE  Shortest(chains) \in chains /\ \A d \in chains : Len(Shortest(chains).events) <= Len(d.events)
<1> DEFINE S == {Len(c.events) : c \in chains}
<1>1. S \in SUBSET Nat /\ S # {}
  OBVIOUS
<1>2. Min(S) \in S /\ \A x \in S : Min(S) <= x
  <2> HIDE DEF S
  <2> QED BY <1>1, SmallestOf
<1>3. \E c \in chains : \A d \in chains : Len(c.events) <= Len(d.events)
  BY <1>2
<1> QED BY <1>3 DEF Shortest

Emptied == [chains |-> {}, used |-> {}]
KeptOf(all, k) ==
    k = [chains \in SUBSET all |->
            IF chains = {} THEN Emptied
            ELSE KeepsNew(k[chains \ {Shortest(chains)}], Shortest(chains))]

\* Without its shortest chain a set has one chain less.
ShrinksTo(X, Y) == Y = X \ {Shortest(X)} /\ Cardinality(Y) = Cardinality(X) - 1
LEMMA Shrinks ==
    ASSUME NEW all, Comparable(all), NEW X \in SUBSET all
    PROVE  /\ Cardinality(X) \in Nat /\ Cardinality(X) <= Cardinality(all) /\ Cardinality(all) \in Nat
           /\ Cardinality(X) = 0 => X = {}
           /\ Cardinality({}) = 0
           /\ X # {} => X \ {Shortest(X)} \in SUBSET all /\ ShrinksTo(X, X \ {Shortest(X)})
<1>1. IsFiniteSet(X) /\ Cardinality(X) <= Cardinality(all) /\ IsFiniteSet(all)
  BY FS_Subset DEF Comparable
<1>2. Cardinality(X) \in Nat /\ Cardinality(all) \in Nat
  BY <1>1, FS_CardinalityType
<1>3. (Cardinality(X) = 0 => X = {}) /\ Cardinality({}) = 0
  BY <1>1, FS_EmptySet
<1>4. ASSUME X # {} PROVE ShrinksTo(X, X \ {Shortest(X)})
  <2>1. Shortest(X) \in X
    BY <1>4, ShortestOf DEF Comparable
  <2> QED BY <1>1, <2>1, FS_RemoveElement DEF ShrinksTo
<1> QED BY <1>1, <1>2, <1>3, <1>4

LEMMA KeptExists ==
    ASSUME NEW all, Comparable(all)
    PROVE  \E k : KeptOf(all, k)
<1> DEFINE m == Cardinality(all)
           Subs == SUBSET all
           Small(n) == {X \in Subs : Cardinality(X) <= n}
           G(k, X) == IF X = {} THEN Emptied ELSE KeepsNew(k[X \ {Shortest(X)}], Shortest(X))
           Part(k, n) == k = [X \in Small(n) |-> k[X]] /\ \A X \in Small(n) : k[X] = G(k, X)
           T == {n \in 0..m : \E k : Part(k, n)}
<1>1. \A X \in Subs : Cardinality(X) \in Nat /\ Cardinality(X) <= m /\ (Cardinality(X) = 0 => X = {})
  BY Shrinks
<1>2. m \in Nat
  BY Shrinks
<1>10. ASSUME NEW n \in 1..m, NEW X \in Small(n)
       PROVE  X # {} => X \ {Shortest(X)} \in Small(n - 1) /\ X \ {Shortest(X)} \in Small(n)
  <2> SUFFICES ASSUME X # {} PROVE X \ {Shortest(X)} \in Small(n - 1) /\ X \ {Shortest(X)} \in Small(n)
    OBVIOUS
  <2> DEFINE Y == X \ {Shortest(X)}
  <2>1. Y \in Subs /\ Cardinality(Y) = Cardinality(X) - 1 /\ Cardinality(X) \in Nat /\ Cardinality(X) <= n
    BY Shrinks DEF ShrinksTo
  <2>2. Cardinality(Y) <= n - 1 /\ Cardinality(Y) <= n
    <3> HIDE DEF Y
    <3> QED BY <1>2, <2>1
  <2> QED BY <2>1, <2>2
<1> HIDE DEF m, Subs
<1>3. 0 \in T
  <2> DEFINE k == [X \in Small(0) |-> Emptied]
  <2>1. ASSUME NEW X \in Small(0) PROVE X = {} /\ k[X] = Emptied
    <3>1. X \in Subs /\ Cardinality(X) <= 0
      OBVIOUS
    <3>2. Cardinality(X) = 0
      BY <1>1, <1>2, <3>1
    <3> QED BY <1>1, <3>1, <3>2
  <2>2. k = [X \in Small(0) |-> k[X]]
    OBVIOUS
  <2> HIDE DEF k
  <2>3. Part(k, 0)
    BY <2>1, <2>2
  <2>4. \E f : Part(f, 0)
    <3> HIDE DEF Part
    <3> QED BY <2>3
  <2> HIDE DEF Part
  <2> QED BY <1>2, <2>4
<1>4. ASSUME NEW n \in 1..m, n - 1 \in T PROVE n \in T
  <2>1. PICK f : Part(f, n - 1)
    BY <1>4
  <2> DEFINE k == [X \in Small(n) |-> IF X \in Small(n - 1) THEN f[X] ELSE G(f, X)]
  <2>2. k = [X \in Small(n) |-> k[X]] /\ \A X \in Small(n) : k[X] = IF X \in Small(n - 1) THEN f[X] ELSE G(f, X)
    OBVIOUS
  <2>3. ASSUME NEW X \in Small(n) PROVE X # {} => X \ {Shortest(X)} \in Small(n - 1) /\ X \ {Shortest(X)} \in Small(n)
    BY <1>10
  <2>4. ASSUME NEW X \in Small(n - 1) PROVE X \in Small(n)
    BY <1>1, <1>2
  <2> HIDE DEF k, Small
  <2>5. ASSUME NEW X \in Small(n) PROVE k[X] = G(k, X)
    <3>1. G(k, X) = G(f, X)
      <4>1. CASE X = {}
        BY <4>1
      <4>2. CASE X # {}
        <5>1. k[X \ {Shortest(X)}] = f[X \ {Shortest(X)}]
          BY <2>2, <2>3, <4>2
        <5> QED BY <4>2, <5>1
      <4> QED BY <4>1, <4>2
    <3>2. X \in Small(n - 1) => f[X] = G(f, X)
      BY <2>1
    <3> QED BY <2>2, <3>1, <3>2
  <2>6. Part(k, n)
    BY <2>2, <2>5
  <2>7. \E g : Part(g, n)
    <3> HIDE DEF Part
    <3> QED BY <2>6
  <2> QED BY <2>7
<1>5. 0..m \subseteq T
  <2> HIDE DEF T
  <2> QED BY <1>2, <1>3, <1>4, FromZero
<1>6. PICK k : Part(k, m)
  <2>1. m \in T
    <3> HIDE DEF T
    <3> QED BY <1>2, <1>5
  <2> QED BY <2>1
<1>7. Small(m) = SUBSET all
  BY <1>1, <1>2 DEF Subs
<1> HIDE DEF Small, G
<1>8. k = [X \in SUBSET all |-> G(k, X)]
  BY <1>6, <1>7
<1>9. KeptOf(all, k)
  BY <1>8 DEF KeptOf, G
<1> QED BY <1>9

\* What is held of chains has all their events, and a longest one of them.
KeepsAll(X, held) ==
    /\ held.chains \subseteq X /\ held.used = EventsOf(held.chains) /\ held.used = EventsOf(X)
    /\ X # {} => \E c \in held.chains : \A d \in X : Len(d.events) <= Len(c.events)

LEMMA KeepsNewKeepsAll ==
    ASSUME NEW all, Comparable(all), NEW X \in SUBSET all, X # {}, NEW held,
           KeepsAll(X \ {Shortest(X)}, held)
    PROVE  KeepsAll(X, KeepsNew(held, Shortest(X)))
<1> DEFINE s == Shortest(X)
           Y == X \ {s}
           new == KeepsNew(held, s)
<1>1. /\ s \in X /\ \A d \in X : Len(s.events) <= Len(d.events)
      /\ \A d \in X : Len(d.events) \in Nat \ {0} /\ DOMAIN d.events = 1..Len(d.events)
  BY ShortestOf DEF Comparable
<1>2. /\ held.chains \subseteq Y /\ held.used = EventsOf(held.chains) /\ held.used = EventsOf(Y)
      /\ Y # {} => \E c \in held.chains : \A d \in Y : Len(d.events) <= Len(c.events)
  BY DEF KeepsAll
<1>3. EventsOf(X) = EventsOf(Y) \cup ToSet(s.events)
  BY <1>1 DEF EventsOf
<1>4. s.events[1] \in ToSet(s.events)
  <2>1. 1 \in DOMAIN s.events
    BY <1>1
  <2> QED BY <2>1 DEF ToSet
<1> HIDE DEF s
<1>5. CASE ToSet(s.events) \subseteq held.used
  <2>1. new = held
    BY <1>5 DEF KeepsNew
  <2>2. Y # {}
    BY <1>2, <1>4, <1>5 DEF EventsOf
  <2>3. PICK c \in held.chains : \A d \in Y : Len(d.events) <= Len(c.events)
    BY <1>2, <2>2
  <2>4. c \in X /\ Len(s.events) <= Len(c.events)
    BY <1>1, <1>2
  <2>5. \A d \in X : Len(d.events) <= Len(c.events)
    BY <2>3, <2>4
  <2> QED BY <1>2, <1>3, <1>5, <2>1, <2>5 DEF KeepsAll, s
<1>6. CASE ~(ToSet(s.events) \subseteq held.used)
  <2>1. new.chains = held.chains \cup {s} /\ new.used = held.used \cup ToSet(s.events)
    BY <1>6 DEF KeepsNew
  <2>2. EventsOf(new.chains) = EventsOf(held.chains) \cup ToSet(s.events)
    <3> HIDE DEF new
    <3> QED BY <2>1 DEF EventsOf
  <2>3. \E c \in new.chains : \A d \in X : Len(d.events) <= Len(c.events)
    <3>1. CASE Y = {}
      <4>1. \A d \in X : d = s
        BY <3>1
      <4>2. Len(s.events) <= Len(s.events)
        BY <1>1
      <4> QED BY <2>1, <4>1, <4>2
    <3>2. CASE Y # {}
      <4>1. PICK c \in held.chains : \A d \in Y : Len(d.events) <= Len(c.events)
        BY <1>2, <3>2
      <4>2. c \in X /\ Len(s.events) <= Len(c.events)
        BY <1>1, <1>2
      <4>3. \A d \in X : Len(d.events) <= Len(c.events)
        BY <4>1, <4>2
      <4> QED BY <2>1, <4>3
    <3> QED BY <3>1, <3>2
  <2> HIDE DEF new
  <2>4. KeepsAll(X, new)
    BY <1>1, <1>2, <1>3, <2>1, <2>2, <2>3 DEF KeepsAll
  <2> QED BY <2>4 DEF new, s
<1> QED BY <1>5, <1>6

LEMMA DedupedKeepsAll ==
    ASSUME NEW all, Comparable(all)
    PROVE  KeepsAll(all, Deduped(all))
<1> DEFINE k == CHOOSE f : KeptOf(all, f)
           m == Cardinality(all)
           T == {n \in 0..m : \A X \in SUBSET all : Cardinality(X) = n => KeepsAll(X, k[X])}
<1>1. KeptOf(all, k)
  BY KeptExists
<1>2. Deduped(all) = k[all]
  BY Zenon DEF Deduped, KeptOf, Emptied
<1>3. m \in Nat
  BY Shrinks
<1> HIDE DEF k, m
<1>4. k[{}] = Emptied /\ \A X \in SUBSET all : X # {} => k[X] = KeepsNew(k[X \ {Shortest(X)}], Shortest(X))
  BY <1>1 DEF KeptOf
<1>5. 0 \in T
  <2>1. KeepsAll({}, Emptied)
    BY DEF KeepsAll, Emptied, EventsOf
  <2>2. \A X \in SUBSET all : Cardinality(X) = 0 => X = {}
    BY Shrinks
  <2> QED BY <1>3, <1>4, <2>1, <2>2
<1>6. ASSUME NEW n \in 1..m, n - 1 \in T PROVE n \in T
  <2>1. ASSUME NEW X \in SUBSET all, Cardinality(X) = n PROVE KeepsAll(X, k[X])
    <3>1. X # {}
      BY <1>3, <2>1, FS_EmptySet
    <3>2. X \ {Shortest(X)} \in SUBSET all /\ Cardinality(X \ {Shortest(X)}) = n - 1
      BY <2>1, <3>1, Shrinks DEF ShrinksTo
    <3>3. KeepsAll(X \ {Shortest(X)}, k[X \ {Shortest(X)}])
      BY <1>6, <3>2
    <3>4. KeepsAll(X, KeepsNew(k[X \ {Shortest(X)}], Shortest(X)))
      BY <3>1, <3>3, KeepsNewKeepsAll
    <3> QED BY <1>4, <3>1, <3>4
  <2> QED BY <2>1
<1> HIDE DEF T
<1>7. 0..m \subseteq T
  BY <1>3, <1>5, <1>6, FromZero
<1>8. m \in T /\ all \in SUBSET all
  BY <1>3, <1>7
<1> QED BY <1>2, <1>8 DEF T, m

LEMMA NoneHidden ==
    ASSUME CorrelationTypeOK
    PROVE  NoEventHidden
<1>1. Len(session) \in Nat
  BY LenProperties DEF CorrelationTypeOK
<1>2. ASSUME NEW c \in Found
      PROVE  Len(c.events) \in Nat \ {0} /\ DOMAIN c.events = 1..Len(c.events)
  <2>1. RealChain(c)
    BY <1>1, FoundReality
  <2>2. c.pattern \in Patterns /\ c.events \in Seq(Nat) /\ Len(c.events) >= MinMatch[c.pattern]
    BY <2>1 DEF RealChain
  <2>3. MinMatch[c.pattern] \in Nat \ {0}
    BY <2>2, StepsShape
  <2>4. Len(c.events) \in Nat /\ DOMAIN c.events = 1..Len(c.events)
    BY <2>2, SeqShape
  <2> QED BY <2>2, <2>3, <2>4
<1>3. Comparable(Found)
  BY <1>2, FoundFinite DEF Comparable
<1>4. KeepsAll(Found, Deduped(Found))
  BY <1>3, DedupedKeepsAll
<1> QED BY <1>4 DEF KeepsAll, NoEventHidden, Reported

\* Whole in a session, and who finds all steps in it.
FromIn(ses, h) == {i \in DOMAIN ses : ses[i].src = h}
EventsIn(ses, p, h) == SearchIn(ses, p, FromIn(ses, h))[Len(ses)].events
GapsIn(ses, p, events) == \A j \in 2..Len(events) : ses[events[j]].at - ses[events[j - 1]].at <= MaxGap[p]
AllStepsIn(ses, p, h) == Len(EventsIn(ses, p, h)) = Len(Steps[p]) /\ GapsIn(ses, p, EventsIn(ses, p, h))
WholeIn(ses) == {x \in [pattern : Patterns, host : Hosts] : AllStepsIn(ses, x.pattern, x.host)}

LEMMA SearchStates ==
    /\ \A p, h : Greedy(p, FromSource(h)) = EventsIn(session, p, h)
    /\ \A p, h : Greedy(p, FromSource(h))' = EventsIn(session', p, h)
<1>1. \A h : FromSource(h) = FromIn(session, h)
  BY DEF FromSource, FromIn
<1>2. ASSUME NEW p, NEW h PROVE Greedy(p, FromSource(h))' = EventsIn(session', p, h)
  <2>1. FromSource(h)' = FromIn(session', h)
    BY DEF FromSource, FromIn
  <2>2. Search(p, FromSource(h))' = SearchIn(session', p, FromSource(h)')
    BY Zenon DEF Search, SearchIn, RunsOf, TakesStep, TakesIn, Unread, FromSource
  <2>3. Greedy(p, FromSource(h))' = Search(p, FromSource(h))'[Len(session')].events
    BY DEF Greedy
  <2> QED BY <2>1, <2>2, <2>3 DEF EventsIn
<1> QED BY <1>1, <1>2, SearchIsSearch DEF Greedy, EventsIn

MatchesIn(ses, p, h) ==
    IF Len(EventsIn(ses, p, h)) >= MinMatch[p] /\ GapsIn(ses, p, EventsIn(ses, p, h))
    THEN {[pattern |-> p, host |-> h, events |-> EventsIn(ses, p, h)]} ELSE {}

LEMMA MatchesStates ==
    /\ \A p, h : Matches(p, h, FromSource(h)) = MatchesIn(session, p, h)
    /\ \A p, h : Matches(p, h, FromSource(h))' = MatchesIn(session', p, h)
<1>1. ASSUME NEW p, NEW h PROVE Matches(p, h, FromSource(h)) = MatchesIn(session, p, h)
  BY SearchStates DEF Matches, WithinGaps, MatchesIn, GapsIn
<1>2. ASSUME NEW p, NEW h PROVE Matches(p, h, FromSource(h))' = MatchesIn(session', p, h)
  <2>1. Greedy(p, FromSource(h))' = EventsIn(session', p, h)
    BY SearchStates
  <2>2. WithinGaps(p, Greedy(p, FromSource(h)))' = GapsIn(session', p, EventsIn(session', p, h))
    BY <2>1 DEF WithinGaps, GapsIn
  <2> QED BY <2>1, <2>2 DEF Matches, MatchesIn
<1> QED BY <1>1, <1>2

SourceIn(ses) == UNION {MatchesIn(ses, p, h) : p \in Patterns, h \in Hosts}

LEMMA SourceStates == SourceChains = SourceIn(session) /\ SourceChains' = SourceIn(session')
<1>1. SourceChains = SourceIn(session)
  BY MatchesStates DEF SourceChains, SourceIn
<1>2. SourceChains' = SourceIn(session')
  BY MatchesStates DEF SourceChains, SourceIn
<1> QED BY <1>1, <1>2

WholeBy(ses) ==
    {[pattern |-> c.pattern, host |-> c.host] :
        c \in {d \in SourceIn(ses) : Len(d.events) = Len(Steps[d.pattern])}}

LEMMA WholeStates == Whole = WholeBy(session) /\ Whole' = WholeBy(session')
BY SourceStates DEF Whole, WholeBy

LEMMA WholeByIn ==
    ASSUME NEW ses
    PROVE  WholeBy(ses) = WholeIn(ses)
<1>1. ASSUME NEW x \in WholeBy(ses) PROVE x \in WholeIn(ses)
  <2>1. PICK c \in SourceIn(ses) : Len(c.events) = Len(Steps[c.pattern])
                                  /\ x = [pattern |-> c.pattern, host |-> c.host]
    BY DEF WholeBy
  <2>2. PICK p \in Patterns, h \in Hosts : c \in MatchesIn(ses, p, h)
    BY DEF SourceIn
  <2>3. c = [pattern |-> p, host |-> h, events |-> EventsIn(ses, p, h)] /\ GapsIn(ses, p, EventsIn(ses, p, h))
    BY <2>2 DEF MatchesIn
  <2> QED BY <2>1, <2>3 DEF WholeIn, AllStepsIn
<1>2. ASSUME NEW x \in WholeIn(ses) PROVE x \in WholeBy(ses)
  <2>1. PICK p \in Patterns, h \in Hosts : x = [pattern |-> p, host |-> h] /\ AllStepsIn(ses, p, h)
    BY DEF WholeIn
  <2> DEFINE c == [pattern |-> p, host |-> h, events |-> EventsIn(ses, p, h)]
  <2>2. MinMatch[p] <= Len(Steps[p])
    BY StepsShape
  <2>3. Len(EventsIn(ses, p, h)) >= MinMatch[p]
    BY <2>1, <2>2 DEF AllStepsIn
  <2>4. c \in MatchesIn(ses, p, h)
    BY <2>1, <2>3 DEF MatchesIn, AllStepsIn
  <2>5. c.pattern = p /\ c.host = h /\ Len(c.events) = Len(Steps[c.pattern])
    BY <2>1 DEF AllStepsIn
  <2> HIDE DEF c
  <2>6. c \in SourceIn(ses)
    BY <2>4 DEF SourceIn
  <2> QED BY <2>1, <2>5, <2>6 DEF WholeBy
<1> QED BY <1>1, <1>2

EventMore(ses, more) ==
    /\ Len(ses) \in Nat /\ DOMAIN ses = 1..Len(ses) /\ Len(more) = Len(ses) + 1 /\ DOMAIN more = 1..Len(ses) + 1
    /\ \A n \in 1..Len(ses) : more[n] = ses[n]

\* An event more takes no whole chain away.
LEMMA WholeGrows ==
    ASSUME NEW ses, NEW more, EventMore(ses, more)
    PROVE  WholeIn(ses) \subseteq WholeIn(more)
<1> DEFINE m == Len(ses)
<1>1. /\ m \in Nat /\ DOMAIN ses = 1..m /\ Len(more) = m + 1 /\ DOMAIN more = 1..m + 1
      /\ \A n \in 1..m : more[n] = ses[n]
  BY DEF EventMore
<1> SUFFICES ASSUME NEW p \in Patterns, NEW h \in Hosts, AllStepsIn(ses, p, h)
             PROVE  AllStepsIn(more, p, h)
  BY DEF WholeIn
<1> DEFINE tl == FromIn(ses, h)
           t2 == FromIn(more, h)
           ev == EventsIn(ses, p, h)
<1>2. tl \subseteq 1..m /\ \A n \in 1..m : n \in t2 <=> n \in tl
  BY <1>1 DEF FromIn
<1>3. Extends(ses, more, tl, t2)
  BY <1>1, <1>2 DEF Extends
<1>4. Len(ev) = Len(Steps[p]) /\ GapsIn(ses, p, ev)
  BY DEF AllStepsIn
<1>5. EventsIn(more, p, h) = ev
  <2>1. ev = SearchIn(ses, p, tl)[Len(ses)].events /\ EventsIn(more, p, h) = SearchIn(more, p, t2)[Len(more)].events
    BY DEF EventsIn
  <2> HIDE DEF tl, t2, ev
  <2>2. Len(SearchIn(ses, p, tl)[Len(ses)].events) = Len(Steps[p])
    BY <1>4, <2>1
  <2>3. SearchIn(more, p, t2)[Len(more)].events = SearchIn(ses, p, tl)[Len(ses)].events
    BY <1>3, <2>2, WholeSearchStays
  <2> QED BY <2>1, <2>3
<1>6. FoundReal(ses, p, tl, m, SearchIn(ses, p, tl)[m])
  <2>1. m \in 0..m
    BY <1>1
  <2> QED BY <1>1, <2>1, SearchReal
<1> HIDE DEF m
<1>7. Len(ev) \in Nat /\ \A j \in 1..Len(ev) : ev[j] \in 1..m
  <2>1. ev \in Seq(Nat) /\ \A j \in 1..Len(ev) : ev[j] \in tl
    BY <1>6 DEF FoundReal, EventsIn, m
  <2> QED BY <1>2, <2>1, LenProperties
<1> HIDE DEF ev, tl
<1>8. GapsIn(more, p, ev)
  <2>1. ASSUME NEW j \in 2..Len(ev) PROVE more[ev[j]].at - more[ev[j - 1]].at <= MaxGap[p]
    <3>1. j \in 1..Len(ev) /\ j - 1 \in 1..Len(ev)
      BY <1>7
    <3>2. more[ev[j]] = ses[ev[j]] /\ more[ev[j - 1]] = ses[ev[j - 1]]
      BY <1>1, <1>7, <3>1
    <3> QED BY <1>4, <3>2 DEF GapsIn
  <2> QED BY <2>1 DEF GapsIn
<1> QED BY <1>4, <1>5, <1>8 DEF AllStepsIn, ev

-----------------------------------------------------------------------------
(* The invariant of the chains *)

CorrelationInv == CorrelationTypeOK /\ WholeChainsStay

LEMMA CorrelationInvInit == CorrelationInit => CorrelationInv
BY DEF CorrelationInit, CorrelationInv, CorrelationTypeOK, WholeChainsStay

LEMMA EventStoredKeeps == CorrelationInv /\ EventStored => CorrelationInv'
<1> SUFFICES ASSUME CorrelationInv, EventStored PROVE CorrelationInv'
  OBVIOUS
<1>1. PICK t \in StepTypes, s \in Hosts, d \in Hosts, at \in Newest..MaxMinute :
          session' = Append(session, [type |-> t, src |-> s, dst |-> d, at |-> at])
  BY DEF EventStored
<1> DEFINE e == [type |-> t, src |-> s, dst |-> d, at |-> at]
<1>2. session \in Seq(Event)
  BY DEF CorrelationInv, CorrelationTypeOK
<1>3. e \in Event
  <2>1. Newest \in Nat
    <3>1. CASE session = <<>>
      BY <3>1 DEF Newest
    <3>2. CASE session # <<>>
      <4>1. Len(session) \in 1..Len(session)
        BY <1>2, <3>2, LenProperties, EmptySeq
      <4>2. session[Len(session)] \in Event
        BY <1>2, <4>1, SeqShape
      <4> QED BY <3>2, <4>2 DEF Newest, Last, Event
    <3> QED BY <3>1, <3>2
  <2>2. MaxMinute \in Nat
    BY CorrelationAssumption
  <2>3. at \in 0..MaxMinute
    BY <2>1, <2>2
  <2> QED BY <2>3 DEF Event
<1> HIDE DEF e
<1>4. session' \in Seq(Event)
  BY <1>1, <1>2, <1>3, AppendProperties DEF e
<1>5. Whole \subseteq Whole'
  <2>1. PICK ses : ses = session
    OBVIOUS
  <2>2. PICK more : more = session'
    OBVIOUS
  <2>3. ses \in Seq(Event) /\ more = Append(ses, e)
    BY <1>1, <1>2, <2>1, <2>2 DEF e
  <2>4. EventMore(ses, more)
    BY <1>3, <2>3, AppendProperties, SeqShape DEF EventMore
  <2>6. WholeIn(ses) \subseteq WholeIn(more)
    BY <2>4, WholeGrows
  <2>5. Whole = WholeIn(ses) /\ Whole' = WholeIn(more)
    BY <2>1, <2>2, WholeStates, WholeByIn
  <2> QED BY <2>5, <2>6
<1>6. wholes' = Whole
  BY DEF EventStored
<1> QED BY <1>4, <1>5, <1>6 DEF CorrelationInv, CorrelationTypeOK, WholeChainsStay

LEMMA CorrelationInvStep == CorrelationInv /\ [CorrelationNext]_correlationVars => CorrelationInv'
<1>1. ASSUME CorrelationInv, UNCHANGED correlationVars PROVE CorrelationInv'
  <2>1. session' = session /\ wholes' = wholes
    BY <1>1 DEF correlationVars
  <2>2. Whole' = Whole
    BY <2>1, WholeStates
  <2> QED BY <1>1, <2>1, <2>2 DEF CorrelationInv, CorrelationTypeOK, WholeChainsStay
<1> QED BY <1>1, EventStoredKeeps DEF CorrelationNext

LEMMA CorrelationInvSound == CorrelationInv => ChainsFound
BY ChainsReal, OrderlyFound, NoneHidden DEF CorrelationInv, ChainsFound

-----------------------------------------------------------------------------
(* The invariants of the composition *)

\* The window gives every message to one call, the cache no verdict that is older than it
\* says, or than the process's own last one, and a baseline never more than the last decay
\* that Redis keeps left and was counted since, its counts never more than its total
\* (memory/, audit_cache.py, anomaly_detector.py).
THEOREM ShortTermIsSound == Spec => []ShortTermSound
<1>1. Init => WindowInv /\ CacheInv /\ BaselinesInv
  BY WindowInvInit, CacheInvInit, BaselinesInvInit DEF Init
<1>2. WindowInv /\ CacheInv /\ BaselinesInv /\ [Next]_vars => WindowInv' /\ CacheInv' /\ BaselinesInv'
  BY PartSteps, WindowInvStep, CacheInvStep, BaselinesInvStep
<1>3. WindowInv /\ CacheInv /\ BaselinesInv => ShortTermSound
  BY WindowInvSound, CacheInvSound, BaselinesInvSound DEF ShortTermSound
<1> QED BY <1>1, <1>2, <1>3, PTL DEF Spec

\* Every packet is in one flow record, in an open flow or still to come, none in two, but for
\* records that were lost by a fault; the records of a flow follow each other; and the files
\* of packets hold every packet once and in order (flow_aggregator.py, pcap_storage.py).
THEOREM CaptureIsSound == Spec => []CaptureSound
<1>1. Init => FlowsInv /\ FilesInv
  BY FlowsInvInit, FilesInvInit DEF Init
<1>2. FlowsInv /\ FilesInv /\ [Next]_vars => FlowsInv' /\ FilesInv'
  BY PartSteps, FlowsInvStep, FilesInvStep
<1>3. FlowsInv /\ FilesInv => CaptureSound
  BY FlowsInvSound, FilesInvSound DEF CaptureSound
<1> QED BY <1>1, <1>2, <1>3, PTL DEF Spec

\* Every chain that is found is one in its session, whatever its length and that of the
\* patterns; a complete and orderly one is found, and is found again after any later event;
\* and dropping chains hides no event of one (correlation_engine.py).
THEOREM CorrelationIsSound == Spec => []ChainsFound
<1>1. Init => CorrelationInv
  BY CorrelationInvInit DEF Init
<1>2. CorrelationInv /\ [Next]_vars => CorrelationInv'
  BY PartSteps, CorrelationInvStep
<1>3. CorrelationInv => ChainsFound
  BY CorrelationInvSound
<1> QED BY <1>1, <1>2, <1>3, PTL DEF Spec

\* The gate of LLM calls in the composition (llm/limiter.py).
THEOREM GateIsSound == Spec => []LimiterSound
<1>1. Init => LimiterInv
  BY LimiterInvInit DEF Init
<1>2. LimiterInv /\ [Next]_vars => LimiterInv'
  BY PartSteps, LimiterInvStep
<1>3. LimiterInv => LimiterSound
  BY LimiterInvSound
<1> QED BY <1>1, <1>2, <1>3, PTL DEF Spec

\* The event bus shows every event at most once and leaves out none but for its key; a
\* browser that is connected and waits has every event of this boot, or knows of the hole,
\* over any lost connections, full queues and restarts (event_bus.py, routers/chat.py,
\* eventStream.ts).
THEOREM EventBusIsSound == Spec => []EventBusSound
<1>1. Init => StreamInv /\ BridgeInv
  BY StreamInvInit, BridgeInvInit DEF Init
<1>2. StreamInv /\ BridgeInv /\ [Next]_vars => StreamInv' /\ BridgeInv'
  BY PartSteps, StreamInvStep, BridgeInvStep
<1>3. StreamInv /\ BridgeInv => EventBusSound
  BY StreamInvSound, BridgeInvSound DEF EventBusSound
<1> QED BY <1>1, <1>2, <1>3, PTL DEF Spec

\* What a browser receives and has not seen is newer than all it has seen, as long as no
\* replay of it began behind an event in its queue (routers/chat.py, eventStream.ts).
THEOREM EventsStayInOrder == Spec => InOrder
<1>1. Init => StreamInv
  BY StreamInvInit DEF Init
<1>2. StreamInv /\ [Next]_vars => StreamInv'
  BY PartSteps, StreamInvStep
<1>3. StreamInv /\ [Next]_vars
        => [\A c \in Clients \ late' : epoch'[c] = epoch[c] =>
              \A s \in seen'[c] \ seen[c] : \A u \in seen[c] : u < s]_streamVars
  BY PartSteps, InOrderStep
<1> QED BY <1>1, <1>2, <1>3, PTL DEF Spec, InOrder
=============================================================================
