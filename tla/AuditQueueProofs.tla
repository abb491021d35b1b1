---------------------------- MODULE AuditQueueProofs ----------------------------
(* Proofs about AuditQueue, for any events, TTLs that satisfy TtlAssumption,   *)
(* limits and bounds.                                                          *)
EXTENDS AuditQueue, FiniteSetTheorems, TLAPS

USE QueueAssumption

Jobs == [at : 0..MaxNow, retry : 0..Retries]

\* TypeOK, one part for each group of variables.
StoreType ==
    /\ now \in 0..MaxNow
    /\ members \subseteq Events /\ score \in [Events -> 0..MaxNow] /\ keyEnd \in Nat
    /\ payload \in [Events -> Jobs \cup {NoJob}]

DrainType ==
    /\ pc \in DrainPc
    /\ cur \in Events \cup {NoEvent} /\ (cur \in Events <=> pc \in Taken)
    /\ hand \in Jobs \cup {NoJob}
    /\ pc \in (Taken \ {"get", "delete"}) \cup {"take"} => hand # NoJob
    /\ pc = "retry" => hand.retry < Retries
    /\ todo \in Seq(Events) /\ (pc \in {"take", "zrem"} => todo # <<>>)
    /\ left \in 0..Batch /\ routed \in BOOLEAN
    /\ pc = "stats" => left > 0

CountType ==
    /\ offers \in [Events -> Nat] /\ handled \in [Events -> Nat]
    /\ owed \subseteq Events /\ expired \subseteq owed

BoundType ==
    /\ inflight \in 0..Limit
    /\ starts \in 0..MaxStarts /\ pressure \in 0..MaxPressure
    /\ faults \in 0..MaxFaults

LEMMA TypeParts == TypeOK <=> StoreType /\ DrainType /\ CountType /\ BoundType
BY DEF TypeOK, StoreType, DrainType, CountType, BoundType, Jobs

LEMMA TypePartsNext == StoreType' /\ DrainType' /\ CountType' /\ BoundType' => TypeOK'
BY DEF TypeOK, StoreType, DrainType, CountType, BoundType, Jobs
-----------------------------------------------------------------------------
(* What the helpers preserve *)

\* A pipeline of enqueue() leaves a well-formed queue.
LEMMA PutType ==
    ASSUME StoreType, NEW e \in Events, NEW r \in 0..Retries, Put(e, r), now' = now
    PROVE  StoreType'
<1>1. Job(now, r) \in Jobs
  BY DEF Job, Jobs, StoreType
<1>2. KeyLife(e) \in Nat
  BY DEF KeyLife, Larger
<1> QED BY <1>1, <1>2 DEF StoreType, Put

\* Every way in which a step of the drain takes away from the queue.
Shrinks ==
    /\ now' = now /\ score' = score /\ keyEnd' = keyEnd
    /\ members' \subseteq members
    /\ payload' \in [Events -> Jobs \cup {NoJob}]
    /\ \A e \in Events : payload'[e] \in {payload[e], NoJob}

LEMMA ShrinkType == ASSUME StoreType, Shrinks PROVE StoreType'
BY DEF StoreType, Shrinks

\* The drain at the beginning of a round or of a purge.
LEMMA IdleType ==
    ASSUME cur' = NoEvent, hand' \in Jobs \cup {NoJob}, todo' \in Seq(Events),
           pc' \in {"stats", "list"}, left' \in 0..Batch, routed' \in BOOLEAN,
           pc' = "stats" => left' > 0
    PROVE  DrainType'
<1>1. pc' \notin Taken /\ pc' \in DrainPc /\ pc' \notin {"take", "zrem"} /\ pc' # "retry"
  BY DEF DrainPc, Taken
<1> QED BY <1>1 DEF DrainType

LEMMA EndRoundType == ASSUME DrainType, EndRound PROVE DrainType'
<1>1. pc' \in {"stats", "list"} /\ left' \in 0..Batch /\ (pc' = "stats" => left' > 0)
  BY DEF DrainType, EndRound, NewRound
<1>2. routed' \in BOOLEAN
  BY DEF DrainType, EndRound, NewRound
<1>3. cur' = NoEvent /\ hand' = NoJob /\ todo' \in Seq(Events)
  BY DEF EndRound
<1> QED BY <1>1, <1>2, <1>3, IdleType

\* The next round after a purge.
LEMMA RestType ==
    ASSUME DrainType, NewRound, pc \notin Taken, cur' = cur, hand' = hand, todo' \in Seq(Events)
    PROVE  DrainType'
<1>1. pc' = "stats" /\ left' = Batch
  BY DEF NewRound
<1>2. left' \in 0..Batch /\ left' > 0
  BY <1>1
<1>3. routed' \in BOOLEAN
  BY DEF NewRound
<1>4. cur' = NoEvent /\ hand' \in Jobs \cup {NoJob}
  BY DEF DrainType
<1> QED BY <1>1, <1>2, <1>3, <1>4, IdleType

LEMMA NextJobType ==
    ASSUME DrainType, NEW done \in BOOLEAN, NextJob(done)
    PROVE  DrainType'
<1>1. pc' \in {"stats", "list"} /\ left' \in 0..Batch /\ (pc' = "stats" => left' > 0)
  BY DEF DrainType, NextJob, NewRound
<1>2. routed' \in BOOLEAN
  BY DEF DrainType, NextJob, NewRound
<1>3. cur' = NoEvent /\ hand' = NoJob /\ todo' \in Seq(Events)
  BY DEF NextJob
<1> QED BY <1>1, <1>2, <1>3, IdleType

\* The drain between two looks at the sorted set.
LEMMA LookingType ==
    ASSUME DrainType, cur' = cur, left' = left, routed' = routed, pc \notin Taken,
           pc' \in {"look", "take", "exists", "zrem"},
           hand' \in Jobs \cup {NoJob}, pc' = "take" => hand' # NoJob,
           todo' \in Seq(Events), pc' \in {"take", "zrem"} => todo' # <<>>
    PROVE  DrainType'
<1>1. pc' \notin Taken /\ pc' \in DrainPc /\ pc' # "retry" /\ pc' # "stats"
  BY DEF DrainPc, Taken
<1>2. cur' \notin Events /\ cur' \in Events \cup {NoEvent}
  BY DEF DrainType
<1>3. left' \in 0..Batch /\ routed' \in BOOLEAN
  BY DEF DrainType
<1> QED BY <1>1, <1>2, <1>3 DEF DrainType

LEMMA DecideType ==
    ASSUME DrainType, pc \in {"delete", "drop"}, hand # NoJob, Decide(cur)
    PROVE  DrainType'
<1>1. cur \in Events /\ hand \in Jobs
  BY DEF DrainType, Taken
<1>2. pc' \in {"retry", "close", "start", "route"} /\ (pc' = "retry" => hand.retry < Retries)
  BY DEF Decide
<1> QED BY <1>1, <1>2 DEF Decide, DrainType, DrainPc, Taken

\* A listing is a sequence of members, of any length.
LEMMA ListingType ==
    ASSUME StoreType, NEW n \in Nat, NEW s \in Listing(n)
    PROVE  s \in Seq(members) /\ \A i \in 1..Len(s) : s[i] \in members
<1>1. IsFiniteSet(members)
  BY FS_Subset DEF StoreType
<1>2. Cardinality(members) \in Nat
  BY <1>1, FS_CardinalityType
<1> DEFINE k == IF Cardinality(members) < n THEN Cardinality(members) ELSE n
<1>3. k \in Nat /\ s \in [1..k -> members]
  BY <1>2 DEF Listing
<1> HIDE DEF k
<1> QED BY <1>3

\* The last element but one comes first when the first is gone.
LEMMA TailType ==
    ASSUME NEW S, NEW s \in Seq(S), s # <<>>
    PROVE  /\ Tail(s) \in Seq(S) /\ Head(s) \in S
           /\ Len(Tail(s)) = Len(s) - 1
           /\ \A i \in 1..Len(Tail(s)) : Tail(s)[i] = s[i + 1]
           /\ Len(s) > 0 /\ Head(s) = s[1]
OBVIOUS
-----------------------------------------------------------------------------
(* Type correctness *)

LEMMA Shrinking ==
    ASSUME StoreType, now' = now, score' = score, keyEnd' = keyEnd, members' \subseteq members,
           \/ payload' = payload
           \/ \E e \in Events : payload' = [payload EXCEPT ![e] = NoJob]
    PROVE  Shrinks
BY DEF StoreType, Shrinks

\* The steps that read and pop only take away from the queue.
LEMMA PopStepType ==
    ASSUME StoreType, DrainType, PopStep
    PROVE  Shrinks /\ DrainType'
<1>1. now' = now
  BY DEF PopStep
<1>2. CASE Stats
  <2>1. Shrinks
    BY <1>1, <1>2, Shrinking DEF Stats, redisVars
  <2>2. pc' \in {"scan", "pop"} /\ left' \in 0..Batch
    BY <1>2 DEF Stats, DrainType
  <2>3. DrainType'
    BY <1>2, <2>2 DEF Stats, DrainType, DrainPc, Taken
  <2> QED BY <2>1, <2>3
<1>3. CASE Pop
  <2>1. PICK e \in members : members' = members \ {e} /\ cur' = e
    BY <1>3 DEF Pop
  <2>2. Shrinks
    BY <1>1, <1>3, <2>1, Shrinking DEF Pop
  <2>3. DrainType'
    BY <1>3, <2>1 DEF Pop, DrainType, StoreType, DrainPc, Taken
  <2> QED BY <2>2, <2>3
<1>4. CASE PopEmpty
  BY <1>1, <1>4, Shrinking, EndRoundType DEF PopEmpty, redisVars
<1>5. CASE Get
  <2>1. Shrinks
    BY <1>1, <1>5, Shrinking DEF Get, redisVars
  <2>2. cur \in Events /\ hand' \in Jobs \cup {NoJob}
    BY <1>5 DEF Get, DrainType, StoreType, Taken
  <2>3. DrainType'
    BY <1>5, <2>2 DEF Get, DrainType, DrainPc, Taken
  <2> QED BY <2>1, <2>3
<1>6. CASE Delete
  <2>1. cur \in Events
    BY <1>6 DEF Delete, DrainType, Taken
  <2>2. Shrinks
    BY <1>1, <1>6, <2>1, Shrinking DEF Delete
  <2>3. DrainType'
    BY <1>6, EndRoundType, DecideType DEF Delete
  <2> QED BY <2>2, <2>3
<1>7. CASE Scan
  <2>1. Shrinks
    BY <1>1, <1>7, Shrinking DEF Scan, redisVars
  <2>2. todo' \in Seq(members)
    BY <1>7, ListingType DEF Scan
  <2>3. todo' \in Seq(Events)
    BY <2>2 DEF StoreType
  <2>4. DrainType'
    BY <1>7, <2>3 DEF Scan, DrainType, DrainPc, Taken
  <2> QED BY <2>1, <2>4
<1>8. CASE Look
  <2>1. Shrinks
    BY <1>1, <1>8, Shrinking DEF Look, redisVars
  <2>2. todo \in Seq(Events) /\ todo # <<>> /\ pc = "look"
    BY <1>8 DEF Look, DrainType
  <2>3. Head(todo) \in Events /\ Tail(todo) \in Seq(Events)
    BY <2>2, TailType
  <2>4. CASE payload[Head(todo)] = NoJob \/ Head(todo) \in Agent
    <3>1. /\ todo' = Tail(todo) /\ pc' = "look" /\ hand' = hand
          /\ cur' = cur /\ left' = left /\ routed' = routed
      BY <1>8, <2>2, <2>4 DEF Look
    <3>2. hand \in Jobs \cup {NoJob} /\ pc \notin Taken
      BY <2>2 DEF DrainType, Taken
    <3> QED BY <2>1, <2>3, <3>1, <3>2, LookingType
  <2>5. CASE ~(payload[Head(todo)] = NoJob \/ Head(todo) \in Agent)
    <3>1. /\ hand' \in Jobs /\ hand' # NoJob /\ pc' = "take" /\ todo' = todo
          /\ cur' = cur /\ left' = left /\ routed' = routed
      BY <1>8, <2>3, <2>5 DEF Look, StoreType
    <3>2. pc \notin Taken
      BY <2>2 DEF Taken
    <3> QED BY <2>1, <2>2, <3>1, <3>2, LookingType
  <2> QED BY <2>1, <2>4, <2>5
<1>9. CASE LookEnds
  BY <1>1, <1>9, Shrinking, EndRoundType DEF LookEnds, redisVars
<1>10. CASE Take
  <2>1. Shrinks
    BY <1>1, <1>10, Shrinking DEF Take
  <2>2. todo \in Seq(Events) /\ todo # <<>> /\ pc = "take" /\ hand # NoJob
    BY <1>10 DEF Take, DrainType
  <2>3. Head(todo) \in Events /\ Tail(todo) \in Seq(Events)
    BY <2>2, TailType
  <2>4. CASE Head(todo) \in members
    <3>1. /\ pc' = "drop" /\ cur' \in Events /\ hand' = hand /\ todo' = todo
          /\ left' = left /\ routed' = routed
      BY <1>10, <2>3, <2>4 DEF Take
    <3> QED BY <2>1, <2>2, <3>1 DEF DrainType, DrainPc, Taken
  <2>5. CASE Head(todo) \notin members
    <3>1. /\ pc' = "look" /\ hand' = NoJob /\ todo' = Tail(todo)
          /\ cur' = cur /\ left' = left /\ routed' = routed
      BY <1>10, <2>5 DEF Take
    <3>2. pc \notin Taken
      BY <2>2 DEF Taken
    <3> QED BY <2>1, <2>3, <3>1, <3>2, LookingType
  <2> QED BY <2>1, <2>4, <2>5
<1>11. CASE Drop
  <2>1. cur \in Events /\ hand # NoJob
    BY <1>11 DEF Drop, DrainType, Taken
  <2>2. Shrinks
    BY <1>1, <1>11, <2>1, Shrinking DEF Drop
  <2>3. DrainType'
    BY <1>11, <2>1, DecideType DEF Drop
  <2> QED BY <2>2, <2>3
<1>12. CASE List
  <2>1. Shrinks
    BY <1>1, <1>12, Shrinking DEF List, redisVars
  <2>2. todo' \in Seq(members)
    BY <1>12, ListingType DEF List
  <2>3. todo' \in Seq(Events)
    BY <2>2 DEF StoreType
  <2>4. DrainType'
    BY <1>12, <2>3 DEF List, DrainType, DrainPc, Taken
  <2> QED BY <2>1, <2>4
<1>13. CASE Exists
  <2>1. Shrinks
    BY <1>1, <1>13, Shrinking DEF Exists, redisVars
  <2>2. todo \in Seq(Events) /\ todo # <<>> /\ pc = "exists"
    BY <1>13 DEF Exists, DrainType
  <2>3. Tail(todo) \in Seq(Events)
    BY <2>2, TailType
  <2>4. DrainType'
    BY <1>13, <2>2, <2>3 DEF Exists, DrainType, DrainPc, Taken
  <2> QED BY <2>1, <2>4
<1>14. CASE ZRem
  <2>1. Shrinks
    BY <1>1, <1>14, Shrinking DEF ZRem
  <2>2. todo \in Seq(Events) /\ todo # <<>> /\ pc = "zrem"
    BY <1>14 DEF ZRem, DrainType
  <2>3. Tail(todo) \in Seq(Events)
    BY <2>2, TailType
  <2>4. DrainType'
    BY <1>14, <2>2, <2>3 DEF ZRem, DrainType, DrainPc, Taken
  <2> QED BY <2>1, <2>4
<1>15. CASE PurgeEnds
  <2>1. Shrinks
    BY <1>1, <1>15, Shrinking DEF PurgeEnds, redisVars
  <2>2. pc \notin Taken /\ cur' = cur /\ hand' = hand /\ todo' = todo
    BY <1>15 DEF PurgeEnds, Taken
  <2>3. DrainType'
    <3>1. todo' \in Seq(Events) /\ NewRound
      BY <1>15, <2>2 DEF PurgeEnds, DrainType
    <3> QED BY <2>2, <3>1, RestType
  <2> QED BY <2>1, <2>3
<1> QED BY <1>2, <1>3, <1>4, <1>5, <1>6, <1>7, <1>8, <1>9, <1>10, <1>11, <1>12,
           <1>13, <1>14, <1>15 DEF PopStep

\* Redis calls that fail before or after the server executed them.
LEMMA FailedPopType ==
    ASSUME StoreType, DrainType, PopFails, now' = now
    PROVE  Shrinks /\ DrainType'
<1>1. DrainType'
  BY EndRoundType DEF PopFails
<1>2. CASE UNCHANGED redisVars
  BY <1>1, <1>2, Shrinking DEF redisVars
<1>3. CASE members' \subseteq members /\ UNCHANGED <<score, keyEnd, payload>>
  BY <1>1, <1>3, Shrinking
<1>4. CASE /\ pc \in {"delete", "drop"} /\ payload' = [payload EXCEPT ![cur] = NoJob]
           /\ UNCHANGED <<members, score, keyEnd>>
  <2>1. cur \in Events
    BY <1>4 DEF DrainType, Taken
  <2> QED BY <1>1, <1>4, <2>1, Shrinking
<1> QED BY <1>2, <1>3, <1>4 DEF PopFails

LEMMA FailedPurgeType ==
    ASSUME StoreType, DrainType, PurgeFails, now' = now
    PROVE  Shrinks /\ DrainType'
<1>1. pc \notin Taken /\ NewRound /\ todo' \in Seq(Events) /\ cur' = cur /\ hand' = hand
  BY DEF PurgeFails, Taken
<1>2. DrainType'
  BY <1>1, RestType
<1>3. Shrinks
  BY Shrinking DEF PurgeFails
<1> QED BY <1>2, <1>3

LEMMA FailedStatsType ==
    ASSUME StoreType, DrainType, StatsFails, now' = now
    PROVE  Shrinks /\ DrainType'
<1>1. Shrinks
  BY Shrinking DEF StatsFails, redisVars
<1>2. /\ pc = "stats" /\ pc' = "pop" /\ left' \in 0..Batch /\ routed' = routed
      /\ UNCHANGED <<cur, hand, todo>>
  BY DEF StatsFails, DrainType
<1>3. DrainType'
  BY <1>2 DEF DrainType, DrainPc, Taken
<1> QED BY <1>1, <1>3

\* The drain after it has put its job back, or has got rid of it.
LEMMA LeaveType ==
    ASSUME DrainType, EndRound \/ \E done \in BOOLEAN : NextJob(done)
    PROVE  DrainType' /\ cur' = NoEvent /\ pc' \in {"stats", "list"} /\ todo' = <<>>
<1>1. CASE EndRound
  BY <1>1, EndRoundType DEF EndRound, NewRound
<1>2. ASSUME NEW done \in BOOLEAN, NextJob(done)
      PROVE  DrainType' /\ cur' = NoEvent /\ pc' \in {"stats", "list"} /\ todo' = <<>>
  <2>1. DrainType'
    BY <1>2, NextJobType
  <2> QED BY <1>2, <2>1 DEF NextJob, NewRound
<1> QED BY <1>1, <1>2

\* What the drain puts back is a job of the event in its hands.
LEMMA PutBackType ==
    ASSUME StoreType, DrainType, now' = now,
           \/ pc = "retry" /\ Put(cur, hand.retry + 1)
           \/ pc = "requeue" /\ Put(cur, hand.retry)
    PROVE  StoreType' /\ cur \in Events /\ \E r \in 0..Retries : Put(cur, r)
<1>1. cur \in Events /\ hand \in Jobs
  BY DEF DrainType, Taken
<1>2. hand.retry \in 0..Retries /\ (pc = "retry" => hand.retry + 1 \in 0..Retries)
  BY <1>1 DEF DrainType, Jobs
<1>3. \E r \in 0..Retries : Put(cur, r)
  BY <1>2
<1> QED BY <1>1, <1>3, PutType

LEMMA InitType == Init => TypeOK
<1> SUFFICES ASSUME Init PROVE TypeOK
  OBVIOUS
<1>1. StoreType
  BY DEF Init, StoreType
<1>2. DrainType
  <2>1. pc = "stats" /\ cur = NoEvent /\ hand = NoJob /\ todo \in Seq(Events) /\ left = Batch
    BY DEF Init
  <2>2. left \in 0..Batch /\ left > 0
    BY <2>1
  <2>3. routed \in BOOLEAN
    BY DEF Init
  <2> QED BY <2>1, <2>2, <2>3 DEF DrainType, DrainPc, Taken
<1>3. CountType /\ BoundType
  BY DEF Init, CountType, BoundType
<1> QED BY <1>1, <1>2, <1>3, TypeParts

LEMMA StepType == TypeOK /\ [Next]_vars => TypeOK'
<1> SUFFICES ASSUME TypeOK, [Next]_vars PROVE TypeOK'
  OBVIOUS
<1>0. StoreType /\ DrainType /\ CountType /\ BoundType
  BY TypeParts
<1>1. ASSUME NEW e \in Events, Offer(e) PROVE TypeOK'
  <2>1. StoreType'
    <3>1. Put(e, 0) /\ now' = now /\ 0 \in 0..Retries
      BY <1>1 DEF Offer
    <3> QED BY <1>0, <3>1, PutType
  <2>2. DrainType'
    BY <1>0, <1>1 DEF Offer, drainVars, DrainType
  <2>3. CountType' /\ BoundType'
    BY <1>0, <1>1 DEF Offer, CountType, BoundType, boundVars
  <2> QED BY <2>1, <2>2, <2>3, TypePartsNext
<1>2. CASE Tick
  <2>1. StoreType'
    BY <1>0, <1>2 DEF Tick, StoreType
  <2>2. DrainType'
    BY <1>0, <1>2 DEF Tick, drainVars, DrainType
  <2>3. CountType' /\ BoundType'
    BY <1>0, <1>2 DEF Tick, CountType, BoundType, boundVars
  <2> QED BY <2>1, <2>2, <2>3, TypePartsNext
<1>3. CASE PopStep
  <2>1. StoreType' /\ DrainType'
    BY <1>0, <1>3, PopStepType, ShrinkType
  <2>2. CountType' /\ BoundType'
    BY <1>0, <1>3 DEF PopStep, CountType, BoundType, countVars, boundVars
  <2> QED BY <2>1, <2>2, TypePartsNext
<1>4. CASE Retry \/ Requeue
  <2>1. StoreType'
    BY <1>0, <1>4, PutBackType DEF Retry, Requeue
  <2>2. DrainType'
    BY <1>0, <1>4, LeaveType DEF Retry, Requeue
  <2>3. CountType' /\ BoundType'
    BY <1>0, <1>4 DEF Retry, Requeue, CountType, BoundType, countVars, boundVars
  <2> QED BY <2>1, <2>2, <2>3, TypePartsNext
<1>5. CASE Close \/ Start \/ Route
  <2>1. StoreType'
    BY <1>0, <1>5 DEF Close, Start, Route, redisVars, StoreType
  <2>2. cur \in Events /\ hand # NoJob
    BY <1>0, <1>5 DEF Close, Start, Route, DrainType, Taken
  <2>3. DrainType'
    <3>1. CASE EndRound \/ \E done \in BOOLEAN : NextJob(done)
      BY <1>0, <3>1, LeaveType
    <3>2. CASE pc' \in {"requeue", "route"} /\ UNCHANGED <<cur, hand, todo, left, routed>>
      BY <1>0, <2>2, <3>2 DEF DrainType, DrainPc, Taken
    <3> QED BY <1>5, <3>1, <3>2 DEF Close, Start, Route
  <2>4. CountType'
    <3>1. CASE Done(cur)
      BY <1>0, <2>2, <3>1 DEF Done, CountType
    <3>2. CASE UNCHANGED countVars
      BY <1>0, <3>2 DEF countVars, CountType
    <3> QED BY <1>5, <3>1, <3>2 DEF Close, Start, Route
  <2>5. BoundType'
    <3>1. CASE Close
      BY <1>0, <3>1 DEF Close, BoundType, boundVars
    <3>2. CASE Start
      <4>1. /\ inflight \in 0..Limit
            /\ \/ inflight' = inflight
               \/ ~(inflight >= Limit) /\ inflight' = inflight + 1
        BY <1>0, <3>2 DEF Start, BoundType, AgentFull
      <4>2. inflight' \in 0..Limit
        BY <4>1
      <4> QED BY <1>0, <3>2, <4>2 DEF Start, BoundType, boundVars
    <3>3. CASE Route
      <4>1. /\ pressure \in 0..MaxPressure
            /\ \/ pressure' = pressure
               \/ pressure < MaxPressure /\ pressure' = pressure + 1
        BY <1>0, <3>3 DEF Route, BoundType
      <4>2. pressure' \in 0..MaxPressure
        BY <4>1
      <4> QED BY <1>0, <3>3, <4>2 DEF Route, BoundType
    <3> QED BY <1>5, <3>1, <3>2, <3>3
  <2> QED BY <2>1, <2>3, <2>4, <2>5, TypePartsNext
<1>6. CASE Fails
  <2>1. faults' \in 0..MaxFaults /\ now' = now
    BY <1>0, <1>6 DEF Fails, BoundType
  <2>2. CountType' /\ BoundType'
    BY <1>0, <1>6, <2>1 DEF Fails, CountType, BoundType, countVars
  <2>3. CASE PopFails \/ PurgeFails \/ StatsFails
    <3>1. StoreType' /\ DrainType'
      BY <1>0, <2>1, <2>3, FailedPopType, FailedPurgeType, FailedStatsType, ShrinkType
    <3> QED BY <2>2, <3>1, TypePartsNext
  <2>4. CASE PutFails \/ CloseFails
    <3>1. DrainType'
      BY <1>0, <2>4, LeaveType DEF PutFails, CloseFails
    <3>2. StoreType'
      <4>1. CASE UNCHANGED redisVars
        BY <1>0, <2>1, <4>1 DEF redisVars, StoreType
      <4> QED BY <1>0, <2>1, <2>4, <4>1, PutBackType DEF PutFails, CloseFails
    <3> QED BY <2>2, <3>1, <3>2, TypePartsNext
  <2> QED BY <1>6, <2>3, <2>4 DEF Fails
<1>7. CASE Crash
  <2>1. StoreType'
    BY <1>0, <1>7 DEF Crash, redisVars, StoreType
  <2>2. CountType' /\ BoundType'
    BY <1>0, <1>7 DEF Crash, CountType, BoundType, countVars
  <2>3. DrainType'
    <3>1. /\ cur' = NoEvent /\ hand' = NoJob /\ todo' \in Seq(Events) /\ pc' = "stats"
          /\ left' \in 0..Batch /\ left' > 0
      BY <1>7 DEF Crash, NewRound
    <3>2. routed' \in BOOLEAN
      BY <1>7 DEF Crash, NewRound
    <3> QED BY <3>1, <3>2, IdleType
  <2> QED BY <2>1, <2>2, <2>3, TypePartsNext
<1>8. CASE OtherStarts \/ WorkflowEnds
  <2>1. StoreType' /\ CountType'
    BY <1>0, <1>8 DEF OtherStarts, WorkflowEnds, redisVars, StoreType, countVars, CountType
  <2>2. DrainType'
    BY <1>0, <1>8 DEF OtherStarts, WorkflowEnds, drainVars, DrainType
  <2>3. BoundType'
    BY <1>0, <1>8 DEF OtherStarts, WorkflowEnds, BoundType, boundVars, AgentFull
  <2> QED BY <2>1, <2>2, <2>3, TypePartsNext
<1>9. CASE UNCHANGED vars
  <2>1. StoreType' /\ CountType' /\ BoundType'
    BY <1>0, <1>9 DEF vars, redisVars, countVars, boundVars, StoreType, CountType, BoundType
  <2>2. DrainType'
    BY <1>0, <1>9 DEF vars, drainVars, DrainType
  <2> QED BY <2>1, <2>2, TypePartsNext
<1> QED BY <1>1, <1>2, <1>3, <1>4, <1>5, <1>6, <1>7, <1>8, <1>9 DEF Next, DrainStep

\* The drain never holds a job it does not have, and counts, retries and
\* positions stay in their ranges.
THEOREM TypeCorrect == Spec => []TypeOK
<1>1. Init => TypeOK
  BY InitType
<1>2. TypeOK /\ [Next]_vars => TypeOK'
  BY StepType
<1> QED BY <1>1, <1>2, PTL DEF Spec
-----------------------------------------------------------------------------
(* The sorted set and its payloads *)

\* What a step can do to the queue: take away, enqueue, or let time pass.
LEMMA StoreStep ==
    ASSUME TypeOK, [Next]_vars
    PROVE  \/ Shrinks
           \/ now' = now /\ \E e \in Events, r \in 0..Retries : Put(e, r)
           \/ Tick
<1>0. StoreType /\ DrainType
  BY TypeParts
<1> DEFINE Goal == \/ Shrinks
                   \/ now' = now /\ \E e \in Events, r \in 0..Retries : Put(e, r)
                   \/ Tick
<1>1. CASE now' = now /\ UNCHANGED redisVars
  BY <1>0, <1>1, Shrinking DEF redisVars
<1>2. ASSUME NEW e \in Events, Offer(e) PROVE Goal
  <2>1. now' = now /\ Put(e, 0) /\ 0 \in 0..Retries
    BY <1>2 DEF Offer
  <2> QED BY <2>1
<1>3. CASE PopStep
  BY <1>0, <1>3, PopStepType
<1>4. CASE Retry \/ Requeue
  <2>1. now' = now /\ \E r \in 0..Retries : Put(cur, r)
    BY <1>0, <1>4, PutBackType DEF Retry, Requeue
  <2>2. cur \in Events
    BY <1>0, <1>4 DEF Retry, Requeue, DrainType, Taken
  <2> QED BY <2>1, <2>2
<1>5. CASE Close \/ Start \/ Route \/ Crash \/ OtherStarts \/ WorkflowEnds
  BY <1>1, <1>5 DEF Close, Start, Route, Crash, OtherStarts, WorkflowEnds
<1>6. CASE Fails
  <2>1. now' = now
    BY <1>6 DEF Fails
  <2>2. CASE PopFails \/ PurgeFails \/ StatsFails
    BY <1>0, <2>1, <2>2, FailedPopType, FailedPurgeType, FailedStatsType
  <2>3. CASE CloseFails
    BY <1>1, <2>1, <2>3 DEF CloseFails
  <2>4. CASE PutFails
    <3>1. CASE UNCHANGED redisVars
      BY <1>1, <2>1, <3>1
    <3>2. CASE ~UNCHANGED redisVars
      <4>1. \E r \in 0..Retries : Put(cur, r)
        BY <1>0, <2>1, <2>4, <3>2, PutBackType DEF PutFails
      <4>2. cur \in Events
        BY <1>0, <2>4 DEF PutFails, DrainType, Taken
      <4> QED BY <2>1, <4>1, <4>2
    <3> QED BY <3>1, <3>2
  <2> QED BY <1>6, <2>2, <2>3, <2>4 DEF Fails
<1>7. CASE UNCHANGED vars
  BY <1>1, <1>7 DEF vars
<1> QED BY <1>2, <1>3, <1>4, <1>5, <1>6, <1>7 DEF Next, DrainStep

\* No payload is from the future.
PayloadsPast == \A e \in Events : payload[e] # NoJob => payload[e].at <= now

StoreInv == TypeOK /\ PayloadsPast /\ SetOutlivesPayloads

\* The expiry that one enqueue sets covers the life of every payload there is.
LEMMA LifeCovered ==
    ASSUME NEW e \in Events, NEW f \in Events
    PROVE  Life(f) \in Nat \ {0} /\ KeyLife(e) \in Nat /\ Life(f) <= KeyLife(e)
<1>1. Ttl[e] \in Nat \ {0} /\ Ttl[f] \in Nat \ {0} /\ Ttl[f] <= 2 * Ttl[e]
  BY TtlAssumption
<1> QED BY <1>1 DEF Life, KeyLife, Larger

LEMMA PutOutlives ==
    ASSUME StoreInv, NEW e \in Events, NEW r \in 0..Retries, Put(e, r), now' = now
    PROVE  PayloadsPast' /\ SetOutlivesPayloads'
<1>1. StoreType /\ PayloadsPast /\ SetOutlivesPayloads
  BY TypeParts DEF StoreInv
<1>2. now \in Nat /\ keyEnd' = now + KeyLife(e) /\ payload'[e].at = now
  BY <1>1 DEF Put, Job, StoreType
<1>3. \A f \in Events \ {e} : payload'[f] = payload[f]
  BY <1>1 DEF Put, StoreType
<1>4. \A f \in Events : payload'[f] # NoJob => payload'[f].at <= now /\ payload'[f].at \in Nat
  <2> SUFFICES ASSUME NEW f \in Events, payload'[f] # NoJob
               PROVE  payload'[f].at <= now /\ payload'[f].at \in Nat
    OBVIOUS
  <2>1. CASE f = e
    BY <1>2, <2>1
  <2>2. CASE f # e
    <3>1. payload[f] # NoJob /\ payload'[f] = payload[f]
      BY <1>3, <2>2
    <3>2. payload[f] \in Jobs
      BY <1>1, <3>1 DEF StoreType
    <3> QED BY <1>1, <3>1, <3>2 DEF PayloadsPast, Jobs
  <2> QED BY <2>1, <2>2
<1>5. PayloadsPast'
  BY <1>4 DEF PayloadsPast
<1>6. SetOutlivesPayloads'
  <2> SUFFICES ASSUME NEW f \in members', payload'[f] # NoJob
               PROVE  payload'[f].at + Life(f) <= keyEnd'
    BY DEF SetOutlivesPayloads
  <2>1. f \in Events
    BY <1>1 DEF Put, StoreType
  <2>2. payload'[f].at <= now /\ payload'[f].at \in Nat
    BY <1>4, <2>1
  <2>3. Life(f) \in Nat /\ KeyLife(e) \in Nat /\ Life(f) <= KeyLife(e)
    BY <2>1, LifeCovered
  <2> QED BY <1>2, <2>2, <2>3
<1> QED BY <1>5, <1>6

LEMMA StoreInvStep == StoreInv /\ [Next]_vars => StoreInv'
<1> SUFFICES ASSUME StoreInv, [Next]_vars PROVE StoreInv'
  OBVIOUS
<1>0. TypeOK /\ StoreType /\ PayloadsPast /\ SetOutlivesPayloads
  BY TypeParts DEF StoreInv
<1>1. TypeOK'
  BY <1>0, StepType
<1>2. CASE Shrinks
  <2>1. (PayloadsPast /\ SetOutlivesPayloads)'
    BY <1>0, <1>2 DEF Shrinks, StoreType, PayloadsPast, SetOutlivesPayloads
  <2> QED BY <1>1, <2>1 DEF StoreInv
<1>3. ASSUME NEW e \in Events, NEW r \in 0..Retries, now' = now, Put(e, r) PROVE StoreInv'
  BY <1>1, <1>3, PutOutlives DEF StoreInv
<1>4. CASE Tick
  <2>1. \A e \in Events : payload'[e] \in {payload[e], NoJob}
    BY <1>4 DEF Tick
  <2>2. now' = now + 1 /\ keyEnd' = keyEnd /\ members' \subseteq members
    BY <1>4 DEF Tick
  <2>3. \A e \in Events : payload[e] # NoJob => payload[e].at \in Nat
    BY <1>0 DEF StoreType, Jobs
  <2>4. PayloadsPast'
    BY <1>0, <2>1, <2>2, <2>3 DEF PayloadsPast, StoreType
  <2>5. SetOutlivesPayloads'
    BY <1>0, <2>1, <2>2 DEF SetOutlivesPayloads, StoreType
  <2> QED BY <1>1, <2>4, <2>5 DEF StoreInv
<1> QED BY <1>0, <1>2, <1>3, <1>4, StoreStep

LEMMA InitStoreInv == Init => StoreInv
BY InitType DEF Init, StoreInv, PayloadsPast, SetOutlivesPayloads

\* The sorted set never expires before the payload of one of its members.
THEOREM MembersOutlive == Spec => []SetOutlivesPayloads
<1>1. Init => StoreInv
  BY InitStoreInv
<1>2. StoreInv /\ [Next]_vars => StoreInv'
  BY StoreInvStep
<1>3. StoreInv => SetOutlivesPayloads
  BY DEF StoreInv
<1> QED BY <1>1, <1>2, <1>3, PTL DEF Spec
-----------------------------------------------------------------------------
(* Audits are not multiplied *)

\* How a step moves events between the sorted set and the drain's hands.
Stays ==
    /\ UNCHANGED <<handled, offers>> /\ members' \subseteq members
    /\ pc' \in Taken => pc \in Taken /\ cur' = cur

Grabs ==
    /\ UNCHANGED <<handled, offers>> /\ pc \notin Taken /\ pc' \in Taken
    /\ cur' \in members /\ members' = members \ {cur'}

PutsBack ==
    /\ UNCHANGED <<handled, offers>> /\ pc \in Taken /\ pc' \notin Taken
    /\ members' = members \cup {cur}

Finishes ==
    /\ UNCHANGED <<offers, members>> /\ pc \in Taken /\ pc' \notin Taken
    /\ handled' = [handled EXCEPT ![cur] = @ + 1]

Offered(e) ==
    /\ UNCHANGED <<handled, pc, cur>> /\ members' = members \cup {e}
    /\ offers' = [offers EXCEPT ![e] = @ + 1]

LEMMA PopStepMoves == ASSUME TypeOK, PopStep PROVE Stays \/ Grabs
<1>0. UNCHANGED <<handled, offers>> /\ DrainType
  BY TypeParts DEF PopStep, countVars
<1>1. CASE Stats \/ Scan \/ Look \/ List \/ Exists \/ ZRem \/ PurgeEnds
  <2>1. pc' \notin Taken
    BY <1>1 DEF Stats, Scan, Look, List, Exists, ZRem, PurgeEnds, NewRound, Taken
  <2>2. members' \subseteq members
    BY <1>1 DEF Stats, Scan, Look, List, Exists, ZRem, PurgeEnds, redisVars
  <2> QED BY <1>0, <2>1, <2>2 DEF Stays
<1>2. CASE PopEmpty \/ LookEnds
  <2>1. pc' \notin Taken /\ members' = members
    BY <1>0, <1>2, LeaveType DEF PopEmpty, LookEnds, redisVars, Taken
  <2> QED BY <1>0, <2>1 DEF Stays
<1>3. CASE Pop
  BY <1>0, <1>3 DEF Pop, Grabs, Taken
<1>4. CASE Get
  BY <1>0, <1>4 DEF Get, Stays, redisVars, Taken
<1>5. CASE Delete \/ Drop
  <2>1. pc \in Taken /\ members' = members
    BY <1>5 DEF Delete, Drop, Taken
  <2>2. CASE EndRound
    BY <1>0, <2>1, <2>2, LeaveType DEF Stays, Taken
  <2>3. CASE Decide(cur)
    BY <1>0, <2>1, <2>3 DEF Stays, Decide
  <2> QED BY <1>5, <2>2, <2>3 DEF Delete, Drop
<1>6. CASE Take
  <2>1. CASE Head(todo) \in members
    BY <1>0, <1>6, <2>1 DEF Take, Grabs, Taken
  <2>2. CASE Head(todo) \notin members
    BY <1>0, <1>6, <2>2 DEF Take, Stays, Taken
  <2> QED BY <2>1, <2>2
<1> QED BY <1>1, <1>2, <1>3, <1>4, <1>5, <1>6 DEF PopStep

LEMMA StepMoves ==
    ASSUME TypeOK, [Next]_vars
    PROVE  Stays \/ Grabs \/ PutsBack \/ Finishes \/ \E e \in Events : Offered(e)
<1>0. DrainType /\ StoreType
  BY TypeParts
<1>1. ASSUME NEW e \in Events, Offer(e) PROVE Offered(e)
  BY <1>1 DEF Offer, Offered, Put, drainVars
<1>2. CASE Tick
  BY <1>2 DEF Tick, Stays, drainVars
<1>3. CASE PopStep
  BY <1>3, PopStepMoves
<1>4. CASE Retry \/ Requeue
  <2>1. /\ UNCHANGED <<handled, offers>> /\ pc \in Taken
        /\ members' = members \cup {cur}
    BY <1>4 DEF Retry, Requeue, Put, Taken, countVars
  <2>2. pc' \notin Taken
    BY <1>0, <1>4, LeaveType DEF Retry, Requeue, Taken
  <2> QED BY <2>1, <2>2 DEF PutsBack
<1>5. CASE Close \/ Start \/ Route
  <2>1. pc \in Taken /\ members' = members
    BY <1>5 DEF Close, Start, Route, redisVars, Taken
  <2>2. CASE Done(cur) /\ \E done \in BOOLEAN : NextJob(done)
    <3>1. pc' \notin Taken
      BY <1>0, <2>2, LeaveType DEF Taken
    <3> QED BY <2>1, <2>2, <3>1 DEF Done, Finishes
  <2>3. CASE cur' = cur /\ UNCHANGED countVars
    BY <2>1, <2>3 DEF Stays, countVars
  <2> QED BY <1>5, <2>2, <2>3 DEF Close, Start, Route
<1>6. CASE Fails
  <2>1. UNCHANGED <<handled, offers>>
    BY <1>6 DEF Fails, countVars
  <2>2. CASE PopFails \/ CloseFails
    <3>1. pc' \notin Taken
      BY <1>0, <2>2, LeaveType DEF PopFails, CloseFails, Taken
    <3>2. members' \subseteq members
      BY <2>2 DEF PopFails, CloseFails, redisVars
    <3> QED BY <2>1, <3>1, <3>2 DEF Stays
  <2>3. CASE PurgeFails \/ StatsFails
    <3>1. pc' \notin Taken
      BY <2>3 DEF PurgeFails, StatsFails, NewRound, Taken
    <3>2. members' \subseteq members
      BY <2>3 DEF PurgeFails, StatsFails, redisVars
    <3> QED BY <2>1, <3>1, <3>2 DEF Stays
  <2>4. CASE PutFails
    <3>1. pc \in Taken /\ pc' \notin Taken
      BY <1>0, <2>4, LeaveType DEF PutFails, Taken
    <3>2. members' = members \/ members' = members \cup {cur}
      BY <2>4 DEF PutFails, Put, redisVars
    <3> QED BY <2>1, <3>1, <3>2 DEF Stays, PutsBack
  <2> QED BY <1>6, <2>2, <2>3, <2>4 DEF Fails
<1>7. CASE Crash
  BY <1>7 DEF Crash, NewRound, Stays, Taken, redisVars, countVars
<1>8. CASE OtherStarts \/ WorkflowEnds \/ UNCHANGED vars
  BY <1>8 DEF OtherStarts, WorkflowEnds, vars, redisVars, drainVars, countVars, Stays
<1> QED BY <1>1, <1>2, <1>3, <1>4, <1>5, <1>6, <1>7, <1>8 DEF Next, DrainStep

LEMMA NotMultipliedStep ==
    ASSUME TypeOK, [Next]_vars, NotMultiplied
    PROVE  NotMultiplied'
<1>0. /\ offers \in [Events -> Nat] /\ handled \in [Events -> Nat] /\ members \subseteq Events
      /\ pc \in Taken => cur \in Events
  BY DEF TypeOK
<1> SUFFICES ASSUME NEW e \in Events
             PROVE  handled'[e] + Chances(e)' <= offers'[e]
  BY DEF NotMultiplied
<1>1. handled[e] + Chances(e) <= offers[e] /\ handled[e] \in Nat /\ offers[e] \in Nat
  BY <1>0 DEF NotMultiplied
<1>2. CASE Stays
  BY <1>1, <1>2 DEF Stays, Chances, One
<1>3. CASE Grabs
  BY <1>1, <1>3 DEF Grabs, Chances, One
<1>4. CASE PutsBack
  BY <1>1, <1>4 DEF PutsBack, Chances, One
<1>5. CASE Finishes
  <2>1. handled'[e] = IF e = cur THEN handled[e] + 1 ELSE handled[e]
    BY <1>0, <1>5 DEF Finishes
  <2> QED BY <1>1, <1>5, <2>1 DEF Finishes, Chances, One
<1>6. ASSUME NEW f \in Events, Offered(f) PROVE handled'[e] + Chances(e)' <= offers'[e]
  <2>1. offers'[e] = IF e = f THEN offers[e] + 1 ELSE offers[e]
    BY <1>0, <1>6 DEF Offered
  <2> QED BY <1>1, <1>6, <2>1 DEF Offered, Chances, One
<1> QED BY <1>2, <1>3, <1>4, <1>5, <1>6, StepMoves

LEMMA InitNotMultiplied == Init => NotMultiplied
BY DEF Init, NotMultiplied, Chances, One, Taken

\* An event is not audited more often than it was postponed.
THEOREM AuditsNotMultiplied == Spec => []NotMultiplied
<1>1. Init => TypeOK /\ NotMultiplied
  BY InitType, InitNotMultiplied
<1>2. (TypeOK /\ NotMultiplied) /\ [Next]_vars => (TypeOK /\ NotMultiplied)'
  BY StepType, NotMultipliedStep
<1> QED BY <1>1, <1>2, PTL DEF Spec
-----------------------------------------------------------------------------
(* Postponed audits are kept *)

Kept(e) == Queued(e) \/ InHand(e) \/ e \in expired \/ offers[e] > 1

\* purge_stale only looks at events that were postponed, and between its two
\* calls a ghost gets a payload only when its event is postponed again.
ListedOffered == pc \in {"exists", "zrem"} => \A i \in 1..Len(todo) : offers[todo[i]] >= 1
GhostListed == pc = "zrem" => payload[Head(todo)] = NoJob \/ offers[Head(todo)] > 1

KeptInv == StoreInv /\ NotMultiplied /\ ListedOffered /\ GhostListed /\ PostponedKept

LEMMA MembersOffered ==
    ASSUME TypeOK, NotMultiplied
    PROVE  \A e \in members : offers[e] >= 1
<1> SUFFICES ASSUME NEW e \in members PROVE offers[e] >= 1
  OBVIOUS
<1>1. e \in Events /\ offers[e] \in Nat /\ handled[e] \in Nat
  BY DEF TypeOK
<1>2. handled[e] + Chances(e) <= offers[e] /\ Chances(e) \in Nat /\ Chances(e) >= 1
  BY <1>1 DEF NotMultiplied, Chances, One
<1> QED BY <1>1, <1>2

\* What the drain has in hand while the event is also in the queue was
\* postponed twice.
LEMMA TwiceOffered ==
    ASSUME TypeOK, NotMultiplied, pc \in Taken, cur \in members
    PROVE  offers[cur] > 1
<1>1. cur \in Events /\ offers[cur] \in Nat /\ handled[cur] \in Nat
  BY DEF TypeOK
<1>2. handled[cur] + Chances(cur) <= offers[cur] /\ Chances(cur) = 2
  BY <1>1 DEF NotMultiplied, Chances, One
<1> QED BY <1>1, <1>2

\* The steps of purge_stale.
LEMMA ListingStep ==
    ASSUME TypeOK, TypeOK', NotMultiplied, ListedOffered, GhostListed, [Next]_vars
    PROVE  ListedOffered' /\ GhostListed'
<1>0. DrainType /\ StoreType /\ CountType
  BY TypeParts
<1> DEFINE Goal == ListedOffered' /\ GhostListed'
<1>1. CASE pc' \notin {"exists", "zrem"}
  BY <1>1 DEF ListedOffered, GhostListed
<1>2. CASE UNCHANGED <<pc, todo, payload, offers>>
  BY <1>2 DEF ListedOffered, GhostListed
<1>3. ASSUME NEW e \in Events, Offer(e) PROVE Goal
  <2>1. \A f \in Events : offers'[f] >= offers[f] /\ offers[f] \in Nat /\ offers'[f] \in Nat
    BY <1>0, <1>3 DEF Offer, CountType
  <2>2. pc' = pc /\ todo' = todo /\ todo \in Seq(Events)
    BY <1>0, <1>3 DEF Offer, drainVars, DrainType
  <2>3. ListedOffered'
    <3> SUFFICES ASSUME pc' \in {"exists", "zrem"}, NEW i \in 1..Len(todo')
                 PROVE  offers'[todo'[i]] >= 1
      BY DEF ListedOffered
    <3>1. i \in 1..Len(todo) /\ todo[i] \in Events /\ todo'[i] = todo[i]
      BY <2>2
    <3>2. offers[todo[i]] >= 1
      BY <2>2, <3>1 DEF ListedOffered
    <3> QED BY <2>1, <3>1, <3>2
  <2>4. GhostListed'
    <3> SUFFICES ASSUME pc' = "zrem"
                 PROVE  payload'[Head(todo')] = NoJob \/ offers'[Head(todo')] > 1
      BY DEF GhostListed
    <3>1. todo # <<>> /\ Head(todo) = todo[1] /\ Len(todo) >= 1 /\ Head(todo) \in Events
      BY <1>0, <2>2, TailType DEF DrainType
    <3>2. offers[Head(todo)] >= 1
      BY <2>2, <3>1 DEF ListedOffered
    <3>3. CASE Head(todo) = e
      <4>1. offers'[e] = offers[e] + 1
        BY <1>0, <1>3 DEF Offer, CountType
      <4> QED BY <2>1, <2>2, <3>1, <3>2, <3>3, <4>1
    <3>4. CASE Head(todo) # e
      <4>1. payload'[Head(todo)] = payload[Head(todo)]
        BY <1>0, <1>3, <3>1, <3>4 DEF Offer, Put, StoreType
      <4> QED BY <2>1, <2>2, <3>1, <4>1 DEF GhostListed
    <3> QED BY <3>3, <3>4
  <2> QED BY <2>3, <2>4
<1>4. CASE Tick
  <2>1. pc' = pc /\ todo' = todo /\ offers' = offers /\ todo \in Seq(Events)
    BY <1>0, <1>4 DEF Tick, drainVars, DrainType
  <2>2. \A e \in Events : payload'[e] \in {payload[e], NoJob}
    BY <1>4 DEF Tick
  <2>3. pc = "zrem" => Head(todo) \in Events
    BY <1>0, <2>1, TailType DEF DrainType
  <2> QED BY <2>1, <2>2, <2>3 DEF ListedOffered, GhostListed
<1>5. CASE PopStep
  <2>1. UNCHANGED offers
    BY <1>5 DEF PopStep, countVars
  <2>2. CASE List
    <3>1. \A i \in 1..Len(todo') : todo'[i] \in members
      BY <1>0, <2>2, ListingType DEF List
    <3> QED BY <2>1, <2>2, <3>1, MembersOffered DEF List, ListedOffered, GhostListed
  <2>3. CASE Exists \/ ZRem
    <3>1. todo \in Seq(Events) /\ todo # <<>> /\ pc \in {"exists", "zrem"}
      BY <1>0, <2>3 DEF Exists, ZRem, DrainType
    <3>2. \A i \in 1..Len(Tail(todo)) : i + 1 \in 1..Len(todo) /\ Tail(todo)[i] = todo[i + 1]
      BY <3>1, TailType
    <3>3. \A i \in 1..Len(Tail(todo)) : offers[Tail(todo)[i]] >= 1
      BY <3>1, <3>2 DEF ListedOffered
    <3>4. ListedOffered'
      BY <2>1, <2>3, <3>1, <3>3 DEF Exists, ZRem, ListedOffered
    <3>5. GhostListed'
      BY <2>3 DEF Exists, ZRem, GhostListed, redisVars
    <3> QED BY <3>4, <3>5
  <2>4. CASE PopEmpty \/ LookEnds
    BY <1>0, <1>1, <2>4, LeaveType DEF PopEmpty, LookEnds
  <2>5. CASE Delete \/ Drop
    <3>1. CASE EndRound
      BY <1>0, <1>1, <3>1, LeaveType
    <3>2. CASE Decide(cur)
      BY <1>1, <3>2 DEF Decide
    <3> QED BY <2>5, <3>1, <3>2 DEF Delete, Drop
  <2>6. CASE Stats \/ Pop \/ Get \/ Scan \/ Look \/ Take \/ PurgeEnds
    BY <1>1, <2>6 DEF Stats, Pop, Get, Scan, Look, Take, PurgeEnds, NewRound
  <2> QED BY <1>5, <2>2, <2>3, <2>4, <2>5, <2>6 DEF PopStep
<1>6. CASE Retry \/ Requeue \/ Close
  BY <1>0, <1>1, <1>6, LeaveType DEF Retry, Requeue, Close
<1>7. CASE Start \/ Route
  <2>1. CASE \E done \in BOOLEAN : NextJob(done)
    BY <1>0, <1>1, <2>1, LeaveType
  <2>2. CASE pc' \in {"requeue", "route"}
    BY <1>1, <2>2
  <2> QED BY <1>7, <2>1, <2>2 DEF Start, Route
<1>8. CASE Fails
  <2>1. CASE PopFails \/ PutFails \/ CloseFails
    BY <1>0, <1>1, <2>1, LeaveType DEF PopFails, PutFails, CloseFails
  <2>2. CASE PurgeFails \/ StatsFails
    BY <1>1, <2>2 DEF PurgeFails, StatsFails, NewRound
  <2> QED BY <1>8, <2>1, <2>2 DEF Fails
<1>9. CASE Crash
  BY <1>1, <1>9 DEF Crash, NewRound
<1>10. CASE OtherStarts \/ WorkflowEnds \/ UNCHANGED vars
  BY <1>2, <1>10 DEF OtherStarts, WorkflowEnds, vars, redisVars, drainVars, countVars
<1> QED BY <1>3, <1>4, <1>5, <1>6, <1>7, <1>8, <1>9, <1>10 DEF Next, DrainStep

\* The steps that read and pop the queue keep every postponed audit.
LEMMA PopStepKeeps ==
    ASSUME TypeOK, NotMultiplied, ListedOffered, GhostListed, PopStep,
           NEW e \in Events, Kept(e)
    PROVE  Kept(e)'
<1>0. DrainType /\ StoreType /\ CountType
  BY TypeParts
<1>1. UNCHANGED <<offers, expired>>
  BY DEF PopStep, countVars
<1>2. CASE e \in expired \/ offers[e] > 1
  BY <1>1, <1>2 DEF Kept
<1>3. CASE Queued(e)
  <2>1. CASE e \in members' /\ payload'[e] = payload[e]
    BY <1>3, <2>1 DEF Kept, Queued
  <2>2. CASE UNCHANGED redisVars
    BY <1>3, <2>2 DEF Kept, Queued, redisVars
  <2>3. CASE Pop
    <3>1. PICK x \in members : members' = members \ {x} /\ cur' = x
      BY <2>3 DEF Pop
    <3>2. pc' = "get" /\ payload' = payload
      BY <2>3 DEF Pop
    <3>3. CASE x = e
      BY <1>3, <3>1, <3>2, <3>3 DEF Kept, Queued, InHand, Taken
    <3> QED BY <1>3, <2>1, <3>1, <3>2, <3>3 DEF Queued
  <2>4. CASE Delete \/ Drop
    <3>1. /\ pc \in Taken /\ cur \in Events /\ members' = members
          /\ payload' = [payload EXCEPT ![cur] = NoJob]
      BY <1>0, <2>4 DEF Delete, Drop, DrainType, Taken
    <3>2. CASE cur = e
      BY <1>2, <1>3, <3>1, <3>2, TwiceOffered DEF Queued
    <3>3. CASE cur # e
      BY <1>0, <1>3, <2>1, <3>1, <3>3 DEF Queued, StoreType
    <3> QED BY <3>2, <3>3
  <2>5. CASE Take
    <3>1. \/ pc' = "drop" /\ cur' = Head(todo) /\ members' = members \ {Head(todo)}
          \/ members' = members
      BY <2>5 DEF Take
    <3>2. payload' = payload
      BY <2>5 DEF Take
    <3>3. CASE Head(todo) = e /\ members' # members
      BY <3>1, <3>3 DEF Kept, InHand, Taken
    <3> QED BY <1>3, <2>1, <3>1, <3>2, <3>3 DEF Queued
  <2>6. CASE ZRem
    <3>1. pc = "zrem" /\ members' = members \ {Head(todo)} /\ payload' = payload
      BY <2>6 DEF ZRem
    <3>2. CASE Head(todo) = e
      BY <1>2, <1>3, <3>1, <3>2 DEF GhostListed, Queued
    <3> QED BY <1>3, <2>1, <3>1, <3>2 DEF Queued
  <2>7. CASE \/ Stats \/ PopEmpty \/ Get \/ Scan \/ Look \/ LookEnds
             \/ List \/ Exists \/ PurgeEnds
    BY <2>2, <2>7 DEF Stats, PopEmpty, Get, Scan, Look, LookEnds, List, Exists, PurgeEnds
  <2> QED BY <2>3, <2>4, <2>5, <2>6, <2>7 DEF PopStep
<1>4. CASE InHand(e)
  <2>1. pc \in Taken /\ cur = e
    BY <1>4 DEF InHand
  <2>2. CASE Get
    BY <1>4, <2>1, <2>2 DEF Get, Kept, InHand, Taken
  <2>3. CASE Delete \/ Drop
    <3>1. hand # NoJob
      BY <1>0, <1>4, <2>3 DEF InHand, Delete, Drop, DrainType, Taken
    <3>2. Decide(e)
      BY <2>1, <2>3, <3>1 DEF Delete, Drop
    <3>3. pc' \in {"retry", "close", "start", "route"} /\ cur' = e
      BY <2>1, <3>2 DEF Decide
    <3> QED BY <3>3 DEF Kept, InHand, Taken
  <2>4. CASE ~(Get \/ Delete \/ Drop)
    BY <2>1, <2>4 DEF PopStep, Stats, Pop, PopEmpty, Scan, Look, LookEnds, Take,
                      List, Exists, ZRem, PurgeEnds, Taken
  <2> QED BY <2>2, <2>3, <2>4
<1> QED BY <1>2, <1>3, <1>4 DEF Kept

\* When the sorted set expires, so have all its payloads: an owed event that
\* leaves the queue because time passes is an expired one.
LEMMA TickKeeps ==
    ASSUME StoreInv, Tick, NEW e \in owed, Kept(e)
    PROVE  Kept(e)'
<1>0. StoreType /\ DrainType /\ CountType /\ SetOutlivesPayloads /\ e \in Events
  BY TypeParts DEF StoreInv, CountType
<1>1. offers' = offers /\ UNCHANGED <<pc, cur, hand>> /\ expired \subseteq expired'
  BY DEF Tick, drainVars
<1>2. CASE e \in expired \/ offers[e] > 1
  BY <1>1, <1>2 DEF Kept
<1>3. CASE Queued(e) /\ Alive(e)
  <2>1. payload[e] \in Jobs /\ payload[e].at \in Nat /\ Life(e) \in Nat
    BY <1>0, <1>3, LifeCovered DEF Queued, StoreType, Jobs
  <2>2. now + 1 < payload[e].at + Life(e) /\ payload[e].at + Life(e) <= keyEnd
    BY <1>0, <1>3 DEF Alive, Queued, SetOutlivesPayloads
  <2>3. now + 1 < keyEnd
    BY <1>0, <2>1, <2>2 DEF StoreType
  <2>4. e \in members' /\ payload'[e] = payload[e]
    BY <1>0, <1>3, <2>3 DEF Tick, Queued
  <2> QED BY <1>3, <2>4 DEF Kept, Queued
<1>4. CASE Queued(e) /\ ~Alive(e)
  BY <1>4 DEF Queued, Tick, Kept
<1>5. CASE InHand(e)
  <2>1. CASE pc = "get" /\ ~Alive(e)
    BY <1>5, <2>1 DEF InHand, Tick, Kept
  <2>2. CASE pc = "get" /\ Alive(e)
    <3>1. payload'[e] = payload[e]
      BY <1>0, <2>2 DEF Tick
    <3> QED BY <1>1, <1>5, <2>2, <3>1 DEF InHand, Kept
  <2>3. CASE pc # "get"
    BY <1>1, <1>5, <2>3 DEF InHand, Kept
  <2> QED BY <2>1, <2>2, <2>3
<1> QED BY <1>2, <1>3, <1>4, <1>5 DEF Kept

\* The steps that put a job back, hand it over or close it.
LEMMA HandOverKeeps ==
    ASSUME TypeOK, Retry \/ Requeue \/ Close \/ Start \/ Route,
           NEW e \in owed', e \in owed => Kept(e)
    PROVE  Kept(e)'
<1>0. StoreType /\ DrainType /\ CountType
  BY TypeParts
<1>1. pc \in Taken /\ pc \notin {"get", "delete", "drop"} /\ cur \in Events
  BY <1>0 DEF Retry, Requeue, Close, Start, Route, DrainType, Taken
<1>2. CASE Retry \/ Requeue
  <2>1. UNCHANGED countVars /\ e \in Events /\ Kept(e)
    BY <1>0, <1>2 DEF Retry, Requeue, countVars, CountType
  <2>2. PICK r \in 0..Retries : Put(cur, r)
    BY <1>0, <1>2, PutBackType DEF Retry, Requeue
  <2>3. CASE e = cur
    <3>1. Job(now, r) # NoJob
      BY <1>0 DEF Job, StoreType
    <3>2. e \in members' /\ payload'[e] = Job(now, r)
      BY <1>0, <2>1, <2>2, <2>3 DEF Put, StoreType
    <3> QED BY <3>1, <3>2 DEF Kept, Queued
  <2>4. CASE e # cur
    <3>1. payload'[e] = payload[e] /\ members \subseteq members'
      BY <1>0, <2>1, <2>2, <2>4 DEF Put, StoreType
    <3>2. ~InHand(e)
      BY <2>4 DEF InHand
    <3> QED BY <2>1, <3>1, <3>2 DEF Kept, Queued, countVars
  <2> QED BY <2>3, <2>4
<1>3. CASE Close \/ Start \/ Route
  <2>1. UNCHANGED redisVars
    BY <1>3 DEF Close, Start, Route
  <2>2. CASE Done(cur)
    <3>1. e \in owed /\ e # cur /\ Kept(e)
      BY <2>2 DEF Done
    <3>2. offers' = offers /\ expired' = expired \ {cur} /\ ~InHand(e)
      BY <2>2, <3>1 DEF Done, InHand
    <3> QED BY <2>1, <3>1, <3>2 DEF Kept, Queued, redisVars
  <2>3. CASE UNCHANGED <<countVars, cur>> /\ pc' \in {"requeue", "route"}
    <3>1. Kept(e) /\ pc' \in Taken
      BY <2>3 DEF countVars, Taken
    <3>2. CASE InHand(e)
      BY <2>3, <3>1, <3>2 DEF InHand, Kept
    <3>3. CASE Queued(e) \/ e \in expired \/ offers[e] > 1
      BY <2>1, <2>3, <3>3 DEF Queued, Kept, redisVars, countVars
    <3> QED BY <3>1, <3>2, <3>3 DEF Kept
  <2> QED BY <1>3, <2>2, <2>3 DEF Close, Start, Route
<1> QED BY <1>2, <1>3

LEMMA OfferKeeps ==
    ASSUME TypeOK, NEW f \in Events, Offer(f), NEW e \in owed', e \in owed => Kept(e)
    PROVE  Kept(e)'
<1>0. StoreType /\ DrainType /\ CountType
  BY TypeParts
<1>1. Put(f, 0) /\ UNCHANGED <<pc, cur, hand, now>> /\ owed' = owed \cup {f} /\ e \in Events
  BY <1>0 DEF Offer, drainVars, CountType
<1>2. CASE e = f
  <2>1. Job(now, 0) # NoJob
    BY <1>0 DEF Job, StoreType
  <2>2. e \in members' /\ payload'[e] = Job(now, 0)
    BY <1>0, <1>1, <1>2 DEF Put, StoreType
  <2> QED BY <2>1, <2>2 DEF Kept, Queued
<1>3. CASE e # f
  <2>1. payload'[e] = payload[e] /\ members \subseteq members' /\ Kept(e)
    BY <1>0, <1>1, <1>3 DEF Put, StoreType
  <2>2. offers'[e] = offers[e] /\ (e \in expired => e \in expired')
    BY <1>0, <1>1, <1>3 DEF Offer, CountType
  <2> QED BY <1>1, <2>1, <2>2 DEF Kept, Queued, InHand
<1> QED BY <1>2, <1>3

LEMMA KeptInvStep == KeptInv /\ [Next]_vars => KeptInv'
<1> SUFFICES ASSUME KeptInv, [Next]_vars PROVE KeptInv'
  OBVIOUS
<1>0. /\ StoreInv /\ TypeOK /\ NotMultiplied /\ ListedOffered /\ GhostListed /\ PostponedKept
      /\ StoreType /\ CountType /\ faults \in Nat
  BY TypeParts DEF KeptInv, StoreInv, BoundType
<1>1. StoreInv' /\ TypeOK'
  BY <1>0, StoreInvStep DEF StoreInv
<1>2. NotMultiplied' /\ ListedOffered' /\ GhostListed'
  BY <1>0, <1>1, NotMultipliedStep, ListingStep
<1>3. PostponedKept'
  <2> SUFFICES ASSUME faults' = 0, NEW e \in owed' PROVE Kept(e)'
    BY DEF PostponedKept, Kept
  <2>1. CASE faults # 0
    <3>1. faults' \in {faults, faults + 1}
      <4>1. CASE Tick \/ PopStep \/ OtherStarts \/ WorkflowEnds \/ Fails \/ Crash
        BY <4>1 DEF Tick, PopStep, OtherStarts, WorkflowEnds, Fails, Crash, boundVars
      <4>2. CASE Retry \/ Close \/ Start \/ Route \/ Requeue
        BY <4>2 DEF Retry, Close, Start, Route, Requeue, boundVars
      <4>3. CASE UNCHANGED vars \/ \E f \in Events : Offer(f)
        BY <4>3 DEF vars, Offer, boundVars
      <4> QED BY <4>1, <4>2, <4>3 DEF Next, DrainStep
    <3> QED BY <1>0, <2>1, <3>1
  <2>2. CASE faults = 0
    <3>0. e \in owed => Kept(e)
      BY <1>0, <2>2 DEF PostponedKept, Kept
    <3>1. ASSUME NEW f \in Events, Offer(f) PROVE Kept(e)'
      BY <1>0, <3>0, <3>1, OfferKeeps
    <3>2. CASE Tick
      BY <1>0, <3>0, <3>2, TickKeeps DEF Tick
    <3>3. CASE PopStep
      <4>1. e \in owed /\ e \in Events
        BY <1>0, <3>3 DEF PopStep, countVars, CountType
      <4> QED BY <1>0, <3>0, <3>3, <4>1, PopStepKeeps
    <3>4. CASE Retry \/ Requeue \/ Close \/ Start \/ Route
      BY <1>0, <3>0, <3>4, HandOverKeeps
    <3>5. CASE Fails \/ Crash
      BY <2>2, <3>5 DEF Fails, Crash
    <3>6. CASE OtherStarts \/ WorkflowEnds \/ UNCHANGED vars
      BY <3>0, <3>6 DEF OtherStarts, WorkflowEnds, vars, redisVars, drainVars, countVars,
                        Kept, Queued, InHand
    <3> QED BY <3>1, <3>2, <3>3, <3>4, <3>5, <3>6 DEF Next, DrainStep
  <2> QED BY <2>1, <2>2
<1> QED BY <1>1, <1>2, <1>3 DEF KeptInv

LEMMA InitKeptInv == Init => KeptInv
<1> SUFFICES ASSUME Init PROVE KeptInv
  OBVIOUS
<1>1. ListedOffered /\ GhostListed /\ PostponedKept
  BY DEF Init, ListedOffered, GhostListed, PostponedKept
<1> QED BY <1>1, InitStoreInv, InitNotMultiplied DEF KeptInv

\* A postponed audit that is neither expired nor hit by a failure is in the queue
\* or in the drain's hands until it is routed or closed.
THEOREM PostponedNotLost == Spec => []PostponedKept
<1>1. Init => KeptInv
  BY InitKeptInv
<1>2. KeptInv /\ [Next]_vars => KeptInv'
  BY KeptInvStep
<1>3. KeptInv => PostponedKept
  BY DEF KeptInv
<1> QED BY <1>1, <1>2, <1>3, PTL DEF Spec

\* No audit is multiplied by the drain, and the sorted set outlives its payloads.
THEOREM QueueIsSound == Spec => []QueueSound
BY TypeCorrect, AuditsNotMultiplied, MembersOutlive, PTL DEF QueueSound
=============================================================================
