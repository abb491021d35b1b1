----------------------------- MODULE EventStream -----------------------------
(* The stream of events to the browser: EventBus.publish and its subscribers'  *)
(* queues (event_bus.py), the SSE route (routers/chat.py) and the client kernel *)
(* (frontend/src/lib/eventStream.ts).  An event is its sequence number; numbers *)
(* start again at 1 when the backend does.                                     *)
EXTENDS Integers, Sequences, SequencesExt, FiniteSets, FiniteSetsExt

CONSTANTS
    Clients,
    MaxSubscribers, HistoryMax, QueueMax,
    ReplayLimit,     \* the limit of recent() in the route
    MaxSeq,          \* BOUND: events of one boot
    MaxBoots         \* BOUND: restarts of the backend

ASSUME StreamAssumption ==
    /\ IsFiniteSet(Clients) /\ MaxBoots \in Nat
    /\ {MaxSubscribers, HistoryMax, QueueMax, ReplayLimit, MaxSeq} \subseteq Nat \ {0}

VARIABLES
    boot, last,      \* BOOT_TS, and the number of the last event
    link,            \* [Clients -> the state of its connection]
    resume,          \* [Clients -> resume_from of its connection]
    queue,           \* [Clients -> its subscription]
    replay,          \* [Clients -> what is left of the missed events]
    lastId,          \* [Clients -> the browser's Last-Event-ID]
    knownMax,        \* [Clients -> knownMaxSeq, 0 if null]
    epoch,           \* [Clients -> storedEpoch]
    seen,            \* [Clients -> seenSeqs]
    excused,         \* ghost: [Clients -> numbers it lost and knows of, or dropped by a full queue]
    cut,             \* ghost: clients whose replay was truncated within the history, or that
                     \* resumed with a number of another boot
    late             \* ghost: clients whose replay began behind an event in their queue

serverVars == <<boot, last>>
linkVars == <<link, resume, queue, replay>>
clientVars == <<lastId, knownMax, epoch, seen>>
streamVars == <<serverVars, linkVars, clientVars, excused, cut, late>>

Each(v) == [c \in Clients |-> v]

StreamInit ==
    /\ boot = 1 /\ last = 0
    /\ link = Each("off") /\ resume = Each(0) /\ queue = Each(<<>>) /\ replay = Each(<<>>)
    /\ lastId = Each(0) /\ knownMax = Each(0) /\ epoch = Each(0) /\ seen = Each({})
    /\ excused = Each({}) /\ cut = {} /\ late = {}

Subscribed == {c \in Clients : link[c] # "off"}
Oldest == IF last = 0 THEN 0 ELSE Max({1, last - HistoryMax + 1})
-----------------------------------------------------------------------------
(* The server *)

Put(q, s) == IF Len(q) < QueueMax THEN Append(q, s) ELSE Append(Tail(q), s)

\* publish(): a full queue loses its oldest event.
Publish ==
    /\ last < MaxSeq /\ last' = last + 1
    /\ queue' = [c \in Clients |-> IF c \in Subscribed THEN Put(queue[c], last + 1) ELSE queue[c]]
    /\ excused' = [c \in Clients |-> IF Len(queue[c]) = QueueMax
                                     THEN excused[c] \cup {Head(queue[c])} ELSE excused[c]]
    /\ UNCHANGED <<boot, link, resume, replay, clientVars, cut, late>>

\* events_stream(): the queue is there before the generator starts.  With all slots
\* taken the answer is 503, and the client stays off.  A browser that reconnects by
\* itself sends the last id line, one that is told to the last number it has seen.
Open(c) ==
    /\ link[c] = "off" /\ Cardinality(Subscribed) < MaxSubscribers
    /\ link' = [link EXCEPT ![c] = "opened"]
    /\ \E from \in {lastId[c], knownMax[c]} : resume' = [resume EXCEPT ![c] = from]
    /\ UNCHANGED <<serverVars, queue, replay, clientVars, excused, cut, late>>

\* What the history still has of the missed events; only the newest ReplayLimit are sent.
MissedFrom(c) == Max({Oldest, resume[c] + 1})
ReplayFrom(c) == Max({MissedFrom(c), last - ReplayLimit + 1})
Numbers(from, to) == [i \in 1..to - from + 1 |-> from + i - 1]

FaultyComplete(c) == TRUE                              \* a hole is never announced
Complete(c) ==
    resume[c] = 0 \/ (MissedFrom(c) > last /\ Oldest = 0) \/ Oldest <= resume[c] + 1

\* The generator's first part, and handleConnected() in the browser: another epoch
\* voids its numbers, and marks the restart; a replay that is not complete marks a hole.
Start(c) ==
    LET restarted == epoch[c] \notin {0, boot} IN
    /\ link[c] = "opened"
    /\ link' = [link EXCEPT ![c] = "live"]
    /\ replay' = [replay EXCEPT ![c] = Numbers(ReplayFrom(c), last)]
    /\ epoch' = [epoch EXCEPT ![c] = boot]
    /\ seen' = IF restarted THEN [seen EXCEPT ![c] = {}] ELSE seen
    /\ knownMax' = IF restarted THEN [knownMax EXCEPT ![c] = 0] ELSE knownMax
    /\ excused' = [excused EXCEPT ![c] =
           IF restarted \/ resume[c] = 0 \/ ~Complete(c) THEN 1..last ELSE @]
    /\ cut' = IF resume[c] > 0 /\ (restarted \/ (Oldest <= resume[c] + 1 /\ ReplayFrom(c) # MissedFrom(c)))
              THEN cut \cup {c} ELSE cut
    /\ late' = IF \E s \in Range(queue[c]) : resume[c] < s /\ s < ReplayFrom(c)
               THEN late \cup {c} ELSE late
    /\ UNCHANGED <<serverVars, resume, queue, lastId>>

\* The browser receives an event.
Receive(c, s) ==
    /\ lastId' = [lastId EXCEPT ![c] = s]
    /\ seen' = [seen EXCEPT ![c] = @ \cup {s}]
    /\ knownMax' = [knownMax EXCEPT ![c] = Max({@, s})]

SendMissed(c) ==
    /\ link[c] = "live" /\ replay[c] # <<>>
    /\ Receive(c, Head(replay[c]))
    /\ replay' = [replay EXCEPT ![c] = Tail(@)]
    /\ UNCHANGED <<serverVars, link, resume, queue, epoch, excused, cut, late>>

FaultyTurnOf(c) == link[c] = "live" /\ queue[c] # <<>>       \* live events before the missed ones
TurnOf(c) == link[c] = "live" /\ replay[c] = <<>> /\ queue[c] # <<>>

\* A live event; what is not newer than resume_from is left out.
SendLive(c) ==
    /\ TurnOf(c)
    /\ IF Head(queue[c]) <= resume[c] THEN UNCHANGED <<lastId, seen, knownMax>>
       ELSE Receive(c, Head(queue[c]))
    /\ queue' = [queue EXCEPT ![c] = Tail(@)]
    /\ UNCHANGED <<serverVars, link, resume, replay, epoch, excused, cut, late>>

Quiet(c) == link[c] = "live" /\ replay[c] = <<>> /\ queue[c] = <<>>

\* The id line of a ping is the last number of the bus.
Ping(c) ==
    /\ Quiet(c)
    /\ lastId' = [lastId EXCEPT ![c] = last]
    /\ UNCHANGED <<serverVars, linkVars, knownMax, epoch, seen, excused, cut, late>>

\* The connection ends, from either side: the generator's finally unsubscribes.
Break(c) ==
    /\ link[c] # "off"
    /\ link' = [link EXCEPT ![c] = "off"]
    /\ queue' = [queue EXCEPT ![c] = <<>>] /\ replay' = [replay EXCEPT ![c] = <<>>]
    /\ UNCHANGED <<serverVars, resume, clientVars, excused, cut, late>>

BackendRestarts ==
    /\ boot <= MaxBoots
    /\ boot' = boot + 1 /\ last' = 0
    /\ link' = Each("off") /\ queue' = Each(<<>>) /\ replay' = Each(<<>>)
    /\ UNCHANGED <<resume, clientVars, excused, cut, late>>

StreamNext ==
    \/ Publish \/ BackendRestarts
    \/ \E c \in Clients : Open(c) \/ Start(c) \/ SendMissed(c) \/ SendLive(c) \/ Ping(c) \/ Break(c)

StreamSpec == StreamInit /\ [][StreamNext]_streamVars
-----------------------------------------------------------------------------
(* Properties *)

StreamTypeOK ==
    /\ boot \in 1..MaxBoots + 1 /\ last \in 0..MaxSeq
    /\ link \in [Clients -> {"off", "opened", "live"}]
    /\ Cardinality(Subscribed) <= MaxSubscribers
    /\ \A c \in Clients :
        /\ resume[c] \in 0..MaxSeq /\ lastId[c] \in 0..MaxSeq /\ knownMax[c] \in 0..MaxSeq
        /\ epoch[c] \in 0..boot /\ seen[c] \subseteq 1..MaxSeq
        /\ Len(queue[c]) <= QueueMax /\ Len(replay[c]) <= ReplayLimit

\* A client that is connected and has nothing left to receive has every event that
\* was published, whatever connections it lost on the way, or was told of the hole;
\* except for the events that its own full queue dropped.
NoSilentHole ==
    \A c \in Clients \ cut : Quiet(c) => 1..last \subseteq seen[c] \cup excused[c]

\* New events reach a client in the order of their numbers, missed ones before live
\* ones, also over a reconnection: none is shown behind a later one.  (A queue is longer
\* than a replay, and what waits in it from before the replay comes behind it.)
InOrder ==
    [][\A c \in Clients \ late' : epoch'[c] = epoch[c] =>
         \A s \in seen'[c] \ seen[c] : \A u \in seen[c] : u < s]_streamVars
=============================================================================
