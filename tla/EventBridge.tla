----------------------------- MODULE EventBridge -----------------------------
(* The bridge between the event buses of two processes (event_bus.py): what a  *)
(* bus publishes is broadcast over a Redis channel, and the bus of the backend  *)
(* listens to it.  Its filter for doubled events keys on origin, type and event *)
(* id, and forgets a key after a minute, or when it holds too many.            *)
EXTENDS Integers, Sequences, SequencesExt, FiniteSets

CONSTANTS
    Messages,        \* calls of publish() with an event id
    Origin,          \* [Messages -> the process of the call]
    Key,             \* [Messages -> type and event id]
    SeenMax          \* _redis_seen_max

ASSUME BridgeAssumption == Origin \in [Messages -> {"backend", "worker"}] /\ SeenMax \in Nat \ {0}

VARIABLES
    published,       \* messages whose call is done
    channel,         \* messages in the Redis channel, in order
    filter,          \* the keys of _redis_seen, the oldest first
    bridge,          \* "on", or "dead": the listener ended and is never started again
    shown,           \* [Messages -> how often the backend's subscribers got it]
    filtered         \* ghost: messages that the filter left out

bridgeVars == <<published, channel, filter, bridge, shown, filtered>>

BridgeInit ==
    /\ published = {} /\ channel = <<>> /\ filter = <<>> /\ bridge = "on"
    /\ shown = [m \in Messages |-> 0] /\ filtered = {}

Shows(m) == shown' = [shown EXCEPT ![m] = @ + 1]

\* publish(): to the subscribers of the own process at once, to the other's by way of
\* the channel.  (Nobody subscribes to the worker's bus.)
PublishMessage(m) ==
    /\ m \notin published /\ published' = published \cup {m}
    /\ IF Origin[m] = "backend" THEN Shows(m) ELSE shown' = shown
    /\ channel' = Append(channel, m)
    /\ UNCHANGED <<filter, bridge, filtered>>

\* The broadcast fails, or no listener is there to get it: it is gone.
BroadcastLost ==
    /\ channel # <<>>
    /\ \E i \in DOMAIN channel : channel' = RemoveAt(channel, i)
    /\ UNCHANGED <<published, filter, bridge, shown, filtered>>

KeyOf(m) == <<Origin[m], Key[m]>>
Forgotten(f, k) == IF Contains(f, k) THEN RemoveAt(f, CHOOSE i \in DOMAIN f : f[i] = k) ELSE f
Remembered(f, k) ==
    LET g == Append(Forgotten(f, k), k) IN IF Len(g) > SeenMax THEN Tail(g) ELSE g

Foreign(m) == Origin[m] # "backend"

\* A key that is still remembered moves to the end and keeps its time.
Listen ==
    /\ bridge = "on" /\ channel # <<>>
    /\ channel' = Tail(channel)
    /\ LET m == Head(channel) IN
        \/ /\ ~Foreign(m) /\ UNCHANGED <<filter, shown, filtered>>
        \/ /\ Foreign(m) /\ Contains(filter, KeyOf(m))
           /\ filtered' = filtered \cup {m}
           /\ filter' = Remembered(filter, KeyOf(m)) /\ shown' = shown
        \/ /\ Foreign(m) /\ ~Contains(filter, KeyOf(m))
           /\ Shows(m) /\ filter' = Remembered(filter, KeyOf(m)) /\ filtered' = filtered
    /\ UNCHANGED <<published, bridge>>

\* The minute of a key is over: it counts as not seen.
Forgets ==
    /\ filter # <<>>
    /\ \E k \in Range(filter) : filter' = Forgotten(filter, k)
    /\ UNCHANGED <<published, channel, bridge, shown, filtered>>

\* The listener meets an exception of the connection.
BridgeDies ==
    /\ bridge = "on" /\ bridge' = "dead"
    /\ UNCHANGED <<published, channel, filter, shown, filtered>>

BridgeNext ==
    \/ \E m \in Messages : PublishMessage(m)
    \/ BroadcastLost \/ Listen \/ Forgets \/ BridgeDies

BridgeSpec == BridgeInit /\ [][BridgeNext]_bridgeVars
-----------------------------------------------------------------------------
(* Properties *)

BridgeTypeOK ==
    /\ published \subseteq Messages /\ Range(channel) \subseteq published
    /\ IsInjective(filter) /\ Len(filter) <= SeenMax
    /\ bridge \in {"on", "dead"}
    /\ shown \in [Messages -> Nat] /\ filtered \subseteq published

\* An event is shown once: neither its echo from the channel nor the forgetting of
\* keys shows it again.
ShownOnce == \A m \in Messages : shown[m] <= 1

\* The filter leaves out no event whose type and event id nothing else shares.  (It
\* does leave out the later stages of one event: they have the key of the first.)
LoneIsNotFiltered ==
    \A m \in filtered : \E n \in published \ {m} :
        Origin[n] = Origin[m] /\ Key[n] = Key[m] /\ shown[n] = 1
=============================================================================
