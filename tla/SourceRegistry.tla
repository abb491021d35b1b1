--------------------------- MODULE SourceRegistry ---------------------------
(* The registry of data sources (source_registry.py): the table keeps which     *)
(* keys are enabled, a cache in memory answers the requests that carry a key,   *)
(* and register() and revoke() write the table, wait for the audit trail, and   *)
(* then write the cache.  The cache is rebuilt from the configuration and the   *)
(* table at every start.  (_sources and _sources_by_hash hold the same object   *)
(* for a key that both know: one value stands for both.  Counters of events,    *)
(* names and the log of rejections are left out.)                               *)
EXTENDS Naturals, FiniteSets

CONSTANTS
    Keys,            \* API keys
    Configured,      \* those in settings.source_api_keys
    Requests,        \* calls of register() and revoke()
    MaxSourceStarts  \* BOUND: restarts of the process

ASSUME SourceAssumption ==
    Configured \subseteq Keys /\ "none" \notin Keys /\ MaxSourceStarts \in Nat

VARIABLES
    listed,          \* [Keys -> the row: "none", "enabled", "revoked"]
    known,           \* [Keys -> the cache: "none", "config", "enabled", "revoked"]
    request,         \* [Requests -> [at, op, key, saw]]
    sourceStarts,
    entangled,       \* ghost: keys with overlapping requests since the start
    unheard          \* ghost: keys whose row the cache may have missed

sourceVars == <<listed, known, request, sourceStarts, entangled, unheard>>

\* load_from_config, then load_from_db (which may fail): only enabled rows are read.
Loaded(rows, readable) ==
    [k \in Keys |-> IF k \in Configured THEN "config"
                    ELSE IF readable /\ rows[k] = "enabled" THEN "enabled" ELSE "none"]

\* _backfill_pending, which may fail on the way: configured keys without a row get one.
Backfilled(rows, done) == [k \in Keys |-> IF k \in done /\ rows[k] = "none" THEN "enabled" ELSE rows[k]]

Idle(r) == request[r].at \in {"new", "done", "failed"}
Working(k) == {r \in Requests : ~Idle(r) /\ request[r].key = k}

Boots(rows, readable, done) ==
    /\ listed' = Backfilled(rows, done)
    /\ known' = Loaded(rows, readable)
    /\ unheard' = IF readable THEN {} ELSE Keys \ Configured

SourcesInit ==
    \E done \in SUBSET Configured :
        /\ listed = Backfilled([k \in Keys |-> "none"], done)
        /\ known = Loaded([k \in Keys |-> "none"], TRUE)
        /\ request = [r \in Requests |-> [at |-> "new", op |-> "none", key |-> "none", saw |-> "none"]]
        /\ sourceStarts = 0 /\ entangled = {} /\ unheard = {}

\* The process ends at any point, and starts again with an empty cache.
SourcesRestart ==
    /\ sourceStarts < MaxSourceStarts /\ sourceStarts' = sourceStarts + 1
    /\ request' = [r \in Requests |-> IF Idle(r) THEN request[r] ELSE [request[r] EXCEPT !.at = "failed"]]
    /\ entangled' = {}
    /\ \E readable \in BOOLEAN, done \in SUBSET Configured : Boots(listed, readable, done)

\* select(...).where(api_key_hash == ...): revoke() of a key without a row is over.
ReadsRow(r, op, k) ==
    /\ request[r].at = "new"
    /\ request' = [request EXCEPT ![r] =
          [at |-> IF op = "revoke" /\ listed[k] = "none" THEN "done" ELSE "read",
           op |-> op, key |-> k, saw |-> listed[k]]]
    /\ entangled' = IF Working(k) # {} THEN entangled \cup {k} ELSE entangled
    /\ UNCHANGED <<listed, known, sourceStarts, unheard>>

Target(r) == IF request[r].op = "register" THEN "enabled" ELSE "revoked"

\* The session writes a column whose value it has changed, and only that.
RowAfter(r) == IF request[r].saw = Target(r) THEN listed[request[r].key] ELSE Target(r)

\* Two first registrations of a key collide in its unique index.
Collides(r) == request[r].saw = "none" /\ listed[request[r].key] # "none"

CommitsRow(r) ==
    /\ request[r].at = "read" /\ ~Collides(r)
    /\ listed' = [listed EXCEPT ![request[r].key] = RowAfter(r)]
    /\ request' = [request EXCEPT ![r].at = "committed"]
    /\ UNCHANGED <<known, sourceStarts, entangled, unheard>>

\* The call raises: at its commit, or, in register(), in the refresh behind the commit.
RequestFails(r) ==
    /\ \/ request[r].at = "read"
       \/ request[r].at = "committed" /\ request[r].op = "register"
    /\ request' = [request EXCEPT ![r].at = "failed"]
    /\ unheard' = IF request[r].at = "committed" THEN unheard \cup {request[r].key} ELSE unheard
    /\ UNCHANGED <<listed, known, sourceStarts, entangled>>

FaultyCached(r) ==                                     \* revoke() forgets the cache
    IF request[r].op = "register" THEN "enabled" ELSE known[request[r].key]
\* register() puts a new object into the cache, revoke() marks the one that is there.
Cached(r) ==
    IF request[r].op = "register" THEN "enabled"
    ELSE IF known[request[r].key] = "none" THEN "none" ELSE "revoked"

WritesCache(r) ==
    /\ request[r].at = "committed"
    /\ known' = [known EXCEPT ![request[r].key] = Cached(r)]
    /\ request' = [request EXCEPT ![r].at = "done"]
    /\ UNCHANGED <<listed, sourceStarts, entangled, unheard>>

SourcesNext ==
    \/ SourcesRestart
    \/ \E r \in Requests :
        \/ \E op \in {"register", "revoke"}, k \in Keys : ReadsRow(r, op, k)
        \/ CommitsRow(r) \/ RequestFails(r) \/ WritesCache(r)

SourcesSpec == SourcesInit /\ [][SourcesNext]_sourceVars
-----------------------------------------------------------------------------
(* Properties *)

SourcesTypeOK ==
    /\ listed \in [Keys -> {"none", "enabled", "revoked"}]
    /\ known \in [Keys -> {"none", "config", "enabled", "revoked"}]
    /\ request \in [Requests -> [at : {"new", "read", "committed", "done", "failed"},
                                 op : {"none", "register", "revoke"}, key : Keys \cup {"none"},
                                 saw : {"none", "enabled", "revoked"}]]
    /\ sourceStarts \in 0..MaxSourceStarts /\ entangled \subseteq Keys /\ unheard \subseteq Keys

\* authenticate: the cache alone decides.
Authenticates(k) == known[k] \in {"config", "enabled"}

Settled == {k \in Keys : Working(k) = {} /\ k \notin entangled}

\* Between requests, and over crashes and restarts, a key that the cache accepts is enabled
\* in the table: a revocation holds.  (Not so for a key that is accepted because the
\* configuration still lists it, nor after a registration that overlapped a revocation.)
RevocationsHold == \A k \in Settled : known[k] = "enabled" => listed[k] = "enabled"

\* And a key that the table enables is accepted, unless the table could not be read at the
\* start or the registration failed behind its commit.
RegistrationsHold == \A k \in Settled \ unheard : listed[k] = "enabled" => Authenticates(k)

\* What was told to the operator is true: a revocation that answered with success leaves the
\* key refused until another request writes it, over restarts too; a key of the
\* configuration until the process starts again.
AnsweredIsDone ==
    \A r \in Requests :
        LET k == request[r].key IN
        request[r].at = "done" /\ request[r].op = "revoke" /\ request[r].saw # "none"
            /\ (sourceStarts = 0 \/ k \notin Configured) /\ k \notin entangled
            /\ (\A o \in Requests \ {r} : request[o].key # k)
        => ~Authenticates(k)

\* The cache and the table agree on who may send.
SourcesSound == SourcesTypeOK /\ RevocationsHold /\ RegistrationsHold /\ AnsweredIsDone
=============================================================================
