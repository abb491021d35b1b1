---------------------------- MODULE VerdictCache ----------------------------
(* The cache of verdicts for events of the same signature (audit_cache.py):     *)
(* every process has a bounded LRU in memory, and all share Redis.  put()       *)
(* writes the memory and then Redis; get() asks the memory and then Redis, and  *)
(* keeps what Redis answered for another TTL.  A verdict is named by the time   *)
(* at which it was reached.  (Each process has one get() and one put() at a     *)
(* time, and a Redis command takes less than a unit of the clock.)              *)
EXTENDS Integers, Sequences, SequencesExt, FiniteSets

CONSTANTS
    Processes,
    Signatures,
    VerdictTtl,      \* audit_cache_ttl_s
    MemMax,          \* _MEM_MAX
    MaxNow,          \* BOUND: the clock
    MaxAnswers       \* BOUND: verdicts that are reached

ASSUME CacheAssumption ==
    VerdictTtl \in Nat \ {0} /\ MemMax \in Nat \ {0} /\ MaxNow \in Nat /\ MaxAnswers \in Nat

VARIABLES
    nowIs,           \* the clock
    mem,             \* [Processes -> _MEM, oldest use first: [sig, exp, of]]
    redis,           \* [Signatures -> [exp, of] or Nothing]
    getter,          \* [Processes -> the get() that waits for Redis: [at, sig, since, of]]
    setter,          \* [Processes -> the put() that waits for Redis: [sig, of] or Nothing]
    answers,         \* how many verdicts were reached
    served,          \* ghost: the age of the verdict that a get() has just returned, and
                     \* whether its process had reached a newer one, and nothing crossed
    own,             \* ghost: [Processes -> [Signatures -> its own last verdict]]
    crossed          \* ghost: signatures whose put() ran beside another call, or failed

cacheVars == <<nowIs, mem, redis, getter, setter, answers, served, own, crossed>>

Nothing == [exp |-> -1, of |-> -1]
NoGet == [at |-> "idle", sig |-> "none", since |-> 0, of |-> -1]
NoSet == [sig |-> "none", of |-> -1]
NotServed == [age |-> 0, older |-> FALSE]

CacheInit ==
    /\ nowIs = 0 /\ mem = [p \in Processes |-> <<>>]
    /\ redis = [s \in Signatures |-> Nothing]
    /\ getter = [p \in Processes |-> NoGet] /\ setter = [p \in Processes |-> NoSet]
    /\ answers = 0 /\ served = NotServed
    /\ own = [p \in Processes |-> [s \in Signatures |-> -1]] /\ crossed = {}

ClockMoves ==
    /\ nowIs < MaxNow /\ nowIs' = nowIs + 1
    /\ \A p \in Processes : getter[p] = NoGet /\ setter[p] = NoSet
    /\ served' = NotServed
    /\ UNCHANGED <<mem, redis, getter, setter, answers, own, crossed>>

InMemory(p, s) == \E i \in DOMAIN mem[p] : mem[p][i].sig = s
Place(p, s) == CHOOSE i \in DOMAIN mem[p] : mem[p][i].sig = s
Without(p, s) == IF InMemory(p, s) THEN RemoveAt(mem[p], Place(p, s)) ELSE mem[p]

\* Assignment to a key that is there keeps its place.
Assigned(p, entry) ==
    IF InMemory(p, entry.sig) THEN [mem[p] EXCEPT ![Place(p, entry.sig)] = entry]
    ELSE Append(mem[p], entry)

Serves(p, s, of) == served' = [age |-> nowIs - of, older |-> s \notin crossed /\ of < own[p][s]]

\* get: the memory answers while the entry is fresh, and an expired entry goes.
AsksMemory(p, s) ==
    /\ getter[p].at = "idle"
    /\ LET entry == mem[p][Place(p, s)] IN
       IF InMemory(p, s) /\ entry.exp > nowIs
       THEN /\ mem' = [mem EXCEPT ![p] = Append(Without(p, s), entry)]
            /\ Serves(p, s, entry.of) /\ getter' = getter
       ELSE /\ mem' = [mem EXCEPT ![p] = Without(p, s)]
            /\ getter' = [getter EXCEPT ![p] = [at |-> "asked", sig |-> s, since |-> nowIs, of |-> -1]]
            /\ served' = NotServed
    /\ UNCHANGED <<nowIs, redis, setter, answers, own, crossed>>

\* Redis answers with what has not expired; or the command fails, which counts as a miss.
RedisAnswers(p) ==
    /\ getter[p].at = "asked"
    /\ LET hit == redis[getter[p].sig] IN
       \/ hit.exp > nowIs
          /\ getter' = [getter EXCEPT ![p].at = "hit", ![p].of = hit.of]
       \/ getter' = [getter EXCEPT ![p] = NoGet]
    /\ served' = NotServed
    /\ UNCHANGED <<nowIs, mem, redis, setter, answers, own, crossed>>

\* now was read before the question to Redis.
Renewed(p) == getter[p].since + VerdictTtl

KeepsHit(p) ==
    /\ getter[p].at = "hit"
    /\ mem' = [mem EXCEPT ![p] =
          Assigned(p, [sig |-> getter[p].sig, exp |-> Renewed(p), of |-> getter[p].of])]
    /\ Serves(p, getter[p].sig, getter[p].of)
    /\ getter' = [getter EXCEPT ![p] = NoGet]
    /\ UNCHANGED <<nowIs, redis, setter, answers, own, crossed>>

Trimmed(entries) == SubSeq(entries, Len(entries) - MemMax + 1, Len(entries))

Crosses(p, s) ==
    \E q \in Processes : getter[q].sig = s \/ (q # p /\ setter[q].sig = s)

\* put: an audit has reached a verdict now.
PutsMemory(p, s) ==
    /\ answers < MaxAnswers /\ setter[p] = NoSet /\ answers' = answers + 1
    /\ LET entries == Append(Without(p, s), [sig |-> s, exp |-> nowIs + VerdictTtl, of |-> nowIs]) IN
       mem' = [mem EXCEPT ![p] = IF Len(entries) > MemMax THEN Trimmed(entries) ELSE entries]
    /\ setter' = [setter EXCEPT ![p] = [sig |-> s, of |-> nowIs]]
    /\ own' = [own EXCEPT ![p][s] = nowIs]
    /\ crossed' = IF Crosses(p, s) THEN crossed \cup {s} ELSE crossed
    /\ served' = NotServed
    /\ UNCHANGED <<nowIs, redis, getter>>

\* SET with its TTL, counted from when Redis executes it; or a failure that is passed over.
PutsRedis(p) ==
    /\ setter[p] # NoSet
    /\ LET s == setter[p].sig IN
       \/ /\ redis' = [redis EXCEPT ![s] = [exp |-> nowIs + VerdictTtl, of |-> setter[p].of]]
          /\ crossed' = crossed
       \/ redis' = redis /\ crossed' = crossed \cup {s}
    /\ setter' = [setter EXCEPT ![p] = NoSet]
    /\ served' = NotServed
    /\ UNCHANGED <<nowIs, mem, getter, answers, own>>

CacheNext ==
    \/ ClockMoves
    \/ \E p \in Processes :
        \/ \E s \in Signatures : AsksMemory(p, s) \/ PutsMemory(p, s)
        \/ RedisAnswers(p) \/ KeepsHit(p) \/ PutsRedis(p)

CacheSpec == CacheInit /\ [][CacheNext]_cacheVars
-----------------------------------------------------------------------------
(* Properties *)

Entry == [sig : Signatures, exp : Int, of : Int]

CacheTypeOK ==
    /\ nowIs \in 0..MaxNow /\ answers \in 0..MaxAnswers /\ crossed \subseteq Signatures
    /\ \A p \in Processes : \A i, j \in DOMAIN mem[p] :
        mem[p][i] \in Entry /\ (mem[p][i].sig = mem[p][j].sig => i = j)
    /\ \A p \in Processes : getter[p].at \in {"idle", "asked", "hit"}

\* No event is closed with a verdict of two TTLs ago or more: Redis gives a verdict out for
\* one TTL, and the memory that takes it over keeps it for one more, and never gives it back
\* to Redis.  (One TTL, as audit_cache.py:4 has it, is not kept.)
VerdictsExpire == served.age < 2 * VerdictTtl

\* A process does not return to a verdict from before its own last one, through evictions,
\* expiry and Redis, when no other call on the signature overlapped its put().
NoReturnToOlder == ~served.older

\* Cached verdicts expire, and are not replaced by older ones.
CacheSound == CacheTypeOK /\ VerdictsExpire /\ NoReturnToOlder
=============================================================================
