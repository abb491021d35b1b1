----------------------------- MODULE ToolCallLog -----------------------------
(* The log of tool calls (mcp_guard/call_logger.py): a row is stored by a task  *)
(* of its own, or waits in a bounded deque which flush_fallback takes over as a *)
(* whole and gives back when its commit fails.  Threads and tasks share the     *)
(* deque under a lock.                                                          *)
EXTENDS Integers, Sequences, SequencesExt, FiniteSets, FiniteSetsExt

CONSTANTS
    Calls,           \* guarded tool calls
    Flushes,         \* tasks that call flush_fallback: the scheduler's, the route's
    FallbackMax,
    MaxLogFaults     \* BOUND: inserts and commits that fail

ASSUME CallLogAssumption ==
    IsFiniteSet(Calls) /\ FallbackMax \in Nat \ {0} /\ MaxLogFaults \in Nat

VARIABLES
    call,            \* [Calls -> where its row is]
    fallback,        \* _fallback
    dropped,         \* _dropped
    owned,           \* [Flushes -> the batch of the flush at work]
    stored,          \* [Calls -> how many rows the table has for it]
    logFaults

callLogVars == <<call, fallback, dropped, owned, stored, logFaults>>

CallLogInit ==
    /\ call = [c \in Calls |-> "new"]
    /\ fallback = <<>> /\ dropped = 0
    /\ owned = [f \in Flushes |-> <<>>]
    /\ stored = [c \in Calls |-> 0]
    /\ logFaults = 0

LogFault == logFaults < MaxLogFaults /\ logFaults' = logFaults + 1

\* _enqueue: a full deque(maxlen) loses its oldest row, and it is counted.
EnqueueRow(c) ==
    IF Len(fallback) < FallbackMax
    THEN fallback' = Append(fallback, c) /\ dropped' = dropped
    ELSE fallback' = Append(Tail(fallback), c) /\ dropped' = dropped + 1

\* log() in a thread without an event loop, and with one.
LogsRow(c) ==
    /\ call[c] = "new"
    /\ \/ call' = [call EXCEPT ![c] = "logged"] /\ EnqueueRow(c)
       \/ call' = [call EXCEPT ![c] = "persisting"] /\ UNCHANGED <<fallback, dropped>>
    /\ UNCHANGED <<owned, stored, logFaults>>

\* _persist_one.
Persists(c) ==
    /\ call[c] = "persisting"
    /\ call' = [call EXCEPT ![c] = "logged"]
    /\ stored' = [stored EXCEPT ![c] = @ + 1]
    /\ UNCHANGED <<fallback, dropped, owned, logFaults>>

PersistFails(c) ==
    /\ call[c] = "persisting" /\ LogFault
    /\ call' = [call EXCEPT ![c] = "logged"]
    /\ EnqueueRow(c)
    /\ UNCHANGED <<owned, stored>>

Rest == <<>>

\* flush_fallback up to its first await: it owns what was there.
TakesOver(f) ==
    /\ owned[f] = <<>> /\ fallback # <<>>
    /\ owned' = [owned EXCEPT ![f] = fallback]
    /\ fallback' = Rest
    /\ UNCHANGED <<call, dropped, stored, logFaults>>

FlushStores(f) ==
    /\ owned[f] # <<>>
    /\ stored' = [c \in Calls |-> stored[c] + Cardinality({c} \cap Range(owned[f]))]
    /\ owned' = [owned EXCEPT ![f] = <<>>]
    /\ UNCHANGED <<call, fallback, dropped, logFaults>>

\* The batch comes first, then the rows that arrived meanwhile.
GivenBack(f) == owned[f] \o fallback

Kept(rows) == SubSeq(rows, 1, Min({Len(rows), FallbackMax}))

\* Rows beyond the limit are left out, the newest first, and counted.
FlushRestores(f) ==
    /\ owned[f] # <<>> /\ LogFault
    /\ fallback' = Kept(GivenBack(f))
    /\ dropped' = dropped + Len(GivenBack(f)) - Len(fallback')
    /\ owned' = [owned EXCEPT ![f] = <<>>]
    /\ UNCHANGED <<call, stored>>

CallLogNext ==
    \/ \E c \in Calls : LogsRow(c) \/ Persists(c) \/ PersistFails(c)
    \/ \E f \in Flushes : TakesOver(f) \/ FlushStores(f) \/ FlushRestores(f)

CallLogSpec == CallLogInit /\ [][CallLogNext]_callLogVars
-----------------------------------------------------------------------------
(* Properties *)

Owned == UNION {Range(owned[f]) : f \in Flushes}
StoredRows == {c \in Calls : stored[c] > 0}

CallLogTypeOK ==
    /\ call \in [Calls -> {"new", "persisting", "logged"}]
    /\ Range(fallback) \subseteq Calls /\ Len(fallback) <= FallbackMax
    /\ \A f \in Flushes : Range(owned[f]) \subseteq Calls /\ Len(owned[f]) <= FallbackMax
    /\ dropped \in 0..Cardinality(Calls) /\ logFaults \in 0..MaxLogFaults

\* Every call that was logged is stored, waits, is in the hands of a flush, or is one
\* of those that _dropped counts: the count is exact, whatever flushes overlap, fail
\* and give back while new rows arrive.
DropsCounted ==
    Cardinality({c \in Calls : call[c] = "logged"})
        = Cardinality(StoredRows) + Cardinality(Range(fallback)) + Cardinality(Owned) + dropped

\* No call is stored twice, and no row is in two places at once.
StoredOnceOnly ==
    /\ \A c \in Calls : stored[c] <= 1
    /\ StoredRows \cap (Range(fallback) \cup Owned) = {} /\ Range(fallback) \cap Owned = {}

\* No row of the log is lost uncounted, and none is stored twice.
CallLogSound == CallLogTypeOK /\ DropsCounted /\ StoredOnceOnly
=============================================================================
