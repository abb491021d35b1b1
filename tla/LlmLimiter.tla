------------------------------ MODULE LlmLimiter ------------------------------
(* The gate of all LLM calls (llm_limiter.py): a monitor with one condition,   *)
(* a limit, slots that only calls of tier P0 may take, and a time-out.  The lock *)
(* of the monitor is held over no await but that of the condition, so that what *)
(* lies between two awaits is one step (Python 3.12: wait_for() awaits in the   *)
(* task itself, in which a notified call gets the lock at once).               *)
EXTENDS Integers, FiniteSets

CONSTANTS
    Callers,
    P0,              \* callers of tier P0
    Limit,           \* llm_global_concurrency
    Reserve          \* llm_p0_reserve, at most Limit - 1

ASSUME LimiterAssumption ==
    /\ IsFiniteSet(Callers) /\ P0 \subseteq Callers
    /\ Limit \in Nat \ {0} /\ Reserve \in 0..Limit - 1

VARIABLES
    caller,          \* [Callers -> where the call is]
    used, p0Used, waiters

limiterVars == <<caller, used, p0Used, waiters>>

LimiterInit ==
    /\ caller = [c \in Callers |-> "out"]
    /\ used = 0 /\ p0Used = 0 /\ waiters = 0

Less(n) == IF n = 0 THEN 0 ELSE n - 1
Moves(c, where) == caller' = [caller EXCEPT ![c] = where]
In(where) == {c \in Callers : caller[c] = where}

CanEnter(c) == used < Limit /\ (c \in P0 \/ used - p0Used < Limit - Reserve)

Takes(c) ==
    /\ Moves(c, "inside") /\ used' = used + 1
    /\ p0Used' = IF c \in P0 THEN p0Used + 1 ELSE p0Used

\* _enter() up to its first await: the slot, or cv.wait().
Arrive(c) ==
    /\ caller[c] = "out"
    /\ \/ CanEnter(c) /\ Takes(c) /\ waiters' = waiters
       \/ ~CanEnter(c) /\ Moves(c, "asleep") /\ waiters' = waiters + 1 /\ UNCHANGED <<used, p0Used>>

\* A notified call has the lock again, and looks once more.
Recheck(c) ==
    /\ caller[c] = "awake"
    /\ \/ CanEnter(c) /\ Takes(c) /\ waiters' = Less(waiters)
       \/ ~CanEnter(c) /\ Moves(c, "asleep") /\ UNCHANGED <<used, p0Used, waiters>>

\* Its time-out or a cancellation, also after it was notified.
GivesUp(c) ==
    /\ caller[c] \in {"asleep", "awake"} /\ Moves(c, "out")
    /\ waiters' = Less(waiters)
    /\ UNCHANGED <<used, p0Used>>

FaultyNotified == IF In("asleep") = {} THEN {} ELSE {CHOOSE c \in In("asleep") : TRUE}  \* notify(1)
Notified == In("asleep")

P0Left(c) == IF c \in P0 THEN Less(p0Used) ELSE p0Used

\* _leave(): the slot is free, and notify_all().
Leave(c) ==
    /\ caller[c] = "inside"
    /\ caller' = [d \in Callers |-> IF d = c THEN "out" ELSE
                                    IF d \in Notified THEN "awake" ELSE caller[d]]
    /\ used' = Less(used)
    /\ p0Used' = P0Left(c)
    /\ waiters' = waiters

LimiterStep(c) == Arrive(c) \/ Recheck(c) \/ GivesUp(c) \/ Leave(c)

LimiterNext == \E c \in Callers : LimiterStep(c)

LimiterSpec == LimiterInit /\ [][LimiterNext]_limiterVars
-----------------------------------------------------------------------------
(* Properties *)

LimiterTypeOK ==
    /\ caller \in [Callers -> {"out", "asleep", "awake", "inside"}]
    /\ used \in 0..Limit /\ p0Used \in 0..used /\ waiters \in Nat

\* No more calls are under way than the limit, and calls below P0 leave the reserve
\* free, however calls arrive, give up, are notified and leave.
LimitKept ==
    /\ Cardinality(In("inside")) <= Limit
    /\ Cardinality(In("inside") \ P0) <= Limit - Reserve

\* The count of waiters, which admission decisions read, is that of the calls that wait.
WaitersCounted == waiters = Cardinality(In("asleep") \cup In("awake"))

\* Nobody sleeps at an open gate: a call that was not notified since it last looked
\* could not enter now, so that notifying all when one slot becomes free is enough.
NoSleeperAtOpenGate == \A c \in In("asleep") : ~CanEnter(c)

\* The gate as a whole: its counts are those of the calls, its limits hold, and nobody
\* sleeps in front of a place that is free.
LimiterSound == LimiterTypeOK /\ LimitKept /\ WaitersCounted /\ NoSleeperAtOpenGate
=============================================================================
