----------------------------- MODULE RateLimiter -----------------------------
(* The frequency limit of the security guard (security_guard/rate_limiter.py)  *)
(* as SecurityGuard uses it: inspect() reserves a place in the sliding window,  *)
(* the action is executed over several awaits, record() releases the place of   *)
(* an action that failed.  A time-stamp is represented by its age.             *)
EXTENDS Integers, Sequences, SequencesExt, FiniteSets

CONSTANTS
    Requests,        \* guarded executions
    ActionOf,        \* [Requests -> action name]
    GlobalLimit,
    ActionLimit,     \* [action names -> limit; a large one for a name without]
    Window           \* WINDOW_SEC, in ticks

ASSUME RateAssumption ==
    /\ IsFiniteSet(Requests) /\ GlobalLimit \in Nat \ {0} /\ Window \in Nat \ {0}
    /\ ActionLimit \in [{ActionOf[r] : r \in Requests} -> Nat \ {0}]

VARIABLES
    request,         \* [Requests -> where the execution is]
    globalCalls,     \* ages of _global_calls, in the order of the list
    actionCalls,     \* [action names -> those of _action_calls]
    admitted,        \* ghost: [Requests -> the age of its admission, or Gone]
    releases         \* ghost: how many places were released

rateVars == <<request, globalCalls, actionCalls, admitted, releases>>

Actions == DOMAIN ActionLimit
Gone == Window

RateInit ==
    /\ request = [r \in Requests |-> "new"]
    /\ globalCalls = <<>> /\ actionCalls = [a \in Actions |-> <<>>]
    /\ admitted = [r \in Requests |-> Gone] /\ releases = 0

Older(age) == IF age < Window THEN age + 1 ELSE age
AllOlder(ages) == [i \in DOMAIN ages |-> Older(ages[i])]

Tick ==
    /\ globalCalls' = AllOlder(globalCalls)
    /\ actionCalls' = [a \in Actions |-> AllOlder(actionCalls[a])]
    /\ admitted' = [r \in Requests |-> Older(admitted[r])]
    /\ UNCHANGED <<request, releases>>

\* The list is in the order of time, so that what has left the window stands in front.
Count(ages) == Cardinality({i \in DOMAIN ages : ages[i] < Window})
InWindow(ages) == SubSeq(ages, Len(ages) - Count(ages) + 1, Len(ages))

FaultyPasses(a) == Count(globalCalls) < GlobalLimit /\ Count(actionCalls[a]) <= ActionLimit[a]
Passes(a) == Count(globalCalls) < GlobalLimit /\ Count(actionCalls[a]) < ActionLimit[a]

\* The place is reserved at once, and what has left the window is dropped.
Reserve(a) ==
    /\ globalCalls' = InWindow(Append(globalCalls, 0))
    /\ actionCalls' = [b \in Actions |-> InWindow(IF a = b THEN Append(actionCalls[b], 0)
                                                  ELSE actionCalls[b])]

\* All checks are made: a request may be denied by another one after it got a place here.
Inspect(r) ==
    /\ request[r] = "new"
    /\ \/ /\ Passes(ActionOf[r]) /\ Reserve(ActionOf[r])
          /\ request' = [request EXCEPT ![r] = "executing"]
          /\ admitted' = [admitted EXCEPT ![r] = 0]
       \/ /\ Passes(ActionOf[r]) /\ Reserve(ActionOf[r])
          /\ request' = [request EXCEPT ![r] = "denied"] /\ UNCHANGED admitted
       \/ /\ ~Passes(ActionOf[r])
          /\ request' = [request EXCEPT ![r] = "denied"]
          /\ UNCHANGED <<globalCalls, actionCalls, admitted>>
    /\ UNCHANGED releases

Succeeds(r) ==
    /\ request[r] = "executing"
    /\ request' = [request EXCEPT ![r] = "done"]
    /\ UNCHANGED <<globalCalls, actionCalls, admitted, releases>>

Popped(ages) == IF ages = <<>> THEN ages ELSE Front(ages)

\* release(): the newest place of the list, whoever reserved it.
Fails(r) ==
    /\ request[r] = "executing"
    /\ request' = [request EXCEPT ![r] = "failed"]
    /\ globalCalls' = Popped(globalCalls)
    /\ actionCalls' = [actionCalls EXCEPT ![ActionOf[r]] = Popped(@)]
    /\ admitted' = [admitted EXCEPT ![r] = Gone] /\ releases' = releases + 1

RateNext == Tick \/ \E r \in Requests : Inspect(r) \/ Succeeds(r) \/ Fails(r)

RateSpec == RateInit /\ [][RateNext]_rateVars
-----------------------------------------------------------------------------
(* Properties *)

Admitted(S) == {r \in S : admitted[r] < Window}

InTimeOrder(ages) == \A i, j \in DOMAIN ages : i < j => ages[j] <= ages[i]

RateTypeOK ==
    /\ request \in [Requests -> {"new", "denied", "executing", "done", "failed"}]
    /\ Range(globalCalls) \subseteq 0..Window /\ \A a \in Actions : Range(actionCalls[a]) \subseteq 0..Window
    /\ admitted \in [Requests -> 0..Window] /\ releases \in Nat
    /\ InTimeOrder(globalCalls) /\ \A a \in Actions : InTimeOrder(actionCalls[a])

\* No more requests than the limits are admitted in any window, also when none of them
\* has been recorded yet; each failure, which releases the newest place and not its
\* own, can let one more through.
WindowBound ==
    /\ Cardinality(Admitted(Requests)) <= GlobalLimit + releases
    /\ \A a \in Actions :
        Cardinality(Admitted({r \in Requests : ActionOf[r] = a})) <= ActionLimit[a] + releases

\* Without failures the window is exact: an admitted request holds its place until
\* it leaves the window, and only then.
PlacesExact ==
    releases = 0 => \A a \in Actions :
        Count(actionCalls[a]) >= Cardinality(Admitted({r \in Requests : ActionOf[r] = a}))

\* The limit holds over the awaits between the check and the record: a call keeps its
\* place until it leaves the window, and failures give back no more than one each.
RateSound == RateTypeOK /\ WindowBound /\ PlacesExact
=============================================================================
