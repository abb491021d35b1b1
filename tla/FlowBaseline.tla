------------------------------ MODULE FlowBaseline ------------------------------
(* Jobs 3 and 6 for one source address: FlowAggregationJob.java counts the flows of *)
(* five-minute windows of event time, and BehaviorAnomalyJob.java compares each     *)
(* count with the windows before it and limits the alerts.  A flow is its time; the *)
(* sums of bytes go the same way as the number of flows and are left out.           *)
EXTENDS Integers, Sequences, SequencesExt, FiniteSets, FiniteSetsExt

CONSTANTS
    Partitions,      \* of ndr-flows
    Length,          \* of a window
    Slack,           \* forBoundedOutOfOrderness
    ColdWindows,     \* COLD_START_WINDOWS
    FloodLimit,      \* the static threshold of the cold start
    AlertsPerWindow, \* MAX_ALERTS_PER_WINDOW
    Sigmas,          \* ZSCORE_THRESHOLD
    MaxTime, MaxFlows,
    MaxReplays       \* BOUNDS; aggregates that are read again after a restart

ASSUME FlowAssumption ==
    /\ {Length, ColdWindows, FloodLimit, Sigmas} \subseteq Nat \ {0}
    /\ AlertsPerWindow \in Nat /\ AlertsPerWindow > 1 /\ Partitions # {}
    /\ {Slack, MaxTime, MaxFlows, MaxReplays} \subseteq Nat

VARIABLES
    latest,          \* [Partitions -> latest time of a flow, -1 before the first]
    watermark,
    panes,           \* [windows -> flows counted in it]
    aggregated,      \* ndr-flows-aggregated: [window, flows]
    flowsIn, flowsLate,
    nextRecord,      \* the record that the other job reads next
    history,         \* [n, sum, squares] of the flow counts
    stormStart, stormCount,
    verdicts,        \* for every record read: [flows, surge, told]
    replays,
    promptLost       \* ghost: a flow was dropped that was not late in its own partition

flowVars == <<latest, watermark, panes, aggregated, flowsIn, flowsLate, nextRecord, history,
              stormStart, stormCount, verdicts, replays, promptLost>>

Panes == 0..MaxTime \div Length
PaneOf(t) == t \div Length
End(w) == (w + 1) * Length
Never == -1

FlowInit ==
    /\ latest = [p \in Partitions |-> Never] /\ watermark = Never - Slack - 1
    /\ panes = [w \in Panes |-> 0] /\ aggregated = <<>> /\ flowsIn = 0 /\ flowsLate = 0
    /\ nextRecord = 1 /\ history = [n |-> 0, sum |-> 0, squares |-> 0]
    /\ stormStart = Never /\ stormCount = 0 /\ verdicts = <<>> /\ replays = 0 /\ promptLost = FALSE

aggregationVars == <<latest, watermark, panes, flowsIn, flowsLate, promptLost>>
baselineVars == <<nextRecord, history, stormStart, stormCount, verdicts, replays>>
-----------------------------------------------------------------------------
(* Job 3 *)

Closed(w) == watermark >= End(w) - 1

\* A flow whose window is closed is dropped.
Flow(p, t) ==
    /\ flowsIn < MaxFlows /\ flowsIn' = flowsIn + 1
    /\ latest' = [latest EXCEPT ![p] = Max({@, t})]
    /\ IF Closed(PaneOf(t))
       THEN flowsLate' = flowsLate + 1 /\ panes' = panes
       ELSE panes' = [panes EXCEPT ![PaneOf(t)] = @ + 1] /\ flowsLate' = flowsLate
    /\ promptLost' = (promptLost \/ (Closed(PaneOf(t)) /\ t >= latest[p] - Slack))
    /\ UNCHANGED <<watermark, aggregated, baselineVars>>

\* The slowest partition decides, a silent one for ever: the source has no withIdleness().
Time == Min({latest[p] : p \in Partitions}) - Slack - 1

Closing == {w \in Panes : ~Closed(w) /\ panes[w] > 0 /\ Time >= End(w) - 1}

\* The watermark moves from time to time, and the windows that it closes are put out.
Watermark ==
    /\ Time > watermark /\ watermark' = Time
    /\ \E order \in [1..Cardinality(Closing) -> Closing] :
        /\ \A i, j \in DOMAIN order : i < j => order[i] < order[j]
        /\ aggregated' = aggregated \o
               [i \in DOMAIN order |-> [window |-> order[i], flows |-> panes[order[i]]]]
    /\ panes' = [w \in Panes |-> IF w \in Closing THEN 0 ELSE panes[w]]
    /\ UNCHANGED <<latest, flowsIn, flowsLate, promptLost, baselineVars>>
-----------------------------------------------------------------------------
(* Job 6 *)

With(h, x) == [n |-> h.n + 1, sum |-> h.sum + x, squares |-> h.squares + x * x]
Deviant(h, x) ==                         \* a z-score of Sigmas, if there is a deviation
    LET var == h.n * h.squares - h.sum * h.sum  over == h.n * x - h.sum IN
    var > 0 /\ over >= 0 /\ over * over >= Sigmas * Sigmas * var

\* evaluate(), for the number of flows.
Surge(h, x) == IF h.n >= ColdWindows THEN Deviant(h, x) ELSE x >= FloodLimit

Judged(x) == history

Restarting(now) == stormStart = Never \/ now - stormStart > Length
Room(now) == Restarting(now) \/ stormCount < AlertsPerWindow

\* Whether there are other reasons (many ports or addresses) is the environment's choice.
Judge(scan) ==
    LET x == aggregated[nextRecord].flows
        now == End(aggregated[nextRecord].window)
        surge == Surge(Judged(x), x)
        reason == surge \/ scan IN
    /\ nextRecord <= Len(aggregated) /\ nextRecord' = nextRecord + 1
    /\ history' = With(history, x)
    /\ verdicts' = Append(verdicts, [flows |-> x, surge |-> surge, reason |-> reason,
                                     told |-> reason /\ Room(now)])
    /\ stormStart' = IF reason /\ Restarting(now) THEN now ELSE stormStart
    /\ stormCount' = (IF reason /\ Restarting(now) THEN 0 ELSE stormCount)
                     + (IF reason /\ Room(now) THEN 1 ELSE 0)
    /\ UNCHANGED <<aggregated, aggregationVars, replays>>

\* After a restart of job 3 its last record is in the topic twice, for this job reads
\* records of aborted transactions as well.
Replay ==
    /\ replays < MaxReplays /\ replays' = replays + 1 /\ aggregated # <<>>
    /\ aggregated' = Append(aggregated, Last(aggregated))
    /\ UNCHANGED <<aggregationVars, nextRecord, history, stormStart, stormCount, verdicts>>

FlowNext ==
    \/ \E p \in Partitions, t \in 0..MaxTime : Flow(p, t)
    \/ Watermark \/ Replay
    \/ \E scan \in BOOLEAN : Judge(scan)

FlowSpec == FlowInit /\ [][FlowNext]_flowVars
-----------------------------------------------------------------------------
(* Properties *)

\* The sum of a function's numbers, as the size of a set.
SumOf(f) == Cardinality(UNION {{k} \X (1..f[k]) : k \in DOMAIN f})

FlowTypeOK ==
    /\ latest \in [Partitions -> Never..MaxTime] /\ watermark <= MaxTime
    /\ panes \in [Panes -> 0..MaxFlows] /\ flowsLate \in 0..flowsIn
    /\ nextRecord \in 1..Len(aggregated) + 1 /\ Len(verdicts) = nextRecord - 1
    /\ stormCount \in 0..AlertsPerWindow /\ replays \in 0..MaxReplays

\* Every flow is counted in one window, or was dropped as late, and none is left in a
\* window that the watermark has passed.
FlowsCounted ==
    /\ \A w \in Panes : watermark >= End(w) - 1 => panes[w] = 0
    /\ replays = 0 =>
        flowsIn = flowsLate + SumOf(panes) + SumOf([i \in DOMAIN aggregated |-> aggregated[i].flows])

\* No flow is dropped that comes within the slack in its own partition, however far
\* the other partitions are ahead.
PromptFlowsCount == ~promptLost

\* The sums over the windows that were judged before number i.
Before(i) == [
    n |-> i - 1,
    sum |-> SumOf([j \in 1..i - 1 |-> verdicts[j].flows]),
    squares |-> SumOf([j \in 1..i - 1 |-> verdicts[j].flows * verdicts[j].flows])]

\* A window is judged by the windows before it and by nothing else: by their mean and
\* deviation, which the job keeps in three running sums.
JudgedByOthers ==
    \A i \in DOMAIN verdicts : verdicts[i].surge = Surge(Before(i), verdicts[i].flows)

\* With one record for a window, as job 3 puts them out, no alert is ever suppressed:
\* the limit of alerts acts on records that are read twice.
OnlyReplaysSuppressed ==
    replays = 0 => \A i \in DOMAIN verdicts : verdicts[i].reason => verdicts[i].told

\* Every flow is counted in its window unless it was late for its own partition, and each
\* window is judged by those before it, and told of.
FlowsSound ==
    FlowTypeOK /\ FlowsCounted /\ PromptFlowsCount /\ JudgedByOthers /\ OnlyReplaysSuppressed
=============================================================================
