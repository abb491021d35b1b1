----------------------------- MODULE AnomalyScoring -----------------------------
(* Job 2's keyed function for one source address (AnomalyDetectionJob.java): the   *)
(* event counts of five-minute windows, their running mean and deviation, the      *)
(* score, the cold start and the limit of alerts per window.  Time is counted in   *)
(* windows; events may come out of order.  The score is in hundredths.  Mean and   *)
(* deviation are represented exactly, by the number of samples, their sum and the  *)
(* sum of their squares.                                                           *)
EXTENDS Integers, Sequences, FiniteSets, FiniteSetsExt, Functions

CONSTANTS
    Severities,      \* severities of the events
    Nights,          \* windows between midnight and five
    ColdStart,       \* COLD_START_EVENTS
    MaxAlerts,       \* MAX_ALERTS_PER_WINDOW
    StaticLimit,     \* the threshold of the cold start
    MaxWindow,       \* BOUND: the last window
    MaxEvents,       \* BOUND: events
    MaxIdles         \* BOUND: pauses of two hours

ASSUME ScoringAssumption ==
    /\ {ColdStart, MaxAlerts, StaticLimit, MaxEvents} \subseteq Nat \ {0}
    /\ {MaxWindow, MaxIdles} \subseteq Nat /\ Nights \subseteq 0..MaxWindow

VARIABLES
    count,           \* ip-event-count
    windowCounts,    \* window-counts: a function on the windows that have one
    baseline,        \* [n, sum, squares]
    alertWindow, alertCount,
    alerts,          \* [windows -> how many alerts were put out]
    route,           \* where the last event went, besides the enriched topic
    events, idles,
    newest,          \* ghost: the latest window
    reordered        \* ghost: an event came behind one of a later window

scoringVars ==
    <<count, windowCounts, baseline, alertWindow, alertCount, alerts, route, events, idles, newest, reordered>>

Windows == 0..MaxWindow
NoWindow == -1
NoSamples == [n |-> 0, sum |-> 0, squares |-> 0]
NoCounts == [w \in {} |-> 0]

ScoringInit ==
    /\ count = 0 /\ windowCounts = NoCounts /\ baseline = NoSamples
    /\ alertWindow = NoWindow /\ alertCount = 0
    /\ alerts = [w \in Windows |-> 0] /\ route = "none"
    /\ events = 0 /\ idles = 0 /\ newest = 0 /\ reordered = FALSE
-----------------------------------------------------------------------------
(* The score *)

SeverityWeight(severity) ==
    CASE severity = "critical" -> 100 [] severity = "high" -> 60 [] severity = "medium" -> 30
      [] severity = "info" -> -5 [] OTHER -> 0

\* cleanExpiredWindows, as seen from the window of the event.
KeptWindows(w) == {v \in DOMAIN windowCounts \cup {w} : v >= w - 1}

CountsWith(w) ==
    LET of(v) == IF v \in DOMAIN windowCounts THEN windowCounts[v] ELSE 0 IN
    [v \in KeptWindows(w) |-> IF v = w THEN of(v) + 1 ELSE of(v)]

\* Every event adds the count of its window so far (Welford).
BaselineWith(x) == [n |-> baseline.n + 1, sum |-> baseline.sum + x, squares |-> baseline.squares + x * x]

\* Above the mean by more than twice the deviation: x > sum/n + 2 sqrt(squares/n - (sum/n)^2).
StandsOut(x, b) ==
    LET over == b.n * x - b.sum IN over > 0 /\ over * over > 4 * (b.n * b.squares - b.sum * b.sum)

Frequent(x, b) == IF b.n > ColdStart THEN StandsOut(x, b) ELSE x > StaticLimit

Score(severity, w, x, b) ==
    Max({0, Min({100, SeverityWeight(severity)
                      + (IF Frequent(x, b) THEN 30 ELSE 0) + (IF w \in Nights THEN 40 ELSE 0)})})
-----------------------------------------------------------------------------
(* The route *)

Full == alertCount >= MaxAlerts

AnotherWindow(w) == alertWindow # w

\* isAlertSuppressed; a window whose count is full is not left by itself.
Alert(w) ==
    \/ /\ ~AnotherWindow(w) /\ Full
       /\ route' = "suppressed" /\ UNCHANGED <<alertWindow, alertCount, alerts>>
    \/ /\ AnotherWindow(w) \/ ~Full
       /\ alertCount' = IF AnotherWindow(w) THEN 1 ELSE alertCount + 1
       /\ alertWindow' = w /\ route' = "alert" /\ alerts' = [alerts EXCEPT ![w] = @ + 1]

\* processElement.
Event(w, severity) ==
    LET counts == CountsWith(w)
        b == BaselineWith(counts[w])
        score == Score(severity, w, counts[w], b)
        alarming == score >= 60 \/ severity \in {"critical", "high"}
        cold == count + 1 <= ColdStart IN
    /\ events < MaxEvents /\ events' = events + 1
    /\ count' = count + 1 /\ windowCounts' = counts /\ baseline' = b
    /\ IF alarming /\ ~cold THEN Alert(w)
       ELSE /\ route' = IF ~alarming /\ ~cold /\ score >= 30 THEN "audit" ELSE "none"
            /\ UNCHANGED <<alertWindow, alertCount, alerts>>
    /\ newest' = Max({newest, w})
    /\ reordered' = (reordered \/ w < newest)
    /\ idles' = idles

\* The states expire after two hours without an event, all of them.
Idle ==
    /\ idles < MaxIdles /\ idles' = idles + 1
    /\ newest < MaxWindow /\ newest' = newest + 1
    /\ count' = 0 /\ windowCounts' = NoCounts /\ baseline' = NoSamples
    /\ alertWindow' = NoWindow /\ alertCount' = 0
    /\ route' = "none" /\ UNCHANGED <<alerts, events, reordered>>

ScoringNext == Idle \/ \E w \in Windows, severity \in Severities : Event(w, severity)

ScoringSpec == ScoringInit /\ [][ScoringNext]_scoringVars
-----------------------------------------------------------------------------
(* Properties *)

ScoringTypeOK ==
    /\ count \in 0..MaxEvents /\ baseline.n = count
    /\ DOMAIN windowCounts \subseteq Windows
    /\ \A w \in DOMAIN windowCounts : windowCounts[w] \in 1..count
    /\ alertWindow \in Windows \cup {NoWindow} /\ alertCount \in 0..count
    /\ route \in {"none", "alert", "suppressed", "audit"}

\* An address gets no more alerts in a window than the limit, as long as its events
\* come in the order of their windows.  (Around the border of two windows they may
\* not, and each change of window starts the count again.)
StormBound == ~reordered => \A w \in Windows : alerts[w] <= MaxAlerts

\* An event is suppressed only when its own window has had all its alerts, whatever
\* the order, and whatever state has expired.
NoneSuppressedEarly == route = "suppressed" => alerts[alertWindow] >= MaxAlerts

\* The map of window counts, which no timer cleans, holds two windows at most, as long
\* as events come in order.
TwoWindowsKept == ~reordered => DOMAIN windowCounts \subseteq {newest - 1, newest}

\* As long as all events of an address lie in one window, no rate of them stands out
\* from the moving mean, to which each of them adds the count so far: a flood by an
\* address without a history is found by the static threshold only.
FloodIsNormal ==
    \A w \in DOMAIN windowCounts : baseline.n = windowCounts[w] => ~StandsOut(windowCounts[w], baseline)

\* The limit of alerts is neither passed nor applied too early, and what the windows and
\* the baseline hold stays as small, and finds as little, as stated above.
ScoringSound ==
    ScoringTypeOK /\ StormBound /\ NoneSuppressedEarly /\ TwoWindowsKept /\ FloodIsNormal
=============================================================================
