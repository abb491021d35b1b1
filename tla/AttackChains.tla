------------------------------ MODULE AttackChains ------------------------------
(* The attack chains of one source address (Job 2): the patterns that raise alerts *)
(* (AnomalyDetectionJob.buildCepPatterns: strict succession within a time, found   *)
(* by Flink's CEP library) and the tracker that shows the progress of a chain       *)
(* (CepPartialMatchFunction.java).  Events come in the order of their times.       *)
EXTENDS Integers, Sequences, SequencesExt, FiniteSets, FiniteSetsExt

CONSTANTS
    Chains,          \* [patterns -> their steps]
    Within,          \* [patterns -> the time of the whole chain]
    Ttl,             \* how long the progress is kept after it was written
    EventTypes,
    MaxPause,        \* BOUND: time between two events
    MaxChainEvents   \* BOUND: events

Patterns == DOMAIN Chains

ASSUME ChainAssumption ==
    /\ Patterns # {} /\ IsFiniteSet(Patterns) /\ Ttl \in Nat \ {0} /\ MaxPause \in Nat
    /\ \A p \in Patterns : Chains[p] \in Seq(EventTypes) /\ IsInjective(Chains[p]) /\ Len(Chains[p]) > 1
    /\ \A p \in Patterns : Within[p] \in 1..Ttl

VARIABLES
    recent,          \* the last events: [type, age]
    progress,        \* [patterns -> steps matched; 0 if there is no entry]
    written,         \* [patterns -> age of the entry]
    alerted,         \* patterns that the last event completed for CEP
    completed,       \* patterns that it completed for the tracker
    chainEvents,
    forgotten        \* ghost: patterns whose progress expired, and none began since

chainVars == <<recent, progress, written, alerted, completed, chainEvents, forgotten>>

Longest == Max({Len(Chains[p]) : p \in Patterns})
Newest(s) == SubSeq(s, Max({1, Len(s) - Longest + 1}), Len(s))

ChainsInit ==
    /\ recent = <<>> /\ progress = [p \in Patterns |-> 0] /\ written = [p \in Patterns |-> 0]
    /\ alerted = {} /\ completed = {} /\ chainEvents = 0 /\ forgotten = {}

\* begin().next().next().within(): the last events, without another one between them.
Matches(p, s) ==
    LET k == Len(Chains[p])  from == Len(s) - k IN
    /\ from >= 0
    /\ \A i \in 1..k : s[from + i].type = Chains[p][i]
    /\ s[from + 1].age - s[Len(s)].age < Within[p]

FaultyStepped(p, type) ==                              \* another event breaks the chain
    IF type = Chains[p][progress[p] + 1] THEN progress[p] + 1 ELSE 0
\* Other events do not matter, not even another first step.
Stepped(p, type) == IF type = Chains[p][progress[p] + 1] THEN progress[p] + 1 ELSE progress[p]

Entry(n, p) == IF n = Len(Chains[p]) THEN 0 ELSE n

\* processElement of the tracker, and the event for the patterns.
Occurs(type) ==
    LET stepped == [p \in Patterns |-> Stepped(p, type)]
        moved == {p \in Patterns : stepped[p] # progress[p]} IN
    /\ chainEvents < MaxChainEvents /\ chainEvents' = chainEvents + 1
    /\ recent' = Newest(Append(recent, [type |-> type, age |-> 0]))
    /\ alerted' = {p \in Patterns : Matches(p, recent')}
    /\ completed' = {p \in Patterns : stepped[p] = Len(Chains[p])}
    /\ progress' = [p \in Patterns |-> Entry(stepped[p], p)]
    /\ written' = [p \in Patterns |-> IF p \in moved THEN 0 ELSE written[p]]
    /\ forgotten' = forgotten \ moved

\* Time passes, and entries that were written too long ago are gone.
Pauses(d) ==
    LET old(p) == progress[p] > 0 /\ written[p] + d >= Ttl IN
    /\ recent # <<>> /\ Last(recent).age = 0
    /\ recent' = [i \in DOMAIN recent |-> [recent[i] EXCEPT !.age = Min({Ttl, @ + d})]]
    /\ written' = [p \in Patterns |-> IF progress[p] > 0 /\ ~old(p) THEN written[p] + d ELSE 0]
    /\ progress' = [p \in Patterns |-> IF old(p) THEN 0 ELSE progress[p]]
    /\ forgotten' = forgotten \cup {p \in Patterns : old(p)}
    /\ alerted' = {} /\ completed' = {}
    /\ chainEvents' = chainEvents

ChainsNext ==
    \/ \E type \in EventTypes : Occurs(type)
    \/ \E d \in 1..MaxPause : Pauses(d)

ChainsSpec == ChainsInit /\ [][ChainsNext]_chainVars
-----------------------------------------------------------------------------
(* Properties *)

ChainsTypeOK ==
    /\ Len(recent) <= Longest /\ \A i \in DOMAIN recent : recent[i].type \in EventTypes
    /\ \A p \in Patterns : progress[p] \in 0..Len(Chains[p]) - 1 /\ written[p] \in 0..Ttl - 1
    /\ alerted \cup completed \cup forgotten \subseteq Patterns

\* A chain that raises an alert is shown as complete by the same event, although the
\* tracker knows nothing of the patterns' time or succession; only progress that an
\* earlier, abandoned chain made, and that expires in the middle of this one, hides it.
AlertsAreTracked == alerted \subseteq completed \cup forgotten

\* The two detectors of chains, which share no state, agree on every alert.
ChainsSound == ChainsTypeOK /\ AlertsAreTracked
=============================================================================
