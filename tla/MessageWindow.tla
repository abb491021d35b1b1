---------------------------- MODULE MessageWindow ----------------------------
(* The sliding window of one session over Redis (sliding_window.py): every call *)
(* of add_message appends its message, then evicts what is too old and what is  *)
(* too much, one Redis command at a time, while other calls do the same.  (Over *)
(* the deque backend a call is one step, for none of its awaits suspends; its   *)
(* lrange(0, 0) is empty, and so nothing is ever too old there.  clear_window() *)
(* is left out.)                                                               *)
EXTENDS Integers, Sequences, SequencesExt, FiniteSets, FiniteSetsExt

CONSTANTS
    Adders,          \* calls of add_message
    MaxSize,         \* sliding_window_size
    MaxWindowFaults  \* BOUND: Redis commands that fail

ASSUME WindowAssumption ==
    IsFiniteSet(Adders) /\ MaxSize \in Nat \ {0} /\ MaxWindowFaults \in Nat

VARIABLES
    adder,           \* [Adders -> where the call is; a message is named by its call]
    hands,           \* [Adders -> popped]
    left,            \* [Adders -> pops left of _evict_by_count]
    window,          \* the Redis list of the session
    evicted,         \* the list of evicted messages (its limit of 10000 is left out)
    old,             \* messages older than the window's minutes
    windowFaults,
    wronged,         \* ghost: messages that _evict_by_time popped and that were not old
    contended        \* ghost: a call began beside another one

windowVars == <<adder, hands, left, window, evicted, old, windowFaults, wronged, contended>>

WindowInit ==
    /\ adder = [a \in Adders |-> "new"]
    /\ hands = [a \in Adders |-> <<>>] /\ left = [a \in Adders |-> 0]
    /\ window = <<>> /\ evicted = <<>> /\ old = {}
    /\ windowFaults = 0 /\ wronged = {} /\ contended = FALSE

Goes(a, label) == adder' = [adder EXCEPT ![a] = label]
AtWork == {a \in Adders : adder[a] \notin {"new", "done", "failed"}}
PopCount == Max({1, MaxSize \div 4})

MessageAges ==
    /\ \E m \in Range(window) \ old : old' = old \cup {m}
    /\ UNCHANGED <<adder, hands, left, window, evicted, windowFaults, wronged, contended>>

Push(a) ==
    /\ adder[a] = "new" /\ Goes(a, "peek")
    /\ window' = Append(window, a)
    /\ contended' = (contended \/ AtWork # {})
    /\ UNCHANGED <<hands, left, evicted, old, windowFaults, wronged>>

TooOld(m) == m \in old

\* _evict_by_time looks at the first message, and pops in a second command.
Peek(a) ==
    /\ adder[a] = "peek"
    /\ Goes(a, IF window # <<>> /\ TooOld(Head(window)) THEN "pop"
               ELSE IF hands[a] # <<>> THEN "record time" ELSE "length")
    /\ UNCHANGED <<hands, left, window, evicted, old, windowFaults, wronged, contended>>

\* LPOP: of whatever is first now.
Pops(a) ==
    IF window = <<>> THEN UNCHANGED <<window, hands>>
    ELSE window' = Tail(window) /\ hands' = [hands EXCEPT ![a] = Append(@, Head(window))]

TimePop(a) ==
    /\ adder[a] = "pop" /\ Goes(a, "peek")
    /\ Pops(a)
    /\ wronged' = wronged \cup (Range(window) \ (Range(window') \cup old))
    /\ UNCHANGED <<left, evicted, old, windowFaults, contended>>

Records(a) == Append(evicted, Head(hands[a]))

\* _record_evicted, message by message.
Record(a) ==
    LET last == Len(hands[a]) = 1 IN
    /\ adder[a] \in {"record time", "record count"}
    /\ evicted' = Records(a)
    /\ hands' = [hands EXCEPT ![a] = Tail(@)]
    /\ Goes(a, IF ~last THEN adder[a] ELSE IF adder[a] = "record time" THEN "length" ELSE "done")
    /\ UNCHANGED <<left, window, old, windowFaults, wronged, contended>>

FaultyOver == Len(window) > MaxSize + 1                \* one too many
Over == Len(window) > MaxSize

Length(a) ==
    /\ adder[a] = "length"
    /\ IF Over THEN Goes(a, "count") /\ left' = [left EXCEPT ![a] = PopCount]
       ELSE Goes(a, "done") /\ left' = left
    /\ UNCHANGED <<hands, window, evicted, old, windowFaults, wronged, contended>>

CountPop(a) ==
    /\ adder[a] = "count"
    /\ Pops(a)
    /\ left' = [left EXCEPT ![a] = @ - 1]
    /\ Goes(a, IF left[a] > 1 THEN "count" ELSE IF hands'[a] = <<>> THEN "done" ELSE "record count")
    /\ UNCHANGED <<evicted, old, windowFaults, wronged, contended>>

\* A command raises: the call ends, and what it has popped is gone.
WindowFails(a) ==
    /\ a \in AtWork /\ windowFaults < MaxWindowFaults
    /\ windowFaults' = windowFaults + 1
    /\ Goes(a, "failed")
    /\ UNCHANGED <<hands, left, window, evicted, old, wronged, contended>>

WindowNext ==
    \/ MessageAges
    \/ \E a \in Adders :
        \/ Push(a) \/ Peek(a) \/ TimePop(a) \/ Record(a) \/ Length(a) \/ CountPop(a)
        \/ WindowFails(a)

WindowSpec == WindowInit /\ [][WindowNext]_windowVars
-----------------------------------------------------------------------------
(* Properties *)

Pushed == {a \in Adders : adder[a] # "new"}

WindowTypeOK ==
    /\ adder \in [Adders -> {"new", "peek", "pop", "record time", "length", "count",
                             "record count", "done", "failed"}]
    /\ Range(window) \cup Range(evicted) \subseteq Pushed /\ old \subseteq Pushed
    /\ IsInjective(window) /\ IsInjective(evicted) /\ Range(window) \cap Range(evicted) = {}
    /\ left \in [Adders -> 0..PopCount] /\ windowFaults \in 0..MaxWindowFaults

\* Every message is in the window, among the evicted ones, or in the hands of a call
\* that will record it (or has failed): overlapping calls lose none.
MessagesKept ==
    Pushed = Range(window) \cup Range(evicted) \cup UNION {Range(hands[a]) : a \in Adders}

\* The window exceeds its size by no more than the calls that are at work or failed:
\* calls which read the length at the same time do not both rely on the other to evict.
WindowBounded == Len(window) <= MaxSize + Cardinality(AtWork) + windowFaults

\* A call that runs alone evicts by time only what is too old.  (Two calls that look at
\* the same old message pop it and the next one, which may be new.)
OnlyOldTimedOut == ~contended => wronged = {}

\* Overlapping calls lose no message, keep the window near its size, and a lone call
\* evicts nothing too early.
WindowSound == WindowTypeOK /\ MessagesKept /\ WindowBounded /\ OnlyOldTimedOut
=============================================================================
