----------------------------- MODULE TlsFingerprint -----------------------------
(* TlsFingerprintJob.java: every subtask matches TLS sessions against the set of     *)
(* fingerprints of the last ja3_update on security-cep-patterns.  It matches with a  *)
(* field in memory, and puts a copy of the field in the broadcast state after every  *)
(* message of that topic, updates or not.  Checkpoints are Flink's: a barrier goes   *)
(* behind the messages, and each subtask saves its state when it gets there.         *)
EXTENDS Integers, Sequences, SequencesExt, FiniteSets, FiniteSetsExt

CONSTANTS
    Subtasks, Hashes,
    MaxMessages, MaxTlsRestarts   \* BOUNDS

ASSUME TlsAssumption == Subtasks # {} /\ {MaxMessages, MaxTlsRestarts} \subseteq Nat

VARIABLES
    patterns,        \* the topic: sets of fingerprints, and Other for any other message
    applied,         \* [Subtasks -> messages that it has read]
    maliciousJa3Set, \* [Subtasks -> the field]
    stored,          \* [Subtasks -> the broadcast state]
    barrier,         \* messages before the barrier under way, or NoBarrier
    saved,           \* what subtasks have saved for it: a function on some of them
    checkpoint,      \* the last complete one: [at, stored]
    tlsRestarts

tlsVars == <<patterns, applied, maliciousJa3Set, stored, barrier, saved, checkpoint, tlsRestarts>>

Other == [other |-> TRUE]
Update(hashes) == [hashes |-> hashes]
IsUpdate(m) == m # Other
Messages == {Other} \cup {Update(hashes) : hashes \in SUBSET Hashes}
NoBarrier == -1
NothingSaved == [s \in {} |-> {}]
EmptyCheckpoint == [at |-> 0, stored |-> [s \in Subtasks |-> {}]]

TlsInit ==
    /\ patterns = <<>> /\ applied = [s \in Subtasks |-> 0]
    /\ maliciousJa3Set = [s \in Subtasks |-> {}] /\ stored = [s \in Subtasks |-> {}]
    /\ barrier = NoBarrier /\ saved = NothingSaved /\ checkpoint = EmptyCheckpoint /\ tlsRestarts = 0

Publish(m) ==
    /\ Len(patterns) < MaxMessages /\ patterns' = Append(patterns, m)
    /\ UNCHANGED <<applied, maliciousJa3Set, stored, barrier, saved, checkpoint, tlsRestarts>>

FaultyTaken(m, set) == IF IsUpdate(m) THEN set \cup m.hashes ELSE set   \* without clear()
Taken(m, set) == IF IsUpdate(m) THEN m.hashes ELSE set

Copied(s, set) == set

\* processBroadcastElement().
Receives(s) ==
    LET set == Taken(patterns[applied[s] + 1], maliciousJa3Set[s]) IN
    /\ applied[s] < Len(patterns) /\ (applied[s] = barrier => s \in DOMAIN saved)
    /\ applied' = [applied EXCEPT ![s] = @ + 1]
    /\ maliciousJa3Set' = [maliciousJa3Set EXCEPT ![s] = set]
    /\ stored' = [stored EXCEPT ![s] = Copied(s, set)]
    /\ UNCHANGED <<patterns, barrier, saved, checkpoint, tlsRestarts>>

\* The source has read at least what every subtask has.
Triggers(at) ==
    /\ barrier = NoBarrier /\ barrier' = at
    /\ \A s \in Subtasks : applied[s] <= at
    /\ UNCHANGED <<patterns, applied, maliciousJa3Set, stored, saved, checkpoint, tlsRestarts>>

Saves(s) ==
    /\ barrier = applied[s] /\ s \notin DOMAIN saved
    /\ LET now == [t \in DOMAIN saved \cup {s} |-> IF t = s THEN stored[s] ELSE saved[t]] IN
       IF DOMAIN now = Subtasks
       THEN checkpoint' = [at |-> barrier, stored |-> now] /\ saved' = NothingSaved /\ barrier' = NoBarrier
       ELSE saved' = now /\ UNCHANGED <<checkpoint, barrier>>
    /\ UNCHANGED <<patterns, applied, maliciousJa3Set, stored, tlsRestarts>>

Resumed == checkpoint.at

\* The state comes back, and the function is a new object.
FailsOver ==
    /\ tlsRestarts < MaxTlsRestarts /\ tlsRestarts' = tlsRestarts + 1
    /\ applied' = [s \in Subtasks |-> Resumed] /\ stored' = checkpoint.stored
    /\ maliciousJa3Set' = [s \in Subtasks |-> {}]
    /\ barrier' = NoBarrier /\ saved' = NothingSaved
    /\ UNCHANGED <<patterns, checkpoint>>

TlsNext ==
    \/ \E m \in Messages : Publish(m)
    \/ \E at \in 0..Len(patterns) : Triggers(at)
    \/ \E s \in Subtasks : Receives(s) \/ Saves(s)
    \/ FailsOver

TlsSpec == TlsInit /\ [][TlsNext]_tlsVars
-----------------------------------------------------------------------------
(* Properties *)

\* The set of the last update among the messages from..to.
Updates(from, to) == {i \in from..to : IsUpdate(patterns[i])}
LastUpdate(to) == IF Updates(1, to) = {} THEN {} ELSE patterns[Max(Updates(1, to))].hashes

TlsTypeOK ==
    /\ patterns \in Seq(Messages) /\ \A s \in Subtasks : applied[s] \in checkpoint.at..Len(patterns)
    /\ maliciousJa3Set \in [Subtasks -> SUBSET Hashes] /\ stored \in [Subtasks -> SUBSET Hashes]
    /\ barrier \in {NoBarrier} \cup Nat /\ DOMAIN saved \subseteq Subtasks
    /\ tlsRestarts \in 0..MaxTlsRestarts

\* A subtask that has read an update since the last checkpoint matches with the last update
\* and nothing older, however often the job went down (:130-147).
MatchesLastUpdate ==
    \A s \in Subtasks :
        Updates(checkpoint.at + 1, applied[s]) # {} => maliciousJa3Set[s] = LastUpdate(applied[s])

\* As long as the job never went down, what a checkpoint saves is what the last update
\* before it said: the copy is never behind the field (:145).
CheckpointIsTrue == tlsRestarts = 0 => \A s \in Subtasks : checkpoint.stored[s] = LastUpdate(checkpoint.at)

\* The field follows the topic, and the copy in the checkpoint follows the field.
TlsSound == TlsTypeOK /\ MatchesLastUpdate /\ CheckpointIsTrue

\* What the comment at :145 promises of the copy: after a restart a subtask matches with
\* the last update that it has read.  The copy is never read back.
RestoredMatches == \A s \in Subtasks : maliciousJa3Set[s] = LastUpdate(applied[s])
=============================================================================
