----------------------------- MODULE LogValidation -----------------------------
(* Job 1 (LogValidationJob.java, SourceReputationFunction.java) on one partition  *)
(* of security-logs-raw: parse, validate, drop repeated records, rate the source,  *)
(* and write the result in a Kafka transaction of the current checkpoint.  Flink's *)
(* own part (barrier, durable snapshot, commit, restart) is as the job configures  *)
(* it: state in keyed states, EXACTLY_ONCE sinks, restarts from the last checkpoint. *)
EXTENDS Integers, Sequences, SequencesExt, FiniteSets, FiniteSetsExt

CONSTANTS
    Records,         \* records that a producer may write, each as often as it likes
    Accepted,        \* those that are JSON, pass the schema and carry an authorised key
    SrcIp,           \* [Records -> key of the validation]
    Digest,          \* [Records -> fingerprint: address, type, digest of the message]
    High, Complete,  \* those of high severity; those with both addresses and a protocol
    MaxTopic,        \* BOUND: records in the topic
    MaxRestarts      \* BOUND: failures of the job

ASSUME ValidationAssumption ==
    /\ Accepted \subseteq Records
    /\ MaxTopic \in Nat \ {0} /\ MaxRestarts \in Nat

VARIABLES
    topic,           \* security-logs-raw
    job,             \* [read, dedup, counts]: offset of the source, keyed states (of one source);
                     \* ghost lapsed: addresses whose fingerprint expired, and none passed since
    open,            \* outputs of the transaction that is open
    taken,           \* checkpoints under way or done and not committed: [job, outputs, durable]
    restored,        \* the state that a restart begins with
    output,          \* what readers of committed records see, in both topics
    restarts

validationVars == <<topic, job, open, taken, restored, output, restarts>>

Addresses == {SrcIp[r] : r \in Records}
None == "none"
FreshJob == [read |-> 0, dedup |-> [a \in Addresses |-> None], lapsed |-> {},
             counts |-> [total |-> 0, valid |-> 0, timely |-> 0, complete |-> 0, high |-> 0]]

ValidationInit ==
    /\ topic = <<>> /\ job = FreshJob /\ open = <<>> /\ taken = <<>>
    /\ restored = FreshJob /\ output = <<>> /\ restarts = 0

Produce(r) ==
    /\ Len(topic) < MaxTopic /\ topic' = Append(topic, r)
    /\ UNCHANGED <<job, open, taken, restored, output, restarts>>
-----------------------------------------------------------------------------
(* The reputation of a source: ten times the score, times the number of events *)

Counted(counts, r) == [
    total |-> counts.total + 1,
    valid |-> counts.valid + 1,                        \* what comes here has passed
    timely |-> counts.timely + 1,                      \* the schema has the same limits
    complete |-> counts.complete + Cardinality({r} \cap Complete),
    high |-> counts.high + Cardinality({r} \cap High)]

Tenfold(c) == 4 * c.valid + 2 * c.timely + 2 * c.complete + 2 * (c.total - c.high)

Level(c) ==
    CASE Tenfold(c) >= 8 * c.total -> "trusted"
      [] Tenfold(c) >= 5 * c.total -> "standard"
      [] OTHER -> "probation"
-----------------------------------------------------------------------------
Verdict(r) ==
    IF r \notin Accepted THEN "rejected"
    ELSE IF job.dedup[SrcIp[r]] = Digest[r] THEN "duplicate" ELSE "validated"

\* JsonParseProcessFunction, ValidationAndDedupFunction and SourceReputationFunction on
\* the next record.  Only the last fingerprint of an address is kept.
Process ==
    LET at == job.read + 1  r == topic[at]  verdict == Verdict(r) IN
    /\ at <= Len(topic)
    /\ open' = Append(open, [at |-> at, verdict |-> verdict,
                             lapsed |-> SrcIp[r] \in job.lapsed,
                             level |-> IF verdict = "validated" THEN Level(Counted(job.counts, r)) ELSE None])
    /\ job' = IF verdict = "validated"
              THEN [read |-> at, dedup |-> [job.dedup EXCEPT ![SrcIp[r]] = Digest[r]],
                    lapsed |-> job.lapsed \ {SrcIp[r]}, counts |-> Counted(job.counts, r)]
              ELSE [job EXCEPT !.read = at]
    /\ UNCHANGED <<topic, taken, restored, output, restarts>>

Without(j, a) ==
    IF j.dedup[a] = None THEN j ELSE [j EXCEPT !.dedup[a] = None, !.lapsed = @ \cup {a}]

\* StateTtlConfig: a minute after it was written the fingerprint is gone, and with it
\* those that were written before, in the snapshots.
Expires(a) ==
    /\ job.dedup[a] # None
    /\ job' = Without(job, a) /\ restored' = Without(restored, a)
    /\ taken' = [i \in DOMAIN taken |-> [taken[i] EXCEPT !.job = Without(@, a)]]
    /\ UNCHANGED <<topic, open, output, restarts>>
-----------------------------------------------------------------------------
(* Checkpoints *)

FaultySnapshot == [job EXCEPT !.dedup = FreshJob.dedup]   \* fingerprints in a plain field
Snapshot == job

FaultyDue == Len(open) > 1                             \* the last record waits for another
Due == job # restored

Barrier ==
    /\ taken = <<>> /\ Due
    /\ taken' = <<[job |-> Snapshot, outputs |-> open, durable |-> FALSE]>>
    /\ open' = <<>>
    /\ UNCHANGED <<topic, job, restored, output, restarts>>

Completes ==
    /\ taken # <<>> /\ ~taken[1].durable
    /\ taken' = [taken EXCEPT ![1].durable = TRUE]
    /\ restored' = taken[1].job
    /\ UNCHANGED <<topic, job, open, output, restarts>>

Commits ==
    /\ taken # <<>> /\ taken[1].durable
    /\ output' = output \o taken[1].outputs /\ taken' = <<>>
    /\ UNCHANGED <<topic, job, open, restored, restarts>>

KeptByCrash == <<>>

\* Open transactions are aborted, those of a durable checkpoint are committed.
Restarts ==
    /\ restarts < MaxRestarts /\ restarts' = restarts + 1
    /\ job' = restored
    /\ output' = (IF taken # <<>> /\ taken[1].durable THEN output \o taken[1].outputs ELSE output)
                 \o KeptByCrash
    /\ taken' = <<>> /\ open' = <<>>
    /\ UNCHANGED <<topic, restored>>

ValidationStep == Process \/ Barrier \/ Completes \/ Commits

ValidationNext ==
    \/ \E r \in Records : Produce(r)
    \/ \E a \in Addresses : Expires(a)
    \/ ValidationStep \/ Restarts

ValidationSpec == ValidationInit /\ [][ValidationNext]_validationVars
-----------------------------------------------------------------------------
(* Properties *)

Outputs == output \o (IF taken = <<>> THEN <<>> ELSE taken[1].outputs) \o open

ValidationTypeOK ==
    /\ topic \in Seq(Records) /\ Len(topic) <= MaxTopic
    /\ job.read \in 0..Len(topic) /\ restored.read <= job.read
    /\ \A a \in Addresses : job.dedup[a] \in {None} \cup {Digest[r] : r \in Records}
    /\ \A c \in {job.counts, restored.counts} : c.high <= c.total /\ c.complete <= c.total
    /\ Len(taken) <= 1 /\ restarts \in 0..MaxRestarts

\* Every record of the raw topic gets one output, in the order of the topic: over
\* failures at any point none is passed over and none is put out twice.
OneOutputEach == [i \in DOMAIN Outputs |-> Outputs[i].at] = [i \in 1..job.read |-> i]

\* Two records of an address that are put out one after the other as validated have
\* different fingerprints, unless the minute passed: also over a restart.
RepeatsAreFound ==
    \A i, j \in DOMAIN Outputs :
        LET r == topic[Outputs[i].at]  s == topic[Outputs[j].at]
            between == {k \in (i + 1)..(j - 1) :
                /\ SrcIp[topic[Outputs[k].at]] = SrcIp[r] /\ Outputs[k].verdict = "validated"} IN
        /\ i < j /\ Outputs[i].verdict = "validated" /\ Outputs[j].verdict = "validated"
        /\ SrcIp[r] = SrcIp[s] /\ between = {} /\ ~Outputs[j].lapsed
        => Digest[r] # Digest[s]

\* No source ever falls to "probation", however bad what it sends: what counts against
\* it is rejected before it is counted.
NoneOnProbation == \A i \in DOMAIN Outputs : Outputs[i].level # "probation"

\* The raw topic is worked off exactly once and in order over failures at any point,
\* with the memory of fingerprints and ratings that the checkpoints carry.
ValidationSound == ValidationTypeOK /\ OneOutputEach /\ RepeatsAreFound /\ NoneOnProbation

\* What a producer wrote is put out and committed at last, as long as the job restarts.
TopicIsValidated ==
    \A n \in 1..MaxTopic : Len(topic) = n ~> Len(output) >= n
=============================================================================
