------------------------------ MODULE AuditTrail ------------------------------
(* The trail of operators' actions (audit_trail.py): writers chain their row to *)
(* the newest one of the table, entries that cannot be written wait in a buffer *)
(* of the process, and the scheduler's loop and POST /audit-trail/flush write   *)
(* them later.  A hash is represented by the entries it was computed over, the  *)
(* oldest first; a row is its hash.                                            *)
EXTENDS Integers, Sequences, SequencesExt, FiniteSets

CONSTANTS
    Entries,         \* calls of log_action and log_action_sync
    Flushers,        \* tasks that call flush_fallback
    BufferMax,       \* _FALLBACK_MAX
    MaxTrailFaults   \* BOUND: failed reads and commits

ASSUME TrailAssumption == BufferMax \in Nat \ {0} /\ MaxTrailFaults \in Nat

VARIABLES
    writer,          \* [Entries -> where the call is]
    prevHash,        \* [Entries \cup Flushers -> the hash it has read]
    table,           \* the rows, in the order of their ids
    buffer,          \* _fallback_buffer
    flusher,         \* [Flushers -> [at, batch]]
    trailFaults,
    raced,           \* ghost: one call read the newest hash while another had yet to commit
    clashed,         \* ghost: a flush began, or an entry was trimmed, during another flush
    trimmed          \* ghost: entries dropped by a full buffer

trailVars == <<writer, prevHash, table, buffer, flusher, trailFaults, raced, clashed, trimmed>>

Genesis == <<>>
NoFlush == [at |-> "idle", batch |-> <<>>]

TrailInit ==
    /\ writer = [e \in Entries |-> "new"]
    /\ prevHash = [x \in Entries \cup Flushers |-> Genesis]
    /\ table = <<>> /\ buffer = <<>>
    /\ flusher = [f \in Flushers |-> NoFlush]
    /\ trailFaults = 0 /\ raced = FALSE /\ clashed = FALSE /\ trimmed = {}

TrailFault == trailFaults < MaxTrailFaults /\ trailFaults' = trailFaults + 1
Latest == IF table = <<>> THEN Genesis ELSE Last(table)
Committing == {e \in Entries : writer[e] = "chained"} \cup {f \in Flushers : flusher[f].at = "chained"}
Flushing == {f \in Flushers : flusher[f].at # "idle"}
EntryOf(row) == Last(row)
Written == {EntryOf(table[i]) : i \in DOMAIN table}

\* _latest_row_hash; a query that fails counts as an empty table.
ReadsLatest(x) ==
    /\ \/ prevHash' = [prevHash EXCEPT ![x] = Latest] /\ UNCHANGED trailFaults
       \/ prevHash' = [prevHash EXCEPT ![x] = Genesis] /\ TrailFault
    /\ raced' = (raced \/ Committing # {} \/ prevHash'[x] # Latest)
-----------------------------------------------------------------------------
(* Writers *)

\* _enqueue_fallback: the buffer loses its oldest entry at the cap.
Enqueue(e) ==
    LET longer == Append(buffer, e) IN
    IF Len(longer) <= BufferMax
    THEN buffer' = longer /\ UNCHANGED <<clashed, trimmed>>
    ELSE /\ buffer' = Tail(longer) /\ trimmed' = trimmed \cup {Head(longer)}
         /\ clashed' = (clashed \/ Flushing # {})

\* log_action_sync in a thread without an event loop.
LogsFromThread(e) ==
    /\ writer[e] = "new"
    /\ writer' = [writer EXCEPT ![e] = "done"]
    /\ Enqueue(e)
    /\ UNCHANGED <<prevHash, table, flusher, trailFaults, raced>>

\* _persist_entry up to its commit.
LogsInLoop(e) ==
    /\ writer[e] = "new"
    /\ writer' = [writer EXCEPT ![e] = "chained"]
    /\ ReadsLatest(e)
    /\ UNCHANGED <<table, buffer, flusher, clashed, trimmed>>

Commits(e) ==
    /\ writer[e] = "chained"
    /\ writer' = [writer EXCEPT ![e] = "done"]
    /\ table' = Append(table, Append(prevHash[e], e))
    /\ UNCHANGED <<prevHash, buffer, flusher, trailFaults, raced, clashed, trimmed>>

\* The commit raises, or its answer is lost.
CommitFails(e) ==
    /\ writer[e] = "chained" /\ TrailFault
    /\ writer' = [writer EXCEPT ![e] = "done"]
    /\ \/ table' = table
       \/ table' = Append(table, Append(prevHash[e], e))
    /\ Enqueue(e)
    /\ UNCHANGED <<prevHash, flusher, raced>>
-----------------------------------------------------------------------------
(* flush_fallback *)

Flush(f, at) == flusher' = [flusher EXCEPT ![f].at = at]

FaultyDue == Len(buffer) = BufferMax                   \* waits for a full buffer
Due == buffer # <<>>

FlushStarts(f) ==
    /\ flusher[f].at = "idle" /\ Due
    /\ flusher' = [flusher EXCEPT ![f] = [at |-> "started", batch |-> buffer]]
    /\ clashed' = (clashed \/ Flushing # {})
    /\ UNCHANGED <<writer, prevHash, table, buffer, trailFaults, raced, trimmed>>

FlushChains(f) ==
    /\ flusher[f].at = "started"
    /\ Flush(f, "chained")
    /\ ReadsLatest(f)
    /\ UNCHANGED <<writer, table, buffer, clashed, trimmed>>

\* Each row of the batch is chained to the one before.
Rows(prev, batch) == [i \in DOMAIN batch |-> prev \o SubSeq(batch, 1, i)]

FlushCommits(f) ==
    /\ flusher[f].at = "chained"
    /\ table' = table \o Rows(prevHash[f], flusher[f].batch)
    /\ Flush(f, "committed")
    /\ UNCHANGED <<writer, prevHash, buffer, trailFaults, raced, clashed, trimmed>>

FlushFails(f) ==
    /\ flusher[f].at = "chained" /\ TrailFault
    /\ \/ table' = table
       \/ table' = table \o Rows(prevHash[f], flusher[f].batch)
    /\ flusher' = [flusher EXCEPT ![f] = NoFlush]
    /\ UNCHANGED <<writer, prevHash, buffer, raced, clashed, trimmed>>

FaultyLeft(f) == <<>>                                  \* clear()
\* del _fallback_buffer[:n], whatever the first n entries are by now.
Left(f) == SubSeq(buffer, Len(flusher[f].batch) + 1, Len(buffer))

FlushEnds(f) ==
    /\ flusher[f].at = "committed"
    /\ buffer' = Left(f)
    /\ flusher' = [flusher EXCEPT ![f] = NoFlush]
    /\ UNCHANGED <<writer, prevHash, table, trailFaults, raced, clashed, trimmed>>
-----------------------------------------------------------------------------
FlushStep(f) == FlushStarts(f) \/ FlushChains(f) \/ FlushCommits(f) \/ FlushEnds(f)

TrailNext ==
    \/ \E e \in Entries : LogsFromThread(e) \/ LogsInLoop(e) \/ Commits(e) \/ CommitFails(e)
    \/ \E f \in Flushers : FlushStep(f) \/ FlushFails(f)

TrailSpec == TrailInit /\ [][TrailNext]_trailVars
-----------------------------------------------------------------------------
(* Properties *)

TrailTypeOK ==
    /\ writer \in [Entries -> {"new", "chained", "done"}]
    /\ Len(buffer) <= BufferMax /\ Range(buffer) \subseteq Entries /\ IsInjective(buffer)
    /\ \A f \in Flushers : flusher[f].at \in {"idle", "started", "chained", "committed"}
    /\ trailFaults \in 0..MaxTrailFaults
    /\ Written \subseteq Entries /\ trimmed \subseteq Entries

\* An action that was taken is in the trail, or in the buffer that is still to be
\* written, or was trimmed at the cap: whatever fails, as long as one flush does not
\* meet another or a trim.
ActionsKept ==
    ~clashed => \A e \in Entries :
        writer[e] = "done" => e \in Written \cup Range(buffer) \cup trimmed

\* Without a lost answer no action is in the trail twice, also when new entries
\* arrive while a flush waits for its commit.
WrittenOnce ==
    ~clashed /\ trailFaults = 0 => \A i, j \in DOMAIN table :
        EntryOf(table[i]) = EntryOf(table[j]) => i = j

\* The rows form one chain from the first to the last, whichever of them were written
\* by a call and which by a flush, unless two of them overlap: then it forks, which
\* verify_chain cannot see, for it compares each row with its own prev_hash only.
OneChain ==
    ~raced => \A i \in DOMAIN table :
        Front(table[i]) = IF i = 1 THEN Genesis ELSE table[i - 1]

\* The trail as a whole: no action lost, none twice, one chain, but for the overlaps
\* that each part excepts.
TrailSound == TrailTypeOK /\ ActionsKept /\ WrittenOnce /\ OneChain

\* What waits in the buffer gets into the trail, also after a commit that failed.
BufferDrains ==
    \A e \in Entries : e \in Range(buffer) ~> e \in Written \cup trimmed \/ clashed
=============================================================================
