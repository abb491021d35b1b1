--------------------------- MODULE MCAuditPoolTurns ---------------------------
(* AuditWorkerPool with a history of each worker's picks, for the interleaving *)
(* of the local deque and the memory queue in _loop.                           *)
EXTENDS MCAuditWorkerPool

VARIABLES
    dequeRun,  \* [Workers -> deque jobs taken in a row while the heap had entries]
    queueRun   \* [Workers -> heap jobs taken in a row while the deque had entries,
               \*             since the worker last slept on two empty stores]

turnVars == <<vars, dequeRun, queueRun>>

Picks(w, from) == wjob'[w] # wjob[w] /\ wjob'[w] \in from

TurnsInit ==
    /\ Init
    /\ dequeRun = [w \in Workers |-> 0]
    /\ queueRun = [w \in Workers |-> 0]

TurnsNext ==
    /\ Next
    /\ dequeRun' = [w \in Workers |->
           IF Picks(w, InQueue) THEN 0
           ELSE IF Picks(w, InDeque) /\ queue # {} THEN dequeRun[w] + 1
           ELSE dequeRun[w]]
    /\ queueRun' = [w \in Workers |->
           IF Picks(w, InDeque) \/ wpc'[w] = "waiting" THEN 0
           ELSE IF Picks(w, InQueue) /\ overflow # <<>> THEN queueRun[w] + 1
           ELSE queueRun[w]]

TurnsSpec == TurnsInit /\ [][TurnsNext]_turnVars

\* Neither store starves the other: a worker never passes over a non-empty heap three
\* times in a row, nor a non-empty deque twice in a row, whichever way it came to its pick
\* (a turn of the loop, or woken inside get()).  Who has slept in between may pass over the
\* deque again: it wakes inside get(), which knows of the heap alone.
FairTurns == \A w \in Workers : dequeRun[w] <= 2 /\ queueRun[w] <= 1
=============================================================================
