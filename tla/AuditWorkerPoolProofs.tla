------------------------ MODULE AuditWorkerPoolProofs ------------------------
(* Proofs about AuditWorkerPool, for any sets of calls, events and workers and *)
(* any bounds; of the turns that MCAuditPoolTurns counts; and that the pool    *)
(* implements AuditDelivery.                                                   *)
EXTENDS MCAuditPoolTurns, FiniteSetTheorems, TLAPS

USE PoolAssumption

-----------------------------------------------------------------------------
\* Taking an element out of a finite set lowers its cardinality by one.
LEMMA OneLess ==
    ASSUME NEW S, IsFiniteSet(S), NEW x \in S
    PROVE  /\ Cardinality(S \ {x}) = Cardinality(S) - 1
           /\ Cardinality(S) \in Nat /\ Cardinality(S) > 0
<1>1. Cardinality(S) \in Nat
  BY FS_CardinalityType
<1>2. Cardinality(S) # 0
  BY FS_EmptySet
<1>3. Cardinality(S \ {x}) = Cardinality(S) - 1
  BY FS_RemoveElement
<1> QED BY <1>1, <1>2, <1>3

-----------------------------------------------------------------------------
(* The deque *)

\* What popleft() and append() do to a deque of calls.
LEMMA TailOfDeque ==
    ASSUME NEW s \in Seq(Calls), s # <<>>
    PROVE  /\ Head(s) \in Calls
           /\ Tail(s) \in Seq(Calls)
           /\ Len(Tail(s)) = Len(s) - 1
           /\ Len(s) \in Nat /\ Len(s) > 0
OBVIOUS

LEMMA AppendToDeque ==
    ASSUME NEW s \in Seq(Calls), NEW c \in Calls
    PROVE  /\ Append(s, c) \in Seq(Calls)
           /\ Append(s, c) # <<>>
           /\ Len(Append(s, c)) = Len(s) + 1
           /\ Len(s) \in Nat
BY SMTT(30)

\* put-and-trim keeps the deque a sequence of calls within its cap.
LEMMA PutDequeType ==
    ASSUME TypeOK, NEW c \in Calls, PutDeque(c)
    PROVE  /\ spc' \in [Calls -> SubmitPc]
           /\ overflow' \in Seq(Calls) /\ Len(overflow') <= OverflowMax
           /\ fate' \in [Calls -> Fates]
<1> DEFINE longer == Append(overflow, c)
<1>1. /\ longer \in Seq(Calls) /\ longer # <<>>
      /\ Len(longer) = Len(overflow) + 1
      /\ Len(overflow) \in Nat /\ Len(overflow) <= OverflowMax
  BY AppendToDeque DEF TypeOK
<1>2. Head(longer) \in Calls /\ Tail(longer) \in Seq(Calls) /\ Len(Tail(longer)) = Len(overflow)
  <2> HIDE DEF longer
  <2>1. Len(Tail(longer)) = Len(longer) - 1 /\ Head(longer) \in Calls /\ Tail(longer) \in Seq(Calls)
    BY <1>1, TailOfDeque
  <2> QED BY <2>1, <1>1
<1>3. spc' \in [Calls -> SubmitPc]
  BY DEF PutDeque, TypeOK, SubmitPc, Accepted
<1>4. CASE Len(longer) > OverflowMax
  <2>1. overflow' = Tail(longer) /\ fate' = [fate EXCEPT ![Head(longer)] = "evicted"]
    BY <1>4 DEF PutDeque
  <2>2. fate' \in [Calls -> Fates]
    BY <2>1, <1>2 DEF TypeOK, Fates
  <2> QED BY <2>1, <2>2, <1>1, <1>2, <1>3
<1>5. CASE ~(Len(longer) > OverflowMax)
  <2>1. overflow' = longer /\ fate' = fate
    BY <1>5 DEF PutDeque
  <2> HIDE DEF longer
  <2> QED BY <2>1, <1>1, <1>3, <1>5 DEF TypeOK
<1> QED BY <1>4, <1>5

LEMMA TryKafkaType ==
    ASSUME TypeOK, NEW c \in Calls, TryKafka(c)
    PROVE  /\ spc' \in [Calls -> SubmitPc]
           /\ overflow' \in Seq(Calls) /\ Len(overflow') <= OverflowMax
           /\ fate' \in [Calls -> Fates]
<1>1. CASE c \notin FromOverflow /\ KafkaOn
  BY <1>1 DEF TryKafka, TypeOK, SubmitPc, Suspended
<1>2. CASE ~(c \notin FromOverflow /\ KafkaOn)
  BY <1>2, PutDequeType DEF TryKafka
<1> QED BY <1>1, <1>2
-----------------------------------------------------------------------------
(* The shape of a worker's turn *)

Registry == [Events -> Workers \cup {NoWorker}]

\* A turn either starts a job taken from the head of the deque or from the heap,
\* or finds both empty and blocks.
LEMMA TurnShape ==
    ASSUME NEW w \in Workers, NEW reg, NEW n,
           Turn(w, reg, n) \/ TakeQueue(w, reg, n) \/ Block(w, reg, n)
    PROVE  \/ /\ overflow # <<>> /\ overflow' = Tail(overflow) /\ queue' = queue
              /\ streak' = [streak EXCEPT ![w] = @ + 1]
              /\ StartJob(w, Head(overflow), reg, n)
           \/ \E e \in queue : /\ queue' = queue \ {e} /\ overflow' = overflow
                               /\ streak' = [streak EXCEPT ![w] = 0]
                               /\ StartJob(w, e.job, reg, n)
           \/ /\ queue' = queue /\ overflow' = overflow
              /\ streak' = [streak EXCEPT ![w] = 0]
              /\ wpc' = [wpc EXCEPT ![w] = "waiting"]
              /\ wjob' = [wjob EXCEPT ![w] = NoCall]
              /\ inflight' = reg /\ busy' = n
BY DEF Turn, TakeDeque, TakeQueue, Block

\* The job that a turn starts comes from the deque or the heap.
LEMMA StartType ==
    ASSUME TypeOK, NEW w \in Workers, NEW c \in Calls, NEW reg \in Registry, NEW n \in Nat,
           StartJob(w, c, reg, n)
    PROVE  /\ wpc' \in [Workers -> WorkerPc]
           /\ wjob' \in [Workers -> Calls \cup {NoCall}]
           /\ \A v \in Workers : wpc'[v] \in Holding <=> wjob'[v] # NoCall
           /\ inflight' \in Registry
           /\ busy' \in Nat
<1>1. EventOf[c] \in Events
  OBVIOUS
<1> QED BY <1>1 DEF StartJob, TypeOK, Registry, WorkerPc, Holding

LEMMA TurnType ==
    ASSUME TypeOK, NEW w \in Workers, NEW reg \in Registry, NEW n \in Nat,
           Turn(w, reg, n) \/ TakeQueue(w, reg, n) \/ Block(w, reg, n),
           UNCHANGED <<submitVars, fate, cancels>>
    PROVE  TypeOK'
<1>1. CASE /\ overflow # <<>> /\ overflow' = Tail(overflow) /\ queue' = queue
           /\ streak' = [streak EXCEPT ![w] = @ + 1]
           /\ StartJob(w, Head(overflow), reg, n)
  <2>1. /\ Head(overflow) \in Calls /\ Tail(overflow) \in Seq(Calls)
        /\ Len(Tail(overflow)) = Len(overflow) - 1 /\ Len(overflow) \in Nat
    BY <1>1, TailOfDeque DEF TypeOK
  <2>2. /\ wpc' \in [Workers -> WorkerPc]
        /\ wjob' \in [Workers -> Calls \cup {NoCall}]
        /\ \A v \in Workers : wpc'[v] \in Holding <=> wjob'[v] # NoCall
        /\ inflight' \in Registry
        /\ busy' \in Nat
    BY <1>1, <2>1, StartType
  <2>3. streak' \in [Workers -> Nat]
    BY <1>1 DEF TypeOK
  <2>4. Len(overflow') <= OverflowMax /\ overflow' \in Seq(Calls)
    BY <1>1, <2>1 DEF TypeOK
  <2> QED BY <1>1, <2>2, <2>3, <2>4 DEF TypeOK, Registry, submitVars
<1>2. CASE \E e \in queue : /\ queue' = queue \ {e} /\ overflow' = overflow
                            /\ streak' = [streak EXCEPT ![w] = 0]
                            /\ StartJob(w, e.job, reg, n)
  <2>1. PICK e \in queue : /\ queue' = queue \ {e} /\ overflow' = overflow
                           /\ streak' = [streak EXCEPT ![w] = 0]
                           /\ StartJob(w, e.job, reg, n)
    BY <1>2
  <2>2. e.job \in Calls
    BY DEF TypeOK
  <2>3. /\ wpc' \in [Workers -> WorkerPc]
        /\ wjob' \in [Workers -> Calls \cup {NoCall}]
        /\ \A v \in Workers : wpc'[v] \in Holding <=> wjob'[v] # NoCall
        /\ inflight' \in Registry
        /\ busy' \in Nat
    BY <2>1, <2>2, StartType
  <2>4. streak' \in [Workers -> Nat]
    BY <2>1 DEF TypeOK
  <2> QED BY <2>1, <2>3, <2>4 DEF TypeOK, Registry, submitVars
<1>3. CASE /\ queue' = queue /\ overflow' = overflow
           /\ streak' = [streak EXCEPT ![w] = 0]
           /\ wpc' = [wpc EXCEPT ![w] = "waiting"]
           /\ wjob' = [wjob EXCEPT ![w] = NoCall]
           /\ inflight' = reg /\ busy' = n
  <2>1. /\ wpc' \in [Workers -> WorkerPc]
        /\ wjob' \in [Workers -> Calls \cup {NoCall}]
        /\ streak' \in [Workers -> Nat]
    BY <1>3 DEF TypeOK, WorkerPc
  <2>2. \A v \in Workers : wpc'[v] \in Holding <=> wjob'[v] # NoCall
    BY <1>3 DEF TypeOK, WorkerPc, Holding
  <2> QED BY <1>3, <2>1, <2>2 DEF TypeOK, Registry, submitVars
<1> QED BY <1>1, <1>2, <1>3, TurnShape
LEMMA UnregisteredType ==
    ASSUME TypeOK, NEW w \in Workers, wpc[w] \in Holding
    PROVE  /\ Unregistered(w) \in Registry /\ LessBusy \in Nat
           /\ wjob[w] \in Calls /\ EventOf[wjob[w]] \in Events
<1>1. wjob[w] \in Calls
  BY DEF TypeOK
<1>2. EventOf[wjob[w]] \in Events
  BY <1>1
<1> QED BY <1>1, <1>2 DEF TypeOK, Registry, Unregistered, LessBusy
-----------------------------------------------------------------------------
(* Type correctness *)

LEMMA SubmitType ==
    ASSUME TypeOK, NEW c \in Calls, Submit(c) PROVE TypeOK'
<1>1. CASE SubmitQueued(c)
  <2>1. queue' \subseteq [seq : 1..seq', job : Calls]
    BY <1>1 DEF SubmitQueued, TypeOK, Entry
  <2>2. /\ wpc' \in [Workers -> WorkerPc]
        /\ \A v \in Workers : wpc'[v] \in Holding <=> wpc[v] \in Holding
    BY <1>1 DEF SubmitQueued, TypeOK, WakeOne, InState, WorkerPc, Holding
  <2>3. spc' \in [Calls -> SubmitPc]
    BY <1>1 DEF SubmitQueued, TypeOK, SubmitPc, Accepted
  <2> QED BY <1>1, <2>1, <2>2, <2>3 DEF SubmitQueued, TypeOK
<1>2. CASE SubmitRefused(c)
  BY <1>2 DEF SubmitRefused, TypeOK, SubmitPc, workerVars
<1>3. CASE SubmitShed(c)
  <2>1. /\ spc' \in [Calls -> SubmitPc]
        /\ overflow' \in Seq(Calls) /\ Len(overflow') <= OverflowMax
        /\ fate' \in [Calls -> Fates]
    <3>1. CASE RedisOn
      BY <1>3, <3>1 DEF SubmitShed, TypeOK, SubmitPc, Suspended
    <3>2. CASE ~RedisOn
      BY <1>3, <3>2, TryKafkaType DEF SubmitShed
    <3> QED BY <3>1, <3>2
  <2> QED BY <1>3, <2>1 DEF SubmitShed, TypeOK, workerVars
<1> QED BY <1>1, <1>2, <1>3 DEF Submit

LEMMA ReplyType ==
    ASSUME TypeOK, NEW c \in Calls, Reply(c) PROVE TypeOK'
<1>1. CASE RedisAccepts(c)
  BY <1>1 DEF RedisAccepts, TypeOK, SubmitPc, Accepted, workerVars
<1>2. CASE RedisFails(c)
  <2>1. /\ spc' \in [Calls -> SubmitPc]
        /\ overflow' \in Seq(Calls) /\ Len(overflow') <= OverflowMax
        /\ fate' \in [Calls -> Fates]
    BY <1>2, TryKafkaType DEF RedisFails
  <2> QED BY <1>2, <2>1 DEF RedisFails, TypeOK, workerVars
<1>3. CASE KafkaAccepts(c)
  BY <1>3 DEF KafkaAccepts, TypeOK, SubmitPc, Accepted, workerVars
<1>4. CASE KafkaFails(c)
  <2>1. /\ spc' \in [Calls -> SubmitPc]
        /\ overflow' \in Seq(Calls) /\ Len(overflow') <= OverflowMax
        /\ fate' \in [Calls -> Fates]
    BY <1>4, PutDequeType DEF KafkaFails
  <2> QED BY <1>4, <2>1 DEF KafkaFails, TypeOK, workerVars
<1> QED BY <1>1, <1>2, <1>3, <1>4 DEF Reply

LEMMA WorkerType ==
    ASSUME TypeOK, NEW w \in Workers, WorkerStep(w) PROVE TypeOK'
<1>0. inflight \in Registry /\ busy \in Nat
  BY DEF TypeOK, Registry
<1>1. CASE FirstTurn(w)
  BY <1>0, <1>1, TurnType DEF FirstTurn
<1>2. CASE Woken(w)
  BY <1>0, <1>2, TurnType DEF Woken
<1>3. CASE NextTurn(w)
  <2>1. Unregistered(w) \in Registry /\ LessBusy \in Nat
    BY <1>3, UnregisteredType DEF NextTurn, Holding
  <2> QED BY <1>3, <2>1, TurnType DEF NextTurn
<1>4. CASE WorkerDies(w)
  <2>1. Unregistered(w) \in Registry /\ LessBusy \in Nat
    BY <1>4, UnregisteredType DEF WorkerDies, Holding
  <2>2. \A v \in Workers : wpc'[v] \in Holding <=> wjob'[v] # NoCall
    BY <1>4 DEF WorkerDies, TypeOK, Holding
  <2>3. wpc' \in [Workers -> WorkerPc] /\ wjob' \in [Workers -> Calls \cup {NoCall}]
    BY <1>4 DEF WorkerDies, TypeOK, WorkerPc
  <2> QED BY <1>4, <2>1, <2>2, <2>3 DEF WorkerDies, TypeOK, Registry, submitVars
<1> QED BY <1>1, <1>2, <1>3, <1>4 DEF WorkerStep

LEMMA TaskType ==
    ASSUME TypeOK, NEW w \in Workers, TaskStep(w) PROVE TypeOK'
<1>1. CASE TaskEnds(w)
  <2>1. /\ wpc' \in [Workers -> WorkerPc]
        /\ \A v \in Workers : wpc'[v] \in Holding <=> wpc[v] \in Holding
    BY <1>1 DEF TaskEnds, TypeOK, WorkerPc, Holding
  <2> QED BY <1>1, <2>1 DEF TaskEnds, TypeOK, Fates, submitVars
<1>2. CASE TaskStops(w)
  <2>1. /\ wpc' \in [Workers -> WorkerPc]
        /\ \A v \in Workers : wpc'[v] \in Holding <=> wpc[v] \in Holding
    BY <1>2 DEF TaskStops, TypeOK, WorkerPc, Holding
  <2> QED BY <1>2, <2>1 DEF TaskStops, TypeOK, Fates, submitVars
<1> QED BY <1>1, <1>2 DEF TaskStep

LEMMA CancelType ==
    ASSUME TypeOK, NEW e \in Events, Cancel(e) PROVE TypeOK'
<1>1. inflight[e] \in Workers
  BY DEF Cancel, TypeOK
<1>2. /\ wpc' \in [Workers -> WorkerPc]
      /\ \A v \in Workers : wpc'[v] \in Holding <=> wpc[v] \in Holding
  BY <1>1 DEF Cancel, TypeOK, WorkerPc, Holding
<1> QED BY <1>2 DEF Cancel, TypeOK, submitVars

\* Every reachable state is well typed; in particular a worker holds a job
\* exactly while it awaits a task, and the deque never exceeds its cap.
THEOREM TypeCorrect == Spec => []TypeOK
<1>1. Init => TypeOK
  BY DEF Init, TypeOK, SubmitPc, WorkerPc, Holding, Fates
<1>2. TypeOK /\ [Next]_vars => TypeOK'
  <2> SUFFICES ASSUME TypeOK, [Next]_vars PROVE TypeOK'
    OBVIOUS
  <2>1. CASE UNCHANGED vars
    BY <2>1 DEF TypeOK, vars
  <2>2. ASSUME NEW c \in Calls, Submit(c) \/ Reply(c) PROVE TypeOK'
    BY <2>2, SubmitType, ReplyType
  <2>3. ASSUME NEW w \in Workers, WorkerStep(w) \/ TaskStep(w) PROVE TypeOK'
    BY <2>3, WorkerType, TaskType
  <2>4. ASSUME NEW e \in Events, Cancel(e) PROVE TypeOK'
    BY <2>4, CancelType
  <2> QED BY <2>1, <2>2, <2>3, <2>4 DEF Next
<1> QED BY <1>1, <1>2, PTL DEF Spec
-----------------------------------------------------------------------------
(* The life of a job *)

InHands == {wjob[w] : w \in Holders}

\* Where each job may be, by what submit() returned for it.
JobsInv ==
    /\ \A e \in queue : spc[e.job] = "queued" /\ e.job \notin InHands /\ fate[e.job] = "none"
    /\ \A i \in DOMAIN overflow :
           /\ spc[overflow[i]] = "deferred" /\ overflow[i] \in NeverDrop
           /\ overflow[i] \notin InHands /\ fate[overflow[i]] = "none"
    /\ \A w \in Holders : spc[wjob[w]] \in {"queued", "deferred"}
    /\ \A w \in Workers :
           /\ wpc[w] \in {"running", "stopping"} => fate[wjob[w]] = "none"
           /\ wpc[w] \in {"ended", "cancelled"} => fate[wjob[w]] \in {"served", "aborted"}
    /\ \A c \in Calls : fate[c] # "none" => spc[c] \in {"queued", "deferred"}
    /\ \A c \in Calls : spc[c] \in {"redis", "kafka"} => c \in NeverDrop
    /\ \A c \in Calls :
           /\ spc[c] = "shed" => c \in redis
           /\ spc[c] = "queued" => c \in InQueue \cup InHands \/ fate[c] # "none"
           /\ spc[c] = "deferred" => c \in kafka \cup InDeque \cup InHands \/ fate[c] # "none"
    /\ \A a, b \in queue : a.job = b.job => a = b
    /\ \A i, j \in DOMAIN overflow : overflow[i] = overflow[j] => i = j
    /\ \A v, w \in Holders : wjob[v] = wjob[w] => v = w
\* Indexing after popleft() and append().
LEMMA TailIndex ==
    ASSUME NEW s \in Seq(Calls), s # <<>>
    PROVE  /\ DOMAIN s = 1..Len(s) /\ Len(s) \in Nat /\ 1 \in DOMAIN s
           /\ Head(s) = s[1]
           /\ DOMAIN Tail(s) = 1..(Len(s) - 1)
           /\ \A i \in DOMAIN Tail(s) : i + 1 \in DOMAIN s /\ Tail(s)[i] = s[i + 1] /\ i + 1 # 1
OBVIOUS

LEMMA AppendIndex ==
    ASSUME NEW s \in Seq(Calls), NEW c \in Calls
    PROVE  /\ DOMAIN s = 1..Len(s) /\ Len(s) \in Nat
           /\ DOMAIN Append(s, c) = 1..(Len(s) + 1)
           /\ \A i \in DOMAIN s : Append(s, c)[i] = s[i]
           /\ Append(s, c)[Len(s) + 1] = c
OBVIOUS

\* A job that submit() is still busy with is nowhere in the process.
LEMMA Unplaced ==
    ASSUME TypeOK, JobsInv, NEW c \in Calls, spc[c] \notin {"queued", "deferred"}
    PROVE  /\ \A e \in queue : e.job # c
           /\ \A i \in DOMAIN overflow : overflow[i] # c
           /\ c \notin InHands /\ fate[c] = "none"
<1>1. \A w \in Holders : wjob[w] # c
  BY DEF JobsInv
<1> QED BY <1>1 DEF JobsInv, InHands, TypeOK

\* The workers' side is untouched: their hands hold the same jobs.
LEMMA SameHands ==
    ASSUME UNCHANGED <<wpc, wjob>>
    PROVE  Holders' = Holders /\ InHands' = InHands
BY DEF Holders, InHands, InState

LEMMA PutDequeJobs ==
    ASSUME TypeOK, JobsInv, NEW c \in NeverDrop, spc[c] \in {"new", "redis", "kafka"},
           PutDeque(c), UNCHANGED <<queue, wpc, wjob>>,
           redis \subseteq redis', kafka \subseteq kafka'
    PROVE  JobsInv'
<1> DEFINE longer == Append(overflow, c)
<1>0. c \in Calls
  OBVIOUS
<1>1. /\ overflow \in Seq(Calls) /\ Len(overflow) \in Nat
      /\ DOMAIN overflow = 1..Len(overflow)
      /\ longer \in Seq(Calls) /\ longer # <<>> /\ Len(longer) = Len(overflow) + 1
      /\ DOMAIN longer = 1..(Len(overflow) + 1)
      /\ \A i \in DOMAIN overflow : longer[i] = overflow[i]
      /\ longer[Len(overflow) + 1] = c
  BY <1>0, AppendIndex, AppendToDeque DEF TypeOK
<1>2. /\ \A e \in queue : e.job # c
      /\ \A i \in DOMAIN overflow : overflow[i] # c
      /\ c \notin InHands /\ fate[c] = "none"
  BY <1>0, Unplaced
<1>3. Holders' = Holders /\ InHands' = InHands
  BY SameHands
<1>4. /\ \A i \in DOMAIN longer : longer[i] = c \/ \E j \in DOMAIN overflow : longer[i] = overflow[j]
      /\ \A i, j \in DOMAIN longer : longer[i] = longer[j] => i = j
  <2> HIDE DEF longer
  <2>1. \A i, j \in DOMAIN overflow : overflow[i] = overflow[j] => i = j
    BY DEF JobsInv
  <2>2. \A i \in DOMAIN longer : i \in DOMAIN overflow \/ i = Len(overflow) + 1
    BY <1>1
  <2>3. \A i \in DOMAIN longer : i \notin DOMAIN overflow => longer[i] = c
    BY <1>1, <2>2
  <2>4. \A i \in DOMAIN overflow : longer[i] = overflow[i] /\ longer[i] # c
    BY <1>1, <1>2
  <2> QED BY <2>1, <2>2, <2>3, <2>4
<1>5. spc' = [spc EXCEPT ![c] = "deferred"]
  BY DEF PutDeque
<1>6. CASE Len(longer) > OverflowMax
  <2>1. overflow' = Tail(longer) /\ fate' = [fate EXCEPT ![Head(longer)] = "evicted"]
    BY <1>6 DEF PutDeque
  <2>a. /\ Head(longer) = longer[1] /\ 1 \in DOMAIN longer
        /\ DOMAIN overflow' = 1..(Len(longer) - 1)
        /\ \A i \in DOMAIN overflow' : /\ i + 1 \in DOMAIN longer /\ i + 1 # 1
                                      /\ overflow'[i] = longer[i + 1]
    <3> HIDE DEF longer
    <3> QED BY <1>1, <2>1, TailIndex
  <2> HIDE DEF longer
  <2>2. Len(overflow) >= 1 /\ 1 \in DOMAIN overflow
    BY <1>6, <1>1
  <2>3. Head(longer) = overflow[1] /\ overflow[1] \in Calls /\ overflow[1] # c
    BY <2>2, <2>a, <1>1, <1>2, SMTT(30)
  <2>4. /\ spc[overflow[1]] = "deferred" /\ overflow[1] \notin InHands
        /\ \A e \in queue : e.job # overflow[1]
    BY <2>2 DEF JobsInv
  <2>5. \A i \in DOMAIN overflow' : overflow'[i] # overflow[1]
    BY <2>a, <1>4, <2>3
  <2>6. \A i \in DOMAIN overflow' : overflow'[i] = c \/ \E j \in DOMAIN overflow : overflow'[i] = overflow[j]
    BY <2>a, <1>4
  <2>7. \A j \in DOMAIN overflow : j # 1 => \E i \in DOMAIN overflow' : overflow'[i] = overflow[j]
    <3> SUFFICES ASSUME NEW j \in DOMAIN overflow, j # 1
                 PROVE  \E i \in DOMAIN overflow' : overflow'[i] = overflow[j]
      OBVIOUS
    <3>1. j - 1 \in DOMAIN overflow' /\ (j - 1) + 1 = j
      BY <1>1, <2>a
    <3>2. overflow'[j - 1] = overflow[j]
      BY <3>1, <1>1, <2>a
    <3> QED BY <3>1, <3>2
  <2>8. Len(overflow) \in DOMAIN overflow' /\ overflow'[Len(overflow)] = c
    BY <2>a, <1>1, <2>2
  <2>9. /\ fate'[overflow[1]] = "evicted"
        /\ \A d \in Calls : d # overflow[1] => fate'[d] = fate[d]
    BY <2>1, <2>3 DEF TypeOK
  <2>10. \A d \in Calls : (d # c => spc'[d] = spc[d]) /\ spc'[c] = "deferred"
    BY <1>5, <1>0 DEF TypeOK
  <2>11. \A e \in queue' : /\ spc'[e.job] = "queued" /\ e.job \notin InHands'
                           /\ fate'[e.job] = "none"
    BY <1>2, <1>3, <2>4, <2>9, <2>10 DEF JobsInv, TypeOK
  <2>12. \A i \in DOMAIN overflow' :
           /\ spc'[overflow'[i]] = "deferred" /\ overflow'[i] \in NeverDrop
           /\ overflow'[i] \notin InHands' /\ fate'[overflow'[i]] = "none"
    <3> SUFFICES ASSUME NEW i \in DOMAIN overflow'
                 PROVE  /\ spc'[overflow'[i]] = "deferred" /\ overflow'[i] \in NeverDrop
                        /\ overflow'[i] \notin InHands' /\ fate'[overflow'[i]] = "none"
      OBVIOUS
    <3>1. CASE overflow'[i] = c
      BY <3>1, <2>10, <1>0, <1>2, <1>3, <2>9, <2>3
    <3>2. CASE overflow'[i] # c
      <4>1. PICK j \in DOMAIN overflow : overflow'[i] = overflow[j]
        BY <3>2, <2>6
      <4>2. /\ spc[overflow[j]] = "deferred" /\ overflow[j] \in NeverDrop
            /\ overflow[j] \notin InHands /\ fate[overflow[j]] = "none"
        BY DEF JobsInv
      <4> QED BY <3>2, <4>1, <4>2, <2>5, <2>9, <2>10, <1>3
    <3> QED BY <3>1, <3>2
  <2>13. \A w \in Holders' : spc'[wjob'[w]] \in {"queued", "deferred"}
    <3>1. \A w \in Holders : wjob[w] \in Calls
      BY DEF Holders, InState, TypeOK
    <3> QED BY <3>1, <1>3, <2>10 DEF JobsInv
  <2>14. \A w \in Workers :
           /\ wpc'[w] \in {"running", "stopping"} => fate'[wjob'[w]] = "none"
           /\ wpc'[w] \in {"ended", "cancelled"} => fate'[wjob'[w]] \in {"served", "aborted"}
    <3>1. \A w \in Workers : wpc[w] \in Holding => w \in Holders /\ wjob[w] \in InHands /\ wjob[w] \in Calls
      BY DEF Holders, InHands, InState, TypeOK
    <3>2. \A w \in Workers : wpc[w] \in Holding => fate'[wjob[w]] = fate[wjob[w]]
      BY <3>1, <2>4, <2>9
    <3> QED BY <3>2 DEF JobsInv, Holding
  <2>15. \A d \in Calls : fate'[d] # "none" => spc'[d] \in {"queued", "deferred"}
    BY <2>9, <2>10, <2>4 DEF JobsInv
  <2>16. \A d \in Calls : spc'[d] \in {"redis", "kafka"} => d \in NeverDrop
    BY <2>10 DEF JobsInv
  <2>17. \A d \in Calls :
           /\ spc'[d] = "shed" => d \in redis'
           /\ spc'[d] = "queued" => d \in InQueue' \cup InHands' \/ fate'[d] # "none"
           /\ spc'[d] = "deferred" => d \in kafka' \cup InDeque' \cup InHands' \/ fate'[d] # "none"
    <3> SUFFICES ASSUME NEW d \in Calls
                 PROVE  /\ spc'[d] = "shed" => d \in redis'
                        /\ spc'[d] = "queued" => d \in InQueue' \cup InHands' \/ fate'[d] # "none"
                        /\ spc'[d] = "deferred" => d \in kafka' \cup InDeque' \cup InHands' \/ fate'[d] # "none"
      OBVIOUS
    <3>1. CASE d = c
      BY <3>1, <2>8, <2>10 DEF InDeque
    <3>2. CASE d = overflow[1]
      BY <3>2, <2>9, <2>10, <2>4, <2>3
    <3>3. CASE d # c /\ d # overflow[1]
      <4>1. d \in InDeque => d \in InDeque'
        BY <3>3, <2>7 DEF InDeque
      <4>2. InQueue' = InQueue
        BY DEF InQueue
      <4> QED BY <3>3, <4>1, <4>2, <1>3, <2>9, <2>10 DEF JobsInv
    <3> QED BY <3>1, <3>2, <3>3
  <2>18. \A i, j \in DOMAIN overflow' : overflow'[i] = overflow'[j] => i = j
    BY <2>a, <1>4, <1>1
  <2> QED BY <2>11, <2>12, <2>13, <2>14, <2>15, <2>16, <2>17, <2>18, <1>3 DEF JobsInv
<1>7. CASE ~(Len(longer) > OverflowMax)
  <2>1. overflow' = longer /\ fate' = fate
    BY <1>7 DEF PutDeque
  <2> HIDE DEF longer
  <2>2. \A d \in Calls : (d # c => spc'[d] = spc[d]) /\ spc'[c] = "deferred"
    BY <1>5, <1>0 DEF TypeOK
  <2>3. \A e \in queue' : /\ spc'[e.job] = "queued" /\ e.job \notin InHands'
                          /\ fate'[e.job] = "none"
    BY <1>2, <1>3, <2>1, <2>2 DEF JobsInv, TypeOK
  <2>4. \A i \in DOMAIN overflow' :
           /\ spc'[overflow'[i]] = "deferred" /\ overflow'[i] \in NeverDrop
           /\ overflow'[i] \notin InHands' /\ fate'[overflow'[i]] = "none"
    BY <1>0, <1>2, <1>3, <1>4, <2>1, <2>2 DEF JobsInv
  <2>5. \A w \in Holders' : spc'[wjob'[w]] \in {"queued", "deferred"}
    <3>1. \A w \in Holders : wjob[w] \in Calls
      BY DEF Holders, InState, TypeOK
    <3> QED BY <3>1, <1>3, <2>2 DEF JobsInv
  <2>6. \A d \in Calls :
           /\ spc'[d] = "shed" => d \in redis'
           /\ spc'[d] = "queued" => d \in InQueue' \cup InHands' \/ fate'[d] # "none"
           /\ spc'[d] = "deferred" => d \in kafka' \cup InDeque' \cup InHands' \/ fate'[d] # "none"
    <3>1. InDeque' = InDeque \cup {c} /\ InQueue' = InQueue
      BY <1>1, <1>4, <2>1 DEF InDeque, InQueue
    <3> QED BY <3>1, <1>3, <2>1, <2>2 DEF JobsInv
  <2>7. \A d \in Calls : /\ fate'[d] # "none" => spc'[d] \in {"queued", "deferred"}
                         /\ spc'[d] \in {"redis", "kafka"} => d \in NeverDrop
    BY <2>1, <2>2 DEF JobsInv
  <2> QED BY <1>3, <1>4, <2>1, <2>3, <2>4, <2>5, <2>6, <2>7 DEF JobsInv
<1> QED BY <1>6, <1>7
LEMMA SubmitJobs ==
    ASSUME TypeOK, JobsInv, NEW c \in Calls, Submit(c) PROVE JobsInv'
<1>1. CASE SubmitQueued(c)
  <2>1. /\ \A e \in queue : e.job # c
        /\ \A i \in DOMAIN overflow : overflow[i] # c
        /\ c \notin InHands /\ fate[c] = "none"
    BY <1>1, Unplaced DEF SubmitQueued
  <2>2. /\ spc' = [spc EXCEPT ![c] = "queued"] /\ queue' = queue \cup {Entry(seq + 1, c)}
        /\ UNCHANGED <<overflow, redis, kafka, wjob, fate>>
        /\ Entry(seq + 1, c).job = c
    BY <1>1 DEF SubmitQueued, Entry
  <2>3. Holders' = Holders /\ \A w \in Workers : wpc[w] \in Holding \/ wpc'[w] \in Holding => wpc'[w] = wpc[w]
    BY <1>1 DEF SubmitQueued, WakeOne, Holders, InState, Holding, TypeOK
  <2>4. InHands' = InHands
    BY <2>2, <2>3 DEF InHands
  <2>5. \A d \in Calls : (d # c => spc'[d] = spc[d]) /\ spc'[c] = "queued"
    BY <2>2 DEF TypeOK
  <2>6. \A w \in Holders : wjob[w] \in Calls /\ wjob[w] \in InHands
    BY DEF Holders, InState, InHands, TypeOK
  <2>7. InQueue' = InQueue \cup {c} /\ InDeque' = InDeque
    BY <2>2 DEF InQueue, InDeque
  <2>8. \A e \in queue' : spc'[e.job] = "queued" /\ e.job \notin InHands' /\ fate'[e.job] = "none"
    BY <2>1, <2>2, <2>4, <2>5 DEF JobsInv, TypeOK
  <2>9. \A i \in DOMAIN overflow' :
           /\ spc'[overflow'[i]] = "deferred" /\ overflow'[i] \in NeverDrop
           /\ overflow'[i] \notin InHands' /\ fate'[overflow'[i]] = "none"
    BY <2>1, <2>2, <2>4, <2>5 DEF JobsInv, TypeOK
  <2>10. \A w \in Holders' : spc'[wjob'[w]] \in {"queued", "deferred"}
    BY <2>2, <2>3, <2>5, <2>6, <2>1 DEF JobsInv
  <2>11. \A w \in Workers :
           /\ wpc'[w] \in {"running", "stopping"} => fate'[wjob'[w]] = "none"
           /\ wpc'[w] \in {"ended", "cancelled"} => fate'[wjob'[w]] \in {"served", "aborted"}
    BY <2>2, <2>3 DEF JobsInv, Holding
  <2>12. \A d \in Calls :
           /\ fate'[d] # "none" => spc'[d] \in {"queued", "deferred"}
           /\ spc'[d] \in {"redis", "kafka"} => d \in NeverDrop
           /\ spc'[d] = "shed" => d \in redis'
           /\ spc'[d] = "queued" => d \in InQueue' \cup InHands' \/ fate'[d] # "none"
           /\ spc'[d] = "deferred" => d \in kafka' \cup InDeque' \cup InHands' \/ fate'[d] # "none"
    BY <2>2, <2>4, <2>5, <2>7 DEF JobsInv
  <2>13. \A a, b \in queue' : a.job = b.job => a = b
    BY <2>1, <2>2 DEF JobsInv
  <2> QED BY <2>2, <2>3, <2>8, <2>9, <2>10, <2>11, <2>12, <2>13 DEF JobsInv
<1>2. ASSUME NEW x \in {"overflow", "redis", "kafka"}, x = "overflow" \/ c \in NeverDrop,
             spc[c] \notin {"queued", "deferred"}, spc' = [spc EXCEPT ![c] = x],
             UNCHANGED <<queue, overflow, redis, kafka, wpc, wjob, fate>>
      PROVE  JobsInv'
  <2>1. /\ \A e \in queue : e.job # c
        /\ \A i \in DOMAIN overflow : overflow[i] # c
        /\ c \notin InHands /\ fate[c] = "none"
    BY <1>2, Unplaced
  <2>2. Holders' = Holders /\ InHands' = InHands /\ InQueue' = InQueue /\ InDeque' = InDeque
    BY <1>2, SameHands DEF InQueue, InDeque
  <2>3. \A d \in Calls : (d # c => spc'[d] = spc[d]) /\ spc'[c] = x
    BY <1>2 DEF TypeOK
  <2>4. \A w \in Holders : wjob[w] \in Calls /\ wjob[w] \in InHands
    BY DEF Holders, InState, InHands, TypeOK
  <2>5. \A e \in queue : e.job \in Calls
    BY DEF TypeOK
  <2>6. \A i \in DOMAIN overflow : overflow[i] \in Calls
    BY DEF TypeOK
  <2> QED BY <1>2, <2>1, <2>2, <2>3, <2>4, <2>5, <2>6 DEF JobsInv
<1>3. CASE SubmitRefused(c)
  BY <1>2, <1>3 DEF SubmitRefused, workerVars
<1>4. CASE SubmitShed(c)
  <2>1. CASE RedisOn
    BY <1>2, <1>4, <2>1 DEF SubmitShed, workerVars
  <2>2. CASE ~RedisOn /\ c \notin FromOverflow /\ KafkaOn
    BY <1>2, <1>4, <2>2 DEF SubmitShed, TryKafka, workerVars
  <2>3. CASE ~RedisOn /\ ~(c \notin FromOverflow /\ KafkaOn)
    BY <1>4, <2>3, PutDequeJobs DEF SubmitShed, TryKafka, workerVars
  <2> QED BY <2>1, <2>2, <2>3
<1> QED BY <1>1, <1>3, <1>4 DEF Submit

LEMMA ReplyJobs ==
    ASSUME TypeOK, JobsInv, NEW c \in Calls, Reply(c) PROVE JobsInv'
<1>1. ASSUME NEW x \in {"shed", "kafka", "deferred"},
             spc[c] \in {"redis", "kafka"}, spc' = [spc EXCEPT ![c] = x],
             redis \subseteq redis', kafka \subseteq kafka',
             x = "shed" => c \in redis', x = "deferred" => c \in kafka',
             UNCHANGED <<queue, overflow, wpc, wjob, fate>>
      PROVE  JobsInv'
  <2>1. /\ \A e \in queue : e.job # c
        /\ \A i \in DOMAIN overflow : overflow[i] # c
        /\ c \notin InHands /\ fate[c] = "none"
    BY <1>1, Unplaced
  <2>2. Holders' = Holders /\ InHands' = InHands /\ InQueue' = InQueue /\ InDeque' = InDeque
    BY <1>1, SameHands DEF InQueue, InDeque
  <2>3. \A d \in Calls : (d # c => spc'[d] = spc[d]) /\ spc'[c] = x
    BY <1>1 DEF TypeOK
  <2>4. \A w \in Holders : wjob[w] \in Calls /\ wjob[w] \in InHands
    BY DEF Holders, InState, InHands, TypeOK
  <2>5. \A e \in queue : e.job \in Calls
    BY DEF TypeOK
  <2>6. \A i \in DOMAIN overflow : overflow[i] \in Calls
    BY DEF TypeOK
  <2>7. c \in NeverDrop
    BY <1>1 DEF JobsInv
  <2> QED BY <1>1, <2>1, <2>2, <2>3, <2>4, <2>5, <2>6, <2>7 DEF JobsInv
<1>2. CASE RedisAccepts(c)
  BY <1>1, <1>2 DEF RedisAccepts, workerVars
<1>3. CASE RedisFails(c)
  <2>1. spc[c] = "redis" /\ redis \subseteq redis' /\ TryKafka(c) /\ c \in NeverDrop
        /\ UNCHANGED <<queue, kafka, wpc, wjob>>
    BY <1>3 DEF RedisFails, workerVars, JobsInv
  <2>2. CASE c \notin FromOverflow /\ KafkaOn
    BY <1>1, <2>1, <2>2 DEF TryKafka
  <2>3. CASE ~(c \notin FromOverflow /\ KafkaOn)
    BY <2>1, <2>3, PutDequeJobs DEF TryKafka
  <2> QED BY <2>2, <2>3
<1>4. CASE KafkaAccepts(c)
  BY <1>1, <1>4 DEF KafkaAccepts, workerVars
<1>5. CASE KafkaFails(c)
  <2>1. spc[c] = "kafka" /\ kafka \subseteq kafka' /\ c \in NeverDrop
        /\ UNCHANGED <<queue, redis, wpc, wjob>> /\ PutDeque(c)
    BY <1>5 DEF KafkaFails, workerVars, JobsInv
  <2> QED BY <2>1, PutDequeJobs
<1> QED BY <1>2, <1>3, <1>4, <1>5 DEF Reply

\* Starting a job that nobody holds: the worker's old job, if any, is over.
LEMMA StartHands ==
    ASSUME TypeOK, JobsInv, NEW w \in Workers, wpc[w] \in {"ready", "woken", "ended"},
           NEW c \in Calls, c \notin InHands, NEW reg, NEW n, StartJob(w, c, reg, n)
    PROVE  /\ Holders' = Holders \cup {w}
           /\ wjob'[w] = c /\ wpc'[w] = "running"
           /\ \A v \in Workers : v # w => wjob'[v] = wjob[v] /\ wpc'[v] = wpc[v]
           /\ c \in InHands' /\ InHands' \subseteq InHands \cup {c}
           /\ \A d \in InHands : d \in InHands' \/ fate[d] # "none"
<1>1. /\ Holders' = Holders \cup {w}
      /\ wjob'[w] = c /\ wpc'[w] = "running"
      /\ \A v \in Workers : v # w => wjob'[v] = wjob[v] /\ wpc'[v] = wpc[v]
  BY DEF StartJob, Holders, InState, Holding, TypeOK
<1>2. c \in InHands' /\ InHands' \subseteq InHands \cup {c}
  BY <1>1 DEF InHands, Holders, InState
<1>3. \A d \in InHands : d \in InHands' \/ fate[d] # "none"
  <2> SUFFICES ASSUME NEW v \in Holders PROVE wjob[v] \in InHands' \/ fate[wjob[v]] # "none"
    BY DEF InHands
  <2>1. CASE v = w
    BY <2>1 DEF JobsInv, Holders, InState, Holding
  <2>2. CASE v # w
    BY <2>2, <1>1 DEF InHands, Holders, InState
  <2> QED BY <2>1, <2>2
<1> QED BY <1>1, <1>2, <1>3

\* Leaving the hands without a new job.
LEMMA DropHands ==
    ASSUME TypeOK, JobsInv, NEW w \in Workers, NEW p \in {"waiting", "dead"},
           wpc[w] \in {"ready", "woken", "ended", "cancelled"},
           wpc' = [wpc EXCEPT ![w] = p], wjob' = [wjob EXCEPT ![w] = NoCall],
           UNCHANGED <<spc, queue, overflow, redis, kafka, fate>>
    PROVE  JobsInv'
<1>1. /\ Holders' = Holders \ {w}
      /\ \A v \in Workers : v # w => wjob'[v] = wjob[v] /\ wpc'[v] = wpc[v]
      /\ wpc'[w] = p
  BY DEF Holders, InState, Holding, TypeOK
<1>2. InHands' \subseteq InHands
  BY <1>1 DEF InHands, Holders, InState
<1>3. \A d \in InHands : d \in InHands' \/ fate[d] # "none"
  <2> SUFFICES ASSUME NEW v \in Holders PROVE wjob[v] \in InHands' \/ fate[wjob[v]] # "none"
    BY DEF InHands
  <2>1. CASE v = w
    BY <2>1 DEF JobsInv, Holders, InState, Holding
  <2>2. CASE v # w
    BY <2>2, <1>1 DEF InHands, Holders, InState
  <2> QED BY <2>1, <2>2
<1>4. InQueue' = InQueue /\ InDeque' = InDeque
  BY DEF InQueue, InDeque
<1>5. \A v \in Holders' : spc'[wjob'[v]] \in {"queued", "deferred"}
  BY <1>1 DEF JobsInv, Holders, InState
<1>6. \A v \in Workers :
         /\ wpc'[v] \in {"running", "stopping"} => fate'[wjob'[v]] = "none"
         /\ wpc'[v] \in {"ended", "cancelled"} => fate'[wjob'[v]] \in {"served", "aborted"}
  BY <1>1 DEF JobsInv
<1>7. \A u, v \in Holders' : wjob'[u] = wjob'[v] => u = v
  BY <1>1 DEF JobsInv, Holders, InState
<1> QED BY <1>2, <1>3, <1>4, <1>5, <1>6, <1>7 DEF JobsInv

LEMMA TurnJobs ==
    ASSUME TypeOK, JobsInv, NEW w \in Workers, wpc[w] \in {"ready", "woken", "ended"},
           NEW reg, NEW n, Turn(w, reg, n) \/ TakeQueue(w, reg, n) \/ Block(w, reg, n),
           UNCHANGED <<spc, redis, kafka, fate>>
    PROVE  JobsInv'
<1>1. CASE /\ overflow # <<>> /\ overflow' = Tail(overflow) /\ queue' = queue
           /\ StartJob(w, Head(overflow), reg, n)
  <2>1. /\ overflow \in Seq(Calls) /\ DOMAIN overflow = 1..Len(overflow) /\ Len(overflow) \in Nat
        /\ 1 \in DOMAIN overflow /\ Head(overflow) = overflow[1]
        /\ DOMAIN overflow' = 1..(Len(overflow) - 1)
        /\ \A i \in DOMAIN overflow' : i + 1 \in DOMAIN overflow /\ overflow'[i] = overflow[i + 1] /\ i + 1 # 1
    BY <1>1, TailIndex DEF TypeOK
  <2>2. PICK c \in Calls : c = Head(overflow) /\ c = overflow[1]
    BY <2>1
  <2>3. /\ c \notin InHands /\ spc[c] = "deferred" /\ fate[c] = "none"
    BY <2>1, <2>2 DEF JobsInv
  <2>4. /\ Holders' = Holders \cup {w}
        /\ wjob'[w] = c /\ wpc'[w] = "running"
        /\ \A v \in Workers : v # w => wjob'[v] = wjob[v] /\ wpc'[v] = wpc[v]
        /\ c \in InHands' /\ InHands' \subseteq InHands \cup {c}
        /\ \A d \in InHands : d \in InHands' \/ fate[d] # "none"
    BY <1>1, <2>2, <2>3, StartHands
  <2>5. \A i \in DOMAIN overflow' : overflow'[i] # c
    BY <2>1, <2>2 DEF JobsInv
  <2>6. \A i \in DOMAIN overflow' :
           /\ spc'[overflow'[i]] = "deferred" /\ overflow'[i] \in NeverDrop
           /\ overflow'[i] \notin InHands' /\ fate'[overflow'[i]] = "none"
    BY <2>1, <2>4, <2>5 DEF JobsInv
  <2>7. \A e \in queue' : spc'[e.job] = "queued" /\ e.job \notin InHands' /\ fate'[e.job] = "none"
    BY <1>1, <2>3, <2>4 DEF JobsInv
  <2>8. \A v \in Holders' : spc'[wjob'[v]] \in {"queued", "deferred"}
    BY <2>3, <2>4 DEF JobsInv, Holders, InState
  <2>9. \A v \in Workers :
           /\ wpc'[v] \in {"running", "stopping"} => fate'[wjob'[v]] = "none"
           /\ wpc'[v] \in {"ended", "cancelled"} => fate'[wjob'[v]] \in {"served", "aborted"}
    BY <2>3, <2>4 DEF JobsInv
  <2>10. \A d \in InDeque : d = c \/ d \in InDeque'
    <3> SUFFICES ASSUME NEW j \in DOMAIN overflow, j # 1
                 PROVE  \E i \in DOMAIN overflow' : overflow'[i] = overflow[j]
      BY <2>2 DEF InDeque
    <3>1. j - 1 \in DOMAIN overflow' /\ (j - 1) + 1 = j
      BY <2>1
    <3>2. overflow'[j - 1] = overflow[j]
      BY <3>1, <2>1
    <3> QED BY <3>1, <3>2
  <2>11. \A d \in Calls :
           /\ spc'[d] = "shed" => d \in redis'
           /\ spc'[d] = "queued" => d \in InQueue' \cup InHands' \/ fate'[d] # "none"
           /\ spc'[d] = "deferred" => d \in kafka' \cup InDeque' \cup InHands' \/ fate'[d] # "none"
    <3>1. InQueue' = InQueue
      BY <1>1 DEF InQueue
    <3> QED BY <2>4, <2>10, <3>1 DEF JobsInv
  <2>12. \A i, j \in DOMAIN overflow' : overflow'[i] = overflow'[j] => i = j
    BY <2>1 DEF JobsInv
  <2>13. \A u, v \in Holders' : wjob'[u] = wjob'[v] => u = v
    BY <2>3, <2>4 DEF JobsInv, InHands, Holders, InState
  <2> QED BY <1>1, <2>6, <2>7, <2>8, <2>9, <2>11, <2>12, <2>13 DEF JobsInv
<1>2. CASE \E e \in queue : /\ queue' = queue \ {e} /\ overflow' = overflow
                            /\ StartJob(w, e.job, reg, n)
  <2>1. PICK e \in queue : /\ queue' = queue \ {e} /\ overflow' = overflow
                           /\ StartJob(w, e.job, reg, n)
    BY <1>2
  <2>2. PICK c \in Calls : c = e.job
    BY DEF TypeOK
  <2>3. c \notin InHands /\ spc[c] = "queued" /\ fate[c] = "none"
    BY <2>2 DEF JobsInv
  <2>4. /\ Holders' = Holders \cup {w}
        /\ wjob'[w] = c /\ wpc'[w] = "running"
        /\ \A v \in Workers : v # w => wjob'[v] = wjob[v] /\ wpc'[v] = wpc[v]
        /\ c \in InHands' /\ InHands' \subseteq InHands \cup {c}
        /\ \A d \in InHands : d \in InHands' \/ fate[d] # "none"
    BY <2>1, <2>2, <2>3, StartHands
  <2>5. \A f \in queue' : f.job # c
    BY <2>1, <2>2 DEF JobsInv
  <2>6. \A f \in queue' : spc'[f.job] = "queued" /\ f.job \notin InHands' /\ fate'[f.job] = "none"
    BY <2>1, <2>4, <2>5 DEF JobsInv
  <2>7. \A i \in DOMAIN overflow' :
           /\ spc'[overflow'[i]] = "deferred" /\ overflow'[i] \in NeverDrop
           /\ overflow'[i] \notin InHands' /\ fate'[overflow'[i]] = "none"
    BY <2>1, <2>3, <2>4 DEF JobsInv
  <2>8. \A v \in Holders' : spc'[wjob'[v]] \in {"queued", "deferred"}
    BY <2>3, <2>4 DEF JobsInv, Holders, InState
  <2>9. \A v \in Workers :
           /\ wpc'[v] \in {"running", "stopping"} => fate'[wjob'[v]] = "none"
           /\ wpc'[v] \in {"ended", "cancelled"} => fate'[wjob'[v]] \in {"served", "aborted"}
    BY <2>3, <2>4 DEF JobsInv
  <2>10. \A d \in InQueue : d = c \/ d \in InQueue'
    BY <2>1, <2>2 DEF InQueue
  <2>11. \A d \in Calls :
           /\ spc'[d] = "shed" => d \in redis'
           /\ spc'[d] = "queued" => d \in InQueue' \cup InHands' \/ fate'[d] # "none"
           /\ spc'[d] = "deferred" => d \in kafka' \cup InDeque' \cup InHands' \/ fate'[d] # "none"
    <3>1. InDeque' = InDeque
      BY <2>1 DEF InDeque
    <3> QED BY <2>4, <2>10, <3>1 DEF JobsInv
  <2>12. \A a, b \in queue' : a.job = b.job => a = b
    BY <2>1 DEF JobsInv
  <2>13. \A u, v \in Holders' : wjob'[u] = wjob'[v] => u = v
    BY <2>3, <2>4 DEF JobsInv, InHands, Holders, InState
  <2> QED BY <2>1, <2>6, <2>7, <2>8, <2>9, <2>11, <2>12, <2>13 DEF JobsInv
<1>3. CASE /\ queue' = queue /\ overflow' = overflow
           /\ wpc' = [wpc EXCEPT ![w] = "waiting"]
           /\ wjob' = [wjob EXCEPT ![w] = NoCall]
  BY <1>3, DropHands
<1> QED BY <1>1, <1>2, <1>3, TurnShape

LEMMA WorkerJobs ==
    ASSUME TypeOK, JobsInv, NEW w \in Workers, WorkerStep(w) PROVE JobsInv'
<1>1. CASE FirstTurn(w)
  BY <1>1, TurnJobs DEF FirstTurn, submitVars
<1>2. CASE Woken(w)
  BY <1>2, TurnJobs DEF Woken, submitVars
<1>3. CASE NextTurn(w)
  BY <1>3, TurnJobs DEF NextTurn, submitVars
<1>4. CASE WorkerDies(w)
  BY <1>4, DropHands DEF WorkerDies, submitVars
<1> QED BY <1>1, <1>2, <1>3, <1>4 DEF WorkerStep

\* A task that ends or is cancelled: only its own job's fate changes.
LEMMA TaskJobs ==
    ASSUME TypeOK, JobsInv, NEW w \in Workers, TaskStep(w) PROVE JobsInv'
<1>1. PICK p \in {"ended", "cancelled"}, f \in {"served", "aborted"} :
         /\ wpc[w] \in {"running", "stopping"}
         /\ wpc' = [wpc EXCEPT ![w] = p]
         /\ fate' = [fate EXCEPT ![wjob[w]] = f]
         /\ UNCHANGED <<spc, redis, kafka, queue, overflow, wjob>>
  BY DEF TaskStep, TaskEnds, TaskStops, submitVars
<1>2. w \in Holders /\ wjob[w] \in Calls /\ wjob[w] \in InHands /\ spc[wjob[w]] \in {"queued", "deferred"}
  BY <1>1 DEF Holders, InHands, InState, Holding, TypeOK, JobsInv
<1>3. /\ Holders' = Holders
      /\ wpc'[w] = p
      /\ \A v \in Workers : v # w => wpc'[v] = wpc[v]
  BY <1>1 DEF Holders, InState, Holding, TypeOK
<1>4. InHands' = InHands /\ InQueue' = InQueue /\ InDeque' = InDeque
  BY <1>1, <1>3 DEF InHands, InQueue, InDeque
<1>5. fate'[wjob[w]] = f /\ \A d \in Calls : d # wjob[w] => fate'[d] = fate[d]
  BY <1>1, <1>2 DEF TypeOK
<1>6. \A v \in Workers : wpc[v] \in Holding => v \in Holders /\ wjob[v] \in Calls
  BY DEF Holders, InState, TypeOK
<1>7. \A v \in Workers :
         /\ wpc'[v] \in {"running", "stopping"} => fate'[wjob'[v]] = "none"
         /\ wpc'[v] \in {"ended", "cancelled"} => fate'[wjob'[v]] \in {"served", "aborted"}
  <2> SUFFICES ASSUME NEW v \in Workers
               PROVE  /\ wpc'[v] \in {"running", "stopping"} => fate'[wjob'[v]] = "none"
                      /\ wpc'[v] \in {"ended", "cancelled"} => fate'[wjob'[v]] \in {"served", "aborted"}
    OBVIOUS
  <2>1. CASE v = w
    BY <2>1, <1>1, <1>3, <1>5
  <2>2. CASE v # w /\ wpc[v] \in Holding
    <3>1. wjob[v] # wjob[w] /\ wjob[v] \in Calls
      BY <2>2, <1>2, <1>6 DEF JobsInv
    <3> QED BY <2>2, <3>1, <1>1, <1>3, <1>5 DEF JobsInv
  <2>3. CASE v # w /\ wpc[v] \notin Holding
    BY <2>3, <1>3 DEF Holding
  <2> QED BY <2>1, <2>2, <2>3
<1>8. \A e \in queue : e.job \in Calls /\ e.job # wjob[w]
  BY <1>2 DEF JobsInv, TypeOK
<1>9. \A i \in DOMAIN overflow : overflow[i] \in Calls /\ overflow[i] # wjob[w]
  BY <1>2 DEF JobsInv, TypeOK
<1>10. /\ \A e \in queue' : spc'[e.job] = "queued" /\ e.job \notin InHands' /\ fate'[e.job] = "none"
       /\ \A i \in DOMAIN overflow' :
             /\ spc'[overflow'[i]] = "deferred" /\ overflow'[i] \in NeverDrop
             /\ overflow'[i] \notin InHands' /\ fate'[overflow'[i]] = "none"
  BY <1>1, <1>4, <1>5, <1>8, <1>9 DEF JobsInv
<1>11. \A v \in Holders' : spc'[wjob'[v]] \in {"queued", "deferred"}
  BY <1>1, <1>3 DEF JobsInv
<1>12. \A d \in Calls :
         /\ fate'[d] # "none" => spc'[d] \in {"queued", "deferred"}
         /\ spc'[d] \in {"redis", "kafka"} => d \in NeverDrop
         /\ spc'[d] = "shed" => d \in redis'
         /\ spc'[d] = "queued" => d \in InQueue' \cup InHands' \/ fate'[d] # "none"
         /\ spc'[d] = "deferred" => d \in kafka' \cup InDeque' \cup InHands' \/ fate'[d] # "none"
  BY <1>1, <1>2, <1>4, <1>5 DEF JobsInv
<1> QED BY <1>1, <1>3, <1>7, <1>10, <1>11, <1>12 DEF JobsInv

LEMMA CancelJobs ==
    ASSUME TypeOK, JobsInv, NEW e \in Events, Cancel(e) PROVE JobsInv'
<1>1. inflight[e] \in Workers
  BY DEF Cancel, TypeOK
<1>2. /\ Holders' = Holders
      /\ \A w \in Workers : wpc'[w] = wpc[w] \/ (wpc[w] = "running" /\ wpc'[w] = "stopping")
      /\ UNCHANGED <<spc, redis, kafka, queue, overflow, wjob, fate>>
  <2>0. PICK x \in Workers : x = inflight[e]
    BY <1>1
  <2>1. \A w \in Workers : wpc'[w] = wpc[w] \/ (wpc[w] = "running" /\ wpc'[w] = "stopping")
    <3>1. wpc[x] = "running" /\ wpc' = [wpc EXCEPT ![x] = "stopping"]
      BY <2>0 DEF Cancel
    <3> QED BY <3>1 DEF TypeOK
  <2>2. Holders' = Holders
    BY <2>1 DEF Holders, InState, Holding
  <2> QED BY <2>1, <2>2 DEF Cancel, submitVars
<1>3. InHands' = InHands /\ InQueue' = InQueue /\ InDeque' = InDeque
  BY <1>2 DEF InHands, InQueue, InDeque
<1>4. \A v \in Workers :
         /\ wpc'[v] \in {"running", "stopping"} => fate'[wjob'[v]] = "none"
         /\ wpc'[v] \in {"ended", "cancelled"} => fate'[wjob'[v]] \in {"served", "aborted"}
  BY <1>2 DEF JobsInv
<1> QED BY <1>2, <1>3, <1>4 DEF JobsInv

LEMMA JobsInvariant == Spec => []JobsInv
<1>1. Init => JobsInv
  BY DEF Init, JobsInv, InHands, Holders, InState, Holding
<1>2. TypeOK /\ JobsInv /\ [Next]_vars => JobsInv'
  <2> SUFFICES ASSUME TypeOK, JobsInv, [Next]_vars PROVE JobsInv'
    OBVIOUS
  <2>1. CASE UNCHANGED vars
    <3>1. Holders' = Holders /\ InHands' = InHands /\ InQueue' = InQueue /\ InDeque' = InDeque
      BY <2>1, SameHands DEF vars, InQueue, InDeque
    <3> QED BY <2>1, <3>1 DEF JobsInv, vars
  <2>2. ASSUME NEW c \in Calls, Submit(c) \/ Reply(c) PROVE JobsInv'
    BY <2>2, SubmitJobs, ReplyJobs
  <2>3. ASSUME NEW w \in Workers, WorkerStep(w) \/ TaskStep(w) PROVE JobsInv'
    BY <2>3, WorkerJobs, TaskJobs
  <2>4. ASSUME NEW e \in Events, Cancel(e) PROVE JobsInv'
    BY <2>4, CancelJobs
  <2> QED BY <2>1, <2>2, <2>3, <2>4 DEF Next
<1> QED BY <1>1, <1>2, TypeCorrect, PTL DEF Spec

\* No accepted job disappears from the process and its brokers.
THEOREM JobsAreKept == Spec => []NoJobLost
<1>1. TypeOK /\ JobsInv => NoJobLost
  <2> SUFFICES ASSUME TypeOK, JobsInv, NEW c \in Calls, spc[c] \in Accepted, fate[c] = "none"
               PROVE  Kept(c)
    BY DEF NoJobLost
  <2>1. c \in InHands => Held(c) # {}
    BY DEF InHands, Holders, InState, Held
  <2> QED BY <2>1 DEF JobsInv, Accepted, Kept
<1> QED BY <1>1, TypeCorrect, JobsInvariant, PTL

\* No job is in two places of the process, and none is there after it ended.
THEOREM OneCopyOnly == Spec => []OneCopy
<1>1. TypeOK /\ JobsInv => OneCopy
  <2> SUFFICES ASSUME TypeOK, JobsInv PROVE OneCopy
    OBVIOUS
  <2>1. \A c \in Calls : c \notin InHands => Held(c) = {}
    BY DEF InHands, Holders, InState, Held
  <2>2. \A c \in InQueue : c \notin InDeque /\ Held(c) = {} /\ fate[c] = "none"
    BY <2>1 DEF JobsInv, InQueue, InDeque, TypeOK
  <2>3. \A c \in InDeque : Held(c) = {} /\ fate[c] = "none"
    BY <2>1 DEF JobsInv, InDeque, TypeOK
  <2> QED BY <2>2, <2>3 DEF JobsInv, OneCopy
<1> QED BY <1>1, TypeCorrect, JobsInvariant, PTL-----------------------------------------------------------------------------
(* The registry *)

\* Unregistering a finished job leaves no entry that names its worker.
LEMMA UnregisteredSound ==
    ASSUME TypeOK, RegistrySound, NEW w \in Workers, wpc[w] \in Holding
    PROVE  /\ Unregistered(w) \in Registry
           /\ \A e \in Events : Unregistered(w)[e] # NoWorker =>
                 /\ Unregistered(w)[e] = inflight[e]
                 /\ Unregistered(w)[e] # w
<1>1. wjob[w] \in Calls /\ EventOf[wjob[w]] \in Events
  BY UnregisteredType
<1>2. Unregistered(w) \in Registry
  BY UnregisteredType
<1>3. \A e \in Events : Unregistered(w)[e] = IF e = EventOf[wjob[w]] THEN NoWorker ELSE inflight[e]
  BY <1>1 DEF Unregistered, TypeOK
<1> QED BY <1>2, <1>3 DEF RegistrySound

\* A turn from a registry whose entries name other workers.
LEMMA TurnRegistry ==
    ASSUME TypeOK, JobsInv, NEW w \in Workers, NEW reg \in Registry, NEW n,
           \A e \in Events : reg[e] # NoWorker =>
               /\ reg[e] # w /\ reg[e] \in Holders
               /\ EventOf[wjob[reg[e]]] = e,
           Turn(w, reg, n) \/ TakeQueue(w, reg, n) \/ Block(w, reg, n)
    PROVE  RegistrySound'
<1>1. ASSUME NEW c \in Calls, StartJob(w, c, reg, n) PROVE RegistrySound'
  <2>1. /\ \A v \in Workers : v # w => wpc'[v] = wpc[v] /\ wjob'[v] = wjob[v]
        /\ wpc'[w] = "running" /\ wjob'[w] = c
    BY <1>1 DEF StartJob, TypeOK
  <2>2. \A e \in Events : inflight'[e] = IF e = EventOf[c] THEN w ELSE reg[e]
    BY <1>1 DEF StartJob, Registry
  <2>3. w \in Holders' /\ \A v \in Holders : v \in Holders'
    BY <2>1 DEF Holders, InState, Holding
  <2> QED BY <2>1, <2>2, <2>3 DEF RegistrySound, Registry, Holders, InState
<1>2. CASE /\ wpc' = [wpc EXCEPT ![w] = "waiting"]
           /\ wjob' = [wjob EXCEPT ![w] = NoCall]
           /\ inflight' = reg
  <2>1. \A v \in Workers : v # w => wpc'[v] = wpc[v] /\ wjob'[v] = wjob[v]
    BY <1>2 DEF TypeOK
  <2>2. \A v \in Holders : v # w => v \in Holders'
    BY <2>1 DEF Holders, InState
  <2> QED BY <1>2, <2>1, <2>2 DEF RegistrySound, Registry, Holders, InState
<1>3. overflow # <<>> => Head(overflow) \in Calls
  BY TailOfDeque DEF TypeOK
<1>4. \A e \in queue : e.job \in Calls
  BY DEF TypeOK
<1> QED BY <1>1, <1>2, <1>3, <1>4, TurnShape

\* cancel(event_id) can only reach a task of that event.
THEOREM RegistryIsSound == Spec => []RegistrySound
<1>1. Init => RegistrySound
  BY DEF Init, RegistrySound
<1>2. TypeOK /\ JobsInv /\ RegistrySound /\ [Next]_vars => RegistrySound'
  <2> SUFFICES ASSUME TypeOK, JobsInv, RegistrySound, [Next]_vars PROVE RegistrySound'
    OBVIOUS
  <2>0. inflight \in Registry
    BY DEF TypeOK, Registry
  <2>1. ASSUME UNCHANGED <<wjob, inflight>>,
               \A v \in Holders : v \in Holders'
        PROVE  RegistrySound'
    BY <2>1 DEF RegistrySound
  <2>2. CASE UNCHANGED vars
    BY <2>1, <2>2 DEF vars, Holders, InState
  <2>3. ASSUME NEW c \in Calls, Submit(c) PROVE RegistrySound'
    <3>1. UNCHANGED <<wjob, inflight>>
      BY <2>3 DEF Submit, SubmitQueued, SubmitRefused, SubmitShed, workerVars
    <3>2. \A v \in Holders : v \in Holders'
      BY <2>3 DEF Submit, SubmitQueued, SubmitRefused, SubmitShed, workerVars, WakeOne,
                  Holders, InState, Holding, TypeOK
    <3> QED BY <2>1, <3>1, <3>2
  <2>4. ASSUME NEW c \in Calls, Reply(c) PROVE RegistrySound'
    BY <2>1, <2>4 DEF Reply, RedisAccepts, RedisFails, KafkaAccepts, KafkaFails, workerVars,
                      Holders, InState
  <2>5. ASSUME NEW w \in Workers, TaskStep(w) PROVE RegistrySound'
    <3>1. UNCHANGED <<wjob, inflight>>
      BY <2>5 DEF TaskStep, TaskEnds, TaskStops
    <3>2. \A v \in Holders : v \in Holders'
      BY <2>5 DEF TaskStep, TaskEnds, TaskStops, Holders, InState, Holding, TypeOK
    <3> QED BY <2>1, <3>1, <3>2
  <2>6. ASSUME NEW e \in Events, Cancel(e) PROVE RegistrySound'
    <3>1. UNCHANGED <<wjob, inflight>> /\ inflight[e] \in Workers
      BY <2>6 DEF Cancel, TypeOK
    <3>2. \A v \in Holders : v \in Holders'
      BY <2>6, <3>1 DEF Cancel, Holders, InState, Holding, TypeOK
    <3> QED BY <2>1, <3>1, <3>2
  <2>7. ASSUME NEW w \in Workers, FirstTurn(w) \/ Woken(w) PROVE RegistrySound'
    <3>1. wpc[w] \notin Holding
      BY <2>7 DEF FirstTurn, Woken, Holding
    <3>2. w \notin Holders
      BY <3>1 DEF Holders, InState
    <3>3. Turn(w, inflight, busy) \/ TakeQueue(w, inflight, busy) \/ Block(w, inflight, busy)
      BY <2>7 DEF FirstTurn, Woken
    <3> QED BY <2>0, <3>2, <3>3, TurnRegistry DEF RegistrySound
  <2>8. ASSUME NEW w \in Workers, NextTurn(w) PROVE RegistrySound'
    <3>1. wpc[w] \in Holding /\ Turn(w, Unregistered(w), LessBusy)
      BY <2>8 DEF NextTurn, Holding
    <3>2. /\ Unregistered(w) \in Registry
          /\ \A e \in Events : Unregistered(w)[e] # NoWorker =>
                /\ Unregistered(w)[e] = inflight[e]
                /\ Unregistered(w)[e] # w
      BY <3>1, UnregisteredSound
    <3> QED BY <3>1, <3>2, TurnRegistry DEF RegistrySound
  <2>9. ASSUME NEW w \in Workers, WorkerDies(w) PROVE RegistrySound'
    <3>1. wpc[w] \in Holding /\ inflight' = Unregistered(w)
      BY <2>9 DEF WorkerDies, Holding
    <3>2. \A e \in Events : Unregistered(w)[e] # NoWorker =>
             /\ Unregistered(w)[e] = inflight[e]
             /\ Unregistered(w)[e] # w
      BY <3>1, UnregisteredSound
    <3>3. \A v \in Workers : v # w => wpc'[v] = wpc[v] /\ wjob'[v] = wjob[v]
      BY <2>9 DEF WorkerDies, TypeOK
    <3> QED BY <3>1, <3>2, <3>3 DEF RegistrySound, Holders, InState
  <2> QED BY <2>2, <2>3, <2>4, <2>5, <2>6, <2>7, <2>8, <2>9 DEF Next, WorkerStep
<1> QED BY <1>1, <1>2, TypeCorrect, JobsInvariant, PTL DEF Spec
\* With one call per event, every running audit is reachable by cancel().
THEOREM RegistryIsComplete ==
    ASSUME \A c, d \in Calls : EventOf[c] = EventOf[d] => c = d
    PROVE  Spec => []RegistryComplete
<1>1. Init => RegistryComplete
  BY DEF Init, RegistryComplete, Holders, InState, Holding
<1>2. TypeOK /\ JobsInv /\ JobsInv' /\ RegistryComplete /\ [Next]_vars => RegistryComplete'
  <2> SUFFICES ASSUME TypeOK, JobsInv, JobsInv', RegistryComplete, [Next]_vars PROVE RegistryComplete'
    OBVIOUS
  <2>0. \A v \in Workers : wpc[v] \in Holding => wjob[v] \in Calls /\ EventOf[wjob[v]] \in Events
    BY UnregisteredType
  <2>1. ASSUME UNCHANGED <<wjob, inflight>>, Holders' \subseteq Holders
        PROVE  RegistryComplete'
    BY <2>1 DEF RegistryComplete
  <2>2. CASE UNCHANGED vars
    BY <2>1, <2>2 DEF vars, Holders, InState
  <2>3. ASSUME NEW c \in Calls, Submit(c) PROVE RegistryComplete'
    <3>1. UNCHANGED <<wjob, inflight>>
      BY <2>3 DEF Submit, SubmitQueued, SubmitRefused, SubmitShed, workerVars
    <3>2. Holders' \subseteq Holders
      BY <2>3 DEF Submit, SubmitQueued, SubmitRefused, SubmitShed, workerVars, WakeOne,
                  Holders, InState, Holding, TypeOK
    <3> QED BY <2>1, <3>1, <3>2
  <2>4. ASSUME NEW c \in Calls, Reply(c) PROVE RegistryComplete'
    BY <2>1, <2>4 DEF Reply, RedisAccepts, RedisFails, KafkaAccepts, KafkaFails, workerVars,
                      Holders, InState
  <2>5. ASSUME NEW w \in Workers, TaskStep(w) PROVE RegistryComplete'
    <3>1. UNCHANGED <<wjob, inflight>>
      BY <2>5 DEF TaskStep, TaskEnds, TaskStops
    <3>2. Holders' \subseteq Holders
      BY <2>5 DEF TaskStep, TaskEnds, TaskStops, Holders, InState, Holding, TypeOK
    <3> QED BY <2>1, <3>1, <3>2
  <2>6. ASSUME NEW e \in Events, Cancel(e) PROVE RegistryComplete'
    <3>1. UNCHANGED <<wjob, inflight>>
      BY <2>6 DEF Cancel
    <3>2. PICK x \in Workers : x = inflight[e]
      BY <2>6 DEF Cancel, TypeOK
    <3>3. wpc[x] = "running" /\ wpc' = [wpc EXCEPT ![x] = "stopping"]
      BY <2>6, <3>2 DEF Cancel
    <3>4. Holders' \subseteq Holders
      BY <3>3 DEF Holders, InState, Holding, TypeOK
    <3> QED BY <2>1, <3>1, <3>4
  <2>7. ASSUME NEW w \in Workers, NEW c \in Calls, NEW reg \in Registry, NEW n,
               \A v \in Holders : v # w => reg[EventOf[wjob[v]]] = v,
               StartJob(w, c, reg, n)
        PROVE  RegistryComplete'
    <3>1. /\ \A v \in Workers : v # w => wpc'[v] = wpc[v] /\ wjob'[v] = wjob[v]
          /\ wpc'[w] = "running" /\ wjob'[w] = c
      BY <2>7 DEF StartJob, TypeOK
    <3>2. w \in Holders' /\ \A v \in Holders' : v = w \/ v \in Holders
      BY <3>1 DEF Holders, InState, Holding
    <3>3. \A v \in Holders' : v # w => wjob'[v] # c
      BY <3>1, <3>2 DEF JobsInv
    <3>4. \A e \in Events : inflight'[e] = IF e = EventOf[c] THEN w ELSE reg[e]
      BY <2>7 DEF StartJob, Registry
    <3>5. \A v \in Holders' : v # w => inflight'[EventOf[wjob'[v]]] = v
      <4> SUFFICES ASSUME NEW v \in Holders', v # w PROVE inflight'[EventOf[wjob'[v]]] = v
        OBVIOUS
      <4>1. v \in Holders /\ v \in Workers /\ wpc[v] \in Holding
        BY <3>2 DEF Holders, InState
      <4>2. wjob'[v] = wjob[v] /\ wjob[v] \in Calls /\ EventOf[wjob[v]] \in Events
        BY <3>1, <4>1, <2>0
      <4>3. EventOf[wjob[v]] # EventOf[c]
        BY <3>3, <4>2
      <4> QED BY <2>7, <3>4, <4>1, <4>2, <4>3
    <3> QED BY <3>1, <3>4, <3>5 DEF RegistryComplete
  <2>8. ASSUME NEW w \in Workers, NEW reg \in Registry, NEW n,
               \A v \in Holders : v # w => reg[EventOf[wjob[v]]] = v,
               Turn(w, reg, n) \/ TakeQueue(w, reg, n) \/ Block(w, reg, n)
        PROVE  RegistryComplete'
    <3>1. overflow # <<>> => Head(overflow) \in Calls
      BY TailOfDeque DEF TypeOK
    <3>2. \A e \in queue : e.job \in Calls
      BY DEF TypeOK
    <3>3. CASE /\ wpc' = [wpc EXCEPT ![w] = "waiting"]
               /\ wjob' = [wjob EXCEPT ![w] = NoCall]
               /\ inflight' = reg
      <4>1. \A v \in Workers : v # w => wpc'[v] = wpc[v] /\ wjob'[v] = wjob[v]
        BY <3>3 DEF TypeOK
      <4>2. \A v \in Holders' : v # w /\ v \in Holders
        BY <3>3, <4>1 DEF Holders, InState, Holding, TypeOK
      <4> QED BY <2>8, <3>3, <4>1, <4>2 DEF RegistryComplete, Holders, InState
    <3> QED BY <2>7, <2>8, <3>1, <3>2, <3>3, TurnShape
  <2>9. ASSUME NEW w \in Workers, FirstTurn(w) \/ Woken(w) PROVE RegistryComplete'
    <3>1. Turn(w, inflight, busy) \/ TakeQueue(w, inflight, busy) \/ Block(w, inflight, busy)
      BY <2>9 DEF FirstTurn, Woken
    <3>2. inflight \in Registry
      BY DEF TypeOK, Registry
    <3> QED BY <2>8, <3>1, <3>2 DEF RegistryComplete
  <2>10. ASSUME NEW w \in Workers, wpc[w] \in Holding
         PROVE  \A v \in Holders : v # w => Unregistered(w)[EventOf[wjob[v]]] = v
    <3> SUFFICES ASSUME NEW v \in Holders, v # w PROVE Unregistered(w)[EventOf[wjob[v]]] = v
      OBVIOUS
    <3>1. /\ v \in Workers /\ wjob[v] \in Calls /\ EventOf[wjob[v]] \in Events
          /\ w \in Holders /\ wjob[w] \in Calls /\ EventOf[wjob[w]] \in Events
      BY <2>0, <2>10 DEF Holders, InState
    <3>2. EventOf[wjob[v]] # EventOf[wjob[w]]
      BY <3>1 DEF JobsInv
    <3>3. inflight[EventOf[wjob[v]]] = v
      BY DEF RegistryComplete
    <3> QED BY <3>1, <3>2, <3>3 DEF Unregistered, TypeOK
  <2>11. ASSUME NEW w \in Workers, NextTurn(w) PROVE RegistryComplete'
    <3>1. wpc[w] \in Holding /\ Turn(w, Unregistered(w), LessBusy)
      BY <2>11 DEF NextTurn, Holding
    <3>2. Unregistered(w) \in Registry
      BY <3>1, UnregisteredType
    <3> QED BY <2>8, <2>10, <3>1, <3>2
  <2>12. ASSUME NEW w \in Workers, WorkerDies(w) PROVE RegistryComplete'
    <3>1. wpc[w] \in Holding /\ inflight' = Unregistered(w)
      BY <2>12 DEF WorkerDies, Holding
    <3>2. \A v \in Workers : v # w => wpc'[v] = wpc[v] /\ wjob'[v] = wjob[v]
      BY <2>12 DEF WorkerDies, TypeOK
    <3>3. \A v \in Holders' : v # w /\ v \in Holders
      BY <2>12, <3>2 DEF WorkerDies, Holders, InState, Holding, TypeOK
    <3> QED BY <2>10, <3>1, <3>2, <3>3 DEF RegistryComplete, Holders, InState
  <2> QED BY <2>2, <2>3, <2>4, <2>5, <2>6, <2>9, <2>11, <2>12 DEF Next, WorkerStep
<1> QED BY <1>1, <1>2, TypeCorrect, JobsInvariant, PTL DEF Spec-----------------------------------------------------------------------------
(* Counting *)

LEMMA FiniteStates ==
    ASSUME NEW s PROVE IsFiniteSet(InState(s)) /\ Cardinality(InState(s)) \in Nat
BY FS_Subset, FS_CardinalityType DEF InState

\* What a turn does to the sets of workers that the invariants count.
LEMMA TurnCounts ==
    ASSUME TypeOK, NEW w \in Workers, NEW reg, NEW n, wpc[w] \notin {"waiting", "dead", "stopping", "cancelled"},
           Turn(w, reg, n) \/ TakeQueue(w, reg, n) \/ Block(w, reg, n)
    PROVE  /\ InState({"dead", "stopping", "cancelled"})' = InState({"dead", "stopping", "cancelled"})
           /\ InState({"woken"})' = InState({"woken"}) \ {w}
           /\ \/ Holders' = Holders \cup {w} /\ busy' = n + 1
                 /\ InState({"waiting"})' = InState({"waiting"})
              \/ Holders' = Holders \ {w} /\ busy' = n
                 /\ InState({"waiting"})' = InState({"waiting"}) \cup {w}
<1>1. ASSUME wpc' = [wpc EXCEPT ![w] = "running"]
      PROVE  /\ InState({"dead", "stopping", "cancelled"})' = InState({"dead", "stopping", "cancelled"})
             /\ InState({"woken"})' = InState({"woken"}) \ {w}
             /\ Holders' = Holders \cup {w}
             /\ InState({"waiting"})' = InState({"waiting"})
  BY <1>1 DEF Holders, InState, Holding, TypeOK
<1>2. ASSUME wpc' = [wpc EXCEPT ![w] = "waiting"]
      PROVE  /\ InState({"dead", "stopping", "cancelled"})' = InState({"dead", "stopping", "cancelled"})
             /\ InState({"woken"})' = InState({"woken"}) \ {w}
             /\ Holders' = Holders \ {w}
             /\ InState({"waiting"})' = InState({"waiting"}) \cup {w}
  BY <1>2 DEF Holders, InState, Holding, TypeOK
<1>3. \/ \E c : StartJob(w, c, reg, n)
      \/ wpc' = [wpc EXCEPT ![w] = "waiting"] /\ busy' = n
  BY TurnShape
<1> QED BY <1>1, <1>2, <1>3 DEF StartJob

\* What the steps that take no job do to them.
LEMMA OtherCounts ==
    ASSUME TypeOK,
           \/ \E c \in Calls : SubmitRefused(c) \/ SubmitShed(c) \/ Reply(c)
           \/ \E w \in Workers : TaskStep(w)
           \/ UNCHANGED vars
    PROVE  /\ InState({"dead", "stopping", "cancelled"})' = InState({"dead", "stopping", "cancelled"})
           /\ InState({"woken"})' = InState({"woken"})
           /\ InState({"waiting"})' = InState({"waiting"})
           /\ Holders' = Holders /\ busy' = busy /\ queue' = queue /\ cancels' = cancels
<1>1. CASE \/ \E c \in Calls : SubmitRefused(c) \/ SubmitShed(c) \/ Reply(c)
           \/ UNCHANGED vars
  BY <1>1 DEF SubmitRefused, SubmitShed, Reply, RedisAccepts, RedisFails, KafkaAccepts,
              KafkaFails, workerVars, InState, Holders, vars
<1>2. ASSUME NEW w \in Workers, TaskEnds(w)
      PROVE  /\ InState({"dead", "stopping", "cancelled"})' = InState({"dead", "stopping", "cancelled"})
             /\ InState({"woken"})' = InState({"woken"})
             /\ InState({"waiting"})' = InState({"waiting"})
             /\ Holders' = Holders /\ busy' = busy /\ queue' = queue /\ cancels' = cancels
  BY <1>2 DEF TaskEnds, InState, Holders, Holding, TypeOK
<1>3. ASSUME NEW w \in Workers, TaskStops(w)
      PROVE  /\ InState({"dead", "stopping", "cancelled"})' = InState({"dead", "stopping", "cancelled"})
             /\ InState({"woken"})' = InState({"woken"})
             /\ InState({"waiting"})' = InState({"waiting"})
             /\ Holders' = Holders /\ busy' = busy /\ queue' = queue /\ cancels' = cancels
  BY <1>3 DEF TaskStops, InState, Holders, Holding, TypeOK
<1> QED BY <1>1, <1>2, <1>3 DEF TaskStep

LEMMA CancelCounts ==
    ASSUME TypeOK, NEW e \in Events, Cancel(e)
    PROVE  /\ \E x \in Workers : InState({"dead", "stopping", "cancelled"})'
                                   = InState({"dead", "stopping", "cancelled"}) \cup {x}
           /\ InState({"woken"})' = InState({"woken"})
           /\ InState({"waiting"})' = InState({"waiting"})
           /\ Holders' = Holders /\ busy' = busy /\ queue' = queue /\ cancels' = cancels + 1
<1>1. PICK x \in Workers : x = inflight[e]
  BY DEF Cancel, TypeOK
<1>2. wpc[x] = "running" /\ wpc' = [wpc EXCEPT ![x] = "stopping"]
  BY <1>1 DEF Cancel
<1> QED BY <1>2 DEF Cancel, InState, Holders, Holding, TypeOK

LEMMA DeathCounts ==
    ASSUME TypeOK, NEW w \in Workers, WorkerDies(w)
    PROVE  /\ InState({"dead", "stopping", "cancelled"})' = InState({"dead", "stopping", "cancelled"})
           /\ InState({"woken"})' = InState({"woken"})
           /\ InState({"waiting"})' = InState({"waiting"})
           /\ w \in Holders /\ Holders' = Holders \ {w}
           /\ busy' = LessBusy /\ queue' = queue /\ cancels' = cancels
BY DEF WorkerDies, InState, Holders, Holding, TypeOK

\* The entry put on the heap is new: its sequence number is.
LEMMA PutCounts ==
    ASSUME TypeOK, IsFiniteSet(queue), NEW c \in Calls, SubmitQueued(c)
    PROVE  /\ IsFiniteSet(queue') /\ Cardinality(queue') = Cardinality(queue) + 1
           /\ Cardinality(queue) \in Nat /\ Cardinality(queue) < QueueMax
           /\ InState({"dead", "stopping", "cancelled"})' = InState({"dead", "stopping", "cancelled"})
           /\ Holders' = Holders /\ busy' = busy /\ cancels' = cancels
           /\ InState({"waiting"}) # {} =>
                 Cardinality(InState({"woken"})') = Cardinality(InState({"woken"})) + 1
           /\ InState({"waiting"}) = {} => InState({"waiting"})' = {}
<1>1. Entry(seq + 1, c) \notin queue /\ queue' = queue \cup {Entry(seq + 1, c)}
  BY DEF SubmitQueued, Entry, TypeOK
<1>2. Cardinality(queue) \in Nat /\ Cardinality(queue) < QueueMax
  BY FS_CardinalityType DEF SubmitQueued, Full
<1>3. CASE InState({"waiting"}) = {}
  BY <1>1, <1>2, <1>3, FS_AddElement DEF SubmitQueued, WakeOne, InState, Holders
<1>4. CASE InState({"waiting"}) # {}
  <2>1. PICK v \in InState({"waiting"}) : wpc' = [wpc EXCEPT ![v] = "woken"]
    BY <1>4 DEF SubmitQueued, WakeOne
  <2>2. /\ InState({"dead", "stopping", "cancelled"})' = InState({"dead", "stopping", "cancelled"})
        /\ Holders' = Holders
        /\ InState({"woken"})' = InState({"woken"}) \cup {v} /\ v \notin InState({"woken"})
    BY <2>1 DEF InState, Holders, Holding, TypeOK
  <2>3. Cardinality(InState({"woken"})') = Cardinality(InState({"woken"})) + 1
    BY <2>2, FiniteStates, FS_AddElement
  <2> QED BY <1>1, <1>2, <1>4, <2>2, <2>3, FS_AddElement DEF SubmitQueued
<1> QED BY <1>3, <1>4

\* The counters and bounds of the pool, inductive together.
CountInv ==
    /\ IsFiniteSet(queue)
    /\ QueueBounded /\ BusyCounts /\ NoLostWakeup /\ DeadByCancel

LEMMA TurnKeepsCounts ==
    ASSUME TypeOK, CountInv, NEW w \in Workers,
           wpc[w] \in {"ready", "woken", "ended"},
           NEW reg, NEW n \in Nat, n = Cardinality(Holders \ {w}),
           (Turn(w, reg, n) /\ wpc[w] # "woken")
             \/ (wpc[w] = "woken" /\ queue # {} /\ TakeQueue(w, reg, n))
             \/ (queue = {} /\ Block(w, reg, n)),
           cancels' = cancels
    PROVE  CountInv'
<1>1. /\ InState({"dead", "stopping", "cancelled"})' = InState({"dead", "stopping", "cancelled"})
      /\ InState({"woken"})' = InState({"woken"}) \ {w}
      /\ \/ Holders' = Holders \cup {w} /\ busy' = n + 1
            /\ InState({"waiting"})' = InState({"waiting"})
         \/ Holders' = Holders \ {w} /\ busy' = n
            /\ InState({"waiting"})' = InState({"waiting"}) \cup {w}
  BY TurnCounts
<1>2. /\ IsFiniteSet(Holders) /\ Cardinality(Holders) \in Nat
      /\ IsFiniteSet(InState({"woken"})) /\ Cardinality(InState({"woken"})) \in Nat
      /\ Cardinality(queue) \in Nat
  BY FiniteStates, FS_CardinalityType DEF Holders, CountInv
<1>3. BusyCounts'
  <2>1. Holders \cup {w} = (Holders \ {w}) \cup {w}
    OBVIOUS
  <2>2. IsFiniteSet(Holders \ {w}) /\ Cardinality((Holders \ {w}) \cup {w}) = n + 1
    BY <1>2, FS_RemoveElement, FS_AddElement
  <2> QED BY <1>1, <2>1, <2>2 DEF BusyCounts
<1>4. DeadByCancel'
  BY <1>1 DEF CountInv, DeadByCancel
<1>5. IsFiniteSet(queue') /\ Cardinality(queue') <= Cardinality(queue) /\ Cardinality(queue') \in Nat
  <2>1. queue' \in SUBSET queue
    BY TurnShape
  <2> QED BY <2>1, FS_Subset, FS_CardinalityType DEF CountInv
<1>6. QueueBounded'
  BY <1>2, <1>5 DEF CountInv, QueueBounded
<1>7. NoLostWakeup'
  <2>1. CASE wpc[w] # "woken" /\ Holders' = Holders \cup {w}
    <3>1. InState({"woken"})' = InState({"woken"})
      BY <1>1, <2>1 DEF InState
    <3>2. InState({"waiting"})' = InState({"waiting"})
      <4>1. wpc' # [wpc EXCEPT ![w] = "waiting"]
        BY <2>1 DEF Holders, InState, Holding, TypeOK
      <4> QED BY <1>1, <2>1 DEF Holders, InState, Holding, TypeOK
    <3> QED BY <1>2, <1>5, <3>1, <3>2 DEF CountInv, NoLostWakeup
  <2>2. CASE wpc[w] = "woken" /\ queue # {} /\ TakeQueue(w, reg, n)
    <3>1. PICK e \in queue : queue' = queue \ {e} /\ StartJob(w, e.job, reg, n)
      BY <2>2 DEF TakeQueue
    <3>2. InState({"waiting"})' = InState({"waiting"})
      BY <2>2, <3>1 DEF StartJob, InState, TypeOK
    <3>3. Cardinality(queue') = Cardinality(queue) - 1
      BY <3>1, FS_RemoveElement DEF CountInv
    <3>4. Cardinality(InState({"woken"})') = Cardinality(InState({"woken"})) - 1
      <4>1. w \in InState({"woken"})
        BY <2>2 DEF InState
      <4> QED BY <1>1, <1>2, <4>1, FS_RemoveElement
    <3> QED BY <1>2, <3>2, <3>3, <3>4 DEF CountInv, NoLostWakeup
  <2>3. CASE queue = {}
    <3>1. queue' = {}
      BY <2>3, TurnShape
    <3>2. Cardinality(InState({"woken"})') \in Nat
      BY <1>1, <1>2, FS_RemoveElement, FS_CardinalityType
    <3> QED BY <3>1, <3>2, FS_EmptySet DEF NoLostWakeup
  <2>4. CASE wpc[w] # "woken" /\ queue # {} /\ Turn(w, reg, n)
    <3>1. \E c : StartJob(w, c, reg, n)
      BY <2>4 DEF Turn, TakeDeque, TakeQueue
    <3>2. Holders' = Holders \cup {w}
      BY <3>1 DEF StartJob, Holders, InState, Holding, TypeOK
    <3> QED BY <2>1, <2>4, <3>2
  <2> QED BY <2>2, <2>3, <2>4
<1> QED BY <1>3, <1>4, <1>5, <1>6, <1>7 DEF CountInv

LEMMA CountInvariant == Spec => []CountInv
<1>1. Init => CountInv
  <2> SUFFICES ASSUME Init PROVE CountInv
    OBVIOUS
  <2>1. Holders = {} /\ InState({"waiting"}) = {} /\ InState({"dead", "stopping", "cancelled"}) = {}
    BY DEF Init, Holders, InState, Holding
  <2>2. queue = {} /\ busy = 0 /\ cancels = 0
    BY DEF Init
  <2>3. BusyCounts /\ DeadByCancel
    BY <2>1, <2>2, FS_EmptySet DEF BusyCounts, DeadByCancel
  <2>4. IsFiniteSet(queue) /\ QueueBounded /\ NoLostWakeup
    BY <2>1, <2>2, FS_EmptySet DEF QueueBounded, NoLostWakeup
  <2> QED BY <2>3, <2>4 DEF CountInv
<1>2. TypeOK /\ CountInv /\ [Next]_vars => CountInv'
  <2> SUFFICES ASSUME TypeOK, CountInv, [Next]_vars PROVE CountInv'
    OBVIOUS
  <2>0. /\ IsFiniteSet(Holders) /\ Cardinality(Holders) \in Nat
        /\ Cardinality(InState({"woken"})) \in Nat /\ Cardinality(queue) \in Nat
        /\ busy = Cardinality(Holders) /\ busy \in Nat
    BY FiniteStates, FS_CardinalityType DEF Holders, CountInv, BusyCounts, TypeOK
  <2>1. CASE \/ \E c \in Calls : SubmitRefused(c) \/ SubmitShed(c) \/ Reply(c)
             \/ \E w \in Workers : TaskStep(w)
             \/ UNCHANGED vars
    BY <2>1, OtherCounts DEF CountInv, QueueBounded, BusyCounts, NoLostWakeup, DeadByCancel
  <2>2. ASSUME NEW c \in Calls, SubmitQueued(c) PROVE CountInv'
    BY <2>0, <2>2, PutCounts DEF CountInv, QueueBounded, BusyCounts, NoLostWakeup, DeadByCancel
  <2>3. ASSUME NEW e \in Events, Cancel(e) PROVE CountInv'
    <3>1. PICK x \in Workers : InState({"dead", "stopping", "cancelled"})'
                                 = InState({"dead", "stopping", "cancelled"}) \cup {x}
      BY <2>3, CancelCounts
    <3>2. Cardinality(InState({"dead", "stopping", "cancelled"})') <= cancels + 1
      <4> DEFINE gone == InState({"dead", "stopping", "cancelled"})
      <4>1. IsFiniteSet(gone) /\ Cardinality(gone) \in Nat
        BY FiniteStates
      <4>2. Cardinality(gone) <= cancels /\ cancels \in Nat
        BY DEF CountInv, DeadByCancel, TypeOK
      <4> HIDE DEF gone
      <4>3. Cardinality(gone \cup {x}) = Cardinality(gone) \/ Cardinality(gone \cup {x}) = Cardinality(gone) + 1
        BY <4>1, FS_AddElement, Zenon
      <4>4. Cardinality(gone \cup {x}) \in Nat
        BY <4>1, FS_AddElement, FS_CardinalityType
      <4>5. Cardinality(gone \cup {x}) <= cancels + 1
        BY <4>1, <4>2, <4>3, <4>4
      <4> QED BY <3>1, <4>5 DEF gone
    <3> QED BY <2>3, <3>2, CancelCounts DEF CountInv, QueueBounded, BusyCounts, NoLostWakeup, DeadByCancel
  <2>4. ASSUME NEW w \in Workers, WorkerDies(w) PROVE CountInv'
    <3>1. Cardinality(Holders') = Cardinality(Holders) - 1 /\ Cardinality(Holders) > 0
      BY <2>0, <2>4, DeathCounts, OneLess
    <3> QED BY <2>0, <2>4, <3>1, DeathCounts DEF CountInv, QueueBounded, BusyCounts, NoLostWakeup, DeadByCancel, LessBusy
  <2>5. ASSUME NEW w \in Workers, FirstTurn(w) \/ Woken(w) PROVE CountInv'
    <3>1. Holders \ {w} = Holders
      BY <2>5 DEF FirstTurn, Woken, Holders, InState, Holding
    <3> QED BY <2>0, <2>5, <3>1, TurnKeepsCounts DEF FirstTurn, Woken
  <2>6. ASSUME NEW w \in Workers, NextTurn(w) PROVE CountInv'
    <3>1. w \in Holders
      BY <2>6 DEF NextTurn, Holders, InState, Holding
    <3>2. Cardinality(Holders \ {w}) = busy - 1 /\ busy > 0
      <4>1. Cardinality(Holders \ {w}) = Cardinality(Holders) - 1 /\ Cardinality(Holders) > 0
        BY <2>0, <3>1, OneLess
      <4> QED BY <4>1 DEF CountInv, BusyCounts
    <3>3. LessBusy \in Nat /\ LessBusy = Cardinality(Holders \ {w})
      BY <2>0, <3>2 DEF LessBusy
    <3> QED BY <2>6, <3>3, TurnKeepsCounts DEF NextTurn
  <2> QED BY <2>1, <2>2, <2>3, <2>4, <2>5, <2>6 DEF Next, Submit, WorkerStep
<1> QED BY <1>1, <1>2, TypeCorrect, PTL DEF Spec

\* The heap keeps its bound although submit() tests it and puts without a lock.
THEOREM HeapIsBounded == Spec => []QueueBounded
BY CountInvariant, PTL DEF CountInv

\* busy counts the jobs in the workers' hands: its max(0, ...) is never needed.
THEOREM BusyIsExact == Spec => []BusyCounts
BY CountInvariant, PTL DEF CountInv

\* No wake-up of the memory queue is lost.
THEOREM WakeupsSuffice == Spec => []NoLostWakeup
BY CountInvariant, PTL DEF CountInv

\* Workers are lost to cancel() only, one for each call at most.
THEOREM LossesAreCancels == Spec => []DeadByCancel
BY CountInvariant, PTL DEF CountInv

\* The stores, the registry and the workers' hands agree (submit(), _worker() and
\* cancel()).
THEOREM PoolIsSound == Spec => []PoolSound
BY TypeCorrect, OneCopyOnly, RegistryIsSound, PTL DEF PoolSound

\* The counts and wake-ups of the loop are exact, and with distinct events every running
\* audit can be cancelled.
THEOREM WorkersAreSound ==
    ASSUME \A c, d \in Calls : EventOf[c] = EventOf[d] => c = d
    PROVE  Spec => []WorkersSound
<1>1. Spec => []RegistryComplete
  BY RegistryIsComplete
<1> QED
  BY <1>1, HeapIsBounded, BusyIsExact, WakeupsSuffice, LossesAreCancels, PTL DEF WorkersSound

-----------------------------------------------------------------------------
(* P0/P1 are never dropped *)

\* The calls that reached the memory queue, and those that came upon a full one.
Enqueued == {c \in Calls : spc[c] = "queued"}
Diverted == {c \in Calls : spc[c] \in {"redis", "kafka", "shed", "deferred"}}

\* The deque has room for the P0/P1 calls, or for all that the memory queue leaves.
DequeSuffices ==
    \/ Cardinality(NeverDrop) <= OverflowMax
    \/ Cardinality(Calls) <= QueueMax + OverflowMax

\* Nothing is diverted before the memory queue has taken all that it can hold.
DropInv ==
    /\ NeverDropKept
    /\ \A c \in Calls : fate[c] # "evicted"
    /\ Diverted # {} => Cardinality(Enqueued) >= QueueMax

\* A full memory queue holds the jobs of as many calls.
LEMMA FullQueue ==
    ASSUME TypeOK, JobsInv, Full
    PROVE  Cardinality(Enqueued) >= QueueMax
<1> DEFINE f == [e \in queue |-> e.job]
<1>1. f \in Injection(queue, Enqueued)
  BY DEF JobsInv, TypeOK, Enqueued, Injection, IsInjective
<1>2. IsFiniteSet(Enqueued)
  BY FS_Subset DEF Enqueued
<1>3. IsFiniteSet(queue) /\ Cardinality(queue) <= Cardinality(Enqueued)
  BY <1>1, <1>2, FS_Injection
<1>4. Cardinality(queue) \in Nat /\ Cardinality(Enqueued) \in Nat /\ QueueMax \in Nat
  BY <1>2, <1>3, FS_CardinalityType
<1> QED BY <1>3, <1>4 DEF Full

\* One more job fits in the deque.
LEMMA DequeFits ==
    ASSUME TypeOK, JobsInv, DequeSuffices, NEW c \in NeverDrop, spc[c] \in {"new", "redis", "kafka"},
           Cardinality(Enqueued) >= QueueMax
    PROVE  Len(overflow) \in Nat /\ Len(overflow) + 1 <= OverflowMax
<1>1. overflow \in Seq(Calls) /\ Len(overflow) \in Nat /\ DOMAIN overflow = 1..Len(overflow)
  BY DEF TypeOK
<1>2. IsFiniteSet(InDeque) /\ Cardinality(InDeque) = Len(overflow)
  <2>1. overflow \in Bijection(1..Len(overflow), InDeque)
    BY <1>1 DEF JobsInv, InDeque, Bijection, Injection, Surjection, IsInjective
  <2>2. ExistsBijection(1..Len(overflow), InDeque)
    BY <2>1 DEF ExistsBijection
  <2> QED BY <1>1, <2>2, FS_CountingElements, FS_NatBijection
<1>3. c \in Calls /\ c \notin InDeque /\ c \notin Enqueued
  BY Unplaced DEF InDeque, Enqueued
<1>4. InDeque \subseteq NeverDrop /\ InDeque \cap Enqueued = {} /\ InDeque \subseteq Calls
  BY <1>1 DEF JobsInv, InDeque, Enqueued, TypeOK
<1> DEFINE D == InDeque \cup {c}
<1>5. IsFiniteSet(D) /\ Cardinality(D) = Len(overflow) + 1
  BY <1>2, <1>3, FS_AddElement
<1>6. CASE Cardinality(NeverDrop) <= OverflowMax
  <2>1. IsFiniteSet(NeverDrop)
    BY FS_Subset
  <2>2. D \subseteq NeverDrop
    BY <1>4
  <2>3. Cardinality(D) <= Cardinality(NeverDrop) /\ Cardinality(NeverDrop) \in Nat /\ Cardinality(D) \in Nat
    BY <1>5, <2>1, <2>2, FS_Subset, FS_CardinalityType
  <2>4. OverflowMax \in Nat
    OBVIOUS
  <2> QED BY <1>1, <1>5, <1>6, <2>3, <2>4
<1>7. CASE Cardinality(Calls) <= QueueMax + OverflowMax
  <2>1. IsFiniteSet(Enqueued) /\ Enqueued \subseteq Calls
    BY FS_Subset DEF Enqueued
  <2>2. D \cap Enqueued = {} /\ D \cup Enqueued \subseteq Calls
    BY <1>3, <1>4, <2>1
  <2>3. IsFiniteSet(D \cup Enqueued)
        /\ Cardinality(D \cup Enqueued) = Cardinality(D) + Cardinality(Enqueued) - Cardinality({})
    BY <1>5, <2>1, <2>2, FS_Union
  <2>4. Cardinality(D \cup Enqueued) <= Cardinality(Calls)
    BY <2>2, FS_Subset
  <2>5. Cardinality({}) = 0 /\ Cardinality(D) \in Nat /\ Cardinality(Enqueued) \in Nat /\ Cardinality(Calls) \in Nat
    BY <1>5, <2>1, FS_EmptySet, FS_CardinalityType
  <2>6. QueueMax \in Nat /\ OverflowMax \in Nat
    OBVIOUS
  <2> HIDE DEF D
  <2> QED BY <1>1, <1>5, <1>7, <2>3, <2>4, <2>5, <2>6
<1> QED BY <1>1, <1>6, <1>7 DEF DequeSuffices

\* Putting a job on the deque gives up none.
LEMMA PutDequeKeeps ==
    ASSUME TypeOK, JobsInv, DequeSuffices, NEW c \in NeverDrop, spc[c] \in {"new", "redis", "kafka"},
           Cardinality(Enqueued) >= QueueMax, PutDeque(c)
    PROVE  fate' = fate /\ spc' = [spc EXCEPT ![c] = "deferred"]
<1>1. Len(Append(overflow, c)) = Len(overflow) + 1
  BY AppendToDeque DEF TypeOK
<1>2. ~(Len(Append(overflow, c)) > OverflowMax)
  <2>1. Len(overflow) \in Nat /\ Len(overflow) + 1 <= OverflowMax
    BY DequeFits
  <2> QED BY <1>1, <2>1
<1> QED BY <1>2 DEF PutDeque

LEMMA DropInvStep == TypeOK /\ JobsInv /\ DequeSuffices /\ DropInv /\ [Next]_vars => DropInv'
<1> SUFFICES ASSUME TypeOK, JobsInv, DequeSuffices, DropInv, [Next]_vars PROVE DropInv'
  OBVIOUS
<1>0. spc \in [Calls -> SubmitPc] /\ fate \in [Calls -> Fates]
  BY DEF TypeOK
<1>1. ASSUME NEW c \in NeverDrop, NEW x \in {"redis", "kafka", "shed", "deferred"},
             spc[c] \in {"new", "redis", "kafka"}, Cardinality(Enqueued) >= QueueMax,
             spc' = [spc EXCEPT ![c] = x], fate' = fate
      PROVE  DropInv'
  <2>1. Enqueued' = Enqueued
    BY <1>0, <1>1 DEF Enqueued
  <2>2. \A d \in Calls : spc'[d] = "overflow" => spc[d] = "overflow"
    BY <1>0, <1>1
  <2> QED BY <1>1, <2>1, <2>2 DEF DropInv, NeverDropKept
<1>2. ASSUME UNCHANGED spc, \A d \in Calls : fate'[d] = fate[d] \/ fate'[d] # "evicted" PROVE DropInv'
  <2>1. Enqueued' = Enqueued /\ Diverted' = Diverted
    BY <1>2 DEF Enqueued, Diverted
  <2> QED BY <1>2, <2>1 DEF DropInv, NeverDropKept
<1>3. ASSUME NEW c \in Calls, SubmitQueued(c) PROVE DropInv'
  <2>1. spc' = [spc EXCEPT ![c] = "queued"] /\ fate' = fate
    BY <1>3 DEF SubmitQueued
  <2>2. Enqueued \subseteq Enqueued' /\ Diverted' \subseteq Diverted /\ IsFiniteSet(Enqueued')
    <3>1. Enqueued \subseteq Enqueued' /\ Diverted' \subseteq Diverted /\ Enqueued' \subseteq Calls
      BY <1>0, <2>1 DEF Enqueued, Diverted
    <3> QED BY <3>1, FS_Subset
  <2>3. /\ Cardinality(Enqueued) <= Cardinality(Enqueued')
        /\ Cardinality(Enqueued) \in Nat /\ Cardinality(Enqueued') \in Nat /\ QueueMax \in Nat
    BY <2>2, FS_Subset, FS_CardinalityType
  <2>4. Diverted' # {} => Cardinality(Enqueued') >= QueueMax
    <3>1. Diverted' # {} => Cardinality(Enqueued) >= QueueMax
      BY <2>2 DEF DropInv
    <3> QED BY <2>3, <3>1
  <2>5. NeverDropKept'
    BY <1>0, <2>1 DEF DropInv, NeverDropKept
  <2> QED BY <2>1, <2>4, <2>5 DEF DropInv
<1>4. ASSUME NEW c \in Calls, SubmitRefused(c) PROVE DropInv'
  <2>1. spc' = [spc EXCEPT ![c] = "overflow"] /\ fate' = fate /\ c \notin NeverDrop /\ spc[c] = "new"
    BY <1>4 DEF SubmitRefused
  <2>2. Enqueued' = Enqueued /\ Diverted' = Diverted
    BY <1>0, <2>1 DEF Enqueued, Diverted
  <2>3. NeverDropKept'
    BY <1>0, <2>1 DEF DropInv, NeverDropKept
  <2> QED BY <2>1, <2>2, <2>3 DEF DropInv
<1>5. ASSUME NEW c \in NeverDrop, TryKafka(c), spc[c] \in {"new", "redis"}, Cardinality(Enqueued) >= QueueMax
      PROVE  DropInv'
  <2>1. CASE spc' = [spc EXCEPT ![c] = "kafka"] /\ UNCHANGED <<overflow, fate>>
    BY <1>1, <1>5, <2>1
  <2>2. CASE PutDeque(c)
    BY <1>1, <1>5, <2>2, PutDequeKeeps
  <2> QED BY <1>5, <2>1, <2>2 DEF TryKafka
<1>6. ASSUME NEW c \in Calls, SubmitShed(c) PROVE DropInv'
  <2>1. spc[c] = "new" /\ c \in NeverDrop /\ Cardinality(Enqueued) >= QueueMax
    BY <1>6, FullQueue DEF SubmitShed
  <2>2. CASE RedisOn
    BY <1>1, <1>6, <2>1, <2>2 DEF SubmitShed
  <2>3. CASE ~RedisOn
    BY <1>5, <1>6, <2>1, <2>3 DEF SubmitShed
  <2> QED BY <2>2, <2>3
<1>7. ASSUME NEW c \in Calls, Reply(c) PROVE DropInv'
  <2>1. spc[c] \in {"redis", "kafka"}
    BY <1>7 DEF Reply, RedisAccepts, RedisFails, KafkaAccepts, KafkaFails
  <2>2. c \in NeverDrop /\ Cardinality(Enqueued) >= QueueMax
    BY <2>1 DEF JobsInv, DropInv, Diverted
  <2>3. CASE RedisAccepts(c)
    BY <1>1, <2>1, <2>2, <2>3 DEF RedisAccepts
  <2>4. CASE RedisFails(c)
    BY <1>5, <2>2, <2>4 DEF RedisFails
  <2>5. CASE KafkaAccepts(c)
    BY <1>1, <2>1, <2>2, <2>5 DEF KafkaAccepts
  <2>6. CASE KafkaFails(c)
    BY <1>1, <2>1, <2>2, <2>6, PutDequeKeeps DEF KafkaFails
  <2> QED BY <1>7, <2>3, <2>4, <2>5, <2>6 DEF Reply
<1>8. ASSUME NEW w \in Workers, WorkerStep(w) PROVE DropInv'
  <2>1. UNCHANGED <<spc, fate>>
    BY <1>8 DEF WorkerStep, FirstTurn, Woken, NextTurn, WorkerDies, submitVars
  <2> QED BY <1>2, <2>1
<1>9. ASSUME NEW w \in Workers, TaskStep(w) PROVE DropInv'
  <2>1. PICK x \in {"served", "aborted"} : fate' = [fate EXCEPT ![wjob[w]] = x] /\ UNCHANGED spc
    BY <1>9 DEF TaskStep, TaskEnds, TaskStops, submitVars
  <2> QED BY <1>0, <1>2, <2>1
<1>10. ASSUME NEW e \in Events, Cancel(e) PROVE DropInv'
  BY <1>2, <1>10 DEF Cancel, submitVars
<1>11. CASE UNCHANGED vars
  BY <1>2, <1>11 DEF vars
<1> QED BY <1>3, <1>4, <1>6, <1>7, <1>8, <1>9, <1>10, <1>11 DEF Next, Submit

\* Calls that may not be dropped are neither refused nor evicted, however the brokers fail,
\* as long as the deque has room for them, or for all calls beyond the memory queue
\* (submit(), P0_OVERFLOW_MAX).
THEOREM NeverDropIsKept ==
    ASSUME DequeSuffices
    PROVE  Spec => []NeverDropKept
<1>1. Init => DropInv
  <2> SUFFICES ASSUME Init PROVE DropInv
    OBVIOUS
  <2>1. Diverted = {}
    BY DEF Init, Diverted
  <2> QED BY <2>1 DEF Init, DropInv, NeverDropKept
<1>2. TypeOK /\ JobsInv /\ DropInv /\ [Next]_vars => DropInv'
  BY DropInvStep
<1>3. DropInv => NeverDropKept
  BY DEF DropInv
<1> QED BY <1>1, <1>2, <1>3, TypeCorrect, JobsInvariant, PTL DEF Spec

-----------------------------------------------------------------------------
(* Fair turns *)

\* A worker that is at its loop remembers at least as many deque jobs as it took in a row;
\* one that has taken a heap job past the deque has forgotten them, and is not asleep.
TurnsInv ==
    /\ dequeRun \in [Workers -> 0..2] /\ queueRun \in [Workers -> 0..1]
    /\ \A w \in Workers :
        /\ wpc[w] \notin {"waiting", "woken"} => dequeRun[w] <= streak[w]
        /\ wpc[w] \in {"waiting", "woken"} => queueRun[w] = 0
        /\ queueRun[w] = 1 => streak[w] = 0

\* What one worker did in a step, or did not.
TurnKept(w) ==
    /\ dequeRun'[w] \in 0..2 /\ queueRun'[w] \in 0..1
    /\ wpc'[w] \notin {"waiting", "woken"} => dequeRun'[w] <= streak'[w]
    /\ wpc'[w] \in {"waiting", "woken"} => queueRun'[w] = 0
    /\ queueRun'[w] = 1 => streak'[w] = 0

\* Who holds the same job and was not put to sleep keeps its counts.
LEMMA OtherTurns ==
    ASSUME TypeOK, TurnsInv, TurnsNext, NEW w \in Workers, wjob'[w] = wjob[w], streak'[w] = streak[w],
           wpc'[w] \in {"waiting", "woken"} <=> wpc[w] \in {"waiting", "woken"}
    PROVE  TurnKept(w)
<1>1. ~Picks(w, InQueue) /\ ~Picks(w, InDeque)
  BY DEF Picks
<1>2. dequeRun'[w] = dequeRun[w]
  BY <1>1 DEF TurnsNext
<1>3. queueRun'[w] = IF wpc'[w] = "waiting" THEN 0 ELSE queueRun[w]
  BY <1>1 DEF TurnsNext
<1>4. dequeRun[w] \in 0..2 /\ queueRun[w] \in 0..1
  BY DEF TurnsInv
<1>5. /\ wpc[w] \notin {"waiting", "woken"} => dequeRun[w] <= streak[w]
      /\ wpc[w] \in {"waiting", "woken"} => queueRun[w] = 0
      /\ queueRun[w] = 1 => streak[w] = 0
  BY DEF TurnsInv
<1>6. queueRun'[w] \in 0..1
  BY <1>3, <1>4
<1>7. wpc'[w] \notin {"waiting", "woken"} => dequeRun'[w] <= streak'[w]
  BY <1>2, <1>5
<1>8. wpc'[w] \in {"waiting", "woken"} => queueRun'[w] = 0
  BY <1>3, <1>5
<1>9. queueRun'[w] = 1 => streak'[w] = 0
  BY <1>3, <1>5
<1> QED BY <1>2, <1>4, <1>6, <1>7, <1>8, <1>9 DEF TurnKept

\* A worker at its loop holds no job that waits, and no job waits in both stores.
LEMMA FreshPick ==
    ASSUME TypeOK, JobsInv, NEW w \in Workers, wpc[w] \in {"ready", "woken", "ended"}
    PROVE  /\ wjob[w] \notin InQueue /\ wjob[w] \notin InDeque
           /\ InQueue \cap InDeque = {}
           /\ NoCall \notin InQueue /\ NoCall \notin InDeque
<1>1. wjob[w] = NoCall \/ wjob[w] \in InHands
  BY DEF TypeOK, Holding, InHands, Holders, InState
<1>2. \A c \in InQueue : c \in Calls /\ c \notin InHands /\ spc[c] = "queued"
  BY DEF JobsInv, TypeOK, InQueue
<1>3. \A c \in InDeque : c \in Calls /\ c \notin InHands /\ spc[c] = "deferred"
  BY DEF JobsInv, TypeOK, InDeque
<1> QED BY <1>1, <1>2, <1>3

LEMMA OwnTurn ==
    ASSUME TypeOK, JobsInv, TurnsInv, TurnsNext, NEW w \in Workers, NEW reg, NEW n,
           \/ wpc[w] \in {"ready", "ended"} /\ Turn(w, reg, n)
           \/ wpc[w] = "woken" /\ (TakeQueue(w, reg, n) \/ Block(w, reg, n))
    PROVE  TurnKept(w)
<1>0. /\ wpc \in [Workers -> WorkerPc] /\ wjob \in [Workers -> Calls \cup {NoCall}]
      /\ streak[w] \in Nat /\ streak \in [Workers -> Nat] /\ wpc[w] \in {"ready", "woken", "ended"}
  BY DEF TypeOK
<1>1. dequeRun[w] \in 0..2 /\ queueRun[w] \in 0..1
  BY DEF TurnsInv
<1>2. CASE Block(w, reg, n)
  <2>1. wjob'[w] = NoCall /\ wpc'[w] = "waiting"
    BY <1>0, <1>2 DEF Block
  <2>2. ~Picks(w, InQueue) /\ ~Picks(w, InDeque)
    BY <1>0, <2>1, FreshPick DEF Picks
  <2>3. dequeRun'[w] = dequeRun[w] /\ queueRun'[w] = 0
    BY <2>1, <2>2 DEF TurnsNext
  <2> QED BY <1>1, <2>1, <2>3 DEF TurnKept
<1>3. CASE TakeDeque(w, reg, n) /\ wpc[w] \in {"ready", "ended"}
  <2>1. wjob'[w] = Head(overflow) /\ wpc'[w] = "running" /\ streak'[w] = streak[w] + 1 /\ overflow # <<>>
        /\ ~TurnToQueue(w)
    BY <1>0, <1>3 DEF TakeDeque, StartJob
  <2>2. Head(overflow) \in InDeque
    BY <2>1 DEF TypeOK, InDeque
  <2>3. Picks(w, InDeque) /\ ~Picks(w, InQueue)
    BY <1>0, <2>1, <2>2, FreshPick DEF Picks
  <2>4. queueRun'[w] = 0 /\ dequeRun'[w] = IF queue # {} THEN dequeRun[w] + 1 ELSE dequeRun[w]
    BY <2>3 DEF TurnsNext
  <2>5. dequeRun[w] <= streak[w] /\ (queue # {} => streak[w] < 2)
    <3>1. dequeRun[w] <= streak[w]
      BY <1>3 DEF TurnsInv
    <3> QED BY <1>0, <2>1, <3>1 DEF TurnToQueue
  <2>6. dequeRun'[w] \in 0..2 /\ dequeRun'[w] <= streak'[w]
    <3>1. CASE queue # {}
      BY <1>0, <1>1, <2>1, <2>4, <2>5, <3>1
    <3>2. CASE queue = {}
      BY <1>0, <1>1, <2>1, <2>4, <2>5, <3>2
    <3> QED BY <3>1, <3>2
  <2> QED BY <2>1, <2>4, <2>6 DEF TurnKept
<1>4. CASE TakeQueue(w, reg, n) /\ (wpc[w] = "woken" \/ overflow = <<>> \/ TurnToQueue(w))
  <2>1. PICK e \in queue : wjob'[w] = e.job /\ wpc'[w] = "running" /\ streak'[w] = 0
    BY <1>0, <1>4 DEF TakeQueue, StartJob
  <2>2. Picks(w, InQueue) /\ ~Picks(w, InDeque)
    BY <1>0, <2>1, FreshPick DEF Picks, InQueue
  <2>3. dequeRun'[w] = 0 /\ queueRun'[w] = IF overflow # <<>> THEN queueRun[w] + 1 ELSE queueRun[w]
    BY <2>1, <2>2 DEF TurnsNext
  <2>4. overflow # <<>> => queueRun[w] = 0
    <3>1. wpc[w] = "woken" => queueRun[w] = 0
      BY DEF TurnsInv
    <3>2. TurnToQueue(w) => queueRun[w] = 0
      <4>1. queueRun[w] = 1 => streak[w] = 0
        BY DEF TurnsInv
      <4> QED BY <1>1, <4>1 DEF TurnToQueue
    <3> QED BY <1>4, <3>1, <3>2
  <2>5. queueRun'[w] \in 0..1
    BY <1>1, <2>3, <2>4
  <2> QED BY <2>1, <2>3, <2>5 DEF TurnKept
<1> QED BY <1>2, <1>3, <1>4 DEF Turn

LEMMA TurnsInvStep == TypeOK /\ JobsInv /\ TurnsInv /\ [TurnsNext]_turnVars => TurnsInv'
<1> SUFFICES ASSUME TypeOK, JobsInv, TurnsInv, [TurnsNext]_turnVars PROVE TurnsInv'
  OBVIOUS
<1>1. CASE UNCHANGED turnVars
  BY <1>1 DEF turnVars, vars, TurnsInv
<1>2. CASE TurnsNext
  <2> USE <1>2
  <2>1. dequeRun' = [w \in Workers |-> dequeRun'[w]] /\ queueRun' = [w \in Workers |-> queueRun'[w]]
    BY DEF TurnsNext
  <2>2. SUFFICES ASSUME NEW w \in Workers PROVE TurnKept(w)
    BY <2>1 DEF TurnKept, TurnsInv
  <2>3. ASSUME wjob' = wjob, streak' = streak,
               wpc'[w] \in {"waiting", "woken"} <=> wpc[w] \in {"waiting", "woken"}
        PROVE  TurnKept(w)
    BY <2>3, OtherTurns
  <2>4. wpc \in [Workers -> WorkerPc] /\ wjob \in [Workers -> Calls \cup {NoCall}] /\ streak \in [Workers -> Nat]
    BY DEF TypeOK
  <2>5. ASSUME NEW c \in Calls, Submit(c) PROVE TurnKept(w)
    <3>1. CASE SubmitQueued(c)
      BY <2>3, <2>4, <3>1 DEF SubmitQueued, WakeOne, InState
    <3>2. CASE SubmitRefused(c)
      BY <2>3, <3>2 DEF SubmitRefused, workerVars
    <3>3. CASE SubmitShed(c)
      BY <2>3, <3>3 DEF SubmitShed, workerVars
    <3> QED BY <2>5, <3>1, <3>2, <3>3 DEF Submit
  <2>6. ASSUME NEW c \in Calls, Reply(c) PROVE TurnKept(w)
    BY <2>3, <2>6 DEF Reply, RedisAccepts, RedisFails, KafkaAccepts, KafkaFails, workerVars
  <2>7. ASSUME NEW v \in Workers, TaskStep(v) PROVE TurnKept(w)
    BY <2>3, <2>4, <2>7 DEF TaskStep, TaskEnds, TaskStops
  <2>8. ASSUME NEW e \in Events, Cancel(e) PROVE TurnKept(w)
    BY <2>3, <2>4, <2>8 DEF Cancel
  <2>9. ASSUME NEW v \in Workers, NEW reg, NEW n,
               \/ wpc[v] \in {"ready", "ended"} /\ Turn(v, reg, n)
               \/ wpc[v] = "woken" /\ (TakeQueue(v, reg, n) \/ Block(v, reg, n))
        PROVE  TurnKept(w)
    <3>1. CASE v = w
      BY <2>9, <3>1, OwnTurn
    <3>2. CASE v # w
      <4>1. wjob'[w] = wjob[w] /\ streak'[w] = streak[w] /\ wpc'[w] = wpc[w]
        <5>1. \E x : wpc' = [wpc EXCEPT ![v] = x]
          BY <2>9, TurnShape DEF StartJob
        <5>2. \E x : wjob' = [wjob EXCEPT ![v] = x]
          <6>1. ASSUME NEW c, StartJob(v, c, reg, n) PROVE \E x : wjob' = [wjob EXCEPT ![v] = x]
            BY <6>1 DEF StartJob
          <6> QED BY <2>9, <6>1, TurnShape
        <5>3. \E x : streak' = [streak EXCEPT ![v] = x]
          BY <2>9, TurnShape
        <5> QED BY <2>4, <3>2, <5>1, <5>2, <5>3
      <4> QED BY <4>1, OtherTurns
    <3> QED BY <3>1, <3>2
  <2>10. ASSUME NEW v \in Workers, WorkerDies(v) PROVE TurnKept(w)
    <3>1. wpc'[w] \in {"waiting", "woken"} <=> wpc[w] \in {"waiting", "woken"}
      BY <2>4, <2>10 DEF WorkerDies
    <3>2. streak' = streak /\ (w # v => wjob'[w] = wjob[w]) /\ wjob'[v] = NoCall /\ wpc'[v] = "dead" /\ wpc[v] = "cancelled"
      BY <2>4, <2>10 DEF WorkerDies
    <3>3. CASE w # v
      BY <3>1, <3>2, <3>3, OtherTurns
    <3>4. CASE w = v
      <4>1. \A c \in InQueue \cup InDeque : c # NoCall
        BY DEF InQueue, InDeque, TypeOK
      <4>2. ~Picks(w, InQueue) /\ ~Picks(w, InDeque)
        BY <3>2, <3>4, <4>1 DEF Picks
      <4>3. dequeRun'[w] = dequeRun[w] /\ queueRun'[w] = queueRun[w]
        BY <3>2, <3>4, <4>2 DEF TurnsNext
      <4>4. dequeRun[w] \in 0..2 /\ queueRun[w] \in 0..1 /\ dequeRun[w] <= streak[w] /\ (queueRun[w] = 1 => streak[w] = 0)
        BY <3>2, <3>4 DEF TurnsInv
      <4> QED BY <3>2, <3>4, <4>3, <4>4 DEF TurnKept
    <3> QED BY <3>3, <3>4
  <2>11. ASSUME NEW v \in Workers, WorkerStep(v) PROVE TurnKept(w)
    <3>1. CASE FirstTurn(v)
      BY <2>9, <3>1 DEF FirstTurn
    <3>2. CASE Woken(v)
      BY <2>9, <3>2 DEF Woken
    <3>3. CASE NextTurn(v)
      BY <2>9, <3>3 DEF NextTurn
    <3> QED BY <2>10, <2>11, <3>1, <3>2, <3>3 DEF WorkerStep
  <2> QED BY <2>5, <2>6, <2>7, <2>8, <2>11 DEF TurnsNext, Next
<1> QED BY <1>1, <1>2

\* Neither store starves the other, for any number of workers and calls (_loop()'s
\* overflow_streak).
THEOREM TurnsAreFair == TurnsSpec => []FairTurns
<1>1. TurnsInit => TurnsInv /\ Init
  BY DEF TurnsInit, TurnsInv, Init
<1>2. TypeOK /\ JobsInv /\ TurnsInv /\ [TurnsNext]_turnVars => TurnsInv'
  BY TurnsInvStep
<1>3. [TurnsNext]_turnVars => [Next]_vars
  BY DEF TurnsNext, turnVars
<1>4. TurnsSpec => Spec
  BY <1>1, <1>3, PTL DEF TurnsSpec, Spec
<1>5. TurnsInv => FairTurns
  BY DEF TurnsInv, FairTurns
<1> QED BY <1>1, <1>2, <1>4, <1>5, TypeCorrect, JobsInvariant, PTL DEF TurnsSpec

-----------------------------------------------------------------------------
(* The pool implements AuditDelivery *)

\* The instance has its own copy of the standard module's operator.
LEMMA SameCardinality ==
    ASSUME NEW S PROVE Delivery!Cardinality(S) = Cardinality(S)
BY DEF Delivery!Cardinality, Cardinality

\* The abstract state of a job, one clause at a time.
LEMMA StateOf ==
    ASSUME NEW c \in Calls
    PROVE  /\ spc[c] = "new" => JobState[c] = "new"
           /\ spc[c] \in {"redis", "kafka"} => JobState[c] = "pending"
           /\ spc[c] = "overflow" => JobState[c] = "refused"
           /\ spc[c] \in {"queued", "shed", "deferred"} =>
                /\ c \in Executing => JobState[c] = "running"
                /\ c \notin Executing =>
                     /\ fate[c] = "evicted" => JobState[c] = "dropped"
                     /\ fate[c] \in {"served", "aborted"} => JobState[c] = "over"
                     /\ fate[c] = "none" => JobState[c] = "accepted"
<1>1. ASSUME spc[c] = "new" PROVE JobState[c] = "new"
  BY <1>1 DEF JobState
<1>2. ASSUME spc[c] \in {"redis", "kafka"} PROVE JobState[c] = "pending"
  <2>1. spc[c] # "new" /\ spc[c] \in Suspended
    BY <1>2 DEF Suspended
  <2> QED BY <2>1 DEF JobState
<1>3. ASSUME spc[c] = "overflow" PROVE JobState[c] = "refused"
  <2>1. spc[c] # "new" /\ spc[c] \notin Suspended
    BY <1>3 DEF Suspended
  <2> QED BY <1>3, <2>1 DEF JobState
<1>4. CASE spc[c] \in {"queued", "shed", "deferred"}
  <2>1. spc[c] # "new" /\ spc[c] \notin Suspended /\ spc[c] # "overflow"
    BY <1>4 DEF Suspended
  <2>2. c \in Executing => JobState[c] = "running"
    BY <2>1 DEF JobState
  <2>3. c \notin Executing =>
          /\ fate[c] = "evicted" => JobState[c] = "dropped"
          /\ fate[c] \in {"served", "aborted"} => JobState[c] = "over"
          /\ fate[c] = "none" => JobState[c] = "accepted"
    BY <2>1 DEF JobState
  <2> QED BY <1>4, <2>2, <2>3
<1> QED BY <1>1, <1>2, <1>3, <1>4

LEMMA StateOfNext ==
    ASSUME NEW c \in Calls
    PROVE  /\ spc'[c] = "new" => JobState'[c] = "new"
           /\ spc'[c] \in {"redis", "kafka"} => JobState'[c] = "pending"
           /\ spc'[c] = "overflow" => JobState'[c] = "refused"
           /\ spc'[c] \in {"queued", "shed", "deferred"} =>
                /\ c \in Executing' => JobState'[c] = "running"
                /\ c \notin Executing' =>
                     /\ fate'[c] = "evicted" => JobState'[c] = "dropped"
                     /\ fate'[c] \in {"served", "aborted"} => JobState'[c] = "over"
                     /\ fate'[c] = "none" => JobState'[c] = "accepted"
<1>1. ASSUME spc'[c] = "new" PROVE JobState'[c] = "new"
  BY <1>1 DEF JobState
<1>2. ASSUME spc'[c] \in {"redis", "kafka"} PROVE JobState'[c] = "pending"
  <2>1. spc'[c] # "new" /\ spc'[c] \in Suspended
    BY <1>2 DEF Suspended
  <2> QED BY <2>1 DEF JobState
<1>3. ASSUME spc'[c] = "overflow" PROVE JobState'[c] = "refused"
  <2>1. spc'[c] # "new" /\ spc'[c] \notin Suspended
    BY <1>3 DEF Suspended
  <2> QED BY <1>3, <2>1 DEF JobState
<1>4. CASE spc'[c] \in {"queued", "shed", "deferred"}
  <2>1. spc'[c] # "new" /\ spc'[c] \notin Suspended /\ spc'[c] # "overflow"
    BY <1>4 DEF Suspended
  <2>2. c \in Executing' => JobState'[c] = "running"
    BY <2>1 DEF JobState
  <2>3. c \notin Executing' =>
          /\ fate'[c] = "evicted" => JobState'[c] = "dropped"
          /\ fate'[c] \in {"served", "aborted"} => JobState'[c] = "over"
          /\ fate'[c] = "none" => JobState'[c] = "accepted"
    BY <2>1 DEF JobState
  <2> QED BY <1>4, <2>2, <2>3
<1> QED BY <1>1, <1>2, <1>3, <1>4

LEMMA StateKept ==
    ASSUME NEW c \in Calls, spc'[c] = spc[c], fate'[c] = fate[c],
           c \in Executing' <=> c \in Executing
    PROVE  JobState'[c] = JobState[c]
BY DEF JobState

LEMMA JobStateDomain ==
    /\ JobState = [c \in Calls |-> JobState[c]]
    /\ JobState' = [c \in Calls |-> JobState'[c]]
BY DEF JobState

\* One job changes its abstract state, the others keep theirs.
LEMMA OneChanges ==
    ASSUME NEW c \in Calls, NEW x, JobState'[c] = x,
           \A d \in Calls : d # c => JobState'[d] = JobState[d]
    PROVE  JobState' = [JobState EXCEPT ![c] = x]
<1>1. \A d \in Calls : JobState'[d] = [JobState EXCEPT ![c] = x][d]
  BY JobStateDomain
<1> QED BY <1>1, JobStateDomain

LEMMA NoneChanges ==
    ASSUME \A d \in Calls : JobState'[d] = JobState[d]
    PROVE  JobState' = JobState
BY JobStateDomain

LEMMA ExecutingHands ==
    ASSUME TypeOK, JobsInv
    PROVE  /\ Executing \subseteq InHands /\ Executing \subseteq Calls
           /\ \A c \in Executing : fate[c] = "none" /\ spc[c] \in {"queued", "deferred"}
           /\ \A c \in Calls : JobState[c] = "running" <=> c \in Executing
<1>1. \A w \in InState({"running", "stopping"}) :
         /\ w \in Holders /\ wjob[w] \in Calls
         /\ fate[wjob[w]] = "none" /\ spc[wjob[w]] \in {"queued", "deferred"}
  BY DEF InState, Holders, Holding, TypeOK, JobsInv
<1>2. \A c \in Executing : c \in InHands /\ c \in Calls /\ fate[c] = "none" /\ spc[c] \in {"queued", "deferred"}
  BY <1>1 DEF Executing, InHands
<1>3. ASSUME NEW c \in Calls PROVE JobState[c] = "running" <=> c \in Executing
  <2>1. spc[c] \in {"new", "redis", "kafka", "overflow", "queued", "shed", "deferred"}
        /\ fate[c] \in {"none", "served", "aborted", "evicted"}
    BY DEF TypeOK, SubmitPc, Suspended, Accepted, Fates
  <2> QED BY <1>2, <2>1, StateOf
<1> QED BY <1>2, <1>3

\* A worker that takes no job right now leaves a slot free.
LEMMA FreeSlot ==
    ASSUME TypeOK, JobsInv, NEW w \in Workers, wpc[w] \notin {"running", "stopping"}
    PROVE  Cardinality({c \in Calls : JobState[c] = "running"}) < Cardinality(Workers)
<1> DEFINE R == InState({"running", "stopping"})
           f == [v \in R |-> wjob[v]]
<1>1. {c \in Calls : JobState[c] = "running"} = Executing
  BY ExecutingHands
<1>2. IsFiniteSet(R) /\ Cardinality(R) \in Nat
  BY FiniteStates
<1>3. f \in Surjection(R, Executing)
  BY DEF Surjection, Executing
<1>4. Cardinality(Executing) <= Cardinality(R) /\ IsFiniteSet(Executing)
  <2> HIDE DEF R, f
  <2> QED BY <1>2, <1>3, FS_Surjection
<1>5. R \in SUBSET (Workers \ {w})
  BY DEF InState
<1>6. IsFiniteSet(Workers \ {w}) /\ Cardinality(Workers \ {w}) = Cardinality(Workers) - 1
  BY FS_RemoveElement
<1>7. Cardinality(R) <= Cardinality(Workers \ {w})
  <2> HIDE DEF R
  <2> QED BY <1>5, <1>6, FS_Subset
<1>8. Cardinality(Workers) \in Nat /\ Cardinality(Executing) \in Nat
  BY <1>4, FS_CardinalityType
<1> HIDE DEF R, f
<1>9. Cardinality(R) <= Cardinality(Workers) - 1
  BY <1>6, <1>7
<1>10. Cardinality(Executing) < Cardinality(Workers)
  BY <1>2, <1>4, <1>8, <1>9
<1> QED BY <1>1, <1>10

\* put into the deque: the job is accepted, and an older one may be dropped.
LEMMA PutDequeRefines ==
    ASSUME TypeOK, JobsInv, JobsInv', TypeOK', NEW c \in NeverDrop,
           spc[c] \in {"new", "redis", "kafka"}, PutDeque(c), UNCHANGED <<wpc, wjob>>
    PROVE  Delivery!Next
<1>0. c \in Calls /\ JobState[c] \in {"new", "pending"}
  BY StateOf
<1>1. Executing' = Executing /\ c \notin Executing
  BY ExecutingHands DEF Executing, InState
<1>2. spc' = [spc EXCEPT ![c] = "deferred"] /\ fate[c] = "none"
  BY <1>0, Unplaced DEF PutDeque
<1>3. spc'[c] = "deferred" /\ \A d \in Calls : d # c => spc'[d] = spc[d]
  BY <1>0, <1>2 DEF TypeOK
<1> DEFINE longer == Append(overflow, c)
<1>4. CASE ~(Len(longer) > OverflowMax)
  <2>1. fate' = fate
    BY <1>4 DEF PutDeque
  <2>2. JobState'[c] = "accepted" /\ \A d \in Calls : d # c => JobState'[d] = JobState[d]
    BY <2>1, <1>0, <1>1, <1>2, <1>3, StateOfNext, StateKept
  <2>3. Delivery!Accept(c)
    BY <1>0, <2>2, OneChanges DEF Delivery!Accept
  <2> QED BY <1>0, <2>3 DEF Delivery!Next
<1>5. CASE Len(longer) > OverflowMax
  <2>1. fate' = [fate EXCEPT ![Head(longer)] = "evicted"]
    BY <1>5 DEF PutDeque
  <2>2. /\ overflow \in Seq(Calls) /\ Len(overflow) \in Nat /\ DOMAIN overflow = 1..Len(overflow)
        /\ longer \in Seq(Calls) /\ longer # <<>> /\ Len(longer) = Len(overflow) + 1
        /\ \A i \in DOMAIN overflow : longer[i] = overflow[i]
    BY <1>0, AppendIndex, AppendToDeque DEF TypeOK
  <2>3. Head(longer) = longer[1]
    <3> HIDE DEF longer
    <3> QED BY <2>2, TailIndex
  <2> HIDE DEF longer
  <2>4. 1 \in DOMAIN overflow
    BY <1>5, <2>2
  <2>5. PICK d \in Calls : d = Head(longer) /\ d = overflow[1]
    BY <2>2, <2>3, <2>4, SMTT(30)
  <2>6. /\ spc[d] = "deferred" /\ d \in NeverDrop /\ fate[d] = "none" /\ d \notin InHands
        /\ d # c /\ d \notin Executing
    BY <2>4, <2>5, ExecutingHands DEF JobsInv
  <2>7. fate'[d] = "evicted" /\ \A b \in Calls : b # d => fate'[b] = fate[b]
    BY <2>1, <2>5 DEF TypeOK
  <2>8. JobState[d] = "accepted"
    BY <2>6, StateOf
  <2>9. JobState'[c] = "accepted"
    BY <1>0, <1>1, <1>2, <1>3, <2>6, <2>7, StateOfNext
  <2>10. JobState'[d] = "dropped"
    BY <1>1, <1>3, <2>6, <2>7, StateOfNext
  <2>11. \A b \in Calls : b # c /\ b # d => JobState'[b] = JobState[b]
    BY <1>1, <1>3, <2>7, StateKept
  <2>12. JobState' = [JobState EXCEPT ![c] = "accepted", ![d] = "dropped"]
    <3>1. \A b \in Calls : JobState'[b] = [JobState EXCEPT ![c] = "accepted", ![d] = "dropped"][b]
      BY <2>9, <2>10, <2>11, JobStateDomain
    <3> QED BY <3>1, JobStateDomain
  <2>13. Delivery!Replace(c, d)
    BY <1>0, <2>6, <2>8, <2>12 DEF Delivery!Replace
  <2> QED BY <1>0, <2>13 DEF Delivery!Next
<1> QED BY <1>4, <1>5

LEMMA SubmitRefines ==
    ASSUME TypeOK, JobsInv, JobsInv', TypeOK', NEW c \in Calls, Submit(c) \/ Reply(c)
    PROVE  Delivery!Next \/ UNCHANGED JobState
<1>1. SubmitQueued(c) \/ UNCHANGED <<wpc, wjob>>
  BY DEF Submit, Reply, SubmitRefused, SubmitShed, RedisAccepts, RedisFails, KafkaAccepts,
         KafkaFails, workerVars
<1>2. Executing' = Executing
  <2>1. CASE SubmitQueued(c)
    <3>1. InState({"running", "stopping"})' = InState({"running", "stopping"}) /\ wjob' = wjob
      BY <2>1 DEF SubmitQueued, WakeOne, InState, TypeOK
    <3> QED BY <3>1 DEF Executing
  <2>2. CASE UNCHANGED <<wpc, wjob>>
    BY <2>2 DEF Executing, InState
  <2> QED BY <1>1, <2>1, <2>2
<1>3. spc[c] \in {"new", "redis", "kafka"}
  BY DEF Submit, Reply, SubmitQueued, SubmitRefused, SubmitShed, RedisAccepts, RedisFails, KafkaAccepts,
         KafkaFails
<1>4. c \notin Executing /\ fate[c] = "none" /\ JobState[c] \in {"new", "pending"}
      /\ (spc[c] = "new" => JobState[c] = "new")
  BY <1>3, ExecutingHands, Unplaced, StateOf
<1>5. ASSUME NEW x \in {"overflow", "redis", "kafka", "queued", "shed", "deferred"},
             spc' = [spc EXCEPT ![c] = x], fate' = fate
      PROVE  /\ x \in {"redis", "kafka"} => JobState' = [JobState EXCEPT ![c] = "pending"]
             /\ x = "overflow" => JobState' = [JobState EXCEPT ![c] = "refused"]
             /\ x \in {"queued", "shed", "deferred"} => JobState' = [JobState EXCEPT ![c] = "accepted"]
  <2>1. spc'[c] = x /\ \A d \in Calls : d # c => spc'[d] = spc[d]
    BY <1>5 DEF TypeOK
  <2>2. \A d \in Calls : d # c => JobState'[d] = JobState[d]
    BY <1>2, <1>5, <2>1, StateKept
  <2> QED BY <1>2, <1>4, <1>5, <2>1, <2>2, StateOfNext, OneChanges
<1>6. CASE SubmitQueued(c)
  <2>1. Delivery!Accept(c)
    BY <1>4, <1>5, <1>6 DEF SubmitQueued, Delivery!Accept
  <2> QED BY <2>1 DEF Delivery!Next
<1>7. CASE SubmitRefused(c)
  <2>1. Delivery!Refuse(c)
    BY <1>4, <1>5, <1>7 DEF SubmitRefused, Delivery!Refuse
  <2> QED BY <2>1 DEF Delivery!Next
<1>8. CASE RedisAccepts(c) \/ KafkaAccepts(c)
  <2>1. Delivery!Accept(c)
    BY <1>4, <1>5, <1>8 DEF RedisAccepts, KafkaAccepts, Delivery!Accept
  <2> QED BY <2>1 DEF Delivery!Next
<1>9. ASSUME c \in NeverDrop, PutDeque(c), UNCHANGED <<wpc, wjob>> PROVE Delivery!Next
  BY <1>3, <1>9, PutDequeRefines
<1>10. CASE SubmitShed(c)
  <2>1. c \in NeverDrop /\ UNCHANGED <<wpc, wjob>> /\ spc[c] = "new"
    BY <1>10 DEF SubmitShed, workerVars
  <2>2. CASE PutDeque(c)
    BY <1>9, <2>1, <2>2
  <2>3. CASE fate' = fate /\ \E x \in {"redis", "kafka"} : spc' = [spc EXCEPT ![c] = x]
    <3>1. Delivery!Suspend(c)
      BY <1>4, <1>5, <2>1, <2>3 DEF Delivery!Suspend
    <3> QED BY <3>1 DEF Delivery!Next
  <2> QED BY <1>10, <2>2, <2>3 DEF SubmitShed, TryKafka
<1>11. CASE RedisFails(c) \/ KafkaFails(c)
  <2>1. c \in NeverDrop /\ UNCHANGED <<wpc, wjob>> /\ spc[c] \in {"redis", "kafka"}
    BY <1>11 DEF RedisFails, KafkaFails, workerVars, JobsInv
  <2>2. CASE PutDeque(c)
    BY <1>9, <2>1, <2>2
  <2>3. CASE fate' = fate /\ spc' = [spc EXCEPT ![c] = "kafka"]
    <3>1. JobState' = [JobState EXCEPT ![c] = "pending"] /\ JobState[c] = "pending"
      BY <1>5, <2>1, <2>3, StateOf
    <3>2. JobState' = JobState
      BY <3>1, JobStateDomain
    <3> QED BY <3>2
  <2> QED BY <1>11, <2>2, <2>3 DEF RedisFails, KafkaFails, TryKafka
<1> QED BY <1>6, <1>7, <1>8, <1>10, <1>11 DEF Submit, Reply

\* A turn of an idle worker: the job it takes, if any, starts.
LEMMA TurnRefines ==
    ASSUME TypeOK, JobsInv, NEW w \in Workers, wpc[w] \in {"ready", "woken", "ended"},
           NEW reg, NEW n, Turn(w, reg, n) \/ TakeQueue(w, reg, n) \/ Block(w, reg, n),
           UNCHANGED <<spc, fate>>
    PROVE  Delivery!Next \/ UNCHANGED JobState
<1>1. ASSUME NEW c \in Calls, c \notin InHands, fate[c] = "none", spc[c] \in {"queued", "deferred"},
             StartJob(w, c, reg, n)
      PROVE  Delivery!Next
  <2>1. wpc' = [wpc EXCEPT ![w] = "running"] /\ wjob' = [wjob EXCEPT ![w] = c]
    BY <1>1 DEF StartJob
  <2>2. Executing' = Executing \cup {c}
    <3>1. InState({"running", "stopping"})' = InState({"running", "stopping"}) \cup {w}
          /\ w \notin InState({"running", "stopping"})
      BY <2>1 DEF InState, TypeOK
    <3>2. wjob'[w] = c /\ \A v \in InState({"running", "stopping"}) : wjob'[v] = wjob[v]
      BY <2>1, <3>1 DEF InState, TypeOK
    <3> QED BY <3>1, <3>2 DEF Executing
  <2>3. c \notin Executing /\ JobState[c] = "accepted"
    BY <1>1, ExecutingHands, StateOf
  <2>4. JobState'[c] = "running" /\ \A d \in Calls : d # c => JobState'[d] = JobState[d]
    BY <1>1, <2>2, StateOfNext, StateKept
  <2>5. Cardinality({d \in Calls : JobState[d] = "running"}) < Cardinality(Workers)
    BY FreeSlot
  <2>6. JobState' = [JobState EXCEPT ![c] = "running"]
    BY <2>4, OneChanges
  <2>7. Delivery!Cardinality(Delivery!Running) < Cardinality(Workers)
    BY <2>5, SameCardinality DEF Delivery!Running
  <2>8. Delivery!Start(c)
    BY <2>3, <2>6, <2>7 DEF Delivery!Start
  <2> QED BY <2>8 DEF Delivery!Next
<1>2. CASE overflow # <<>> /\ StartJob(w, Head(overflow), reg, n)
  <2>1. 1 \in DOMAIN overflow /\ Head(overflow) = overflow[1] /\ Head(overflow) \in Calls
    BY <1>2, TailIndex, TailOfDeque DEF TypeOK
  <2> QED BY <1>1, <1>2, <2>1 DEF JobsInv
<1>3. CASE \E e \in queue : StartJob(w, e.job, reg, n)
  BY <1>1, <1>3 DEF JobsInv, TypeOK
<1>4. CASE wpc' = [wpc EXCEPT ![w] = "waiting"] /\ wjob' = [wjob EXCEPT ![w] = NoCall]
  <2>1. /\ InState({"running", "stopping"})' = InState({"running", "stopping"})
        /\ \A v \in InState({"running", "stopping"}) : wjob'[v] = wjob[v]
    BY <1>4 DEF InState, TypeOK
  <2>2. Executing' = Executing
    BY <2>1 DEF Executing
  <2> QED BY <2>2, StateKept, NoneChanges
<1> QED BY <1>2, <1>3, <1>4, TurnShape

\* The task of a running job ends, by itself or by cancellation.
LEMMA TaskRefines ==
    ASSUME TypeOK, JobsInv, NEW w \in Workers, TaskStep(w)
    PROVE  Delivery!Next
<1>1. PICK p \in {"ended", "cancelled"}, f \in {"served", "aborted"} :
         /\ wpc[w] \in {"running", "stopping"}
         /\ wpc' = [wpc EXCEPT ![w] = p]
         /\ fate' = [fate EXCEPT ![wjob[w]] = f]
         /\ UNCHANGED <<spc, wjob>>
  BY DEF TaskStep, TaskEnds, TaskStops, submitVars
<1>2. PICK c \in Calls : c = wjob[w]
  BY <1>1 DEF TypeOK, Holding
<1>3. w \in InState({"running", "stopping"}) /\ w \in Holders /\ c \in Executing
  BY <1>1, <1>2 DEF InState, Executing, Holders, Holding
<1>4. spc[c] \in {"queued", "deferred"} /\ fate[c] = "none" /\ JobState[c] = "running"
  BY <1>3, ExecutingHands
<1>5. InState({"running", "stopping"})' = InState({"running", "stopping"}) \ {w}
  BY <1>1 DEF InState, TypeOK
<1>6. c \notin Executing' /\ \A d \in Calls : d # c => (d \in Executing' <=> d \in Executing)
  <2>1. \A v \in InState({"running", "stopping"}) : v \in Holders /\ (wjob[v] = c => v = w)
    BY <1>2, <1>3 DEF InState, Holders, Holding, JobsInv
  <2> QED BY <1>1, <1>2, <1>5, <2>1 DEF Executing
<1>7. fate'[c] = f /\ \A d \in Calls : d # c => fate'[d] = fate[d]
  BY <1>1, <1>2 DEF TypeOK
<1>8. JobState'[c] = "over" /\ \A d \in Calls : d # c => JobState'[d] = JobState[d]
  BY <1>1, <1>4, <1>6, <1>7, StateOfNext, StateKept
<1>9. Delivery!Finish(c)
  BY <1>4, <1>8, OneChanges DEF Delivery!Finish
<1> QED BY <1>9 DEF Delivery!Next

\* Every step of the pool is a step of AuditDelivery or changes no job.
LEMMA StepRefines ==
    ASSUME TypeOK, TypeOK', JobsInv, JobsInv', [Next]_vars
    PROVE  [Delivery!Next]_JobState
<1>1. ASSUME NEW c \in Calls, Submit(c) \/ Reply(c) PROVE [Delivery!Next]_JobState
  BY <1>1, SubmitRefines
<1>2. ASSUME NEW w \in Workers, TaskStep(w) PROVE [Delivery!Next]_JobState
  BY <1>2, TaskRefines
<1>3. ASSUME NEW w \in Workers, FirstTurn(w) \/ Woken(w) \/ NextTurn(w) PROVE [Delivery!Next]_JobState
  BY <1>3, TurnRefines DEF FirstTurn, Woken, NextTurn, submitVars
<1>4. ASSUME UNCHANGED <<spc, fate>>, Executing' = Executing PROVE JobState' = JobState
  BY <1>4, StateKept, NoneChanges
<1>5. ASSUME NEW w \in Workers, WorkerDies(w) PROVE JobState' = JobState
  <2>1. /\ InState({"running", "stopping"})' = InState({"running", "stopping"})
        /\ \A v \in InState({"running", "stopping"}) : wjob'[v] = wjob[v]
    BY <1>5 DEF WorkerDies, InState, TypeOK
  <2> QED BY <1>4, <1>5, <2>1 DEF Executing, WorkerDies, submitVars
<1>6. ASSUME NEW e \in Events, Cancel(e) PROVE JobState' = JobState
  <2>1. PICK x \in Workers : x = inflight[e]
    BY <1>6 DEF Cancel, TypeOK
  <2>2. wpc[x] = "running" /\ wpc' = [wpc EXCEPT ![x] = "stopping"]
    BY <1>6, <2>1 DEF Cancel
  <2>3. InState({"running", "stopping"})' = InState({"running", "stopping"}) /\ wjob' = wjob
    BY <1>6, <2>2 DEF Cancel, InState, TypeOK
  <2> QED BY <1>4, <1>6, <2>3 DEF Executing, Cancel, submitVars
<1>7. CASE UNCHANGED vars
  BY <1>4, <1>7 DEF vars, Executing, InState
<1> QED BY <1>1, <1>2, <1>3, <1>5, <1>6, <1>7 DEF Next, WorkerStep

\* The pool implements AuditDelivery: a job starts at most once and only after
\* it was accepted, at most one job per worker runs, only P2/P3 are refused.
THEOREM PoolImplementsDelivery == Spec => DeliverySpec
<1>1. Init => Delivery!Init
  BY DEF Init, Delivery!Init, JobState, Suspended
<1>2. TypeOK /\ TypeOK' /\ JobsInv /\ JobsInv' /\ [Next]_vars => [Delivery!Next]_JobState
  BY StepRefines
<1> QED BY <1>1, <1>2, TypeCorrect, JobsInvariant, PTL DEF Spec, Delivery!Spec, DeliverySpec
=============================================================================
