-------------------------- MODULE MCAuditWorkerPool --------------------------
(* Instances of AuditWorkerPool for TLC: two workers, a heap of one or two    *)
(* entries, and three or six calls, so that every rung of the cascade is      *)
(* reached.                                                                   *)
EXTENDS AuditWorkerPool, TLC

CONSTANTS c1, c2, c3, c4, c5, c6, e1, e2, e3, e4, e5, e6, w1, w2

MCWorkers == {w1, w2}

\* c1 and c3 submit the same event, c3 from the Kafka overflow topic, as happens
\* when the reply to c1's overflow record is lost; c2 is a P2 call that may be shed.
SharedCalls == {c1, c2, c3}
SharedEvents == {e1, e2}
SharedEventOf == (c1 :> e1) @@ (c2 :> e2) @@ (c3 :> e1)
SharedPriority == (c1 :> 80) @@ (c2 :> 30) @@ (c3 :> 80)
SharedNeverDrop == {c1, c3}

\* Six P0/P1 calls, each with its own event.
SixCalls == {c1, c2, c3, c4, c5, c6}
DistinctEvents == {e1, e2, e3, e4, e5, e6}
SixEventOf == (c1 :> e1) @@ (c2 :> e2) @@ (c3 :> e3) @@ (c4 :> e4) @@ (c5 :> e5) @@ (c6 :> e6)
SixPriority == (c1 :> 60) @@ (c2 :> 80) @@ (c3 :> 80) @@ (c4 :> 90) @@ (c5 :> 30) @@ (c6 :> 60)

\* Three P0/P1 calls, each with its own event, c3 from the overflow topic.
ThreeCalls == {c1, c2, c3}
ThreeEvents == {e1, e2, e3}
ThreeEventOf == (c1 :> e1) @@ (c2 :> e2) @@ (c3 :> e3)
ThreePriority == (c1 :> 60) @@ (c2 :> 80) @@ (c3 :> 80)

OneFromOverflow == {c3}
NoneFromOverflow == {}

Interchangeable == Permutations(MCWorkers)
=============================================================================
