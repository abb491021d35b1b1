--------------------------- MODULE RecordsProofs ----------------------------
(* What the platform keeps on record around the audit stays sound, for any      *)
(* entries, calls, events, keys and editors: the trail of actions, the log of   *)
(* tool calls, the cases, the sources and the versions of rules.  Every part    *)
(* has an inductive invariant; a step of the composition is a step of every     *)
(* part or leaves it alone, which gives the invariants of MCPlatform.           *)
EXTENDS MCPlatform, FiniteSetTheorems, SequenceTheorems, WellFoundedInduction, TLAPS

-----------------------------------------------------------------------------
(* Sequences *)

\* The shape of a sequence, for the provers.
LEMMA SeqShape ==
    ASSUME NEW S, NEW s \in Seq(S)
    PROVE  /\ Len(s) \in Nat /\ DOMAIN s = 1..Len(s) /\ \A i \in 1..Len(s) : s[i] \in S
           /\ Range(s) \subseteq S /\ \A x : x \in Range(s) <=> \E i \in 1..Len(s) : s[i] = x
<1>1. Len(s) \in Nat /\ DOMAIN s = 1..Len(s) /\ \A i \in 1..Len(s) : s[i] \in S
  BY LenProperties, ElementOfSeq
<1> QED BY <1>1 DEF Range

LEMMA RangeAppend ==
    ASSUME NEW S, NEW s \in Seq(S), NEW e \in S
    PROVE  /\ Append(s, e) \in Seq(S) /\ Len(Append(s, e)) = Len(s) + 1
           /\ Range(Append(s, e)) = Range(s) \cup {e}
           /\ IsInjective(s) /\ e \notin Range(s) => IsInjective(Append(s, e))
<1> DEFINE t == Append(s, e)
<1>1. /\ t \in Seq(S) /\ Len(t) = Len(s) + 1 /\ t[Len(s) + 1] = e
      /\ \A i \in 1..Len(s) : t[i] = s[i]
  BY AppendProperties
<1> HIDE DEF t
<1>2. Range(t) = Range(s) \cup {e}
  BY <1>1, SeqShape
<1>3. ASSUME IsInjective(s), e \notin Range(s) PROVE IsInjective(t)
  BY <1>1, <1>3, SeqShape DEF IsInjective
<1> QED BY <1>1, <1>2, <1>3 DEF t

LEMMA RangeTail ==
    ASSUME NEW S, NEW s \in Seq(S), s # <<>>
    PROVE  /\ Head(s) \in S /\ Tail(s) \in Seq(S) /\ Len(s) \in Nat \ {0} /\ Len(Tail(s)) = Len(s) - 1
           /\ Range(s) = Range(Tail(s)) \cup {Head(s)}
           /\ IsInjective(s) => IsInjective(Tail(s)) /\ Head(s) \notin Range(Tail(s))
<1> DEFINE t == Tail(s)
<1>1. /\ Head(s) \in S /\ t \in Seq(S) /\ Len(t) = Len(s) - 1
      /\ \A i \in 1..Len(t) : t[i] = s[i + 1]
  BY HeadTailProperties
<1>2. Head(s) = s[1] /\ Len(s) \in Nat \ {0}
  BY EmptySeq
<1> HIDE DEF t
<1>3. Range(s) = Range(t) \cup {s[1]}
  <2>1. ASSUME NEW x \in Range(s) PROVE x \in Range(t) \cup {s[1]}
    <3>1. PICK i \in 1..Len(s) : s[i] = x
      BY SeqShape
    <3>2. CASE i = 1
      BY <3>1, <3>2
    <3>3. CASE i # 1
      <4>1. i - 1 \in 1..Len(t) /\ t[i - 1] = x
        BY <1>1, <1>2, <3>1, <3>3
      <4> QED BY <4>1, <1>1, SeqShape
    <3> QED BY <3>2, <3>3
  <2>2. ASSUME NEW x \in Range(t) PROVE x \in Range(s)
    <3>1. PICK i \in 1..Len(t) : t[i] = x
      BY <1>1, SeqShape
    <3>2. i + 1 \in 1..Len(s) /\ s[i + 1] = x
      BY <1>1, <1>2, <3>1
    <3> QED BY <3>2, SeqShape
  <2> QED BY <2>1, <2>2, <1>2, SeqShape
<1>4. ASSUME IsInjective(s) PROVE IsInjective(t) /\ s[1] \notin Range(t)
  <2>1. \A i, j \in 1..Len(s) : s[i] = s[j] => i = j
    BY <1>4, SeqShape DEF IsInjective
  <2>2. IsInjective(t)
    <3>1. DOMAIN t = 1..Len(t)
      BY <1>1, SeqShape
    <3> SUFFICES ASSUME NEW i \in 1..Len(t), NEW j \in 1..Len(t), t[i] = t[j] PROVE i = j
      BY <3>1 DEF IsInjective
    <3>2. s[i + 1] = s[j + 1] /\ i + 1 \in 1..Len(s) /\ j + 1 \in 1..Len(s)
      BY <1>1, <1>2
    <3> QED BY <2>1, <3>2
  <2>3. s[1] \notin Range(t)
    <3> SUFFICES ASSUME NEW i \in 1..Len(t), t[i] = s[1] PROVE FALSE
      BY <1>1, SeqShape
    <3>1. s[i + 1] = s[1] /\ i + 1 \in 1..Len(s) /\ 1 \in 1..Len(s)
      BY <1>1, <1>2
    <3> QED BY <2>1, <3>1
  <2> QED BY <2>2, <2>3
<1> QED BY <1>1, <1>2, <1>3, <1>4 DEF t

\* The rest of a sequence behind its first n elements.
LEMMA RangeRest ==
    ASSUME NEW S, NEW s \in Seq(S), NEW n \in Nat
    PROVE  LET r == SubSeq(s, n + 1, Len(s)) IN
           /\ r \in Seq(S) /\ Len(r) = (IF n <= Len(s) THEN Len(s) - n ELSE 0)
           /\ \A i \in 1..Len(r) : r[i] = s[n + i]
           /\ Range(r) \subseteq Range(s)
           /\ IsInjective(s) => IsInjective(r)
           /\ \A i \in 1..Len(s) : i <= n \/ s[i] \in Range(r)
<1> DEFINE r == SubSeq(s, n + 1, Len(s))
<1>1. Len(s) \in Nat /\ \A i \in n + 1..Len(s) : s[i] \in S
  BY SeqShape
<1>2. r \in Seq(S) /\ Len(r) = (IF n + 1 <= Len(s) THEN Len(s) - (n + 1) + 1 ELSE 0)
  BY <1>1, SubSeqProperties
<1>3. \A i \in 1..Len(s) - (n + 1) + 1 : r[i] = s[n + 1 + i - 1]
  BY <1>1, SubSeqProperties
<1> HIDE DEF r
<1>4. Len(r) = (IF n <= Len(s) THEN Len(s) - n ELSE 0) /\ \A i \in 1..Len(r) : r[i] = s[n + i] /\ n + i \in 1..Len(s)
  BY <1>1, <1>2, <1>3
<1>5. Range(r) \subseteq Range(s)
  BY <1>2, <1>4, SeqShape
<1>6. IsInjective(s) => IsInjective(r)
  <2> SUFFICES ASSUME IsInjective(s), NEW i \in 1..Len(r), NEW j \in 1..Len(r), r[i] = r[j] PROVE i = j
    BY <1>2, SeqShape DEF IsInjective
  <2>1. s[n + i] = s[n + j] /\ n + i \in 1..Len(s) /\ n + j \in 1..Len(s)
    BY <1>4
  <2>2. n + i = n + j
    BY <2>1, SeqShape DEF IsInjective
  <2> QED BY <2>2, <1>2
<1>7. ASSUME NEW i \in 1..Len(s), ~(i <= n) PROVE s[i] \in Range(r)
  <2>1. i - n \in 1..Len(r) /\ r[i - n] = s[i]
    BY <1>1, <1>4, <1>7
  <2> QED BY <1>2, <2>1, SeqShape
<1> QED BY <1>2, <1>4, <1>5, <1>6, <1>7 DEF r

\* A sequence without repetitions has as many members as it is long.
LEMMA InjectiveCount ==
    ASSUME NEW S, NEW s \in Seq(S), IsInjective(s)
    PROVE  IsFiniteSet(Range(s)) /\ Cardinality(Range(s)) = Len(s)
<1>1. Len(s) \in Nat /\ DOMAIN s = 1..Len(s) /\ s \in [1..Len(s) -> Range(s)]
  BY SeqShape, LenProperties DEF Range
<1>2. s \in Bijection(1..Len(s), Range(s))
  BY <1>1 DEF Bijection, Injection, Surjection, Range
<1>3. ExistsBijection(1..Len(s), Range(s))
  BY <1>2 DEF ExistsBijection
<1> QED BY <1>1, <1>3, FS_CountingElements, FS_NatBijection

\* Two sequences, one behind the other.
LEMMA RangeConcat ==
    ASSUME NEW S, NEW s \in Seq(S), NEW t \in Seq(S)
    PROVE  /\ s \o t \in Seq(S) /\ Len(s \o t) = Len(s) + Len(t) /\ Range(s \o t) = Range(s) \cup Range(t)
           /\ IsInjective(s) /\ IsInjective(t) /\ Range(s) \cap Range(t) = {} => IsInjective(s \o t)
<1> DEFINE u == s \o t
<1>1. /\ u \in Seq(S) /\ Len(u) = Len(s) + Len(t)
      /\ \A i \in 1..Len(s) + Len(t) : u[i] = IF i <= Len(s) THEN s[i] ELSE t[i - Len(s)]
  BY ConcatProperties
<1>2. Range(u) = Range(s) \cup Range(t)
  BY RangeConcatenation
<1> HIDE DEF u
<1>3. Len(s) \in Nat /\ Len(t) \in Nat /\ DOMAIN s = 1..Len(s) /\ DOMAIN t = 1..Len(t) /\ DOMAIN u = 1..Len(u)
  BY <1>1, SeqShape
<1>4. ASSUME IsInjective(s), IsInjective(t), Range(s) \cap Range(t) = {} PROVE IsInjective(u)
  <2> SUFFICES ASSUME NEW i \in 1..Len(u), NEW j \in 1..Len(u), u[i] = u[j] PROVE i = j
    BY <1>3 DEF IsInjective
  <2>1. CASE i <= Len(s) /\ j <= Len(s)
    <3>1. i \in DOMAIN s /\ j \in DOMAIN s /\ s[i] = s[j]
      BY <1>1, <1>3, <2>1
    <3> QED BY <1>4, <3>1 DEF IsInjective
  <2>2. CASE ~(i <= Len(s)) /\ ~(j <= Len(s))
    <3>1. i - Len(s) \in DOMAIN t /\ j - Len(s) \in DOMAIN t /\ t[i - Len(s)] = t[j - Len(s)]
      BY <1>1, <1>3, <2>2
    <3>2. i - Len(s) = j - Len(s)
      BY <1>4, <3>1 DEF IsInjective
    <3> QED BY <1>3, <3>2
  <2>3. ASSUME NEW k \in 1..Len(u) PROVE u[k] \in IF k <= Len(s) THEN Range(s) ELSE Range(t)
    <3>1. CASE k <= Len(s)
      <4>1. k \in DOMAIN s /\ u[k] = s[k]
        BY <1>1, <1>3, <3>1
      <4> QED BY <3>1, <4>1 DEF Range
    <3>2. CASE ~(k <= Len(s))
      <4>1. k - Len(s) \in DOMAIN t /\ u[k] = t[k - Len(s)]
        BY <1>1, <1>3, <3>2
      <4> QED BY <3>2, <4>1 DEF Range
    <3> QED BY <3>1, <3>2
  <2>4. CASE (i <= Len(s)) # (j <= Len(s))
    BY <1>4, <2>3, <2>4
  <2> QED BY <2>1, <2>2, <2>4
<1> QED BY <1>1, <1>2, <1>4 DEF u

\* A sequence cut into its front and its rest.
LEMMA RangeCut ==
    ASSUME NEW S, NEW s \in Seq(S), NEW n \in 0..Len(s)
    PROVE  LET front == SubSeq(s, 1, n)
               rest == SubSeq(s, n + 1, Len(s))
           IN  /\ front \in Seq(S) /\ Len(front) = n /\ \A i \in 1..n : front[i] = s[i]
               /\ rest \in Seq(S) /\ Len(rest) = Len(s) - n /\ \A i \in 1..Len(rest) : rest[i] = s[n + i]
               /\ Range(s) = Range(front) \cup Range(rest)
               /\ IsInjective(s) => /\ IsInjective(front) /\ IsInjective(rest)
                                    /\ Range(front) \cap Range(rest) = {}
<1> DEFINE front == SubSeq(s, 1, n)
           rest == SubSeq(s, n + 1, Len(s))
<1>0. Len(s) \in Nat /\ n \in Nat /\ DOMAIN s = 1..Len(s) /\ \A i \in 1..Len(s) : s[i] \in S
  BY SeqShape
<1>1. front \in Seq(S) /\ Len(front) = n /\ \A i \in 1..n : front[i] = s[i]
  <2>1. \A i \in 1..n : s[i] \in S
    BY <1>0
  <2>2. /\ front \in Seq(S) /\ Len(front) = (IF 1 <= n THEN n - 1 + 1 ELSE 0)
        /\ \A i \in 1..n - 1 + 1 : front[i] = s[1 + i - 1]
    BY <1>0, <2>1, SubSeqProperties
  <2> HIDE DEF front
  <2> QED BY <1>0, <2>2
<1>2. /\ rest \in Seq(S) /\ Len(rest) = (IF n <= Len(s) THEN Len(s) - n ELSE 0)
      /\ \A i \in 1..Len(rest) : rest[i] = s[n + i]
      /\ Range(rest) \subseteq Range(s)
      /\ IsInjective(s) => IsInjective(rest)
      /\ \A i \in 1..Len(s) : i <= n \/ s[i] \in Range(rest)
  BY <1>0, RangeRest
<1> HIDE DEF front, rest
<1>3. Len(rest) = Len(s) - n
  BY <1>0, <1>2
<1>4. DOMAIN front = 1..n /\ DOMAIN rest = 1..Len(rest)
  BY <1>1, <1>2, SeqShape
<1>5. Range(s) = Range(front) \cup Range(rest)
  <2>1. ASSUME NEW i \in 1..Len(s) PROVE s[i] \in Range(front) \cup Range(rest)
    <3>1. CASE i <= n
      BY <1>0, <1>1, <1>4, <3>1 DEF Range
    <3> QED BY <1>2, <3>1
  <2>2. Range(front) \subseteq Range(s)
    BY <1>0, <1>1, <1>4 DEF Range
  <2> QED BY <1>0, <1>2, <2>1, <2>2 DEF Range
<1>6. ASSUME IsInjective(s)
      PROVE  IsInjective(front) /\ IsInjective(rest) /\ Range(front) \cap Range(rest) = {}
  <2>1. IsInjective(front)
    BY <1>0, <1>1, <1>4, <1>6 DEF IsInjective
  <2>2. IsInjective(rest)
    BY <1>2, <1>6
  <2>3. ASSUME NEW i \in 1..n, NEW j \in 1..Len(rest), front[i] = rest[j] PROVE FALSE
    <3>1. i \in DOMAIN s /\ n + j \in DOMAIN s /\ s[i] = s[n + j] /\ i # n + j
      BY <1>0, <1>1, <1>2, <1>3, <2>3
    <3> QED BY <1>6, <3>1 DEF IsInjective
  <2>4. Range(front) \cap Range(rest) = {}
    BY <2>3, <1>4 DEF Range
  <2> QED BY <2>1, <2>2, <2>4
<1> QED BY <1>1, <1>2, <1>3, <1>5, <1>6 DEF front, rest

\* A sequence without its element at k.
LEMMA WithoutOne ==
    ASSUME NEW S, NEW q \in Seq(S), NEW k \in 1..Len(q)
    PROVE  LET r == RemoveAt(q, k) IN
           /\ r \in Seq(S) /\ Len(r) = Len(q) - 1
           /\ \A i \in 1..Len(r) : r[i] = IF i < k THEN q[i] ELSE q[i + 1]
           /\ \A i \in 1..Len(q) : i # k => \E j \in 1..Len(r) : r[j] = q[i]
<1> DEFINE f == SubSeq(q, 1, k - 1)
           b == SubSeq(q, k + 1, Len(q))
           r == RemoveAt(q, k)
<1>1. Len(q) \in Nat /\ k \in Nat \ {0} /\ k - 1 \in 0..Len(q) /\ k <= Len(q)
  BY SeqShape
<1>2. f \in Seq(S) /\ Len(f) = k - 1 /\ \A i \in 1..k - 1 : f[i] = q[i]
  BY <1>1, RangeCut
<1>3. b \in Seq(S) /\ Len(b) = Len(q) - k /\ \A i \in 1..Len(b) : b[i] = q[k + i]
  BY <1>1, RangeRest
<1>4. r = f \o b
  BY DEF RemoveAt
<1> HIDE DEF f, b, r
<1>5. /\ r \in Seq(S) /\ Len(r) = Len(f) + Len(b)
      /\ \A i \in 1..Len(f) + Len(b) : r[i] = IF i <= Len(f) THEN f[i] ELSE b[i - Len(f)]
  BY <1>2, <1>3, <1>4, ConcatProperties
<1>6. Len(r) = Len(q) - 1
  BY <1>1, <1>2, <1>3, <1>5
<1>7. ASSUME NEW i \in 1..Len(r) PROVE r[i] = IF i < k THEN q[i] ELSE q[i + 1]
  <2>1. CASE i < k
    <3>1. i \in 1..k - 1 /\ i <= Len(f) /\ i \in 1..Len(f) + Len(b)
      BY <1>1, <1>2, <1>5, <2>1
    <3> QED BY <1>2, <1>5, <2>1, <3>1
  <2>2. CASE ~(i < k)
    <3>1. ~(i <= Len(f)) /\ i - Len(f) \in 1..Len(b) /\ k + (i - Len(f)) = i + 1 /\ i \in 1..Len(f) + Len(b)
      BY <1>1, <1>2, <1>3, <1>5, <1>6, <2>2
    <3> QED BY <1>3, <1>5, <2>2, <3>1
  <2> QED BY <2>1, <2>2
<1>8. ASSUME NEW i \in 1..Len(q), i # k PROVE \E j \in 1..Len(r) : r[j] = q[i]
  <2>1. CASE i < k
    <3>1. i \in 1..Len(r)
      BY <1>1, <1>6, <2>1
    <3> QED BY <1>7, <2>1, <3>1
  <2>2. CASE ~(i < k)
    <3>1. i - 1 \in 1..Len(r) /\ ~(i - 1 < k) /\ (i - 1) + 1 = i
      BY <1>1, <1>6, <1>8, <2>2
    <3> QED BY <1>7, <3>1
  <2> QED BY <2>1, <2>2
<1> QED BY <1>5, <1>6, <1>7, <1>8 DEF r

\* A sequence without repetitions that loses its element at k.
LEMMA RangeWithout ==
    ASSUME NEW S, NEW q \in Seq(S), IsInjective(q), NEW k \in 1..Len(q)
    PROVE  LET r == RemoveAt(q, k) IN
           /\ r \in Seq(S) /\ Len(r) = Len(q) - 1 /\ IsInjective(r) /\ Range(r) = Range(q) \ {q[k]}
<1> DEFINE r == RemoveAt(q, k)
           g(i) == IF i < k THEN i ELSE i + 1
<1>1. /\ r \in Seq(S) /\ Len(r) = Len(q) - 1
      /\ \A i \in 1..Len(r) : r[i] = IF i < k THEN q[i] ELSE q[i + 1]
      /\ \A i \in 1..Len(q) : i # k => \E j \in 1..Len(r) : r[j] = q[i]
  BY WithoutOne
<1> HIDE DEF r
<1>2. /\ Len(q) \in Nat /\ Len(r) \in Nat /\ k \in Nat /\ DOMAIN r = 1..Len(r) /\ DOMAIN q = 1..Len(q)
      /\ \A x : x \in Range(q) <=> \E i \in 1..Len(q) : q[i] = x
      /\ \A x : x \in Range(r) <=> \E i \in 1..Len(r) : r[i] = x
  BY <1>1, SeqShape
<1>3. \A i \in 1..Len(r) : g(i) \in 1..Len(q) /\ g(i) # k /\ r[i] = q[g(i)]
  BY <1>1, <1>2
<1>4. \A i, j \in 1..Len(r) : g(i) = g(j) => i = j
  BY <1>2
<1>5. \A i, j \in 1..Len(q) : q[i] = q[j] => i = j
  BY <1>2 DEF IsInjective
<1> HIDE DEF g
<1>6. IsInjective(r)
  <2> SUFFICES ASSUME NEW i \in 1..Len(r), NEW j \in 1..Len(r), r[i] = r[j] PROVE i = j
    BY <1>2 DEF IsInjective
  <2>1. q[g(i)] = q[g(j)] /\ g(i) \in 1..Len(q) /\ g(j) \in 1..Len(q)
    BY <1>3
  <2>2. g(i) = g(j)
    BY <2>1, <1>5
  <2> QED BY <2>2, <1>4
<1>7. ASSUME NEW x \in Range(r) PROVE x \in Range(q) \ {q[k]}
  <2>1. PICK i \in 1..Len(r) : r[i] = x
    BY <1>2
  <2>2. g(i) \in 1..Len(q) /\ g(i) # k /\ q[g(i)] = x
    BY <1>3, <2>1
  <2> QED BY <1>2, <1>5, <2>2
<1>8. ASSUME NEW x \in Range(q) \ {q[k]} PROVE x \in Range(r)
  <2>1. PICK i \in 1..Len(q) : q[i] = x
    BY <1>2
  <2> QED BY <1>1, <1>2, <1>8, <2>1
<1> QED BY <1>1, <1>6, <1>7, <1>8 DEF r

LEMMA MinOfTwo ==
    ASSUME NEW a \in Int, NEW b \in Int
    PROVE  Min({a, b}) = IF a <= b THEN a ELSE b
BY DEF Min

LEMMA MaxOfTwo ==
    ASSUME NEW a \in Int, NEW b \in Int
    PROVE  Max({a, b}) = IF a >= b THEN a ELSE b
BY DEF Max

-----------------------------------------------------------------------------
(* The composition *)

\* A step of the composition is a step of each part, or leaves it alone.
LEMMA PartSteps ==
    ASSUME [Next]_vars
    PROVE  /\ [StreamNext]_streamVars /\ [BridgeNext]_bridgeVars /\ [LimiterNext]_limiterVars
           /\ [TrailNext]_trailVars /\ [CallLogNext]_callLogVars /\ [CasesNext]_caseVars
           /\ [WindowNext]_windowVars /\ [SourcesNext]_sourceVars /\ [VersionsNext]_versionVars
           /\ [CacheNext]_cacheVars /\ [CaptureNext]_captureVars /\ [PcapNext]_pcapVars
           /\ [CorrelationNext]_correlationVars /\ [BaselinesNext]_baselineVars
<1>1. CASE UNCHANGED vars
  BY <1>1 DEF vars
<1>2. CASE Next
  BY <1>2 DEF Next, InPart
<1> QED BY <1>1, <1>2

-----------------------------------------------------------------------------
(* The trail of the operators' actions *)

USE TrailAssumption

TrailTypes ==
    /\ writer \in [Entries -> {"new", "chained", "done"}]
    /\ prevHash \in [Entries \cup Flushers -> Seq(Entries)]
    /\ table \in Seq(Seq(Entries) \ {<<>>})
    /\ buffer \in Seq(Entries) /\ Len(buffer) <= BufferMax /\ IsInjective(buffer)
    /\ flusher \in [Flushers -> [at : {"idle", "started", "chained", "committed"}, batch : Seq(Entries)]]
    /\ trailFaults \in 0..MaxTrailFaults /\ trimmed \subseteq Entries
    /\ raced \in BOOLEAN /\ clashed \in BOOLEAN

\* What is in the trail, waits or was trimmed comes from a call that is over.
OnlyDone ==
    /\ \A e \in Written \cup Range(buffer) \cup trimmed : e \in Entries /\ writer[e] = "done"
    /\ \A f \in Flushers : \A e \in Range(flusher[f].batch) : writer[e] = "done"

\* The batch of a lone flush is the front of the buffer until it is rows out of it.
FlushAlone ==
    ~clashed => \A f \in Flushing :
        /\ \A g \in Flushing : g = f
        /\ Len(flusher[f].batch) <= Len(buffer)
        /\ \A i \in 1..Len(flusher[f].batch) : buffer[i] = flusher[f].batch[i]
        /\ flusher[f].at = "committed" => Range(flusher[f].batch) \subseteq Written

\* An entry that is written and waits is one that a flush has just committed.
WaitsUnwritten ==
    ~clashed /\ trailFaults = 0 => \A e \in Written \cap Range(buffer) :
        \E f \in Flushers : flusher[f].at = "committed" /\ e \in Range(flusher[f].batch)

\* Without a race one call at most holds a hash that it has read, and it is the newest.
HoldsLatest ==
    ~raced =>
        /\ \A e, d \in Entries : writer[e] = "chained" /\ writer[d] = "chained" => e = d
        /\ \A f, g \in Flushers : flusher[f].at = "chained" /\ flusher[g].at = "chained" => f = g
        /\ \A e \in Entries, f \in Flushers : ~(writer[e] = "chained" /\ flusher[f].at = "chained")
        /\ \A e \in Entries : writer[e] = "chained" => prevHash[e] = Latest
        /\ \A f \in Flushers : flusher[f].at = "chained" => prevHash[f] = Latest

TrailInv ==
    TrailTypes /\ OnlyDone /\ FlushAlone /\ ActionsKept /\ WaitsUnwritten /\ WrittenOnce /\ HoldsLatest /\ OneChain
-----------------------------------------------------------------------------
\* A row at the end of the trail: its entry, and what it is chained to.
LEMMA RowAdded ==
    ASSUME TrailTypes, NEW p \in Seq(Entries), NEW e \in Entries, table' = Append(table, Append(p, e))
    PROVE  /\ table' \in Seq(Seq(Entries) \ {<<>>}) /\ Len(table') = Len(table) + 1
           /\ \A i \in 1..Len(table) : table'[i] = table[i]
           /\ EntryOf(table'[Len(table) + 1]) = e /\ Front(table'[Len(table) + 1]) = p
           /\ Written' = Written \cup {e} /\ Latest' = table'[Len(table) + 1]
<1> DEFINE row == Append(p, e)
<1>1. /\ row \in Seq(Entries) \ {<<>>} /\ Len(row) = Len(p) + 1 /\ row[Len(p) + 1] = e
      /\ \A i \in 1..Len(p) : row[i] = p[i]
  BY AppendProperties
<1>2. Len(p) \in Nat /\ Front(row) \in Seq(Entries) /\ Len(Front(row)) = Len(p)
      /\ \A i \in 1..Len(p) : Front(row)[i] = p[i]
  <2>1. Len(p) \in Nat /\ \A i \in 1..Len(row) - 1 : row[i] \in Entries
    BY <1>1, SeqShape
  <2>2. /\ SubSeq(row, 1, Len(row) - 1) \in Seq(Entries)
        /\ Len(SubSeq(row, 1, Len(row) - 1)) = IF 1 <= Len(row) - 1 THEN Len(row) - 1 - 1 + 1 ELSE 0
        /\ \A i \in 1..Len(row) - 1 - 1 + 1 : SubSeq(row, 1, Len(row) - 1)[i] = row[1 + i - 1]
    BY <1>1, <2>1, SubSeqProperties
  <2> QED BY <1>1, <2>1, <2>2 DEF Front
<1>3. Front(row) = p /\ EntryOf(row) = e
  BY <1>1, <1>2, SeqEqual DEF EntryOf, Last
<1> HIDE DEF row
<1>4. table \in Seq(Seq(Entries) \ {<<>>}) /\ table' = Append(table, row)
  BY DEF TrailTypes, row
<1>5. /\ table' \in Seq(Seq(Entries) \ {<<>>}) /\ Len(table') = Len(table) + 1 /\ table' # <<>>
      /\ \A i \in 1..Len(table) : table'[i] = table[i]
      /\ table'[Len(table) + 1] = row
  <2> DEFINE S == Seq(Entries) \ {<<>>}
  <2> HIDE DEF S
  <2>1. table \in Seq(S) /\ row \in S
    BY <1>1, <1>4 DEF S
  <2>2. /\ Append(table, row) \in Seq(S) /\ Len(Append(table, row)) = Len(table) + 1 /\ Append(table, row) # <<>>
        /\ \A i \in 1..Len(table) : Append(table, row)[i] = table[i]
        /\ Append(table, row)[Len(table) + 1] = row
    BY <2>1, AppendProperties
  <2> QED BY <1>4, <2>2 DEF S
<1>6. Latest' = row
  BY <1>5 DEF Latest, Last
<1>7. Written = {EntryOf(table[i]) : i \in 1..Len(table)} /\ Written' = {EntryOf(table'[i]) : i \in 1..Len(table')}
      /\ Len(table) \in Nat
  <2>1. DOMAIN table = 1..Len(table) /\ Len(table) \in Nat
    BY <1>4, SeqShape
  <2>2. DOMAIN table' = 1..Len(table')
    BY <1>5, SeqShape
  <2> QED BY <2>1, <2>2 DEF Written, EntryOf
<1>8. Written' = Written \cup {e}
  <2>1. ASSUME NEW x \in Written' PROVE x \in Written \cup {e}
    <3>1. PICK i \in 1..Len(table') : EntryOf(table'[i]) = x
      BY <1>7
    <3>2. CASE i \in 1..Len(table)
      BY <1>5, <1>7, <3>1, <3>2
    <3>3. CASE i = Len(table) + 1
      BY <1>3, <1>5, <3>1, <3>3
    <3> QED BY <1>5, <1>7, <3>2, <3>3
  <2>2. ASSUME NEW x \in Written PROVE x \in Written'
    <3>1. PICK i \in 1..Len(table) : EntryOf(table[i]) = x
      BY <1>7
    <3> QED BY <1>5, <1>7, <3>1 DEF EntryOf
  <2>3. e \in Written'
    <3>1. Len(table) + 1 \in 1..Len(table') /\ EntryOf(table'[Len(table) + 1]) = e
      BY <1>3, <1>5, <1>7 DEF EntryOf
    <3> QED BY <1>7, <3>1
  <2> QED BY <2>1, <2>2, <2>3
<1> QED BY <1>3, <1>5, <1>6, <1>8

\* The rows of a batch at the end of the trail, each chained to the one before.
LEMMA RowsAdded ==
    ASSUME TrailTypes, NEW p \in Seq(Entries), NEW b \in Seq(Entries), table' = table \o Rows(p, b)
    PROVE  /\ table' \in Seq(Seq(Entries) \ {<<>>}) /\ Len(table') = Len(table) + Len(b)
           /\ \A i \in 1..Len(table) : table'[i] = table[i]
           /\ \A i \in 1..Len(b) : /\ EntryOf(table'[Len(table) + i]) = b[i]
                                   /\ Front(table'[Len(table) + i]) = IF i = 1 THEN p ELSE table'[Len(table) + i - 1]
           /\ Written' = Written \cup Range(b)
<1> DEFINE row(i) == p \o SubSeq(b, 1, i)
<1>1. Len(b) \in Nat /\ Len(p) \in Nat /\ DOMAIN b = 1..Len(b) /\ \A i \in 1..Len(b) : b[i] \in Entries
  BY SeqShape
<1>2. ASSUME NEW i \in 0..Len(b)
      PROVE  /\ row(i) \in Seq(Entries) /\ Len(row(i)) = Len(p) + i
             /\ \A j \in 1..Len(p) + i : row(i)[j] = IF j <= Len(p) THEN p[j] ELSE b[j - Len(p)]
  <2> DEFINE h == SubSeq(b, 1, i)
  <2>1. \A j \in 1..i : b[j] \in Entries
    BY <1>1
  <2>2. /\ h \in Seq(Entries) /\ Len(h) = (IF 1 <= i THEN i - 1 + 1 ELSE 0)
        /\ \A j \in 1..i - 1 + 1 : h[j] = b[1 + j - 1]
    BY <2>1, SubSeqProperties
  <2> HIDE DEF h
  <2>3. Len(h) = i /\ \A j \in 1..i : h[j] = b[j]
    BY <2>2
  <2>4. /\ p \o h \in Seq(Entries) /\ Len(p \o h) = Len(p) + Len(h)
        /\ \A j \in 1..Len(p) + Len(h) : (p \o h)[j] = IF j <= Len(p) THEN p[j] ELSE h[j - Len(p)]
    BY <2>2, ConcatProperties
  <2>5. \A j \in 1..Len(p) + i : (p \o h)[j] = IF j <= Len(p) THEN p[j] ELSE b[j - Len(p)]
    BY <1>1, <2>3, <2>4
  <2> QED BY <2>3, <2>4, <2>5 DEF h
<1> HIDE DEF row
<1>3. ASSUME NEW i \in 1..Len(b)
      PROVE  row(i) \in Seq(Entries) \ {<<>>} /\ EntryOf(row(i)) = b[i] /\ Front(row(i)) = row(i - 1)
  <2>1. i \in 0..Len(b) /\ i - 1 \in 0..Len(b)
    BY <1>1
  <2>2. Len(row(i)) = Len(p) + i /\ row(i)[Len(p) + i] = b[i] /\ row(i) \in Seq(Entries) /\ row(i) # <<>>
    <3>1. /\ row(i) \in Seq(Entries) /\ Len(row(i)) = Len(p) + i
          /\ \A j \in 1..Len(p) + i : row(i)[j] = IF j <= Len(p) THEN p[j] ELSE b[j - Len(p)]
      BY <1>2, <2>1
    <3>2. Len(p) + i \in 1..Len(p) + i /\ ~(Len(p) + i <= Len(p)) /\ (Len(p) + i) - Len(p) = i
      BY <1>1, <2>1
    <3>3. row(i)[Len(p) + i] = b[i]
      BY <3>1, <3>2
    <3>4. row(i) # <<>>
      BY <1>1, <2>1, <3>1, EmptySeq
    <3> QED BY <3>1, <3>3, <3>4
  <2>3. \A j \in 1..Len(row(i)) - 1 : row(i)[j] \in Entries
    BY <2>1, <2>2, <1>1, SeqShape
  <2>4. /\ Front(row(i)) \in Seq(Entries)
        /\ Len(Front(row(i))) = (IF 1 <= Len(row(i)) - 1 THEN Len(row(i)) - 1 - 1 + 1 ELSE 0)
        /\ \A j \in 1..Len(row(i)) - 1 - 1 + 1 : Front(row(i))[j] = row(i)[1 + j - 1]
    BY <1>1, <2>2, <2>3, SubSeqProperties DEF Front
  <2>5. Len(Front(row(i))) = Len(row(i - 1)) /\ \A j \in 1..Len(Front(row(i))) : Front(row(i))[j] = row(i)[j]
    BY <1>1, <1>2, <2>1, <2>2, <2>4
  <2>6. \A j \in 1..Len(Front(row(i))) : Front(row(i))[j] = row(i - 1)[j]
    <3> SUFFICES ASSUME NEW j \in 1..Len(Front(row(i))) PROVE row(i)[j] = row(i - 1)[j]
      BY <2>5
    <3>1. Len(row(i - 1)) = Len(p) + (i - 1) /\ j \in 1..Len(p) + (i - 1) /\ j \in 1..Len(p) + i
      <4>1. Len(row(i - 1)) = Len(p) + (i - 1)
        BY <1>2, <2>1
      <4> QED BY <1>1, <2>1, <2>5, <4>1
    <3>2. row(i)[j] = (IF j <= Len(p) THEN p[j] ELSE b[j - Len(p)])
      BY <1>2, <2>1, <3>1
    <3>3. row(i - 1)[j] = (IF j <= Len(p) THEN p[j] ELSE b[j - Len(p)])
      BY <1>2, <2>1, <3>1
    <3> QED BY <3>2, <3>3
  <2>7. Front(row(i)) = row(i - 1)
    BY <1>2, <2>1, <2>4, <2>5, <2>6, SeqEqual
  <2> QED BY <2>2, <2>7 DEF EntryOf, Last
<1>4. row(0) = p
  <2>1. row(0) \in Seq(Entries) /\ Len(row(0)) = Len(p) /\ \A j \in 1..Len(row(0)) : row(0)[j] = p[j]
    BY <1>1, <1>2
  <2> QED BY <2>1, SeqEqual
<1> DEFINE taken == Rows(p, b)
<1>5. taken = [i \in 1..Len(b) |-> row(i)]
  BY <1>1 DEF Rows, row
<1>6. taken \in Seq(Seq(Entries) \ {<<>>}) /\ Len(taken) = Len(b) /\ \A i \in 1..Len(b) : taken[i] = row(i)
  BY <1>1, <1>3, <1>5
<1> HIDE DEF taken
<1>7. table \in Seq(Seq(Entries) \ {<<>>}) /\ table' = table \o taken /\ Len(table) \in Nat
  BY SeqShape DEF TrailTypes, taken
<1>8. /\ table' \in Seq(Seq(Entries) \ {<<>>}) /\ Len(table') = Len(table) + Len(b)
      /\ \A i \in 1..Len(table') : table'[i] = IF i <= Len(table) THEN table[i] ELSE taken[i - Len(table)]
  <2> DEFINE S == Seq(Entries) \ {<<>>}
  <2> HIDE DEF S
  <2>1. table \in Seq(S) /\ taken \in Seq(S)
    BY <1>6, <1>7 DEF S
  <2>2. /\ table \o taken \in Seq(S) /\ Len(table \o taken) = Len(table) + Len(taken)
        /\ \A i \in 1..Len(table) + Len(taken) :
              (table \o taken)[i] = IF i <= Len(table) THEN table[i] ELSE taken[i - Len(table)]
    BY <2>1, ConcatProperties
  <2> QED BY <1>6, <1>7, <2>2 DEF S
<1>9. \A i \in 1..Len(table) : table'[i] = table[i]
  BY <1>1, <1>7, <1>8
<1>10. \A i \in 1..Len(b) : table'[Len(table) + i] = row(i)
  BY <1>1, <1>6, <1>7, <1>8
<1>11. ASSUME NEW i \in 1..Len(b)
       PROVE  /\ EntryOf(table'[Len(table) + i]) = b[i]
              /\ Front(table'[Len(table) + i]) = IF i = 1 THEN p ELSE table'[Len(table) + i - 1]
  <2>1. EntryOf(table'[Len(table) + i]) = b[i] /\ Front(table'[Len(table) + i]) = row(i - 1)
    BY <1>3, <1>10
  <2>2. CASE i = 1
    BY <1>4, <2>1, <2>2
  <2>3. CASE i # 1
    <3>1. i - 1 \in 1..Len(b) /\ Len(table) + (i - 1) = Len(table) + i - 1
      BY <1>1, <1>7, <2>3
    <3> QED BY <1>10, <2>1, <2>3, <3>1
  <2> QED BY <2>2, <2>3
<1>12. /\ Written = {EntryOf(table[i]) : i \in 1..Len(table)}
       /\ Written' = {EntryOf(table'[i]) : i \in 1..Len(table')}
  <2>1. DOMAIN table = 1..Len(table)
    BY <1>7, SeqShape
  <2>2. DOMAIN table' = 1..Len(table')
    BY <1>8, SeqShape
  <2> QED BY <2>1, <2>2 DEF Written, EntryOf
<1>13. Written' = Written \cup Range(b)
  <2>1. ASSUME NEW x \in Written' PROVE x \in Written \cup Range(b)
    <3>1. PICK i \in 1..Len(table') : EntryOf(table'[i]) = x
      BY <1>12
    <3>2. CASE i <= Len(table)
      BY <1>7, <1>9, <1>12, <3>1, <3>2
    <3>3. CASE ~(i <= Len(table))
      <4>1. i - Len(table) \in 1..Len(b) /\ Len(table) + (i - Len(table)) = i
        BY <1>1, <1>7, <1>8, <3>1, <3>3
      <4>2. b[i - Len(table)] = x
        BY <1>11, <3>1, <4>1
      <4> QED BY <4>1, <4>2, SeqShape
    <3> QED BY <3>2, <3>3
  <2>2. ASSUME NEW x \in Written PROVE x \in Written'
    <3>1. PICK i \in 1..Len(table) : EntryOf(table[i]) = x
      BY <1>12
    <3>2. i \in 1..Len(table') /\ table'[i] = table[i]
      BY <1>1, <1>7, <1>8, <1>9
    <3> QED BY <1>12, <3>1, <3>2
  <2>3. ASSUME NEW x \in Range(b) PROVE x \in Written'
    <3>1. PICK i \in 1..Len(b) : b[i] = x
      BY SeqShape
    <3>2. Len(table) + i \in 1..Len(table') /\ EntryOf(table'[Len(table) + i]) = x
      BY <1>1, <1>7, <1>8, <1>11, <3>1
    <3> QED BY <1>12, <3>2
  <2> QED BY <2>1, <2>2, <2>3
<1> QED BY <1>8, <1>9, <1>11, <1>13

\* An entry that begins to wait, with what it drops from a full buffer.
LEMMA EnqueueKeeps ==
    ASSUME TrailTypes, NEW e \in Entries, e \notin Range(buffer), Enqueue(e)
    PROVE  /\ buffer' \in Seq(Entries) /\ Len(buffer') <= BufferMax /\ IsInjective(buffer')
           /\ Range(buffer) \cup {e} \subseteq Range(buffer') \cup trimmed'
           /\ Range(buffer') \cup trimmed' \subseteq Range(buffer) \cup trimmed \cup {e}
           /\ Range(buffer') \subseteq Range(buffer) \cup {e}
           /\ trimmed \subseteq trimmed' /\ trimmed' \subseteq Entries
           /\ clashed' \in BOOLEAN /\ (clashed => clashed')
           /\ ~clashed' => \/ /\ Len(buffer') = Len(buffer) + 1
                              /\ \A i \in 1..Len(buffer) : buffer'[i] = buffer[i]
                           \/ Flushing = {}
<1> DEFINE longer == Append(buffer, e)
<1>1. /\ longer \in Seq(Entries) /\ Len(longer) = Len(buffer) + 1 /\ IsInjective(longer) /\ longer # <<>>
      /\ Range(longer) = Range(buffer) \cup {e} /\ \A i \in 1..Len(buffer) : longer[i] = buffer[i]
  BY RangeAppend, AppendProperties, SMTT(30) DEF TrailTypes
<1> HIDE DEF longer
<1>2. CASE Len(longer) <= BufferMax
  <2>1. buffer' = longer /\ UNCHANGED <<clashed, trimmed>>
    BY <1>2 DEF Enqueue, longer
  <2> QED BY <1>1, <1>2, <2>1 DEF TrailTypes
<1>3. CASE ~(Len(longer) <= BufferMax)
  <2>1. /\ buffer' = Tail(longer) /\ trimmed' = trimmed \cup {Head(longer)}
        /\ clashed' = (clashed \/ Flushing # {})
    BY <1>3 DEF Enqueue, longer
  <2>2. /\ Head(longer) \in Entries /\ buffer' \in Seq(Entries) /\ Len(buffer') = Len(longer) - 1
        /\ Range(longer) = Range(buffer') \cup {Head(longer)} /\ IsInjective(buffer')
    BY <1>1, <2>1, RangeTail
  <2>3. Len(buffer') <= BufferMax
    BY <1>1, <2>2, SeqShape DEF TrailTypes
  <2> QED BY <1>1, <2>1, <2>2, <2>3 DEF TrailTypes
<1> QED BY <1>2, <1>3
-----------------------------------------------------------------------------
LEMMA TrailInvInit == TrailInit => TrailInv
<1> SUFFICES ASSUME TrailInit PROVE TrailInv
  OBVIOUS
<1>1. table = <<>> /\ buffer = <<>> /\ trimmed = {} /\ Written = {} /\ Range(buffer) = {} /\ Flushing = {}
  BY DEF TrailInit, Written, Range, Flushing, NoFlush
<1>2. TrailTypes
  <2>1. <<>> \in Seq(Entries) /\ <<>> \in Seq(Seq(Entries) \ {<<>>}) /\ Len(<<>>) = 0 /\ IsInjective(<<>>)
    BY EmptySeq DEF IsInjective
  <2>2. prevHash \in [Entries \cup Flushers -> Seq(Entries)]
    BY <2>1 DEF TrailInit, Genesis
  <2>3. flusher \in [Flushers -> [at : {"idle", "started", "chained", "committed"}, batch : Seq(Entries)]]
    BY <2>1 DEF TrailInit, NoFlush
  <2>4. buffer \in Seq(Entries) /\ Len(buffer) <= BufferMax /\ IsInjective(buffer) /\ table \in Seq(Seq(Entries) \ {<<>>})
    BY <1>1, <2>1
  <2>5. /\ writer \in [Entries -> {"new", "chained", "done"}] /\ trailFaults \in 0..MaxTrailFaults
    BY DEF TrailInit
  <2>6. trimmed \subseteq Entries /\ raced \in BOOLEAN /\ clashed \in BOOLEAN
    BY DEF TrailInit
  <2> QED BY <2>2, <2>3, <2>4, <2>5, <2>6 DEF TrailTypes
<1>3. OnlyDone
  <2>1. \A f \in Flushers : Range(flusher[f].batch) = {}
    BY DEF TrailInit, NoFlush, Range
  <2> QED BY <1>1, <2>1 DEF OnlyDone
<1>4. FlushAlone /\ WaitsUnwritten
  BY <1>1 DEF FlushAlone, WaitsUnwritten
<1>5. ActionsKept
  BY DEF ActionsKept, TrailInit
<1>6. WrittenOnce /\ OneChain
  BY <1>1 DEF WrittenOnce, OneChain
<1>7. HoldsLatest
  BY DEF HoldsLatest, TrailInit, NoFlush
<1> QED BY <1>2, <1>3, <1>4, <1>5, <1>6, <1>7 DEF TrailInv

\* What each call reads is a hash.
LEMMA LatestType == TrailTypes => Latest \in Seq(Entries) /\ Genesis \in Seq(Entries)
<1> SUFFICES ASSUME TrailTypes PROVE Latest \in Seq(Entries) /\ Genesis \in Seq(Entries)
  OBVIOUS
<1>1. Genesis \in Seq(Entries)
  BY DEF Genesis
<1>2. CASE table # <<>>
  <2>1. Len(table) \in Nat \ {0} /\ \A i \in 1..Len(table) : table[i] \in Seq(Entries) \ {<<>>}
    BY <1>2, EmptySeq, SeqShape DEF TrailTypes
  <2>2. table[Len(table)] \in Seq(Entries)
    BY <2>1
  <2> QED BY <1>1, <1>2, <2>2 DEF Latest, Last
<1> QED BY <1>1, <1>2 DEF Latest

LEMMA ReadsKeeps ==
    ASSUME TrailTypes, NEW x \in Entries \cup Flushers, ReadsLatest(x)
    PROVE  /\ prevHash' \in [Entries \cup Flushers -> Seq(Entries)]
           /\ \A y \in Entries \cup Flushers : y # x => prevHash'[y] = prevHash[y]
           /\ trailFaults' \in 0..MaxTrailFaults /\ trailFaults <= trailFaults' /\ raced' \in BOOLEAN
           /\ ~raced' => ~raced /\ Committing = {} /\ prevHash'[x] = Latest
<1>1. Latest \in Seq(Entries) /\ Genesis \in Seq(Entries)
  BY LatestType
<1>2. \/ prevHash' = [prevHash EXCEPT ![x] = Latest] /\ UNCHANGED trailFaults
      \/ prevHash' = [prevHash EXCEPT ![x] = Genesis] /\ TrailFault
  BY DEF ReadsLatest
<1>3. /\ prevHash' \in [Entries \cup Flushers -> Seq(Entries)]
      /\ \A y \in Entries \cup Flushers : y # x => prevHash'[y] = prevHash[y]
  BY <1>1, <1>2 DEF TrailTypes
<1>4. trailFaults' \in 0..MaxTrailFaults /\ trailFaults <= trailFaults'
  BY <1>2 DEF TrailTypes, TrailFault
<1>5. raced' = (raced \/ Committing # {} \/ prevHash'[x] # Latest)
  BY DEF ReadsLatest
<1> QED BY <1>3, <1>4, <1>5 DEF TrailTypes

\* A row of the call e gets into the trail, and may at once begin to wait.
LEMMA BatchTypes ==
    ASSUME TrailTypes, NEW f \in Flushers
    PROVE  /\ flusher[f].batch \in Seq(Entries) /\ flusher[f].at \in {"idle", "started", "chained", "committed"}
           /\ Range(flusher[f].batch) \subseteq Entries
<1>1. flusher[f] \in [at : {"idle", "started", "chained", "committed"}, batch : Seq(Entries)]
  BY DEF TrailTypes
<1>2. flusher[f].batch \in Seq(Entries)
  BY <1>1
<1> QED BY <1>1, <1>2, SeqShape

LEMMA LeftKeeps ==
    ASSUME TrailTypes, NEW f \in Flushers
    PROVE  /\ Left(f) \in Seq(Entries) /\ Len(Left(f)) <= BufferMax /\ IsInjective(Left(f))
           /\ Range(Left(f)) \subseteq Range(buffer)
           /\ \A i \in 1..Len(buffer) : i <= Len(flusher[f].batch) \/ buffer[i] \in Range(Left(f))
<1>1. Len(flusher[f].batch) \in Nat /\ buffer \in Seq(Entries) /\ Len(buffer) \in Nat /\ Len(buffer) <= BufferMax
  BY BatchTypes, SeqShape DEF TrailTypes
<1>2. IsInjective(buffer)
  BY DEF TrailTypes
<1>3. /\ Left(f) \in Seq(Entries)
      /\ Len(Left(f)) = (IF Len(flusher[f].batch) <= Len(buffer) THEN Len(buffer) - Len(flusher[f].batch) ELSE 0)
      /\ Range(Left(f)) \subseteq Range(buffer) /\ IsInjective(Left(f))
      /\ \A i \in 1..Len(buffer) : i <= Len(flusher[f].batch) \/ buffer[i] \in Range(Left(f))
  BY <1>1, <1>2, RangeRest DEF Left
<1> QED BY <1>1, <1>3
-----------------------------------------------------------------------------
(* The types, and that only calls that are over have left a row *)

LEMMA TrailTypesStep ==
    ASSUME TrailInv, [TrailNext]_trailVars
    PROVE  TrailTypes' /\ OnlyDone'
<1> USE DEF TrailInv
<1> DEFINE Good == TrailTypes' /\ OnlyDone'
<1>1. \A e \in Entries : writer[e] # "done" => e \notin Range(buffer)
  BY DEF OnlyDone
<1>2. ASSUME NEW e \in Entries, LogsFromThread(e) PROVE Good
  <2>1. e \notin Range(buffer) /\ Enqueue(e) /\ Written' = Written
    BY <1>1, <1>2 DEF LogsFromThread, Written
  <2>2. /\ writer' \in [Entries -> {"new", "chained", "done"}]
        /\ \A d \in Entries : d = e \/ writer[d] = "done" => writer'[d] = "done"
    BY <1>2 DEF LogsFromThread, TrailTypes
  <2>3. TrailTypes'
    BY <1>2, <2>1, <2>2, EnqueueKeeps DEF TrailTypes, LogsFromThread
  <2>4. OnlyDone'
    BY <1>2, <2>1, <2>2, EnqueueKeeps, BatchTypes DEF OnlyDone, LogsFromThread
  <2> QED BY <2>3, <2>4
<1>3. ASSUME NEW e \in Entries, LogsInLoop(e) PROVE Good
  <2>1. /\ writer' \in [Entries -> {"new", "chained", "done"}] /\ writer[e] = "new"
        /\ \A d \in Entries : writer[d] = "done" => writer'[d] = "done"
    BY <1>3 DEF LogsInLoop, TrailTypes
  <2>2. ReadsLatest(e) /\ Written' = Written
    BY <1>3 DEF LogsInLoop, Written
  <2>3. TrailTypes'
    BY <1>3, <2>1, <2>2, ReadsKeeps DEF TrailTypes, LogsInLoop
  <2>4. OnlyDone'
    BY <1>3, <2>1, <2>2, BatchTypes DEF OnlyDone, LogsInLoop
  <2> QED BY <2>3, <2>4
<1>4. ASSUME NEW e \in Entries, Commits(e) PROVE Good
  <2>1. /\ writer' \in [Entries -> {"new", "chained", "done"}]
        /\ \A d \in Entries : d = e \/ writer[d] = "done" => writer'[d] = "done"
    BY <1>4 DEF Commits, TrailTypes
  <2>2. prevHash[e] \in Seq(Entries)
    BY DEF TrailTypes
  <2>3. table' \in Seq(Seq(Entries) \ {<<>>}) /\ Written' = Written \cup {e}
    BY <1>4, <2>2, RowAdded DEF Commits
  <2>4. TrailTypes'
    BY <1>4, <2>1, <2>3 DEF TrailTypes, Commits
  <2>5. OnlyDone'
    BY <1>4, <2>1, <2>3, BatchTypes DEF OnlyDone, Commits
  <2> QED BY <2>4, <2>5
<1>5. ASSUME NEW e \in Entries, CommitFails(e) PROVE Good
  <2>1. /\ writer' \in [Entries -> {"new", "chained", "done"}]
        /\ \A d \in Entries : d = e \/ writer[d] = "done" => writer'[d] = "done"
        /\ e \notin Range(buffer) /\ Enqueue(e)
    BY <1>1, <1>5 DEF CommitFails, TrailTypes
  <2>2. prevHash[e] \in Seq(Entries)
    BY DEF TrailTypes
  <2>3. table' \in Seq(Seq(Entries) \ {<<>>}) /\ Written' \subseteq Written \cup {e}
    <3>1. CASE table' = table
      BY <3>1 DEF Written, TrailTypes
    <3>2. CASE table' = Append(table, Append(prevHash[e], e))
      BY <3>2, <2>2, RowAdded
    <3> QED BY <1>5, <3>1, <3>2 DEF CommitFails
  <2>4. TrailTypes'
    <3>1. trailFaults' \in 0..MaxTrailFaults
      BY <1>5 DEF CommitFails, TrailFault, TrailTypes
    <3> QED BY <1>5, <2>1, <2>3, <3>1, EnqueueKeeps DEF TrailTypes, CommitFails
  <2>5. OnlyDone'
    BY <1>5, <2>1, <2>3, EnqueueKeeps, BatchTypes DEF OnlyDone, CommitFails
  <2> QED BY <2>4, <2>5
<1>6. ASSUME NEW f \in Flushers, FlushStarts(f) PROVE Good
  <2>1. /\ flusher' \in [Flushers -> [at : {"idle", "started", "chained", "committed"}, batch : Seq(Entries)]]
        /\ \A g \in Flushers : flusher'[g].batch = IF g = f THEN buffer ELSE flusher[g].batch
    BY <1>6 DEF FlushStarts, TrailTypes
  <2>2. Written' = Written /\ clashed' \in BOOLEAN
    BY <1>6 DEF FlushStarts, Written, TrailTypes
  <2>3. TrailTypes'
    BY <1>6, <2>1, <2>2 DEF TrailTypes, FlushStarts
  <2>4. OnlyDone'
    BY <1>6, <2>1, <2>2 DEF OnlyDone, FlushStarts
  <2> QED BY <2>3, <2>4
<1>7. ASSUME NEW f \in Flushers, FlushChains(f) PROVE Good
  <2>1. /\ flusher' \in [Flushers -> [at : {"idle", "started", "chained", "committed"}, batch : Seq(Entries)]]
        /\ \A g \in Flushers : flusher'[g].batch = flusher[g].batch
    BY <1>7 DEF FlushChains, Flush, TrailTypes
  <2>2. Written' = Written /\ ReadsLatest(f)
    BY <1>7 DEF FlushChains, Written
  <2>3. TrailTypes'
    BY <1>7, <2>1, <2>2, ReadsKeeps DEF TrailTypes, FlushChains
  <2>4. OnlyDone'
    BY <1>7, <2>1, <2>2 DEF OnlyDone, FlushChains
  <2> QED BY <2>3, <2>4
<1>8. ASSUME NEW f \in Flushers, FlushCommits(f) \/ FlushFails(f) PROVE Good
  <2>1. /\ flusher' \in [Flushers -> [at : {"idle", "started", "chained", "committed"}, batch : Seq(Entries)]]
        /\ \A g \in Flushers : flusher'[g].batch \in {flusher[g].batch, <<>>}
    <3>1. CASE FlushCommits(f)
      BY <3>1 DEF FlushCommits, Flush, TrailTypes
    <3>2. CASE FlushFails(f)
      BY <3>2 DEF FlushFails, NoFlush, TrailTypes
    <3> QED BY <1>8, <3>1, <3>2
  <2>2. prevHash[f] \in Seq(Entries) /\ flusher[f].batch \in Seq(Entries)
    BY BatchTypes DEF TrailTypes
  <2>3. table' \in Seq(Seq(Entries) \ {<<>>}) /\ Written' \subseteq Written \cup Range(flusher[f].batch)
    <3>1. CASE table' = table
      BY <3>1 DEF Written, TrailTypes
    <3>2. CASE table' = table \o Rows(prevHash[f], flusher[f].batch)
      BY <3>2, <2>2, RowsAdded
    <3> QED BY <1>8, <3>1, <3>2 DEF FlushCommits, FlushFails
  <2>4. trailFaults' \in 0..MaxTrailFaults
    BY <1>8 DEF FlushCommits, FlushFails, TrailFault, TrailTypes
  <2>5. TrailTypes'
    BY <1>8, <2>1, <2>3, <2>4 DEF TrailTypes, FlushCommits, FlushFails
  <2>6. Range(<<>>) = {}
    BY DEF Range
  <2>7. OnlyDone'
    BY <1>8, <2>1, <2>3, <2>6, BatchTypes DEF OnlyDone, FlushCommits, FlushFails
  <2> QED BY <2>5, <2>7
<1>9. ASSUME NEW f \in Flushers, FlushEnds(f) PROVE Good
  <2>1. /\ flusher' \in [Flushers -> [at : {"idle", "started", "chained", "committed"}, batch : Seq(Entries)]]
        /\ \A g \in Flushers : flusher'[g].batch \in {flusher[g].batch, <<>>}
    BY <1>9 DEF FlushEnds, NoFlush, TrailTypes
  <2>2. Written' = Written /\ buffer' = Left(f) /\ Range(<<>>) = {}
    BY <1>9 DEF FlushEnds, Written, Range
  <2>3. TrailTypes'
    BY <1>9, <2>1, <2>2, LeftKeeps DEF TrailTypes, FlushEnds
  <2>4. OnlyDone'
    BY <1>9, <2>1, <2>2, LeftKeeps DEF OnlyDone, FlushEnds
  <2> QED BY <2>3, <2>4
<1>10. CASE UNCHANGED trailVars
  BY <1>10 DEF trailVars, TrailTypes, OnlyDone, Written
<1> QED BY <1>2, <1>3, <1>4, <1>5, <1>6, <1>7, <1>8, <1>9, <1>10 DEF TrailNext, FlushStep
-----------------------------------------------------------------------------
(* Nothing is lost, and nothing is written twice *)

TrailKept == FlushAlone /\ ActionsKept /\ WaitsUnwritten /\ WrittenOnce

\* A call that is over leaves its entry in the buffer, and perhaps in the trail.
LEMMA EnqueuingKeeps ==
    ASSUME TrailInv, NEW e \in Entries, writer[e] # "done", Enqueue(e), UNCHANGED flusher,
           \A d \in Entries : writer'[d] = "done" => d = e \/ writer[d] = "done",
           Written \subseteq Written', trailFaults <= trailFaults', trailFaults' \in Nat,
           table' = table \/ trailFaults' # 0
    PROVE  TrailKept'
<1> USE DEF TrailInv
<1>1. e \notin Range(buffer) /\ e \notin Written
  BY DEF OnlyDone
<1>2. /\ buffer' \in Seq(Entries) /\ Range(buffer) \cup {e} \subseteq Range(buffer') \cup trimmed'
      /\ Range(buffer') \subseteq Range(buffer) \cup {e} /\ trimmed \subseteq trimmed'
      /\ clashed => clashed'
      /\ ~clashed' => \/ /\ Len(buffer') = Len(buffer) + 1
                         /\ \A i \in 1..Len(buffer) : buffer'[i] = buffer[i]
                      \/ Flushing = {}
  BY <1>1, EnqueueKeeps
<1>3. trailFaults \in Nat
  BY DEF TrailTypes
<1>4. FlushAlone'
  <2> SUFFICES ASSUME ~clashed', NEW f \in Flushing
               PROVE  /\ \A g \in Flushing : g = f
                      /\ Len(flusher[f].batch) <= Len(buffer')
                      /\ \A i \in 1..Len(flusher[f].batch) : buffer'[i] = flusher[f].batch[i]
                      /\ flusher[f].at = "committed" => Range(flusher[f].batch) \subseteq Written'
    BY DEF FlushAlone, Flushing
  <2>1. /\ \A g \in Flushing : g = f
        /\ Len(flusher[f].batch) <= Len(buffer)
        /\ \A i \in 1..Len(flusher[f].batch) : buffer[i] = flusher[f].batch[i]
        /\ flusher[f].at = "committed" => Range(flusher[f].batch) \subseteq Written
    BY <1>2 DEF FlushAlone
  <2>2. Len(buffer') = Len(buffer) + 1 /\ \A i \in 1..Len(buffer) : buffer'[i] = buffer[i]
    BY <1>2
  <2>3. Len(flusher[f].batch) \in Nat /\ Len(buffer) \in Nat
    BY BatchTypes, SeqShape DEF Flushing, TrailTypes
  <2> QED BY <2>1, <2>2, <2>3
<1>5. ActionsKept'
  BY <1>2 DEF ActionsKept
<1>6. WaitsUnwritten'
  <2> SUFFICES ASSUME ~clashed', trailFaults' = 0, NEW d \in Written' \cap Range(buffer')
               PROVE  \E f \in Flushers : flusher[f].at = "committed" /\ d \in Range(flusher[f].batch)
    BY DEF WaitsUnwritten
  <2>1. trailFaults = 0 /\ ~clashed /\ table' = table
    BY <1>2, <1>3
  <2>2. d \in Written
    BY <2>1 DEF Written
  <2>3. d \in Range(buffer)
    BY <1>1, <1>2, <2>2
  <2> QED BY <2>1, <2>2, <2>3 DEF WaitsUnwritten
<1>7. WrittenOnce'
  BY <1>2, <1>3 DEF WrittenOnce
<1> QED BY <1>4, <1>5, <1>6, <1>7 DEF TrailKept

\* The rows that are new have entries that were not in the trail.
LEMMA OnceMore ==
    ASSUME TrailTypes, WrittenOnce, NEW b \in Seq(Entries), IsInjective(b), Range(b) \cap Written = {},
           clashed' = clashed, trailFaults' = trailFaults, table' \in Seq(Seq(Entries) \ {<<>>}),
           Len(table') = Len(table) + Len(b), \A i \in 1..Len(table) : table'[i] = table[i],
           \A i \in 1..Len(b) : EntryOf(table'[Len(table) + i]) = b[i]
    PROVE  WrittenOnce'
<1>1. Len(table) \in Nat /\ DOMAIN table = 1..Len(table)
  BY SeqShape DEF TrailTypes
<1>2. DOMAIN table' = 1..Len(table')
  BY SeqShape
<1>3. Len(b) \in Nat /\ DOMAIN b = 1..Len(b)
  BY SeqShape
<1> SUFFICES ASSUME ~clashed, trailFaults = 0, NEW i \in 1..Len(table'), NEW j \in 1..Len(table'),
                    EntryOf(table'[i]) = EntryOf(table'[j])
             PROVE  i = j
  BY <1>2 DEF WrittenOnce, EntryOf
<1>4. ASSUME NEW k \in 1..Len(table'), k <= Len(table)
      PROVE  k \in DOMAIN table /\ EntryOf(table'[k]) = EntryOf(table[k]) /\ EntryOf(table'[k]) \in Written
  BY <1>1, <1>4 DEF Written
<1>5. ASSUME NEW k \in 1..Len(table'), ~(k <= Len(table))
      PROVE  k - Len(table) \in 1..Len(b) /\ EntryOf(table'[k]) = b[k - Len(table)] /\ EntryOf(table'[k]) \in Range(b)
  <2>1. k - Len(table) \in 1..Len(b) /\ Len(table) + (k - Len(table)) = k
    BY <1>1, <1>3, <1>5
  <2>2. EntryOf(table'[k]) = b[k - Len(table)]
    BY <2>1
  <2> QED BY <2>1, <2>2, SeqShape
<1>6. CASE i <= Len(table) /\ j <= Len(table)
  BY <1>4, <1>6 DEF WrittenOnce
<1>7. CASE ~(i <= Len(table)) /\ ~(j <= Len(table))
  <2>1. b[i - Len(table)] = b[j - Len(table)] /\ i - Len(table) \in DOMAIN b /\ j - Len(table) \in DOMAIN b
    BY <1>3, <1>5, <1>7
  <2>2. i - Len(table) = j - Len(table)
    BY <2>1 DEF IsInjective
  <2> QED BY <1>1, <2>2
<1>8. CASE (i <= Len(table)) # (j <= Len(table))
  BY <1>4, <1>5, <1>8
<1> QED BY <1>6, <1>7, <1>8

LEMMA KeptStep ==
    ASSUME TrailInv, [TrailNext]_trailVars
    PROVE  TrailKept'
<1> USE DEF TrailInv
<1>0. \A f \in Flushers : f \in Flushing <=> flusher[f].at # "idle"
  BY DEF Flushing
<1>1. ASSUME NEW e \in Entries, LogsFromThread(e) PROVE TrailKept'
  <2>1. /\ writer[e] # "done" /\ Enqueue(e) /\ UNCHANGED flusher /\ Written' = Written
        /\ trailFaults' = trailFaults /\ table' = table /\ trailFaults \in Nat
        /\ \A d \in Entries : writer'[d] = "done" => d = e \/ writer[d] = "done"
    BY <1>1 DEF LogsFromThread, TrailTypes, Written
  <2> QED BY <2>1, EnqueuingKeeps
<1>2. ASSUME NEW e \in Entries, LogsInLoop(e) PROVE TrailKept'
  <2>1. /\ UNCHANGED <<table, buffer, flusher, clashed, trimmed>> /\ Written' = Written /\ Flushing' = Flushing
        /\ \A d \in Entries : writer'[d] = "done" => writer[d] = "done"
    BY <1>2 DEF LogsInLoop, TrailTypes, Written, Flushing
  <2>2. trailFaults' = 0 => trailFaults = 0
    BY <1>2, ReadsKeeps DEF LogsInLoop, TrailTypes
  <2> QED BY <2>1, <2>2 DEF TrailKept, FlushAlone, ActionsKept, WaitsUnwritten, WrittenOnce, EntryOf
<1>3. ASSUME NEW e \in Entries, Commits(e) PROVE TrailKept'
  <2>1. prevHash[e] \in Seq(Entries) /\ writer[e] # "done" /\ table' = Append(table, Append(prevHash[e], e))
    BY <1>3 DEF Commits, TrailTypes
  <2>2. /\ table' \in Seq(Seq(Entries) \ {<<>>}) /\ Len(table') = Len(table) + 1
        /\ \A i \in 1..Len(table) : table'[i] = table[i]
        /\ EntryOf(table'[Len(table) + 1]) = e /\ Written' = Written \cup {e}
    BY <2>1, RowAdded
  <2>3. e \notin Written /\ e \notin Range(buffer)
    BY <2>1 DEF OnlyDone
  <2>4. UNCHANGED <<buffer, flusher, clashed, trimmed, trailFaults>> /\ Flushing' = Flushing
        /\ \A d \in Entries : writer'[d] = "done" => d = e \/ writer[d] = "done"
    BY <1>3 DEF Commits, TrailTypes, Flushing
  <2>5. WrittenOnce'
    <3>1. <<e>> \in Seq(Entries) /\ Len(<<e>>) = 1 /\ <<e>>[1] = e /\ IsInjective(<<e>>) /\ Range(<<e>>) = {e}
      BY DEF IsInjective, Range
    <3>2. \A i \in 1..Len(<<e>>) : EntryOf(table'[Len(table) + i]) = <<e>>[i]
      BY <2>2, <3>1 DEF EntryOf
    <3> HIDE DEF TrailInv
    <3>3. Len(table') = Len(table) + Len(<<e>>) /\ Range(<<e>>) \cap Written = {}
      BY <2>2, <2>3, <3>1
    <3>4. TrailTypes /\ WrittenOnce
      BY DEF TrailInv
    <3> QED BY <2>2, <2>4, <3>1, <3>2, <3>3, <3>4, OnceMore
  <2>6. FlushAlone' /\ ActionsKept'
    BY <2>2, <2>4 DEF FlushAlone, ActionsKept
  <2>7. WaitsUnwritten'
    BY <2>2, <2>3, <2>4 DEF WaitsUnwritten
  <2> QED BY <2>5, <2>6, <2>7 DEF TrailKept
<1>4. ASSUME NEW e \in Entries, CommitFails(e) PROVE TrailKept'
  <2>1. /\ writer[e] # "done" /\ Enqueue(e) /\ UNCHANGED flusher /\ prevHash[e] \in Seq(Entries)
        /\ trailFaults' = trailFaults + 1 /\ trailFaults \in Nat
        /\ \A d \in Entries : writer'[d] = "done" => d = e \/ writer[d] = "done"
    BY <1>4 DEF CommitFails, TrailTypes, TrailFault
  <2>2. Written \subseteq Written'
    <3>1. CASE table' = table
      BY <3>1 DEF Written
    <3>2. CASE table' = Append(table, Append(prevHash[e], e))
      BY <2>1, <3>2, RowAdded
    <3> QED BY <1>4, <3>1, <3>2 DEF CommitFails
  <2> QED BY <2>1, <2>2, EnqueuingKeeps
<1>5. ASSUME NEW f \in Flushers, FlushStarts(f) PROVE TrailKept'
  <2>1. /\ UNCHANGED <<writer, table, buffer, trailFaults, trimmed>> /\ Written' = Written
        /\ clashed' = (clashed \/ Flushing # {}) /\ flusher[f].at = "idle"
        /\ flusher'[f].at = "started" /\ flusher'[f].batch = buffer
        /\ \A g \in Flushers : g # f => flusher'[g] = flusher[g]
    BY <1>5 DEF FlushStarts, TrailTypes, Written
  <2>2. ASSUME ~clashed' PROVE ~clashed /\ Flushing = {} /\ Flushing' = {f}
    <3>1. ~clashed /\ Flushing = {}
      BY <2>1, <2>2
    <3>2. \A g \in Flushers : flusher'[g].at # "idle" <=> g = f
      BY <2>1, <3>1, <1>0
    <3> QED BY <3>1, <3>2 DEF Flushing
  <2>3. FlushAlone'
    <3>1. SUFFICES ASSUME ~clashed', NEW g \in Flushing'
                 PROVE  /\ \A h \in Flushing' : h = g
                        /\ Len(flusher'[g].batch) <= Len(buffer)
                        /\ \A i \in 1..Len(flusher'[g].batch) : buffer[i] = flusher'[g].batch[i]
                        /\ flusher'[g].at = "committed" => Range(flusher'[g].batch) \subseteq Written
      BY <2>1 DEF FlushAlone
    <3>2. g = f /\ Flushing' = {f}
      BY <2>2, <3>1
    <3>3. Len(buffer) \in Nat
      BY SeqShape DEF TrailTypes
    <3> QED BY <2>1, <3>2, <3>3
  <2>4. ActionsKept' /\ WrittenOnce'
    BY <2>1, <2>2 DEF ActionsKept, WrittenOnce, EntryOf
  <2>5. WaitsUnwritten'
    <3> SUFFICES ASSUME ~clashed', trailFaults = 0, NEW e \in Written \cap Range(buffer)
                 PROVE  FALSE
      BY <2>1 DEF WaitsUnwritten
    <3>1. \E g \in Flushers : flusher[g].at = "committed"
      BY <2>2 DEF WaitsUnwritten
    <3> QED BY <2>2, <3>1, <1>0
  <2> QED BY <2>3, <2>4, <2>5 DEF TrailKept
<1>6. ASSUME NEW f \in Flushers, FlushChains(f) PROVE TrailKept'
  <2>1. /\ UNCHANGED <<writer, table, buffer, clashed, trimmed>> /\ Written' = Written
        /\ \A g \in Flushers : /\ flusher'[g].batch = flusher[g].batch
                               /\ flusher'[g].at # "idle" <=> flusher[g].at # "idle"
                               /\ flusher'[g].at = "committed" <=> flusher[g].at = "committed"
    BY <1>6 DEF FlushChains, Flush, TrailTypes, Written
  <2>2. trailFaults' = 0 => trailFaults = 0
    BY <1>6, ReadsKeeps DEF FlushChains, TrailTypes
  <2>3. Flushing' = Flushing /\ Flushing \subseteq Flushers
    BY <2>1 DEF Flushing
  <2>4. FlushAlone'
    <3> SUFFICES ASSUME ~clashed, NEW g \in Flushing
                 PROVE  /\ \A h \in Flushing : h = g
                        /\ Len(flusher[g].batch) <= Len(buffer)
                        /\ \A i \in 1..Len(flusher[g].batch) : buffer[i] = flusher[g].batch[i]
                        /\ flusher[g].at = "committed" => Range(flusher[g].batch) \subseteq Written
      BY <2>1, <2>3 DEF FlushAlone
    <3> QED BY DEF FlushAlone
  <2>5. ActionsKept' /\ WaitsUnwritten' /\ WrittenOnce'
    BY <2>1, <2>2 DEF ActionsKept, WaitsUnwritten, WrittenOnce, EntryOf
  <2> QED BY <2>4, <2>5 DEF TrailKept
<1>7. ASSUME NEW f \in Flushers, FlushCommits(f) PROVE TrailKept'
  <2> DEFINE b == flusher[f].batch
  <2>1. /\ UNCHANGED <<writer, buffer, clashed, trimmed, trailFaults>> /\ flusher[f].at = "chained"
        /\ table' = table \o Rows(prevHash[f], b) /\ prevHash[f] \in Seq(Entries) /\ b \in Seq(Entries)
        /\ \A g \in Flushers : /\ flusher'[g].batch = flusher[g].batch
                               /\ flusher'[g].at = IF g = f THEN "committed" ELSE flusher[g].at
    BY <1>7, BatchTypes DEF FlushCommits, Flush, TrailTypes
  <2>2. /\ table' \in Seq(Seq(Entries) \ {<<>>}) /\ Len(table') = Len(table) + Len(b)
        /\ \A i \in 1..Len(table) : table'[i] = table[i]
        /\ \A i \in 1..Len(b) : EntryOf(table'[Len(table) + i]) = b[i]
        /\ Written' = Written \cup Range(b)
    BY <2>1, RowsAdded
  <2>3. Flushing' = Flushing /\ f \in Flushing
    BY <2>1 DEF Flushing
  <2>4. ASSUME ~clashed
        PROVE  /\ \A g \in Flushing : g = f
               /\ Len(b) <= Len(buffer) /\ \A i \in 1..Len(b) : buffer[i] = b[i]
    BY <2>3, <2>4 DEF FlushAlone
  <2>5. FlushAlone'
    <3> SUFFICES ASSUME ~clashed, NEW g \in Flushing
                 PROVE  /\ \A h \in Flushing : h = g
                        /\ Len(flusher[g].batch) <= Len(buffer)
                        /\ \A i \in 1..Len(flusher[g].batch) : buffer[i] = flusher[g].batch[i]
                        /\ Range(flusher[g].batch) \subseteq Written'
      BY <2>1, <2>3, <1>0 DEF FlushAlone
    <3> QED BY <2>2, <2>4
  <2>6. ActionsKept'
    BY <2>1, <2>2 DEF ActionsKept
  <2>7. ASSUME ~clashed, trailFaults = 0
        PROVE  \A e \in Written : e \notin Range(buffer)
    <3> SUFFICES ASSUME NEW e \in Written \cap Range(buffer) PROVE FALSE
      OBVIOUS
    <3>1. PICK g \in Flushers : flusher[g].at = "committed"
      BY <2>7 DEF WaitsUnwritten
    <3>2. g = f
      BY <2>4, <2>7, <3>1, <1>0
    <3> QED BY <2>1, <3>1, <3>2
  <2>8. WaitsUnwritten'
    <3> SUFFICES ASSUME ~clashed, trailFaults = 0, NEW e \in Written' \cap Range(buffer)
                 PROVE  e \in Range(b)
      BY <2>1 DEF WaitsUnwritten
    <3> QED BY <2>2, <2>7
  <2>9. WrittenOnce'
    <3>1. CASE ~clashed /\ trailFaults = 0
      <4>1. buffer \in Seq(Entries) /\ \A i, j \in 1..Len(buffer) : buffer[i] = buffer[j] => i = j
        BY SeqShape DEF TrailTypes, IsInjective
      <4>2. Len(b) \in Nat /\ Len(buffer) \in Nat /\ DOMAIN b = 1..Len(b)
        BY <2>1, <4>1, SeqShape
      <4>3. IsInjective(b)
        BY <2>4, <3>1, <4>1, <4>2 DEF IsInjective
      <4>4. Range(b) \subseteq Range(buffer)
        <5> SUFFICES ASSUME NEW i \in 1..Len(b) PROVE b[i] \in Range(buffer)
          BY <4>2 DEF Range
        <5>1. i \in 1..Len(buffer) /\ buffer[i] = b[i]
          BY <2>4, <3>1, <4>2
        <5> QED BY <4>1, <5>1, SeqShape
      <4>5. Range(b) \cap Written = {}
        BY <2>7, <3>1, <4>4
      <4>6. TrailTypes /\ WrittenOnce
        OBVIOUS
      <4> HIDE DEF TrailInv, b
      <4> QED BY <2>1, <2>2, <4>3, <4>5, <4>6, OnceMore
    <3>2. CASE ~(~clashed /\ trailFaults = 0)
      BY <2>1, <3>2 DEF WrittenOnce
    <3> QED BY <3>1, <3>2
  <2> QED BY <2>5, <2>6, <2>8, <2>9 DEF TrailKept
<1>8. ASSUME NEW f \in Flushers, FlushFails(f) PROVE TrailKept'
  <2>1. /\ UNCHANGED <<writer, buffer, clashed, trimmed>> /\ trailFaults' # 0 /\ flusher[f].at = "chained"
        /\ flusher'[f].at = "idle" /\ \A g \in Flushers : g # f => flusher'[g] = flusher[g]
    BY <1>8 DEF FlushFails, TrailFault, TrailTypes, NoFlush
  <2>2. Written \subseteq Written'
    <3>1. CASE table' = table
      BY <3>1 DEF Written
    <3>2. CASE table' = table \o Rows(prevHash[f], flusher[f].batch)
      <4>1. prevHash[f] \in Seq(Entries) /\ flusher[f].batch \in Seq(Entries)
        BY BatchTypes DEF TrailTypes
      <4> QED BY <3>2, <4>1, RowsAdded
    <3> QED BY <1>8, <3>1, <3>2 DEF FlushFails
  <2>3. \A g \in Flushing' : g \in Flushing /\ g # f /\ flusher'[g] = flusher[g]
    BY <2>1 DEF Flushing
  <2>4. FlushAlone'
    BY <2>1, <2>2, <2>3, <1>0 DEF FlushAlone
  <2>5. ActionsKept' /\ WaitsUnwritten' /\ WrittenOnce'
    BY <2>1, <2>2 DEF ActionsKept, WaitsUnwritten, WrittenOnce
  <2> QED BY <2>4, <2>5 DEF TrailKept
<1>9. ASSUME NEW f \in Flushers, FlushEnds(f) PROVE TrailKept'
  <2> DEFINE b == flusher[f].batch
  <2>1. /\ UNCHANGED <<writer, table, clashed, trimmed, trailFaults>> /\ flusher[f].at = "committed"
        /\ flusher'[f].at = "idle" /\ \A g \in Flushers : g # f => flusher'[g] = flusher[g]
        /\ buffer' = Left(f) /\ Written' = Written /\ f \in Flushing
    BY <1>9 DEF FlushEnds, TrailTypes, NoFlush, Written, Flushing
  <2>2. \A g \in Flushing' : g \in Flushing /\ g # f /\ flusher'[g] = flusher[g]
    BY <2>1 DEF Flushing
  <2>3. ASSUME ~clashed
        PROVE  /\ Flushing' = {} /\ Range(b) \subseteq Written /\ Len(b) <= Len(buffer)
               /\ \A i \in 1..Len(b) : buffer[i] = b[i]
    BY <2>1, <2>2, <2>3 DEF FlushAlone
  <2>4. FlushAlone'
    BY <2>1, <2>3 DEF FlushAlone
  <2>5. /\ Range(buffer') \subseteq Range(buffer)
        /\ \A i \in 1..Len(buffer) : i <= Len(b) \/ buffer[i] \in Range(buffer')
    BY <2>1, LeftKeeps
  <2>6. b \in Seq(Entries) /\ Len(b) \in Nat /\ buffer \in Seq(Entries) /\ Len(buffer) \in Nat
    BY BatchTypes, SeqShape DEF TrailTypes
  <2>7. ActionsKept'
    <3> SUFFICES ASSUME ~clashed, NEW e \in Entries, writer[e] = "done", e \in Range(buffer)
                 PROVE  e \in Written \cup Range(buffer')
      BY <2>1 DEF ActionsKept
    <3>1. PICK i \in 1..Len(buffer) : buffer[i] = e
      BY <2>6, SeqShape
    <3>2. CASE i <= Len(b)
      <4>1. i \in 1..Len(b) /\ b[i] = e
        BY <2>3, <2>6, <3>1, <3>2
      <4> QED BY <2>3, <2>6, <4>1, SeqShape
    <3> QED BY <2>5, <3>1, <3>2
  <2>8. WaitsUnwritten'
    <3> SUFFICES ASSUME ~clashed, trailFaults = 0, NEW e \in Written, e \in Range(buffer') PROVE FALSE
      BY <2>1 DEF WaitsUnwritten
    <3>1. PICK g \in Flushers : flusher[g].at = "committed" /\ e \in Range(flusher[g].batch)
      BY <2>5 DEF WaitsUnwritten
    <3>2. g = f
      BY <2>1, <3>1, <1>0 DEF FlushAlone
    <3>3. PICK i \in 1..Len(b) : b[i] = e
      BY <2>6, <3>1, <3>2, SeqShape
    <3>4. i \in 1..Len(buffer) /\ buffer[i] = e
      BY <2>3, <2>6, <3>3
    <3>5. Left(f) = SubSeq(buffer, Len(b) + 1, Len(buffer)) /\ Len(Left(f)) = Len(buffer) - Len(b)
          /\ Left(f) \in Seq(Entries) /\ \A j \in 1..Len(Left(f)) : Left(f)[j] = buffer[Len(b) + j]
      BY <2>3, <2>6, RangeRest DEF Left
    <3>6. PICK j \in 1..Len(Left(f)) : Left(f)[j] = e
      BY <2>1, <3>5, SeqShape
    <3>7. Len(b) + j \in 1..Len(buffer) /\ buffer[Len(b) + j] = e /\ Len(b) + j # i
      <4>1. Len(Left(f)) \in Nat /\ Len(b) <= Len(buffer)
        BY <2>3, <3>5, SeqShape
      <4> HIDE DEF b
      <4>2. Len(b) + j \in 1..Len(buffer) /\ Len(b) + j # i
        BY <2>6, <3>3, <3>5, <3>6, <4>1
      <4> QED BY <3>5, <3>6, <4>2
    <3>8. \A k, l \in 1..Len(buffer) : buffer[k] = buffer[l] => k = l
      <4>1. IsInjective(buffer) /\ DOMAIN buffer = 1..Len(buffer)
        BY <2>6, SeqShape DEF TrailTypes
      <4> QED BY <4>1 DEF IsInjective
    <3> QED BY <3>4, <3>7, <3>8
  <2>9. WrittenOnce'
    BY <2>1 DEF WrittenOnce, EntryOf
  <2> QED BY <2>4, <2>7, <2>8, <2>9 DEF TrailKept
<1>10. CASE UNCHANGED trailVars
  BY <1>10 DEF trailVars, TrailKept, FlushAlone, ActionsKept, WaitsUnwritten, WrittenOnce, Flushing, Written, EntryOf
<1> QED BY <1>1, <1>2, <1>3, <1>4, <1>5, <1>6, <1>7, <1>8, <1>9, <1>10 DEF TrailNext, FlushStep
-----------------------------------------------------------------------------
(* One chain *)

TrailChained == HoldsLatest /\ OneChain

\* A call, or a flush, reads the newest hash alone.
LEMMA ReadingKeepsChain ==
    ASSUME TrailInv, UNCHANGED table, ~raced' => ~raced /\ Committing = {},
           \/ \E e \in Entries :
                /\ \A d \in Entries : writer'[d] = "chained" => d = e
                /\ ~raced' => prevHash'[e] = Latest
                /\ UNCHANGED flusher
           \/ \E f \in Flushers :
                /\ \A g \in Flushers : flusher'[g].at = "chained" => g = f \/ flusher[g].at = "chained"
                /\ ~raced' => prevHash'[f] = Latest
                /\ UNCHANGED writer
    PROVE  TrailChained'
<1> USE DEF TrailInv
<1>1. Latest' = Latest
  BY DEF Latest
<1>2. OneChain'
  BY DEF OneChain
<1>3. HoldsLatest'
  <2> SUFFICES ASSUME ~raced' PROVE
        /\ \A e, d \in Entries : writer'[e] = "chained" /\ writer'[d] = "chained" => e = d
        /\ \A f, g \in Flushers : flusher'[f].at = "chained" /\ flusher'[g].at = "chained" => f = g
        /\ \A e \in Entries, f \in Flushers : ~(writer'[e] = "chained" /\ flusher'[f].at = "chained")
        /\ \A e \in Entries : writer'[e] = "chained" => prevHash'[e] = Latest
        /\ \A f \in Flushers : flusher'[f].at = "chained" => prevHash'[f] = Latest
    BY <1>1 DEF HoldsLatest
  <2>1. /\ \A e \in Entries : writer[e] # "chained"
        /\ \A f \in Flushers : flusher[f].at # "chained"
    BY DEF Committing
  <2> QED BY <2>1
<1> QED BY <1>2, <1>3 DEF TrailChained

\* Who commits is the only one that holds a hash, and chains its rows to the newest.
LEMMA CommittingKeepsChain ==
    ASSUME TrailInv, UNCHANGED raced, NEW p \in Seq(Entries), NEW n \in Nat,
           ~raced => p = Latest,
           table' \in Seq(Seq(Entries) \ {<<>>}), Len(table') = Len(table) + n,
           \A i \in 1..Len(table) : table'[i] = table[i],
           \A i \in 1..n : Front(table'[Len(table) + i]) = IF i = 1 THEN p ELSE table'[Len(table) + i - 1],
           ~raced => /\ \A e \in Entries : writer'[e] # "chained"
                     /\ \A f \in Flushers : flusher'[f].at # "chained"
    PROVE  TrailChained'
<1> USE DEF TrailInv
<1>1. Len(table) \in Nat /\ DOMAIN table = 1..Len(table) /\ DOMAIN table' = 1..Len(table')
  BY SeqShape DEF TrailTypes
<1>2. HoldsLatest'
  BY DEF HoldsLatest
<1>3. OneChain'
  <2> SUFFICES ASSUME ~raced, NEW i \in 1..Len(table')
               PROVE  Front(table'[i]) = IF i = 1 THEN Genesis ELSE table'[i - 1]
    BY <1>1 DEF OneChain
  <2>1. CASE i <= Len(table)
    <3>1. i \in 1..Len(table) /\ (i # 1 => i - 1 \in 1..Len(table))
      BY <1>1, <2>1
    <3>2. Front(table[i]) = IF i = 1 THEN Genesis ELSE table[i - 1]
      BY <1>1, <3>1 DEF OneChain
    <3> QED BY <3>1, <3>2
  <2>2. CASE ~(i <= Len(table))
    <3> DEFINE j == i - Len(table)
    <3>1. j \in 1..n /\ Len(table) + j = i
      BY <1>1, <2>2
    <3> HIDE DEF j
    <3>2. Front(table'[i]) = IF j = 1 THEN p ELSE table'[i - 1]
      BY <3>1
    <3>3. CASE j # 1
      <4>1. i # 1
        BY <1>1, <3>1, <3>3
      <4> QED BY <3>2, <3>3, <4>1
    <3>4. CASE j = 1 /\ Len(table) = 0
      <4>1. i = 1 /\ table = <<>>
        BY <1>1, <3>1, <3>4, EmptySeq DEF TrailTypes
      <4> QED BY <3>2, <3>4, <4>1 DEF Latest
    <3>5. CASE j = 1 /\ Len(table) # 0
      <4>1. i # 1 /\ i - 1 = Len(table) /\ Len(table) \in 1..Len(table) /\ table # <<>>
        BY <1>1, <3>1, <3>5, EmptySeq
      <4>2. Front(table'[i]) = Latest /\ Latest = table[Len(table)]
        BY <3>2, <3>5, <4>1 DEF Latest, Last
      <4> QED BY <4>1, <4>2
    <3> QED BY <3>3, <3>4, <3>5
  <2> QED BY <2>1, <2>2
<1> QED BY <1>2, <1>3 DEF TrailChained

\* Steps that leave the trail, and who holds what, alone.
LEMMA ElsewhereKeepsChain ==
    ASSUME TrailInv, UNCHANGED <<table, raced, prevHash>>,
           \A e \in Entries : writer'[e] = "chained" => writer[e] = "chained",
           \A f \in Flushers : flusher'[f].at = "chained" => flusher[f].at = "chained"
    PROVE  TrailChained'
<1>1. Latest' = Latest
  BY DEF Latest
<1>2. OneChain'
  BY DEF TrailInv, OneChain
<1>3. HoldsLatest'
  BY <1>1 DEF TrailInv, HoldsLatest
<1> QED BY <1>2, <1>3 DEF TrailChained

LEMMA ChainStep ==
    ASSUME TrailInv, [TrailNext]_trailVars
    PROVE  TrailChained'
<1>0. TrailTypes /\ HoldsLatest
  BY DEF TrailInv
<1>1. ASSUME NEW e \in Entries, LogsFromThread(e) PROVE TrailChained'
  BY <1>0, <1>1, ElsewhereKeepsChain DEF LogsFromThread, TrailTypes
<1>2. ASSUME NEW e \in Entries, LogsInLoop(e) PROVE TrailChained'
  <2>1. ~raced' => ~raced /\ Committing = {} /\ prevHash'[e] = Latest
    BY <1>0, <1>2, ReadsKeeps DEF LogsInLoop
  <2>2. UNCHANGED <<table, flusher>> /\ \A d \in Entries : writer'[d] = "chained" => d = e \/ writer[d] = "chained"
    BY <1>0, <1>2 DEF LogsInLoop, TrailTypes
  <2>3. ~raced' => \A d \in Entries : writer'[d] = "chained" => d = e
    BY <2>1, <2>2 DEF Committing
  <2>4. CASE raced'
    <3>1. OneChain' /\ HoldsLatest'
      BY <2>4 DEF OneChain, HoldsLatest
    <3> QED BY <3>1 DEF TrailChained
  <2>5. CASE ~raced'
    BY <2>1, <2>2, <2>3, <2>5, ReadingKeepsChain
  <2> QED BY <2>4, <2>5
<1>3. ASSUME NEW e \in Entries, Commits(e) PROVE TrailChained'
  <2>1. /\ prevHash[e] \in Seq(Entries) /\ table' = Append(table, Append(prevHash[e], e)) /\ UNCHANGED <<raced, flusher>>
        /\ writer[e] = "chained" /\ writer'[e] = "done" /\ \A d \in Entries : d # e => writer'[d] = writer[d]
    BY <1>0, <1>3 DEF Commits, TrailTypes
  <2>2. /\ table' \in Seq(Seq(Entries) \ {<<>>}) /\ Len(table') = Len(table) + 1
        /\ \A i \in 1..Len(table) : table'[i] = table[i]
        /\ Front(table'[Len(table) + 1]) = prevHash[e]
    BY <1>0, <2>1, RowAdded
  <2>3. ~raced => /\ prevHash[e] = Latest
                  /\ \A d \in Entries : writer'[d] # "chained"
                  /\ \A f \in Flushers : flusher'[f].at # "chained"
    BY <1>0, <2>1 DEF HoldsLatest
  <2>4. \A i \in 1..1 : Front(table'[Len(table) + i]) = IF i = 1 THEN prevHash[e] ELSE table'[Len(table) + i - 1]
    BY <2>2
  <2> QED BY <2>1, <2>2, <2>3, <2>4, CommittingKeepsChain
<1>4. ASSUME NEW e \in Entries, CommitFails(e) PROVE TrailChained'
  <2>1. /\ prevHash[e] \in Seq(Entries) /\ UNCHANGED <<prevHash, raced, flusher>>
        /\ writer[e] = "chained" /\ writer'[e] = "done" /\ \A d \in Entries : d # e => writer'[d] = writer[d]
    BY <1>0, <1>4 DEF CommitFails, TrailTypes
  <2>2. CASE table' = table
    BY <2>1, <2>2, ElsewhereKeepsChain
  <2>3. CASE table' = Append(table, Append(prevHash[e], e))
    <3>1. /\ table' \in Seq(Seq(Entries) \ {<<>>}) /\ Len(table') = Len(table) + 1
          /\ \A i \in 1..Len(table) : table'[i] = table[i]
          /\ Front(table'[Len(table) + 1]) = prevHash[e]
      BY <1>0, <2>1, <2>3, RowAdded
    <3>2. ~raced => /\ prevHash[e] = Latest
                    /\ \A d \in Entries : writer'[d] # "chained"
                    /\ \A f \in Flushers : flusher'[f].at # "chained"
      BY <1>0, <2>1 DEF HoldsLatest
    <3>3. \A i \in 1..1 : Front(table'[Len(table) + i]) = IF i = 1 THEN prevHash[e] ELSE table'[Len(table) + i - 1]
      BY <3>1
    <3> QED BY <2>1, <3>1, <3>2, <3>3, CommittingKeepsChain
  <2> QED BY <1>4, <2>2, <2>3 DEF CommitFails
<1>5. ASSUME NEW f \in Flushers, FlushStarts(f) \/ FlushEnds(f) PROVE TrailChained'
  <2>1. UNCHANGED <<table, raced, prevHash, writer>>
    BY <1>5 DEF FlushStarts, FlushEnds
  <2>2. \A g \in Flushers : flusher'[g].at = "chained" => flusher[g].at = "chained"
    <3>1. CASE FlushStarts(f)
      BY <1>0, <3>1 DEF FlushStarts, TrailTypes
    <3>2. CASE FlushEnds(f)
      BY <1>0, <3>2 DEF FlushEnds, NoFlush, TrailTypes
    <3> QED BY <1>5, <3>1, <3>2
  <2> QED BY <2>1, <2>2, ElsewhereKeepsChain
<1>6. ASSUME NEW f \in Flushers, FlushChains(f) PROVE TrailChained'
  <2>1. ~raced' => ~raced /\ Committing = {} /\ prevHash'[f] = Latest
    BY <1>0, <1>6, ReadsKeeps DEF FlushChains
  <2>2. UNCHANGED <<table, writer>>
        /\ \A g \in Flushers : flusher'[g].at = "chained" => g = f \/ flusher[g].at = "chained"
    BY <1>0, <1>6 DEF FlushChains, Flush, TrailTypes
  <2> QED BY <2>1, <2>2, ReadingKeepsChain
<1>7. ASSUME NEW f \in Flushers, FlushCommits(f) \/ FlushFails(f) PROVE TrailChained'
  <2> DEFINE b == flusher[f].batch
  <2>1. /\ prevHash[f] \in Seq(Entries) /\ b \in Seq(Entries) /\ Len(b) \in Nat
        /\ UNCHANGED <<prevHash, raced, writer>> /\ flusher[f].at = "chained"
    BY <1>0, <1>7, BatchTypes, SeqShape DEF FlushCommits, FlushFails, TrailTypes
  <2>2. flusher'[f].at # "chained" /\ \A g \in Flushers : g # f => flusher'[g] = flusher[g]
    BY <1>0, <1>7 DEF FlushCommits, FlushFails, Flush, NoFlush, TrailTypes
  <2>3. CASE table' = table
    BY <2>1, <2>2, <2>3, ElsewhereKeepsChain
  <2>4. CASE table' = table \o Rows(prevHash[f], b)
    <3>1. /\ table' \in Seq(Seq(Entries) \ {<<>>}) /\ Len(table') = Len(table) + Len(b)
          /\ \A i \in 1..Len(table) : table'[i] = table[i]
          /\ \A i \in 1..Len(b) :
                Front(table'[Len(table) + i]) = IF i = 1 THEN prevHash[f] ELSE table'[Len(table) + i - 1]
      BY <1>0, <2>1, <2>4, RowsAdded
    <3>2. ~raced => /\ prevHash[f] = Latest
                    /\ \A d \in Entries : writer'[d] # "chained"
                    /\ \A g \in Flushers : flusher'[g].at # "chained"
      BY <1>0, <2>1, <2>2 DEF HoldsLatest
    <3> HIDE DEF b
    <3> QED BY <2>1, <3>1, <3>2, CommittingKeepsChain
  <2> QED BY <1>7, <2>3, <2>4 DEF FlushCommits, FlushFails
<1>8. CASE UNCHANGED trailVars
  BY <1>8, ElsewhereKeepsChain DEF trailVars
<1> QED BY <1>1, <1>2, <1>3, <1>4, <1>5, <1>6, <1>7, <1>8 DEF TrailNext, FlushStep

LEMMA TrailInvStep == TrailInv /\ [TrailNext]_trailVars => TrailInv'
BY TrailTypesStep, KeptStep, ChainStep DEF TrailInv, TrailKept, TrailChained

LEMMA TrailInvSound == TrailInv => TrailSound
<1> SUFFICES ASSUME TrailInv PROVE TrailSound
  OBVIOUS
<1>1. Range(buffer) \subseteq Entries /\ Written \subseteq Entries
  BY DEF TrailInv, OnlyDone
<1>2. \A f \in Flushers : flusher[f].at \in {"idle", "started", "chained", "committed"}
  BY BatchTypes DEF TrailInv
<1> QED BY <1>1, <1>2 DEF TrailInv, TrailTypes, TrailTypeOK, TrailSound

\* For any number of writers, flushes, faults and any buffer (audit_trail.py): no action is
\* lost but by the cap or where flushes meet, none is written twice without a lost answer,
\* and calls that do not overlap write one chain.
THEOREM TrailIsSound == TrailSpec => []TrailSound
BY TrailInvInit, TrailInvStep, TrailInvSound, PTL DEF TrailSpec

HIDE TrailAssumption

-----------------------------------------------------------------------------
(* The log of tool calls *)

USE CallLogAssumption

\* What was logged and is nowhere any more.
Logged == {c \in Calls : call[c] = "logged"}
Lost == Logged \ (StoredRows \cup Range(fallback) \cup Owned)

CallLogTypes ==
    /\ call \in [Calls -> {"new", "persisting", "logged"}]
    /\ fallback \in Seq(Calls) /\ Len(fallback) <= FallbackMax /\ IsInjective(fallback)
    /\ owned \in [Flushes -> Seq(Calls)]
    /\ \A f \in Flushes : Len(owned[f]) <= FallbackMax /\ IsInjective(owned[f])
    /\ stored \in [Calls -> 0..1]
    /\ dropped \in Nat /\ logFaults \in 0..MaxLogFaults

\* Every row is in one place, and the rows in a place are of calls that are over.
RowsApart ==
    /\ StoredRows \cup Range(fallback) \cup Owned \subseteq Logged
    /\ StoredRows \cap (Range(fallback) \cup Owned) = {} /\ Range(fallback) \cap Owned = {}
    /\ \A f, g \in Flushes : f # g => Range(owned[f]) \cap Range(owned[g]) = {}

CallLogInv == CallLogTypes /\ RowsApart /\ dropped = Cardinality(Lost)

LEMMA FiniteCalls ==
    ASSUME NEW T \in SUBSET Calls
    PROVE  IsFiniteSet(T) /\ Cardinality(T) \in Nat /\ Cardinality(T) <= Cardinality(Calls)
BY FS_Subset, FS_CardinalityType

LEMMA OneMoreCall ==
    ASSUME NEW T \in SUBSET Calls, NEW c \in Calls, c \notin T
    PROVE  Cardinality(T \cup {c}) = Cardinality(T) + 1
BY FiniteCalls, FS_AddElement

LEMMA ApartCount ==
    ASSUME NEW T \in SUBSET Calls, NEW U \in SUBSET Calls, T \cap U = {}
    PROVE  Cardinality(T \cup U) = Cardinality(T) + Cardinality(U)
<1>1. Cardinality(T \cup U) = Cardinality(T) + Cardinality(U) - Cardinality(T \cap U)
  BY FiniteCalls, FS_Union
<1>2. Cardinality(T \cap U) = 0
  BY FS_EmptySet
<1> QED BY <1>1, <1>2, FiniteCalls

LEMMA CallLogInvInit == CallLogInit => CallLogInv
<1> SUFFICES ASSUME CallLogInit PROVE CallLogInv
  OBVIOUS
<1>1. StoredRows = {} /\ Range(fallback) = {} /\ Owned = {} /\ Logged = {}
  BY DEF CallLogInit, StoredRows, Range, Owned, Logged
<1>2. <<>> \in Seq(Calls) /\ Len(<<>>) = 0 /\ IsInjective(<<>>)
  BY EmptySeq DEF IsInjective
<1>3. CallLogTypes
  BY <1>2 DEF CallLogTypes, CallLogInit
<1>4. RowsApart
  <2>1. \A f \in Flushes : Range(owned[f]) = {}
    BY DEF CallLogInit, Range
  <2> QED BY <1>1, <2>1 DEF RowsApart
<1>5. dropped = Cardinality(Lost)
  BY <1>1, FS_EmptySet DEF Lost, CallLogInit
<1> QED BY <1>3, <1>4, <1>5 DEF CallLogInv

\* A call that is over leaves its row in the deque; the oldest row may be lost for it.
LEMMA EnqueueRowKeeps ==
    ASSUME CallLogInv, NEW c \in Calls, call[c] # "logged", call' = [call EXCEPT ![c] = "logged"],
           EnqueueRow(c), UNCHANGED <<owned, stored>>, logFaults' \in 0..MaxLogFaults
    PROVE  CallLogInv'
<1>1. /\ c \notin StoredRows \cup Range(fallback) \cup Owned /\ c \notin Lost
      /\ StoredRows' = StoredRows /\ Owned' = Owned /\ Logged' = Logged \cup {c}
      /\ call' \in [Calls -> {"new", "persisting", "logged"}]
  BY DEF CallLogInv, CallLogTypes, RowsApart, Logged, Lost, StoredRows, Owned
<1>2. fallback \in Seq(Calls) /\ Len(fallback) <= FallbackMax /\ IsInjective(fallback) /\ Len(fallback) \in Nat
  BY SeqShape DEF CallLogInv, CallLogTypes
<1>3. Logged \subseteq Calls /\ Lost \subseteq Logged /\ dropped = Cardinality(Lost) /\ dropped \in Nat
  BY DEF CallLogInv, CallLogTypes, Logged, Lost
<1>4. CASE Len(fallback) < FallbackMax
  <2>1. fallback' = Append(fallback, c) /\ dropped' = dropped
    BY <1>4 DEF EnqueueRow
  <2>2. fallback' \in Seq(Calls) /\ Len(fallback') = Len(fallback) + 1 /\ IsInjective(fallback')
        /\ Range(fallback') = Range(fallback) \cup {c}
    BY <1>1, <1>2, <2>1, RangeAppend
  <2>3. Len(fallback') <= FallbackMax
    BY <1>2, <1>4, <2>2
  <2>4. Lost' = Lost
    BY <1>1, <2>2 DEF Lost
  <2>5. RowsApart'
    BY <1>1, <2>2, ZenonT(60) DEF CallLogInv, RowsApart
  <2> QED BY <1>1, <1>3, <2>1, <2>2, <2>3, <2>4, <2>5 DEF CallLogInv, CallLogTypes
<1>5. CASE ~(Len(fallback) < FallbackMax)
  <2>1. fallback' = Append(Tail(fallback), c) /\ dropped' = dropped + 1 /\ fallback # <<>>
    BY <1>2, <1>5, EmptySeq DEF EnqueueRow
  <2> DEFINE h == Head(fallback)
             t == Tail(fallback)
  <2>2. /\ h \in Calls /\ t \in Seq(Calls) /\ Len(t) = Len(fallback) - 1
        /\ Range(fallback) = Range(t) \cup {h} /\ IsInjective(t) /\ h \notin Range(t)
    BY <1>2, <2>1, RangeTail
  <2>3. c \notin Range(t) /\ Range(t) \subseteq Range(fallback) /\ fallback' = Append(t, c)
    BY <1>1, <2>1, <2>2
  <2> HIDE DEF h, t
  <2>4. fallback' \in Seq(Calls) /\ Len(fallback') = Len(t) + 1 /\ IsInjective(fallback')
        /\ Range(fallback') = Range(t) \cup {c}
    BY <2>2, <2>3, RangeAppend
  <2>5. Len(fallback') <= FallbackMax
    BY <1>2, <2>2, <2>4
  <2>6. h \in Logged /\ h \notin StoredRows /\ h \notin Owned /\ h # c /\ h \notin Lost
    BY <1>1, <2>2 DEF CallLogInv, RowsApart, Lost
  <2>7. Lost' = Lost \cup {h}
    BY <1>1, <2>2, <2>4, <2>6 DEF Lost
  <2>8. Cardinality(Lost') = Cardinality(Lost) + 1
    BY <1>3, <2>6, <2>7, OneMoreCall
  <2>9. RowsApart'
    <3>1. RowsApart
      BY DEF CallLogInv
    <3>2. StoredRows' \cup Range(fallback') \cup Owned' \subseteq Logged'
      BY <1>1, <2>3, <2>4, <3>1 DEF RowsApart
    <3>3. StoredRows' \cap (Range(fallback') \cup Owned') = {} /\ Range(fallback') \cap Owned' = {}
      BY <1>1, <2>3, <2>4, <3>1 DEF RowsApart
    <3>4. \A f, g \in Flushes : f # g => Range(owned'[f]) \cap Range(owned'[g]) = {}
      BY <3>1 DEF RowsApart
    <3> QED BY <3>2, <3>3, <3>4 DEF RowsApart
  <2>10. dropped' = Cardinality(Lost') /\ dropped' \in Nat
    BY <1>3, <2>1, <2>8
  <2> QED BY <1>1, <2>4, <2>5, <2>9, <2>10 DEF CallLogInv, CallLogTypes
<1> QED BY <1>4, <1>5

LEMMA CallLogInvStep == CallLogInv /\ [CallLogNext]_callLogVars => CallLogInv'
<1> SUFFICES ASSUME CallLogInv, [CallLogNext]_callLogVars PROVE CallLogInv'
  OBVIOUS
<1> USE DEF CallLogInv
<1>0. \A f \in Flushes : owned[f] \in Seq(Calls) /\ Range(owned[f]) \subseteq Owned /\ Owned \subseteq Calls
  BY SeqShape DEF CallLogTypes, RowsApart, Owned, Logged
<1>1. ASSUME NEW c \in Calls, LogsRow(c) PROVE CallLogInv'
  <2>1. CASE call' = [call EXCEPT ![c] = "logged"] /\ EnqueueRow(c)
    <3>1. call[c] # "logged" /\ UNCHANGED <<owned, stored>> /\ logFaults' \in 0..MaxLogFaults
      BY <1>1 DEF LogsRow, CallLogTypes
    <3> QED BY <2>1, <3>1, EnqueueRowKeeps
  <2>2. CASE call' = [call EXCEPT ![c] = "persisting"] /\ UNCHANGED <<fallback, dropped>>
    <3>1. /\ UNCHANGED <<fallback, owned, stored, dropped, logFaults>> /\ Logged' = Logged /\ Owned' = Owned
          /\ StoredRows' = StoredRows /\ call' \in [Calls -> {"new", "persisting", "logged"}]
      BY <1>1, <2>2 DEF LogsRow, CallLogTypes, Logged, Owned, StoredRows
    <3> QED BY <3>1 DEF CallLogTypes, RowsApart, Lost
  <2> QED BY <1>1, <2>1, <2>2 DEF LogsRow
<1>2. ASSUME NEW c \in Calls, Persists(c) PROVE CallLogInv'
  <2>1. /\ UNCHANGED <<fallback, owned, dropped, logFaults>> /\ Owned' = Owned
        /\ Logged' = Logged \cup {c} /\ c \notin Logged
        /\ call' \in [Calls -> {"new", "persisting", "logged"}]
    BY <1>2 DEF Persists, CallLogTypes, Logged, Owned
  <2>2. stored[c] = 0
    BY <2>1 DEF CallLogTypes, RowsApart, StoredRows
  <2>3. stored' \in [Calls -> 0..1] /\ StoredRows' = StoredRows \cup {c}
    BY <1>2, <2>2 DEF Persists, CallLogTypes, StoredRows
  <2>4. Lost' = Lost
    BY <2>1, <2>3 DEF Lost, RowsApart
  <2>5. RowsApart'
    BY <2>1, <2>3 DEF RowsApart
  <2> QED BY <2>1, <2>3, <2>4, <2>5 DEF CallLogTypes
<1>3. ASSUME NEW c \in Calls, PersistFails(c) PROVE CallLogInv'
  <2>1. /\ call[c] # "logged" /\ call' = [call EXCEPT ![c] = "logged"] /\ EnqueueRow(c)
        /\ UNCHANGED <<owned, stored>> /\ logFaults' \in 0..MaxLogFaults
    BY <1>3 DEF PersistFails, LogFault, CallLogTypes
  <2> QED BY <2>1, EnqueueRowKeeps
<1>4. ASSUME NEW f \in Flushes, TakesOver(f) PROVE CallLogInv'
  <2>1. /\ owned[f] = <<>> /\ owned'[f] = fallback /\ \A g \in Flushes : g # f => owned'[g] = owned[g]
        /\ owned' \in [Flushes -> Seq(Calls)] /\ fallback' = <<>>
        /\ UNCHANGED <<call, dropped, stored, logFaults>>
    BY <1>4 DEF TakesOver, CallLogTypes, Rest
  <2>2. Range(owned[f]) = {} /\ Range(fallback') = {} /\ Range(owned'[f]) = Range(fallback)
    BY <2>1 DEF Range
  <2>3. Owned' = Owned \cup Range(fallback)
    BY <2>1, <2>2 DEF Owned
  <2>4. Logged' = Logged /\ StoredRows' = StoredRows /\ Lost' = Lost
    BY <2>1, <2>2, <2>3 DEF Logged, StoredRows, Lost
  <2>5. RowsApart'
    BY <2>1, <2>2, <2>3, <2>4, <1>0 DEF RowsApart
  <2>6. <<>> \in Seq(Calls) /\ Len(<<>>) = 0 /\ IsInjective(<<>>)
    BY EmptySeq DEF IsInjective
  <2> QED BY <2>1, <2>4, <2>5, <2>6 DEF CallLogTypes
<1>5. ASSUME NEW f \in Flushes, FlushStores(f) PROVE CallLogInv'
  <2>1. /\ owned'[f] = <<>> /\ \A g \in Flushes : g # f => owned'[g] = owned[g]
        /\ owned' \in [Flushes -> Seq(Calls)]
        /\ UNCHANGED <<call, dropped, fallback, logFaults>>
    BY <1>5 DEF FlushStores, CallLogTypes
  <2> DEFINE b == Range(owned[f])
  <2>2. \A c \in Calls : Cardinality({c} \cap b) = IF c \in b THEN 1 ELSE 0
    <3> SUFFICES ASSUME NEW c \in Calls PROVE Cardinality({c} \cap b) = IF c \in b THEN 1 ELSE 0
      OBVIOUS
    <3>1. CASE c \in b
      BY <3>1, FS_Singleton
    <3>2. CASE c \notin b
      <4>1. {c} \cap b = {}
        BY <3>2
      <4> QED BY <3>2, <4>1, FS_EmptySet
    <3> QED BY <3>1, <3>2
  <2>3. b \subseteq Calls /\ b \cap StoredRows = {} /\ b \subseteq Owned /\ b \subseteq Logged
    BY <1>0 DEF RowsApart
  <2>4. \A c \in Calls : stored'[c] = IF c \in b THEN stored[c] + 1 ELSE stored[c]
    BY <1>5, <2>2 DEF FlushStores, CallLogTypes
  <2>5. stored' \in [Calls -> 0..1] /\ StoredRows' = StoredRows \cup b
    <3>1. \A c \in b : stored[c] = 0
      BY <2>3 DEF StoredRows, CallLogTypes
    <3>2. stored' = [c \in Calls |-> stored'[c]]
      BY <1>5 DEF FlushStores
    <3> HIDE DEF b
    <3>3. \A c \in Calls : stored'[c] \in 0..1 /\ (stored'[c] > 0 <=> stored[c] > 0 \/ c \in b)
      BY <2>4, <3>1 DEF CallLogTypes
    <3> QED BY <2>3, <3>2, <3>3 DEF StoredRows
  <2>6. Range(owned'[f]) = {}
    BY <2>1 DEF Range
  <2>7. Owned' = Owned \ b
    <3>1. \A g \in Flushes : g # f => Range(owned[g]) \cap b = {}
      BY DEF RowsApart
    <3> QED BY <2>1, <2>6, <3>1 DEF Owned
  <2>8. Logged' = Logged /\ Lost' = Lost
    BY <2>1, <2>3, <2>5, <2>7 DEF Logged, Lost
  <2>9. RowsApart'
    BY <2>1, <2>3, <2>5, <2>6, <2>7, <2>8 DEF RowsApart
  <2>10. <<>> \in Seq(Calls) /\ Len(<<>>) = 0 /\ IsInjective(<<>>)
    BY EmptySeq DEF IsInjective
  <2> HIDE DEF b
  <2>11. \A g \in Flushes : Len(owned'[g]) <= FallbackMax /\ IsInjective(owned'[g])
    <3>1. \A g \in Flushes : g # f => Len(owned'[g]) <= FallbackMax /\ IsInjective(owned'[g])
      BY <2>1 DEF CallLogTypes
    <3>2. Len(owned'[f]) <= FallbackMax
      BY <2>1, <2>10
    <3>3. IsInjective(owned'[f])
      BY <2>1, <2>10
    <3> QED BY <3>1, <3>2, <3>3
  <2> QED BY <2>1, <2>5, <2>8, <2>9, <2>11 DEF CallLogTypes
<1>6. ASSUME NEW f \in Flushes, FlushRestores(f) PROVE CallLogInv'
  <2>1. /\ owned'[f] = <<>> /\ \A g \in Flushes : g # f => owned'[g] = owned[g]
        /\ owned' \in [Flushes -> Seq(Calls)] /\ fallback' = Kept(GivenBack(f))
        /\ dropped' = dropped + Len(GivenBack(f)) - Len(fallback')
        /\ UNCHANGED <<call, stored>> /\ logFaults' \in 0..MaxLogFaults
    BY <1>6 DEF FlushRestores, CallLogTypes, LogFault
  <2> DEFINE b == Range(owned[f])
             g == GivenBack(f)
             n == Min({Len(g), FallbackMax})
             rest == SubSeq(g, n + 1, Len(g))
  <2>2. b \subseteq Calls /\ b \cap StoredRows = {} /\ b \subseteq Owned /\ b \subseteq Logged
        /\ b \cap Range(fallback) = {}
    BY <1>0 DEF RowsApart
  <2>3. g \in Seq(Calls) /\ IsInjective(g) /\ Range(g) = b \cup Range(fallback)
    BY <1>0, <2>2, RangeConcat DEF CallLogTypes, GivenBack
  <2>4. Len(g) \in Nat /\ n \in 0..Len(g) /\ n <= FallbackMax
    <3>1. Len(g) \in Nat
      BY <2>3, SeqShape
    <3> HIDE DEF g
    <3> QED BY <3>1, MinOfTwo
  <2>5. fallback' = SubSeq(g, 1, n)
    BY <2>1 DEF Kept
  <2> HIDE DEF g, n
  <2>6. /\ fallback' \in Seq(Calls) /\ Len(fallback') = n /\ IsInjective(fallback')
        /\ rest \in Seq(Calls) /\ Len(rest) = Len(g) - n /\ IsInjective(rest)
        /\ Range(g) = Range(fallback') \cup Range(rest) /\ Range(fallback') \cap Range(rest) = {}
    BY <2>3, <2>4, <2>5, RangeCut
  <2>7. Cardinality(Range(rest)) = Len(g) - n
    BY <2>6, InjectiveCount
  <2>8. Range(owned'[f]) = {}
    BY <2>1 DEF Range
  <2>9. Owned' = Owned \ b
    <3>1. \A h \in Flushes : h # f => Range(owned[h]) \cap b = {}
      BY DEF RowsApart
    <3> QED BY <2>1, <2>8, <3>1 DEF Owned
  <2> HIDE DEF b, rest
  <2>10. Logged' = Logged /\ StoredRows' = StoredRows
    BY <2>1 DEF Logged, StoredRows
  <2>11. Range(rest) \subseteq Logged /\ Range(rest) \cap Lost = {} /\ Lost' = Lost \cup Range(rest)
    BY <2>2, <2>3, <2>6, <2>9, <2>10 DEF Lost, RowsApart
  <2>12. Lost \subseteq Calls /\ Range(rest) \subseteq Calls
    BY <2>11 DEF Lost, Logged
  <2>13. Cardinality(Lost') = Cardinality(Lost) + (Len(g) - n)
    BY <2>7, <2>11, <2>12, ApartCount
  <2>14. dropped' = Cardinality(Lost') /\ dropped' \in Nat
    <3>1. dropped' = dropped + Len(g) - n /\ dropped \in Nat /\ dropped = Cardinality(Lost)
      BY <2>1, <2>6 DEF g, CallLogTypes
    <3> QED BY <2>4, <2>13, <3>1
  <2>15. RowsApart'
    <3>1. \A h, k \in Flushes : h # k => Range(owned'[h]) \cap Range(owned'[k]) = {}
      BY <2>1, <2>8 DEF RowsApart
    <3>2. \A h \in Flushes : h # f => Range(owned'[h]) \cap b = {}
      BY <2>1 DEF RowsApart, b
    <3>3. StoredRows' \cup Range(fallback') \cup Owned' \subseteq Logged'
      BY <2>2, <2>3, <2>6, <2>9, <2>10 DEF RowsApart
    <3>4. StoredRows' \cap (Range(fallback') \cup Owned') = {} /\ Range(fallback') \cap Owned' = {}
      BY <2>2, <2>3, <2>6, <2>9, <2>10 DEF RowsApart
    <3> QED BY <3>1, <3>3, <3>4 DEF RowsApart
  <2>16. <<>> \in Seq(Calls) /\ Len(<<>>) = 0 /\ IsInjective(<<>>)
    BY EmptySeq DEF IsInjective
  <2>17. \A h \in Flushes : Len(owned'[h]) <= FallbackMax /\ IsInjective(owned'[h])
    <3>1. \A h \in Flushes : Len(owned[h]) <= FallbackMax /\ IsInjective(owned[h])
      BY <1>0 DEF CallLogTypes
    <3>2. 0 <= FallbackMax
      BY CallLogAssumption
    <3>3. Len(owned'[f]) <= FallbackMax /\ IsInjective(owned'[f])
      BY <2>1, <2>16, <3>2
    <3> QED BY <2>1, <3>1, <3>3
  <2> QED BY <2>1, <2>4, <2>6, <2>14, <2>15, <2>17 DEF CallLogTypes
<1>7. CASE UNCHANGED callLogVars
  BY <1>7 DEF callLogVars, CallLogTypes, RowsApart, Lost, Logged, StoredRows, Owned
<1> QED BY <1>1, <1>2, <1>3, <1>4, <1>5, <1>6, <1>7 DEF CallLogNext

LEMMA CallLogInvSound == CallLogInv => CallLogSound
<1> SUFFICES ASSUME CallLogInv PROVE CallLogSound
  OBVIOUS
<1> USE DEF CallLogInv
<1>1. /\ Logged \subseteq Calls /\ StoredRows \subseteq Logged /\ Range(fallback) \subseteq Logged /\ Owned \subseteq Logged
      /\ Logged = StoredRows \cup (Range(fallback) \cup (Owned \cup Lost))
      /\ Lost \subseteq Logged
  BY DEF RowsApart, Lost, Logged
<1>2. Cardinality(Owned \cup Lost) = Cardinality(Owned) + Cardinality(Lost)
  BY <1>1, ApartCount DEF Lost
<1>3. Cardinality(Range(fallback) \cup (Owned \cup Lost)) = Cardinality(Range(fallback)) + Cardinality(Owned \cup Lost)
  BY <1>1, ApartCount DEF Lost, RowsApart
<1>4. Cardinality(Logged) = Cardinality(StoredRows) + Cardinality(Range(fallback) \cup (Owned \cup Lost))
  BY <1>1, ApartCount DEF Lost, RowsApart
<1>5. /\ Cardinality(StoredRows) \in Nat /\ Cardinality(Range(fallback)) \in Nat /\ Cardinality(Owned) \in Nat
      /\ Cardinality(Lost) \in Nat /\ Cardinality(Lost) <= Cardinality(Calls) /\ Cardinality(Calls) \in Nat
  BY <1>1, FiniteCalls
<1>6. DropsCounted
  BY <1>2, <1>3, <1>4, <1>5 DEF DropsCounted, Logged
<1>7. StoredOnceOnly
  BY DEF StoredOnceOnly, RowsApart, CallLogTypes
<1>8. CallLogTypeOK
  <2>1. \A f \in Flushes : Range(owned[f]) \subseteq Calls /\ Len(owned[f]) <= FallbackMax
    BY SeqShape DEF CallLogTypes
  <2>2. dropped \in 0..Cardinality(Calls)
    BY <1>5
  <2> QED BY <1>1, <2>1, <2>2 DEF CallLogTypeOK, CallLogTypes
<1> QED BY <1>6, <1>7, <1>8 DEF CallLogSound

THEOREM CallLogIsSound == CallLogSpec => []CallLogSound
BY CallLogInvInit, CallLogInvStep, CallLogInvSound, PTL DEF CallLogSpec

HIDE CallLogAssumption

-----------------------------------------------------------------------------
(* Cases *)

USE CasesAssumption

CaseRows == [status : Statuses, events : SUBSET Events, orders : Nat]
Unfiled == {"new", "waiting", "locked", "create", "add"}
Filed == Dispatching \cup {"done"}
Holding == {"locked", "create", "add"}

CaseTypes ==
    /\ cases \in Seq(CaseRows) /\ woken \subseteq 1..Len(cases)
    /\ caseOf \in [Events -> 0..Len(cases)]
    /\ lock \in Events \cup {NoOne}
    /\ task \in [Events -> [at : Unfiled \cup Filed \cup {"failed"}, case : 0..Len(cases), seen : Statuses]]
    /\ clerk \in [Clerks -> [at : {"new", "read", "done"}, case : 0..Len(cases), to : Statuses, order : BOOLEAN]]
    /\ crowded \in BOOLEAN

\* Tasks and clerks have found the case that they work on, and one task holds the lock.
CasesKnown ==
    /\ \A e \in Events : task[e].at \in Filed \cup {"add"} => task[e].case # 0
    /\ \A e \in Events : task[e].at \in Unfiled => caseOf[e] = 0
    /\ \A k \in Clerks : clerk[k].at = "read" => clerk[k].case # 0
    /\ \A e \in Events : task[e].at \in Holding <=> lock = e

\* Every case has an event that leads to it, so that a search which finds no active case
\* has seen all, and none is active when the case is created but those that woke up since.
AllFound ==
    /\ \A c \in 1..Len(cases) : \E e \in Events : caseOf[e] = c
    /\ \A e \in Events : task[e].at = "create" => \A c \in 1..Len(cases) \ woken : ~IsActive(c)

\* A task that dispatches a case alone sees to its order.
OrdersAlone ==
    ~crowded =>
        /\ \A e, f \in Events :
              task[e].at \in Dispatching /\ task[f].at \in Dispatching /\ task[e].case = task[f].case => e = f
        /\ \A e \in Events : task[e].at \in {"advance", "order"} => cases[task[e].case].orders = 0

\* Each order was made by a task of its own.
Orderers(c) == {e \in Events : task[e].at \in {"respond", "done"} /\ task[e].case = c}
OrdersCounted == \A c \in 1..Len(cases) : cases[c].orders <= Cardinality(Orderers(c))

CasesInv ==
    CaseTypes /\ CasesKnown /\ AllFound /\ OneActiveCase /\ EventsListed /\ OrdersAlone /\ OneOrder /\ OrdersCounted
-----------------------------------------------------------------------------
LEMMA CaseFacts ==
    ASSUME CaseTypes
    PROVE  /\ Len(cases) \in Nat /\ DOMAIN cases = 1..Len(cases)
           /\ \A c \in 1..Len(cases) : cases[c] \in CaseRows
           /\ \A e \in Events : /\ task[e].at \in Unfiled \cup Filed \cup {"failed"}
                                /\ task[e].case \in 0..Len(cases) /\ task[e].seen \in Statuses
           /\ \A k \in Clerks : clerk[k].case \in 0..Len(cases) /\ clerk[k].to \in Statuses
<1>1. Len(cases) \in Nat /\ DOMAIN cases = 1..Len(cases) /\ \A c \in 1..Len(cases) : cases[c] \in CaseRows
  BY SeqShape DEF CaseTypes
<1>2. \A e \in Events : task[e] \in [at : Unfiled \cup Filed \cup {"failed"}, case : 0..Len(cases), seen : Statuses]
  BY DEF CaseTypes
<1>3. \A k \in Clerks : clerk[k] \in [at : {"new", "read", "done"}, case : 0..Len(cases), to : Statuses, order : BOOLEAN]
  BY DEF CaseTypes
<1> QED BY <1>1, <1>2, <1>3

\* A commit that changes one row.
LEMMA RowChanges ==
    ASSUME CaseTypes, NEW c \in 1..Len(cases), NEW r \in CaseRows, cases' = [cases EXCEPT ![c] = r]
    PROVE  /\ cases' \in Seq(CaseRows) /\ Len(cases') = Len(cases) /\ cases'[c] = r
           /\ \A d \in 1..Len(cases) : d # c => cases'[d] = cases[d]
<1>1. cases \in Seq(CaseRows)
  BY DEF CaseTypes
<1> QED BY <1>1, ExceptSeq

LEMMA CasesInvInit == CasesInit => CasesInv
<1> SUFFICES ASSUME CasesInit PROVE CasesInv
  OBVIOUS
<1>1. cases \in Seq(CaseRows) /\ Len(cases) = 0 /\ DOMAIN cases = {} /\ woken = {}
  BY EmptySeq DEF CasesInit
<1>2. \A e \in Events : task[e].at = "new" /\ task[e].case = 0 /\ task[e].seen = "open" /\ caseOf[e] = 0
  BY DEF CasesInit, At
<1>3. CaseTypes
  <2>1. task \in [Events -> [at : Unfiled \cup Filed \cup {"failed"}, case : 0..Len(cases), seen : Statuses]]
    BY <1>1 DEF CasesInit, At, Unfiled, Statuses, Active
  <2>2. clerk \in [Clerks -> [at : {"new", "read", "done"}, case : 0..Len(cases), to : Statuses, order : BOOLEAN]]
    BY <1>1 DEF CasesInit, Statuses, Active
  <2>3. caseOf \in [Events -> 0..Len(cases)] /\ lock \in Events \cup {NoOne}
    BY <1>1 DEF CasesInit
  <2>4. crowded \in BOOLEAN
    BY DEF CasesInit
  <2> QED BY <1>1, <2>1, <2>2, <2>3, <2>4 DEF CaseTypes
<1>4. CasesKnown
  <2>1. \A k \in Clerks : clerk[k].at # "read"
    BY DEF CasesInit
  <2>2. \A e \in Events : lock # e
    BY DEF CasesInit
  <2> QED BY <1>2, <2>1, <2>2 DEF CasesKnown, Filed, Dispatching, Unfiled, Holding
<1>5. AllFound /\ OrdersAlone /\ OrdersCounted
  BY <1>1, <1>2 DEF AllFound, OrdersAlone, OrdersCounted, Dispatching
<1>6. OneActiveCase /\ EventsListed /\ OneOrder
  BY <1>1 DEF OneActiveCase, EventsListed, OneOrder
<1> QED BY <1>3, <1>4, <1>5, <1>6 DEF CasesInv

LEMMA OrderersGrow ==
    ASSUME NEW S \in SUBSET Events, NEW T \in SUBSET Events, S \subseteq T
    PROVE  /\ Cardinality(S) \in Nat /\ Cardinality(T) \in Nat /\ Cardinality(S) <= Cardinality(T)
           /\ S # T => Cardinality(S) + 1 <= Cardinality(T)
<1>1. IsFiniteSet(S) /\ IsFiniteSet(T)
  BY FS_Subset
<1>2. Cardinality(S) \in Nat /\ Cardinality(T) \in Nat
  BY <1>1, FS_CardinalityType
<1> QED BY <1>1, <1>2, FS_Subset

\* A step in which one task goes on, and no case changes.
LEMMA TaskGoesOn ==
    ASSUME CasesInv, NEW e \in Events, UNCHANGED <<cases, caseOf, clerk, woken, crowded>>,
           lock' \in Events \cup {NoOne},
           NEW t \in [at : Unfiled \cup Filed \cup {"failed"}, case : 0..Len(cases), seen : Statuses],
           task' = [task EXCEPT ![e] = t],
           t.at \in Filed \cup {"add"} => t.case # 0,
           t.at \in Unfiled => caseOf[e] = 0,
           \A f \in Events : task'[f].at \in Holding <=> lock' = f,
           t.at = "create" => \A c \in 1..Len(cases) \ woken : ~IsActive(c),
           t.at \in Dispatching => task[e].at \in Dispatching /\ t.case = task[e].case,
           ~crowded /\ t.at \in {"advance", "order"} => cases[t.case].orders = 0,
           task[e].at \in {"respond", "done"} => t.at \in {"respond", "done"} /\ t.case = task[e].case
    PROVE  CasesInv'
<1> USE DEF CasesInv
<1>1. task'[e] = t /\ \A f \in Events : f # e => task'[f] = task[f]
  BY DEF CaseTypes
<1>2. CaseTypes'
  BY DEF CaseTypes
<1>3. CasesKnown'
  BY <1>1 DEF CasesKnown
<1>4. AllFound'
  BY <1>1 DEF AllFound, IsActive
<1>5. OneActiveCase' /\ EventsListed' /\ OneOrder'
  BY DEF OneActiveCase, EventsListed, OneOrder, IsActive
<1>6. OrdersAlone'
  BY <1>1 DEF OrdersAlone
<1>7. OrdersCounted'
  <2> SUFFICES ASSUME NEW c \in 1..Len(cases) PROVE cases[c].orders <= Cardinality(Orderers(c)')
    BY DEF OrdersCounted
  <2>1. Orderers(c) \subseteq Orderers(c)' /\ Orderers(c)' \subseteq Events /\ Orderers(c) \subseteq Events
    BY <1>1 DEF Orderers
  <2>2. Cardinality(Orderers(c)) <= Cardinality(Orderers(c)') /\ Cardinality(Orderers(c)) \in Nat
        /\ Cardinality(Orderers(c)') \in Nat
    BY <2>1, OrderersGrow
  <2>3. cases[c].orders <= Cardinality(Orderers(c)) /\ cases[c].orders \in Nat
    BY CaseFacts DEF OrdersCounted, CaseRows
  <2> QED BY <2>2, <2>3
<1> QED BY <1>2, <1>3, <1>4, <1>5, <1>6, <1>7

\* A step in which a clerk goes on, and no case changes.
LEMMA ClerkGoesOn ==
    ASSUME CasesInv, UNCHANGED <<cases, caseOf, lock, task, woken, crowded>>,
           clerk' \in [Clerks -> [at : {"new", "read", "done"}, case : 0..Len(cases), to : Statuses, order : BOOLEAN]],
           \A k \in Clerks : clerk'[k].at = "read" => clerk'[k].case # 0
    PROVE  CasesInv'
<1> USE DEF CasesInv
<1>1. CaseTypes' /\ CasesKnown' /\ AllFound'
  BY DEF CaseTypes, CasesKnown, AllFound, IsActive
<1>2. OneActiveCase' /\ EventsListed' /\ OneOrder'
  BY DEF OneActiveCase, EventsListed, OneOrder, IsActive
<1>3. OrdersAlone' /\ OrdersCounted'
  BY DEF OrdersAlone, OrdersCounted, Orderers
<1> QED BY <1>1, <1>2, <1>3

\* A commit that gives a case another status, or takes an order from it, and with it a task
\* that dispatches the case goes on.
LEMMA StatusChanges ==
    ASSUME CasesInv, NEW c \in 1..Len(cases), NEW r \in CaseRows,
           cases' = [cases EXCEPT ![c] = r], r.events = cases[c].events, r.orders <= cases[c].orders,
           woken' = (IF ~IsActive(c) /\ r.status \in Active THEN woken \cup {c} ELSE woken),
           UNCHANGED <<caseOf, lock, crowded>>,
           task' \in [Events -> [at : Unfiled \cup Filed \cup {"failed"}, case : 0..Len(cases), seen : Statuses]],
           \A f \in Events :
               \/ task'[f] = task[f]
               \/ /\ task[f].at \in Dispatching /\ task'[f].at \in Filed /\ task'[f].case = task[f].case
                  /\ task'[f].at \in {"advance", "order"} => task[f].at \in {"advance", "order"}
                  /\ task[f].at \in {"respond", "done"} => task'[f].at \in {"respond", "done"},
           clerk' \in [Clerks -> [at : {"new", "read", "done"}, case : 0..Len(cases), to : Statuses, order : BOOLEAN]],
           \A k \in Clerks : clerk'[k].at = "read" => clerk'[k].case # 0
    PROVE  CasesInv'
<1> USE DEF CasesInv
<1>1. /\ cases' \in Seq(CaseRows) /\ Len(cases') = Len(cases) /\ cases'[c] = r
      /\ \A d \in 1..Len(cases) : d # c => cases'[d] = cases[d]
  BY RowChanges
<1>2. Len(cases) \in Nat /\ DOMAIN cases = 1..Len(cases) /\ DOMAIN cases' = 1..Len(cases)
      /\ \A d \in 1..Len(cases) : cases[d] \in CaseRows
  BY <1>1, CaseFacts, SeqShape
<1>3. r.orders \in Nat /\ r.status \in Statuses /\ \A d \in 1..Len(cases) : cases[d].orders \in Nat
  BY <1>2 DEF CaseRows
<1>4. \A d \in 1..Len(cases) \ woken' : IsActive(d)' => IsActive(d) /\ d \notin woken
  BY <1>1 DEF IsActive
<1>5. \A d \in 1..Len(cases) : cases'[d].events = cases[d].events /\ cases'[d].orders <= cases[d].orders
                               /\ cases'[d].orders \in Nat
  BY <1>1, <1>3
<1>6. CaseTypes'
  BY <1>1 DEF CaseTypes
<1>7. CasesKnown'
  <2>1. \A f \in Events : task'[f].at \in Filed \cup {"add"} => task'[f].case # 0
    BY ZenonT(60) DEF CasesKnown, Filed
  <2>2. \A f \in Events : task'[f] = task[f] \/ (task[f].at \notin Holding /\ task'[f].at \notin Unfiled)
    BY DEF Filed, Unfiled, Holding, Dispatching
  <2>3. \A f \in Events : task'[f].at \in Unfiled => caseOf'[f] = 0
    BY <2>2 DEF CasesKnown
  <2>4. \A f \in Events : task'[f].at \in Holding <=> lock' = f
    BY <2>2 DEF CasesKnown, Unfiled, Holding
  <2> QED BY <2>1, <2>3, <2>4 DEF CasesKnown
<1>8. AllFound'
  <2>1. \A e \in Events : task'[e].at = "create" => task[e].at = "create"
    BY DEF Filed, Dispatching
  <2>2. \A d \in 1..Len(cases') : \E e \in Events : caseOf'[e] = d
    BY <1>1 DEF AllFound
  <2>3. \A e \in Events : task'[e].at = "create" => \A d \in 1..Len(cases') \ woken' : ~IsActive(d)'
    BY <1>1, <1>4, <2>1 DEF AllFound
  <2> QED BY <2>2, <2>3 DEF AllFound
<1>9. OneActiveCase'
  BY <1>2, <1>4 DEF OneActiveCase
<1>10. EventsListed'
  BY <1>2, <1>5 DEF EventsListed
<1>11. OrdersAlone'
  <2> SUFFICES ASSUME ~crowded
               PROVE  /\ \A e, f \in Events : task'[e].at \in Dispatching /\ task'[f].at \in Dispatching
                                              /\ task'[e].case = task'[f].case => e = f
                      /\ \A e \in Events : task'[e].at \in {"advance", "order"} => cases'[task'[e].case].orders = 0
    BY DEF OrdersAlone
  <2>1. \A e \in Events : /\ task'[e].at \in Dispatching => task[e].at \in Dispatching /\ task'[e].case = task[e].case
                          /\ task'[e].at \in {"advance", "order"} => task[e].at \in {"advance", "order"}
    BY DEF Dispatching
  <2>2. ASSUME NEW e \in Events, task'[e].at \in {"advance", "order"} PROVE cases'[task'[e].case].orders = 0
    <3>1. task[e].at \in {"advance", "order"} /\ task'[e].case = task[e].case
      BY <2>1, <2>2 DEF Dispatching
    <3>2. task[e].case \in 1..Len(cases)
      BY <3>1, CaseFacts DEF CasesKnown, Filed, Dispatching
    <3>3. cases[task[e].case].orders = 0
      BY <3>1 DEF OrdersAlone
    <3> QED BY <1>5, <3>1, <3>2, <3>3
  <2> QED BY <2>1, <2>2 DEF OrdersAlone
<1>12. OneOrder'
  BY <1>2, <1>3, <1>5 DEF OneOrder
<1>13. OrdersCounted'
  <2> SUFFICES ASSUME NEW d \in 1..Len(cases) PROVE cases'[d].orders <= Cardinality(Orderers(d)')
    BY <1>1 DEF OrdersCounted
  <2>1. Orderers(d) \subseteq Orderers(d)' /\ Orderers(d)' \subseteq Events /\ Orderers(d) \subseteq Events
    BY DEF Orderers
  <2>2. Cardinality(Orderers(d)) <= Cardinality(Orderers(d)') /\ Cardinality(Orderers(d)) \in Nat
        /\ Cardinality(Orderers(d)') \in Nat
    BY <2>1, OrderersGrow
  <2>3. cases[d].orders <= Cardinality(Orderers(d))
    BY DEF OrdersCounted
  <2> QED BY <1>3, <1>5, <2>2, <2>3
<1> QED BY <1>6, <1>7, <1>8, <1>9, <1>10, <1>11, <1>12, <1>13

\* The task of an event creates a case for it.
LEMMA CreatesKeeps ==
    ASSUME CasesInv, NEW e \in Events, Creates(e)
    PROVE  CasesInv'
<1> USE DEF CasesInv
<1> DEFINE n == Len(cases) + 1
           new == [status |-> "open", events |-> {e}, orders |-> 0]
<1>1. Len(cases) \in Nat /\ DOMAIN cases = 1..Len(cases) /\ new \in CaseRows /\ task[e].at = "create" /\ lock = e
  BY CaseFacts DEF Creates, CaseRows, Statuses, Active, CasesKnown, Holding
<1>2. /\ cases' \in Seq(CaseRows) /\ Len(cases') = n /\ cases'[n] = new
      /\ \A d \in 1..Len(cases) : cases'[d] = cases[d]
  BY <1>1, AppendProperties DEF Creates, CaseTypes
<1>3. DOMAIN cases' = 1..n /\ n \in Nat /\ 1..n = 1..Len(cases) \cup {n} /\ n \notin 1..Len(cases)
  BY <1>1, <1>2, SeqShape
<1>4. /\ caseOf' = [caseOf EXCEPT ![e] = n] /\ lock' = NoOne /\ task' = [task EXCEPT ![e] = At("check", n, "open")]
      /\ UNCHANGED <<clerk, woken, crowded>>
  BY DEF Creates, Unlocked, Becomes
<1>5. /\ task'[e] = At("check", n, "open") /\ \A f \in Events : f # e => task'[f] = task[f]
      /\ caseOf'[e] = n /\ \A f \in Events : f # e => caseOf'[f] = caseOf[f]
  BY <1>4 DEF CaseTypes
<1>6. /\ task'[e].at = "check" /\ task'[e].case = n /\ task'[e].seen = "open"
  BY <1>5 DEF At
<1> HIDE DEF n
<1>7. CaseTypes'
  <2>1. task' \in [Events -> [at : Unfiled \cup Filed \cup {"failed"}, case : 0..n, seen : Statuses]]
    BY <1>1, <1>3, <1>4 DEF CaseTypes, At, Filed, Dispatching, Statuses, Active, n
  <2>2. caseOf' \in [Events -> 0..n]
    BY <1>1, <1>3, <1>4 DEF CaseTypes, n
  <2>3. clerk' \in [Clerks -> [at : {"new", "read", "done"}, case : 0..n, to : Statuses, order : BOOLEAN]]
    <3>1. 0..Len(cases) \subseteq 0..n
      BY <1>1 DEF n
    <3>2. clerk \in [Clerks -> [at : {"new", "read", "done"}, case : 0..Len(cases), to : Statuses, order : BOOLEAN]]
      BY DEF CaseTypes
    <3> QED BY <1>4, <3>1, <3>2
  <2>4. woken' \subseteq 1..n
    BY <1>3, <1>4 DEF CaseTypes
  <2> QED BY <1>2, <1>4, <2>1, <2>2, <2>3, <2>4 DEF CaseTypes
<1>8. CasesKnown'
  <2>1. \A f \in Events : task'[f].at \in Filed \cup {"add"} => task'[f].case # 0
    BY <1>1, <1>5, <1>6 DEF CasesKnown, n
  <2>2. \A f \in Events : task'[f].at \in Unfiled => caseOf'[f] = 0
    BY <1>5, <1>6 DEF CasesKnown, Unfiled
  <2>3. \A f \in Events : task'[f].at \in Holding <=> lock' = f
    BY <1>1, <1>4, <1>5, <1>6 DEF CasesKnown, Holding
  <2>4. \A k \in Clerks : clerk'[k].at = "read" => clerk'[k].case # 0
    BY <1>4 DEF CasesKnown
  <2> QED BY <2>1, <2>2, <2>3, <2>4 DEF CasesKnown
<1>9. caseOf[e] = 0 /\ \A d \in 1..Len(cases) \ woken : ~IsActive(d)
  BY <1>1 DEF CasesKnown, Unfiled, AllFound
<1>10. AllFound'
  <2>1. ASSUME NEW d \in 1..n PROVE \E f \in Events : caseOf'[f] = d
    <3>1. CASE d = n
      BY <1>5, <3>1
    <3>2. CASE d # n
      <4>1. PICK f \in Events : caseOf[f] = d
        BY <1>3, <3>2 DEF AllFound
      <4>2. f # e
        BY <1>9, <4>1
      <4> QED BY <1>5, <4>1, <4>2
    <3> QED BY <3>1, <3>2
  <2>2. \A f \in Events : task'[f].at # "create"
    BY <1>1, <1>5, <1>6 DEF CasesKnown, Holding
  <2> QED BY <1>2, <2>1, <2>2 DEF AllFound
<1>11. OneActiveCase'
  <2>1. \A d \in 1..Len(cases) : IsActive(d)' <=> IsActive(d)
    BY <1>2 DEF IsActive
  <2> QED BY <1>3, <1>4, <1>9, <2>1 DEF OneActiveCase
<1>12. EventsListed'
  <2> SUFFICES ASSUME NEW f \in Events, NEW d \in 1..n PROVE f \in cases'[d].events <=> caseOf'[f] = d
    BY <1>3 DEF EventsListed
  <2>1. CASE d = n
    <3>1. cases'[n].events = {e}
      BY <1>2
    <3>2. f # e => caseOf'[f] # n
      <4>1. caseOf[f] \in 0..Len(cases)
        BY DEF CaseTypes
      <4> QED BY <1>1, <1>5, <4>1 DEF n
    <3> QED BY <1>5, <2>1, <3>1, <3>2
  <2>2. CASE d # n
    <3>1. d \in 1..Len(cases) /\ cases'[d] = cases[d]
      BY <1>2, <1>3, <2>2
    <3>2. f \in cases[d].events <=> caseOf[f] = d
      BY <1>1, <3>1 DEF EventsListed
    <3>3. d # 0
      BY <1>1, <3>1
    <3> QED BY <1>5, <1>9, <2>2, <3>1, <3>2, <3>3
  <2> QED BY <2>1, <2>2
<1>13. \A f \in Events : f # e /\ task[f].at \in Filed => task[f].case \in 1..Len(cases)
  BY CaseFacts DEF CasesKnown
<1>14. OrdersAlone'
  <2>1. ~crowded => \A f \in Events : f # e /\ task[f].at \in Dispatching => task[f].case # n
    BY <1>3, <1>13 DEF Filed
  <2>2. \A f \in Events : task'[f].at \in {"advance", "order"} => f # e /\ cases'[task'[f].case] = cases[task[f].case]
    BY <1>2, <1>5, <1>6, <1>13 DEF Filed, Dispatching
  <2> QED BY <1>4, <1>5, <1>6, <2>1, <2>2 DEF OrdersAlone
<1>15. OneOrder'
  BY <1>1, <1>2, <1>3, <1>4 DEF OneOrder
<1>16. OrdersCounted'
  <2> SUFFICES ASSUME NEW d \in 1..n PROVE cases'[d].orders <= Cardinality(Orderers(d)')
    BY <1>2 DEF OrdersCounted
  <2>1. CASE d = n
    <3>1. Cardinality(Orderers(d)') \in Nat
      <4>1. Orderers(d)' \subseteq Events
        BY DEF Orderers
      <4> QED BY <4>1, OrderersGrow
    <3>2. cases'[d].orders = 0
      BY <1>2, <2>1
    <3> QED BY <3>1, <3>2
  <2>2. CASE d # n
    <3>1. d \in 1..Len(cases) /\ cases'[d] = cases[d]
      BY <1>2, <1>3, <2>2
    <3>2. Orderers(d)' = Orderers(d)
      BY <1>1, <1>5, <1>6, <2>2 DEF Orderers
    <3> QED BY <3>1, <3>2 DEF OrdersCounted
  <2> QED BY <2>1, <2>2
<1> QED BY <1>7, <1>8, <1>10, <1>11, <1>12, <1>14, <1>15, <1>16

\* The task of an event adds it to the active case that it found.
LEMMA AddsKeeps ==
    ASSUME CasesInv, NEW e \in Events, Adds(e)
    PROVE  CasesInv'
<1> USE DEF CasesInv
<1> DEFINE c == task[e].case
           r == [cases[c] EXCEPT !.events = Listed(c, e)]
<1>1. Len(cases) \in Nat /\ DOMAIN cases = 1..Len(cases) /\ task[e].at = "add" /\ lock = e /\ caseOf[e] = 0
  BY CaseFacts DEF Adds, CasesKnown, Holding, Unfiled
<1>2. c \in 1..Len(cases) /\ cases[c] \in CaseRows
  BY <1>1, CaseFacts DEF CasesKnown
<1>3. r \in CaseRows /\ r.status = cases[c].status /\ r.orders = cases[c].orders /\ r.events = cases[c].events \cup {e}
  BY <1>2 DEF CaseRows, Listed
<1>4. cases' = [cases EXCEPT ![c] = r]
  BY <1>2 DEF Adds
<1> HIDE DEF r
<1>5. /\ cases' \in Seq(CaseRows) /\ Len(cases') = Len(cases) /\ cases'[c] = r
      /\ \A d \in 1..Len(cases) : d # c => cases'[d] = cases[d]
  BY <1>2, <1>3, <1>4, RowChanges
<1>6. DOMAIN cases' = 1..Len(cases)
  BY <1>5, SeqShape
<1>7. /\ caseOf' = [caseOf EXCEPT ![e] = c] /\ lock' = NoOne /\ task' = [task EXCEPT ![e] = [task[e] EXCEPT !.at = "check"]]
      /\ UNCHANGED <<clerk, woken>> /\ crowded' = (crowded \/ Beside(e))
  BY DEF Adds, Unlocked, Becomes
<1>8. /\ \A f \in Events : f # e => task'[f] = task[f] /\ caseOf'[f] = caseOf[f]
      /\ task'[e] = [task[e] EXCEPT !.at = "check"] /\ caseOf'[e] = c
  BY <1>7 DEF CaseTypes
<1>9. task'[e].at = "check" /\ task'[e].case = c
  BY <1>8 DEF CaseTypes
<1>10. \A d \in 1..Len(cases) : cases'[d].status = cases[d].status /\ cases'[d].orders = cases[d].orders
  BY <1>3, <1>5
<1> HIDE DEF c
<1>11. CaseTypes'
  <2>1. task' \in [Events -> [at : Unfiled \cup Filed \cup {"failed"}, case : 0..Len(cases), seen : Statuses]]
    BY <1>7 DEF CaseTypes, Filed, Dispatching
  <2>2. caseOf' \in [Events -> 0..Len(cases)]
    BY <1>1, <1>2, <1>7 DEF CaseTypes
  <2>3. crowded' \in BOOLEAN
    BY <1>7 DEF CaseTypes, Beside
  <2> QED BY <1>5, <1>7, <2>1, <2>2, <2>3 DEF CaseTypes
<1>12. CasesKnown'
  <2>1. \A f \in Events : task'[f].at \in Filed \cup {"add"} => task'[f].case # 0
    <3>1. c # 0
      BY <1>1, <1>2
    <3>2. \A f \in Events : task[f].at \in Filed \cup {"add"} => task[f].case # 0
      BY DEF CasesKnown
    <3> QED BY <1>8, <1>9, <3>1, <3>2
  <2>2. \A f \in Events : task'[f].at \in Unfiled => caseOf'[f] = 0
    BY <1>8, <1>9 DEF CasesKnown, Unfiled
  <2>3. \A f \in Events : task'[f].at \in Holding <=> lock' = f
    BY <1>1, <1>7, <1>8, <1>9 DEF CasesKnown, Holding
  <2>4. \A k \in Clerks : clerk'[k].at = "read" => clerk'[k].case # 0
    BY <1>7 DEF CasesKnown
  <2> QED BY <2>1, <2>2, <2>3, <2>4 DEF CasesKnown
<1>13. AllFound'
  <2>1. ASSUME NEW d \in 1..Len(cases) PROVE \E f \in Events : caseOf'[f] = d
    <3>1. PICK f \in Events : caseOf[f] = d
      BY DEF AllFound
    <3>2. f # e
      BY <1>1, <3>1
    <3> QED BY <1>8, <3>1, <3>2
  <2>2. \A f \in Events : task'[f].at # "create"
    BY <1>1, <1>8, <1>9 DEF CasesKnown, Holding
  <2> QED BY <1>5, <2>1, <2>2 DEF AllFound
<1>14. OneActiveCase'
  <2>1. \A d \in 1..Len(cases) : IsActive(d)' <=> IsActive(d)
    BY <1>10 DEF IsActive
  <2> QED BY <1>1, <1>6, <1>7, <2>1 DEF OneActiveCase
<1>15. EventsListed'
  <2> SUFFICES ASSUME NEW f \in Events, NEW d \in 1..Len(cases) PROVE f \in cases'[d].events <=> caseOf'[f] = d
    BY <1>6 DEF EventsListed
  <2>1. f \in cases[d].events <=> caseOf[f] = d
    BY <1>1 DEF EventsListed
  <2>2. cases'[d].events = IF d = c THEN cases[c].events \cup {e} ELSE cases[d].events
    BY <1>3, <1>5
  <2>3. CASE f = e
    BY <1>1, <1>8, <2>1, <2>2, <2>3
  <2>4. CASE f # e
    BY <1>8, <2>1, <2>2, <2>4
  <2> QED BY <2>3, <2>4
<1>16. \A f \in Events : f # e /\ task[f].at \in Filed => task[f].case \in 1..Len(cases)
  BY CaseFacts DEF CasesKnown
<1>17. OrdersAlone'
  <2> SUFFICES ASSUME ~crowded'
               PROVE  /\ \A f, g \in Events : task'[f].at \in Dispatching /\ task'[g].at \in Dispatching
                                              /\ task'[f].case = task'[g].case => f = g
                      /\ \A f \in Events : task'[f].at \in {"advance", "order"} => cases'[task'[f].case].orders = 0
    BY DEF OrdersAlone
  <2>1. ~crowded /\ \A f \in Events : f # e /\ task[f].at \in Dispatching => task[f].case # c
    BY <1>7 DEF Beside, c
  <2>2. ASSUME NEW f \in Events, task'[f].at \in {"advance", "order"} PROVE cases'[task'[f].case].orders = 0
    <3>1. f # e /\ task'[f] = task[f]
      BY <1>8, <1>9, <2>2
    <3>2. task[f].case \in 1..Len(cases)
      BY <1>16, <2>2, <3>1 DEF Filed, Dispatching
    <3>3. cases[task[f].case].orders = 0
      BY <2>1, <2>2, <3>1 DEF OrdersAlone
    <3> QED BY <1>10, <3>1, <3>2, <3>3
  <2>3. ASSUME NEW f \in Events, NEW g \in Events, task'[f].at \in Dispatching, task'[g].at \in Dispatching,
               task'[f].case = task'[g].case
        PROVE  f = g
    BY <1>8, <1>9, <2>1, <2>3, ZenonT(60) DEF OrdersAlone
  <2> QED BY <2>2, <2>3
<1>18. OneOrder'
  BY <1>1, <1>6, <1>7, <1>10 DEF OneOrder
<1>19. OrdersCounted'
  <2>1. \A d \in 1..Len(cases) : Orderers(d)' = Orderers(d)
    BY <1>1, <1>8, <1>9 DEF Orderers
  <2> QED BY <1>5, <1>10, <2>1 DEF OrdersCounted
<1> QED BY <1>11, <1>12, <1>13, <1>14, <1>15, <1>17, <1>18, <1>19

\* The task of an event makes the order of its case.
LEMMA OrdersKeeps ==
    ASSUME CasesInv, NEW e \in Events, Orders(e)
    PROVE  CasesInv'
<1> USE DEF CasesInv
<1> DEFINE c == task[e].case
           r == [cases[c] EXCEPT !.orders = @ + 1]
<1>1. Len(cases) \in Nat /\ DOMAIN cases = 1..Len(cases) /\ task[e].at = "order" /\ lock # e
  BY CaseFacts DEF Orders, CasesKnown, Holding
<1>2. c \in 1..Len(cases) /\ cases[c] \in CaseRows
  BY <1>1, CaseFacts DEF CasesKnown, Filed, Dispatching
<1>3. r \in CaseRows /\ r.status = cases[c].status /\ r.orders = cases[c].orders + 1 /\ r.events = cases[c].events
      /\ cases[c].orders \in Nat
  BY <1>2 DEF CaseRows
<1>4. cases' = [cases EXCEPT ![c] = r]
  BY <1>2 DEF Orders
<1> HIDE DEF r
<1>5. /\ cases' \in Seq(CaseRows) /\ Len(cases') = Len(cases) /\ cases'[c] = r
      /\ \A d \in 1..Len(cases) : d # c => cases'[d] = cases[d]
  BY <1>2, <1>3, <1>4, RowChanges
<1>6. DOMAIN cases' = 1..Len(cases)
  BY <1>5, SeqShape
<1>7. /\ task' = [task EXCEPT ![e] = [task[e] EXCEPT !.at = "respond"]]
      /\ UNCHANGED <<caseOf, lock, clerk, woken, crowded>>
  BY DEF Orders, Becomes
<1>8. task'[e] = [task[e] EXCEPT !.at = "respond"] /\ \A f \in Events : f # e => task'[f] = task[f]
  BY <1>7 DEF CaseTypes
<1>9. task'[e].at = "respond" /\ task'[e].case = c
  BY <1>8 DEF CaseTypes
<1>10. \A d \in 1..Len(cases) : /\ cases'[d].status = cases[d].status /\ cases'[d].events = cases[d].events
                                /\ d # c => cases'[d].orders = cases[d].orders
  BY <1>3, <1>5
<1>11. \A d \in 1..Len(cases) : IsActive(d)' <=> IsActive(d)
  BY <1>10 DEF IsActive
<1> HIDE DEF c
<1>12. CaseTypes'
  <2>1. task' \in [Events -> [at : Unfiled \cup Filed \cup {"failed"}, case : 0..Len(cases), seen : Statuses]]
    BY <1>7 DEF CaseTypes, Filed, Dispatching
  <2> QED BY <1>5, <1>7, <2>1 DEF CaseTypes
<1>13. CasesKnown'
  <2>1. \A f \in Events : task'[f].at \in Filed \cup {"add"} => task'[f].case # 0
    <3>1. c # 0
      BY <1>1, <1>2
    <3>2. \A f \in Events : task[f].at \in Filed \cup {"add"} => task[f].case # 0
      BY DEF CasesKnown
    <3> QED BY <1>8, <1>9, <3>1, <3>2
  <2>2. \A f \in Events : task'[f].at \in Unfiled => caseOf'[f] = 0
    BY <1>7, <1>8, <1>9 DEF CasesKnown, Unfiled
  <2>3. \A f \in Events : task'[f].at \in Holding <=> lock' = f
    BY <1>1, <1>7, <1>8, <1>9 DEF CasesKnown, Holding
  <2>4. \A k \in Clerks : clerk'[k].at = "read" => clerk'[k].case # 0
    BY <1>7 DEF CasesKnown
  <2> QED BY <2>1, <2>2, <2>3, <2>4 DEF CasesKnown
<1>14. AllFound'
  <2>1. \A f \in Events : task'[f].at = "create" => task[f].at = "create"
    BY <1>8, <1>9
  <2> QED BY <1>5, <1>7, <1>11, <2>1 DEF AllFound
<1>15. OneActiveCase' /\ EventsListed'
  <2>1. OneActiveCase'
    BY <1>1, <1>6, <1>7, <1>11 DEF OneActiveCase
  <2>2. EventsListed'
    BY <1>1, <1>6, <1>7, <1>10 DEF EventsListed
  <2> QED BY <2>1, <2>2
<1>16. \A f \in Events : task[f].at \in Filed => task[f].case \in 1..Len(cases)
  BY CaseFacts DEF CasesKnown
<1>17. ASSUME ~crowded
       PROVE  /\ cases[c].orders = 0
              /\ \A f \in Events : f # e /\ task[f].at \in Dispatching => task[f].case # c
  BY <1>1, <1>17 DEF OrdersAlone, Dispatching, c
<1>18. OrdersAlone'
  <2> SUFFICES ASSUME ~crowded
               PROVE  /\ \A f, g \in Events : task'[f].at \in Dispatching /\ task'[g].at \in Dispatching
                                              /\ task'[f].case = task'[g].case => f = g
                      /\ \A f \in Events : task'[f].at \in {"advance", "order"} => cases'[task'[f].case].orders = 0
    BY <1>7 DEF OrdersAlone
  <2>2. ASSUME NEW f \in Events, task'[f].at \in {"advance", "order"} PROVE cases'[task'[f].case].orders = 0
    <3>1. f # e /\ task'[f] = task[f]
      BY <1>8, <1>9, <2>2
    <3>2. task[f].case \in 1..Len(cases) /\ task[f].case # c
      BY <1>16, <1>17, <2>2, <3>1 DEF Filed, Dispatching
    <3>3. cases[task[f].case].orders = 0
      BY <2>2, <3>1 DEF OrdersAlone
    <3> QED BY <1>10, <3>1, <3>2, <3>3
  <2>3. ASSUME NEW f \in Events, NEW g \in Events, task'[f].at \in Dispatching, task'[g].at \in Dispatching,
               task'[f].case = task'[g].case
        PROVE  f = g
    BY <1>8, <1>9, <1>17, <2>3 DEF OrdersAlone
  <2> QED BY <2>2, <2>3
<1>19. OneOrder'
  <2> SUFFICES ASSUME ~crowded, NEW d \in 1..Len(cases) PROVE cases'[d].orders <= 1
    BY <1>6, <1>7 DEF OneOrder
  <2>1. CASE d = c
    BY <1>3, <1>5, <1>17, <2>1
  <2>2. CASE d # c
    BY <1>1, <1>10, <2>2 DEF OneOrder
  <2> QED BY <2>1, <2>2
<1>20. OrdersCounted'
  <2> SUFFICES ASSUME NEW d \in 1..Len(cases) PROVE cases'[d].orders <= Cardinality(Orderers(d)')
    BY <1>5 DEF OrdersCounted
  <2>1. Orderers(d) \subseteq Events /\ Orderers(d)' \subseteq Events /\ Orderers(d) \subseteq Orderers(d)'
    BY <1>1, <1>8, <1>9 DEF Orderers
  <2>2. Cardinality(Orderers(d)) \in Nat /\ Cardinality(Orderers(d)') \in Nat
        /\ Cardinality(Orderers(d)) <= Cardinality(Orderers(d)')
        /\ (Orderers(d) # Orderers(d)' => Cardinality(Orderers(d)) + 1 <= Cardinality(Orderers(d)'))
    BY <2>1, OrderersGrow
  <2>3. cases[d].orders <= Cardinality(Orderers(d)) /\ cases[d].orders \in Nat
    BY <1>3, CaseFacts DEF OrdersCounted, CaseRows
  <2>4. CASE d = c
    <3>1. e \in Orderers(d)' /\ e \notin Orderers(d)
      BY <1>1, <1>9, <2>4 DEF Orderers
    <3> QED BY <1>3, <1>5, <2>2, <2>3, <2>4, <3>1
  <2>5. CASE d # c
    BY <1>10, <2>2, <2>3, <2>5
  <2> QED BY <2>4, <2>5
<1> QED BY <1>12, <1>13, <1>14, <1>15, <1>18, <1>19, <1>20

LEMMA CasesInvStep == CasesInv /\ [CasesNext]_caseVars => CasesInv'
<1> SUFFICES ASSUME CasesInv, [CasesNext]_caseVars PROVE CasesInv'
  OBVIOUS
<1> DEFINE TaskSet == [at : Unfiled \cup Filed \cup {"failed"}, case : 0..Len(cases), seen : Statuses]
           ClerkSet == [at : {"new", "read", "done"}, case : 0..Len(cases), to : Statuses, order : BOOLEAN]
<1>1. /\ CaseTypes /\ CasesKnown /\ lock \in Events \cup {NoOne} /\ NoOne \notin Events /\ Len(cases) \in Nat
      /\ task \in [Events -> TaskSet] /\ clerk \in [Clerks -> ClerkSet] /\ DOMAIN cases = 1..Len(cases)
      /\ \A c \in 1..Len(cases) : cases[c] \in CaseRows
  BY CaseFacts DEF CasesInv, CaseTypes
<1>2. \A e \in Events : /\ task[e] \in TaskSet /\ task[e] = [at |-> task[e].at, case |-> task[e].case, seen |-> task[e].seen]
                        /\ task[e].case \in 0..Len(cases) /\ task[e].seen \in Statuses
  BY <1>1
<1>3. \A e \in Events : /\ task[e].at \in Holding <=> lock = e
                        /\ task[e].at \in Unfiled => caseOf[e] = 0
                        /\ task[e].at \in Filed \cup {"add"} => task[e].case \in 1..Len(cases)
  BY <1>1, <1>2 DEF CasesKnown
<1>4. "open" \in Statuses /\ "investigating" \in Statuses /\ "responding" \in Statuses /\ Statuses # {}
  BY DEF Statuses, Active
<1>5. \A e \in Events : \A t : task' = [task EXCEPT ![e] = t] => task'[e] = t /\ \A f \in Events : f # e => task'[f] = task[f]
  BY <1>1
<1> HIDE DEF TaskSet
<1>6. ASSUME NEW e \in Events, Asks(e) PROVE CasesInv'
  <2> DEFINE t == At("waiting", 0, "open")
  <2>1. t \in TaskSet /\ t.at = "waiting" /\ t.case = 0 /\ task[e].at = "new"
    BY <1>1, <1>4, <1>6 DEF TaskSet, At, Unfiled, Asks
  <2> HIDE DEF t
  <2>2. task' = [task EXCEPT ![e] = t] /\ UNCHANGED <<cases, caseOf, clerk, woken, crowded, lock>>
    BY <1>6 DEF Asks, Becomes, t
  <2>3. \A f \in Events : task'[f].at \in Holding <=> lock' = f
    BY <1>3, <1>5, <2>1, <2>2 DEF Holding
  <2>4. caseOf[e] = 0
    BY <1>3, <2>1 DEF Unfiled
  <2> QED BY <1>1, <2>1, <2>2, <2>3, <2>4, TaskGoesOn DEF TaskSet, Filed, Dispatching
<1>7. ASSUME NEW e \in Events, Locks(e) PROVE CasesInv'
  <2> DEFINE t == At("locked", 0, "open")
  <2>1. t \in TaskSet /\ t.at = "locked" /\ t.case = 0 /\ task[e].at = "waiting" /\ lock = NoOne
    BY <1>1, <1>4, <1>7 DEF TaskSet, At, Unfiled, Locks, Free
  <2> HIDE DEF t
  <2>2. task' = [task EXCEPT ![e] = t] /\ UNCHANGED <<cases, caseOf, clerk, woken, crowded>> /\ lock' = e
    BY <1>7 DEF Locks, Becomes, t
  <2>3. \A f \in Events : task'[f].at \in Holding <=> lock' = f
    BY <1>1, <1>3, <1>5, <2>1, <2>2 DEF Holding
  <2>4. caseOf[e] = 0
    BY <1>3, <2>1 DEF Unfiled
  <2> QED BY <1>1, <2>1, <2>2, <2>3, <2>4, TaskGoesOn DEF TaskSet, Filed, Dispatching
<1>8. ASSUME NEW e \in Events, Finds(e) PROVE CasesInv'
  <2> DEFINE found == {c \in {caseOf[f] : f \in Events} \ {0} : IsActive(c)}
  <2>1. task[e].at = "locked" /\ lock = e /\ caseOf[e] = 0 /\ UNCHANGED <<cases, caseOf, clerk, woken, crowded, lock>>
    BY <1>3, <1>8 DEF Finds, Holding, Unfiled
  <2>2. ASSUME NEW t \in TaskSet, t.at \in {"create", "add"}, t.at = "add" => t.case # 0, task' = [task EXCEPT ![e] = t],
               t.at = "create" => \A c \in 1..Len(cases) \ woken : ~IsActive(c)
        PROVE  CasesInv'
    <3>1. \A f \in Events : task'[f].at \in Holding <=> lock' = f
      BY <1>3, <1>5, <2>1, <2>2 DEF Holding
    <3> QED BY <1>1, <2>1, <2>2, <3>1, TaskGoesOn DEF TaskSet, Filed, Dispatching
  <2>3. CASE found = {}
    <3> DEFINE t == At("create", 0, "open")
    <3>1. task' = [task EXCEPT ![e] = t]
      BY <1>8, <2>3 DEF Finds, Becomes
    <3>2. t \in TaskSet /\ t.at = "create"
      BY <1>1, <1>4 DEF TaskSet, At, Unfiled
    <3>3. \A c \in 1..Len(cases) \ woken : ~IsActive(c)
      <4> SUFFICES ASSUME NEW c \in 1..Len(cases) PROVE ~IsActive(c)
        OBVIOUS
      <4>1. PICK f \in Events : caseOf[f] = c
        BY DEF CasesInv, AllFound
      <4>2. c # 0
        BY <1>1
      <4> QED BY <2>3, <4>1, <4>2
    <3> HIDE DEF t
    <3> QED BY <2>2, <3>1, <3>2, <3>3
  <2>4. CASE found # {}
    <3>1. PICK c \in found : task' = [task EXCEPT ![e] = At("add", c, cases[c].status)]
      BY <1>8, <2>4 DEF Finds, Becomes
    <3>2. c \in 1..Len(cases)
      BY <1>1, <3>1 DEF CaseTypes
    <3> DEFINE t == At("add", c, cases[c].status)
    <3>3. t \in TaskSet /\ t.at = "add" /\ t.case # 0
      BY <1>1, <3>2 DEF TaskSet, At, Unfiled, CaseRows
    <3> HIDE DEF t
    <3>4. task' = [task EXCEPT ![e] = t]
      BY <3>1 DEF t
    <3> QED BY <2>2, <3>3, <3>4
  <2> QED BY <2>3, <2>4
<1>9. ASSUME NEW e \in Events, FilingFails(e) PROVE CasesInv'
  <2> DEFINE t == [task[e] EXCEPT !.at = "failed"]
  <2>1. t \in TaskSet /\ t.at = "failed" /\ task[e].at \in Holding
    BY <1>2, <1>9 DEF TaskSet, FilingFails, Holding
  <2> HIDE DEF t
  <2>2. task' = [task EXCEPT ![e] = t] /\ UNCHANGED <<cases, caseOf, clerk, woken, crowded>> /\ lock' = NoOne
    BY <1>9 DEF FilingFails, Becomes, t
  <2>3. \A f \in Events : task'[f].at \in Holding <=> lock' = f
    BY <1>1, <1>3, <1>5, <2>1, <2>2 DEF Holding
  <2> QED BY <1>1, <2>1, <2>2, <2>3, TaskGoesOn DEF TaskSet, Unfiled, Filed, Dispatching, Holding
<1>10. ASSUME NEW e \in Events, NEW label \in {"advance", "order", "respond", "done"}, task[e].at \in Dispatching,
              task' = [task EXCEPT ![e] = [task[e] EXCEPT !.at = label]],
              UNCHANGED <<cases, caseOf, lock, clerk, woken, crowded>>,
              ~crowded /\ label \in {"advance", "order"} => cases[task[e].case].orders = 0,
              task[e].at \in {"respond", "done"} => label \in {"respond", "done"}
       PROVE  CasesInv'
  <2> DEFINE t == [task[e] EXCEPT !.at = label]
  <2>1. t \in TaskSet /\ t.at = label /\ t.case = task[e].case
    BY <1>2, <1>10 DEF TaskSet, Filed, Dispatching
  <2>2. t.case # 0
    BY <1>1, <1>3, <1>10, <2>1 DEF Filed
  <2> HIDE DEF t
  <2>3. task' = [task EXCEPT ![e] = t]
    BY <1>10 DEF t
  <2>4. label \notin Unfiled /\ label \notin Holding /\ task[e].at \notin Holding /\ label # "create"
    BY <1>10 DEF Unfiled, Holding, Dispatching
  <2>5. \A f \in Events : task'[f].at \in Holding <=> lock' = f
    BY <1>3, <1>5, <1>10, <2>1, <2>3, <2>4
  <2>6. /\ t.at \in Dispatching => task[e].at \in Dispatching /\ t.case = task[e].case
        /\ ~crowded /\ t.at \in {"advance", "order"} => cases[t.case].orders = 0
        /\ task[e].at \in {"respond", "done"} => t.at \in {"respond", "done"} /\ t.case = task[e].case
        /\ t.at \notin Unfiled /\ t.at # "create"
    BY <1>10, <2>1, <2>4
  <2>7. lock' \in Events \cup {NoOne} /\ UNCHANGED <<cases, caseOf, clerk, woken, crowded>>
    BY <1>1, <1>10
  <2> HIDE DEF Unfiled, Filed, Dispatching
  <2> QED BY <1>1, <2>1, <2>2, <2>3, <2>5, <2>6, <2>7, TaskGoesOn DEF TaskSet
<1>11. ASSUME NEW e \in Events, Checks(e) PROVE CasesInv'
  <2>1. task[e].at = "check" /\ UNCHANGED <<cases, caseOf, lock, clerk, woken, crowded>> /\ task[e].case \in 1..Len(cases)
    BY <1>3, <1>11 DEF Checks, Filed, Dispatching
  <2>2. cases[task[e].case].orders \in Nat
    BY <1>1, <2>1 DEF CaseRows
  <2>3. CASE Dispatched(task[e].case)
    <3>1. task' = [task EXCEPT ![e] = [task[e] EXCEPT !.at = "respond"]]
      BY <1>11, <2>3 DEF Checks, Becomes
    <3> QED BY <1>10, <2>1, <3>1 DEF Dispatching
  <2>4. CASE ~Dispatched(task[e].case)
    <3>1. task' = [task EXCEPT ![e] = [task[e] EXCEPT !.at = "advance"]]
      BY <1>11, <2>4 DEF Checks, Becomes
    <3>2. cases[task[e].case].orders = 0
      BY <2>2, <2>4 DEF Dispatched
    <3> QED BY <1>10, <2>1, <3>1, <3>2 DEF Dispatching
  <2> QED BY <2>3, <2>4
<1>12. ASSUME NEW e \in Events, DispatchFails(e) PROVE CasesInv'
  BY <1>10, <1>12 DEF DispatchFails, Becomes
<1>13. ASSUME NEW e \in Events, NEW to \in Active, NEW label \in {"order", "respond", "done"}, task[e].at \in Dispatching,
              Sets(task[e].case, to), task' = [task EXCEPT ![e] = At(label, task[e].case, to)],
              UNCHANGED <<caseOf, lock, clerk, crowded>>,
              label = "order" => task[e].at \in {"advance", "order"},
              task[e].at \in {"respond", "done"} => label \in {"respond", "done"}
       PROVE  CasesInv'
  <2> DEFINE c == task[e].case
             r == [cases[c] EXCEPT !.status = to]
             t == At(label, c, to)
  <2>1. c \in 1..Len(cases)
    BY <1>3, <1>13 DEF Filed
  <2>2. r \in CaseRows /\ r.events = cases[c].events /\ r.orders <= cases[c].orders /\ r.status = to
    BY <1>1, <2>1 DEF CaseRows, Statuses
  <2>3. cases' = [cases EXCEPT ![c] = r]
    BY <1>1, <1>13, <2>1 DEF Sets
  <2>4. woken' = (IF ~IsActive(c) /\ r.status \in Active THEN woken \cup {c} ELSE woken)
    BY <1>13, <2>2 DEF Sets
  <2>5. t \in TaskSet /\ t.at = label /\ t.case = c /\ t.at \in Filed
    BY <1>1, <1>13, <2>1 DEF TaskSet, At, Filed, Dispatching, Statuses
  <2>6. task' = [task EXCEPT ![e] = t]
    BY <1>13
  <2> HIDE DEF r, t
  <2>7. task' \in [Events -> TaskSet]
    BY <1>1, <2>5, <2>6
  <2>8. \A f \in Events :
               \/ task'[f] = task[f]
               \/ /\ task[f].at \in Dispatching /\ task'[f].at \in Filed /\ task'[f].case = task[f].case
                  /\ task'[f].at \in {"advance", "order"} => task[f].at \in {"advance", "order"}
                  /\ task[f].at \in {"respond", "done"} => task'[f].at \in {"respond", "done"}
    BY <1>5, <1>13, <2>5, <2>6
  <2>9. clerk' \in [Clerks -> ClerkSet] /\ \A k \in Clerks : clerk'[k].at = "read" => clerk'[k].case # 0
    BY <1>1, <1>13 DEF CasesKnown
  <2> HIDE DEF c
  <2>10. UNCHANGED <<caseOf, lock, crowded>>
    BY <1>13
  <2> QED BY <2>1, <2>2, <2>3, <2>4, <2>7, <2>8, <2>9, <2>10, StatusChanges DEF TaskSet
<1>14. ASSUME NEW e \in Events, Investigates(e) PROVE CasesInv'
  <2>1. task[e].at = "advance" /\ UNCHANGED <<caseOf, lock, clerk, crowded>>
    BY <1>14 DEF Investigates
  <2>2. CASE task[e].seen = "open"
    <3>1. Sets(task[e].case, "investigating") /\ task' = [task EXCEPT ![e] = At("order", task[e].case, "investigating")]
      BY <1>14, <2>2 DEF Investigates, Advance, Becomes
    <3> QED BY <1>13, <2>1, <3>1 DEF Active, Dispatching
  <2>3. CASE task[e].seen # "open"
    <3>1. UNCHANGED <<cases, woken>> /\ task' = [task EXCEPT ![e] = [task[e] EXCEPT !.at = "order"]]
      BY <1>14, <2>3 DEF Investigates, Advance, Becomes
    <3>2. ~crowded => cases[task[e].case].orders = 0
      BY <2>1 DEF CasesInv, OrdersAlone
    <3> QED BY <1>10, <2>1, <3>1, <3>2 DEF Dispatching
  <2> QED BY <2>2, <2>3
<1>15. ASSUME NEW e \in Events, Responds(e) PROVE CasesInv'
  <2>1. task[e].at = "respond" /\ UNCHANGED <<caseOf, lock, clerk, crowded>>
    BY <1>15 DEF Responds
  <2>2. CASE task[e].seen = "open"
    <3>1. Sets(task[e].case, "investigating") /\ task' = [task EXCEPT ![e] = At("respond", task[e].case, "investigating")]
      BY <1>15, <2>2 DEF Responds, Advance, Becomes
    <3> QED BY <1>13, <2>1, <3>1 DEF Active, Dispatching
  <2>3. CASE task[e].seen = "investigating"
    <3>1. Sets(task[e].case, "responding") /\ task' = [task EXCEPT ![e] = At("done", task[e].case, "responding")]
      BY <1>15, <2>3 DEF Responds, Advance, Becomes
    <3> QED BY <1>13, <2>1, <3>1 DEF Active, Dispatching
  <2>4. CASE task[e].seen \notin {"open", "investigating"}
    <3>1. UNCHANGED <<cases, woken>> /\ task' = [task EXCEPT ![e] = [task[e] EXCEPT !.at = "done"]]
      BY <1>15, <2>4 DEF Responds, Advance, Becomes
    <3> QED BY <1>10, <2>1, <3>1 DEF Dispatching
  <2> QED BY <2>2, <2>3, <2>4
<1>16. ASSUME NEW k \in Clerks, ClerkWrites(k) PROVE CasesInv'
  <2> DEFINE c == clerk[k].case
             remaining == IF clerk[k].order /\ cases[c].orders > 0 THEN cases[c].orders - 1 ELSE cases[c].orders
             r == [cases[c] EXCEPT !.status = clerk[k].to, !.orders = remaining]
  <2>1. clerk[k].at = "read" /\ c \in 1..Len(cases) /\ clerk[k].to \in Statuses
    BY <1>1, <1>16 DEF ClerkWrites, CasesKnown
  <2>2. cases[c] \in CaseRows
    BY <1>1, <2>1
  <2>3. r \in CaseRows /\ r.events = cases[c].events /\ r.orders <= cases[c].orders /\ r.status = clerk[k].to
    <3>1. cases[c].orders \in Nat
      BY <2>2 DEF CaseRows
    <3>2. remaining \in Nat /\ remaining <= cases[c].orders
      <4>1. remaining = cases[c].orders \/ (cases[c].orders > 0 /\ remaining = cases[c].orders - 1)
        OBVIOUS
      <4> HIDE DEF remaining
      <4> QED BY <3>1, <4>1
    <3> HIDE DEF remaining
    <3> QED BY <2>1, <2>2, <3>2 DEF CaseRows
  <2>4. cases' = [cases EXCEPT ![c] = r]
    BY <1>1, <1>16, <2>1 DEF ClerkWrites
  <2>5. woken' = (IF ~IsActive(c) /\ r.status \in Active THEN woken \cup {c} ELSE woken)
    BY <1>16, <2>3 DEF ClerkWrites
  <2>6. clerk' = [clerk EXCEPT ![k].at = "done"] /\ UNCHANGED <<caseOf, lock, task, crowded>>
    BY <1>16 DEF ClerkWrites
  <2> HIDE DEF r, c
  <2>7. clerk' \in [Clerks -> ClerkSet] /\ \A j \in Clerks : clerk'[j].at = "read" => clerk'[j].case # 0
    BY <1>1, <2>6 DEF CasesKnown
  <2>8. task' \in [Events -> TaskSet]
    BY <1>1, <2>6
  <2> QED BY <2>1, <2>3, <2>4, <2>5, <2>6, <2>7, <2>8, StatusChanges DEF TaskSet
<1>17. ASSUME NEW k \in Clerks, NEW c \in DOMAIN cases, ClerkReads(k, c) \/ ClerkApproves(k, c) PROVE CasesInv'
  <2>1. UNCHANGED <<cases, caseOf, lock, task, woken, crowded>> /\ c \in 1..Len(cases) /\ c # 0
    BY <1>1, <1>17 DEF ClerkReads, ClerkApproves
  <2>2. PICK to \in Statuses, order \in BOOLEAN :
            clerk' = [clerk EXCEPT ![k] = [at |-> "read", case |-> c, to |-> to, order |-> order]]
    <3>1. CASE ClerkReads(k, c)
      <4>1. PICK to \in Allowed(cases[c].status), order \in {FALSE, cases[c].orders > 0} :
                clerk' = [clerk EXCEPT ![k] = [at |-> "read", case |-> c, to |-> to, order |-> order]]
        BY <3>1 DEF ClerkReads
      <4>2. cases[c].status \in Statuses
        BY <1>1, <2>1 DEF CaseRows
      <4>3. to \in Statuses
        BY <4>1, <4>2 DEF Allowed, Statuses, Active
      <4>4. order \in BOOLEAN
        <5>1. (cases[c].orders > 0) \in BOOLEAN
          BY <1>1, <2>1 DEF CaseRows
        <5> QED BY <4>1, <5>1
      <4> QED BY <4>1, <4>3, <4>4
    <3>2. CASE ClerkApproves(k, c)
      BY <1>4, <3>2 DEF ClerkApproves
    <3> QED BY <1>17, <3>1, <3>2
  <2>3. clerk' \in [Clerks -> ClerkSet] /\ \A j \in Clerks : clerk'[j].at = "read" => clerk'[j].case # 0
    BY <1>1, <2>1, <2>2 DEF CasesKnown
  <2> QED BY <2>1, <2>3, ClerkGoesOn
<1>18. CASE UNCHANGED caseVars
  BY <1>1, <1>18, ClerkGoesOn DEF caseVars, CasesKnown
<1>19. CASE CasesNext
  <2>1. CASE \E e \in Events : Asks(e) \/ TaskStep(e) \/ FilingFails(e) \/ DispatchFails(e)
    BY <1>6, <1>7, <1>8, <1>9, <1>11, <1>12, <1>14, <1>15, <2>1, CreatesKeeps, AddsKeeps, OrdersKeeps DEF TaskStep
  <2>2. CASE \E k \in Clerks : ClerkWrites(k) \/ \E c \in DOMAIN cases : ClerkReads(k, c) \/ ClerkApproves(k, c)
    BY <1>16, <1>17, <2>2
  <2> QED BY <1>19, <2>1, <2>2 DEF CasesNext
<1> QED BY <1>18, <1>19

LEMMA CasesInvSound == CasesInv => CasesSound
<1> SUFFICES ASSUME CasesInv PROVE CasesSound
  OBVIOUS
<1> USE DEF CasesInv
<1>1. DOMAIN cases = 1..Len(cases) /\ \A c \in 1..Len(cases) : cases[c] \in CaseRows
  BY CaseFacts
<1>2. ASSUME NEW c \in 1..Len(cases) PROVE cases[c].orders \in 0..Cardinality(Events)
  <2>1. Orderers(c) \subseteq Events
    BY DEF Orderers
  <2>2. /\ Cardinality(Orderers(c)) \in Nat /\ Cardinality(Events) \in Nat
        /\ Cardinality(Orderers(c)) <= Cardinality(Events)
    BY <2>1, OrderersGrow
  <2>3. cases[c].orders <= Cardinality(Orderers(c)) /\ cases[c].orders \in Nat
    BY <1>1 DEF OrdersCounted, CaseRows
  <2> QED BY <2>2, <2>3
<1>3. CasesTypeOK
  BY <1>1, <1>2 DEF CasesTypeOK, CaseTypes, CaseRows
<1> QED BY <1>3 DEF CasesSound

THEOREM CasesAreSound == Spec => []CasesSound
<1>1. Init => CasesInv
  BY CasesInvInit DEF Init
<1>2. CasesInv /\ [Next]_vars => CasesInv'
  BY PartSteps, CasesInvStep
<1> QED BY <1>1, <1>2, CasesInvSound, PTL DEF Spec

HIDE CasesAssumption

-----------------------------------------------------------------------------
(* The registry of sources *)

USE SourceAssumption

RowStates == {"none", "enabled", "revoked"}
RequestStates ==
    [at : {"new", "read", "committed", "done", "failed"}, op : {"none", "register", "revoke"},
     key : Keys \cup {"none"}, saw : RowStates]

RegistryTypes ==
    /\ SourcesTypeOK
    /\ \A r \in Requests :
        /\ request[r].at = "new" => request[r].key = "none"
        /\ request[r].at # "new" => request[r].key \in Keys /\ request[r].op # "none"
        /\ ~Idle(r) /\ request[r].op = "revoke" => request[r].saw # "none"

\* A key that no requests overlap on: the one that works on it has the row as it read it,
\* or as it has written it, and until it has written the cache and the row agree.
Alone(k) ==
    /\ \A r, o \in Working(k) : r = o
    /\ \A r \in Working(k) :
        /\ request[r].at = "read" => listed[k] = request[r].saw
        /\ request[r].at = "committed" => listed[k] = Target(r)
    /\ (\A r \in Working(k) : request[r].at = "read") =>
        /\ known[k] = "enabled" => listed[k] = "enabled"
        /\ k \notin unheard /\ listed[k] = "enabled" => Authenticates(k)

Lone(r) == \A o \in Requests \ {r} : request[o].key # request[r].key

\* A revocation of a key that no other request names.
LoneRevocation(r) ==
    LET k == request[r].key IN
    Lone(r) /\ request[r].op = "revoke" =>
        /\ request[r].at = "read" => listed[k] = request[r].saw
        /\ request[r].at = "committed" => listed[k] = "revoked"
        /\ request[r].at = "done" /\ request[r].saw # "none" =>
             listed[k] = "revoked" /\ (sourceStarts = 0 \/ k \notin Configured => ~Authenticates(k))

RegistryInv ==
    /\ RegistryTypes
    /\ \A k \in Keys \ entangled : Alone(k)
    /\ \A r \in Requests : LoneRevocation(r)
-----------------------------------------------------------------------------
LEMMA RegistryInvInit == SourcesInit => RegistryInv
<1> SUFFICES ASSUME SourcesInit PROVE RegistryInv
  OBVIOUS
<1>1. PICK done \in SUBSET Configured :
        /\ listed = Backfilled([k \in Keys |-> "none"], done)
        /\ known = Loaded([k \in Keys |-> "none"], TRUE)
        /\ request = [r \in Requests |-> [at |-> "new", op |-> "none", key |-> "none", saw |-> "none"]]
        /\ sourceStarts = 0 /\ entangled = {} /\ unheard = {}
  BY DEF SourcesInit
<1>2. \A k \in Keys : listed[k] = (IF k \in done THEN "enabled" ELSE "none") /\ known[k] = (IF k \in Configured THEN "config" ELSE "none")
  BY <1>1 DEF Backfilled, Loaded
<1>3. RegistryTypes
  BY <1>1 DEF RegistryTypes, SourcesTypeOK, Backfilled, Loaded, Idle
<1>4. \A k \in Keys : Working(k) = {}
  BY <1>1 DEF Working, Idle
<1>5. \A k \in Keys : Alone(k)
  BY <1>2, <1>4 DEF Alone, Authenticates
<1>6. \A r \in Requests : LoneRevocation(r)
  BY <1>1 DEF LoneRevocation
<1> QED BY <1>3, <1>5, <1>6 DEF RegistryInv

LEMMA RequestTypes ==
    ASSUME RegistryInv, NEW r \in Requests
    PROVE  /\ request[r] \in RequestStates /\ request \in [Requests -> RequestStates]
           /\ request[r].at = "new" => request[r].key = "none"
           /\ request[r].at # "new" => request[r].key \in Keys /\ request[r].op \in {"register", "revoke"}
           /\ ~Idle(r) /\ request[r].op = "revoke" => request[r].saw # "none"
           /\ LoneRevocation(r)
BY DEF RegistryInv, RegistryTypes, SourcesTypeOK, RequestStates, RowStates

\* A key whose row, cache and working requests a step leaves as they are.
LEMMA OtherKeyStays ==
    ASSUME NEW k, Alone(k), listed'[k] = listed[k], known'[k] = known[k], Working(k)' = Working(k),
           k \notin unheard' => k \notin unheard, \A r \in Working(k) : request'[r] = request[r]
    PROVE  Alone(k)'
BY DEF Alone, Authenticates, Target

\* A request that a step leaves alone, with the row and the cache of its key.
LEMMA OtherRequestStays ==
    ASSUME NEW o \in Requests, LoneRevocation(o), request'[o] = request[o],
           Lone(o)' => Lone(o) /\ listed'[request[o].key] = listed[request[o].key]
                               /\ known'[request[o].key] = known[request[o].key],
           sourceStarts' = sourceStarts
    PROVE  LoneRevocation(o)'
BY DEF LoneRevocation, Authenticates

\* A request that goes on from one place to another, on its key.
LEMMA WorkingMoves ==
    ASSUME RegistryInv, NEW r \in Requests, NEW q \in RequestStates, request' = [request EXCEPT ![r] = q],
           request[r].at # "new" => q.key = request[r].key
    PROVE  /\ request'[r] = q /\ (\A o \in Requests : o # r => request'[o] = request[o])
           /\ \A k : Working(k)' = IF q.at \notin {"new", "done", "failed"} /\ q.key = k
                                   THEN Working(k) \cup {r} ELSE Working(k) \ {r}
           /\ \A o \in Requests : o # r /\ Lone(o)' /\ request[r].at # "new" => Lone(o)
<1>1. request'[r] = q /\ \A o \in Requests : o # r => request'[o] = request[o]
  BY RequestTypes
<1>2. ASSUME NEW k PROVE Working(k)' = IF q.at \notin {"new", "done", "failed"} /\ q.key = k
                                   THEN Working(k) \cup {r} ELSE Working(k) \ {r}
  BY <1>1 DEF Working, Idle
<1>3. ASSUME NEW o \in Requests, o # r, Lone(o)', request[r].at # "new" PROVE Lone(o)
  BY <1>1, <1>3 DEF Lone
<1> QED BY <1>1, <1>2, <1>3

LEMMA RegistryTypesMove ==
    ASSUME RegistryInv, NEW r \in Requests, NEW q \in RequestStates, request' = [request EXCEPT ![r] = q],
           listed' \in [Keys -> RowStates], known' \in [Keys -> {"none", "config", "enabled", "revoked"}],
           sourceStarts' = sourceStarts, entangled' \subseteq Keys, unheard' \subseteq Keys,
           q.at # "new", q.key \in Keys, q.op # "none",
           q.at \notin {"done", "failed"} /\ q.op = "revoke" => q.saw # "none"
    PROVE  RegistryTypes'
<1>1. request' \in [Requests -> RequestStates] /\ request'[r] = q /\ \A o \in Requests : o # r => request'[o] = request[o]
  BY RequestTypes
<1>2. SourcesTypeOK'
  BY <1>1 DEF RegistryInv, RegistryTypes, SourcesTypeOK, RequestStates, RowStates
<1>3. ASSUME NEW o \in Requests
      PROVE  /\ request'[o].at = "new" => request'[o].key = "none"
             /\ request'[o].at # "new" => request'[o].key \in Keys /\ request'[o].op # "none"
             /\ ~Idle(o)' /\ request'[o].op = "revoke" => request'[o].saw # "none"
  <2>1. CASE o = r
    BY <1>1, <2>1 DEF Idle
  <2>2. CASE o # r
    BY <1>1, <2>2 DEF RegistryInv, RegistryTypes, Idle
  <2> QED BY <2>1, <2>2
<1> QED BY <1>2, <1>3 DEF RegistryTypes

LEMMA RegistryInvStep == RegistryInv /\ [SourcesNext]_sourceVars => RegistryInv'
<1> SUFFICES ASSUME RegistryInv, [SourcesNext]_sourceVars PROVE RegistryInv'
  OBVIOUS
<1>t. /\ listed \in [Keys -> RowStates] /\ known \in [Keys -> {"none", "config", "enabled", "revoked"}]
      /\ sourceStarts \in 0..MaxSourceStarts /\ entangled \subseteq Keys /\ unheard \subseteq Keys
      /\ request \in [Requests -> RequestStates]
      /\ \A k \in Keys \ entangled : Alone(k)
  BY DEF RegistryInv, RegistryTypes, SourcesTypeOK, RowStates, RequestStates
<1>1. ASSUME SourcesRestart PROVE RegistryInv'
  <2>1. PICK readable \in BOOLEAN, done \in SUBSET Configured :
          /\ sourceStarts < MaxSourceStarts /\ sourceStarts' = sourceStarts + 1 /\ entangled' = {}
          /\ request' = [r \in Requests |-> IF Idle(r) THEN request[r] ELSE [request[r] EXCEPT !.at = "failed"]]
          /\ listed' = Backfilled(listed, done) /\ known' = Loaded(listed, readable)
          /\ unheard' = IF readable THEN {} ELSE Keys \ Configured
    BY <1>1 DEF SourcesRestart, Boots
  <2>2. /\ listed' \in [Keys -> RowStates] /\ known' \in [Keys -> {"none", "config", "enabled", "revoked"}]
        /\ \A k \in Keys : /\ listed'[k] = (IF k \in done /\ listed[k] = "none" THEN "enabled" ELSE listed[k])
                           /\ known'[k] = (IF k \in Configured THEN "config"
                                           ELSE IF readable /\ listed[k] = "enabled" THEN "enabled" ELSE "none")
    BY <1>t, <2>1 DEF Backfilled, Loaded, RowStates
  <2>3. ASSUME NEW r \in Requests
        PROVE  /\ request'[r] \in RequestStates /\ Idle(r)' /\ request'[r].key = request[r].key /\ request'[r].op = request[r].op
               /\ request'[r].saw = request[r].saw /\ request'[r].at = (IF Idle(r) THEN request[r].at ELSE "failed")
    <3>1. request[r] \in RequestStates
      BY <1>t
    <3> QED BY <2>1, <3>1 DEF RequestStates, Idle
  <2>4. request' \in [Requests -> RequestStates]
    BY <2>1, <2>3
  <2>5. RegistryTypes'
    <3>1. SourcesTypeOK'
      <4>1. sourceStarts' \in 0..MaxSourceStarts
        BY <1>t, <2>1
      <4>2. entangled' \subseteq Keys /\ unheard' \subseteq Keys
        BY <2>1
      <4> QED BY <2>2, <2>4, <4>1, <4>2 DEF SourcesTypeOK, RequestStates, RowStates
    <3>2. ASSUME NEW r \in Requests
          PROVE  /\ request'[r].at = "new" => request'[r].key = "none"
                 /\ request'[r].at # "new" => request'[r].key \in Keys /\ request'[r].op # "none"
                 /\ ~Idle(r)' /\ request'[r].op = "revoke" => request'[r].saw # "none"
      BY <2>3, RequestTypes DEF Idle
    <3> QED BY <3>1, <3>2 DEF RegistryTypes
  <2>6. ASSUME NEW k \in Keys PROVE Alone(k)'
    <3>1. Working(k)' = {}
      BY <2>3 DEF Working
    <3> QED BY <2>1, <2>2, <3>1 DEF Alone, Authenticates
  <2>7. ASSUME NEW r \in Requests PROVE LoneRevocation(r)'
    <3> SUFFICES ASSUME Lone(r)', request[r].op = "revoke", request'[r].at = "done", request[r].saw # "none"
                 PROVE  LET k == request[r].key IN
                        listed'[k] = "revoked" /\ (sourceStarts' = 0 \/ k \notin Configured => ~Authenticates(k)')
      BY <2>3 DEF LoneRevocation, Idle, Authenticates
    <3>1. Lone(r)
      BY <2>3 DEF Lone
    <3>2. request[r].at = "done"
      BY <2>3 DEF Idle
    <3>3. listed[request[r].key] = "revoked" /\ request[r].key \in Keys
      BY <3>1, <3>2, RequestTypes DEF LoneRevocation
    <3>4. sourceStarts' # 0
      BY <1>t, <2>1
    <3>5. PICK k : k = request[r].key
      OBVIOUS
    <3>6. k \in Keys /\ listed[k] = "revoked"
      BY <3>3, <3>5
    <3>7. listed'[k] = "revoked" /\ (k \notin Configured => known'[k] = "none")
      BY <2>2, <3>6
    <3>8. request'[r].key = k
      BY <2>3, <3>5
    <3> QED BY <3>4, <3>5, <3>7, <3>8 DEF Authenticates
  <2> QED BY <2>5, <2>6, <2>7 DEF RegistryInv
<1>2. ASSUME NEW r \in Requests, NEW op \in {"register", "revoke"}, NEW k \in Keys, ReadsRow(r, op, k) PROVE RegistryInv'
  <2>0. PICK q : q = [at |-> IF op = "revoke" /\ listed[k] = "none" THEN "done" ELSE "read",
                      op |-> op, key |-> k, saw |-> listed[k]]
    OBVIOUS
  <2>1. /\ request[r].at = "new" /\ request' = [request EXCEPT ![r] = q]
        /\ entangled' = IF Working(k) # {} THEN entangled \cup {k} ELSE entangled
        /\ UNCHANGED <<listed, known, sourceStarts, unheard>>
    BY <1>2, <2>0 DEF ReadsRow
  <2>2. q \in RequestStates /\ q.at \in {"read", "done"} /\ q.op = op /\ q.key = k /\ q.saw = listed[k]
        /\ (q.op = "revoke" => (q.at = "done" <=> q.saw = "none")) /\ (q.op = "register" => q.at = "read")
    BY <1>t, <2>0 DEF RequestStates
  <2>3. /\ request'[r] = q /\ (\A o \in Requests : o # r => request'[o] = request[o])
        /\ \A l : Working(l)' = IF q.at \notin {"new", "done", "failed"} /\ q.key = l
                                THEN Working(l) \cup {r} ELSE Working(l) \ {r}
    BY <2>1, <2>2, WorkingMoves
  <2>4. \A l : r \notin Working(l)
    BY <2>1 DEF Working, Idle
  <2>5. RegistryTypes'
    <3>1. entangled' \subseteq Keys
      BY <1>t, <2>1
    <3> QED BY <1>t, <2>1, <2>2, <3>1, RegistryTypesMove
  <2>6. ASSUME NEW l \in Keys \ entangled' PROVE Alone(l)'
    <3>1. Alone(l) /\ l \notin entangled
      BY <1>t, <2>1
    <3>2. CASE l = k /\ q.at = "read"
      <4>1. Working(k) = {} /\ Working(k)' = {r}
        BY <2>1, <2>2, <2>3, <3>2
      <4> QED BY <2>1, <2>2, <2>3, <3>1, <3>2, <4>1 DEF Alone, Authenticates, Target
    <3>3. CASE ~(l = k /\ q.at = "read")
      <4>1. Working(l)' = Working(l) /\ \A o \in Working(l) : request'[o] = request[o]
        BY <2>2, <2>3, <2>4, <3>3 DEF Working
      <4> QED BY <2>1, <3>1, <4>1, OtherKeyStays
    <3> QED BY <3>2, <3>3
  <2>7. ASSUME NEW o \in Requests PROVE LoneRevocation(o)'
    <3>1. CASE o = r
      BY <2>1, <2>2, <2>3, <3>1 DEF LoneRevocation
    <3>2. CASE o # r /\ request[o].at = "new"
      BY <2>3, <3>2 DEF LoneRevocation
    <3>3. CASE o # r /\ request[o].at # "new"
      <4>1. request[o].key \in Keys /\ request[r].key = "none" /\ LoneRevocation(o)
        BY <2>1, <3>3, RequestTypes
      <4>2. Lone(o)' => Lone(o)
        BY <2>3, <3>3, <4>1 DEF Lone
      <4> QED BY <2>1, <2>3, <3>3, <4>1, <4>2, OtherRequestStays
    <3> QED BY <3>1, <3>2, <3>3
  <2> QED BY <2>5, <2>6, <2>7 DEF RegistryInv
<1>3. ASSUME NEW r \in Requests, CommitsRow(r) PROVE RegistryInv'
  <2>0. PICK q, k : q = [request[r] EXCEPT !.at = "committed"] /\ k = request[r].key
    OBVIOUS
  <2>1. /\ request[r].at = "read" /\ ~Collides(r) /\ listed' = [listed EXCEPT ![k] = RowAfter(r)]
        /\ request' = [request EXCEPT ![r] = q] /\ UNCHANGED <<known, sourceStarts, entangled, unheard>>
    BY <1>3, <2>0 DEF CommitsRow
  <2>2. /\ request[r] \in RequestStates /\ k \in Keys /\ request[r].op \in {"register", "revoke"}
        /\ (request[r].op = "revoke" => request[r].saw # "none")
    BY <2>0, <2>1, RequestTypes DEF Idle
  <2>3. q \in RequestStates /\ q.at = "committed" /\ q.op = request[r].op /\ q.key = k /\ q.saw = request[r].saw
    BY <2>0, <2>2 DEF RequestStates
  <2>4. /\ request'[r] = q /\ (\A o \in Requests : o # r => request'[o] = request[o])
        /\ \A l : Working(l)' = IF q.at \notin {"new", "done", "failed"} /\ q.key = l
                                THEN Working(l) \cup {r} ELSE Working(l) \ {r}
        /\ \A o \in Requests : o # r /\ Lone(o)' /\ request[r].at # "new" => Lone(o)
    BY <2>0, <2>1, <2>3, WorkingMoves, ZenonT(60)
  <2>5. r \in Working(k) /\ \A l : l # k => r \notin Working(l)
    BY <2>0, <2>1 DEF Working, Idle
  <2>6. \A l : Working(l)' = Working(l)
    BY <2>3, <2>4, <2>5
  <2>7. RowAfter(r) \in RowStates /\ listed' \in [Keys -> RowStates] /\ listed'[k] = RowAfter(r) /\ \A l \in Keys : l # k => listed'[l] = listed[l]
    <3>1. RowAfter(r) \in RowStates
      BY <1>t, <2>0, <2>2 DEF RowAfter, Target, RowStates
    <3> QED BY <1>t, <2>1, <2>2, <3>1
  <2>8. RegistryTypes'
    BY <1>t, <2>1, <2>2, <2>3, <2>7, RegistryTypesMove
  <2>9. ASSUME NEW l \in Keys \ entangled' PROVE Alone(l)'
    <3>1. Alone(l)
      BY <1>t, <2>1
    <3>2. CASE l = k
      <4>1. Working(k) = {r} /\ listed[k] = request[r].saw
        BY <2>1, <2>5, <3>1, <3>2 DEF Alone
      <4>2. Target(r)' = Target(r) /\ listed'[k] = Target(r)
        BY <2>0, <2>3, <2>4, <2>7, <4>1 DEF RowAfter, Target
      <4>3. Working(k)' = {r} /\ request'[r].at = "committed"
        BY <2>3, <2>4, <2>6, <4>1
      <4> QED BY <3>2, <4>2, <4>3 DEF Alone
    <3>3. CASE l # k
      <4>1. \A o \in Working(l) : request'[o] = request[o]
        BY <2>4, <2>5, <3>3 DEF Working
      <4> QED BY <2>1, <2>6, <2>7, <3>1, <3>3, <4>1, OtherKeyStays
    <3> QED BY <3>2, <3>3
  <2>10. ASSUME NEW o \in Requests PROVE LoneRevocation(o)'
    <3>1. CASE o = r
      <4> SUFFICES ASSUME Lone(r)', request[r].op = "revoke" PROVE listed'[k] = "revoked"
        BY <2>3, <2>4, <3>1 DEF LoneRevocation
      <4>1. Lone(r)
        BY <2>0, <2>3, <2>4 DEF Lone
      <4>2. listed[k] = request[r].saw
        BY <2>0, <2>1, <4>1, RequestTypes DEF LoneRevocation
      <4> QED BY <2>0, <2>7, <4>2 DEF RowAfter, Target
    <3>2. CASE o # r
      <4>1. LoneRevocation(o) /\ request'[o] = request[o] /\ sourceStarts' = sourceStarts
        BY <2>1, <2>4, <3>2, RequestTypes
      <4>2. ASSUME Lone(o)', request[o].at # "new" PROVE Lone(o) /\ listed'[request[o].key] = listed[request[o].key] /\ known' = known
        <5>1. Lone(o) /\ request[o].key \in Keys /\ request[o].key # k
          BY <2>0, <2>1, <2>4, <3>2, <4>2, RequestTypes DEF Lone
        <5> QED BY <2>1, <2>7, <5>1
      <4>3. CASE request[o].at = "new"
        BY <4>1, <4>3 DEF LoneRevocation
      <4>4. CASE request[o].at # "new"
        BY <4>1, <4>2, <4>4, OtherRequestStays
      <4> QED BY <4>3, <4>4
    <3> QED BY <3>1, <3>2
  <2> QED BY <2>8, <2>9, <2>10 DEF RegistryInv
<1>4. ASSUME NEW r \in Requests, RequestFails(r) PROVE RegistryInv'
  <2>0. PICK q, k : q = [request[r] EXCEPT !.at = "failed"] /\ k = request[r].key
    OBVIOUS
  <2>1. /\ request[r].at = "read" \/ (request[r].at = "committed" /\ request[r].op = "register")
        /\ request' = [request EXCEPT ![r] = q] /\ UNCHANGED <<listed, known, sourceStarts, entangled>>
        /\ unheard' = IF request[r].at = "committed" THEN unheard \cup {k} ELSE unheard
    BY <1>4, <2>0 DEF RequestFails
  <2>2. request[r] \in RequestStates /\ k \in Keys /\ request[r].op \in {"register", "revoke"}
    BY <2>0, <2>1, RequestTypes
  <2>3. q \in RequestStates /\ q.at = "failed" /\ q.op = request[r].op /\ q.key = k
    BY <2>0, <2>2 DEF RequestStates
  <2>4. /\ request'[r] = q /\ (\A o \in Requests : o # r => request'[o] = request[o])
        /\ \A l : Working(l)' = IF q.at \notin {"new", "done", "failed"} /\ q.key = l
                                THEN Working(l) \cup {r} ELSE Working(l) \ {r}
        /\ \A o \in Requests : o # r /\ Lone(o)' /\ request[r].at # "new" => Lone(o)
    BY <2>0, <2>1, <2>3, WorkingMoves
  <2>5. r \in Working(k) /\ (\A l : l # k => r \notin Working(l)) /\ \A l : Working(l)' = Working(l) \ {r}
    BY <2>0, <2>1, <2>3, <2>4 DEF Working, Idle
  <2>6. unheard' \subseteq Keys /\ unheard \subseteq unheard'
    BY <1>t, <2>1, <2>2
  <2>7. RegistryTypes'
    BY <1>t, <2>1, <2>2, <2>3, <2>6, RegistryTypesMove
  <2>8. ASSUME NEW l \in Keys \ entangled' PROVE Alone(l)'
    <3>1. Alone(l)
      BY <1>t, <2>1
    <3>2. CASE l = k
      <4>1. Working(k) = {r} /\ (request[r].at = "committed" => listed[k] = Target(r)) /\ Working(k)' = {}
        BY <2>1, <2>5, <3>1, <3>2 DEF Alone
      <4>2. CASE request[r].at = "read"
        BY <2>1, <3>1, <3>2, <4>1, <4>2 DEF Alone, Authenticates
      <4>3. CASE request[r].at = "committed" /\ request[r].op = "register"
        BY <2>1, <3>2, <4>1, <4>3 DEF Alone, Target
      <4> QED BY <2>1, <4>2, <4>3
    <3>3. CASE l # k
      <4>1. Working(l)' = Working(l) /\ \A o \in Working(l) : request'[o] = request[o]
        BY <2>4, <2>5, <3>3 DEF Working
      <4> QED BY <2>1, <2>6, <3>1, <4>1, OtherKeyStays
    <3> QED BY <3>2, <3>3
  <2>9. ASSUME NEW o \in Requests PROVE LoneRevocation(o)'
    <3>1. CASE o = r
      BY <2>3, <2>4, <3>1 DEF LoneRevocation
    <3>2. CASE o # r
      <4>1. LoneRevocation(o) /\ request'[o] = request[o] /\ (Lone(o)' => Lone(o))
        BY <2>1, <2>4, <3>2, RequestTypes
      <4> QED BY <2>1, <4>1, OtherRequestStays
    <3> QED BY <3>1, <3>2
  <2> QED BY <2>7, <2>8, <2>9 DEF RegistryInv
<1>5. ASSUME NEW r \in Requests, WritesCache(r) PROVE RegistryInv'
  <2>0. PICK q, k : q = [request[r] EXCEPT !.at = "done"] /\ k = request[r].key
    OBVIOUS
  <2>1. /\ request[r].at = "committed" /\ known' = [known EXCEPT ![k] = Cached(r)]
        /\ request' = [request EXCEPT ![r] = q] /\ UNCHANGED <<listed, sourceStarts, entangled, unheard>>
    BY <1>5, <2>0 DEF WritesCache
  <2>2. request[r] \in RequestStates /\ k \in Keys /\ request[r].op \in {"register", "revoke"}
    BY <2>0, <2>1, RequestTypes
  <2>3. q \in RequestStates /\ q.at = "done" /\ q.op = request[r].op /\ q.key = k /\ q.saw = request[r].saw
    BY <2>0, <2>2 DEF RequestStates
  <2>4. /\ request'[r] = q /\ (\A o \in Requests : o # r => request'[o] = request[o])
        /\ \A l : Working(l)' = IF q.at \notin {"new", "done", "failed"} /\ q.key = l
                                THEN Working(l) \cup {r} ELSE Working(l) \ {r}
        /\ \A o \in Requests : o # r /\ Lone(o)' /\ request[r].at # "new" => Lone(o)
    BY <2>0, <2>1, <2>3, WorkingMoves, ZenonT(60)
  <2>5. r \in Working(k) /\ (\A l : l # k => r \notin Working(l)) /\ \A l : Working(l)' = Working(l) \ {r}
    BY <2>0, <2>1, <2>3, <2>4 DEF Working, Idle
  <2>6. /\ known' \in [Keys -> {"none", "config", "enabled", "revoked"}] /\ known'[k] = Cached(r)
        /\ \A l \in Keys : l # k => known'[l] = known[l]
    <3>1. Cached(r) \in {"none", "config", "enabled", "revoked"}
      BY DEF Cached
    <3> QED BY <1>t, <2>1, <2>2, <3>1
  <2>7. RegistryTypes'
    BY <1>t, <2>1, <2>2, <2>3, <2>6, RegistryTypesMove
  <2>8. ASSUME NEW l \in Keys \ entangled' PROVE Alone(l)'
    <3>1. Alone(l)
      BY <1>t, <2>1
    <3>2. CASE l = k
      <4>1. Working(k) = {r} /\ listed[k] = Target(r) /\ Working(k)' = {}
        BY <2>1, <2>5, <3>1, <3>2 DEF Alone
      <4>2. \/ known'[k] = "enabled" /\ listed[k] = "enabled"
            \/ known'[k] \in {"none", "revoked"} /\ listed[k] = "revoked"
        <5>1. CASE request[r].op = "register"
          <6>1. Cached(r) = "enabled" /\ Target(r) = "enabled"
            BY <5>1 DEF Cached, Target
          <6> QED BY <2>6, <4>1, <6>1
        <5>2. CASE request[r].op = "revoke"
          BY <2>0, <2>6, <4>1, <5>2 DEF Cached, Target
        <5> QED BY <2>2, <5>1, <5>2
      <4> QED BY <2>1, <3>2, <4>1, <4>2 DEF Alone, Authenticates
    <3>3. CASE l # k
      <4>1. Working(l)' = Working(l) /\ \A o \in Working(l) : request'[o] = request[o]
        BY <2>4, <2>5, <3>3 DEF Working
      <4> QED BY <2>1, <2>6, <3>1, <3>3, <4>1, OtherKeyStays
    <3> QED BY <3>2, <3>3
  <2>9. ASSUME NEW o \in Requests PROVE LoneRevocation(o)'
    <3>1. CASE o = r
      <4> SUFFICES ASSUME Lone(r)', request[r].op = "revoke" PROVE listed[k] = "revoked" /\ ~Authenticates(k)'
        BY <2>1, <2>3, <2>4, <3>1 DEF LoneRevocation
      <4>1. Lone(r)
        BY <2>0, <2>3, <2>4 DEF Lone
      <4>2. listed[k] = "revoked"
        BY <2>0, <2>1, <4>1, RequestTypes DEF LoneRevocation
      <4> QED BY <2>0, <2>6, <4>2 DEF Cached, Authenticates
    <3>2. CASE o # r
      <4>1. LoneRevocation(o) /\ request'[o] = request[o] /\ sourceStarts' = sourceStarts
        BY <2>1, <2>4, <3>2, RequestTypes
      <4>2. ASSUME Lone(o)', request[o].at # "new" PROVE Lone(o) /\ listed' = listed /\ known'[request[o].key] = known[request[o].key]
        <5>1. Lone(o) /\ request[o].key \in Keys /\ request[o].key # k
          BY <2>0, <2>1, <2>4, <3>2, <4>2, RequestTypes DEF Lone
        <5> QED BY <2>1, <2>6, <5>1
      <4>3. CASE request[o].at = "new"
        BY <4>1, <4>3 DEF LoneRevocation
      <4>4. CASE request[o].at # "new"
        BY <4>1, <4>2, <4>4, OtherRequestStays
      <4> QED BY <4>3, <4>4
    <3> QED BY <3>1, <3>2
  <2> QED BY <2>7, <2>8, <2>9 DEF RegistryInv
<1>6. CASE UNCHANGED sourceVars
  <2>1. UNCHANGED <<listed, known, request, sourceStarts, entangled, unheard>>
    BY <1>6 DEF sourceVars
  <2>2. RegistryTypes'
    BY <2>1 DEF RegistryInv, RegistryTypes, SourcesTypeOK, Idle
  <2>3. \A k : Working(k)' = Working(k)
    BY <2>1 DEF Working, Idle
  <2>4. \A k \in Keys \ entangled' : Alone(k)'
    BY <1>t, <2>1, <2>3, OtherKeyStays
  <2>5. \A r \in Requests : LoneRevocation(r)'
    BY <2>1 DEF RegistryInv, LoneRevocation, Lone, Authenticates
  <2> QED BY <2>2, <2>4, <2>5 DEF RegistryInv
<1> QED BY <1>1, <1>2, <1>3, <1>4, <1>5, <1>6 DEF SourcesNext

LEMMA RegistryInvSound == RegistryInv => SourcesSound
<1> SUFFICES ASSUME RegistryInv PROVE SourcesSound
  OBVIOUS
<1>1. SourcesTypeOK
  BY DEF RegistryInv, RegistryTypes
<1>2. ASSUME NEW k \in Settled
      PROVE  /\ known[k] = "enabled" => listed[k] = "enabled"
             /\ k \notin unheard /\ listed[k] = "enabled" => Authenticates(k)
  <2>1. Alone(k) /\ Working(k) = {}
    BY DEF RegistryInv, Settled
  <2> QED BY <2>1 DEF Alone
<1>3. AnsweredIsDone
  BY DEF RegistryInv, LoneRevocation, Lone, AnsweredIsDone
<1> QED BY <1>1, <1>2, <1>3 DEF SourcesSound, RevocationsHold, RegistrationsHold

HIDE SourceAssumption

-----------------------------------------------------------------------------
(* The versions of rules *)

USE VersionAssumption

VersionRows == [number : Nat \ {0}, content : Rules, active : BOOLEAN, by : {"editor", "loop"}]
EditorStates == [at : {"new", "changed", "saving", "done"}, content : Rules, latest : Nat]

VersionTypes ==
    /\ rule \in Rules /\ rows \in Seq(VersionRows) /\ editor \in [Editors -> EditorStates]
    /\ \A e \in Editors : editor[e].latest <= Len(rows)
    /\ learning \in {"proposed", "shadowed", "applied", "rolled back"}
    /\ versionFaults \in 0..MaxVersionFaults /\ restored \in Nat /\ overlapped \in BOOLEAN

\* The rule that runs has a version, or one is on its way.
OnTheWay ==
    Untouched /\ versionFaults = 0 /\ rule # First =>
        \/ \E i \in DOMAIN rows : rows[i].content = rule
        \/ \E e \in Editing : editor[e].content = rule

\* Edits one after the other: who saves has read the last version.
OneEditor ==
    ~overlapped =>
        /\ \A e, o \in Editing : e = o
        /\ Untouched => \A e \in Editors : editor[e].at = "saving" => editor[e].latest = Len(rows)

\* Of the number that the rule was rolled back to, one version is what runs.
RestoredFrom ==
    restored # 0 => \E i \in DOMAIN rows :
        /\ rows[i].number = restored
        /\ rule.severity = rows[i].content.severity /\ rule.shadow = rows[i].content.shadow

VersionInv == VersionTypes /\ OnTheWay /\ OneEditor /\ NumbersIdentify /\ RestoredFrom
-----------------------------------------------------------------------------
LEMMA VersionInvInit == VersionsInit => VersionInv
<1> SUFFICES ASSUME VersionsInit PROVE VersionInv
  OBVIOUS
<1> USE DEF VersionsInit
<1>1. First \in Rules /\ NoEdit \in EditorStates /\ NoEdit.at = "new" /\ NoEdit.latest = 0
  BY DEF First, Rules, NoEdit, EditorStates
<1>2. rows = <<>> /\ rows \in Seq(VersionRows) /\ Len(rows) = 0 /\ DOMAIN rows = {}
  OBVIOUS
<1>3. VersionTypes
  <2>1. versionFaults \in 0..MaxVersionFaults
    BY VersionAssumption
  <2>2. \A e \in Editors : editor[e] = NoEdit
    OBVIOUS
  <2>3. editor \in [Editors -> EditorStates] /\ \A e \in Editors : editor[e].latest = 0
    BY <1>1, <2>2
  <2>4. \A e \in Editors : editor[e].latest <= Len(rows)
    BY <1>2, <2>3
  <2> QED BY <1>1, <1>2, <2>1, <2>3, <2>4 DEF VersionTypes
<1>4. Editing = {}
  BY <1>1 DEF Editing
<1>5. OnTheWay /\ OneEditor /\ NumbersIdentify /\ RestoredFrom
  BY <1>1, <1>2, <1>4 DEF OnTheWay, OneEditor, NumbersIdentify, RestoredFrom
<1> QED BY <1>3, <1>5 DEF VersionInv

\* A change of the rule by an edit that was not there yet.
LEMMA EditKeeps ==
    ASSUME VersionInv, NEW e \in Editors, NEW content \in Rules, editor[e].at = "new", Writes(e, content),
           overlapped' = (overlapped \/ Editing # {}), UNCHANGED <<rows, learning, versionFaults>>,
           RestoredFrom', restored' \in Nat
    PROVE  VersionInv'
<1>1. rule' = content /\ editor' = [editor EXCEPT ![e] = [at |-> "changed", content |-> content, latest |-> 0]]
  BY DEF Writes
<1>2. VersionTypes /\ Len(rows) \in Nat
  BY SeqShape DEF VersionInv, VersionTypes
<1>3. /\ editor' \in [Editors -> EditorStates]
      /\ editor'[e].at = "changed" /\ editor'[e].content = content /\ editor'[e].latest = 0
      /\ \A o \in Editors : o # e => editor'[o] = editor[o]
  <2>1. [at |-> "changed", content |-> content, latest |-> 0] \in EditorStates
    BY DEF EditorStates
  <2> QED BY <1>1, <1>2, <2>1 DEF VersionTypes
<1>4. VersionTypes'
  <2>1. \A o \in Editors : editor'[o].latest <= Len(rows')
    <3>1. 0 <= Len(rows) /\ rows' = rows
      BY <1>2
    <3>2. \A o \in Editors : o # e => editor'[o].latest <= Len(rows)
      BY <1>2, <1>3 DEF VersionTypes
    <3> QED BY <1>3, <3>1, <3>2
  <2> QED BY <1>1, <1>2, <1>3, <2>1 DEF VersionTypes
<1>5. Editing' = Editing \cup {e}
  BY <1>3 DEF Editing
<1>6. OnTheWay'
  BY <1>1, <1>3, <1>5 DEF OnTheWay
<1>7. OneEditor'
  BY <1>3, <1>5 DEF VersionInv, OneEditor, Untouched
<1>8. NumbersIdentify'
  BY DEF VersionInv, NumbersIdentify, Untouched
<1> QED BY <1>4, <1>6, <1>7, <1>8 DEF VersionInv

\* What a rollback makes of the rule.
LEMMA RestoredRule ==
    ASSUME rule \in Rules, NEW row \in VersionRows
    PROVE  /\ Restored(row) \in Rules /\ Restored(row).shadow = row.content.shadow
           /\ row.by # "loop" => Restored(row).severity = row.content.severity
BY DEF Restored, Rules, VersionRows

LEMMA VersionInvStep == VersionInv /\ [VersionsNext]_versionVars => VersionInv'
<1> SUFFICES ASSUME VersionInv, [VersionsNext]_versionVars PROVE VersionInv'
  OBVIOUS
<1>t. /\ VersionTypes /\ OnTheWay /\ OneEditor /\ NumbersIdentify /\ RestoredFrom
      /\ rule \in Rules /\ rows \in Seq(VersionRows) /\ editor \in [Editors -> EditorStates]
      /\ Len(rows) \in Nat /\ DOMAIN rows = 1..Len(rows) /\ \A i \in 1..Len(rows) : rows[i] \in VersionRows
  BY SeqShape DEF VersionInv, VersionTypes
<1>n. Len(rows) \in Nat /\ \A o \in Editors : editor[o].latest <= Len(rows) /\ editor[o].latest \in Nat
  BY <1>t DEF VersionTypes, EditorStates
<1>l. Len(rows) \in Nat /\ DOMAIN rows = 1..Len(rows)
  BY <1>t
<1>1. ASSUME NEW e \in Editors, Edits(e) PROVE VersionInv'
  <2>1. PICK content \in Rules : Writes(e, content)
    BY <1>1 DEF Edits
  <2>2. /\ editor[e].at = "new" /\ overlapped' = (overlapped \/ Editing # {}) /\ restored' = 0
        /\ UNCHANGED <<rows, learning, versionFaults>>
    BY <1>1 DEF Edits
  <2>3. RestoredFrom'
    BY <2>2 DEF RestoredFrom
  <2> QED BY <2>1, <2>2, <2>3, EditKeeps
<1>2. ASSUME NEW e \in Editors, RollsBack(e) PROVE VersionInv'
  <2>1. PICK i \in DOMAIN rows :
          /\ Writes(e, Restored(rows[i])) /\ restored' = IF rows[i].by = "loop" THEN 0 ELSE rows[i].number
    BY <1>2 DEF RollsBack
  <2>2. /\ editor[e].at = "new" /\ overlapped' = (overlapped \/ Editing # {})
        /\ UNCHANGED <<rows, learning, versionFaults>>
    BY <1>2 DEF RollsBack
  <2>3. /\ rows[i] \in VersionRows /\ Restored(rows[i]) \in Rules /\ Restored(rows[i]).shadow = rows[i].content.shadow
        /\ rows[i].by # "loop" => Restored(rows[i]).severity = rows[i].content.severity
    BY <1>t, RestoredRule
  <2>4. restored' \in Nat
    BY <2>1, <2>3 DEF VersionRows
  <2>5. RestoredFrom'
    BY <2>1, <2>2, <2>3 DEF RestoredFrom, Writes
  <2> QED BY <2>1, <2>2, <2>3, <2>4, <2>5, EditKeeps
<1>3. ASSUME NEW e \in Editors, ReadsVersions(e) PROVE VersionInv'
  <2>1. PICK i \in (IF rows = <<>> THEN {0} ELSE Greatest) :
          /\ editor[e].at = "changed" /\ editor' = [editor EXCEPT ![e].at = "saving", ![e].latest = i]
          /\ UNCHANGED <<rule, rows, learning, versionFaults, restored, overlapped>>
    BY <1>3 DEF ReadsVersions
  <2>2. i \in Nat /\ i <= Len(rows)
    BY <1>t, <2>1, EmptySeq DEF Greatest
  <2>3. /\ editor' \in [Editors -> EditorStates]
        /\ editor'[e].at = "saving" /\ editor'[e].content = editor[e].content /\ editor'[e].latest = i
        /\ \A o \in Editors : o # e => editor'[o] = editor[o]
    BY <1>t, <2>1, <2>2 DEF EditorStates
  <2>4. VersionTypes'
    <3>1. \A o \in Editors : editor'[o].latest <= Len(rows')
      BY <1>t, <2>1, <2>2, <2>3 DEF VersionTypes
    <3> QED BY <1>t, <2>1, <2>3, <3>1 DEF VersionTypes
  <2>5. Editing' = Editing /\ e \in Editing
    BY <2>1, <2>3 DEF Editing
  <2>6. OnTheWay'
    <3>1. \A o \in Editors : editor'[o].content = editor[o].content
      BY <2>3
    <3> QED BY <1>t, <2>1, <2>5, <3>1 DEF OnTheWay, Untouched, Editing
  <2>7. OneEditor'
    <3> SUFFICES ASSUME ~overlapped, Untouched PROVE \A o \in Editors : editor'[o].at = "saving" => editor'[o].latest = Len(rows)
      BY <1>t, <2>1, <2>5 DEF OneEditor, Untouched
    <3>1. i = Len(rows)
      <4>1. CASE rows = <<>>
        <5>1. i = 0
          BY <2>1, <4>1
        <5>2. Len(rows) = 0
          BY <4>1
        <5> QED BY <5>1, <5>2
      <4>2. CASE rows # <<>>
        <5>1. i \in 1..Len(rows) /\ \A j \in 1..Len(rows) : rows[j].number <= rows[i].number
          BY <1>t, <2>1, <4>2 DEF Greatest
        <5>2. Len(rows) \in 1..Len(rows)
          <6>1. Len(rows) # 0
            BY <1>t, <4>2, EmptySeq
          <6> QED BY <1>l, <6>1
        <5>3. \A j \in 1..Len(rows) : rows[j].number = j
          BY <1>t DEF NumbersIdentify
        <5>4. Len(rows) <= i
          <6>1. rows[Len(rows)].number = Len(rows) /\ rows[i].number = i
            BY <5>1, <5>2, <5>3
          <6> QED BY <5>1, <5>2, <6>1
        <5> QED BY <1>n, <2>2, <5>4
      <4> QED BY <4>1, <4>2
    <3>2. \A o \in Editors : o # e => editor[o].at # "saving"
      BY <1>t, <2>5 DEF OneEditor, Editing
    <3> QED BY <2>3, <3>1, <3>2
  <2>8. NumbersIdentify' /\ RestoredFrom'
    BY <1>t, <2>1 DEF NumbersIdentify, Untouched, RestoredFrom
  <2> QED BY <2>4, <2>6, <2>7, <2>8 DEF VersionInv
<1>4. ASSUME NEW e \in Editors, SavesVersion(e) PROVE VersionInv'
  <2>0. PICK row : row = [number |-> NextNumber(e), content |-> editor[e].content, active |-> TRUE, by |-> "editor"]
    OBVIOUS
  <2> DEFINE l == editor[e].latest
             retired == Retired(e)
  <2>1. /\ editor[e].at = "saving" /\ rows' = Append(retired, row)
        /\ editor' = [editor EXCEPT ![e] = [NoEdit EXCEPT !.at = "done"]]
        /\ UNCHANGED <<rule, learning, versionFaults, restored, overlapped>>
    BY <1>4, <2>0 DEF SavesVersion
  <2>2. l \in Nat /\ l <= Len(rows) /\ editor[e].content \in Rules
    BY <1>t DEF VersionTypes, EditorStates
  <2>3. /\ NextNumber(e) \in Nat \ {0}
        /\ NextNumber(e) = IF l = 0 THEN 1 ELSE rows[l].number + 1
    <3>1. NextNumber(e) = IF l = 0 THEN 1 ELSE rows[l].number + 1
      BY DEF NextNumber
    <3>2. l # 0 => rows[l].number \in Nat \ {0}
      BY <1>t, <2>2 DEF VersionRows
    <3> QED BY <3>1, <3>2
  <2>4. row \in VersionRows /\ row.number = NextNumber(e) /\ row.content = editor[e].content /\ row.active = TRUE
    BY <2>0, <2>2, <2>3 DEF VersionRows
  <2>5. retired = [i \in 1..Len(rows) |-> IF i = l THEN [rows[i] EXCEPT !.active = FALSE] ELSE rows[i]]
    BY <1>t DEF Retired
  <2>6. \A i \in 1..Len(rows) :
          (IF i = l THEN [rows[i] EXCEPT !.active = FALSE] ELSE rows[i]) \in VersionRows
    BY <1>t DEF VersionRows
  <2> HIDE DEF retired
  <2>7. retired \in Seq(VersionRows) /\ DOMAIN retired = 1..Len(rows)
    BY <1>t, <2>5, <2>6, SeqDef
  <2>8. Len(retired) = Len(rows)
    BY <1>t, <2>7, LenProperties
  <2>9. ASSUME NEW i \in 1..Len(rows)
        PROVE  /\ retired[i].number = rows[i].number /\ retired[i].content = rows[i].content
               /\ retired[i].active = IF i = l THEN FALSE ELSE rows[i].active
    <3>1. retired[i] = IF i = l THEN [rows[i] EXCEPT !.active = FALSE] ELSE rows[i]
      BY <2>5
    <3>2. rows[i] \in VersionRows
      BY <1>t
    <3> QED BY <3>1, <3>2 DEF VersionRows
  <2>10. /\ rows' \in Seq(VersionRows) /\ Len(rows') = Len(rows) + 1 /\ DOMAIN rows' = 1..Len(rows) + 1
         /\ rows'[Len(rows) + 1] = row /\ \A i \in 1..Len(rows) : rows'[i] = retired[i]
    <3>1. /\ rows' \in Seq(VersionRows) /\ Len(rows') = Len(retired) + 1
          /\ rows'[Len(retired) + 1] = row /\ \A i \in 1..Len(retired) : rows'[i] = retired[i]
      BY <2>1, <2>4, <2>7, AppendProperties
    <3> QED BY <2>8, <3>1, SeqShape
  <2>11. /\ editor' \in [Editors -> EditorStates] /\ editor'[e].at = "done" /\ editor'[e].latest = 0
         /\ \A o \in Editors : o # e => editor'[o] = editor[o]
    <3>1. [NoEdit EXCEPT !.at = "done"] \in EditorStates /\ [NoEdit EXCEPT !.at = "done"].at = "done" /\ [NoEdit EXCEPT !.at = "done"].latest = 0
      BY DEF NoEdit, EditorStates, First, Rules
    <3> QED BY <1>t, <2>1, <3>1
  <2> HIDE DEF l
  <2>12. VersionTypes'
    <3>1. \A o \in Editors : editor'[o].latest <= Len(rows')
      <4>1. Len(rows') = Len(rows) + 1
        BY <2>10
      <4>2. \A o \in Editors : o = e \/ editor'[o].latest = editor[o].latest
        BY <2>11
      <4>3. editor'[e].latest = 0
        BY <2>11
      <4> QED BY <1>n, <4>1, <4>2, <4>3
    <3> QED BY <1>t, <2>1, <2>10, <2>11, <3>1 DEF VersionTypes
  <2>13. Editing' = Editing \ {e} /\ e \in Editing
    BY <2>1, <2>11 DEF Editing
  <2>14. OnTheWay'
    <3> SUFFICES ASSUME Untouched, versionFaults = 0, rule # First
                 PROVE  (\E i \in DOMAIN rows' : rows'[i].content = rule) \/ \E o \in Editing' : editor'[o].content = rule
      BY <2>1 DEF OnTheWay, Untouched
    <3>1. CASE \E i \in DOMAIN rows : rows[i].content = rule
      <4>1. PICK i \in 1..Len(rows) : rows[i].content = rule
        BY <1>t, <3>1
      <4>2. i \in DOMAIN rows' /\ rows'[i].content = rule
        <5>1. rows'[i] = retired[i] /\ retired[i].content = rows[i].content
          BY <2>9, <2>10
        <5>2. DOMAIN rows' = 1..Len(rows) + 1
          BY <2>10
        <5>3. i \in DOMAIN rows'
          BY <1>l, <5>2
        <5> QED BY <4>1, <5>1, <5>3
      <4> QED BY <4>2
    <3>2. CASE \E o \in Editing : editor[o].content = rule
      <4>1. PICK o \in Editing : editor[o].content = rule
        BY <3>2
      <4>2. CASE o = e
        <5>1. Len(rows) + 1 \in DOMAIN rows'
          <6>1. DOMAIN rows' = 1..Len(rows) + 1
            BY <2>10
          <6> QED BY <1>l, <6>1
        <5> QED BY <2>4, <2>10, <4>1, <4>2, <5>1
      <4>3. CASE o # e
        BY <2>11, <2>13, <4>1, <4>3 DEF Editing
      <4> QED BY <4>2, <4>3
    <3> QED BY <1>t, <3>1, <3>2 DEF OnTheWay
  <2>15. OneEditor'
    <3>1. \A o \in Editors \ {e} : ~overlapped => editor[o].at # "saving"
      BY <1>t, <2>13 DEF OneEditor, Editing
    <3> QED BY <1>t, <2>1, <2>11, <2>13, <3>1 DEF OneEditor
  <2>16. NumbersIdentify'
    <3> SUFFICES ASSUME ~overlapped, Untouched, NEW i \in 1..Len(rows) + 1
                 PROVE  rows'[i].number = i /\ (rows'[i].active <=> i = Len(rows) + 1)
      BY <2>1, <2>10 DEF NumbersIdentify, Untouched
    <3>1. l = Len(rows)
      BY <1>t, <2>1, SMTT(30) DEF OneEditor, l
    <3>2. \A j \in 1..Len(rows) : rows[j].number = j /\ (rows[j].active <=> j = Len(rows))
      BY <1>t DEF NumbersIdentify
    <3>3. CASE i = Len(rows) + 1
      <4>1. NextNumber(e) = Len(rows) + 1
        <5>1. CASE l = 0
          BY <2>3, <3>1, <5>1
        <5>2. CASE l # 0
          <6>1. l \in 1..Len(rows)
            BY <1>l, <3>1, <5>2
          <6>2. rows[l].number = l
            BY <3>2, <6>1
          <6> QED BY <2>3, <3>1, <5>2, <6>2
        <5> QED BY <5>1, <5>2
      <4> QED BY <2>4, <2>10, <3>3, <4>1
    <3>4. CASE i # Len(rows) + 1
      <4>1. i \in 1..Len(rows)
        BY <1>l, <3>4
      <4>2. rows'[i].number = rows[i].number /\ rows'[i].active = IF i = l THEN FALSE ELSE rows[i].active
        BY <2>9, <2>10, <4>1
      <4>3. ~rows'[i].active
        BY <3>1, <3>2, <4>1, <4>2
      <4> QED BY <3>2, <3>4, <4>1, <4>2, <4>3
    <3> QED BY <3>3, <3>4
  <2>17. RestoredFrom'
    <3> SUFFICES ASSUME restored # 0
                 PROVE  \E i \in DOMAIN rows' : rows'[i].number = restored
                            /\ rule.severity = rows'[i].content.severity /\ rule.shadow = rows'[i].content.shadow
      BY <2>1 DEF RestoredFrom
    <3>1. PICK i \in 1..Len(rows) : rows[i].number = restored
                            /\ rule.severity = rows[i].content.severity /\ rule.shadow = rows[i].content.shadow
      BY <1>t DEF RestoredFrom
    <3>2. i \in DOMAIN rows' /\ rows'[i].number = rows[i].number /\ rows'[i].content = rows[i].content
      <4>1. rows'[i] = retired[i] /\ retired[i].number = rows[i].number /\ retired[i].content = rows[i].content
        BY <2>9, <2>10
      <4>2. DOMAIN rows' = 1..Len(rows) + 1
        BY <2>10
      <4>3. i \in DOMAIN rows'
        BY <1>l, <4>2
      <4> QED BY <4>1, <4>3
    <3> QED BY <3>1, <3>2
  <2> QED BY <2>12, <2>14, <2>15, <2>16, <2>17 DEF VersionInv
<1>5. ASSUME NEW e \in Editors, VersionFails(e) PROVE VersionInv'
  <2>1. /\ versionFaults < MaxVersionFaults /\ versionFaults' = versionFaults + 1 /\ e \in Editing
        /\ editor' = [editor EXCEPT ![e] = [NoEdit EXCEPT !.at = "done"]]
        /\ UNCHANGED <<rule, rows, learning, restored, overlapped>>
    BY <1>5 DEF VersionFails
  <2>2. /\ editor' \in [Editors -> EditorStates] /\ editor'[e].at = "done" /\ editor'[e].latest = 0
        /\ \A o \in Editors : o # e => editor'[o] = editor[o]
    <3>1. [NoEdit EXCEPT !.at = "done"] \in EditorStates /\ [NoEdit EXCEPT !.at = "done"].at = "done" /\ [NoEdit EXCEPT !.at = "done"].latest = 0
      BY DEF NoEdit, EditorStates, First, Rules
    <3> QED BY <1>t, <2>1, <3>1
  <2>3. versionFaults' \in 0..MaxVersionFaults /\ versionFaults' # 0
    <3>1. versionFaults \in 0..MaxVersionFaults /\ MaxVersionFaults \in Nat
      BY <1>t, VersionAssumption DEF VersionTypes
    <3>2. versionFaults < MaxVersionFaults /\ versionFaults' = versionFaults + 1
      BY <2>1
    <3> QED BY <3>1, <3>2
  <2>4. VersionTypes'
    <3>1. \A o \in Editors : editor'[o].latest <= Len(rows')
      <4>1. Len(rows') = Len(rows)
        BY <2>1
      <4>2. \A o \in Editors : o = e \/ editor'[o].latest = editor[o].latest
        BY <2>2
      <4>3. editor'[e].latest = 0
        BY <2>2
      <4> QED BY <1>n, <4>1, <4>2, <4>3
    <3> QED BY <1>t, <2>1, <2>2, <2>3, <3>1 DEF VersionTypes
  <2>5. Editing' = Editing \ {e}
    BY <2>2 DEF Editing
  <2>6. OnTheWay'
    BY <2>3 DEF OnTheWay
  <2>7. OneEditor'
    BY <1>t, <2>1, <2>2, <2>5 DEF OneEditor, Untouched
  <2>8. NumbersIdentify' /\ RestoredFrom'
    BY <1>t, <2>1 DEF NumbersIdentify, Untouched, RestoredFrom
  <2> QED BY <2>4, <2>6, <2>7, <2>8 DEF VersionInv
<1>6. ASSUME Shadows \/ ClearsShadow PROVE VersionInv'
  <2>1. /\ learning' \in {"shadowed", "rolled back"} /\ restored' = 0 /\ UNCHANGED <<rows, editor, versionFaults, overlapped>>
        /\ rule' \in Rules
    BY <1>t, <1>6 DEF Shadows, ClearsShadow, Rules
  <2>2. VersionTypes'
    BY <1>t, <2>1 DEF VersionTypes
  <2>3. Editing' = Editing /\ ~Untouched'
    BY <2>1 DEF Editing, Untouched
  <2> QED BY <1>t, <2>1, <2>2, <2>3 DEF VersionInv, OnTheWay, OneEditor, NumbersIdentify, RestoredFrom
<1>7. ASSUME AddsLoopRow PROVE VersionInv'
  <2>0. PICK row : row = [number |-> 1, content |-> [First EXCEPT !.shadow = TRUE], active |-> TRUE, by |-> "loop"]
    OBVIOUS
  <2>1. /\ learning' = "applied" /\ rows' = Append(rows, row)
        /\ UNCHANGED <<rule, editor, versionFaults, restored, overlapped>>
    BY <1>7, <2>0 DEF AddsLoopRow
  <2>2. row \in VersionRows
    <3>1. [First EXCEPT !.shadow = TRUE] \in Rules
      BY DEF First, Rules
    <3> QED BY <2>0, <3>1 DEF VersionRows
  <2>3. /\ rows' \in Seq(VersionRows) /\ Len(rows') = Len(rows) + 1 /\ DOMAIN rows' = 1..Len(rows) + 1
        /\ \A i \in 1..Len(rows) : rows'[i] = rows[i]
    <3>1. /\ rows' \in Seq(VersionRows) /\ Len(rows') = Len(rows) + 1 /\ \A i \in 1..Len(rows) : rows'[i] = rows[i]
      BY <1>t, <2>1, <2>2, AppendProperties
    <3> QED BY <3>1, SeqShape
  <2>4. VersionTypes'
    <3>1. \A o \in Editors : editor'[o].latest <= Len(rows')
      <4>1. Len(rows') = Len(rows) + 1 /\ editor' = editor
        BY <2>1, <2>3
      <4> QED BY <1>n, <4>1
    <3> QED BY <1>t, <2>1, <2>3, <3>1 DEF VersionTypes
  <2>5. Editing' = Editing /\ ~Untouched'
    BY <2>1 DEF Editing, Untouched
  <2>6. RestoredFrom'
    <3> SUFFICES ASSUME restored # 0
                 PROVE  \E i \in DOMAIN rows' : rows'[i].number = restored
                            /\ rule.severity = rows'[i].content.severity /\ rule.shadow = rows'[i].content.shadow
      BY <2>1 DEF RestoredFrom
    <3>1. PICK i \in 1..Len(rows) : rows[i].number = restored
                            /\ rule.severity = rows[i].content.severity /\ rule.shadow = rows[i].content.shadow
      BY <1>t DEF RestoredFrom
    <3>2. i \in DOMAIN rows' /\ rows'[i] = rows[i]
      <4>1. rows'[i] = rows[i] /\ DOMAIN rows' = 1..Len(rows) + 1
        BY <2>3
      <4> QED BY <1>l, <4>1
    <3> QED BY <3>1, <3>2
  <2> QED BY <1>t, <2>1, <2>4, <2>5, <2>6 DEF VersionInv, OnTheWay, OneEditor, NumbersIdentify
<1>8. CASE UNCHANGED versionVars
  BY <1>8 DEF versionVars, VersionInv, VersionTypes, OnTheWay, OneEditor, NumbersIdentify, RestoredFrom, Editing, Untouched
<1> QED BY <1>1, <1>2, <1>3, <1>4, <1>5, <1>6, <1>7, <1>8 DEF VersionsNext

LEMMA VersionInvSound == VersionInv => VersionsSound
<1> SUFFICES ASSUME VersionInv PROVE VersionsSound
  OBVIOUS
<1>1. VersionTypes /\ OnTheWay /\ OneEditor /\ NumbersIdentify /\ RestoredFrom
  BY DEF VersionInv
<1>2. VersionsTypeOK
  <2>1. \A e \in Editors : editor[e].content \in Rules /\ editor[e].latest \in 0..Len(rows)
    <3>1. Len(rows) \in Nat
      BY <1>1, SeqShape DEF VersionTypes
    <3>2. \A e \in Editors : editor[e] \in EditorStates /\ editor[e].latest <= Len(rows)
      BY <1>1 DEF VersionTypes
    <3>3. \A e \in Editors : editor[e].content \in Rules /\ editor[e].latest \in Nat
      BY <3>2 DEF EditorStates
    <3> QED BY <3>1, <3>2, <3>3
  <2> QED BY <1>1, <2>1 DEF VersionTypes, VersionsTypeOK, VersionRows
<1>3. RuleIsOnRecord
  BY <1>1 DEF OnTheWay, RuleIsOnRecord
<1>4. RollbackRestores
  <2> DEFINE S == {i \in DOMAIN rows : rows[i].number = restored}
  <2> SUFFICES ASSUME restored # 0, Cardinality(S) = 1, NEW j \in S
               PROVE  rule.severity = rows[j].content.severity /\ rule.shadow = rows[j].content.shadow
    BY DEF RollbackRestores
  <2>1. PICK i \in S : rule.severity = rows[i].content.severity /\ rule.shadow = rows[i].content.shadow
    BY <1>1 DEF RestoredFrom
  <2>2. Len(rows) \in Nat /\ DOMAIN rows = 1..Len(rows)
    BY <1>1, SeqShape DEF VersionTypes
  <2>3. IsFiniteSet(S)
    <3>1. IsFiniteSet(1..Len(rows))
      BY <2>2, FS_Interval
    <3> QED BY <2>2, <3>1, FS_Subset
  <2>4. j = i
    <3> SUFFICES ASSUME j # i PROVE FALSE
      OBVIOUS
    <3>1. IsFiniteSet({i, j}) /\ Cardinality({i, j}) = 2
      <4>1. IsFiniteSet({i}) /\ Cardinality({i}) = 1
        BY FS_Singleton
      <4>2. {i, j} = {i} \cup {j} /\ j \notin {i}
        OBVIOUS
      <4>3. IsFiniteSet({i} \cup {j}) /\ Cardinality({i} \cup {j}) = Cardinality({i}) + 1
        BY ONLY <4>1, <4>2, FS_AddElement
      <4> QED BY <4>1, <4>2, <4>3
    <3>2. {i, j} \subseteq S
      OBVIOUS
    <3>3. Cardinality({i, j}) <= Cardinality(S)
      BY <2>3, <3>2, FS_Subset
    <3> QED BY <3>1, <3>3
  <2> QED BY <2>1, <2>4
<1> QED BY <1>1, <1>2, <1>3, <1>4 DEF VersionsSound

HIDE VersionAssumption

-----------------------------------------------------------------------------
(* The invariants of the composition *)

\* The trail keeps the actions of operators, each once and in one chain of hashes, and the
\* log of tool calls keeps every call in one place or counts it as dropped, also when
\* everything else of the platform runs beside them (audit_trail.py, call_log.py).
THEOREM LogsAreSound == Spec => []LogsSound
<1>1. Init => TrailInv /\ CallLogInv
  BY TrailInvInit, CallLogInvInit DEF Init
<1>2. TrailInv /\ CallLogInv /\ [Next]_vars => TrailInv' /\ CallLogInv'
  BY PartSteps, TrailInvStep, CallLogInvStep
<1>3. TrailInv /\ CallLogInv => LogsSound
  BY TrailInvSound, CallLogInvSound DEF LogsSound
<1> QED BY <1>1, <1>2, <1>3, PTL DEF Spec

\* A key that the cache of sources accepts is enabled in the table, one that the table enables
\* is accepted, and a revocation that answered holds; the rule that runs is on record, under
\* a number that no other version has when edits do not overlap, and a rollback restores what
\* it names (source_registry.py, rule_manager.py).
THEOREM RegistriesAreSound == Spec => []RegistriesSound
<1>1. Init => RegistryInv /\ VersionInv
  BY RegistryInvInit, VersionInvInit DEF Init
<1>2. RegistryInv /\ VersionInv /\ [Next]_vars => RegistryInv' /\ VersionInv'
  BY PartSteps, RegistryInvStep, VersionInvStep
<1>3. RegistryInv /\ VersionInv => RegistriesSound
  BY RegistryInvSound, VersionInvSound DEF RegistriesSound
<1> QED BY <1>1, <1>2, <1>3, PTL DEF Spec
=============================================================================
