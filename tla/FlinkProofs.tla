----------------------------- MODULE FlinkProofs -----------------------------
(* Proofs about both sides of Flink: the consumers of its topics, for any topics *)
(* and any sets of poisonous, invalid and severe events; and its jobs, for any   *)
(* records, chains, times and bounds.  MCJobs puts the jobs beside one another.  *)
EXTENDS FlinkConsumers, MCJobs, FiniteSetTheorems, SequenceTheorems, WellFoundedInduction, TLAPS

\* What a sequence is made of.
LEMMA SeqShape ==
    ASSUME NEW S, NEW s \in Seq(S)
    PROVE  /\ Len(s) \in Nat /\ DOMAIN s = 1..Len(s) /\ \A i \in 1..Len(s) : s[i] \in S
           /\ Range(s) \subseteq S /\ \A x : x \in Range(s) <=> \E i \in 1..Len(s) : s[i] = x
<1>1. Len(s) \in Nat /\ DOMAIN s = 1..Len(s) /\ \A i \in 1..Len(s) : s[i] \in S
  BY LenProperties, ElementOfSeq
<1> QED BY <1>1 DEF Range

\* A non-empty set of numbers has a last one.
LEMMA LastOf ==
    ASSUME NEW n \in Nat, NEW S \in SUBSET (1..n), S # {}
    PROVE  Max(S) \in S /\ \A x \in S : x <= Max(S)
<1> DEFINE T == {m \in Nat : \A x \in S : x <= m}
           R == OpToRel(<, Nat)
<1>1. \A x, y \in Nat : <<x, y>> \in R <=> x < y
  BY DEF OpToRel
<1>2. \E m \in T : \A y \in T : ~ (<<y, m>> \in R)
  <2>1. n \in T /\ T \subseteq Nat
    OBVIOUS
  <2>2. IsWellFoundedOn(R, Nat)
    BY NatLessThanWellFounded
  <2> HIDE DEF T, R
  <2> QED BY <2>1, <2>2, WFMin
<1>3. PICK m \in T : \A y \in T : ~ (<<y, m>> \in R)
  BY <1>2
<1> HIDE DEF R
<1>4. m \in S
  <2> SUFFICES ASSUME m \notin S PROVE FALSE
    OBVIOUS
  <2>1. \A x \in S : x \in Nat \ {0} /\ x <= m /\ x # m
    BY <1>3
  <2>2. m - 1 \in T
    <3>1. m \in Nat
      BY <1>3
    <3>2. PICK x \in S : x \in Nat \ {0} /\ x <= m /\ x # m
      BY <2>1
    <3>3. m - 1 \in Nat
      BY <3>1, <3>2
    <3>4. ASSUME NEW y \in S PROVE y <= m - 1
      <4>1. y \in Nat /\ y <= m /\ y # m
        BY <2>1
      <4> QED BY <3>1, <4>1
    <3> QED BY <3>3, <3>4
  <2>3. m - 1 < m /\ m - 1 \in Nat /\ m \in Nat
    BY <1>3, <2>2
  <2> QED BY <1>1, <1>3, <2>2, <2>3
<1>5. m \in S /\ \A x \in S : m >= x
  BY <1>3, <1>4
<1>6. Max(S) \in S /\ \A y \in S : Max(S) >= y
  BY <1>5 DEF Max
<1>7. \A x \in S : x \in Nat
  OBVIOUS
<1> QED BY <1>6, <1>7

\* The greater one of two numbers, and further down the smaller one.
LEMMA MaxOfTwo ==
    ASSUME NEW a \in Int, NEW b \in Int
    PROVE  Max({a, b}) = IF a >= b THEN a ELSE b
<1>1. CASE a >= b
  <2>1. \A x \in {a, b} : (\A y \in {a, b} : x >= y) <=> x = a
    BY <1>1
  <2> QED BY <1>1, <2>1 DEF Max
<1>2. CASE ~(a >= b)
  <2>1. \A x \in {a, b} : (\A y \in {a, b} : x >= y) <=> x = b
    BY <1>2
  <2> QED BY <1>2, <2>1 DEF Max
<1> QED BY <1>1, <1>2

\* A non-empty set of numbers between a and b has a first one.
LEMMA FirstOf ==
    ASSUME NEW a \in Int, NEW b \in Int, NEW S \in SUBSET (a..b), S # {}
    PROVE  Min(S) \in S /\ \A x \in S : Min(S) <= x
<1> DEFINE T == {b - x + 1 : x \in S}
           n == b - a + 1
<1>1. \A x \in S : x \in Int /\ a <= x /\ x <= b
  OBVIOUS
<1>2. n \in Nat /\ T \in SUBSET (1..n) /\ T # {}
  <2>1. PICK x : x \in S
    OBVIOUS
  <2>2. a <= b
    BY <1>1, <2>1
  <2>3. \A z \in S : b - z + 1 \in 1..n
    BY <1>1, <2>2
  <2> QED BY <2>1, <2>2, <2>3
<1> HIDE DEF n
<1>3. Max(T) \in T /\ \A y \in T : y <= Max(T)
  <2> HIDE DEF T
  <2> QED BY <1>2, LastOf
<1>4. PICK m \in S : Max(T) = b - m + 1
  BY <1>3
<1>5. \A x \in S : m <= x
  <2> SUFFICES ASSUME NEW x \in S PROVE m <= x
    OBVIOUS
  <2>1. b - x + 1 <= b - m + 1
    BY <1>3, <1>4
  <2> QED BY <1>1, <2>1
<1>6. \E x \in S : \A y \in S : x <= y
  BY <1>5
<1> QED BY <1>6 DEF Min

LEMMA MinOfTwo ==
    ASSUME NEW a \in Int, NEW b \in Int
    PROVE  Min({a, b}) = IF a <= b THEN a ELSE b
<1>1. CASE a <= b
  <2>1. \A x \in {a, b} : (\A y \in {a, b} : x <= y) <=> x = a
    BY <1>1
  <2> QED BY <1>1, <2>1 DEF Min
<1>2. CASE ~(a <= b)
  <2>1. \A x \in {a, b} : (\A y \in {a, b} : x <= y) <=> x = b
    BY <1>2
  <2> QED BY <1>2, <2>1 DEF Min
<1> QED BY <1>1, <1>2

-----------------------------------------------------------------------------
(* Job 1: validation of the logs *)

\* Ratings that no source falls to "probation" with.
Ratings == {c \in [total : Nat, valid : Nat, timely : Nat, complete : Nat, high : Nat] :
               c.valid = c.total /\ c.timely = c.total /\ c.complete <= c.total /\ c.high <= c.total}
Prints == {None} \cup {Digest[r] : r \in Records}
Jobs == [read : Nat, dedup : [Addresses -> Prints], lapsed : SUBSET Addresses, counts : Ratings]
Rows == [at : Nat, verdict : {"rejected", "duplicate", "validated"}, lapsed : BOOLEAN,
         level : {None, "trusted", "standard"}]

\* Whether the outputs outs validate record k, which comes from the source of record i.
Again(top, outs, i, k) == outs[k].verdict = "validated" /\ SrcIp[top[k]] = SrcIp[top[i]]

\* The state j remembers the last fingerprint that outs validated of each source.
Remembers(top, j, outs) ==
    \A i \in 1..Len(outs) :
        outs[i].verdict = "validated" /\ (\A k \in 1..Len(outs) : i < k => ~Again(top, outs, i, k)) =>
            j.dedup[SrcIp[top[i]]] = Digest[top[i]] \/ SrcIp[top[i]] \in j.lapsed

NoRepeat(top, outs) ==
    \A i, k \in 1..Len(outs) :
        /\ i < k /\ outs[i].verdict = "validated" /\ Again(top, outs, i, k) /\ ~outs[k].lapsed
        /\ \A l \in 1..Len(outs) : i < l /\ l < k => ~Again(top, outs, i, l)
        => Digest[top[i]] # Digest[top[k]]

\* outs is what a job in the state j has made of the first records of the topic top.
Faithful(top, j, outs) ==
    /\ j \in Jobs /\ outs \in Seq(Rows) /\ Len(outs) = j.read /\ j.read <= Len(top)
    /\ \A i \in 1..Len(outs) : outs[i].at = i
    /\ Remembers(top, j, outs) /\ NoRepeat(top, outs)

Rounds == [job : Jobs, outputs : Seq(Rows), durable : BOOLEAN]
Durable == taken # <<>> /\ taken[1].durable
Delivered == IF Durable THEN output \o taken[1].outputs ELSE output

ValidationTypes ==
    /\ topic \in Seq(Records) /\ Len(topic) <= MaxTopic
    /\ open \in Seq(Rows) /\ output \in Seq(Rows) /\ restarts \in 0..MaxRestarts
    /\ taken = <<>> \/ \E t \in Rounds : taken = <<t>>

\* The state at work, the one in the snapshot and the one that a restart begins with: to
\* each belong the outputs that readers see when it becomes the state of the job.
ValidationInv ==
    /\ ValidationTypes
    /\ Faithful(topic, job, Outputs)
    /\ taken # <<>> => Faithful(topic, taken[1].job, output \o taken[1].outputs)
    /\ Faithful(topic, restored, Delivered)
-----------------------------------------------------------------------------
LEMMA CountedIsRating ==
    ASSUME NEW c \in Ratings, NEW r
    PROVE  Counted(c, r) \in Ratings /\ Level(Counted(c, r)) \in {"trusted", "standard"}
<1>1. Cardinality({r} \cap Complete) \in 0..1 /\ Cardinality({r} \cap High) \in 0..1
  <2>1. \A S : {r} \cap S = {} \/ {r} \cap S = {r}
    OBVIOUS
  <2> QED BY <2>1, FS_EmptySet, FS_Singleton
<1> DEFINE d == Counted(c, r)
<1>2. /\ d \in [total : Nat, valid : Nat, timely : Nat, complete : Nat, high : Nat]
      /\ d.valid = d.total /\ d.timely = d.total /\ d.complete <= d.total /\ d.high <= d.total
  BY <1>1 DEF Ratings, Counted
<1>3. d \in Ratings
  BY <1>2 DEF Ratings
<1> HIDE DEF d
<1>4. Tenfold(d) >= 5 * d.total
  BY <1>2 DEF Tenfold
<1>5. Level(d) \in {"trusted", "standard"}
  BY <1>4 DEF Level
<1> QED BY <1>3, <1>5 DEF d

\* One record more.
LEMMA RecordFollows ==
    ASSUME NEW top \in Seq(Records), NEW j, NEW outs, Faithful(top, j, outs), NEW row \in Rows,
           j.read < Len(top), row.at = j.read + 1, NEW k, k \in Jobs, k.read = j.read + 1,
           LET r == top[j.read + 1] IN
           IF row.verdict = "validated"
           THEN /\ j.dedup[SrcIp[r]] # Digest[r] /\ (row.lapsed <=> SrcIp[r] \in j.lapsed)
                /\ k.dedup = [j.dedup EXCEPT ![SrcIp[r]] = Digest[r]] /\ k.lapsed = j.lapsed \ {SrcIp[r]}
           ELSE k.dedup = j.dedup /\ k.lapsed = j.lapsed
    PROVE  Faithful(top, k, Append(outs, row))
<1> DEFINE n == Len(outs)
           more == Append(outs, row)
           r == top[n + 1]
<1>1. /\ j \in Jobs /\ outs \in Seq(Rows) /\ n = j.read /\ n \in Nat /\ n + 1 <= Len(top) /\ Len(top) \in Nat
      /\ \A i \in 1..n : outs[i].at = i /\ outs[i] \in Rows
      /\ Remembers(top, j, outs) /\ NoRepeat(top, outs)
  BY SeqShape DEF Faithful
<1>2. /\ more \in Seq(Rows) /\ Len(more) = n + 1 /\ more[n + 1] = row /\ \A i \in 1..n : more[i] = outs[i]
  BY <1>1, AppendProperties
<1>3. \A i \in 1..n + 1 : i \in 1..n \/ i = n + 1
  BY <1>1
<1>4. \A i \in 1..n + 1 : top[i] \in Records /\ SrcIp[top[i]] \in Addresses
  BY <1>1, SeqShape DEF Addresses
<1>5. /\ row.verdict = "validated" =>
            /\ j.dedup[SrcIp[r]] # Digest[r] /\ (row.lapsed <=> SrcIp[r] \in j.lapsed)
            /\ k.dedup = [j.dedup EXCEPT ![SrcIp[r]] = Digest[r]] /\ k.lapsed = j.lapsed \ {SrcIp[r]}
      /\ row.verdict # "validated" => k.dedup = j.dedup /\ k.lapsed = j.lapsed
      /\ row.at = n + 1 /\ k.read = n + 1
  BY <1>1
<1>6. j.dedup \in [Addresses -> Prints]
  BY <1>1 DEF Jobs
<1> HIDE DEF n, more, r
<1>7. \A i \in 1..n, l \in 1..n : Again(top, more, i, l) <=> Again(top, outs, i, l)
  BY <1>2 DEF Again
<1>8. \A i \in 1..n : n + 1 > i /\ i \in 1..n + 1 /\ n + 1 \in 1..n + 1
  BY <1>1
<1>9. \A i \in 1..n : Again(top, more, i, n + 1) <=> row.verdict = "validated" /\ SrcIp[r] = SrcIp[top[i]]
  BY <1>2 DEF Again, r
<1>10. Remembers(top, k, more)
  <2> SUFFICES ASSUME NEW i \in 1..n + 1, more[i].verdict = "validated",
                      \A l \in 1..n + 1 : i < l => ~Again(top, more, i, l)
               PROVE  k.dedup[SrcIp[top[i]]] = Digest[top[i]] \/ SrcIp[top[i]] \in k.lapsed
    BY <1>2 DEF Remembers
  <2>1. CASE i = n + 1
    <3>1. row.verdict = "validated" /\ SrcIp[r] \in Addresses
      BY <1>2, <1>4, <1>8, <2>1 DEF r
    <3> QED BY <1>5, <1>6, <2>1, <3>1 DEF r
  <2>2. CASE i \in 1..n
    <3>1. outs[i].verdict = "validated" /\ \A l \in 1..n : i < l => ~Again(top, outs, i, l)
      BY <1>2, <1>7, <1>8, <2>2
    <3>2. j.dedup[SrcIp[top[i]]] = Digest[top[i]] \/ SrcIp[top[i]] \in j.lapsed
      BY <1>1, <2>2, <3>1 DEF Remembers, n
    <3>3. row.verdict = "validated" => SrcIp[r] # SrcIp[top[i]]
      BY <1>8, <1>9, <2>2
    <3> QED BY <1>4, <1>5, <1>6, <3>2, <3>3
  <2> QED BY <1>3, <2>1, <2>2
<1>11. NoRepeat(top, more)
  <2> SUFFICES ASSUME NEW i \in 1..n + 1, NEW l \in 1..n + 1, i < l, more[i].verdict = "validated",
                      Again(top, more, i, l), ~more[l].lapsed,
                      \A m \in 1..n + 1 : i < m /\ m < l => ~Again(top, more, i, m)
               PROVE  Digest[top[i]] # Digest[top[l]]
    BY <1>2 DEF NoRepeat
  <2>1. i \in 1..n
    BY <1>1, <1>3
  <2>2. outs[i].verdict = "validated" /\ \A m \in 1..n : i < m /\ m < l => ~Again(top, outs, i, m)
    BY <1>2, <1>7, <1>8, <2>1
  <2>3. CASE l \in 1..n
    <3>1. Again(top, outs, i, l) /\ ~outs[l].lapsed
      BY <1>2, <1>7, <2>1, <2>3
    <3> QED BY <1>1, <2>1, <2>2, <2>3, <3>1 DEF NoRepeat, n
  <2>4. CASE l = n + 1
    <3>1. row.verdict = "validated" /\ SrcIp[r] = SrcIp[top[i]] /\ ~row.lapsed
      BY <1>2, <1>9, <2>1, <2>4
    <3>2. \A m \in 1..n : m < l
      BY <1>1, <2>4
    <3>3. j.dedup[SrcIp[top[i]]] = Digest[top[i]] \/ SrcIp[top[i]] \in j.lapsed
      BY <1>1, <2>1, <2>2, <3>2 DEF Remembers, n
    <3> QED BY <1>5, <2>4, <3>1, <3>3 DEF r
  <2> QED BY <1>3, <2>3, <2>4
<1>12. \A i \in 1..n + 1 : more[i].at = i
  BY <1>1, <1>2, <1>3, <1>5
<1> QED BY <1>1, <1>2, <1>5, <1>10, <1>11, <1>12 DEF Faithful, more, n

\* A fingerprint fewer.
LEMMA FingerprintGoes ==
    ASSUME NEW top \in Seq(Records), NEW j, NEW outs, Faithful(top, j, outs), NEW a \in Addresses
    PROVE  Faithful(top, Without(j, a), outs)
<1> DEFINE k == Without(j, a)
<1>1. /\ j \in Jobs /\ Len(outs) = j.read /\ j.read <= Len(top) /\ Len(top) \in Nat
      /\ Remembers(top, j, outs)
  BY SeqShape DEF Faithful
<1>2. CASE j.dedup[a] = None
  BY <1>2 DEF Without
<1>3. CASE j.dedup[a] # None
  <2>1. k = [j EXCEPT !.dedup[a] = None, !.lapsed = @ \cup {a}]
    BY <1>3 DEF Without
  <2>2. k \in Jobs /\ k.read = j.read /\ k.lapsed = j.lapsed \cup {a} /\ k.dedup = [j.dedup EXCEPT ![a] = None]
    BY <1>1, <2>1 DEF Jobs, Prints
  <2> HIDE DEF k
  <2>3. \A b : j.dedup[b] = k.dedup[b] \/ b \in k.lapsed
    BY <1>1, <2>2 DEF Jobs
  <2>4. Remembers(top, k, outs)
    BY <1>1, <2>2, <2>3 DEF Remembers
  <2> QED BY <1>1, <2>2, <2>4 DEF Faithful, k
<1> QED BY <1>2, <1>3

\* A topic that grows.
LEMMA TopicGrows ==
    ASSUME NEW top \in Seq(Records), NEW r \in Records, NEW j, NEW outs, Faithful(top, j, outs)
    PROVE  Faithful(Append(top, r), j, outs)
<1> DEFINE more == Append(top, r)
<1>1. /\ Len(top) \in Nat /\ Len(more) = Len(top) + 1 /\ \A i \in 1..Len(top) : more[i] = top[i]
  BY SeqShape, AppendProperties
<1>2. /\ Len(outs) = j.read /\ j.read <= Len(top) /\ j.read \in Nat
      /\ Remembers(top, j, outs) /\ NoRepeat(top, outs)
  BY DEF Faithful, Jobs
<1> HIDE DEF more
<1>3. \A i \in 1..Len(outs) : more[i] = top[i]
  BY <1>1, <1>2
<1>4. \A i, k \in 1..Len(outs) : Again(more, outs, i, k) <=> Again(top, outs, i, k)
  BY <1>3 DEF Again
<1>5. Remembers(more, j, outs)
  BY <1>2, <1>3, <1>4 DEF Remembers
<1>6. NoRepeat(more, outs)
  BY <1>2, <1>3, <1>4 DEF NoRepeat
<1> QED BY <1>1, <1>2, <1>5, <1>6 DEF Faithful, more

LEMMA AppendToConcat ==
    ASSUME NEW S, NEW s \in Seq(S), NEW t \in Seq(S), NEW x \in S
    PROVE  s \o Append(t, x) = Append(s \o t, x)
<1>1. t \o <<x>> = Append(t, x) /\ (s \o t) \o <<x>> = Append(s \o t, x) /\ <<x>> \in Seq(S)
  <2>1. /\ <<x>> \in Seq(S) /\ Append(t, x) \in Seq(S) /\ Len(<<x>>) = 1 /\ <<x>>[1] = x
        /\ s \o t \in Seq(S) /\ Append(s \o t, x) \in Seq(S)
    BY ConcatProperties, AppendProperties
  <2>2. \A u \in Seq(S) : u \o <<x>> = Append(u, x)
    <3> SUFFICES ASSUME NEW u \in Seq(S) PROVE u \o <<x>> = Append(u, x)
      OBVIOUS
    <3>1. /\ u \o <<x>> \in Seq(S) /\ Len(u \o <<x>>) = Len(u) + 1
          /\ \A i \in 1..Len(u) + 1 : (u \o <<x>>)[i] = IF i <= Len(u) THEN u[i] ELSE <<x>>[i - Len(u)]
      BY <2>1, ConcatProperties
    <3>2. /\ Append(u, x) \in Seq(S) /\ Len(Append(u, x)) = Len(u) + 1 /\ Append(u, x)[Len(u) + 1] = x
          /\ \A i \in 1..Len(u) : Append(u, x)[i] = u[i]
      BY AppendProperties
    <3>3. Len(u) \in Nat
      BY LenProperties
    <3>4. \A i \in 1..Len(u) + 1 : (u \o <<x>>)[i] = Append(u, x)[i]
      <4> SUFFICES ASSUME NEW i \in 1..Len(u) + 1 PROVE (u \o <<x>>)[i] = Append(u, x)[i]
        OBVIOUS
      <4>1. CASE i \in 1..Len(u)
        BY <3>1, <3>2, <3>3, <4>1
      <4>2. CASE i = Len(u) + 1
        <5>1. i - Len(u) = 1 /\ ~(i <= Len(u))
          BY <3>3, <4>2
        <5> QED BY <2>1, <3>1, <3>2, <4>2, <5>1
      <4> QED BY <3>3, <4>1, <4>2
    <3> QED BY <3>1, <3>2, <3>4, SeqEqual
  <2> QED BY <2>1, <2>2
<1> QED BY <1>1, ConcatAssociative

LEMMA RoundFacts ==
    ASSUME ValidationTypes, taken # <<>>
    PROVE  /\ taken[1] \in Rounds /\ taken = <<taken[1]>> /\ Len(taken) = 1
           /\ taken[1].outputs \in Seq(Rows) /\ taken[1].durable \in BOOLEAN
BY DEF ValidationTypes, Rounds

LEMMA OutputsFacts ==
    ASSUME ValidationTypes
    PROVE  /\ taken = <<>> => Outputs = output \o open
           /\ taken # <<>> => Outputs = (output \o taken[1].outputs) \o open
           /\ Outputs \in Seq(Rows) /\ Delivered \in Seq(Rows)
<1>1. output \in Seq(Rows) /\ open \in Seq(Rows) /\ output \o <<>> = output
  BY ConcatEmptySeq DEF ValidationTypes
<1>2. CASE taken = <<>>
  BY <1>1, <1>2, ConcatProperties DEF Outputs, Delivered, Durable
<1>3. CASE taken # <<>>
  <2>1. taken[1].outputs \in Seq(Rows)
    BY <1>3, RoundFacts
  <2>2. output \o taken[1].outputs \in Seq(Rows)
    BY <1>1, <2>1, ConcatProperties
  <2>3. (output \o taken[1].outputs) \o open \in Seq(Rows)
    BY <1>1, <2>2, ConcatProperties
  <2> QED BY <1>1, <1>3, <2>2, <2>3 DEF Outputs, Delivered
<1> QED BY <1>2, <1>3

LEMMA ProduceKeeps ==
    ASSUME ValidationInv, NEW r \in Records, Produce(r)
    PROVE  ValidationInv'
<1>1. /\ Len(topic) < MaxTopic /\ topic' = Append(topic, r)
      /\ UNCHANGED <<job, open, taken, restored, output, restarts>>
  BY DEF Produce
<1>2. topic \in Seq(Records) /\ Outputs' = Outputs /\ Delivered' = Delivered
  BY <1>1 DEF ValidationInv, ValidationTypes, Outputs, Delivered, Durable
<1>3. topic' \in Seq(Records) /\ Len(topic') <= MaxTopic
  BY <1>1, <1>2, AppendProperties, SeqShape, ValidationAssumption
<1>4. ValidationTypes'
  BY <1>1, <1>3 DEF ValidationInv, ValidationTypes
<1>5. Faithful(topic', job', Outputs')
  BY <1>1, <1>2, TopicGrows DEF ValidationInv
<1>6. taken # <<>> => Faithful(topic', taken[1].job, output \o taken[1].outputs)
  BY <1>1, <1>2, TopicGrows DEF ValidationInv
<1>7. Faithful(topic', restored', Delivered')
  BY <1>1, <1>2, TopicGrows DEF ValidationInv
<1> QED BY <1>1, <1>4, <1>5, <1>6, <1>7 DEF ValidationInv

LEMMA ProcessKeeps == ValidationInv /\ Process => ValidationInv'
<1> SUFFICES ASSUME ValidationInv, Process PROVE ValidationInv'
  OBVIOUS
<1> DEFINE at == job.read + 1
           r == topic[at]
           verdict == Verdict(r)
           row == [at |-> at, verdict |-> verdict, lapsed |-> SrcIp[r] \in job.lapsed,
                   level |-> IF verdict = "validated" THEN Level(Counted(job.counts, r)) ELSE None]
<1>1. /\ at <= Len(topic) /\ open' = Append(open, row)
      /\ job' = IF verdict = "validated"
                THEN [read |-> at, dedup |-> [job.dedup EXCEPT ![SrcIp[r]] = Digest[r]],
                      lapsed |-> job.lapsed \ {SrcIp[r]}, counts |-> Counted(job.counts, r)]
                ELSE [job EXCEPT !.read = at]
      /\ UNCHANGED <<topic, taken, restored, output, restarts>>
  BY DEF Process
<1>2. /\ ValidationTypes /\ Faithful(topic, job, Outputs) /\ topic \in Seq(Records) /\ Len(topic) \in Nat
      /\ open \in Seq(Rows) /\ output \in Seq(Rows) /\ job \in Jobs /\ job.read \in Nat
  BY SeqShape DEF ValidationInv, ValidationTypes, Faithful, Jobs
<1>3. r \in Records /\ SrcIp[r] \in Addresses /\ Digest[r] \in Prints /\ job.read < Len(topic)
  <2>1. at \in 1..Len(topic) /\ job.read < Len(topic)
    BY <1>1, <1>2
  <2>2. r \in Records
    BY <1>2, <2>1
  <2> HIDE DEF r
  <2> QED BY <2>1, <2>2 DEF Addresses, Prints
<1>4. Counted(job.counts, r) \in Ratings /\ Level(Counted(job.counts, r)) \in {"trusted", "standard"}
  BY <1>2, CountedIsRating DEF Jobs
<1>5. verdict \in {"rejected", "duplicate", "validated"} /\ (verdict = "validated" => job.dedup[SrcIp[r]] # Digest[r])
  BY DEF Verdict
<1> HIDE DEF r, verdict
<1>6. row \in Rows /\ row.at = job.read + 1 /\ row.verdict = verdict /\ (row.lapsed <=> SrcIp[r] \in job.lapsed)
  <2>1. at \in Nat /\ (SrcIp[r] \in job.lapsed) \in BOOLEAN
    BY <1>2
  <2> QED BY <1>4, <1>5, <2>1 DEF Rows, None
<1>7. job' \in Jobs /\ job'.read = job.read + 1
  <2>1. CASE verdict = "validated"
    <3>1. [job.dedup EXCEPT ![SrcIp[r]] = Digest[r]] \in [Addresses -> Prints]
      BY <1>2, <1>3 DEF Jobs
    <3> QED BY <1>1, <1>2, <1>4, <2>1, <3>1 DEF Jobs
  <2>2. CASE verdict # "validated"
    <3>1. job' = [job EXCEPT !.read = at] /\ at \in Nat /\ at = job.read + 1
      BY <1>1, <1>2, <2>2
    <3> HIDE DEF at
    <3> QED BY <1>2, <3>1 DEF Jobs
  <2> QED BY <2>1, <2>2
<1>8. /\ verdict = "validated" => /\ job'.dedup = [job.dedup EXCEPT ![SrcIp[r]] = Digest[r]]
                                  /\ job'.lapsed = job.lapsed \ {SrcIp[r]}
      /\ verdict # "validated" => job'.dedup = job.dedup /\ job'.lapsed = job.lapsed
  BY <1>1, <1>2 DEF Jobs
<1>o. open' = Append(open, row)
  BY <1>1
<1> HIDE DEF row
<1>9. Faithful(topic, job', Append(Outputs, row))
  BY <1>2, <1>3, <1>5, <1>6, <1>7, <1>8, RecordFollows DEF r
<1>10. open' \in Seq(Rows)
  BY <1>2, <1>6, <1>o, AppendProperties
<1>11. ValidationTypes'
  BY <1>1, <1>2, <1>10 DEF ValidationTypes
<1>12. Outputs' = Append(Outputs, row)
  <2>1. CASE taken = <<>>
    <3>1. Outputs = output \o open /\ Outputs' = output \o open'
      BY <1>1, <1>2, <1>11, <2>1, OutputsFacts, ConcatEmptySeq DEF Outputs
    <3> QED BY <1>2, <1>6, <1>o, <3>1, AppendToConcat
  <2>2. CASE taken # <<>>
    <3> DEFINE first == output \o taken[1].outputs
    <3>1. first \in Seq(Rows)
      BY <1>2, <2>2, RoundFacts, ConcatProperties
    <3>2. Outputs = first \o open /\ Outputs' = first \o open'
      BY <1>1, <1>2, <2>2 DEF Outputs
    <3> HIDE DEF first
    <3> QED BY <1>2, <1>6, <1>o, <3>1, <3>2, AppendToConcat, SMTT(60)
  <2> QED BY <2>1, <2>2
<1>13. Delivered' = Delivered
  BY <1>1 DEF Delivered, Durable
<1> QED BY <1>1, <1>9, <1>11, <1>12, <1>13 DEF ValidationInv

LEMMA ExpiresKeeps ==
    ASSUME ValidationInv, NEW a \in Addresses, Expires(a)
    PROVE  ValidationInv'
<1>1. /\ job' = Without(job, a) /\ restored' = Without(restored, a)
      /\ taken' = [i \in DOMAIN taken |-> [taken[i] EXCEPT !.job = Without(@, a)]]
      /\ UNCHANGED <<topic, open, output, restarts>>
  BY DEF Expires
<1>2. /\ ValidationTypes /\ topic \in Seq(Records) /\ Faithful(topic, job, Outputs)
      /\ taken # <<>> => Faithful(topic, taken[1].job, output \o taken[1].outputs)
      /\ Faithful(topic, restored, Delivered)
  BY DEF ValidationInv, ValidationTypes
<1>3. Faithful(topic, job', Outputs) /\ Faithful(topic, restored', Delivered)
  BY <1>1, <1>2, FingerprintGoes
<1>4. CASE taken = <<>>
  <2>1. taken' = <<>>
    BY <1>1, <1>4
  <2>2. ValidationTypes' /\ Outputs' = Outputs /\ Delivered' = Delivered
    BY <1>1, <1>2, <1>4, <2>1 DEF ValidationTypes, Outputs, Delivered, Durable
  <2> QED BY <1>1, <1>3, <2>1, <2>2 DEF ValidationInv
<1>5. CASE taken # <<>>
  <2> DEFINE t == taken[1]
             u == [t EXCEPT !.job = Without(t.job, a)]
  <2>1. t \in Rounds /\ taken = <<t>>
    BY <1>2, <1>5, RoundFacts
  <2>2. Faithful(topic, Without(t.job, a), output \o t.outputs)
    BY <1>2, <1>5, FingerprintGoes
  <2>3. u \in Rounds /\ u.outputs = t.outputs /\ u.durable = t.durable /\ u.job = Without(t.job, a)
    BY <2>1, <2>2 DEF Rounds, Faithful
  <2>4. taken' = <<u>>
    BY <1>1, <2>1
  <2>5. taken' # <<>> /\ taken'[1] = u
    BY <2>4
  <2> HIDE DEF u
  <2>6. ValidationTypes'
    BY <1>1, <1>2, <2>3, <2>4 DEF ValidationTypes
  <2>7. Outputs' = Outputs /\ Delivered' = Delivered
    <3>1. taken'[1].outputs = taken[1].outputs /\ taken'[1].durable = taken[1].durable
      BY <2>3, <2>5
    <3>2. taken' # <<>> /\ open' = open /\ output' = output
      BY <1>1, <2>5
    <3> QED BY <1>5, <3>1, <3>2 DEF Outputs, Delivered, Durable
  <2> QED BY <1>1, <1>3, <2>2, <2>3, <2>5, <2>6, <2>7 DEF ValidationInv
<1> QED BY <1>4, <1>5

LEMMA BarrierKeeps == ValidationInv /\ Barrier => ValidationInv'
<1> SUFFICES ASSUME ValidationInv, Barrier PROVE ValidationInv'
  OBVIOUS
<1> DEFINE t == [job |-> job, outputs |-> open, durable |-> FALSE]
<1>1. /\ taken = <<>> /\ taken' = <<t>> /\ open' = <<>>
      /\ UNCHANGED <<topic, job, restored, output, restarts>>
  BY DEF Barrier, Snapshot
<1>2. /\ ValidationTypes /\ topic \in Seq(Records) /\ Faithful(topic, job, Outputs)
      /\ Faithful(topic, restored, Delivered) /\ open \in Seq(Rows) /\ output \in Seq(Rows) /\ job \in Jobs
  BY DEF ValidationInv, ValidationTypes, Faithful
<1>3. t \in Rounds /\ t.outputs = open /\ ~t.durable /\ t.job = job
  BY <1>2 DEF Rounds
<1>4. taken' # <<>> /\ taken'[1] = t
  BY <1>1
<1> HIDE DEF t
<1>5. open' \in Seq(Rows)
  BY <1>1, EmptySeq
<1>6. ValidationTypes'
  BY <1>1, <1>2, <1>3, <1>5 DEF ValidationTypes
<1>7. Outputs = output \o open
  BY <1>1, <1>2, OutputsFacts
<1>8. Outputs' = Outputs
  <2>1. output \o open \in Seq(Rows)
    BY <1>2, ConcatProperties
  <2>2. Outputs' = (output \o open) \o <<>>
    BY <1>1, <1>3, <1>4 DEF Outputs
  <2> QED BY <1>7, <2>1, <2>2, ConcatEmptySeq
<1>9. Delivered' = Delivered
  BY <1>1, <1>3, <1>4 DEF Delivered, Durable
<1> QED BY <1>1, <1>2, <1>3, <1>4, <1>6, <1>7, <1>8, <1>9 DEF ValidationInv

LEMMA CompletesKeeps == ValidationInv /\ Completes => ValidationInv'
<1> SUFFICES ASSUME ValidationInv, Completes PROVE ValidationInv'
  OBVIOUS
<1> DEFINE t == taken[1]
           u == [t EXCEPT !.durable = TRUE]
<1>1. /\ taken # <<>> /\ taken' = [taken EXCEPT ![1].durable = TRUE] /\ restored' = t.job
      /\ UNCHANGED <<topic, job, open, output, restarts>>
  BY DEF Completes
<1>2. /\ ValidationTypes /\ Faithful(topic, job, Outputs) /\ Faithful(topic, t.job, output \o t.outputs)
  BY <1>1 DEF ValidationInv
<1>3. t \in Rounds /\ taken = <<t>>
  BY <1>1, <1>2, RoundFacts
<1>4. u \in Rounds /\ u.outputs = t.outputs /\ u.durable /\ u.job = t.job
  BY <1>3 DEF Rounds
<1>5. taken' = <<u>>
  <2>1. taken' = [taken EXCEPT ![1] = u]
    BY <1>1
  <2> HIDE DEF t, u
  <2>2. taken \in Seq(Rounds) /\ Len(taken) = 1 /\ 1 \in 1..Len(taken)
    BY <1>3
  <2>3. taken' \in Seq(Rounds) /\ Len(taken') = 1 /\ taken'[1] = u
    <3> DEFINE q == [taken EXCEPT ![1] = u]
    <3>0. \A s \in Seq(Rounds), v \in Rounds : 1 \in 1..Len(s) =>
              /\ [s EXCEPT ![1] = v] \in Seq(Rounds) /\ Len([s EXCEPT ![1] = v]) = Len(s)
              /\ \A j \in 1..Len(s) : [s EXCEPT ![1] = v][j] = IF j = 1 THEN v ELSE s[j]
      BY ExceptSeq
    <3>1. /\ q \in Seq(Rounds) /\ Len(q) = Len(taken)
          /\ \A j \in 1..Len(taken) : q[j] = IF j = 1 THEN u ELSE taken[j]
      BY <1>4, <2>2, <3>0
    <3>2. taken' = q
      BY <2>1
    <3> HIDE DEF q
    <3> QED BY <2>2, <3>1, <3>2
  <2> QED BY <2>3
<1>6. taken' # <<>> /\ taken'[1] = u
  BY <1>5
<1> HIDE DEF u
<1>7. ValidationTypes'
  BY <1>1, <1>2, <1>4, <1>5 DEF ValidationTypes
<1>8. Outputs' = Outputs /\ Delivered' = output \o t.outputs
  BY <1>1, <1>4, <1>6 DEF Outputs, Delivered, Durable
<1> QED BY <1>1, <1>2, <1>4, <1>6, <1>7, <1>8 DEF ValidationInv

LEMMA CommitsKeeps == ValidationInv /\ Commits => ValidationInv'
<1> SUFFICES ASSUME ValidationInv, Commits PROVE ValidationInv'
  OBVIOUS
<1>1. /\ taken # <<>> /\ taken[1].durable /\ output' = output \o taken[1].outputs /\ taken' = <<>>
      /\ UNCHANGED <<topic, job, open, restored, restarts>>
  BY DEF Commits
<1>2. ValidationTypes /\ Faithful(topic, job, Outputs) /\ Faithful(topic, restored, Delivered)
  BY DEF ValidationInv
<1>3. Delivered = output \o taken[1].outputs /\ Delivered \in Seq(Rows)
  BY <1>1, <1>2, OutputsFacts DEF Delivered, Durable
<1>4. ValidationTypes'
  BY <1>1, <1>2, <1>3 DEF ValidationTypes
<1>5. Delivered' = Delivered
  BY <1>1, <1>3 DEF Delivered, Durable
<1>6. Outputs' = Outputs
  BY <1>1, <1>2, <1>4, OutputsFacts, ConcatEmptySeq DEF Outputs, ValidationTypes
<1> QED BY <1>1, <1>2, <1>4, <1>5, <1>6 DEF ValidationInv

LEMMA RestartsKeeps == ValidationInv /\ Restarts => ValidationInv'
<1> SUFFICES ASSUME ValidationInv, Restarts PROVE ValidationInv'
  OBVIOUS
<1>1. /\ restarts < MaxRestarts /\ restarts' = restarts + 1 /\ job' = restored
      /\ output' = Delivered \o <<>> /\ taken' = <<>> /\ open' = <<>> /\ UNCHANGED <<topic, restored>>
  BY DEF Restarts, Delivered, Durable, KeptByCrash
<1>2. ValidationTypes /\ Faithful(topic, restored, Delivered) /\ Delivered \in Seq(Rows)
  BY OutputsFacts DEF ValidationInv
<1>3. output' = Delivered
  BY <1>1, <1>2, ConcatEmptySeq
<1>4. ValidationTypes'
  <2>1. restarts' \in 0..MaxRestarts /\ open' \in Seq(Rows)
    BY <1>1, <1>2, EmptySeq, ValidationAssumption DEF ValidationTypes
  <2> QED BY <1>1, <1>2, <1>3, <2>1 DEF ValidationTypes
<1>5. Delivered' = Delivered /\ Outputs' = Delivered
  <2>1. Delivered \o <<>> = Delivered
    BY <1>2, ConcatEmptySeq
  <2> QED BY <1>1, <1>3, <2>1 DEF Delivered, Durable, Outputs
<1> QED BY <1>1, <1>2, <1>4, <1>5 DEF ValidationInv

LEMMA ValidationInvInit == ValidationInit => ValidationInv
<1> SUFFICES ASSUME ValidationInit PROVE ValidationInv
  OBVIOUS
<1>1. /\ topic = <<>> /\ job = FreshJob /\ open = <<>> /\ taken = <<>>
      /\ restored = FreshJob /\ output = <<>> /\ restarts = 0
  BY DEF ValidationInit
<1>2. /\ <<>> \in Seq(Rows) /\ <<>> \in Seq(Records) /\ Len(<<>>) = 0 /\ <<>> \o <<>> = <<>>
  BY EmptySeq, ConcatEmptySeq
<1>3. FreshJob \in Jobs /\ FreshJob.read = 0
  BY DEF FreshJob, Jobs, Ratings, Prints
<1>4. \A top : Len(top) = 0 => Faithful(top, FreshJob, <<>>)
  BY <1>2, <1>3 DEF Faithful, Remembers, NoRepeat
<1>5. ValidationTypes
  BY <1>1, <1>2, ValidationAssumption DEF ValidationTypes
<1>6. Outputs = <<>> /\ Delivered = <<>>
  BY <1>1, <1>2 DEF Outputs, Delivered, Durable
<1> QED BY <1>1, <1>2, <1>4, <1>5, <1>6 DEF ValidationInv

LEMMA ValidationInvStep == ValidationInv /\ [ValidationNext]_validationVars => ValidationInv'
<1> SUFFICES ASSUME ValidationInv, [ValidationNext]_validationVars PROVE ValidationInv'
  OBVIOUS
<1>1. ASSUME NEW r \in Records, Produce(r) PROVE ValidationInv'
  BY <1>1, ProduceKeeps
<1>2. ASSUME NEW a \in Addresses, Expires(a) PROVE ValidationInv'
  BY <1>2, ExpiresKeeps
<1>3. CASE ValidationStep
  BY <1>3, ProcessKeeps, BarrierKeeps, CompletesKeeps, CommitsKeeps DEF ValidationStep
<1>4. CASE Restarts
  BY <1>4, RestartsKeeps
<1>5. CASE UNCHANGED validationVars
  BY <1>5 DEF validationVars, ValidationInv, ValidationTypes, Outputs, Delivered, Durable
<1> QED BY <1>1, <1>2, <1>3, <1>4, <1>5 DEF ValidationNext

LEMMA ValidationInvSound == ValidationInv => ValidationSound
<1> SUFFICES ASSUME ValidationInv PROVE ValidationSound
  OBVIOUS
<1> DEFINE o == Outputs
<1>1. /\ ValidationTypes /\ Faithful(topic, job, o) /\ Faithful(topic, restored, Delivered)
      /\ topic \in Seq(Records) /\ Len(topic) \in Nat
  BY SeqShape DEF ValidationInv, ValidationTypes
<1>2. /\ job \in Jobs /\ restored \in Jobs /\ o \in Seq(Rows) /\ Len(o) = job.read /\ job.read <= Len(topic)
      /\ DOMAIN o = 1..job.read /\ \A i \in 1..job.read : o[i] \in Rows /\ o[i].at = i
      /\ job.read \in Nat /\ restored.read = Len(Delivered) /\ Len(Delivered) \in Nat
  BY <1>1, SeqShape DEF Faithful, Jobs
<1>3. Len(Delivered) <= Len(o)
  <2>1. open \in Seq(Rows) /\ output \in Seq(Rows) /\ Len(open) \in Nat /\ Len(output) \in Nat
    BY <1>1, SeqShape DEF ValidationTypes
  <2>2. CASE taken = <<>>
    BY <1>1, <2>1, <2>2, OutputsFacts, ConcatProperties DEF Delivered, Durable
  <2>3. CASE taken # <<>>
    <3>1. taken[1].outputs \in Seq(Rows) /\ Len(taken[1].outputs) \in Nat
      BY <1>1, <2>3, RoundFacts, SeqShape
    <3>2. /\ output \o taken[1].outputs \in Seq(Rows)
          /\ Len(output \o taken[1].outputs) = Len(output) + Len(taken[1].outputs)
      BY <2>1, <3>1, ConcatProperties
    <3>3. o = (output \o taken[1].outputs) \o open
      BY <1>1, <2>3, OutputsFacts
    <3>4. Len(o) = Len(output) + Len(taken[1].outputs) + Len(open)
      BY <2>1, <3>2, <3>3, ConcatProperties
    <3>5. Len(Delivered) \in {Len(output), Len(output) + Len(taken[1].outputs)}
      BY <3>2 DEF Delivered
    <3> QED BY <2>1, <3>1, <3>4, <3>5
  <2> QED BY <2>2, <2>3
<1>4. ValidationTypeOK
  <2>1. restored.read <= job.read /\ job.read \in 0..Len(topic)
    BY <1>1, <1>2, <1>3
  <2>2. \A a \in Addresses : job.dedup[a] \in {None} \cup {Digest[r] : r \in Records}
    BY <1>2 DEF Jobs, Prints
  <2>3. \A c \in {job.counts, restored.counts} : c.high <= c.total /\ c.complete <= c.total
    BY <1>2 DEF Jobs, Ratings
  <2>4. Len(taken) <= 1
    <3>1. CASE taken = <<>>
      BY <3>1
    <3>2. CASE taken # <<>>
      <4>1. Len(taken) = 1
        BY <1>1, <3>2, RoundFacts
      <4> QED BY <4>1
    <3> QED BY <3>1, <3>2
  <2> QED BY <1>1, <2>1, <2>2, <2>3, <2>4 DEF ValidationTypeOK, ValidationTypes
<1> HIDE DEF o
<1>5. OneOutputEach
  BY <1>2 DEF OneOutputEach, o
<1>6. NoneOnProbation
  BY <1>2 DEF NoneOnProbation, o, Rows, None
<1>7. RepeatsAreFound
  <2> SUFFICES ASSUME NEW i \in 1..job.read, NEW j \in 1..job.read,
                      i < j, o[i].verdict = "validated", o[j].verdict = "validated",
                      SrcIp[topic[i]] = SrcIp[topic[j]], ~o[j].lapsed,
                      {k \in (i + 1)..(j - 1) : /\ SrcIp[topic[o[k].at]] = SrcIp[topic[i]]
                                                /\ o[k].verdict = "validated"} = {}
               PROVE  Digest[topic[i]] # Digest[topic[j]]
    <3>1. DOMAIN Outputs = 1..job.read /\ \A i \in 1..job.read : Outputs[i].at = i
      BY <1>2 DEF o
    <3> QED BY <3>1 DEF RepeatsAreFound, o
  <2>1. \A l \in 1..job.read : i < l /\ l < j => ~Again(topic, o, i, l)
    <3> SUFFICES ASSUME NEW l \in 1..job.read, i < l, l < j PROVE ~Again(topic, o, i, l)
      OBVIOUS
    <3>1. l \in (i + 1)..(j - 1)
      BY <1>2
    <3> QED BY <1>2, <3>1 DEF Again
  <2>2. Again(topic, o, i, j)
    BY DEF Again
  <2> QED BY <1>1, <1>2, <2>1, <2>2 DEF Faithful, NoRepeat
<1> QED BY <1>4, <1>5, <1>6, <1>7 DEF ValidationSound

\* The raw topic is worked off exactly once and in order over failures at any point, a repeat
\* of the last validated record of a source is found, and none is ever put on probation
\* (processElement, LogValidationJob.java).
THEOREM ValidationIsSound == ValidationSpec => []ValidationSound
BY ValidationInvInit, ValidationInvStep, ValidationInvSound, PTL DEF ValidationSpec

-----------------------------------------------------------------------------
(* Scores and alerts of an address *)

Routes == {"none", "alert", "suppressed", "audit"}

ScoringTypes ==
    /\ count \in Nat /\ events \in 0..MaxEvents /\ count <= events
    /\ baseline \in [n : Nat, sum : Int, squares : Int] /\ baseline.n = count
    /\ DOMAIN windowCounts \subseteq Windows /\ \A w \in DOMAIN windowCounts : windowCounts[w] \in 1..count
    /\ alertWindow \in Windows \cup {NoWindow} /\ alertCount \in 0..count /\ alertCount <= MaxAlerts
    /\ alerts \in [Windows -> Nat] /\ route \in Routes
    /\ newest \in Windows /\ reordered \in BOOLEAN

\* The count of the job never says more than what went out; as long as events come in
\* order it says what went out, and a window that it is not about has had nothing yet.
AlertsCounted ==
    /\ alertWindow # NoWindow => alertCount <= alerts[alertWindow]
    /\ ~reordered =>
        /\ alertWindow <= newest
        /\ alertWindow # NoWindow => alerts[alertWindow] = alertCount
        /\ \A w \in Windows : newest <= w /\ w # alertWindow => alerts[w] = 0

\* The sums of the first n numbers and of their squares.
FirstSums(b) == 2 * b.sum = b.n * (b.n + 1) /\ 6 * b.squares = b.n * (b.n + 1) * (2 * b.n + 1)

\* If all events lie in one window, the samples of the baseline are the numbers 1..n.
SamplesCount ==
    /\ baseline.n = 0 => FirstSums(baseline)
    /\ \A w \in DOMAIN windowCounts : baseline.n = windowCounts[w] => FirstSums(baseline)

ScoringInv ==
    ScoringTypes /\ AlertsCounted /\ SamplesCount /\ StormBound /\ NoneSuppressedEarly /\ TwoWindowsKept
-----------------------------------------------------------------------------
LEMMA FloodStays ==
    ASSUME NEW b \in [n : Nat, sum : Int, squares : Int], FirstSums(b), b.n > 0
    PROVE  ~StandsOut(b.n, b)
<1> DEFINE n == b.n
           s == b.sum
           q == b.squares
           over == n * n - s
<1>1. /\ n \in Nat /\ n > 0 /\ s \in Int /\ q \in Int /\ 2 * s = n * (n + 1)
      /\ 6 * q = n * (n + 1) * (2 * n + 1)
  BY DEF FirstSums
<1> HIDE DEF n, s, q
<1>2. over \in Int /\ over = n * n - s
  BY <1>1
<1> HIDE DEF over
<1>3. 2 * over = n * n - n /\ 2 * s = n * n + n
  BY <1>1, <1>2
<1>4. 4 * (over * over) = (n * n - n) * (n * n - n)
  <2>1. 4 * (over * over) = (2 * over) * (2 * over)
    BY <1>2
  <2> QED BY <1>3, <2>1
<1>5. 4 * (s * s) = (n * n + n) * (n * n + n)
  <2>1. 4 * (s * s) = (2 * s) * (2 * s)
    BY <1>1
  <2> QED BY <1>3, <2>1
<1>6. 6 * (n * q) = n * (n * (n + 1) * (2 * n + 1))
  <2>1. 6 * (n * q) = n * (6 * q)
    BY <1>1
  <2> QED BY <1>1, <2>1
<1> DEFINE excess == n * n * ((n - 1) * (n + 7))
<1>7. 8 * (n * (n * (n + 1) * (2 * n + 1))) = 12 * ((n * n + n) * (n * n + n)) + 3 * ((n * n - n) * (n * n - n)) + excess
  BY <1>1
<1>8. excess \in Nat
  <2>1. n - 1 \in Nat /\ n + 7 \in Nat /\ n * n \in Nat
    BY <1>1
  <2>2. (n - 1) * (n + 7) \in Nat
    BY <2>1
  <2> QED BY <2>1, <2>2
<1> HIDE DEF excess
<1>9. over * over <= 4 * (n * q - s * s)
  <2>1. over * over \in Int /\ n * q \in Int /\ s * s \in Int
    BY <1>1, <1>2
  <2>2. 48 * (n * q) = 48 * (s * s) + 12 * (over * over) + excess
    BY <1>4, <1>5, <1>6, <1>7, <2>1
  <2> QED BY <1>8, <2>1, <2>2
<1>10. ~(over * over > 4 * (n * q - s * s))
  <2>1. over * over \in Int /\ 4 * (n * q - s * s) \in Int
    BY <1>1, <1>2
  <2> QED BY <1>9, <2>1
<1> QED BY <1>10 DEF StandsOut, over, n, s, q

\* One number more.
LEMMA NextSample ==
    ASSUME NEW b \in [n : Nat, sum : Int, squares : Int], FirstSums(b), NEW x, x = b.n + 1
    PROVE  FirstSums([n |-> b.n + 1, sum |-> b.sum + x, squares |-> b.squares + x * x])
<1> DEFINE n == b.n
           s == b.sum
           q == b.squares
<1>1. n \in Nat /\ s \in Int /\ q \in Int /\ 2 * s = n * (n + 1) /\ 6 * q = n * (n + 1) * (2 * n + 1) /\ x = n + 1
  BY DEF FirstSums
<1> HIDE DEF n, s, q
<1>2. 2 * (s + x) = (n + 1) * ((n + 1) + 1)
  <2>1. (n + 1) * ((n + 1) + 1) = n * (n + 1) + 2 * (n + 1) /\ n * (n + 1) \in Int
    BY <1>1
  <2>2. 2 * (s + x) = 2 * s + 2 * x
    BY <1>1
  <2> QED BY <1>1, <2>1, <2>2
<1>3. 6 * (q + x * x) = (n + 1) * ((n + 1) + 1) * (2 * (n + 1) + 1)
  <2>1. n * (n + 1) * (2 * n + 1) + 6 * ((n + 1) * (n + 1)) = (n + 1) * ((n + 1) + 1) * (2 * (n + 1) + 1)
    BY <1>1
  <2> QED BY <1>1, <2>1, ScoringAssumption
<1> QED BY <1>2, <1>3 DEF FirstSums, n, s, q

LEMMA CountsFacts ==
    ASSUME ScoringTypes, NEW w \in Windows
    PROVE  /\ DOMAIN CountsWith(w) = KeptWindows(w) /\ w \in KeptWindows(w) /\ KeptWindows(w) \subseteq Windows
           /\ \A v \in KeptWindows(w) : CountsWith(w)[v] \in 1..count + 1
           /\ CountsWith(w)[w] = (IF w \in DOMAIN windowCounts THEN windowCounts[w] ELSE 0) + 1
           /\ \A v \in KeptWindows(w) : v # w => v \in DOMAIN windowCounts /\ CountsWith(w)[v] = windowCounts[v]
<1>1. /\ count \in Nat /\ DOMAIN windowCounts \subseteq Windows
      /\ \A v \in DOMAIN windowCounts : windowCounts[v] \in 1..count
  BY DEF ScoringTypes
<1>2. Windows \subseteq Nat
  BY DEF Windows
<1>3. w \in KeptWindows(w) /\ \A v \in KeptWindows(w) : v \in Windows /\ (v # w => v \in DOMAIN windowCounts)
  BY <1>1, <1>2 DEF KeptWindows
<1>4. DOMAIN CountsWith(w) = KeptWindows(w)
  BY DEF CountsWith
<1>5. CountsWith(w)[w] = (IF w \in DOMAIN windowCounts THEN windowCounts[w] ELSE 0) + 1
  BY <1>3 DEF CountsWith
<1>6. \A v \in KeptWindows(w) : v # w => CountsWith(w)[v] = windowCounts[v]
  BY <1>3 DEF CountsWith
<1>7. CountsWith(w)[w] \in 1..count + 1
  BY <1>1, <1>5
<1>8. \A v \in KeptWindows(w) : v # w => CountsWith(w)[v] \in 1..count + 1
  BY <1>1, <1>3, <1>6
<1> QED BY <1>3, <1>4, <1>5, <1>6, <1>7, <1>8

\* What an event does, whatever its score.
LEMMA EventFacts ==
    ASSUME ScoringInv, NEW w \in Windows, NEW severity \in Severities, Event(w, severity)
    PROVE  /\ events < MaxEvents /\ events' = events + 1 /\ count' = count + 1 /\ windowCounts' = CountsWith(w)
           /\ baseline' = BaselineWith(CountsWith(w)[w])
           /\ newest' = (IF newest >= w THEN newest ELSE w) /\ reordered' = (reordered \/ w < newest)
           /\ \/ Alert(w)
              \/ route' \in {"none", "audit"} /\ UNCHANGED <<alertWindow, alertCount, alerts>>
<1>1. newest \in Int /\ w \in Int
  BY DEF ScoringInv, ScoringTypes, Windows
<1>2. newest' = Max({newest, w})
  BY DEF Event
<1>3. newest' = (IF newest >= w THEN newest ELSE w)
  BY <1>1, <1>2, MaxOfTwo
<1> DEFINE b == BaselineWith(CountsWith(w)[w])
           score == Score(severity, w, CountsWith(w)[w], b)
           alarming == score >= 60 \/ severity \in {"critical", "high"}
           cold == count + 1 <= ColdStart
<1>4. /\ events < MaxEvents /\ events' = events + 1 /\ count' = count + 1 /\ windowCounts' = CountsWith(w)
      /\ baseline' = b /\ reordered' = (reordered \/ w < newest)
      /\ IF alarming /\ ~cold THEN Alert(w)
         ELSE /\ route' = IF ~alarming /\ ~cold /\ score >= 30 THEN "audit" ELSE "none"
              /\ UNCHANGED <<alertWindow, alertCount, alerts>>
  BY DEF Event
<1> HIDE DEF alarming, cold, score, b
<1>5. \/ Alert(w)
      \/ route' \in {"none", "audit"} /\ UNCHANGED <<alertWindow, alertCount, alerts>>
  BY <1>4
<1> QED BY <1>3, <1>4, <1>5 DEF b

\* What an alert, or its suppression, leaves.
LEMMA AlertFacts ==
    ASSUME ScoringInv, NEW w \in Windows, Alert(w)
    PROVE  \/ /\ alertWindow = w /\ alertCount = MaxAlerts /\ route' = "suppressed"
              /\ UNCHANGED <<alertWindow, alertCount, alerts>>
           \/ /\ alertWindow = w /\ alertCount < MaxAlerts /\ route' = "alert"
              /\ alertWindow' = w /\ alertCount' = alertCount + 1 /\ alerts' = [alerts EXCEPT ![w] = @ + 1]
           \/ /\ alertWindow # w /\ route' = "alert"
              /\ alertWindow' = w /\ alertCount' = 1 /\ alerts' = [alerts EXCEPT ![w] = @ + 1]
<1>1. alertCount \in Nat /\ alertCount <= MaxAlerts /\ MaxAlerts \in Nat
  BY ScoringAssumption DEF ScoringInv, ScoringTypes
<1> QED BY <1>1 DEF Alert, AnotherWindow, Full

LEMMA EventKeeps ==
    ASSUME ScoringInv, NEW w \in Windows, NEW severity \in Severities, Event(w, severity)
    PROVE  ScoringInv'
<1>1. ScoringTypes /\ AlertsCounted /\ SamplesCount /\ StormBound /\ NoneSuppressedEarly /\ TwoWindowsKept
  BY DEF ScoringInv
<1>2. /\ events < MaxEvents /\ events' = events + 1 /\ count' = count + 1 /\ windowCounts' = CountsWith(w)
      /\ baseline' = BaselineWith(CountsWith(w)[w])
      /\ newest' = (IF newest >= w THEN newest ELSE w) /\ reordered' = (reordered \/ w < newest)
  BY EventFacts
<1>3. /\ DOMAIN windowCounts' = KeptWindows(w) /\ w \in KeptWindows(w) /\ KeptWindows(w) \subseteq Windows
      /\ \A v \in KeptWindows(w) : windowCounts'[v] \in 1..count + 1
      /\ windowCounts'[w] = (IF w \in DOMAIN windowCounts THEN windowCounts[w] ELSE 0) + 1
      /\ \A v \in KeptWindows(w) : v # w => v \in DOMAIN windowCounts /\ windowCounts'[v] = windowCounts[v]
  BY <1>1, <1>2, CountsFacts
<1> DEFINE x == windowCounts'[w]
           b == [n |-> baseline.n + 1, sum |-> baseline.sum + x, squares |-> baseline.squares + x * x]
<1>4. /\ count \in Nat /\ events \in Nat /\ count <= events /\ MaxEvents \in Nat /\ MaxAlerts \in Nat \ {0}
      /\ baseline \in [n : Nat, sum : Int, squares : Int] /\ baseline.n = count
      /\ \A v \in DOMAIN windowCounts : windowCounts[v] \in 1..count
      /\ alertWindow \in Windows \cup {NoWindow} /\ alertCount \in Nat /\ alertCount <= count
      /\ alertCount <= MaxAlerts /\ alerts \in [Windows -> Nat] /\ newest \in Windows /\ reordered \in BOOLEAN
  BY <1>1, ScoringAssumption DEF ScoringTypes
<1>5. Windows \subseteq Nat /\ NoWindow \notin Windows /\ w \in Nat /\ newest \in Nat /\ NoWindow = -1
  BY <1>4 DEF Windows, NoWindow
<1>6. baseline' = b /\ x \in Nat
  <2>1. x = CountsWith(w)[w] /\ x \in Nat
    BY <1>2, <1>3, <1>4
  <2> QED BY <1>2, <2>1 DEF BaselineWith
<1> HIDE DEF x
<1>7. baseline' \in [n : Nat, sum : Int, squares : Int] /\ baseline'.n = count + 1
  <2>1. baseline.n + 1 \in Nat /\ baseline.sum + x \in Int /\ baseline.squares + x * x \in Int
    BY <1>4, <1>6
  <2> QED BY <1>4, <1>6, <2>1
<1>8. \/ UNCHANGED <<alertWindow, alertCount, alerts>>
      \/ /\ alertWindow = w /\ alertCount < MaxAlerts
         /\ alertWindow' = w /\ alertCount' = alertCount + 1 /\ alerts' = [alerts EXCEPT ![w] = @ + 1]
      \/ /\ alertWindow # w
         /\ alertWindow' = w /\ alertCount' = 1 /\ alerts' = [alerts EXCEPT ![w] = @ + 1]
  BY AlertFacts, EventFacts
<1>9. route' \in Routes /\ (route' = "suppressed" => /\ alertWindow = w /\ alertCount = MaxAlerts
                                                     /\ UNCHANGED <<alertWindow, alertCount, alerts>>)
  BY AlertFacts, EventFacts DEF Routes
<1>10. ScoringTypes'
  <2>1. count' \in Nat /\ events' \in 0..MaxEvents /\ count' <= events'
    BY <1>2, <1>4
  <2>2. \A v \in KeptWindows(w) : windowCounts'[v] \in 1..count'
    BY <1>2, <1>3
  <2>3. /\ alertWindow' \in Windows \cup {NoWindow} /\ alertCount' \in 0..count' /\ alertCount' <= MaxAlerts
        /\ alerts' \in [Windows -> Nat]
    BY <1>2, <1>4, <1>8
  <2>4. newest' \in Windows /\ reordered' \in BOOLEAN
    BY <1>2, <1>4
  <2> QED BY <1>2, <1>3, <1>7, <1>9, <2>1, <2>2, <2>3, <2>4 DEF ScoringTypes
<1>11. AlertsCounted'
  <2>1. /\ alertWindow # NoWindow => alertCount <= alerts[alertWindow]
        /\ ~reordered => /\ alertWindow <= newest
                         /\ alertWindow # NoWindow => alerts[alertWindow] = alertCount
                         /\ \A v \in Windows : newest <= v /\ v # alertWindow => alerts[v] = 0
    BY <1>1 DEF AlertsCounted
  <2>2. ~reordered' => ~reordered /\ newest <= w /\ newest' = w
    <3>1. ~reordered' => ~reordered /\ ~(w < newest)
      BY <1>2
    <3>2. ~(w < newest) => newest <= w /\ newest' = w
      BY <1>2, <1>5
    <3> QED BY <3>1, <3>2
  <2>3. CASE UNCHANGED <<alertWindow, alertCount, alerts>>
    <3>1. ~reordered' => alertWindow <= w /\ \A v \in Windows : w <= v => newest <= v
      <4> SUFFICES ASSUME ~reordered' PROVE alertWindow <= w /\ \A v \in Windows : w <= v => newest <= v
        OBVIOUS
      <4>1. ~reordered /\ newest <= w
        BY <2>2
      <4>2. alertWindow <= newest /\ alertWindow \in Int
        BY <1>4, <1>5, <2>1, <4>1
      <4> QED BY <1>5, <4>1, <4>2
    <3> QED BY <2>1, <2>2, <2>3, <3>1 DEF AlertsCounted
  <2>4. CASE /\ alertWindow = w /\ alertCount < MaxAlerts
             /\ alertWindow' = w /\ alertCount' = alertCount + 1 /\ alerts' = [alerts EXCEPT ![w] = @ + 1]
    <3>1. alerts'[w] = alerts[w] + 1 /\ \A v \in Windows : v # w => alerts'[v] = alerts[v]
      BY <1>4, <2>4
    <3>2. alertCount <= alerts[w] /\ alerts[w] \in Nat
      BY <1>4, <1>5, <2>1, <2>4
    <3>3. alertCount' <= alerts'[w]
      BY <1>4, <2>4, <3>1, <3>2
    <3>4. ~reordered' => alerts'[w] = alertCount' /\ \A v \in Windows : w <= v /\ v # w => alerts'[v] = 0
      <4> SUFFICES ASSUME ~reordered' PROVE alerts'[w] = alertCount' /\ \A v \in Windows : w <= v /\ v # w => alerts'[v] = 0
        OBVIOUS
      <4>1. ~reordered /\ newest <= w
        BY <2>2
      <4>2. alerts[w] = alertCount /\ \A v \in Windows : newest <= v /\ v # w => alerts[v] = 0
        BY <1>5, <2>1, <2>4, <4>1
      <4>3. \A v \in Windows : w <= v => newest <= v
        <5>1. newest <= w
          BY <4>1
        <5>2. \A v \in Windows : v \in Nat
          BY <1>5
        <5> QED BY <1>5, <5>1, <5>2
      <4> QED BY <2>4, <3>1, <4>2, <4>3
    <3> QED BY <1>5, <2>2, <2>4, <3>3, <3>4 DEF AlertsCounted
  <2>5. CASE /\ alertWindow # w
             /\ alertWindow' = w /\ alertCount' = 1 /\ alerts' = [alerts EXCEPT ![w] = @ + 1]
    <3>1. alerts'[w] = alerts[w] + 1 /\ alerts[w] \in Nat /\ \A v \in Windows : v # w => alerts'[v] = alerts[v]
      BY <1>4, <2>5
    <3>2. ~reordered' => alerts'[w] = 1 /\ \A v \in Windows : w <= v /\ v # w => alerts'[v] = 0
      <4> SUFFICES ASSUME ~reordered' PROVE alerts'[w] = 1 /\ \A v \in Windows : w <= v /\ v # w => alerts'[v] = 0
        OBVIOUS
      <4>1. ~reordered /\ newest <= w
        BY <2>2
      <4>2. alerts[w] = 0
        BY <2>1, <2>5, <4>1
      <4>3. ASSUME NEW v \in Windows, w <= v, v # w PROVE alerts[v] = 0
        <5>1. newest <= v /\ newest < v
          BY <1>5, <4>1, <4>3
        <5>2. alertWindow <= newest /\ alertWindow \in Int /\ newest \in Int /\ v \in Int
          BY <1>4, <1>5, <2>1, <4>1
        <5>3. v # alertWindow
          BY <5>1, <5>2
        <5> QED BY <2>1, <4>1, <5>1, <5>3
      <4> QED BY <3>1, <4>2, <4>3
    <3>3. 1 <= alerts'[w]
      BY <3>1
    <3> QED BY <1>5, <2>2, <2>5, <3>2, <3>3 DEF AlertsCounted
  <2> QED BY <1>8, <2>3, <2>4, <2>5
<1>12. SamplesCount'
  <2>1. baseline'.n # 0
    BY <1>4, <1>7
  <2>2. ASSUME NEW v \in KeptWindows(w), baseline'.n = windowCounts'[v] PROVE FirstSums(baseline')
    <3>1. v = w
      BY <1>3, <1>4, <1>7, <2>2
    <3>2. x = count + 1
      BY <1>7, <2>2, <3>1 DEF x
    <3>3. FirstSums(baseline)
      <4>1. CASE w \in DOMAIN windowCounts
        <5>1. windowCounts[w] = baseline.n
          BY <1>3, <1>4, <3>2, <4>1 DEF x
        <5> QED BY <1>1, <4>1, <5>1 DEF SamplesCount
      <4>2. CASE w \notin DOMAIN windowCounts
        <5>1. baseline.n = 0
          BY <1>3, <1>4, <3>2, <4>2 DEF x
        <5> QED BY <1>1, <5>1 DEF SamplesCount
      <4> QED BY <4>1, <4>2
    <3> QED BY <1>4, <1>6, <3>2, <3>3, NextSample
  <2> QED BY <1>3, <2>1, <2>2 DEF SamplesCount
<1>13. StormBound'
  <2> SUFFICES ASSUME ~reordered', NEW v \in Windows PROVE alerts'[v] <= MaxAlerts
    BY DEF StormBound
  <2>1. alertWindow' \in Windows \cup {NoWindow} /\ alertCount' <= MaxAlerts /\ ~reordered
    BY <1>2, <1>10 DEF ScoringTypes
  <2>2. v = alertWindow' => alerts'[v] = alertCount'
    BY <1>5, <1>11 DEF AlertsCounted
  <2>3. v # alertWindow' => alerts'[v] = alerts[v]
    BY <1>4, <1>8
  <2>4. alerts[v] <= MaxAlerts
    BY <1>1, <2>1 DEF StormBound
  <2> QED BY <2>1, <2>2, <2>3, <2>4
<1>14. NoneSuppressedEarly'
  <2> SUFFICES ASSUME route' = "suppressed" PROVE alerts'[alertWindow'] >= MaxAlerts
    BY DEF NoneSuppressedEarly
  <2>1. alertCount = MaxAlerts /\ alertWindow = w /\ alerts' = alerts /\ alertWindow' = alertWindow
    BY <1>9
  <2>2. alertCount <= alerts[w] /\ alerts[w] \in Nat
    BY <1>1, <1>4, <1>5, <2>1 DEF AlertsCounted
  <2> QED BY <1>4, <2>1, <2>2
<1>15. TwoWindowsKept'
  <2> SUFFICES ASSUME ~reordered', NEW v \in KeptWindows(w) PROVE v \in {newest' - 1, newest'}
    BY <1>3 DEF TwoWindowsKept
  <2>1. ~reordered /\ newest <= w /\ newest' = w
    <3>1. ~reordered /\ ~(w < newest)
      BY <1>2
    <3>2. ~(w < newest) => newest <= w /\ newest' = w
      BY <1>2, <1>5
    <3> QED BY <3>1, <3>2
  <2>2. v \in Nat /\ v >= w - 1
    BY <1>3, <1>5 DEF KeptWindows
  <2>3. v <= w
    <3>1. v = w \/ v \in DOMAIN windowCounts
      BY <1>3
    <3>2. v \in DOMAIN windowCounts => v \in {newest - 1, newest}
      BY <1>1, <2>1 DEF TwoWindowsKept
    <3> QED BY <1>5, <2>1, <3>1, <3>2
  <2> QED BY <1>5, <2>1, <2>2, <2>3
<1> QED BY <1>10, <1>11, <1>12, <1>13, <1>14, <1>15 DEF ScoringInv

LEMMA IdleKeeps == ScoringInv /\ Idle => ScoringInv'
<1> SUFFICES ASSUME ScoringInv, Idle PROVE ScoringInv'
  OBVIOUS
<1>1. ScoringTypes /\ AlertsCounted /\ StormBound
  BY DEF ScoringInv
<1>2. /\ newest < MaxWindow /\ newest' = newest + 1
      /\ count' = 0 /\ DOMAIN windowCounts' = {} /\ baseline' = [n |-> 0, sum |-> 0, squares |-> 0]
      /\ alertWindow' = NoWindow /\ alertCount' = 0 /\ route' = "none" /\ UNCHANGED <<alerts, events, reordered>>
  BY DEF Idle, NoCounts, NoSamples
<1>3. /\ events \in 0..MaxEvents /\ MaxEvents \in Nat /\ newest \in Windows /\ Windows = 0..MaxWindow /\ MaxWindow \in Nat
      /\ MaxAlerts \in Nat /\ alertWindow \in Windows \cup {NoWindow} /\ NoWindow = -1
  BY <1>1, ScoringAssumption DEF ScoringTypes, Windows, NoWindow
<1>4. ScoringTypes'
  <2>1. newest' \in Windows /\ 0 <= events
    BY <1>2, <1>3
  <2>2. baseline' \in [n : Nat, sum : Int, squares : Int] /\ baseline'.n = 0
    BY <1>2
  <2> QED BY <1>1, <1>2, <1>3, <2>1, <2>2 DEF ScoringTypes, Routes
<1>5. AlertsCounted'
  <2>1. ASSUME ~reordered, NEW v \in Windows, newest + 1 <= v PROVE alerts[v] = 0
    <3>1. alertWindow <= newest
      BY <1>1, <2>1 DEF AlertsCounted
    <3>2. v # alertWindow /\ newest <= v
      BY <1>3, <2>1, <3>1
    <3> QED BY <1>1, <2>1, <3>2 DEF AlertsCounted
  <2>2. NoWindow <= newest + 1
    BY <1>3
  <2> QED BY <1>2, <2>1, <2>2 DEF AlertsCounted
<1>6. SamplesCount'
  BY <1>2 DEF SamplesCount, FirstSums
<1>7. StormBound' /\ NoneSuppressedEarly' /\ TwoWindowsKept'
  BY <1>1, <1>2 DEF StormBound, NoneSuppressedEarly, TwoWindowsKept
<1> QED BY <1>4, <1>5, <1>6, <1>7 DEF ScoringInv

LEMMA ScoringInvInit == ScoringInit => ScoringInv
<1> SUFFICES ASSUME ScoringInit PROVE ScoringInv
  OBVIOUS
<1>1. /\ count = 0 /\ DOMAIN windowCounts = {} /\ baseline = [n |-> 0, sum |-> 0, squares |-> 0]
      /\ alertWindow = NoWindow /\ alertCount = 0 /\ alerts = [w \in Windows |-> 0] /\ route = "none"
      /\ events = 0 /\ newest = 0 /\ reordered = FALSE
  BY DEF ScoringInit, NoCounts, NoSamples
<1>2. 0 \in Windows /\ MaxEvents \in Nat /\ MaxAlerts \in Nat /\ NoWindow = -1
  BY ScoringAssumption DEF Windows, NoWindow
<1>3. ScoringTypes
  <2>1. baseline \in [n : Nat, sum : Int, squares : Int] /\ baseline.n = 0
    BY <1>1
  <2>2. alerts \in [Windows -> Nat]
    BY <1>1
  <2>3. /\ count \in Nat /\ events \in 0..MaxEvents /\ count <= events /\ alertCount \in 0..count
        /\ alertCount <= MaxAlerts
    BY <1>1, <1>2
  <2>4. DOMAIN windowCounts \subseteq Windows /\ \A w \in DOMAIN windowCounts : windowCounts[w] \in 1..count
    BY <1>1
  <2>5. alertWindow \in Windows \cup {NoWindow} /\ route \in Routes /\ newest \in Windows /\ reordered \in BOOLEAN
    BY <1>1, <1>2 DEF Routes
  <2>6. baseline.n = count
    BY <1>1
  <2> QED BY <2>1, <2>2, <2>3, <2>4, <2>5, <2>6 DEF ScoringTypes
<1>4. AlertsCounted
  BY <1>1, <1>2 DEF AlertsCounted
<1>5. SamplesCount
  BY <1>1 DEF SamplesCount, FirstSums
<1>6. StormBound /\ NoneSuppressedEarly /\ TwoWindowsKept
  BY <1>1, <1>2 DEF StormBound, NoneSuppressedEarly, TwoWindowsKept
<1> QED BY <1>3, <1>4, <1>5, <1>6 DEF ScoringInv

LEMMA ScoringInvStep == ScoringInv /\ [ScoringNext]_scoringVars => ScoringInv'
<1> SUFFICES ASSUME ScoringInv, [ScoringNext]_scoringVars PROVE ScoringInv'
  OBVIOUS
<1>1. ASSUME NEW w \in Windows, NEW severity \in Severities, Event(w, severity) PROVE ScoringInv'
  BY <1>1, EventKeeps
<1>2. CASE Idle
  BY <1>2, IdleKeeps
<1>3. CASE UNCHANGED scoringVars
  BY <1>3 DEF scoringVars, ScoringInv, ScoringTypes, AlertsCounted, SamplesCount, StormBound,
              NoneSuppressedEarly, TwoWindowsKept
<1> QED BY <1>1, <1>2, <1>3 DEF ScoringNext

LEMMA ScoringInvSound == ScoringInv => ScoringSound
<1> SUFFICES ASSUME ScoringInv PROVE ScoringSound
  OBVIOUS
<1>1. ScoringTypes /\ SamplesCount
  BY DEF ScoringInv
<1>2. ScoringTypeOK
  <2>1. count \in 0..MaxEvents
    BY <1>1, ScoringAssumption DEF ScoringTypes
  <2> QED BY <1>1, <2>1 DEF ScoringTypes, ScoringTypeOK, Routes
<1>3. FloodIsNormal
  <2> SUFFICES ASSUME NEW w \in DOMAIN windowCounts, baseline.n = windowCounts[w]
               PROVE  ~StandsOut(windowCounts[w], baseline)
    BY DEF FloodIsNormal
  <2>1. FirstSums(baseline) /\ baseline \in [n : Nat, sum : Int, squares : Int] /\ windowCounts[w] \in 1..count
    BY <1>1 DEF SamplesCount, ScoringTypes
  <2>2. baseline.n > 0
    BY <1>1, <2>1 DEF ScoringTypes
  <2>3. ~StandsOut(baseline.n, baseline)
    BY <2>1, <2>2, FloodStays
  <2> QED BY <2>3
<1> QED BY <1>2, <1>3 DEF ScoringInv, ScoringSound

\* The limit of alerts is neither passed nor applied too early, two windows of counts are kept
\* while events come in order, and within one window no rate stands out from the moving mean
\* (AnomalyScoringFunction.processElement).
THEOREM ScoresAreSound == ScoringSpec => []ScoringSound
BY ScoringInvInit, ScoringInvStep, ScoringInvSound, PTL DEF ScoringSpec

-----------------------------------------------------------------------------
(* Chains of events *)

\* A finite set of numbers has a bound: otherwise there would be a least number of its
\* members that have none.
LEMMA FiniteIsBounded ==
    ASSUME NEW S \in SUBSET Nat, IsFiniteSet(S)
    PROVE  \E n \in Nat : \A x \in S : x <= n
<1> DEFINE c == Cardinality(S)
<1>1. c \in Nat /\ \E f \in [1..c -> S] : \A x \in S : \E i \in 1..c : f[i] = x
  <2>1. c \in Nat /\ ExistsBijection(1..c, S)
    BY FS_CardinalityType
  <2> QED BY <2>1 DEF ExistsBijection, Bijection, Surjection
<1>2. PICK f \in [1..c -> S] : \A x \in S : \E i \in 1..c : f[i] = x
  BY <1>1
<1> HIDE DEF c
<1> DEFINE Bounded(k) == \E n \in Nat : \A i \in 1..c : i <= k => f[i] <= n
<1>3. \A i \in 1..c : f[i] \in Nat /\ i \in Nat
  <2>1. c \in Nat
    BY <1>1
  <2>2. \A i \in 1..c : f[i] \in S
    BY <1>2
  <2>3. \A i \in 1..c : i \in Nat
    BY <2>1
  <2>4. S \subseteq Nat
    OBVIOUS
  <2> QED BY <2>2, <2>3, <2>4
<1>4. Bounded(0)
  <2>1. \A i \in 1..c : ~(i <= 0)
    BY <1>1
  <2> QED BY <2>1
<1>5. ASSUME NEW k \in Nat, Bounded(k) PROVE Bounded(k + 1)
  <2>1. PICK n \in Nat : \A i \in 1..c : i <= k => f[i] <= n
    BY <1>5
  <2>2. CASE k + 1 \in 1..c
    <3>1. f[k + 1] \in Nat
      BY <1>2, <2>2
    <3>2. PICK m \in Nat : n <= m /\ f[k + 1] <= m
      BY <3>1
    <3>3. \A i \in 1..c : i <= k + 1 => f[i] <= m
      <4> SUFFICES ASSUME NEW i \in 1..c, i <= k + 1 PROVE f[i] <= m
        OBVIOUS
      <4>1. f[i] \in Nat /\ i \in Nat
        BY <1>3
      <4>2. CASE i <= k
        BY <2>1, <3>2, <4>1, <4>2
      <4>3. CASE i = k + 1
        BY <3>2, <4>3
      <4> QED BY <4>1, <4>2, <4>3
    <3> QED BY <3>3
  <2>3. CASE k + 1 \notin 1..c
    <3>1. \A i \in 1..c : i <= k + 1 => i <= k
      BY <1>1, <2>3
    <3> QED BY <2>1, <3>1
  <2> QED BY <2>2, <2>3
<1> HIDE DEF Bounded
<1> DEFINE T == {k \in Nat : ~Bounded(k)}
           R == OpToRel(<, Nat)
<1>6. T = {}
  <2> SUFFICES ASSUME T # {} PROVE FALSE
    OBVIOUS
  <2>1. T \subseteq Nat /\ IsWellFoundedOn(R, Nat)
    BY NatLessThanWellFounded
  <2>2. PICK m \in T : \A y \in T : ~(<<y, m>> \in R)
    <3>1. PICK z : z \in T
      OBVIOUS
    <3> HIDE DEF T, R
    <3> QED BY <2>1, <3>1, WFMin
  <2>a. m \in Nat /\ ~Bounded(m)
    BY <2>2
  <2>3. m # 0
    BY <1>4, <2>a
  <2>b. m - 1 \in Nat /\ m - 1 < m
    BY <2>a, <2>3
  <2>4. m - 1 \notin T
    <3>1. <<m - 1, m>> \in R
      BY <2>a, <2>b DEF OpToRel
    <3> QED BY <2>2, <3>1
  <2>5. Bounded((m - 1) + 1) /\ (m - 1) + 1 = m
    BY <1>5, <2>a, <2>b, <2>4
  <2> QED BY <2>a, <2>5
<1>7. Bounded(c)
  BY <1>1, <1>6
<1>8. PICK n \in Nat : \A i \in 1..c : i <= c => f[i] <= n
  BY <1>7 DEF Bounded
<1>9. \A i \in 1..c : f[i] <= n
  BY <1>1, <1>8
<1> QED BY <1>2, <1>9

LEMMA ChainFacts ==
    /\ Longest \in Nat \ {0}
    /\ \A p \in Patterns : Len(Chains[p]) \in Nat /\ Len(Chains[p]) > 1
                           /\ \A i, j \in 1..Len(Chains[p]) : Chains[p][i] = Chains[p][j] => i = j
<1>1. \A p \in Patterns : /\ Len(Chains[p]) \in Nat /\ Len(Chains[p]) > 1 /\ DOMAIN Chains[p] = 1..Len(Chains[p])
                          /\ IsInjective(Chains[p])
  BY SeqShape, ChainAssumption
<1>2. \A p \in Patterns : \A i, j \in 1..Len(Chains[p]) : Chains[p][i] = Chains[p][j] => i = j
  BY <1>1 DEF IsInjective
<1> DEFINE L == {Len(Chains[p]) : p \in Patterns}
<1>3. L \in SUBSET Nat /\ L # {} /\ 0 \notin L /\ IsFiniteSet(L)
  <2>1. [p \in Patterns |-> Len(Chains[p])] \in Surjection(Patterns, L)
    BY DEF Surjection
  <2> QED BY <1>1, <2>1, FS_Surjection, ChainAssumption
<1>4. PICK n \in Nat : \A x \in L : x <= n
  BY <1>3, FiniteIsBounded
<1>5. L \in SUBSET (1..n)
  BY <1>3, <1>4
<1> HIDE DEF L
<1>6. Max(L) \in L
  BY <1>3, <1>5, LastOf
<1> QED BY <1>1, <1>2, <1>3, <1>6 DEF Longest, L

Happenings == [type : EventTypes, age : Int]

ChainTypes ==
    /\ recent \in Seq(Happenings) /\ Len(recent) <= Longest
    /\ progress \in [Patterns -> Nat] /\ \A p \in Patterns : progress[p] < Len(Chains[p])
    /\ written \in [Patterns -> 0..Ttl - 1]
    /\ alerted \cup completed \cup forgotten \subseteq Patterns

\* The last of the events s are the first j steps of the pattern.
EndsWith(s, p, j) == j <= Len(s) /\ \A i \in 1..j : s[Len(s) - j + i].type = Chains[p][i]

\* What the last events have made of a pattern is shown.
ProgressShown ==
    \A p \in Patterns : \A j \in 0..Len(Chains[p]) - 1 :
        EndsWith(recent, p, j) => progress[p] >= j \/ p \in forgotten

ChainsInv == ChainTypes /\ ProgressShown /\ AlertsAreTracked

\* The last events of what remains when the oldest ones go.
LEMMA NewestFacts ==
    ASSUME NEW s \in Seq(Happenings)
    PROVE  /\ Newest(s) \in Seq(Happenings) /\ Len(Newest(s)) <= Longest /\ Len(Newest(s)) <= Len(s)
           /\ \A i \in 1..Len(Newest(s)) : Newest(s)[i] = s[Len(s) - Len(Newest(s)) + i]
<1> DEFINE n == Len(s)
           m == Max({1, n - Longest + 1})
           q == Newest(s)
<1>1. n \in Nat /\ Longest \in Nat \ {0} /\ \A i \in 1..n : s[i] \in Happenings
  BY SeqShape, ChainFacts
<1>2. m = IF 1 >= n - Longest + 1 THEN 1 ELSE n - Longest + 1
  <2>1. n - Longest + 1 \in Int /\ 1 \in Int
    BY <1>1
  <2> QED BY <2>1, MaxOfTwo
<1>3. q = SubSeq(s, m, n)
  BY DEF Newest
<1> HIDE DEF m, n, q
<1>4. m \in Nat /\ 1 <= m /\ n - m + 1 <= Longest /\ m <= n + 1
  BY <1>1, <1>2
<1>5. /\ q \in Seq(Happenings) /\ Len(q) = (IF m <= n THEN n - m + 1 ELSE 0)
      /\ \A i \in 1..n - m + 1 : q[i] = s[m + i - 1]
  <2>1. m \in Int /\ n \in Int /\ \A i \in m..n : s[i] \in Happenings
    BY <1>1, <1>4
  <2> QED BY <1>3, <2>1, SubSeqProperties
<1>6. Len(q) = n - m + 1 /\ Len(q) <= n /\ Len(q) <= Longest
  BY <1>1, <1>4, <1>5
<1>7. \A i \in 1..Len(q) : q[i] = s[n - Len(q) + i]
  <2> SUFFICES ASSUME NEW i \in 1..Len(q) PROVE q[i] = s[n - Len(q) + i]
    OBVIOUS
  <2>1. m + i - 1 = n - Len(q) + i
    BY <1>1, <1>4, <1>6
  <2> QED BY <1>5, <1>6, <2>1
<1> QED BY <1>5, <1>6, <1>7 DEF q, n

\* An event that makes the last ones the first j steps: the events before it were the first
\* j - 1 of them, and it is the next.
LEMMA EndBefore ==
    ASSUME NEW s \in Seq(Happenings), NEW e \in Happenings, NEW p, NEW j \in Nat \ {0},
           EndsWith(Newest(Append(s, e)), p, j)
    PROVE  EndsWith(s, p, j - 1) /\ e.type = Chains[p][j]
<1> DEFINE a == Append(s, e)
           q == Newest(a)
           n == Len(s)
<1>1. /\ a \in Seq(Happenings) /\ Len(a) = n + 1 /\ n \in Nat /\ a[n + 1] = e /\ \A i \in 1..n : a[i] = s[i]
  BY AppendProperties, SeqShape
<1>2. /\ Len(q) \in Nat /\ Len(q) <= n + 1 /\ \A i \in 1..Len(q) : q[i] = a[n + 1 - Len(q) + i]
  <2>1. /\ q \in Seq(Happenings) /\ Len(q) <= Len(a)
        /\ \A i \in 1..Len(q) : q[i] = a[Len(a) - Len(q) + i]
    BY <1>1, NewestFacts
  <2> HIDE DEF a, q, n
  <2>2. Len(q) \in Nat
    BY <2>1, SeqShape
  <2> QED BY <1>1, <2>1, <2>2
<1>3. j <= Len(q) /\ \A i \in 1..j : q[Len(q) - j + i].type = Chains[p][i]
  BY DEF EndsWith
<1> HIDE DEF a, q, n
<1>4. \A i \in 1..j : q[Len(q) - j + i] = a[n + 1 - j + i]
  <2> SUFFICES ASSUME NEW i \in 1..j PROVE q[Len(q) - j + i] = a[n + 1 - j + i]
    OBVIOUS
  <2>1. Len(q) - j + i \in 1..Len(q) /\ n + 1 - Len(q) + (Len(q) - j + i) = n + 1 - j + i
    BY <1>1, <1>2, <1>3
  <2> QED BY <1>2, <2>1
<1>5. e.type = Chains[p][j]
  <2>1. j \in 1..j /\ n + 1 - j + j = n + 1
    BY <1>1
  <2> QED BY <1>1, <1>3, <1>4, <2>1
<1>6. \A i \in 1..j - 1 : s[n - (j - 1) + i].type = Chains[p][i]
  <2> SUFFICES ASSUME NEW i \in 1..j - 1 PROVE s[n - (j - 1) + i].type = Chains[p][i]
    OBVIOUS
  <2>1. i \in 1..j /\ n + 1 - j + i \in 1..n /\ n - (j - 1) + i = n + 1 - j + i
    BY <1>1, <1>2, <1>3
  <2> QED BY <1>1, <1>3, <1>4, <2>1
<1>7. j - 1 <= n
  BY <1>1, <1>2, <1>3
<1> QED BY <1>5, <1>6, <1>7 DEF EndsWith, n

LEMMA OccursKeeps ==
    ASSUME ChainsInv, NEW type \in EventTypes, Occurs(type)
    PROVE  ChainsInv'
<1> DEFINE step(p) == Stepped(p, type)
           e == [type |-> type, age |-> 0]
           moved == {p \in Patterns : step(p) # progress[p]}
<1>1. /\ recent \in Seq(Happenings) /\ Len(recent) <= Longest
      /\ progress \in [Patterns -> Nat] /\ \A p \in Patterns : progress[p] < Len(Chains[p])
      /\ written \in [Patterns -> 0..Ttl - 1] /\ forgotten \subseteq Patterns
  BY DEF ChainsInv, ChainTypes
<1>2. /\ recent' = Newest(Append(recent, e)) /\ alerted' = {p \in Patterns : Matches(p, recent')}
      /\ completed' = {p \in Patterns : step(p) = Len(Chains[p])}
      /\ progress' = [p \in Patterns |-> Entry(step(p), p)]
      /\ written' = [p \in Patterns |-> IF p \in moved THEN 0 ELSE written[p]]
      /\ forgotten' = forgotten \ moved
  BY DEF Occurs
<1>3. e \in Happenings /\ e.type = type
  BY DEF Happenings
<1> HIDE DEF e
<1>4. \A p \in Patterns : /\ step(p) = IF type = Chains[p][progress[p] + 1] THEN progress[p] + 1 ELSE progress[p]
                          /\ progress[p] \in Nat /\ Len(Chains[p]) \in Nat /\ Len(Chains[p]) > 1
                          /\ progress[p] < Len(Chains[p])
  BY <1>1, ChainFacts DEF Stepped
<1>5. ASSUME NEW p \in Patterns PROVE step(p) \in Nat /\ step(p) <= Len(Chains[p]) /\ progress[p] <= step(p)
  <2> HIDE DEF step
  <2> QED BY <1>4
<1>6. recent' \in Seq(Happenings) /\ Len(recent') <= Longest
  <2>1. Append(recent, e) \in Seq(Happenings)
    BY <1>1, <1>3, AppendProperties
  <2> QED BY <1>2, <2>1, NewestFacts
<1>7. \A p \in Patterns : progress'[p] = IF step(p) = Len(Chains[p]) THEN 0 ELSE step(p)
  BY <1>2 DEF Entry
<1>8. ChainTypes'
  <2>1. progress' \in [Patterns -> Nat] /\ \A p \in Patterns : progress'[p] < Len(Chains[p])
    <3> HIDE DEF step
    <3>1. \A p \in Patterns : Entry(step(p), p) \in Nat
      BY <1>4, <1>5 DEF Entry
    <3>2. \A p \in Patterns : progress'[p] < Len(Chains[p])
      BY <1>4, <1>5, <1>7
    <3> QED BY <1>2, <3>1, <3>2
  <2>2. written' \in [Patterns -> 0..Ttl - 1]
    BY <1>1, <1>2, ChainAssumption
  <2> QED BY <1>1, <1>2, <1>6, <2>1, <2>2 DEF ChainTypes
<1>9. ASSUME NEW p \in Patterns, NEW j \in 1..Len(Chains[p]), EndsWith(recent', p, j)
      PROVE  step(p) = j \/ (step(p) > j /\ step(p) < Len(Chains[p])) \/ p \in forgotten'
  <2> DEFINE m == progress[p]
             k == Len(Chains[p])
  <2>1. /\ j \in Nat \ {0} /\ m \in Nat /\ k \in Nat /\ m < k /\ j <= k /\ m + 1 \in 1..k
        /\ step(p) = IF type = Chains[p][m + 1] THEN m + 1 ELSE m
    BY <1>4
  <2>2. EndsWith(recent, p, j - 1) /\ type = Chains[p][j]
    BY <1>1, <1>2, <1>3, <1>9, <2>1, EndBefore
  <2>3. type = Chains[p][m + 1] => m + 1 = j
    BY <2>1, <2>2, ChainFacts
  <2>4. m >= j - 1 \/ p \in forgotten
    <3>1. j - 1 \in 0..k - 1
      BY <2>1
    <3> QED BY <2>2, <3>1 DEF ChainsInv, ProgressShown
  <2>5. CASE m + 1 = j
    BY <2>1, <2>2, <2>5
  <2>6. CASE m + 1 # j
    <3>1. step(p) = m
      BY <2>1, <2>3, <2>6
    <3>2. p \notin moved
      BY <3>1
    <3>3. p \in forgotten => p \in forgotten'
      BY <1>2, <3>2
    <3>4. m >= j - 1 => m >= j
      BY <2>1, <2>6
    <3>5. CASE m >= j - 1
      <4>1. m >= j
        BY <3>4, <3>5
      <4>2. m = j \/ m > j
        BY <2>1, <4>1
      <4> QED BY <2>1, <3>1, <4>2
    <3> QED BY <2>4, <3>3, <3>5
  <2> QED BY <2>5, <2>6
<1>10. ProgressShown'
  <2> SUFFICES ASSUME NEW p \in Patterns, NEW j \in 0..Len(Chains[p]) - 1, EndsWith(recent', p, j)
               PROVE  progress'[p] >= j \/ p \in forgotten'
    BY DEF ProgressShown
  <2>1. Len(Chains[p]) \in Nat /\ j \in Nat /\ j < Len(Chains[p]) /\ progress'[p] \in Nat
    BY <1>4, <1>8 DEF ChainTypes
  <2>2. CASE j = 0
    BY <2>1, <2>2
  <2>3. CASE j # 0
    <3>1. step(p) = j \/ (step(p) > j /\ step(p) < Len(Chains[p])) \/ p \in forgotten'
      <4>1. j \in 1..Len(Chains[p])
        BY <2>1, <2>3
      <4> QED BY <1>9, <4>1
    <3> HIDE DEF step
    <3> QED BY <1>5, <1>7, <2>1, <3>1
  <2> QED BY <2>2, <2>3
<1>11. AlertsAreTracked'
  <2> SUFFICES ASSUME NEW p \in Patterns, Matches(p, recent') PROVE p \in completed' \cup forgotten'
    BY <1>2 DEF AlertsAreTracked
  <2> DEFINE k == Len(Chains[p])
  <2>1. k \in 1..k /\ k \in Nat /\ Len(recent') \in Nat
    BY <1>4, <1>6, SeqShape
  <2>2. EndsWith(recent', p, k)
    <3>1. /\ Len(recent') - k >= 0
          /\ \A i \in 1..k : recent'[Len(recent') - k + i].type = Chains[p][i]
      BY DEF Matches
    <3> HIDE DEF k
    <3> QED BY <2>1, <3>1 DEF EndsWith
  <2>3. step(p) = k \/ (step(p) > k /\ step(p) < k) \/ p \in forgotten'
    BY <1>9, <2>1, <2>2
  <2>4. ~(step(p) > k /\ step(p) < k)
    <3> HIDE DEF step
    <3> QED BY <1>5, <2>1
  <2> QED BY <1>2, <2>3, <2>4
<1> QED BY <1>8, <1>10, <1>11 DEF ChainsInv

LEMMA PausesKeeps ==
    ASSUME ChainsInv, NEW d \in 1..MaxPause, Pauses(d)
    PROVE  ChainsInv'
<1> DEFINE old(p) == progress[p] > 0 /\ written[p] + d >= Ttl
<1>1. /\ recent \in Seq(Happenings) /\ Len(recent) <= Longest
      /\ progress \in [Patterns -> Nat] /\ \A p \in Patterns : progress[p] < Len(Chains[p])
      /\ written \in [Patterns -> 0..Ttl - 1] /\ forgotten \subseteq Patterns
  BY DEF ChainsInv, ChainTypes
<1>2. /\ recent' = [i \in DOMAIN recent |-> [recent[i] EXCEPT !.age = Min({Ttl, @ + d})]]
      /\ written' = [p \in Patterns |-> IF progress[p] > 0 /\ ~old(p) THEN written[p] + d ELSE 0]
      /\ progress' = [p \in Patterns |-> IF old(p) THEN 0 ELSE progress[p]]
      /\ forgotten' = forgotten \cup {p \in Patterns : old(p)} /\ alerted' = {} /\ completed' = {}
  BY DEF Pauses
<1>3. d \in Nat \ {0} /\ Ttl \in Nat \ {0}
  BY ChainAssumption
<1>4. Len(recent) \in Nat /\ DOMAIN recent = 1..Len(recent) /\ \A i \in 1..Len(recent) : recent[i] \in Happenings
  BY <1>1, SeqShape
<1>5. \A i \in 1..Len(recent) : recent'[i] \in Happenings /\ recent'[i].type = recent[i].type
  <2> SUFFICES ASSUME NEW i \in 1..Len(recent) PROVE recent'[i] \in Happenings /\ recent'[i].type = recent[i].type
    OBVIOUS
  <2> DEFINE a == Min({Ttl, recent[i].age + d})
  <2>1. recent'[i] = [recent[i] EXCEPT !.age = a]
    BY <1>2, <1>4
  <2>2. recent[i].age \in Int /\ recent[i] \in Happenings
    BY <1>4 DEF Happenings
  <2>3. a \in Int
    BY <1>3, <2>2, MinOfTwo
  <2> HIDE DEF a
  <2> QED BY <2>1, <2>2, <2>3 DEF Happenings
<1>6. recent' \in Seq(Happenings) /\ Len(recent') = Len(recent)
  <2>1. recent' \in [1..Len(recent) -> Happenings]
    BY <1>2, <1>4, <1>5
  <2> QED BY <1>4, <2>1
<1>7. ChainTypes'
  <2>1. progress' \in [Patterns -> Nat] /\ \A p \in Patterns : progress'[p] < Len(Chains[p])
    BY <1>1, <1>2, ChainFacts
  <2>2. written' \in [Patterns -> 0..Ttl - 1]
    <3>1. ASSUME NEW p \in Patterns PROVE (IF progress[p] > 0 /\ ~old(p) THEN written[p] + d ELSE 0) \in 0..Ttl - 1
      <4>1. written[p] \in 0..Ttl - 1 /\ progress[p] \in Nat
        BY <1>1
      <4> QED BY <1>3, <4>1
    <3> HIDE DEF old
    <3> QED BY <1>2, <3>1
  <2>3. forgotten' \subseteq Patterns
    BY <1>1, <1>2
  <2> QED BY <1>1, <1>2, <1>6, <2>1, <2>2, <2>3 DEF ChainTypes
<1>8. ProgressShown'
  <2> SUFFICES ASSUME NEW p \in Patterns, NEW j \in 0..Len(Chains[p]) - 1, EndsWith(recent', p, j)
               PROVE  progress'[p] >= j \/ p \in forgotten'
    BY DEF ProgressShown
  <2>1. Len(Chains[p]) \in Nat /\ j \in Nat
    BY ChainFacts
  <2>2. EndsWith(recent, p, j)
    <3>1. \A i \in 1..j : Len(recent) - j + i \in 1..Len(recent)
      BY <1>4, <1>6, <2>1 DEF EndsWith
    <3> QED BY <1>5, <1>6, <3>1 DEF EndsWith
  <2>3. progress[p] >= j \/ p \in forgotten
    BY <2>2 DEF ChainsInv, ProgressShown
  <2> HIDE DEF old
  <2> QED BY <1>2, <2>3
<1>9. AlertsAreTracked'
  BY <1>2 DEF AlertsAreTracked
<1> QED BY <1>7, <1>8, <1>9 DEF ChainsInv

LEMMA ChainsInvInit == ChainsInit => ChainsInv
<1> SUFFICES ASSUME ChainsInit PROVE ChainsInv
  OBVIOUS
<1>1. /\ recent = <<>> /\ progress = [p \in Patterns |-> 0] /\ written = [p \in Patterns |-> 0]
      /\ alerted = {} /\ completed = {} /\ forgotten = {}
  BY DEF ChainsInit
<1>2. recent \in Seq(Happenings) /\ Len(recent) = 0 /\ Longest \in Nat
  BY <1>1, EmptySeq, ChainFacts
<1>3. ChainTypes
  BY <1>1, <1>2, ChainFacts, ChainAssumption DEF ChainTypes
<1>4. ProgressShown
  BY <1>1, <1>2, ChainFacts DEF ProgressShown, EndsWith
<1> QED BY <1>1, <1>3, <1>4 DEF ChainsInv, AlertsAreTracked

LEMMA ChainsInvStep == ChainsInv /\ [ChainsNext]_chainVars => ChainsInv'
<1> SUFFICES ASSUME ChainsInv, [ChainsNext]_chainVars PROVE ChainsInv'
  OBVIOUS
<1>1. ASSUME NEW type \in EventTypes, Occurs(type) PROVE ChainsInv'
  BY <1>1, OccursKeeps
<1>2. ASSUME NEW d \in 1..MaxPause, Pauses(d) PROVE ChainsInv'
  BY <1>2, PausesKeeps
<1>3. CASE UNCHANGED chainVars
  BY <1>3 DEF chainVars, ChainsInv, ChainTypes, ProgressShown, AlertsAreTracked
<1> QED BY <1>1, <1>2, <1>3 DEF ChainsNext

LEMMA ChainsInvSound == ChainsInv => ChainsSound
<1> SUFFICES ASSUME ChainsInv PROVE ChainsSound
  OBVIOUS
<1>1. ChainTypes /\ AlertsAreTracked
  BY DEF ChainsInv
<1>2. \A i \in DOMAIN recent : recent[i].type \in EventTypes
  <2>1. recent \in Seq(Happenings)
    BY <1>1 DEF ChainTypes
  <2>2. \A i \in DOMAIN recent : recent[i] \in Happenings
    BY <2>1, SeqShape
  <2> QED BY <2>2 DEF Happenings
<1>3. \A p \in Patterns : progress[p] \in 0..Len(Chains[p]) - 1 /\ written[p] \in 0..Ttl - 1
  BY <1>1, ChainFacts DEF ChainTypes
<1> QED BY <1>1, <1>2, <1>3 DEF ChainsSound, ChainsTypeOK, ChainTypes

\* A chain that raises an alert is shown as complete by the same event, unless the middle of
\* older progress expired (CepPartialMatchFunction, and the patterns of AnomalyDetectionJob).
THEOREM ChainsAreSound == ChainsSpec => []ChainsSound
BY ChainsInvInit, ChainsInvStep, ChainsInvSound, PTL DEF ChainsSpec

-----------------------------------------------------------------------------
(* Jobs 3 and 6: windows of flows; first, sums as sizes of sets *)

\* The set whose size is SumOf(f): f[k] pairs in column k.
Pairs(f) == UNION {{k} \X (1..f[k]) : k \in DOMAIN f}

LEMMA PairsOf ==
    ASSUME NEW f
    PROVE  \A z : z \in Pairs(f) <=> \E k \in DOMAIN f : \E i \in 1..f[k] : z = <<k, i>>
BY DEF Pairs

LEMMA PairsAre ==
    ASSUME NEW D, NEW f \in [D -> Nat]
    PROVE  \A z : z \in Pairs(f) <=> \E k \in D : \E i \in 1..f[k] : z = <<k, i>>
BY DEF Pairs

LEMMA PairsFinite ==
    ASSUME NEW D, IsFiniteSet(D), NEW n \in Nat, NEW f \in [D -> 0..n]
    PROVE  IsFiniteSet(Pairs(f)) /\ SumOf(f) = Cardinality(Pairs(f)) /\ SumOf(f) \in Nat
<1>1. IsFiniteSet(D \X (1..n))
  <2>1. IsFiniteSet(1..n)
    BY FS_Interval
  <2> QED BY <2>1, FS_Product
<1>2. Pairs(f) \subseteq D \X (1..n)
  BY DEF Pairs
<1>3. IsFiniteSet(Pairs(f))
  BY <1>1, <1>2, FS_Subset
<1> QED BY <1>3, FS_CardinalityType DEF Pairs, SumOf

\* A new column.
LEMMA ColumnSize ==
    ASSUME NEW k, NEW n \in Nat
    PROVE  IsFiniteSet({k} \X (1..n)) /\ Cardinality({k} \X (1..n)) = n
<1> DEFINE C == {k} \X (1..n)
           g == [i \in 1..n |-> <<k, i>>]
<1>1. g \in Bijection(1..n, C)
  <2>1. g \in [1..n -> C] /\ \A i, j \in 1..n : g[i] = g[j] => i = j
    OBVIOUS
  <2>2. \A c \in C : \E i \in 1..n : g[i] = c
    OBVIOUS
  <2> QED BY <2>1, <2>2 DEF Bijection, Injection, IsInjective, Surjection
<1>2. IsFiniteSet(1..n) /\ Cardinality(1..n) = n
  <2>1. IsFiniteSet(1..n) /\ Cardinality(1..n) = IF 1 > n THEN 0 ELSE n - 1 + 1
    BY FS_Interval
  <2> QED BY <2>1
<1> HIDE DEF C
<1>3. ExistsBijection(1..n, C)
  BY <1>1 DEF ExistsBijection
<1> QED BY <1>2, <1>3, FS_Bijection DEF C

\* The sizes of disjoint sets add up.
LEMMA DisjointSize ==
    ASSUME NEW A, NEW B, IsFiniteSet(A), IsFiniteSet(B), A \cap B = {}
    PROVE  IsFiniteSet(A \cup B) /\ Cardinality(A \cup B) = Cardinality(A) + Cardinality(B)
<1>1. /\ IsFiniteSet(A \cup B)
      /\ Cardinality(A \cup B) = Cardinality(A) + Cardinality(B) - Cardinality(A \cap B)
  BY FS_Union
<1>2. Cardinality(A) \in Nat /\ Cardinality(B) \in Nat /\ Cardinality({}) = 0
  BY FS_CardinalityType, FS_EmptySet
<1>3. Cardinality(A \cap B) = 0
  BY <1>2
<1>4. Cardinality(A) + Cardinality(B) - 0 = Cardinality(A) + Cardinality(B)
  BY <1>2
<1> QED BY <1>1, <1>3, <1>4

\* No column holds anything.
LEMMA SumOfZeros ==
    ASSUME NEW D, NEW f \in [D -> {0}]
    PROVE  SumOf(f) = 0
<1>1. UNION {{k} \X (1..f[k]) : k \in DOMAIN f} = {}
  OBVIOUS
<1> QED BY <1>1, FS_EmptySet DEF SumOf

\* One pair more in one column.
LEMMA SumOfOneMore ==
    ASSUME NEW D, IsFiniteSet(D), NEW n \in Nat, NEW f \in [D -> 0..n], NEW w \in D
    PROVE  SumOf([f EXCEPT ![w] = f[w] + 1]) = SumOf(f) + 1
<1> DEFINE g == [f EXCEPT ![w] = f[w] + 1]
           z == <<w, f[w] + 1>>
<1>1. f \in [D -> Nat] /\ g \in [D -> 0..n + 1] /\ g \in [D -> Nat] /\ f[w] \in Nat
      /\ g[w] = f[w] + 1 /\ \A k \in D : k # w => g[k] = f[k]
  OBVIOUS
<1> HIDE DEF g
<1>2. Pairs(g) = Pairs(f) \cup {z} /\ z \notin Pairs(f)
  <2>1. \A i : i \in 1..f[w] + 1 <=> i \in 1..f[w] \/ i = f[w] + 1
    BY <1>1
  <2>2. f[w] + 1 \notin 1..f[w]
    BY <1>1
  <2>3. \A x : x \in Pairs(g) <=> x \in Pairs(f) \/ x = z
    <3>1. \A x : x \in Pairs(g) => x \in Pairs(f) \/ x = z
      <4> SUFFICES ASSUME NEW k \in D, NEW i \in 1..g[k] PROVE <<k, i>> \in Pairs(f) \/ <<k, i>> = z
        BY <1>1, PairsAre
      <4> QED BY <1>1, <2>1, PairsAre
    <3>2. z \in Pairs(g)
      BY <1>1, <2>1, PairsAre
    <3>3. \A x : x \in Pairs(f) => x \in Pairs(g)
      <4> SUFFICES ASSUME NEW k \in D, NEW i \in 1..f[k] PROVE <<k, i>> \in Pairs(g)
        BY <1>1, PairsAre
      <4>1. i \in 1..g[k]
        BY <1>1, <2>1
      <4> QED BY <1>1, <4>1, PairsAre
    <3> QED BY <3>1, <3>2, <3>3
  <2>4. z \notin Pairs(f)
    BY <1>1, <2>2, PairsAre
  <2> QED BY <2>3, <2>4
<1>3. IsFiniteSet(Pairs(f)) /\ SumOf(f) = Cardinality(Pairs(f)) /\ SumOf(g) = Cardinality(Pairs(g))
  BY <1>1, PairsFinite
<1>4. Cardinality(Pairs(f) \cup {z}) = Cardinality(Pairs(f)) + 1
  <2>1. IsFiniteSet(Pairs(f)) /\ z \notin Pairs(f)
    BY <1>2, <1>3
  <2> HIDE DEF z
  <2> QED BY <2>1, FS_AddElement
<1> QED BY <1>2, <1>3, <1>4 DEF g

\* A number more at the end.
LEMMA SumOfLonger ==
    ASSUME NEW m \in Nat, NEW n \in Nat, NEW f \in [1..m + 1 -> 0..n], NEW g \in [1..m -> 0..n],
           \A k \in 1..m : f[k] = g[k]
    PROVE  SumOf(f) = SumOf(g) + f[m + 1]
<1> DEFINE C == {m + 1} \X (1..f[m + 1])
           Dm == 1..m
           Dn == 1..m + 1
<1>1. f \in [Dn -> Nat] /\ g \in [Dm -> Nat] /\ f \in [Dn -> 0..n] /\ g \in [Dm -> 0..n]
  OBVIOUS
<1>2. f[m + 1] \in Nat /\ (\A k : k \in Dn <=> k \in Dm \/ k = m + 1) /\ m + 1 \notin Dm
  OBVIOUS
<1>3. \A k \in Dm : f[k] = g[k]
  OBVIOUS
<1>4. IsFiniteSet(Dm) /\ IsFiniteSet(Dn)
  BY FS_Interval
<1>5. \A x : x \in C <=> \E i \in 1..f[m + 1] : x = <<m + 1, i>>
  OBVIOUS
<1>6. IsFiniteSet(C) /\ Cardinality(C) = f[m + 1]
  BY <1>2, ColumnSize
<1> HIDE DEF C, Dm, Dn
<1>7. \A x : x \in Pairs(f) <=> \E k \in Dn : \E i \in 1..f[k] : x = <<k, i>>
  <2>1. DOMAIN f = Dn
    BY <1>1
  <2>2. \A x : x \in Pairs(f) <=> \E k \in DOMAIN f : \E i \in 1..f[k] : x = <<k, i>>
    BY PairsOf, Zenon
  <2> QED BY <2>1, <2>2, Zenon
<1>8. \A x : x \in Pairs(g) <=> \E k \in Dm : \E i \in 1..g[k] : x = <<k, i>>
  <2>1. DOMAIN g = Dm
    BY <1>1
  <2>2. \A x : x \in Pairs(g) <=> \E k \in DOMAIN g : \E i \in 1..g[k] : x = <<k, i>>
    BY PairsOf, Zenon
  <2> QED BY <2>1, <2>2, Zenon
<1>9. Pairs(f) = Pairs(g) \cup C
  <2>1. \A x : x \in Pairs(f) <=> x \in Pairs(g) \/ x \in C
    <3>1. ASSUME NEW x, x \in Pairs(f) PROVE x \in Pairs(g) \/ x \in C
      <4>1. PICK k \in Dn : \E i \in 1..f[k] : x = <<k, i>>
        BY <1>7, <3>1
      <4>2. CASE k \in Dm
        BY <1>3, <1>8, <4>1, <4>2
      <4>3. CASE k = m + 1
        BY <1>5, <4>1, <4>3
      <4> QED BY <1>2, <4>1, <4>2, <4>3
    <3>2. ASSUME NEW x, x \in Pairs(g) PROVE x \in Pairs(f)
      <4>1. PICK k \in Dm : \E i \in 1..g[k] : x = <<k, i>>
        BY <1>8, <3>2
      <4> QED BY <1>2, <1>3, <1>7, <4>1
    <3>3. ASSUME NEW x, x \in C PROVE x \in Pairs(f)
      <4>1. m + 1 \in Dn
        BY <1>2
      <4>2. PICK i \in 1..f[m + 1] : x = <<m + 1, i>>
        BY <1>5, <3>3
      <4> QED BY <1>7, <4>1, <4>2
    <3> QED BY <3>1, <3>2, <3>3
  <2> QED BY <2>1
<1>10. Pairs(g) \cap C = {}
  <2> SUFFICES ASSUME NEW x, x \in Pairs(g), x \in C PROVE FALSE
    OBVIOUS
  <2>1. PICK k \in Dm : \E i \in 1..g[k] : x = <<k, i>>
    BY <1>8
  <2>2. PICK i \in 1..f[m + 1] : x = <<m + 1, i>>
    BY <1>5
  <2> QED BY <1>2, <2>1, <2>2
<1>11. /\ IsFiniteSet(Pairs(g)) /\ SumOf(g) = Cardinality(Pairs(g)) /\ SumOf(f) = Cardinality(Pairs(f))
  BY <1>1, <1>4, PairsFinite
<1>12. Cardinality(Pairs(g) \cup C) = Cardinality(Pairs(g)) + Cardinality(C)
  BY <1>6, <1>10, <1>11, DisjointSize
<1> QED BY <1>6, <1>9, <1>11, <1>12

\* The columns C of f become the columns behind m, in the order of a list.
Moves(m, n, top, D, C, order, f, g, a, b) ==
    /\ m \in Nat /\ n \in Nat /\ top \in Nat /\ IsFiniteSet(D) /\ C \subseteq D
    /\ order \in [1..n -> C] /\ (\A i, j \in 1..n : order[i] = order[j] => i = j)
    /\ \A w \in C : \E k \in 1..n : order[k] = w
    /\ f \in [D -> 0..top] /\ g \in [D -> 0..top] /\ (\A w \in D : g[w] = IF w \in C THEN 0 ELSE f[w])
    /\ a \in [1..m -> 0..top] /\ b \in [1..m + n -> 0..top]
    /\ (\A k \in 1..m : b[k] = a[k]) /\ \A k \in 1..n : b[m + k] = f[order[k]]

LEMMA SumOfMoved ==
    ASSUME NEW m, NEW n, NEW top, NEW D, NEW C, NEW order, NEW f, NEW g, NEW a, NEW b,
           Moves(m, n, top, D, C, order, f, g, a, b)
    PROVE  SumOf(g) + SumOf(b) = SumOf(f) + SumOf(a)
<1>0. m \in Nat /\ n \in Nat /\ top \in Nat /\ IsFiniteSet(D) /\ C \subseteq D
  BY DEF Moves
<1> DEFINE Da == 1..m
           Db == 1..m + n
           Dn == 1..n
           F == {z \in Pairs(f) : z[1] \in C}
           B == {z \in Pairs(b) : z[1] \notin Da}
           h == [z \in B |-> <<order[z[1] - m], z[2]>>]
<1>1. /\ f \in [D -> 0..top] /\ g \in [D -> 0..top] /\ a \in [Da -> 0..top] /\ b \in [Db -> 0..top]
      /\ f \in [D -> Nat] /\ g \in [D -> Nat] /\ a \in [Da -> Nat] /\ b \in [Db -> Nat]
  <2>1. /\ f \in [D -> 0..top] /\ g \in [D -> 0..top] /\ a \in [Da -> 0..top] /\ b \in [Db -> 0..top]
    BY DEF Moves
  <2> HIDE DEF Da, Db
  <2> QED BY <1>0, <2>1
<1>2. IsFiniteSet(Da) /\ IsFiniteSet(Db)
  BY <1>0, FS_Interval
<1>3. /\ \A k : k \in Db <=> k \in Da \/ \E l \in Dn : k = m + l
      /\ \A l \in Dn : l \in Int /\ m + l \in Db /\ m + l \notin Da /\ m + l - m = l
      /\ \A k \in Da : k \in Db
  <2>1. \A k : k \in Db => k \in Da \/ (k - m \in Dn /\ k = m + (k - m))
    BY <1>0
  <2>2. \A l \in Dn : l \in Int /\ m + l \in Db /\ m + l \notin Da /\ m + l - m = l
    BY <1>0
  <2>3. \A k \in Da : k \in Db
    BY <1>0
  <2> HIDE DEF Da, Db, Dn
  <2> QED BY <2>1, <2>2, <2>3
<1>4. /\ order \in [Dn -> C] /\ (\A i, j \in Dn : order[i] = order[j] => i = j)
      /\ (\A w \in C : \E k \in Dn : order[k] = w)
  BY DEF Moves
<1>5. (\A k \in Da : b[k] = a[k]) /\ (\A k \in Dn : b[m + k] = f[order[k]])
  BY DEF Moves
<1>6. \A k \in Dn : order[k] \in C /\ order[k] \in D
  BY <1>0, <1>4
<1> HIDE DEF Da, Db, Dn, F, B, h
<1>7. /\ IsFiniteSet(Pairs(f)) /\ SumOf(f) = Cardinality(Pairs(f))
      /\ IsFiniteSet(Pairs(g)) /\ SumOf(g) = Cardinality(Pairs(g))
      /\ IsFiniteSet(Pairs(a)) /\ SumOf(a) = Cardinality(Pairs(a))
      /\ IsFiniteSet(Pairs(b)) /\ SumOf(b) = Cardinality(Pairs(b))
  <2>1. IsFiniteSet(Pairs(f)) /\ SumOf(f) = Cardinality(Pairs(f))
    BY <1>0, <1>1, PairsFinite
  <2>2. IsFiniteSet(Pairs(g)) /\ SumOf(g) = Cardinality(Pairs(g))
    BY <1>0, <1>1, PairsFinite
  <2>3. IsFiniteSet(Pairs(a)) /\ SumOf(a) = Cardinality(Pairs(a))
    BY <1>0, <1>1, <1>2, PairsFinite
  <2>4. IsFiniteSet(Pairs(b)) /\ SumOf(b) = Cardinality(Pairs(b))
    BY <1>0, <1>1, <1>2, PairsFinite
  <2> QED BY <2>1, <2>2, <2>3, <2>4
<1>8. IsFiniteSet(F) /\ IsFiniteSet(B)
  <2>1. F \subseteq Pairs(f) /\ B \subseteq Pairs(b)
    BY DEF F, B
  <2> QED BY <1>7, <2>1, FS_Subset
<1>9. /\ \A z : z \in Pairs(f) <=> \E k \in D : \E i \in 1..f[k] : z = <<k, i>>
      /\ \A z : z \in Pairs(g) <=> \E k \in D : \E i \in 1..g[k] : z = <<k, i>>
      /\ \A z : z \in Pairs(a) <=> \E k \in Da : \E i \in 1..a[k] : z = <<k, i>>
      /\ \A z : z \in Pairs(b) <=> \E k \in Db : \E i \in 1..b[k] : z = <<k, i>>
  <2>1. \A z : z \in Pairs(f) <=> \E k \in D : \E i \in 1..f[k] : z = <<k, i>>
    <3>1. DOMAIN f = D
      BY <1>1
    <3> QED BY <3>1 DEF Pairs
  <2>2. \A z : z \in Pairs(g) <=> \E k \in D : \E i \in 1..g[k] : z = <<k, i>>
    <3>1. DOMAIN g = D
      BY <1>1
    <3> QED BY <3>1 DEF Pairs
  <2>3. \A z : z \in Pairs(a) <=> \E k \in Da : \E i \in 1..a[k] : z = <<k, i>>
    <3>1. DOMAIN a = Da
      BY <1>1
    <3> QED BY <3>1 DEF Pairs
  <2>4. \A z : z \in Pairs(b) <=> \E k \in Db : \E i \in 1..b[k] : z = <<k, i>>
    <3>1. DOMAIN b = Db
      BY <1>1
    <3> QED BY <3>1 DEF Pairs
  <2> QED BY <2>1, <2>2, <2>3, <2>4
<1>10. \A z : z \in F <=> \E k \in C : \E i \in 1..f[k] : z = <<k, i>>
  BY <1>0, <1>9 DEF F
<1>11. \A z : z \in B <=> \E l \in Dn : \E i \in 1..f[order[l]] : z = <<m + l, i>>
  <2>1. ASSUME NEW z, z \in B PROVE \E l \in Dn : \E i \in 1..f[order[l]] : z = <<m + l, i>>
    <3>1. z[1] \notin Da
      BY <2>1 DEF B
    <3>2. PICK k \in Db : \E i \in 1..b[k] : z = <<k, i>>
      BY <1>9, <2>1 DEF B
    <3>3. k \notin Da
      BY <3>1, <3>2
    <3>4. PICK l \in Dn : k = m + l
      BY <1>3, <3>3
    <3> QED BY <1>5, <3>2, <3>4
  <2>2. ASSUME NEW l \in Dn, NEW i \in 1..f[order[l]] PROVE <<m + l, i>> \in B
    <3>1. m + l \in Db /\ m + l \notin Da /\ i \in 1..b[m + l]
      BY <1>3, <1>5
    <3>2. <<m + l, i>> \in Pairs(b)
      BY <1>9, <3>1
    <3> QED BY <3>1, <3>2 DEF B
  <2> QED BY <2>1, <2>2
<1>12. Cardinality(F) = Cardinality(B)
  <2>1. ASSUME NEW l \in Dn, NEW i \in 1..f[order[l]]
        PROVE  <<m + l, i>> \in B /\ h[<<m + l, i>>] = <<order[l], i>>
    <3>1. <<m + l, i>> \in B /\ m + l - m = l
      BY <1>3, <1>11
    <3>2. \A z : z \in B => h[z] = <<order[z[1] - m], z[2]>>
      BY DEF h
    <3>3. \A z : z = <<m + l, i>> => z[1] = m + l /\ z[2] = i
      OBVIOUS
    <3>4. \A z : z = <<m + l, i>> => h[z] = <<order[l], i>>
      <4> SUFFICES ASSUME NEW z, z = <<m + l, i>> PROVE h[z] = <<order[l], i>>
        OBVIOUS
      <4>1. z \in B
        BY <3>1
      <4>2. z[1] = m + l /\ z[2] = i
        BY <3>3
      <4>3. z[1] - m = l
        <5>1. l \in Int
          BY <1>3
        <5>2. z[1] = m + l
          BY <4>2
        <5> QED BY <1>0, <5>1, <5>2
      <4>4. h[z] = <<order[z[1] - m], z[2]>>
        BY <3>2, <4>1
      <4> QED BY <4>2, <4>3, <4>4
    <3> QED BY <3>1, <3>4, Zenon
  <2>2. \A z \in B : h[z] \in F
    <3> SUFFICES ASSUME NEW z \in B PROVE h[z] \in F
      OBVIOUS
    <3>1. PICK l \in Dn : \E i \in 1..f[order[l]] : z = <<m + l, i>>
      BY <1>11
    <3>2. PICK i \in 1..f[order[l]] : z = <<m + l, i>>
      BY <3>1
    <3>3. h[z] = <<order[l], i>>
      BY <2>1, <3>2
    <3> QED BY <1>6, <1>10, <3>3
  <2>3. \A z \in F : \E y \in B : h[y] = z
    <3> SUFFICES ASSUME NEW z \in F PROVE \E y \in B : h[y] = z
      OBVIOUS
    <3>1. PICK k \in C : \E i \in 1..f[k] : z = <<k, i>>
      BY <1>10
    <3>2. PICK i \in 1..f[k] : z = <<k, i>>
      BY <3>1
    <3>3. PICK l \in Dn : order[l] = k
      BY <1>4
    <3>4. i \in 1..f[order[l]]
      BY <3>2, <3>3
    <3>5. <<m + l, i>> \in B /\ h[<<m + l, i>>] = <<order[l], i>>
      BY <2>1, <3>4
    <3>6. z = <<order[l], i>>
      BY <3>2, <3>3
    <3> QED BY <3>5, <3>6
  <2>4. \A y, z \in B : h[y] = h[z] => y = z
    <3> SUFFICES ASSUME NEW y \in B, NEW z \in B, h[y] = h[z] PROVE y = z
      OBVIOUS
    <3>1. PICK l \in Dn : \E i \in 1..f[order[l]] : y = <<m + l, i>>
      BY <1>11
    <3>2. PICK i \in 1..f[order[l]] : y = <<m + l, i>>
      BY <3>1
    <3>3. PICK k \in Dn : \E j \in 1..f[order[k]] : z = <<m + k, j>>
      BY <1>11
    <3>4. PICK j \in 1..f[order[k]] : z = <<m + k, j>>
      BY <3>3
    <3>5. h[y] = <<order[l], i>> /\ h[z] = <<order[k], j>>
      BY <2>1, <3>2, <3>4
    <3>6. order[l] = order[k] /\ i = j
      <4>1. <<order[l], i>> = <<order[k], j>>
        BY <3>5
      <4> QED BY <4>1
    <3>7. l = k
      BY <1>4, <3>6
    <3> QED BY <3>2, <3>4, <3>6, <3>7
  <2>5. DOMAIN h = B /\ h = [z \in B |-> h[z]]
    BY DEF h
  <2> HIDE DEF h
  <2>6. h \in [B -> F]
    BY <2>2, <2>5
  <2>7. h \in Surjection(B, F) /\ h \in Injection(B, F)
    <3>1. \A y, z \in B : h[y] = h[z] => y = z
      BY <2>4
    <3>2. \A z \in F : \E y \in B : h[y] = z
      BY <2>3
    <3> QED BY <2>6, <3>1, <3>2 DEF Surjection, Injection, IsInjective
  <2> QED BY <1>8, <2>7, FS_Surjection
<1>13. Pairs(f) = Pairs(g) \cup F /\ Pairs(g) \cap F = {}
  <2>1. \A w \in D : g[w] = IF w \in C THEN 0 ELSE f[w]
    BY DEF Moves
  <2>2. \A z : z \in Pairs(g) <=> z \in Pairs(f) /\ z \notin F
    <3>1. ASSUME NEW z, z \in Pairs(g) PROVE z \in Pairs(f) /\ z \notin F
      <4>1. PICK k \in D : \E i \in 1..g[k] : z = <<k, i>>
        BY <1>9, <3>1
      <4>2. k \notin C
        <5>1. CASE k \in C
          <6>1. g[k] = 0
            BY <2>1, <5>1
          <6> QED BY <4>1, <6>1
        <5> QED BY <5>1
      <4>3. g[k] = f[k]
        BY <2>1, <4>2
      <4>4. \A y \in C : \A j : z # <<y, j>>
        BY <4>1, <4>2
      <4> QED BY <1>9, <1>10, <4>1, <4>3, <4>4
    <3>2. ASSUME NEW z, z \in Pairs(f), z \notin F PROVE z \in Pairs(g)
      <4>1. PICK k \in D : \E i \in 1..f[k] : z = <<k, i>>
        BY <1>9, <3>2
      <4>2. k \notin C
        BY <1>10, <3>2, <4>1
      <4>3. g[k] = f[k]
        BY <2>1, <4>2
      <4> QED BY <1>9, <4>1, <4>3
    <3> QED BY <3>1, <3>2
  <2>3. F \subseteq Pairs(f)
    BY DEF F
  <2> QED BY <2>2, <2>3
<1>14. Pairs(b) = Pairs(a) \cup B /\ Pairs(a) \cap B = {}
  <2>1. \A z : z \in Pairs(a) <=> z \in Pairs(b) /\ z \notin B
    <3>1. ASSUME NEW z, z \in Pairs(a) PROVE z \in Pairs(b) /\ z \notin B
      <4>1. PICK k \in Da : \E i \in 1..a[k] : z = <<k, i>>
        BY <1>9, <3>1
      <4>2. b[k] = a[k] /\ k \in Db /\ z[1] = k
        BY <1>3, <1>5, <4>1
      <4>3. z \in Pairs(b)
        BY <1>9, <4>1, <4>2
      <4> QED BY <4>2, <4>3 DEF B
    <3>2. ASSUME NEW z, z \in Pairs(b), z \notin B PROVE z \in Pairs(a)
      <4>1. PICK k \in Db : \E i \in 1..b[k] : z = <<k, i>>
        BY <1>9, <3>2
      <4>2. k \in Da
        <5>1. z[1] = k
          BY <4>1
        <5> QED BY <3>2, <5>1 DEF B
      <4> QED BY <1>5, <1>9, <4>1, <4>2
    <3> QED BY <3>1, <3>2
  <2>2. B \subseteq Pairs(b)
    BY DEF B
  <2> QED BY <2>1, <2>2
<1>15. /\ Cardinality(Pairs(f)) = Cardinality(Pairs(g)) + Cardinality(F)
       /\ Cardinality(Pairs(b)) = Cardinality(Pairs(a)) + Cardinality(B)
  <2>1. Cardinality(Pairs(g) \cup F) = Cardinality(Pairs(g)) + Cardinality(F)
    BY <1>7, <1>8, <1>13, DisjointSize
  <2>2. Cardinality(Pairs(a) \cup B) = Cardinality(Pairs(a)) + Cardinality(B)
    BY <1>7, <1>8, <1>14, DisjointSize
  <2> QED BY <1>13, <1>14, <2>1, <2>2
<1>16. /\ Cardinality(Pairs(g)) \in Nat /\ Cardinality(Pairs(a)) \in Nat
       /\ Cardinality(F) \in Nat /\ Cardinality(B) \in Nat
  BY <1>7, <1>8, FS_CardinalityType
<1> QED BY <1>7, <1>12, <1>15, <1>16

-----------------------------------------------------------------------------
\* What FlowAssumption says of the numbers.
LEMMA FlowNumbers ==
    /\ Length \in Nat /\ Length > 0 /\ Slack \in Nat /\ MaxTime \in Nat /\ MaxFlows \in Nat
    /\ MaxReplays \in Nat /\ AlertsPerWindow \in Nat /\ AlertsPerWindow > 1 /\ Partitions # {}
BY FlowAssumption

\* A flow lies before the end of its window, and windows end a length apart.
LEMMA PanesAre ==
    /\ IsFiniteSet(Panes) /\ \A w \in Panes : w \in Nat /\ End(w) \in Nat /\ End(w) > 0
    /\ \A t \in 0..MaxTime : PaneOf(t) \in Panes /\ t < End(PaneOf(t))
    /\ \A v, w \in Panes : v < w => End(v) + Length <= End(w)
    /\ \A v, w \in Panes : End(v) < End(w) => v < w
<1>1. MaxTime \div Length \in Nat
  BY FlowNumbers
<1>2. IsFiniteSet(Panes)
  BY <1>1, FS_Interval DEF Panes
<1>3. \A w \in Panes : w \in Nat
  BY DEF Panes
<1>4. \A v, w \in Nat : v < w => End(v) + Length <= End(w)
  <2> SUFFICES ASSUME NEW v \in Nat, NEW w \in Nat, v < w PROVE End(v) + Length <= End(w)
    OBVIOUS
  <2>1. (w + 1) * Length = (v + 1) * Length + (w - v) * Length
    BY FlowNumbers
  <2>2. (w - v) * Length >= Length
    BY FlowNumbers
  <2>3. (v + 1) * Length \in Int /\ (w - v) * Length \in Int /\ (w + 1) * Length \in Int
    BY FlowNumbers
  <2> QED BY <2>1, <2>2, <2>3, FlowNumbers DEF End
<1>5. \A w \in Nat : End(w) \in Nat /\ End(w) > 0
  BY FlowNumbers DEF End
<1>6. \A v, w \in Nat : End(v) < End(w) => v < w
  <2> SUFFICES ASSUME NEW v \in Nat, NEW w \in Nat, End(v) < End(w), ~(v < w) PROVE FALSE
    OBVIOUS
  <2>1. CASE v = w
    BY <1>5, <2>1
  <2>2. CASE w < v
    BY <1>4, <1>5, <2>2, FlowNumbers
  <2> QED BY <2>1, <2>2
<1>7. \A t \in 0..MaxTime : PaneOf(t) \in Panes /\ t < End(PaneOf(t))
  <2> SUFFICES ASSUME NEW t \in 0..MaxTime PROVE PaneOf(t) \in Panes /\ t < End(PaneOf(t))
    OBVIOUS
  <2>1. t \div Length \in Nat /\ t \div Length <= MaxTime \div Length
    BY FlowNumbers
  <2>2. t < (t \div Length + 1) * Length
    BY FlowNumbers
  <2> QED BY <1>1, <2>1, <2>2 DEF PaneOf, Panes, End
<1> QED BY <1>2, <1>3, <1>4, <1>5, <1>6, <1>7

\* A record of ndr-flows-aggregated, and what job 6 makes of it.
Aggregate == [window : Panes, flows : 0..MaxFlows]
Judgement == [flows : 0..MaxFlows, surge : BOOLEAN, reason : BOOLEAN, told : BOOLEAN]

\* The types, and no window holds more than came in.
FlowShape ==
    /\ latest \in [Partitions -> Never..MaxTime] /\ watermark \in Int /\ watermark <= MaxTime
    /\ flowsIn \in 0..MaxFlows /\ flowsLate \in 0..flowsIn
    /\ panes \in [Panes -> 0..MaxFlows] /\ \A w \in Panes : panes[w] <= flowsIn
    /\ aggregated \in Seq(Aggregate) /\ verdicts \in Seq(Judgement)
    /\ nextRecord \in 1..Len(aggregated) + 1 /\ Len(verdicts) = nextRecord - 1
    /\ stormStart \in Int /\ stormCount \in 0..AlertsPerWindow /\ replays \in 0..MaxReplays
\* The watermark is behind every partition.
Behind == \A p \in Partitions : watermark <= latest[p] - Slack - 1
\* Flows of the records, whose sum and the windows' sum make up all that were not late.
FlowsOf(s) == [i \in DOMAIN s |-> s[i].flows]
FlowsAddUp == replays = 0 => flowsIn = flowsLate + SumOf(panes) + SumOf(FlowsOf(aggregated))
\* A window that the watermark has passed is put out and empty.
PassedEmpty == \A w \in Panes : watermark >= End(w) - 1 => panes[w] = 0
\* Job 3 puts out one record for a window, in the order of the windows.
Ascending ==
    replays = 0 =>
        /\ \A i \in 1..Len(aggregated) : watermark >= End(aggregated[i].window) - 1
        /\ \A i, j \in 1..Len(aggregated) : i < j => aggregated[i].window < aggregated[j].window
\* The three running sums are those over all verdicts.
HistoryIsBefore == history = Before(Len(verdicts) + 1)
\* Two alerts of one storm come from two windows that are a length apart.
StormPaced ==
    replays = 0 /\ stormStart # Never =>
        /\ nextRecord > 1 /\ stormStart <= End(aggregated[nextRecord - 1].window)
        /\ \/ stormCount <= 1
           \/ stormCount <= 2 /\ End(aggregated[nextRecord - 1].window) >= stormStart + Length

FlowInv ==
    /\ FlowShape /\ Behind /\ FlowsAddUp /\ PassedEmpty /\ Ascending /\ HistoryIsBefore /\ StormPaced
    /\ PromptFlowsCount /\ JudgedByOthers /\ OnlyReplaysSuppressed

LEMMA FlowInvInit == FlowInit => FlowInv
<1> SUFFICES ASSUME FlowInit PROVE FlowInv
  OBVIOUS
<1> USE DEF FlowInit
<1>1. Len(<< >>) = 0 /\ << >> \in Seq(Aggregate) /\ << >> \in Seq(Judgement) /\ DOMAIN << >> = {}
  OBVIOUS
<1>2. FlowShape
  <2>1. Never \in Never..MaxTime /\ Never - Slack - 1 \in Int /\ Never - Slack - 1 <= MaxTime
    BY FlowNumbers DEF Never
  <2>2. panes \in [Panes -> 0..MaxFlows] /\ \A w \in Panes : panes[w] <= flowsIn
    BY FlowNumbers
  <2>3. flowsIn \in 0..MaxFlows /\ flowsLate \in 0..flowsIn /\ replays \in 0..MaxReplays
        /\ stormCount \in 0..AlertsPerWindow
    BY FlowNumbers
  <2>4. latest \in [Partitions -> Never..MaxTime]
    BY <2>1
  <2>5. aggregated \in Seq(Aggregate) /\ verdicts \in Seq(Judgement) /\ Len(aggregated) = 0
        /\ Len(verdicts) = 0 /\ stormStart \in Int
    BY <1>1 DEF Never
  <2> QED BY <2>1, <2>2, <2>3, <2>4, <2>5 DEF FlowShape
<1>3. SumOf(panes) = 0
  BY SumOfZeros
<1>4. SumOf(FlowsOf(aggregated)) = 0
  <2>1. FlowsOf(aggregated) \in [{} -> {0}]
    BY <1>1 DEF FlowsOf
  <2> QED BY <2>1, SumOfZeros
<1>5. FlowsAddUp
  BY <1>3, <1>4 DEF FlowsAddUp
<1>6. Behind
  BY FlowNumbers DEF Behind, Never
<1>7. HistoryIsBefore
  <2>1. [j \in 1..0 |-> verdicts[j].flows] \in [1..0 -> {0}]
        /\ [j \in 1..0 |-> verdicts[j].flows * verdicts[j].flows] \in [1..0 -> {0}]
    OBVIOUS
  <2>2. SumOf([j \in 1..0 |-> verdicts[j].flows]) = 0
        /\ SumOf([j \in 1..0 |-> verdicts[j].flows * verdicts[j].flows]) = 0
    BY <2>1, SumOfZeros
  <2>3. Len(verdicts) = 0 /\ 0 + 1 = 1 /\ 1 - 1 = 0
    BY <1>1
  <2> QED BY <2>2, <2>3 DEF HistoryIsBefore, Before
<1>8. Ascending /\ StormPaced /\ PassedEmpty
  BY <1>1 DEF Ascending, StormPaced, PassedEmpty
<1>9. PromptFlowsCount /\ JudgedByOthers /\ OnlyReplaysSuppressed
  BY <1>1 DEF PromptFlowsCount, JudgedByOthers, OnlyReplaysSuppressed
<1> QED BY <1>2, <1>5, <1>6, <1>7, <1>8, <1>9 DEF FlowInv

LEMMA FlowInvSound == FlowInv => FlowsSound
<1> SUFFICES ASSUME FlowInv PROVE FlowsSound
  OBVIOUS
<1>1. FlowShape /\ FlowsAddUp /\ PassedEmpty /\ PromptFlowsCount /\ JudgedByOthers
      /\ OnlyReplaysSuppressed
  BY DEF FlowInv
<1>2. FlowTypeOK
  BY <1>1 DEF FlowShape, FlowTypeOK
<1>3. FlowsCounted
  BY <1>1 DEF FlowsAddUp, PassedEmpty, FlowsOf, FlowsCounted
<1> QED BY <1>1, <1>2, <1>3 DEF FlowsSound

\* Both sums are numbers.
LEMMA FlowSums ==
    ASSUME FlowShape
    PROVE  SumOf(panes) \in Nat /\ SumOf(FlowsOf(aggregated)) \in Nat
<1>1. panes \in [Panes -> 0..MaxFlows] /\ aggregated \in Seq(Aggregate)
  BY DEF FlowShape
<1>2. SumOf(panes) \in Nat
  BY <1>1, PanesAre, FlowNumbers, PairsFinite
<1>3. /\ Len(aggregated) \in Nat /\ DOMAIN aggregated = 1..Len(aggregated)
      /\ \A i \in 1..Len(aggregated) : aggregated[i] \in Aggregate
  BY <1>1, SeqShape
<1>4. FlowsOf(aggregated) \in [1..Len(aggregated) -> 0..MaxFlows]
  BY <1>3 DEF FlowsOf, Aggregate
<1>5. IsFiniteSet(1..Len(aggregated))
  BY <1>3, FS_Interval
<1>6. SumOf(FlowsOf(aggregated)) \in Nat
  BY <1>4, <1>5, FlowNumbers, PairsFinite
<1> QED BY <1>2, <1>6

\* A flow counts in its window or as late.
LEMMA FlowKeeps ==
    ASSUME FlowInv, NEW p \in Partitions, NEW t \in 0..MaxTime, Flow(p, t)
    PROVE  FlowInv'
<1>1. /\ FlowShape /\ Behind /\ FlowsAddUp /\ PassedEmpty /\ Ascending /\ HistoryIsBefore /\ StormPaced
      /\ PromptFlowsCount /\ JudgedByOthers /\ OnlyReplaysSuppressed
  BY DEF FlowInv
<1>2. /\ watermark' = watermark /\ aggregated' = aggregated /\ nextRecord' = nextRecord
      /\ history' = history /\ stormStart' = stormStart /\ stormCount' = stormCount
      /\ verdicts' = verdicts /\ replays' = replays
  BY DEF Flow, baselineVars
<1>3. flowsIn < MaxFlows /\ flowsIn' = flowsIn + 1
  BY DEF Flow
<1>4. latest[p] \in Int /\ latest[p] <= MaxTime /\ t \in Int /\ t <= MaxTime /\ latest[p] >= Never
  BY <1>1, FlowNumbers DEF FlowShape, Never
<1>5. /\ latest' \in [Partitions -> Never..MaxTime] /\ latest'[p] >= latest[p]
      /\ \A q \in Partitions : q # p => latest'[q] = latest[q]
  <2> DEFINE m == Max({latest[p], t})
  <2>1. m = IF latest[p] >= t THEN latest[p] ELSE t
    BY <1>4, MaxOfTwo
  <2>2. latest' = [latest EXCEPT ![p] = m]
    BY DEF Flow
  <2> HIDE DEF m
  <2>3. m \in Never..MaxTime /\ m >= latest[p]
    BY <1>4, <2>1, FlowNumbers DEF Never
  <2>4. latest \in [Partitions -> Never..MaxTime]
    BY <1>1 DEF FlowShape
  <2> QED BY <2>2, <2>3, <2>4
<1>6. PaneOf(t) \in Panes /\ t < End(PaneOf(t)) /\ End(PaneOf(t)) \in Nat
  BY PanesAre
<1>7. watermark \in Int /\ flowsIn \in Nat /\ flowsLate \in 0..flowsIn /\ flowsLate \in Nat
      /\ panes \in [Panes -> 0..MaxFlows] /\ \A w \in Panes : panes[w] <= flowsIn
  BY <1>1 DEF FlowShape
<1>8. /\ FlowsAddUp' /\ PassedEmpty' /\ flowsLate' \in 0..flowsIn' /\ panes' \in [Panes -> 0..MaxFlows]
      /\ \A w \in Panes : panes'[w] <= flowsIn'
  <2>1. CASE Closed(PaneOf(t))
    <3>1. flowsLate' = flowsLate + 1 /\ panes' = panes
      BY <2>1 DEF Flow
    <3>2. FlowsAddUp'
      <4> SUFFICES ASSUME replays' = 0
                   PROVE  flowsIn' = flowsLate' + SumOf(panes') + SumOf(FlowsOf(aggregated'))
        BY DEF FlowsAddUp, FlowsOf, SumOf
      <4>1. flowsIn = flowsLate + SumOf(panes) + SumOf(FlowsOf(aggregated))
        BY <1>1, <1>2 DEF FlowsAddUp
      <4>2. SumOf(panes) \in Nat /\ SumOf(FlowsOf(aggregated)) \in Nat
        BY <1>1, FlowSums
      <4> QED BY <1>2, <1>3, <1>7, <3>1, <4>1, <4>2
    <3>3. PassedEmpty'
      BY <1>1, <1>2, <3>1 DEF PassedEmpty
    <3>4. flowsLate' \in 0..flowsIn'
      BY <1>3, <1>7, <3>1
    <3>5. \A w \in Panes : panes'[w] <= flowsIn'
      <4>1. \A w \in Panes : panes[w] \in Int
        BY <1>7
      <4> QED BY <1>3, <1>7, <3>1, <4>1
    <3> QED BY <1>7, <3>1, <3>2, <3>3, <3>4, <3>5
  <2>2. CASE ~Closed(PaneOf(t))
    <3> DEFINE w == PaneOf(t)
    <3>1. flowsLate' = flowsLate /\ panes' = [panes EXCEPT ![w] = panes[w] + 1]
      BY <2>2 DEF Flow
    <3>2. w \in Panes
      BY <1>6
    <3>3. ~(watermark >= End(w) - 1)
      BY <2>2 DEF Closed
    <3> HIDE DEF w
    <3>4. /\ \A v \in Panes : panes'[v] = IF v = w THEN panes[w] + 1 ELSE panes[v]
          /\ DOMAIN panes' = Panes /\ panes' = [v \in Panes |-> panes'[v]]
      BY <1>7, <3>1, <3>2
    <3>5. \A v \in Panes : panes[v] \in Nat /\ panes[v] <= flowsIn
      BY <1>7
    <3>6. \A v \in Panes : panes'[v] \in Nat /\ panes'[v] <= flowsIn' /\ panes'[v] \in 0..MaxFlows
      <4> SUFFICES ASSUME NEW v \in Panes
                   PROVE  panes'[v] \in Nat /\ panes'[v] <= flowsIn' /\ panes'[v] \in 0..MaxFlows
        OBVIOUS
      <4>1. panes[v] \in Nat /\ panes[v] <= flowsIn /\ panes[w] \in Nat /\ panes[w] <= flowsIn
        BY <3>2, <3>5
      <4>2. panes'[v] \in Nat /\ panes'[v] <= flowsIn + 1
        BY <1>7, <3>4, <4>1
      <4> QED BY <1>3, <1>7, <4>2, FlowNumbers
    <3>7. panes' \in [Panes -> 0..MaxFlows]
      BY <3>4, <3>6
    <3>8. SumOf(panes') = SumOf(panes) + 1
      <4>1. IsFiniteSet(Panes) /\ MaxFlows \in Nat /\ panes \in [Panes -> 0..MaxFlows]
        BY <1>7, PanesAre, FlowNumbers
      <4>2. SumOf([panes EXCEPT ![w] = panes[w] + 1]) = SumOf(panes) + 1
        BY <3>2, <4>1, SumOfOneMore
      <4> QED BY <3>1, <4>2
    <3>9. FlowsAddUp'
      <4> SUFFICES ASSUME replays' = 0
                   PROVE  flowsIn' = flowsLate' + SumOf(panes') + SumOf(FlowsOf(aggregated'))
        BY DEF FlowsAddUp, FlowsOf, SumOf
      <4>1. flowsIn = flowsLate + SumOf(panes) + SumOf(FlowsOf(aggregated))
        BY <1>1, <1>2 DEF FlowsAddUp
      <4>2. SumOf(panes) \in Nat /\ SumOf(FlowsOf(aggregated)) \in Nat
        BY <1>1, FlowSums
      <4> QED BY <1>2, <1>3, <1>7, <3>1, <3>8, <4>1, <4>2
    <3>10. PassedEmpty'
      <4> SUFFICES ASSUME NEW v \in Panes, watermark' >= End(v) - 1 PROVE panes'[v] = 0
        BY DEF PassedEmpty, Panes, End
      <4>1. watermark >= End(v) - 1
        BY <1>2
      <4>2. v # w /\ panes[v] = 0
        BY <1>1, <3>3, <4>1 DEF PassedEmpty
      <4> QED BY <3>4, <4>2
    <3>11. flowsLate' \in 0..flowsIn'
      BY <1>3, <1>7, <3>1
    <3> QED BY <3>6, <3>7, <3>9, <3>10, <3>11
  <2> QED BY <2>1, <2>2
<1>9. FlowShape'
  <2>1. flowsIn' \in 0..MaxFlows
    BY <1>3, <1>7, FlowNumbers
  <2> QED BY <1>1, <1>2, <1>5, <1>8, <2>1 DEF FlowShape, Panes, Aggregate, Judgement
<1>10. Behind'
  <2> SUFFICES ASSUME NEW q \in Partitions PROVE watermark' <= latest'[q] - Slack - 1
    BY DEF Behind
  <2>1. watermark <= latest[q] - Slack - 1 /\ latest[q] \in Int /\ latest'[q] \in Int
    BY <1>1, <1>5, FlowNumbers DEF Behind, FlowShape, Never
  <2>2. latest'[q] >= latest[q]
    BY <1>5, <2>1
  <2> QED BY <1>2, <1>7, <2>1, <2>2, FlowNumbers
<1>11. PromptFlowsCount'
  <2>1. ~(Closed(PaneOf(t)) /\ t >= latest[p] - Slack)
    <3>1. watermark <= latest[p] - Slack - 1
      BY <1>1 DEF Behind
    <3> QED BY <1>4, <1>6, <1>7, <3>1, FlowNumbers DEF Closed
  <2> QED BY <1>1, <2>1 DEF Flow, PromptFlowsCount
<1>12. Ascending' /\ HistoryIsBefore' /\ StormPaced' /\ JudgedByOthers' /\ OnlyReplaysSuppressed'
  <2>1. Ascending' /\ StormPaced'
    BY <1>1, <1>2 DEF Ascending, StormPaced, End
  <2>2. HistoryIsBefore'
    BY <1>1, <1>2 DEF HistoryIsBefore, Before, SumOf
  <2>3. JudgedByOthers' /\ OnlyReplaysSuppressed'
    BY <1>1, <1>2 DEF JudgedByOthers, OnlyReplaysSuppressed, Before, SumOf, Surge, Deviant
  <2> QED BY <2>1, <2>2, <2>3
<1> QED BY <1>8, <1>9, <1>10, <1>11, <1>12 DEF FlowInv

\* An ascending list of a finite set has every one of its numbers.
LEMMA ListsAll ==
    ASSUME NEW C, IsFiniteSet(C), C \subseteq Int, NEW order \in [1..Cardinality(C) -> C],
           \A i, j \in 1..Cardinality(C) : i < j => order[i] < order[j]
    PROVE  /\ \A i, j \in 1..Cardinality(C) : order[i] = order[j] => i = j
           /\ \A w \in C : \E k \in 1..Cardinality(C) : order[k] = w
<1> DEFINE n == Cardinality(C)
           D == 1..n
<1>1. n \in Nat
  BY FS_CardinalityType
<1>2. \A i, j \in D : order[i] = order[j] => i = j
  <2> SUFFICES ASSUME NEW i \in D, NEW j \in D, order[i] = order[j], i # j PROVE FALSE
    OBVIOUS
  <2>1. i \in Int /\ j \in Int
    BY <1>1
  <2> HIDE DEF D, n
  <2>3. order[i] \in C /\ order[j] \in C
    BY DEF D, n
  <2>4. order[i] \in Int /\ order[j] \in Int
    BY <2>3
  <2>2. i < j \/ j < i
    BY <2>1
  <2> QED BY <2>2, <2>4 DEF D, n
<1>3. IsFiniteSet(D) /\ Cardinality(D) = n
  <2> HIDE DEF n
  <2>1. IsFiniteSet(1..n) /\ Cardinality(1..n) = IF 1 > n THEN 0 ELSE n - 1 + 1
    BY <1>1, FS_Interval
  <2> QED BY <1>1, <2>1
<1>4. order \in [D -> C] /\ IsFiniteSet(C) /\ n = Cardinality(C)
  OBVIOUS
<1> HIDE DEF D, n
<1>5. order \in Injection(D, C)
  BY <1>2, <1>4 DEF Injection, IsInjective
<1>6. order \in Surjection(D, C)
  BY <1>3, <1>4, <1>5, FS_Injection
<1>7. \A w \in C : \E k \in D : order[k] = w
  BY <1>6 DEF Surjection
<1> QED BY <1>2, <1>7 DEF D, n

\* The new watermark is behind every partition.
LEMMA TimeIsLeast ==
    ASSUME FlowShape
    PROVE  Time \in Int /\ Time <= MaxTime /\ \A p \in Partitions : Time <= latest[p] - Slack - 1
<1> DEFINE S == {latest[p] : p \in Partitions}
<1>1. \A p \in Partitions : latest[p] \in Never..MaxTime /\ latest[p] \in S
  BY DEF FlowShape
<1>2. S \in SUBSET (Never..MaxTime) /\ S # {}
  BY <1>1, FlowNumbers
<1> HIDE DEF S
<1>3. Min(S) \in S /\ \A x \in S : Min(S) <= x
  <2>1. Never \in Int /\ MaxTime \in Int
    BY FlowNumbers DEF Never
  <2> QED BY <1>2, <2>1, FirstOf
<1>4. Min(S) \in Int /\ Min(S) <= MaxTime
  <2>1. Min(S) \in Never..MaxTime
    BY <1>2, <1>3
  <2> QED BY <2>1, FlowNumbers DEF Never
<1>5. Time = Min(S) - Slack - 1
  BY DEF Time, S
<1>6. \A p \in Partitions : Min(S) <= latest[p] /\ latest[p] \in Int
  BY <1>1, <1>3, FlowNumbers DEF Never
<1> QED BY <1>4, <1>5, <1>6, FlowNumbers

\* What leaves the windows is in the topic, behind what was there and in order.
LEMMA WatermarkKeeps == FlowInv /\ Watermark => FlowInv'
<1> SUFFICES ASSUME FlowInv, Watermark PROVE FlowInv'
  OBVIOUS
<1>1. /\ FlowShape /\ Behind /\ FlowsAddUp /\ PassedEmpty /\ Ascending /\ HistoryIsBefore /\ StormPaced
      /\ PromptFlowsCount /\ JudgedByOthers /\ OnlyReplaysSuppressed
  BY DEF FlowInv
<1>2. /\ latest' = latest /\ flowsIn' = flowsIn /\ flowsLate' = flowsLate
      /\ promptLost' = promptLost /\ nextRecord' = nextRecord
      /\ history' = history /\ stormStart' = stormStart /\ stormCount' = stormCount
      /\ verdicts' = verdicts /\ replays' = replays
  BY DEF Watermark, baselineVars
<1>3. Time > watermark /\ watermark' = Time
  BY DEF Watermark
<1>4. Time \in Int /\ Time <= MaxTime /\ (\A p \in Partitions : Time <= latest[p] - Slack - 1)
      /\ watermark \in Int
  BY <1>1, TimeIsLeast DEF FlowShape
<1> DEFINE C == Closing
           n == Cardinality(C)
           m == Len(aggregated)
<1>5. /\ \A w \in Panes : w \in C <=> watermark < End(w) - 1 /\ panes[w] > 0 /\ Time >= End(w) - 1
      /\ C \in SUBSET Panes
  <2>1. \A w \in Panes : End(w) \in Int
    BY PanesAre
  <2>2. \A w \in Panes : ~Closed(w) <=> watermark < End(w) - 1
    BY <1>4, <2>1 DEF Closed
  <2> QED BY <2>2 DEF Closing
<1>6. PICK order \in [1..n -> C] :
        /\ \A i, j \in DOMAIN order : i < j => order[i] < order[j]
        /\ aggregated' = aggregated \o
               [i \in DOMAIN order |-> [window |-> order[i], flows |-> panes[order[i]]]]
  BY DEF Watermark
<1>7. panes' = [w \in Panes |-> IF w \in C THEN 0 ELSE panes[w]]
  BY DEF Watermark
<1> HIDE DEF C
<1>8. IsFiniteSet(C) /\ n \in Nat /\ C \subseteq Int /\ \A w \in C : w \in Panes
  <2>1. IsFiniteSet(C)
    BY <1>5, PanesAre, FS_Subset
  <2>2. n \in Nat
    BY <2>1, FS_CardinalityType
  <2>3. \A w \in C : w \in Panes /\ w \in Int
    BY <1>5, PanesAre
  <2> QED BY <2>1, <2>2, <2>3
<1>9. DOMAIN order = 1..n /\ order = [i \in 1..n |-> order[i]] /\ \A i \in 1..n : order[i] \in C
  BY <1>6
<1>10. \A i, j \in 1..n : i < j => order[i] < order[j]
  BY <1>6, <1>9
<1>11. /\ \A i, j \in 1..n : order[i] = order[j] => i = j
       /\ \A w \in C : \E k \in 1..n : order[k] = w
  BY <1>6, <1>8, <1>10, ListsAll
<1> HIDE DEF n
<1> DEFINE new == [i \in 1..n |-> [window |-> order[i], flows |-> panes[order[i]]]]
<1>12. /\ panes \in [Panes -> 0..MaxFlows] /\ aggregated \in Seq(Aggregate)
       /\ \A w \in Panes : panes[w] \in Nat /\ panes[w] <= flowsIn /\ panes[w] \in 0..MaxFlows
  BY <1>1 DEF FlowShape
<1>13. m \in Nat /\ DOMAIN aggregated = 1..m /\ \A i \in 1..m : aggregated[i] \in Aggregate
  BY <1>12, SeqShape
<1>14. new \in Seq(Aggregate) /\ Len(new) = n /\ \A i \in 1..n : new[i] = [window |-> order[i], flows |-> panes[order[i]]]
  <2>1. \A i \in 1..n : new[i] = [window |-> order[i], flows |-> panes[order[i]]]
    OBVIOUS
  <2>2. \A i \in 1..n : new[i] \in Aggregate
    BY <1>8, <1>9, <1>12, <2>1 DEF Aggregate
  <2>3. new = [i \in 1..n |-> new[i]] /\ DOMAIN new = 1..n
    OBVIOUS
  <2> HIDE DEF new
  <2>4. new \in [1..n -> Aggregate]
    BY <2>2, <2>3
  <2>5. new \in Seq(Aggregate)
    BY <1>8, <2>4
  <2>6. Len(new) = n
    BY <1>8, <2>3, <2>5, LenProperties
  <2> QED BY <2>1, <2>5, <2>6
<1>15. aggregated' = aggregated \o new
  BY <1>6, <1>9
<1> HIDE DEF new
<1>16. /\ aggregated' \in Seq(Aggregate) /\ Len(aggregated') = m + n
       /\ \A i \in 1..m + n : /\ i <= m => aggregated'[i] = aggregated[i]
                              /\ ~(i <= m) => aggregated'[i] = new[i - m]
  <2>1. aggregated \in Seq(Aggregate) /\ new \in Seq(Aggregate)
    BY <1>12, <1>14
  <2>2. /\ aggregated \o new \in Seq(Aggregate) /\ Len(aggregated \o new) = Len(aggregated) + Len(new)
        /\ \A i \in 1..Len(aggregated) + Len(new) : (aggregated \o new)[i] =
              IF i <= Len(aggregated) THEN aggregated[i] ELSE new[i - Len(aggregated)]
    BY <2>1, ConcatProperties
  <2> QED BY <1>14, <1>15, <2>2
<1> HIDE DEF m
<1>17. /\ \A i \in 1..m : i \in 1..m + n /\ aggregated'[i] = aggregated[i]
       /\ \A i \in 1..n : m + i \in 1..m + n /\ aggregated'[m + i] = [window |-> order[i], flows |-> panes[order[i]]]
       /\ \A i \in 1..m + n : i \in 1..m \/ \E k \in 1..n : i = m + k
       /\ DOMAIN aggregated' = 1..m + n
  <2>1. \A i \in 1..m : i \in 1..m + n /\ i <= m
    BY <1>8, <1>13
  <2>2. \A i \in 1..n : m + i \in 1..m + n /\ ~(m + i <= m) /\ m + i - m = i
    BY <1>8, <1>13
  <2>3. \A i \in 1..m + n : i \in 1..m \/ (i - m \in 1..n /\ i = m + (i - m))
    BY <1>8, <1>13
  <2>4. DOMAIN aggregated' = 1..m + n
    BY <1>16, SeqShape
  <2>5. \A i \in 1..n : aggregated'[m + i] = new[i]
    <3> SUFFICES ASSUME NEW i \in 1..n PROVE aggregated'[m + i] = new[i]
      OBVIOUS
    <3>1. m + i \in 1..m + n /\ ~(m + i <= m) /\ m + i - m = i
      BY <2>2
    <3>2. aggregated'[m + i] = new[m + i - m]
      BY <1>8, <1>13, <1>16, <3>1
    <3>3. new[m + i - m] = new[i]
      BY <3>1
    <3> QED BY <3>2, <3>3
  <2> QED BY <1>14, <1>16, <2>1, <2>2, <2>3, <2>4, <2>5
<1>18. /\ panes' \in [Panes -> 0..MaxFlows] /\ \A w \in Panes : panes'[w] = IF w \in C THEN 0 ELSE panes[w]
  BY <1>7, <1>12, FlowNumbers
<1>19. FlowShape'
  <2>1. \A w \in Panes : panes'[w] <= flowsIn'
    <3>1. flowsIn \in Nat
      BY <1>1 DEF FlowShape
    <3> SUFFICES ASSUME NEW w \in Panes PROVE panes'[w] <= flowsIn'
      OBVIOUS
    <3>2. panes[w] \in Nat /\ panes[w] <= flowsIn
      BY <1>12
    <3>3. panes'[w] = 0 \/ panes'[w] = panes[w]
      BY <1>18
    <3> QED BY <1>2, <3>1, <3>2, <3>3
  <2>2. nextRecord \in 1..Len(aggregated') + 1
    <3>1. nextRecord \in 1..m + 1
      BY <1>1 DEF FlowShape, m
    <3> QED BY <1>8, <1>13, <1>16, <3>1
  <2> QED BY <1>1, <1>2, <1>3, <1>4, <1>16, <1>18, <2>1, <2>2 DEF FlowShape, Panes, Aggregate, Judgement
<1>20. Behind'
  BY <1>2, <1>3, <1>4 DEF Behind
<1>21. FlowsAddUp'
  <2> SUFFICES ASSUME replays' = 0
               PROVE  flowsIn' = flowsLate' + SumOf(panes') + SumOf(FlowsOf(aggregated'))
    BY DEF FlowsAddUp, FlowsOf, SumOf
  <2>1. flowsIn = flowsLate + SumOf(panes) + SumOf(FlowsOf(aggregated))
    BY <1>1, <1>2 DEF FlowsAddUp
  <2> DEFINE a == FlowsOf(aggregated)
             b == FlowsOf(aggregated')
  <2>2. \A i \in 1..m : a[i] = aggregated[i].flows
    BY <1>13 DEF FlowsOf
  <2>3. \A i \in 1..m + n : b[i] = aggregated'[i].flows
    BY <1>17 DEF FlowsOf
  <2>4. a \in [1..m -> 0..MaxFlows]
    BY <1>13 DEF FlowsOf, Aggregate
  <2>5. b \in [1..m + n -> 0..MaxFlows]
    <3>1. \A i \in 1..m + n : aggregated'[i] \in Aggregate
      BY <1>16, SeqShape
    <3> QED BY <1>17, <3>1 DEF FlowsOf, Aggregate
  <2> HIDE DEF a, b
  <2>6. (\A k \in 1..m : b[k] = a[k]) /\ (\A k \in 1..n : b[m + k] = panes[order[k]])
    <3>1. ASSUME NEW k \in 1..m PROVE b[k] = a[k]
      BY <1>17, <2>2, <2>3
    <3>2. ASSUME NEW k \in 1..n PROVE b[m + k] = panes[order[k]]
      <4>1. m + k \in 1..m + n /\ aggregated'[m + k] = [window |-> order[k], flows |-> panes[order[k]]]
        BY <1>17
      <4>2. b[m + k] = aggregated'[m + k].flows
        BY <2>3, <4>1
      <4> QED BY <4>1, <4>2
    <3> QED BY <3>1, <3>2
  <2>7. SumOf(panes') + SumOf(b) = SumOf(panes) + SumOf(a)
    <3>1. m \in Nat /\ n \in Nat /\ MaxFlows \in Nat /\ IsFiniteSet(Panes) /\ C \in SUBSET Panes
      BY <1>5, <1>8, <1>13, PanesAre, FlowNumbers
    <3>2. panes \in [Panes -> 0..MaxFlows] /\ panes' \in [Panes -> 0..MaxFlows]
          /\ \A w \in Panes : panes'[w] = IF w \in C THEN 0 ELSE panes[w]
      BY <1>12, <1>18
    <3>3. order \in [1..n -> C]
      BY <1>6 DEF n
    <3>4. Moves(m, n, MaxFlows, Panes, C, order, panes, panes', a, b)
      BY <1>11, <2>4, <2>5, <2>6, <3>1, <3>2, <3>3 DEF Moves
    <3> QED BY <3>4, SumOfMoved
  <2>8. SumOf(panes) \in Nat /\ SumOf(a) \in Nat
    BY <1>1, FlowSums DEF a
  <2>9. SumOf(panes') \in Nat /\ SumOf(b) \in Nat
    <3>1. panes' \in [Panes -> 0..MaxFlows] /\ IsFiniteSet(Panes) /\ MaxFlows \in Nat
      BY <1>18, PanesAre, FlowNumbers
    <3>2. IsFiniteSet(1..m + n)
      <4>1. 1 \in Int /\ m + n \in Int
        BY <1>8, <1>13
      <4> QED BY <4>1, FS_Interval
    <3>3. SumOf(panes') \in Nat
      BY <3>1, PairsFinite
    <3> QED BY <2>5, <3>1, <3>2, <3>3, PairsFinite
  <2>10. flowsLate \in Nat /\ flowsIn \in Nat
    BY <1>1 DEF FlowShape
  <2>11. flowsIn = flowsLate + SumOf(panes') + SumOf(b)
    <3>1. flowsIn = flowsLate + SumOf(panes) + SumOf(a)
      BY <2>1 DEF a
    <3>2. \A all, late, p, q, r, s \in Nat : all = late + p + q /\ r + s = p + q => all = late + r + s
      OBVIOUS
    <3> QED BY <2>7, <2>8, <2>9, <2>10, <3>1, <3>2
  <2> QED BY <1>2, <2>11 DEF b
<1>22. PassedEmpty'
  <2> SUFFICES ASSUME NEW w \in Panes, watermark' >= End(w) - 1 PROVE panes'[w] = 0
    BY DEF PassedEmpty, Panes, End
  <2>1. CASE watermark >= End(w) - 1
    BY <1>1, <1>18, <2>1 DEF PassedEmpty
  <2>2. CASE ~(watermark >= End(w) - 1)
    <3>1. End(w) \in Int
      BY PanesAre
    <3>2. panes[w] > 0 => w \in C
      BY <1>3, <1>4, <1>5, <2>2, <3>1
    <3> QED BY <1>12, <1>18, <3>2
  <2> QED BY <2>1, <2>2
<1>23. Ascending'
  <2> SUFFICES ASSUME replays' = 0
               PROVE  /\ \A i \in 1..m + n : watermark' >= End(aggregated'[i].window) - 1
                      /\ \A i, j \in 1..m + n : i < j => aggregated'[i].window < aggregated'[j].window
    BY <1>16 DEF Ascending, End
  <2>1. /\ \A i \in 1..m : watermark >= End(aggregated[i].window) - 1
        /\ \A i, j \in 1..m : i < j => aggregated[i].window < aggregated[j].window
    BY <1>1, <1>2 DEF Ascending, m
  <2>2. \A i \in 1..m : aggregated[i].window \in Panes /\ End(aggregated[i].window) \in Int
    BY <1>13, PanesAre DEF Aggregate
  <2>3. \A i \in 1..n : order[i] \in Panes /\ End(order[i]) \in Int
                        /\ watermark < End(order[i]) - 1 /\ Time >= End(order[i]) - 1
    <3> SUFFICES ASSUME NEW i \in 1..n
                 PROVE  /\ order[i] \in Panes /\ End(order[i]) \in Int
                        /\ watermark < End(order[i]) - 1 /\ Time >= End(order[i]) - 1
      OBVIOUS
    <3>1. order[i] \in C /\ order[i] \in Panes
      BY <1>8, <1>9
    <3>2. End(order[i]) \in Int
      BY <3>1, PanesAre
    <3> QED BY <1>5, <3>1, <3>2
  <2>4. \A i \in 1..m : aggregated'[i].window = aggregated[i].window
    BY <1>17
  <2>5. \A i \in 1..n : aggregated'[m + i].window = order[i]
    <3> SUFFICES ASSUME NEW i \in 1..n PROVE aggregated'[m + i].window = order[i]
      OBVIOUS
    <3>1. aggregated'[m + i] = [window |-> order[i], flows |-> panes[order[i]]]
      BY <1>17
    <3> QED BY <3>1
  <2>6. \A i \in 1..m + n : watermark' >= End(aggregated'[i].window) - 1
    <3> SUFFICES ASSUME NEW i \in 1..m + n PROVE watermark' >= End(aggregated'[i].window) - 1
      OBVIOUS
    <3>1. CASE i \in 1..m
      BY <1>3, <1>4, <2>1, <2>2, <2>4, <3>1
    <3>2. CASE \E k \in 1..n : i = m + k
      BY <1>3, <2>3, <2>5, <3>2
    <3> QED BY <1>17, <3>1, <3>2
  <2>7. ASSUME NEW i \in 1..m, NEW k \in 1..n PROVE aggregated[i].window < order[k]
    <3>1. /\ watermark >= End(aggregated[i].window) - 1 /\ aggregated[i].window \in Panes
          /\ End(aggregated[i].window) \in Int /\ order[k] \in Panes /\ End(order[k]) \in Int
          /\ watermark < End(order[k]) - 1
      BY <2>1, <2>2, <2>3
    <3>2. End(aggregated[i].window) < End(order[k])
      BY <1>4, <3>1
    <3> QED BY <3>1, <3>2, PanesAre
  <2>8. \A i, j \in 1..m + n : i < j => aggregated'[i].window < aggregated'[j].window
    <3> SUFFICES ASSUME NEW i \in 1..m + n, NEW j \in 1..m + n, i < j
                 PROVE  aggregated'[i].window < aggregated'[j].window
      OBVIOUS
    <3>1. CASE i \in 1..m /\ j \in 1..m
      BY <2>1, <2>4, <3>1
    <3>2. CASE i \in 1..m /\ \E k \in 1..n : j = m + k
      BY <2>4, <2>5, <2>7, <3>2
    <3>3. CASE (\E k \in 1..n : i = m + k) /\ j \in 1..m
      <4>1. PICK k \in 1..n : i = m + k
        BY <3>3
      <4> QED BY <1>13, <3>3, <4>1
    <3>4. CASE (\E k \in 1..n : i = m + k) /\ \E k \in 1..n : j = m + k
      <4>1. PICK k \in 1..n : i = m + k
        BY <3>4
      <4>2. PICK l \in 1..n : j = m + l
        BY <3>4
      <4>3. k < l
        BY <1>13, <4>1, <4>2
      <4> QED BY <1>10, <2>5, <4>1, <4>2, <4>3
    <3> QED BY <1>17, <3>1, <3>2, <3>3, <3>4
  <2> QED BY <2>6, <2>8
<1>24. StormPaced'
  <2> SUFFICES ASSUME replays = 0, stormStart # Never
               PROVE  /\ nextRecord > 1 /\ stormStart <= End(aggregated'[nextRecord - 1].window)
                      /\ \/ stormCount <= 1
                         \/ stormCount <= 2 /\ End(aggregated'[nextRecord - 1].window) >= stormStart + Length
    BY <1>2 DEF StormPaced, End, Never
  <2>1. /\ nextRecord > 1 /\ stormStart <= End(aggregated[nextRecord - 1].window)
        /\ \/ stormCount <= 1
           \/ stormCount <= 2 /\ End(aggregated[nextRecord - 1].window) >= stormStart + Length
    BY <1>1 DEF StormPaced
  <2>2. nextRecord \in 1..m + 1
    BY <1>1 DEF FlowShape, m
  <2>3. nextRecord - 1 \in 1..m
    BY <1>13, <2>1, <2>2
  <2>4. aggregated'[nextRecord - 1] = aggregated[nextRecord - 1]
    BY <1>17, <2>3
  <2> QED BY <2>1, <2>4
<1>25. HistoryIsBefore' /\ PromptFlowsCount' /\ JudgedByOthers' /\ OnlyReplaysSuppressed'
  <2>1. HistoryIsBefore'
    BY <1>1, <1>2 DEF HistoryIsBefore, Before, SumOf
  <2>2. JudgedByOthers' /\ OnlyReplaysSuppressed'
    BY <1>1, <1>2 DEF JudgedByOthers, OnlyReplaysSuppressed, Before, SumOf, Surge, Deviant
  <2> QED BY <1>1, <1>2, <2>1, <2>2 DEF PromptFlowsCount
<1> QED BY <1>19, <1>20, <1>21, <1>22, <1>23, <1>24, <1>25 DEF FlowInv

\* The sums before a number do not depend on what comes behind it.
LEMMA BeforeOneMore ==
    ASSUME NEW s \in Seq(Judgement), NEW v \in Judgement, verdicts = s, verdicts' = Append(s, v)
    PROVE  /\ \A i \in 1..Len(s) + 1 : Before(i)' = Before(i)
           /\ Before(Len(s) + 2)' = With(Before(Len(s) + 1), v.flows)
<1> DEFINE m == Len(s)
           q == Append(s, v)
<1>1. m \in Nat /\ \A i \in 1..m : s[i] \in Judgement
  BY SeqShape
<1>2. /\ q \in Seq(Judgement) /\ Len(q) = m + 1 /\ q[m + 1] = v
      /\ \A i \in 1..m : q[i] = s[i]
  BY <1>1, AppendProperties
<1> HIDE DEF m, q
<1>3. verdicts' = q
  BY DEF q
<1>4. \A i \in 1..m + 1 : Before(i)' = Before(i)
  <2> SUFFICES ASSUME NEW i \in 1..m + 1 PROVE Before(i)' = Before(i)
    OBVIOUS
  <2>1. \A j \in 1..i - 1 : q[j] = s[j]
    BY <1>1, <1>2
  <2>2. /\ [j \in 1..i - 1 |-> q[j].flows] = [j \in 1..i - 1 |-> s[j].flows]
        /\ [j \in 1..i - 1 |-> q[j].flows * q[j].flows] = [j \in 1..i - 1 |-> s[j].flows * s[j].flows]
    BY <2>1
  <2>3. /\ SumOf([j \in 1..i - 1 |-> q[j].flows]) = SumOf([j \in 1..i - 1 |-> s[j].flows])
        /\ SumOf([j \in 1..i - 1 |-> q[j].flows * q[j].flows])
           = SumOf([j \in 1..i - 1 |-> s[j].flows * s[j].flows])
    BY <2>2
  <2>4. /\ SumOf([j \in 1..i - 1 |-> verdicts[j].flows])' = SumOf([j \in 1..i - 1 |-> verdicts[j].flows])
        /\ SumOf([j \in 1..i - 1 |-> verdicts[j].flows * verdicts[j].flows])'
           = SumOf([j \in 1..i - 1 |-> verdicts[j].flows * verdicts[j].flows])
    BY <1>3, <2>3 DEF SumOf
  <2> QED BY <2>4 DEF Before
<1>5. Before(m + 2)' = With(Before(m + 1), v.flows)
  <2> DEFINE f == [j \in 1..m + 1 |-> q[j].flows]
             g == [j \in 1..m |-> s[j].flows]
             ff == [j \in 1..m + 1 |-> q[j].flows * q[j].flows]
             gg == [j \in 1..m |-> s[j].flows * s[j].flows]
             top == MaxFlows * MaxFlows
  <2>1. top \in Nat /\ \A x \in 0..MaxFlows : x * x \in 0..top
    <3> SUFFICES ASSUME NEW x \in 0..MaxFlows PROVE x * x \in 0..top
      BY FlowNumbers
    <3>1. x * x >= 0 /\ x * x <= MaxFlows * MaxFlows /\ x * x \in Int
      BY FlowNumbers
    <3> QED BY <3>1, FlowNumbers
  <2>2. \A j \in 1..m + 1 : q[j].flows \in 0..MaxFlows
    <3>1. \A j \in 1..m + 1 : q[j] \in Judgement
      BY <1>2, SeqShape
    <3> QED BY <3>1 DEF Judgement
  <2>3. \A j \in 1..m : s[j].flows \in 0..MaxFlows
    BY <1>1 DEF Judgement
  <2> HIDE DEF top
  <2>4. f \in [1..m + 1 -> 0..MaxFlows] /\ g \in [1..m -> 0..MaxFlows] /\ f[m + 1] = v.flows
        /\ \A k \in 1..m : f[k] = g[k]
    BY <1>1, <1>2, <2>2, <2>3
  <2>5. ff \in [1..m + 1 -> 0..top] /\ gg \in [1..m -> 0..top] /\ ff[m + 1] = v.flows * v.flows
        /\ \A k \in 1..m : ff[k] = gg[k]
    BY <1>1, <1>2, <2>1, <2>2, <2>3
  <2> HIDE DEF f, g, ff, gg
  <2>6. SumOf(f) = SumOf(g) + v.flows
    <3>1. MaxFlows \in Nat
      BY FlowNumbers
    <3>2. SumOf(f) = SumOf(g) + f[m + 1]
      BY <1>1, <2>4, <3>1, SumOfLonger
    <3> QED BY <2>4, <3>2
  <2>7. SumOf(ff) = SumOf(gg) + v.flows * v.flows
    BY <1>1, <2>1, <2>5, SumOfLonger
  <2>8. Before(m + 1) = [n |-> m, sum |-> SumOf(g), squares |-> SumOf(gg)]
    <3> DEFINE k == m + 1
    <3>1. k - 1 = m
      BY <1>1
    <3> HIDE DEF k
    <3>2. /\ [j \in 1..k - 1 |-> verdicts[j].flows] = g
          /\ [j \in 1..k - 1 |-> verdicts[j].flows * verdicts[j].flows] = gg
      BY <3>1 DEF g, gg
    <3>3. Before(k) = [n |-> m, sum |-> SumOf(g), squares |-> SumOf(gg)]
      BY <3>1, <3>2 DEF Before
    <3> QED BY <3>3 DEF k
  <2>9. Before(m + 2)' = [n |-> m + 1, sum |-> SumOf(f), squares |-> SumOf(ff)]
    <3>1. m + 2 - 1 = m + 1
      BY <1>1
    <3>2. m = Len(s)
      BY DEF m
    <3> QED BY <1>3, <3>1, <3>2 DEF Before, f, ff, SumOf
  <2> QED BY <2>6, <2>7, <2>8, <2>9 DEF With
<1> QED BY <1>4, <1>5 DEF m

\* The next record is judged by the sums so far, and a storm never runs out of room.
LEMMA JudgeKeeps ==
    ASSUME FlowInv, NEW scan \in BOOLEAN, Judge(scan)
    PROVE  FlowInv'
<1>1. /\ FlowShape /\ Behind /\ FlowsAddUp /\ PassedEmpty /\ Ascending /\ HistoryIsBefore /\ StormPaced
      /\ PromptFlowsCount /\ JudgedByOthers /\ OnlyReplaysSuppressed
  BY DEF FlowInv
<1> DEFINE x == aggregated[nextRecord].flows
           w == aggregated[nextRecord].window
           now == End(w)
           surge == Surge(history, x)
           reason == surge \/ scan
           told == reason /\ Room(now)
           v == [flows |-> x, surge |-> surge, reason |-> reason, told |-> told]
<1>2. /\ latest' = latest /\ watermark' = watermark /\ panes' = panes /\ flowsIn' = flowsIn
      /\ flowsLate' = flowsLate /\ promptLost' = promptLost /\ aggregated' = aggregated
      /\ replays' = replays
  BY DEF Judge, aggregationVars
<1>3. nextRecord <= Len(aggregated) /\ nextRecord' = nextRecord + 1
  BY DEF Judge
<1>4. history' = With(history, x) /\ verdicts' = Append(verdicts, v)
  BY DEF Judge, Judged
<1>5. /\ stormStart' = IF reason /\ Restarting(now) THEN now ELSE stormStart
      /\ stormCount' = (IF reason /\ Restarting(now) THEN 0 ELSE stormCount)
                       + (IF reason /\ Room(now) THEN 1 ELSE 0)
  BY DEF Judge, Judged
<1>6. /\ Len(aggregated) \in Nat /\ DOMAIN aggregated = 1..Len(aggregated)
      /\ \A i \in 1..Len(aggregated) : aggregated[i] \in Aggregate
  BY <1>1, SeqShape DEF FlowShape
<1>0. PICK m \in Nat : m = Len(verdicts)
  <2>1. Len(verdicts) \in Nat
    BY <1>1, SeqShape DEF FlowShape
  <2> QED BY <2>1
<1>7. nextRecord \in 1..Len(aggregated) /\ m = nextRecord - 1 /\ nextRecord \in Int
  BY <1>0, <1>1, <1>3, <1>6 DEF FlowShape
<1>8. x \in 0..MaxFlows /\ w \in Panes
  BY <1>6, <1>7 DEF Aggregate
<1>9. now \in Nat /\ now > 0
  BY <1>8, PanesAre
<1>10. surge \in BOOLEAN /\ reason \in BOOLEAN /\ told \in BOOLEAN
  <2>1. surge \in BOOLEAN
    <3>1. Deviant(history, x) \in BOOLEAN
      BY DEF Deviant
    <3>2. (x >= FloodLimit) \in BOOLEAN
      OBVIOUS
    <3> HIDE DEF x
    <3>3. surge = IF history.n >= ColdWindows THEN Deviant(history, x) ELSE x >= FloodLimit
      BY DEF Surge
    <3> HIDE DEF surge
    <3>4. CASE history.n >= ColdWindows
      BY <3>1, <3>3, <3>4, Zenon
    <3>5. CASE ~(history.n >= ColdWindows)
      BY <3>2, <3>3, <3>5, Zenon
    <3> QED BY <3>4, <3>5
  <2> HIDE DEF surge
  <2> QED BY <2>1
<1>11. v \in Judgement
  <2> HIDE DEF x, surge, reason, told
  <2> QED BY <1>8, <1>10 DEF Judgement
<1> HIDE DEF v
<1>12. /\ verdicts \in Seq(Judgement) /\ m \in Nat /\ verdicts' \in Seq(Judgement) /\ Len(verdicts') = m + 1
       /\ verdicts'[m + 1] = v /\ (\A i \in 1..m : verdicts'[i] = verdicts[i])
       /\ DOMAIN verdicts = 1..m /\ DOMAIN verdicts' = 1..m + 1
  <2>1. verdicts \in Seq(Judgement)
    BY <1>1 DEF FlowShape
  <2>2. m \in Nat /\ DOMAIN verdicts = 1..m
    BY <1>0, <2>1, SeqShape
  <2>3. /\ Append(verdicts, v) \in Seq(Judgement) /\ Len(Append(verdicts, v)) = m + 1
        /\ Append(verdicts, v)[m + 1] = v /\ \A i \in 1..m : Append(verdicts, v)[i] = verdicts[i]
    BY <1>0, <1>11, <2>1, AppendProperties
  <2>4. DOMAIN verdicts' = 1..m + 1
    BY <1>4, <2>3, SeqShape
  <2> QED BY <1>4, <2>1, <2>2, <2>3, <2>4
<1>13. v.flows = x /\ v.surge = surge /\ v.reason = reason /\ v.told = told
  BY DEF v
<1>14. /\ \A i \in 1..m + 1 : Before(i)' = Before(i)
       /\ Before(m + 2)' = With(Before(m + 1), x)
  <2>1. PICK s \in Seq(Judgement), y \in Judgement : s = verdicts /\ y = v
    BY <1>11, <1>12
  <2>2. verdicts = s /\ verdicts' = Append(s, y) /\ Len(s) = m /\ y.flows = x
    BY <1>0, <1>4, <1>13, <2>1
  <2>3. /\ \A i \in 1..Len(s) + 1 : Before(i)' = Before(i)
        /\ Before(Len(s) + 2)' = With(Before(Len(s) + 1), y.flows)
    BY <2>2, BeforeOneMore
  <2> QED BY <2>2, <2>3
<1> HIDE DEF x, w, now, surge, reason, told
<1>15. HistoryIsBefore'
  <2>1. history = Before(m + 1)
    BY <1>0, <1>1 DEF HistoryIsBefore
  <2>2. history' = Before(m + 2)'
    BY <1>4, <1>14, <2>1
  <2>3. Len(verdicts') + 1 = m + 2
    BY <1>0, <1>12
  <2>4. Before(Len(verdicts) + 1)' = Before(m + 2)'
    BY <2>3 DEF Before, SumOf
  <2> QED BY <2>2, <2>4 DEF HistoryIsBefore
<1>16. JudgedByOthers'
  <2> SUFFICES ASSUME NEW i \in 1..m + 1
               PROVE  verdicts'[i].surge = Surge(Before(i)', verdicts'[i].flows)
    BY <1>12 DEF JudgedByOthers, Surge, Deviant, Before, SumOf
  <2>1. Before(i)' = Before(i)
    BY <1>14
  <2>2. CASE i \in 1..m
    <3>1. verdicts[i].surge = Surge(Before(i), verdicts[i].flows)
      BY <1>1, <1>12, <2>2 DEF JudgedByOthers
    <3> QED BY <1>12, <2>1, <2>2, <3>1
  <2>3. CASE i = m + 1
    <3>1. history = Before(m + 1)
      BY <1>0, <1>1 DEF HistoryIsBefore
    <3> QED BY <1>12, <1>13, <2>1, <2>3, <3>1 DEF surge
  <2> QED BY <1>12, <2>2, <2>3
<1>17. /\ stormStart \in Int /\ stormCount \in Nat /\ stormCount <= AlertsPerWindow
       /\ AlertsPerWindow \in Nat /\ AlertsPerWindow > 1 /\ Length \in Nat /\ Length > 0
  BY <1>1, FlowNumbers DEF FlowShape
<1>18. FlowShape'
  <2>1. stormStart' \in Int /\ stormCount' \in 0..AlertsPerWindow
    <3>1. stormStart' \in Int
      BY <1>5, <1>9, <1>17
    <3>2. CASE ~reason
      BY <1>5, <1>17, <3>2
    <3>3. CASE reason /\ Restarting(now)
      <4>1. Room(now)
        BY <3>3 DEF Room
      <4>2. stormCount' = 0 + 1
        BY <1>5, <3>3, <4>1
      <4> QED BY <1>17, <3>1, <4>2
    <3>4. CASE reason /\ ~Restarting(now) /\ Room(now)
      <4>1. stormCount < AlertsPerWindow /\ stormCount' = stormCount + 1
        BY <1>5, <3>4 DEF Room
      <4> QED BY <1>17, <3>1, <4>1
    <3>5. CASE reason /\ ~Room(now)
      <4>1. stormCount' = stormCount + 0
        BY <1>5, <3>5 DEF Room
      <4> QED BY <1>17, <3>1, <4>1
    <3> QED BY <3>1, <3>2, <3>3, <3>4, <3>5
  <2>2. nextRecord' \in 1..Len(aggregated') + 1 /\ Len(verdicts') = nextRecord' - 1
    BY <1>2, <1>3, <1>6, <1>7, <1>12
  <2> QED BY <1>1, <1>2, <1>12, <2>1, <2>2 DEF FlowShape, Panes, Aggregate, Judgement
<1>19. /\ replays = 0 => Room(now)
       /\ StormPaced'
  <2> SUFFICES ASSUME replays = 0
               PROVE  /\ Room(now)
                      /\ stormStart' # Never =>
                            /\ nextRecord' > 1 /\ stormStart' <= End(aggregated'[nextRecord' - 1].window)
                            /\ \/ stormCount' <= 1
                               \/ stormCount' <= 2
                                  /\ End(aggregated'[nextRecord' - 1].window) >= stormStart' + Length
    BY <1>2 DEF StormPaced, End, Never
  <2>1. nextRecord' > 1 /\ nextRecord' - 1 = nextRecord /\ End(aggregated'[nextRecord' - 1].window) = now
    <3>1. nextRecord' > 1 /\ nextRecord' - 1 = nextRecord
      BY <1>3, <1>7
    <3> QED BY <1>2, <3>1 DEF now, w
  <2>2. ASSUME stormStart # Never
        PROVE  \E e \in Int : /\ stormStart <= e /\ now >= e + Length
                              /\ stormCount <= 1 \/ (stormCount <= 2 /\ e >= stormStart + Length)
    <3> DEFINE u == aggregated[nextRecord - 1].window
    <3>1. /\ nextRecord > 1 /\ stormStart <= End(u)
          /\ stormCount <= 1 \/ (stormCount <= 2 /\ End(u) >= stormStart + Length)
      BY <1>1, <2>2 DEF StormPaced
    <3>2. nextRecord - 1 \in 1..Len(aggregated) /\ nextRecord - 1 < nextRecord
      BY <1>6, <1>7, <3>1
    <3>3. u \in Panes /\ u < w
      <4>1. aggregated[nextRecord - 1] \in Aggregate
        BY <1>6, <3>2
      <4>2. aggregated[nextRecord - 1].window < aggregated[nextRecord].window
        BY <1>1, <1>7, <3>2 DEF Ascending
      <4> QED BY <4>1, <4>2 DEF Aggregate, w
    <3> HIDE DEF u
    <3>4. End(u) + Length <= now /\ End(u) \in Int
      BY <1>8, <3>3, PanesAre DEF now
    <3>5. now >= End(u) + Length
      BY <1>9, <1>17, <3>4
    <3> QED BY <3>1, <3>4, <3>5
  <2>3. Restarting(now) <=> stormStart = Never \/ now - stormStart > Length
    BY DEF Restarting
  <2>4. ~Restarting(now) => stormCount <= 1 /\ now >= stormStart + Length /\ stormStart <= now
    <3> SUFFICES ASSUME ~Restarting(now)
                 PROVE  stormCount <= 1 /\ now >= stormStart + Length /\ stormStart <= now
      OBVIOUS
    <3>1. stormStart # Never /\ ~(now - stormStart > Length)
      BY <2>3
    <3>2. PICK e \in Int : /\ stormStart <= e /\ now >= e + Length
                           /\ stormCount <= 1 \/ (stormCount <= 2 /\ e >= stormStart + Length)
      BY <2>2, <3>1
    <3> QED BY <1>9, <1>17, <3>1, <3>2
  <2>5. Room(now)
    <3>1. CASE Restarting(now)
      BY <3>1 DEF Room
    <3>2. CASE ~Restarting(now)
      BY <1>17, <2>4, <3>2 DEF Room
    <3> QED BY <3>1, <3>2
  <2>6. stormStart' # Never =>
            stormStart' <= now /\ (stormCount' <= 1 \/ (stormCount' <= 2 /\ now >= stormStart' + Length))
    <3>1. CASE reason /\ Restarting(now)
      <4>1. stormStart' = now /\ stormCount' = 0 + 1
        BY <1>5, <2>5, <3>1
      <4> QED BY <1>9, <4>1
    <3>2. CASE reason /\ ~Restarting(now)
      <4>1. stormStart' = stormStart /\ stormCount' = stormCount + 1
        BY <1>5, <2>5, <3>2
      <4> QED BY <1>17, <2>4, <3>2, <4>1
    <3>3. CASE ~reason
      <4>1. stormStart' = stormStart /\ stormCount' = stormCount + 0
        BY <1>5, <3>3
      <4>2. stormCount' = stormCount
        BY <1>17, <4>1
      <4> SUFFICES ASSUME stormStart # Never
                   PROVE  stormStart <= now /\ (stormCount <= 1 \/ (stormCount <= 2 /\ now >= stormStart + Length))
        BY <4>1, <4>2
      <4>3. PICK e \in Int : /\ stormStart <= e /\ now >= e + Length
                             /\ stormCount <= 1 \/ (stormCount <= 2 /\ e >= stormStart + Length)
        BY <2>2
      <4> QED BY <1>9, <1>17, <4>3
    <3> QED BY <3>1, <3>2, <3>3
  <2> QED BY <2>1, <2>5, <2>6
<1>20. OnlyReplaysSuppressed'
  <2> SUFFICES ASSUME replays = 0, NEW i \in 1..m + 1, verdicts'[i].reason PROVE verdicts'[i].told
    BY <1>2, <1>12 DEF OnlyReplaysSuppressed
  <2>1. CASE i \in 1..m
    <3>1. verdicts[i].reason => verdicts[i].told
      BY <1>1, <1>12, <2>1 DEF OnlyReplaysSuppressed
    <3> QED BY <1>12, <2>1, <3>1
  <2>2. CASE i = m + 1
    <3>1. reason
      BY <1>12, <1>13, <2>2
    <3>2. told
      BY <1>19, <3>1 DEF told
    <3> QED BY <1>12, <1>13, <2>2, <3>2
  <2> QED BY <1>12, <2>1, <2>2
<1>21. Behind' /\ FlowsAddUp' /\ PassedEmpty' /\ Ascending' /\ PromptFlowsCount'
  <2>1. Behind' /\ PassedEmpty' /\ Ascending' /\ PromptFlowsCount'
    BY <1>1, <1>2 DEF Behind, PassedEmpty, Ascending, PromptFlowsCount, End, Panes
  <2>2. FlowsAddUp'
    BY <1>1, <1>2 DEF FlowsAddUp, FlowsOf, SumOf
  <2> QED BY <2>1, <2>2
<1> QED BY <1>15, <1>16, <1>18, <1>19, <1>20, <1>21 DEF FlowInv

\* A replay touches the topic alone.
LEMMA ReplayKeeps == FlowInv /\ Replay => FlowInv'
<1> SUFFICES ASSUME FlowInv, Replay PROVE FlowInv'
  OBVIOUS
<1>1. /\ FlowShape /\ Behind /\ FlowsAddUp /\ PassedEmpty /\ Ascending /\ HistoryIsBefore /\ StormPaced
      /\ PromptFlowsCount /\ JudgedByOthers /\ OnlyReplaysSuppressed
  BY DEF FlowInv
<1>2. /\ latest' = latest /\ watermark' = watermark /\ panes' = panes /\ flowsIn' = flowsIn
      /\ flowsLate' = flowsLate /\ promptLost' = promptLost /\ nextRecord' = nextRecord
      /\ history' = history /\ stormStart' = stormStart /\ stormCount' = stormCount
      /\ verdicts' = verdicts
  BY DEF Replay, aggregationVars
<1>3. replays < MaxReplays /\ replays' = replays + 1 /\ aggregated # << >>
      /\ aggregated' = Append(aggregated, Last(aggregated))
  BY DEF Replay
<1>4. replays \in Nat /\ replays' \in 0..MaxReplays /\ replays' # 0
  BY <1>1, <1>3, FlowNumbers DEF FlowShape
<1>5. aggregated \in Seq(Aggregate) /\ Len(aggregated) \in Nat
      /\ \A i \in 1..Len(aggregated) : aggregated[i] \in Aggregate
  BY <1>1, SeqShape DEF FlowShape
<1>6. Last(aggregated) \in Aggregate
  <2>1. Len(aggregated) # 0
    BY <1>3, <1>5, EmptySeq
  <2>2. Len(aggregated) \in 1..Len(aggregated)
    BY <1>5, <2>1
  <2> QED BY <1>5, <2>2 DEF Last
<1>7. aggregated' \in Seq(Aggregate) /\ Len(aggregated') = Len(aggregated) + 1
  BY <1>3, <1>5, <1>6, AppendProperties
<1>8. FlowShape'
  <2>1. nextRecord \in 1..Len(aggregated') + 1
    <3>1. nextRecord \in 1..Len(aggregated) + 1
      BY <1>1 DEF FlowShape
    <3> QED BY <1>5, <1>7, <3>1
  <2> QED BY <1>1, <1>2, <1>4, <1>7, <2>1 DEF FlowShape, Panes, Aggregate, Judgement
<1>9. FlowsAddUp' /\ Ascending' /\ StormPaced' /\ OnlyReplaysSuppressed'
  BY <1>4 DEF FlowsAddUp, Ascending, StormPaced, OnlyReplaysSuppressed
<1>10. Behind' /\ PassedEmpty' /\ PromptFlowsCount'
  BY <1>1, <1>2 DEF Behind, PassedEmpty, PromptFlowsCount, End, Panes
<1>11. HistoryIsBefore' /\ JudgedByOthers'
  <2>1. HistoryIsBefore'
    BY <1>1, <1>2 DEF HistoryIsBefore, Before, SumOf
  <2>2. JudgedByOthers'
    BY <1>1, <1>2 DEF JudgedByOthers, Before, SumOf, Surge, Deviant
  <2> QED BY <2>1, <2>2
<1> QED BY <1>8, <1>9, <1>10, <1>11 DEF FlowInv

LEMMA FlowStutterKeeps == FlowInv /\ UNCHANGED flowVars => FlowInv'
<1> SUFFICES ASSUME FlowInv, UNCHANGED flowVars PROVE FlowInv'
  OBVIOUS
<1>1. /\ FlowShape /\ Behind /\ FlowsAddUp /\ PassedEmpty /\ Ascending /\ HistoryIsBefore /\ StormPaced
      /\ PromptFlowsCount /\ JudgedByOthers /\ OnlyReplaysSuppressed
  BY DEF FlowInv
<1>2. /\ latest' = latest /\ watermark' = watermark /\ panes' = panes /\ flowsIn' = flowsIn
      /\ flowsLate' = flowsLate /\ promptLost' = promptLost /\ nextRecord' = nextRecord
      /\ history' = history /\ stormStart' = stormStart /\ stormCount' = stormCount
      /\ verdicts' = verdicts /\ replays' = replays /\ aggregated' = aggregated
  BY DEF flowVars
<1>3. FlowShape'
  BY <1>1, <1>2 DEF FlowShape, Panes, Aggregate, Judgement
<1>4. Behind' /\ PassedEmpty' /\ PromptFlowsCount' /\ Ascending' /\ StormPaced'
  BY <1>1, <1>2 DEF Behind, PassedEmpty, PromptFlowsCount, Ascending, StormPaced, End, Panes
<1>5. FlowsAddUp'
  BY <1>1, <1>2 DEF FlowsAddUp, FlowsOf, SumOf
<1>6. HistoryIsBefore' /\ JudgedByOthers' /\ OnlyReplaysSuppressed'
  <2>1. HistoryIsBefore'
    BY <1>1, <1>2 DEF HistoryIsBefore, Before, SumOf
  <2>2. JudgedByOthers'
    BY <1>1, <1>2 DEF JudgedByOthers, Before, SumOf, Surge, Deviant
  <2>3. OnlyReplaysSuppressed'
    BY <1>1, <1>2 DEF OnlyReplaysSuppressed
  <2> QED BY <2>1, <2>2, <2>3
<1> QED BY <1>3, <1>4, <1>5, <1>6 DEF FlowInv

\* Every flow is counted in one window or dropped as late, no prompt flow is dropped, each
\* window is judged by those before it alone, and no alert is suppressed but for replays.
THEOREM FlowsAreSound == FlowSpec => []FlowsSound
<1>1. FlowInit => FlowInv
  BY FlowInvInit
<1>2. FlowInv /\ [FlowNext]_flowVars => FlowInv'
  BY FlowKeeps, WatermarkKeeps, JudgeKeeps, ReplayKeeps, FlowStutterKeeps DEF FlowNext
<1>3. FlowInv => FlowsSound
  BY FlowInvSound
<1> QED BY <1>1, <1>2, <1>3, PTL DEF FlowSpec

-----------------------------------------------------------------------------
(* Fingerprints of TLS clients *)

TlsTypes ==
    /\ patterns \in Seq(Messages) /\ applied \in [Subtasks -> 0..Len(patterns)]
    /\ maliciousJa3Set \in [Subtasks -> SUBSET Hashes] /\ stored \in [Subtasks -> SUBSET Hashes]
    /\ barrier \in {NoBarrier} \cup 0..Len(patterns)
    /\ DOMAIN saved \subseteq Subtasks /\ \A s \in DOMAIN saved : saved[s] \in SUBSET Hashes
    /\ checkpoint.at \in 0..Len(patterns) /\ checkpoint.stored \in [Subtasks -> SUBSET Hashes]
    /\ tlsRestarts \in 0..MaxTlsRestarts

\* The barrier lies behind what a subtask has read if and only if it has saved.
BarrierPlace ==
    /\ \A s \in Subtasks : checkpoint.at <= applied[s]
    /\ barrier = NoBarrier => DOMAIN saved = {}
    /\ barrier # NoBarrier =>
        /\ \A s \in DOMAIN saved : barrier <= applied[s]
        /\ \A s \in Subtasks \ DOMAIN saved : applied[s] <= barrier

\* Until the job goes down for the first time, field, copy and what is saved of it say
\* what the last update said.
CopiesAreTrue ==
    tlsRestarts = 0 =>
        /\ \A s \in Subtasks : /\ maliciousJa3Set[s] = LastUpdate(applied[s])
                               /\ stored[s] = LastUpdate(applied[s])
        /\ \A s \in DOMAIN saved : saved[s] = LastUpdate(barrier)

TlsInv == TlsTypes /\ BarrierPlace /\ MatchesLastUpdate /\ CopiesAreTrue /\ CheckpointIsTrue
-----------------------------------------------------------------------------
LEMMA NextUpdate ==
    ASSUME patterns \in Seq(Messages), NEW n \in Nat, n < Len(patterns)
    PROVE  LastUpdate(n + 1) = Taken(patterns[n + 1], LastUpdate(n))
<1>1. CASE IsUpdate(patterns[n + 1])
  <2>1. n + 1 \in Updates(1, n + 1) /\ \A x \in Updates(1, n + 1) : x \in Int /\ x <= n + 1
    BY <1>1 DEF Updates
  <2>2. Max(Updates(1, n + 1)) = n + 1
    BY <2>1 DEF Max
  <2> QED BY <1>1, <2>1, <2>2 DEF LastUpdate, Taken
<1>2. CASE ~IsUpdate(patterns[n + 1])
  <2>1. Updates(1, n + 1) = Updates(1, n)
    BY <1>2 DEF Updates
  <2> QED BY <1>2, <2>1 DEF LastUpdate, Taken
<1> QED BY <1>1, <1>2

LEMMA UpdatesStay ==
    ASSUME TlsTypes, NEW m \in Messages, Publish(m)
    PROVE  /\ patterns' \in Seq(Messages) /\ Len(patterns') = Len(patterns) + 1 /\ Len(patterns) \in Nat
           /\ \A from \in Nat \ {0}, to \in 0..Len(patterns) : Updates(from, to)' = Updates(from, to)
           /\ \A to \in 0..Len(patterns) : LastUpdate(to)' = LastUpdate(to)
<1>1. /\ patterns \in Seq(Messages) /\ Len(patterns) \in Nat
      /\ patterns' \in Seq(Messages) /\ Len(patterns') = Len(patterns) + 1
      /\ \A i \in 1..Len(patterns) : patterns'[i] = patterns[i]
  BY SeqShape, AppendProperties DEF TlsTypes, Publish
<1>2. ASSUME NEW from \in Nat \ {0}, NEW to \in 0..Len(patterns) PROVE Updates(from, to)' = Updates(from, to)
  <2>1. \A i \in from..to : i \in 1..Len(patterns)
    BY <1>1
  <2>2. \A i \in from..to : patterns'[i] = patterns[i]
    BY <1>1, <2>1
  <2> QED BY <2>2 DEF Updates
<1>3. ASSUME NEW to \in 0..Len(patterns) PROVE LastUpdate(to)' = LastUpdate(to)
  <2>1. Updates(1, to)' = Updates(1, to)
    BY <1>2
  <2>2. CASE Updates(1, to) = {}
    BY <2>1, <2>2 DEF LastUpdate
  <2>3. CASE Updates(1, to) # {}
    <3> DEFINE k == Max(Updates(1, to))
    <3>1. k \in 1..to
      <4>1. Updates(1, to) \in SUBSET (1..to) /\ to \in Nat
        BY <1>1 DEF Updates
      <4>2. Max(Updates(1, to)) \in Updates(1, to)
        BY <2>3, <4>1, LastOf
      <4> QED BY <4>1, <4>2
    <3>2. patterns'[k] = patterns[k]
      <4> HIDE DEF k
      <4> QED BY <1>1, <3>1
    <3> QED BY <2>1, <2>3, <3>2 DEF LastUpdate
  <2> QED BY <2>2, <2>3
<1> QED BY <1>1, <1>2, <1>3

LEMMA PublishKeeps ==
    ASSUME TlsInv, NEW m \in Messages, Publish(m)
    PROVE  TlsInv'
<1>1. TlsTypes /\ BarrierPlace /\ MatchesLastUpdate /\ CopiesAreTrue /\ CheckpointIsTrue
  BY DEF TlsInv
<1>2. UNCHANGED <<applied, maliciousJa3Set, stored, barrier, saved, checkpoint, tlsRestarts>>
  BY DEF Publish
<1>3. /\ patterns' \in Seq(Messages) /\ Len(patterns') = Len(patterns) + 1 /\ Len(patterns) \in Nat
      /\ \A from \in Nat \ {0}, to \in 0..Len(patterns) : Updates(from, to)' = Updates(from, to)
      /\ \A to \in 0..Len(patterns) : LastUpdate(to)' = LastUpdate(to)
  BY <1>1, UpdatesStay
<1>4. /\ \A s \in Subtasks : applied[s] \in 0..Len(patterns)
      /\ checkpoint.at \in 0..Len(patterns) /\ (barrier # NoBarrier => barrier \in 0..Len(patterns))
      /\ \A n \in 0..Len(patterns) : n \in 0..Len(patterns')
  BY <1>1, <1>3 DEF TlsTypes
<1>5. TlsTypes'
  BY <1>1, <1>2, <1>3, <1>4 DEF TlsTypes
<1>6. BarrierPlace'
  BY <1>1, <1>2 DEF BarrierPlace
<1>7. MatchesLastUpdate'
  <2>1. checkpoint.at + 1 \in Nat \ {0}
    BY <1>4
  <2>2. \A s \in Subtasks : /\ Updates(checkpoint.at + 1, applied[s])' = Updates(checkpoint.at + 1, applied[s])
                            /\ LastUpdate(applied[s])' = LastUpdate(applied[s])
    BY <1>2, <1>3, <1>4, <2>1
  <2> QED BY <1>1, <1>2, <2>2 DEF MatchesLastUpdate
<1>8. CopiesAreTrue'
  <2>1. \A s \in Subtasks : LastUpdate(applied[s])' = LastUpdate(applied[s])
    BY <1>2, <1>3, <1>4
  <2>2. \A s \in DOMAIN saved : LastUpdate(barrier)' = LastUpdate(barrier)
    <3>1. \A s \in DOMAIN saved : barrier # NoBarrier
      BY <1>1 DEF BarrierPlace
    <3> QED BY <1>2, <1>3, <1>4, <3>1
  <2> QED BY <1>1, <1>2, <2>1, <2>2 DEF CopiesAreTrue
<1>9. CheckpointIsTrue'
  <2>1. LastUpdate(checkpoint.at)' = LastUpdate(checkpoint.at)
    BY <1>2, <1>3, <1>4
  <2> QED BY <1>1, <1>2, <2>1 DEF CheckpointIsTrue
<1> QED BY <1>5, <1>6, <1>7, <1>8, <1>9 DEF TlsInv

LEMMA TriggersKeeps ==
    ASSUME TlsInv, NEW at \in 0..Len(patterns), Triggers(at)
    PROVE  TlsInv'
<1>1. TlsTypes /\ BarrierPlace /\ MatchesLastUpdate /\ CopiesAreTrue /\ CheckpointIsTrue
  BY DEF TlsInv
<1>2. /\ barrier = NoBarrier /\ barrier' = at /\ \A s \in Subtasks : applied[s] <= at
      /\ UNCHANGED <<patterns, applied, maliciousJa3Set, stored, saved, checkpoint, tlsRestarts>>
  BY DEF Triggers
<1>3. DOMAIN saved = {} /\ DOMAIN saved' = {}
  BY <1>1, <1>2 DEF BarrierPlace
<1>4. \A from, to : Updates(from, to)' = Updates(from, to) /\ LastUpdate(to)' = LastUpdate(to)
  BY <1>2 DEF Updates, LastUpdate
<1>5. TlsTypes'
  BY <1>1, <1>2 DEF TlsTypes
<1>6. BarrierPlace'
  BY <1>1, <1>2, <1>3 DEF BarrierPlace
<1>7. MatchesLastUpdate' /\ CheckpointIsTrue'
  BY <1>1, <1>2, <1>4 DEF MatchesLastUpdate, CheckpointIsTrue
<1>8. CopiesAreTrue'
  BY <1>1, <1>2, <1>3, <1>4 DEF CopiesAreTrue
<1> QED BY <1>5, <1>6, <1>7, <1>8 DEF TlsInv

LEMMA ReceivesKeeps ==
    ASSUME TlsInv, NEW s \in Subtasks, Receives(s)
    PROVE  TlsInv'
<1> DEFINE n == applied[s]
           set == Taken(patterns[n + 1], maliciousJa3Set[s])
<1>1. TlsTypes /\ BarrierPlace /\ MatchesLastUpdate /\ CopiesAreTrue /\ CheckpointIsTrue
  BY DEF TlsInv
<1>2. /\ n < Len(patterns) /\ (n = barrier => s \in DOMAIN saved)
      /\ applied' = [applied EXCEPT ![s] = n + 1] /\ maliciousJa3Set' = [maliciousJa3Set EXCEPT ![s] = set]
      /\ stored' = [stored EXCEPT ![s] = set]
      /\ UNCHANGED <<patterns, barrier, saved, checkpoint, tlsRestarts>>
  BY DEF Receives, Copied
<1>3. /\ patterns \in Seq(Messages) /\ Len(patterns) \in Nat /\ n \in Nat /\ n + 1 \in 1..Len(patterns)
      /\ patterns[n + 1] \in Messages /\ maliciousJa3Set[s] \in SUBSET Hashes
      /\ checkpoint.at \in Nat /\ checkpoint.at <= n
  BY <1>1, <1>2, SeqShape DEF TlsTypes, BarrierPlace
<1>4. set \in SUBSET Hashes
  <2>1. ASSUME IsUpdate(patterns[n + 1]) PROVE patterns[n + 1].hashes \in SUBSET Hashes
    <3>1. PICK hashes \in SUBSET Hashes : patterns[n + 1] = Update(hashes)
      BY <1>3, <2>1 DEF Messages, IsUpdate
    <3> QED BY <3>1 DEF Update
  <2> QED BY <1>3, <2>1 DEF Taken
<1>5. LastUpdate(n + 1) = Taken(patterns[n + 1], LastUpdate(n))
  BY <1>2, <1>3, NextUpdate
<1> HIDE DEF set
<1>6. /\ applied'[s] = n + 1 /\ maliciousJa3Set'[s] = set /\ stored'[s] = set
      /\ \A t \in Subtasks : t # s => /\ applied'[t] = applied[t]
                                      /\ maliciousJa3Set'[t] = maliciousJa3Set[t] /\ stored'[t] = stored[t]
  BY <1>1, <1>2 DEF TlsTypes
<1>7. \A from, to : Updates(from, to)' = Updates(from, to) /\ LastUpdate(to)' = LastUpdate(to)
  BY <1>2 DEF Updates, LastUpdate
<1>8. TlsTypes'
  <2>1. applied' \in [Subtasks -> 0..Len(patterns)]
    BY <1>1, <1>2, <1>3 DEF TlsTypes
  <2>2. maliciousJa3Set' \in [Subtasks -> SUBSET Hashes] /\ stored' \in [Subtasks -> SUBSET Hashes]
    BY <1>1, <1>2, <1>4 DEF TlsTypes
  <2> QED BY <1>1, <1>2, <2>1, <2>2 DEF TlsTypes
<1>9. BarrierPlace'
  <2>1. \A t \in Subtasks : checkpoint.at <= applied'[t]
    BY <1>1, <1>3, <1>6 DEF BarrierPlace
  <2>2. ASSUME barrier # NoBarrier
        PROVE  /\ \A t \in DOMAIN saved : barrier <= applied'[t]
               /\ \A t \in Subtasks \ DOMAIN saved : applied'[t] <= barrier
    <3>1. barrier \in Nat /\ DOMAIN saved \subseteq Subtasks
      BY <1>1, <2>2 DEF TlsTypes
    <3>2. /\ \A t \in DOMAIN saved : barrier <= applied[t]
          /\ \A t \in Subtasks \ DOMAIN saved : applied[t] <= barrier
      BY <1>1, <2>2 DEF BarrierPlace
    <3>3. s \in DOMAIN saved => barrier <= n + 1
      BY <1>3, <3>1, <3>2
    <3>4. s \notin DOMAIN saved => n + 1 <= barrier
      <4>1. s \notin DOMAIN saved => n <= barrier /\ n # barrier
        BY <1>2, <3>2
      <4> QED BY <1>3, <3>1, <4>1
    <3> QED BY <1>6, <3>1, <3>2, <3>3, <3>4
  <2> QED BY <1>1, <1>2, <2>1, <2>2 DEF BarrierPlace
<1>10. MatchesLastUpdate'
  <2>1. ASSUME Updates(checkpoint.at + 1, n + 1) # {} PROVE set = LastUpdate(n + 1)
    <3>1. CASE IsUpdate(patterns[n + 1])
      BY <1>5, <3>1 DEF Taken, set
    <3>2. CASE ~IsUpdate(patterns[n + 1])
      <4>1. Updates(checkpoint.at + 1, n + 1) = Updates(checkpoint.at + 1, n)
        BY <1>3, <3>2 DEF Updates
      <4>2. maliciousJa3Set[s] = LastUpdate(n)
        BY <1>1, <2>1, <4>1 DEF MatchesLastUpdate
      <4> QED BY <1>5, <4>2 DEF set
    <3> QED BY <3>1, <3>2
  <2>2. \A t \in Subtasks : t # s /\ Updates(checkpoint.at + 1, applied[t]) # {} =>
                                maliciousJa3Set[t] = LastUpdate(applied[t])
    BY <1>1 DEF MatchesLastUpdate
  <2> HIDE DEF n
  <2> QED BY <1>2, <1>6, <1>7, <2>1, <2>2 DEF MatchesLastUpdate
<1>11. CopiesAreTrue'
  <2> SUFFICES ASSUME tlsRestarts = 0 PROVE CopiesAreTrue'
    BY <1>2 DEF CopiesAreTrue
  <2>1. /\ \A t \in Subtasks : maliciousJa3Set[t] = LastUpdate(applied[t]) /\ stored[t] = LastUpdate(applied[t])
        /\ \A t \in DOMAIN saved : saved[t] = LastUpdate(barrier)
    BY <1>1 DEF CopiesAreTrue
  <2>2. set = LastUpdate(n + 1)
    BY <1>5, <2>1 DEF set
  <2> HIDE DEF n
  <2>3. \A t \in Subtasks : maliciousJa3Set'[t] = LastUpdate(applied'[t]) /\ stored'[t] = LastUpdate(applied'[t])
    BY <1>6, <2>1, <2>2
  <2> QED BY <1>2, <1>7, <2>1, <2>3 DEF CopiesAreTrue
<1>12. CheckpointIsTrue'
  BY <1>1, <1>2, <1>7 DEF CheckpointIsTrue
<1> QED BY <1>8, <1>9, <1>10, <1>11, <1>12 DEF TlsInv

\* What a checkpoint lets go of is what lies before it.
LEMMA SavesKeeps ==
    ASSUME TlsInv, NEW s \in Subtasks, Saves(s)
    PROVE  TlsInv'
<1> DEFINE now == [t \in DOMAIN saved \cup {s} |-> IF t = s THEN stored[s] ELSE saved[t]]
<1>1. TlsTypes /\ BarrierPlace /\ MatchesLastUpdate /\ CopiesAreTrue /\ CheckpointIsTrue
  BY DEF TlsInv
<1>2. /\ barrier = applied[s] /\ s \notin DOMAIN saved
      /\ UNCHANGED <<patterns, applied, maliciousJa3Set, stored, tlsRestarts>>
  BY DEF Saves
<1>3. /\ barrier \in 0..Len(patterns) /\ barrier # NoBarrier /\ Len(patterns) \in Nat
      /\ checkpoint.at \in 0..Len(patterns) /\ checkpoint.at <= barrier
  BY <1>1, <1>2, SeqShape DEF TlsTypes, BarrierPlace, NoBarrier
<1>4. /\ DOMAIN now = DOMAIN saved \cup {s} /\ DOMAIN now \subseteq Subtasks
      /\ \A t \in DOMAIN now : now[t] \in SUBSET Hashes /\ barrier <= applied[t]
      /\ tlsRestarts = 0 => \A t \in DOMAIN now : now[t] = LastUpdate(barrier)
  <2>1. DOMAIN saved \subseteq Subtasks /\ stored[s] \in SUBSET Hashes
    BY <1>1 DEF TlsTypes
  <2>2. \A t \in DOMAIN saved : saved[t] \in SUBSET Hashes /\ barrier <= applied[t]
    BY <1>1, <1>3 DEF TlsTypes, BarrierPlace
  <2>3. tlsRestarts = 0 => stored[s] = LastUpdate(barrier) /\ \A t \in DOMAIN saved : saved[t] = LastUpdate(barrier)
    BY <1>1, <1>2 DEF CopiesAreTrue
  <2>4. barrier <= applied[s]
    BY <1>2, <1>3
  <2> QED BY <2>1, <2>2, <2>3, <2>4
<1>5. \A from, to : Updates(from, to)' = Updates(from, to) /\ LastUpdate(to)' = LastUpdate(to)
  BY <1>2 DEF Updates, LastUpdate
<1>6. CASE DOMAIN now = Subtasks
  <2>1. checkpoint' = [at |-> barrier, stored |-> now] /\ saved' = NothingSaved /\ barrier' = NoBarrier
    BY <1>6 DEF Saves
  <2>2. /\ checkpoint'.at = barrier /\ checkpoint'.stored = now /\ now \in [Subtasks -> SUBSET Hashes]
        /\ DOMAIN saved' = {}
    BY <1>4, <1>6, <2>1 DEF NothingSaved
  <2> HIDE DEF now
  <2>3. TlsTypes'
    BY <1>1, <1>2, <1>3, <2>1, <2>2 DEF TlsTypes
  <2>4. BarrierPlace'
    BY <1>2, <1>4, <1>6, <2>1, <2>2 DEF BarrierPlace
  <2>5. MatchesLastUpdate'
    <3>1. \A t \in Subtasks : Updates(barrier + 1, applied[t]) \subseteq Updates(checkpoint.at + 1, applied[t])
      BY <1>1, <1>3 DEF Updates, TlsTypes
    <3>2. \A t \in Subtasks : Updates(barrier + 1, applied[t]) # {} => maliciousJa3Set[t] = LastUpdate(applied[t])
      BY <1>1, <3>1 DEF MatchesLastUpdate
    <3> QED BY <1>2, <1>5, <2>2, <3>2 DEF MatchesLastUpdate
  <2>6. CopiesAreTrue'
    BY <1>1, <1>2, <1>5, <2>2 DEF CopiesAreTrue
  <2>7. CheckpointIsTrue'
    BY <1>2, <1>4, <1>5, <1>6, <2>2 DEF CheckpointIsTrue
  <2> QED BY <2>3, <2>4, <2>5, <2>6, <2>7 DEF TlsInv
<1>7. CASE DOMAIN now # Subtasks
  <2>1. saved' = now /\ UNCHANGED <<checkpoint, barrier>>
    BY <1>7 DEF Saves
  <2> HIDE DEF now
  <2>2. TlsTypes'
    BY <1>1, <1>2, <1>4, <2>1 DEF TlsTypes
  <2>3. BarrierPlace'
    BY <1>1, <1>2, <1>3, <1>4, <2>1 DEF BarrierPlace
  <2>4. MatchesLastUpdate' /\ CheckpointIsTrue'
    BY <1>1, <1>2, <1>5, <2>1 DEF MatchesLastUpdate, CheckpointIsTrue
  <2>5. CopiesAreTrue'
    BY <1>1, <1>2, <1>4, <1>5, <2>1 DEF CopiesAreTrue
  <2> QED BY <2>2, <2>3, <2>4, <2>5 DEF TlsInv
<1> QED BY <1>6, <1>7

LEMMA FailsOverKeeps == TlsInv /\ FailsOver => TlsInv'
<1> SUFFICES ASSUME TlsInv, FailsOver PROVE TlsInv'
  OBVIOUS
<1>1. TlsTypes /\ CheckpointIsTrue
  BY DEF TlsInv
<1>2. /\ tlsRestarts < MaxTlsRestarts /\ tlsRestarts' = tlsRestarts + 1
      /\ applied' = [s \in Subtasks |-> checkpoint.at] /\ stored' = checkpoint.stored
      /\ maliciousJa3Set' = [s \in Subtasks |-> {}] /\ barrier' = NoBarrier /\ DOMAIN saved' = {}
      /\ UNCHANGED <<patterns, checkpoint>>
  BY DEF FailsOver, Resumed, NothingSaved
<1>3. checkpoint.at \in Nat /\ tlsRestarts \in Nat /\ MaxTlsRestarts \in Nat /\ Len(patterns) \in Nat
  BY <1>1, SeqShape, TlsAssumption DEF TlsTypes
<1>4. TlsTypes'
  BY <1>1, <1>2, <1>3 DEF TlsTypes
<1>5. BarrierPlace'
  BY <1>2, <1>3 DEF BarrierPlace
<1>6. MatchesLastUpdate'
  <2>1. \A n : Updates(checkpoint.at + 1, checkpoint.at)' = {}
    BY <1>2, <1>3 DEF Updates
  <2> QED BY <1>2, <2>1 DEF MatchesLastUpdate
<1>7. CopiesAreTrue' /\ CheckpointIsTrue'
  BY <1>2, <1>3 DEF CopiesAreTrue, CheckpointIsTrue
<1> QED BY <1>4, <1>5, <1>6, <1>7 DEF TlsInv

LEMMA TlsInvInit == TlsInit => TlsInv
<1> SUFFICES ASSUME TlsInit PROVE TlsInv
  OBVIOUS
<1>1. patterns = <<>> /\ patterns \in Seq(Messages) /\ Len(patterns) = 0
  BY EmptySeq DEF TlsInit
<1>2. \A from \in Nat : Updates(from + 1, 0) = {}
  BY DEF Updates
<1>3. LastUpdate(0) = {} /\ Updates(0 + 1, 0) = {}
  BY <1>2 DEF LastUpdate
<1>4. TlsTypes
  BY <1>1, TlsAssumption DEF TlsInit, TlsTypes, EmptyCheckpoint, NothingSaved
<1> QED BY <1>3, <1>4 DEF TlsInv, TlsInit, BarrierPlace, MatchesLastUpdate, CopiesAreTrue, CheckpointIsTrue,
                          EmptyCheckpoint, NothingSaved

LEMMA TlsInvStep == TlsInv /\ [TlsNext]_tlsVars => TlsInv'
<1> SUFFICES ASSUME TlsInv, [TlsNext]_tlsVars PROVE TlsInv'
  OBVIOUS
<1>1. ASSUME NEW m \in Messages, Publish(m) PROVE TlsInv'
  BY <1>1, PublishKeeps
<1>2. ASSUME NEW at \in 0..Len(patterns), Triggers(at) PROVE TlsInv'
  BY <1>2, TriggersKeeps
<1>3. ASSUME NEW s \in Subtasks, Receives(s) PROVE TlsInv'
  BY <1>3, ReceivesKeeps
<1>4. ASSUME NEW s \in Subtasks, Saves(s) PROVE TlsInv'
  BY <1>4, SavesKeeps
<1>5. CASE FailsOver
  BY <1>5, FailsOverKeeps
<1>6. CASE UNCHANGED tlsVars
  <2>1. TlsTypes' /\ BarrierPlace'
    BY <1>6 DEF tlsVars, TlsInv, TlsTypes, BarrierPlace
  <2>2. MatchesLastUpdate'
    BY <1>6 DEF tlsVars, TlsInv, MatchesLastUpdate, Updates, LastUpdate
  <2>3. CopiesAreTrue' /\ CheckpointIsTrue'
    BY <1>6 DEF tlsVars, TlsInv, CopiesAreTrue, CheckpointIsTrue, Updates, LastUpdate
  <2> QED BY <2>1, <2>2, <2>3 DEF TlsInv
<1> QED BY <1>1, <1>2, <1>3, <1>4, <1>5, <1>6 DEF TlsNext

LEMMA TlsInvSound == TlsInv => TlsSound
<1> SUFFICES ASSUME TlsInv PROVE TlsSound
  OBVIOUS
<1>1. TlsTypes /\ BarrierPlace /\ Len(patterns) \in Nat
  BY SeqShape DEF TlsInv, TlsTypes
<1>2. \A s \in Subtasks : applied[s] \in checkpoint.at..Len(patterns)
  BY <1>1 DEF TlsTypes, BarrierPlace
<1>3. barrier \in {NoBarrier} \cup Nat
  BY <1>1 DEF TlsTypes
<1>4. TlsTypeOK
  BY <1>1, <1>2, <1>3 DEF TlsTypes, TlsTypeOK
<1> QED BY <1>4 DEF TlsInv, TlsSound

\* A subtask that has read an update since the last checkpoint matches with the last one, and
\* until the first failover a checkpoint saves what the last update before it said.
THEOREM TlsIsSound == TlsSpec => []TlsSound
BY TlsInvInit, TlsInvStep, TlsInvSound, PTL DEF TlsSpec

-----------------------------------------------------------------------------
(* The jobs beside one another *)

LEMMA JobsStepByStep ==
    [JobsNext]_jobsVars =>
        /\ [ValidationNext]_validationVars /\ [ScoringNext]_scoringVars /\ [ChainsNext]_chainVars
        /\ [FlowNext]_flowVars /\ [TlsNext]_tlsVars
<1> SUFFICES ASSUME [JobsNext]_jobsVars
             PROVE  /\ ValidationNext \/ UNCHANGED validationVars
                    /\ ScoringNext \/ UNCHANGED scoringVars
                    /\ ChainsNext \/ UNCHANGED chainVars
                    /\ FlowNext \/ UNCHANGED flowVars
                    /\ TlsNext \/ UNCHANGED tlsVars
  OBVIOUS
<1>1. CASE Of("validation", ValidationNext)
  BY <1>1 DEF Of
<1>2. CASE Of("scoring", ScoringNext)
  BY <1>2 DEF Of
<1>3. CASE Of("chains", ChainsNext)
  BY <1>3 DEF Of
<1>4. CASE Of("flows", FlowNext)
  BY <1>4 DEF Of
<1>5. CASE Of("tls", TlsNext)
  BY <1>5 DEF Of
<1>6. CASE UNCHANGED jobsVars
  BY <1>6 DEF jobsVars
<1> QED BY <1>1, <1>2, <1>3, <1>4, <1>5, <1>6 DEF JobsNext

\* Beside the other jobs, the validation puts every raw record out once and in order.
THEOREM JobsValidate == JobsSpec => []ValidationSound
<1>1. JobsInit => ValidationInit
  BY DEF JobsInit
<1>2. JobsSpec => ValidationSpec
  BY <1>1, JobsStepByStep, PTL DEF JobsSpec, ValidationSpec
<1> QED BY <1>2, ValidationIsSound, PTL

\* Beside the other jobs, what the detectors keep by key - scores with their alerts, open
\* chains, the history of the windows of flows - is what the events of the key amount to.
THEOREM JobsDetect == JobsSpec => []DetectorsSound
<1>1. JobsInit => ScoringInit /\ ChainsInit /\ FlowInit
  BY DEF JobsInit
<1>2. JobsSpec => ScoringSpec /\ ChainsSpec /\ FlowSpec
  BY <1>1, JobsStepByStep, PTL DEF JobsSpec, ScoringSpec, ChainsSpec, FlowSpec
<1>3. ScoringSound /\ ChainsSound /\ FlowsSound => DetectorsSound
  BY DEF DetectorsSound
<1> QED BY <1>2, <1>3, ScoresAreSound, ChainsAreSound, FlowsAreSound, PTL

\* Beside the other jobs, field, broadcast copy and checkpoint of the fingerprints agree.
THEOREM JobsMatch == JobsSpec => []TlsSound
<1>1. JobsInit => TlsInit
  BY DEF JobsInit
<1>2. JobsSpec => TlsSpec
  BY <1>1, JobsStepByStep, PTL DEF JobsSpec, TlsSpec
<1> QED BY <1>2, TlsIsSound, PTL

-----------------------------------------------------------------------------
(* The consumers of the topics *)

-----------------------------------------------------------------------------
(* The inductive invariant: what holds of the stores and of each consumer *)

Troubled(e) == faults > 0 \/ e \in Invalid \cup Poison

\* The variables of the process and the tables, and the letters of the producer.
SharedOK ==
    /\ position \in [Consumers -> Nat] /\ committed \in [Consumers -> Nat]
    /\ pc \in [Consumers -> ConsumerPc]
    /\ attempt \in [Consumers -> 0..MaxRetry] /\ known \in [Consumers -> BOOLEAN]
    /\ rows \in [Events -> Nat] /\ leaves \in [Events -> Nat] /\ audits \in [Events -> Nat]
    /\ shed \subseteq Sheddable
    /\ dlqBuffer \subseteq Consumers \X Events /\ dlq \subseteq Consumers \X Events
    /\ running \in BOOLEAN
    /\ faults \in 0..MaxFaults /\ crashes \in 0..MaxCrashes /\ stops \in 0..MaxStops
    /\ StoredOnce /\ RowFirst
    /\ \A letter \in dlqBuffer : Troubled(letter[2])
    /\ ~running => stops > 0

\* What a handler has done when it is at pc[k].
HandlerProgress(k) ==
    /\ pc[k] \in Handling \cup {"commit"} => position[k] > 0
    /\ pc[k] = "insert" /\ known[k] => rows[At(k)] > 0
    /\ pc[k] = "leaf" => k = "enriched" /\ rows[At(k)] > 0
    /\ pc[k] = "submit" => rows[At(k)] > 0
    /\ pc[k] = "deadletter" => Troubled(At(k))

Secured(k, e) == DlqUp /\ stops = 0 => Kept(k, e) \/ LostLetter(e)

\* One record at a time is ahead of the committed offset.
Offsets(k) ==
    /\ committed[k] <= position[k] /\ position[k] <= Len(Topic[k])
    /\ pc[k] = "poll" => committed[k] = position[k]
    /\ pc[k] \in Handling \cup {"commit"} => position[k] <= committed[k] + 1

\* A record is only committed when its handler or its dead letter is done.
ConsumerOK(k) ==
    /\ Offsets(k)
    /\ HandlerProgress(k)
    /\ pc[k] = "commit" => Secured(k, At(k))
    /\ \A i \in 1..committed[k] : Secured(k, Topic[k][i])

ConsumersInv == SharedOK /\ \A k \in Consumers : ConsumerOK(k)

LEMMA InvImplies ==
    ConsumersInv => TypeOK /\ StoredOnce /\ RowFirst /\ Accounted
BY DEF ConsumersInv, SharedOK, ConsumerOK, Offsets, HandlerProgress, Secured, TypeOK, Accounted

LEMMA TopicType ==
    ASSUME NEW k \in Consumers
    PROVE  /\ Topic[k] \in Seq(Events) /\ Len(Topic[k]) \in Nat
           /\ \A i \in 1..Len(Topic[k]) : Topic[k][i] \in Events
<1>1. Topic[k] \in Seq(Events)
  BY ConsumersAssumption
<1> QED BY <1>1

LEMMA AtType ==
    ASSUME ConsumersInv, NEW k \in Consumers, pc[k] \in Handling \cup {"commit"}
    PROVE  /\ position[k] \in 1..Len(Topic[k]) /\ position[k] \in Nat
           /\ At(k) \in Events
<1>1. position[k] \in Nat /\ position[k] > 0 /\ position[k] <= Len(Topic[k])
  BY DEF ConsumersInv, SharedOK, ConsumerOK, Offsets, HandlerProgress
<1> QED BY <1>1, TopicType DEF At

LEMMA StopsType == ConsumersInv => stops \in Nat
BY DEF ConsumersInv, SharedOK
-----------------------------------------------------------------------------
(* A step of one handler, seen by the other *)

\* The tables and the letters only grow, and nobody stops or restarts.
Grows ==
    /\ \A e \in Events : /\ rows[e] > 0 => rows'[e] > 0
                         /\ audits[e] > 0 => audits'[e] > 0
    /\ shed \subseteq shed'
    /\ dlq \cup dlqBuffer \subseteq dlq' \cup dlqBuffer'
    /\ faults > 0 => faults' > 0
    /\ crashes > 0 => crashes' > 0
    /\ stops > 0 => stops' > 0

Stays(k) ==
    /\ committed'[k] = committed[k] /\ position'[k] = position[k]
    /\ known'[k] = known[k] /\ pc'[k] = pc[k]

LEMMA SecuredStays ==
    ASSUME Grows, stops' \in Nat, stops \in Nat, NEW k \in Consumers, NEW e \in Events, Secured(k, e)
    PROVE  Secured(k, e)'
BY DEF Grows, Secured, Kept, Handled, Audited, LostLetter

LEMMA ConsumerStays ==
    ASSUME ConsumersInv, Grows, stops' \in Nat, NEW k \in Consumers, Stays(k)
    PROVE  ConsumerOK(k)'
<1>1. /\ ConsumerOK(k) /\ stops \in Nat
      /\ committed[k] \in Nat /\ position[k] \in Nat
      /\ committed[k] <= position[k] /\ position[k] <= Len(Topic[k])
  BY DEF ConsumersInv, SharedOK, ConsumerOK, Offsets
<1>2. At(k)' = At(k)
  BY DEF At, Stays
<1>3. HandlerProgress(k)'
  <2>1. CASE pc[k] \in Handling \cup {"commit"}
    <3>1. At(k) \in Events
      BY <2>1, AtType
    <3> QED BY <3>1, <1>1, <1>2 DEF ConsumerOK, HandlerProgress, Stays, Grows, Troubled
  <2>2. CASE pc[k] \notin Handling \cup {"commit"}
    BY <2>2 DEF HandlerProgress, Stays, Handling
  <2> QED BY <2>1, <2>2
<1>4. (pc[k] = "commit" => Secured(k, At(k)))'
  <2> SUFFICES ASSUME pc[k] = "commit" PROVE Secured(k, At(k))'
    BY DEF Stays
  <2>1. At(k) \in Events /\ Secured(k, At(k))
    BY <1>1, AtType DEF ConsumerOK
  <2>2. Secured(k, At(k)) => \A e : e = At(k) => Secured(k, e)
    OBVIOUS
  <2> DEFINE e == At(k)
  <2>3. e \in Events /\ Secured(k, e) /\ e' = e
    BY <2>1, <1>2
  <2> QED BY <2>3, <1>1 DEF Grows, Secured, Kept, Handled, Audited, LostLetter
<1>5. (\A i \in 1..committed[k] : Secured(k, Topic[k][i]))'
  <2> SUFFICES ASSUME NEW i \in 1..committed[k] PROVE Secured(k, Topic[k][i])'
    BY DEF Stays
  <2>1. Topic[k][i] \in Events /\ Secured(k, Topic[k][i])
    BY <1>1, TopicType DEF ConsumerOK
  <2> QED BY <2>1, <1>1 DEF Grows, Secured, Kept, Handled, Audited, LostLetter
<1>6. Offsets(k)'
  BY <1>1 DEF ConsumerOK, Offsets, Stays
<1> QED BY <1>3, <1>4, <1>5, <1>6 DEF ConsumerOK

\* So a step of one handler needs to be looked at where that handler is.
LEMMA HandlerStep ==
    ASSUME ConsumersInv, NEW k \in Consumers, SharedOK', Grows, ConsumerOK(k)',
           \A j \in Consumers \ {k} : Stays(j)
    PROVE  ConsumersInv'
<1>1. stops' \in Nat
  BY DEF SharedOK
<1>2. \A j \in Consumers \ {k} : ConsumerOK(j)'
  BY <1>1, ConsumerStays
<1> QED BY <1>2 DEF ConsumersInv
-----------------------------------------------------------------------------
(* The steps of a handler *)

LEMMA FetchStep ==
    ASSUME ConsumersInv, NEW k \in Consumers, running, running' = running, Fetch(k)
    PROVE  ConsumersInv'
<1>1. /\ SharedOK /\ ConsumerOK(k) /\ position[k] \in Nat /\ committed[k] \in Nat
      /\ position[k] < Len(Topic[k]) /\ Len(Topic[k]) \in Nat
  BY TopicType DEF ConsumersInv, SharedOK, Fetch
<1>2. /\ position' = [position EXCEPT ![k] = @ + 1]
      /\ attempt' = [attempt EXCEPT ![k] = 1]
      /\ pc' = [pc EXCEPT ![k] = IF Topic[k][position[k] + 1] \in Invalid
                                THEN "deadletter" ELSE "lookup"]
      /\ UNCHANGED <<committed, known, storeVars, dlqVars, boundVars>>
  BY DEF Fetch, Goto
<1>3. SharedOK'
  <2>1. /\ position' \in [Consumers -> Nat]
        /\ attempt' \in [Consumers -> 0..MaxRetry]
        /\ pc' \in [Consumers -> ConsumerPc]
    BY <1>1, <1>2, SMTT(30), ConsumersAssumption DEF SharedOK, ConsumerPc, Handling
  <2> QED BY <2>1, <1>1, <1>2 DEF SharedOK, storeVars, dlqVars, boundVars, StoredOnce, RowFirst, Troubled
<1>4. Grows /\ \A j \in Consumers \ {k} : Stays(j)
  BY <1>1, <1>2 DEF SharedOK, Grows, Stays, storeVars, dlqVars, boundVars
<1>5. HandlerProgress(k)'
  BY <1>1, <1>2 DEF SharedOK, HandlerProgress, At, Troubled
<1>6. (\A i \in 1..committed[k] : Secured(k, Topic[k][i]))'
  BY <1>1, <1>2 DEF ConsumerOK, Secured, Kept, Handled, LostLetter, storeVars, dlqVars, boundVars
<1>7. ConsumerOK(k)'
  <2>1. committed[k] = position[k]
    BY <1>1 DEF ConsumerOK, Offsets, Fetch
  <2>2. /\ position'[k] = position[k] + 1 /\ committed'[k] = committed[k]
        /\ pc'[k] \in {"deadletter", "lookup"}
    BY <1>1, <1>2 DEF SharedOK
  <2>3. Offsets(k)'
    BY <1>1, <2>1, <2>2 DEF Offsets
  <2> QED BY <1>5, <1>6, <2>2, <2>3 DEF ConsumerOK
<1> QED BY <1>3, <1>4, <1>7, HandlerStep

\* Nor does a step inside the handler move the offsets.
LEMMA OffsetsKept ==
    ASSUME SharedOK, NEW k \in Consumers, Offsets(k),
           pc[k] \in Handling, NEW label \in Handling \cup {"commit"},
           pc' = [pc EXCEPT ![k] = label], UNCHANGED <<committed, position>>
    PROVE  Offsets(k)' /\ pc'[k] = label
<1>1. pc'[k] = label
  BY DEF SharedOK
<1>2. label # "poll"
  BY DEF Handling
<1>3. Offsets(k)'
  BY <1>1, <1>2 DEF Offsets, SharedOK
<1> QED BY <1>1, <1>3

LEMMA LookUpStep ==
    ASSUME ConsumersInv, NEW k \in Consumers, running, running' = running, LookUp(k)
    PROVE  ConsumersInv'
<1>1. SharedOK /\ ConsumerOK(k) /\ pc[k] = "lookup" /\ At(k) \in Events
  BY AtType DEF ConsumersInv, LookUp, Handling
<1>2. /\ known' = [known EXCEPT ![k] = (At(k) \in WithId /\ rows[At(k)] > 0)]
      /\ pc' = [pc EXCEPT ![k] = "insert"]
      /\ UNCHANGED <<committed, position, attempt, storeVars, dlqVars, boundVars>>
  BY DEF LookUp, Goto
<1>3. SharedOK'
  BY <1>1, <1>2 DEF SharedOK, ConsumerPc, Handling, storeVars, dlqVars, boundVars,
                    StoredOnce, RowFirst, Troubled
<1>4. Grows /\ \A j \in Consumers \ {k} : Stays(j)
  BY <1>1, <1>2 DEF SharedOK, Grows, Stays, storeVars, dlqVars, boundVars
<1>5. HandlerProgress(k)'
  BY <1>1, <1>2 DEF SharedOK, ConsumerOK, HandlerProgress, Handling, At, storeVars
<1>6. (\A i \in 1..committed[k] : Secured(k, Topic[k][i]))'
  BY <1>1, <1>2 DEF ConsumerOK, Secured, Kept, Handled, LostLetter, storeVars, dlqVars, boundVars
<1>7. ConsumerOK(k)'
  <2>1. Offsets(k)' /\ pc'[k] = "insert"
    BY <1>1, <1>2, OffsetsKept DEF ConsumerOK, Handling
  <2> QED BY <1>5, <1>6, <2>1 DEF ConsumerOK
<1> QED BY <1>3, <1>4, <1>7, HandlerStep

\* The table after store().
LEMMA RowType ==
    ASSUME SharedOK, NEW k \in Consumers, At(k) \in Events
    PROVE  /\ WithRow(k) \in [Events -> Nat]
           /\ \A e \in Events : rows[e] > 0 => WithRow(k)[e] > 0
           /\ (known[k] => rows[At(k)] > 0) => WithRow(k)[At(k)] > 0
           /\ \A e \in WithId : ~known[k] => WithRow(k)[e] <= 1
           /\ \A e \in WithId : WithRow(k)[e] <= 1
<1>1. rows \in [Events -> Nat] /\ \A e \in WithId : rows[e] <= 1
  BY DEF SharedOK, StoredOnce
<1>2. CASE known[k] \/ (At(k) \in WithId /\ rows[At(k)] > 0)
  <2>1. WithRow(k) = rows
    BY <1>2 DEF WithRow
  <2> QED BY <2>1, <1>1, <1>2
<1>3. CASE ~(known[k] \/ (At(k) \in WithId /\ rows[At(k)] > 0))
  <2>1. WithRow(k) = [rows EXCEPT ![At(k)] = @ + 1]
    BY <1>3 DEF WithRow
  <2>2. At(k) \in WithId => rows[At(k)] = 0
    BY <1>1, <1>3
  <2>3. \A e \in Events : WithRow(k)[e] = IF e = At(k) THEN rows[e] + 1 ELSE rows[e]
    BY <2>1, <1>1
  <2> QED BY <2>1, <2>2, <2>3, <1>1
<1> QED BY <1>2, <1>3

\* A step that leaves the handler's record and offsets alone and lets the stores
\* grow keeps what was secured.
LEMMA SecuredKept ==
    ASSUME ConsumersInv, NEW k \in Consumers, Grows, stops' \in Nat,
           committed'[k] = committed[k]
    PROVE  (\A i \in 1..committed[k] : Secured(k, Topic[k][i]))'
<1>1. /\ ConsumerOK(k) /\ stops \in Nat /\ committed[k] \in Nat
      /\ committed[k] <= position[k] /\ position[k] <= Len(Topic[k]) /\ position[k] \in Nat
  BY DEF ConsumersInv, SharedOK, ConsumerOK, Offsets
<1> SUFFICES ASSUME NEW i \in 1..committed[k] PROVE Secured(k, Topic[k][i])'
  OBVIOUS
<1>2. Topic[k][i] \in Events /\ Secured(k, Topic[k][i])
  BY <1>1, TopicType DEF ConsumerOK
<1> QED BY <1>2, <1>1 DEF Grows, Secured, Kept, Handled, Audited, LostLetter

LEMMA InsertStep ==
    ASSUME ConsumersInv, NEW k \in Consumers, running, running' = running, Insert(k)
    PROVE  ConsumersInv'
<1>1. SharedOK /\ ConsumerOK(k) /\ pc[k] = "insert" /\ At(k) \in Events /\ stops \in Nat
  BY AtType, StopsType DEF ConsumersInv, Insert, Handling
<1>2. /\ rows' = WithRow(k)
      /\ pc' = [pc EXCEPT ![k] = AfterStore(k)] /\ AfterStore(k) \in {"leaf", "submit"}
      /\ UNCHANGED <<committed, position, attempt, known, leaves, audits, shed, dlqVars, boundVars>>
  BY DEF Insert, Goto, AfterStore
<1>3. /\ rows' \in [Events -> Nat] /\ rows'[At(k)] > 0
      /\ \A e \in Events : rows[e] > 0 => rows'[e] > 0
      /\ \A e \in WithId : rows'[e] <= 1
  BY <1>1, <1>2, RowType DEF ConsumerOK, HandlerProgress
<1>4. SharedOK'
  BY <1>1, <1>2, <1>3 DEF SharedOK, ConsumerPc, Handling, dlqVars, boundVars,
                          StoredOnce, RowFirst, Troubled
<1>5. Grows /\ \A j \in Consumers \ {k} : Stays(j)
  BY <1>1, <1>2, <1>3 DEF SharedOK, Grows, Stays, dlqVars, boundVars
<1>6. HandlerProgress(k)'
  BY <1>1, <1>2, <1>3 DEF SharedOK, ConsumerOK, HandlerProgress, Handling, At, AfterStore
<1>7. (\A i \in 1..committed[k] : Secured(k, Topic[k][i]))'
  BY <1>1, <1>2, <1>5, SecuredKept DEF boundVars
<1>8. ConsumerOK(k)'
  <2>1. AfterStore(k) \in Handling /\ AfterStore(k) # "commit"
    BY <1>2 DEF Handling
  <2>2. Offsets(k)' /\ pc'[k] # "commit"
    BY <1>1, <1>2, <2>1, OffsetsKept DEF ConsumerOK, Handling
  <2> QED BY <1>6, <1>7, <2>2 DEF ConsumerOK
<1> QED BY <1>4, <1>5, <1>8, HandlerStep

LEMMA LeafStep ==
    ASSUME ConsumersInv, NEW k \in Consumers, running, running' = running, Leaf(k)
    PROVE  ConsumersInv'
<1>1. /\ SharedOK /\ ConsumerOK(k) /\ pc[k] = "leaf" /\ At(k) \in Events /\ stops \in Nat
      /\ k = "enriched" /\ rows[At(k)] > 0
  <2>1. SharedOK /\ ConsumerOK(k) /\ pc[k] = "leaf" /\ At(k) \in Events /\ stops \in Nat
    BY AtType, StopsType DEF ConsumersInv, Leaf, Handling
  <2> QED BY <2>1 DEF ConsumerOK, HandlerProgress
<1>2. /\ leaves' = [leaves EXCEPT ![At(k)] = @ + 1]
      /\ pc' = [pc EXCEPT ![k] = IF At(k) \in Severe THEN "submit" ELSE "commit"]
      /\ UNCHANGED <<committed, position, attempt, known, rows, audits, shed, dlqVars, boundVars>>
  BY DEF Leaf, Goto
<1>3. SharedOK'
  BY <1>1, <1>2 DEF SharedOK, ConsumerPc, Handling, dlqVars, boundVars,
                    StoredOnce, RowFirst, Troubled
<1>4. Grows /\ \A j \in Consumers \ {k} : Stays(j)
  BY <1>1, <1>2 DEF SharedOK, Grows, Stays, dlqVars, boundVars
<1>5. HandlerProgress(k)'
  BY <1>1, <1>2 DEF SharedOK, ConsumerOK, HandlerProgress, Handling, At
<1>6. (\A i \in 1..committed[k] : Secured(k, Topic[k][i]))'
  BY <1>1, <1>2, <1>4, SecuredKept DEF boundVars
<1>7. (pc[k] = "commit" => Secured(k, At(k)))'
  <2>1. At(k)' = At(k)
    BY <1>2 DEF At
  <2>2. pc'[k] = "commit" => ~Audited(k, At(k))
    BY <1>1, <1>2 DEF SharedOK, Audited
  <2> QED BY <1>1, <1>2, <2>1, <2>2 DEF Secured, Kept, Handled, Audited
<1>8. ConsumerOK(k)'
  <2>1. Offsets(k)'
    BY <1>1, <1>2, OffsetsKept DEF ConsumerOK, Handling
  <2> QED BY <1>5, <1>6, <1>7, <2>1 DEF ConsumerOK
<1> QED BY <1>3, <1>4, <1>8, HandlerStep

LEMMA SubmitStep ==
    ASSUME ConsumersInv, NEW k \in Consumers, running, running' = running, Submit(k)
    PROVE  ConsumersInv'
<1>1. /\ SharedOK /\ ConsumerOK(k) /\ pc[k] = "submit" /\ At(k) \in Events /\ stops \in Nat
      /\ rows[At(k)] > 0
  <2>1. SharedOK /\ ConsumerOK(k) /\ pc[k] = "submit" /\ At(k) \in Events /\ stops \in Nat
    BY AtType, StopsType DEF ConsumersInv, Submit, Handling
  <2> QED BY <2>1 DEF ConsumerOK, HandlerProgress
<1>2. /\ pc' = [pc EXCEPT ![k] = "commit"]
      /\ UNCHANGED <<committed, position, attempt, known, rows, leaves, dlqVars, boundVars>>
  BY DEF Submit, Goto
<1>3. /\ audits' \in [Events -> Nat]
      /\ \A e \in Events : audits[e] > 0 => audits'[e] > 0
      /\ \A e \in Events : audits'[e] > 0 => audits[e] > 0 \/ e = At(k)
      /\ shed \subseteq shed' /\ shed' \subseteq shed \cup {At(k)} /\ shed' \subseteq Sheddable
      /\ audits'[At(k)] > 0 \/ At(k) \in shed'
  <2>1. CASE audits' = [audits EXCEPT ![At(k)] = @ + 1] /\ shed' = shed
    BY <2>1, <1>1 DEF SharedOK
  <2>2. CASE At(k) \in Sheddable /\ shed' = shed \cup {At(k)} /\ audits' = audits
    BY <2>2, <1>1 DEF SharedOK
  <2> QED BY <2>1, <2>2 DEF Submit
<1>4. SharedOK'
  BY <1>1, <1>2, <1>3 DEF SharedOK, ConsumerPc, Handling, dlqVars, boundVars,
                          StoredOnce, RowFirst, Troubled
<1>5. Grows /\ \A j \in Consumers \ {k} : Stays(j)
  BY <1>1, <1>2, <1>3 DEF SharedOK, Grows, Stays, dlqVars, boundVars
<1>6. HandlerProgress(k)'
  BY <1>1, <1>2 DEF SharedOK, ConsumerOK, HandlerProgress, Handling, At
<1>7. (\A i \in 1..committed[k] : Secured(k, Topic[k][i]))'
  BY <1>1, <1>2, <1>5, SecuredKept DEF boundVars
<1>8. Secured(k, At(k))'
  <2>1. At(k)' = At(k)
    BY <1>2 DEF At
  <2> QED BY <1>1, <1>2, <1>3, <2>1 DEF Secured, Kept, Handled
<1>9. ConsumerOK(k)'
  <2>1. Offsets(k)'
    BY <1>1, <1>2, OffsetsKept DEF ConsumerOK, Handling
  <2> QED BY <1>6, <1>7, <1>8, <2>1 DEF ConsumerOK
<1> QED BY <1>4, <1>5, <1>9, HandlerStep

\* The table after a transaction that raised.
LEMMA RaisesRows ==
    ASSUME SharedOK, NEW k \in Consumers, At(k) \in Events, HandlerProgress(k), Raises(k)
    PROVE  /\ rows' \in [Events -> Nat] /\ leaves' \in [Events -> Nat]
           /\ \A e \in Events : rows[e] > 0 => rows'[e] > 0
           /\ \A e \in WithId : rows'[e] <= 1
           /\ \A e \in Events : leaves'[e] > 0 => leaves[e] > 0 \/ (e = At(k) /\ rows[e] > 0)
           /\ faults' \in 0..MaxFaults /\ (faults > 0 => faults' > 0)
           /\ faults' > 0 \/ At(k) \in Poison
<1>1. /\ rows \in [Events -> Nat] /\ leaves \in [Events -> Nat] /\ \A e \in WithId : rows[e] <= 1
      /\ faults \in 0..MaxFaults
  BY DEF SharedOK, StoredOnce
<1>2. /\ faults' \in 0..MaxFaults /\ (faults > 0 => faults' > 0)
      /\ faults' > 0 \/ At(k) \in Poison
  BY <1>1, ConsumersAssumption DEF Raises
<1>3. CASE rows' = rows /\ leaves' = leaves
  BY <1>1, <1>2, <1>3
<1>4. CASE pc[k] = "insert" /\ rows' = WithRow(k) /\ leaves' = leaves
  BY <1>1, <1>2, <1>4, RowType
<1>5. CASE pc[k] = "leaf" /\ leaves' = [leaves EXCEPT ![At(k)] = @ + 1] /\ rows' = rows
  <2>1. rows[At(k)] > 0
    BY <1>5 DEF HandlerProgress
  <2> QED BY <1>1, <1>2, <1>5, <2>1
<1> QED BY <1>3, <1>4, <1>5 DEF Raises

LEMMA RaisesStep ==
    ASSUME ConsumersInv, NEW k \in Consumers, running, running' = running, Raises(k)
    PROVE  ConsumersInv'
<1>1. /\ SharedOK /\ ConsumerOK(k) /\ At(k) \in Events /\ stops \in Nat
      /\ pc[k] \in {"lookup", "insert", "leaf"}
  BY AtType, StopsType DEF ConsumersInv, Raises, Handling
<1>2. UNCHANGED <<committed, position, known, audits, shed, dlqVars, crashes, stops>>
  BY DEF Raises
<1>3. /\ attempt' \in [Consumers -> 0..MaxRetry]
      /\ pc' \in {[pc EXCEPT ![k] = "lookup"], [pc EXCEPT ![k] = "deadletter"]}
  <2>1. attempt \in [Consumers -> 0..MaxRetry] /\ attempt[k] \in 0..MaxRetry
    BY <1>1 DEF SharedOK
  <2>2. CASE attempt[k] < MaxRetry
    <3>1. attempt[k] + 1 \in 0..MaxRetry
      BY <2>1, <2>2, ConsumersAssumption
    <3>2. attempt' = [attempt EXCEPT ![k] = attempt[k] + 1]
      BY <2>1, <2>2 DEF Raises, Retry
    <3>3. attempt' \in [Consumers -> 0..MaxRetry]
      BY <2>1, <3>1, <3>2
    <3> QED BY <2>2, <3>3 DEF Raises, Retry, Goto
  <2>3. CASE ~(attempt[k] < MaxRetry)
    BY <2>1, <2>3 DEF Raises, Retry, Goto
  <2> QED BY <2>2, <2>3
<1>4. /\ pc' \in [Consumers -> ConsumerPc]
       /\ pc'[k] \in {"lookup", "deadletter"}
       /\ \A j \in Consumers \ {k} : pc'[j] = pc[j]
  BY <1>1, <1>3 DEF SharedOK, ConsumerPc, Handling
<1>5. /\ rows' \in [Events -> Nat] /\ leaves' \in [Events -> Nat]
      /\ \A e \in Events : rows[e] > 0 => rows'[e] > 0
      /\ \A e \in WithId : rows'[e] <= 1
      /\ \A e \in Events : leaves'[e] > 0 => leaves[e] > 0 \/ (e = At(k) /\ rows[e] > 0)
      /\ faults' \in 0..MaxFaults /\ (faults > 0 => faults' > 0)
      /\ faults' > 0 \/ At(k) \in Poison
  BY <1>1, RaisesRows DEF ConsumerOK
<1>6. SharedOK'
  <2>1. (StoredOnce /\ RowFirst)'
    BY <1>1, <1>2, <1>5 DEF SharedOK, StoredOnce, RowFirst
  <2>2. (\A letter \in dlqBuffer : Troubled(letter[2]))'
    BY <1>1, <1>2, <1>5 DEF SharedOK, Troubled, dlqVars
  <2> QED BY <1>1, <1>2, <1>3, <1>4, <1>5, <2>1, <2>2 DEF SharedOK, dlqVars
<1>7. Grows /\ \A j \in Consumers \ {k} : Stays(j)
  BY <1>1, <1>2, <1>4, <1>5 DEF SharedOK, Grows, Stays, dlqVars
<1>8. HandlerProgress(k)'
  BY <1>1, <1>2, <1>4, <1>5 DEF SharedOK, ConsumerOK, HandlerProgress, Handling, At, Troubled
<1>9. (\A i \in 1..committed[k] : Secured(k, Topic[k][i]))'
  BY <1>1, <1>2, <1>7, SecuredKept
<1>10. ConsumerOK(k)'
  <2>1. Offsets(k)'
    BY <1>1, <1>2, <1>3, OffsetsKept DEF ConsumerOK, Handling
  <2> QED BY <1>4, <1>8, <1>9, <2>1 DEF ConsumerOK
<1> QED BY <1>6, <1>7, <1>10, HandlerStep

LEMMA DeadLetterStep ==
    ASSUME ConsumersInv, NEW k \in Consumers, running, running' = running, DeadLetter(k)
    PROVE  ConsumersInv'
<1>1. /\ SharedOK /\ ConsumerOK(k) /\ pc[k] = "deadletter" /\ At(k) \in Events /\ stops \in Nat
      /\ Troubled(At(k))
  <2>1. SharedOK /\ ConsumerOK(k) /\ pc[k] = "deadletter" /\ At(k) \in Events /\ stops \in Nat
    BY AtType, StopsType DEF ConsumersInv, DeadLetter, Handling
  <2> QED BY <2>1 DEF ConsumerOK, HandlerProgress
<1>2. /\ dlqBuffer' = IF DlqUp THEN dlqBuffer \cup {<<k, At(k)>>} ELSE dlqBuffer
      /\ pc' = [pc EXCEPT ![k] = "commit"]
      /\ UNCHANGED <<committed, position, attempt, known, storeVars, dlq, boundVars>>
  BY DEF DeadLetter, Goto
<1>3. SharedOK'
  <2>1. (StoredOnce /\ RowFirst)'
    BY <1>1, <1>2 DEF SharedOK, StoredOnce, RowFirst, storeVars
  <2>2. (\A letter \in dlqBuffer : Troubled(letter[2]))'
    BY <1>1, <1>2 DEF SharedOK, Troubled, boundVars
  <2>3. dlqBuffer' \subseteq Consumers \X Events
    BY <1>1, <1>2 DEF SharedOK
  <2> QED BY <1>1, <1>2, <2>1, <2>2, <2>3 DEF SharedOK, ConsumerPc, storeVars, boundVars
<1>4. Grows /\ \A j \in Consumers \ {k} : Stays(j)
  BY <1>1, <1>2 DEF SharedOK, Grows, Stays, storeVars, boundVars
<1>5. HandlerProgress(k)'
  BY <1>1, <1>2 DEF SharedOK, ConsumerOK, HandlerProgress, Handling, At
<1>6. (\A i \in 1..committed[k] : Secured(k, Topic[k][i]))'
  BY <1>1, <1>2, <1>4, SecuredKept DEF boundVars
<1>7. Secured(k, At(k))'
  BY <1>2 DEF Secured, Kept, At
<1>8. ConsumerOK(k)'
  <2>1. Offsets(k)'
    BY <1>1, <1>2, OffsetsKept DEF ConsumerOK, Handling
  <2> QED BY <1>5, <1>6, <1>7, <2>1 DEF ConsumerOK
<1> QED BY <1>3, <1>4, <1>8, HandlerStep

LEMMA CommitStep ==
    ASSUME ConsumersInv, NEW k \in Consumers, running, running' = running,
           Commit(k) \/ CommitFails(k)
    PROVE  ConsumersInv'
<1>1. /\ SharedOK /\ ConsumerOK(k) /\ pc[k] = "commit" /\ At(k) \in Events /\ stops \in Nat
      /\ position[k] \in Nat
  BY AtType, StopsType DEF ConsumersInv, Commit, CommitFails
<1>2. /\ committed' \in {committed, [committed EXCEPT ![k] = position[k]]}
      /\ pc' \in {[pc EXCEPT ![k] = "poll"], [pc EXCEPT ![k] = "down"]}
      /\ UNCHANGED <<position, attempt, known, storeVars, dlqVars, crashes, stops>>
      /\ faults' \in 0..MaxFaults /\ (faults > 0 => faults' > 0)
  BY <1>1, ConsumersAssumption DEF Commit, CommitFails, Goto, boundVars, SharedOK
<1>3. SharedOK'
  <2>1. (StoredOnce /\ RowFirst)'
    BY <1>1, <1>2 DEF SharedOK, StoredOnce, RowFirst, storeVars
  <2>2. (\A letter \in dlqBuffer : Troubled(letter[2]))'
    BY <1>1, <1>2 DEF SharedOK, Troubled, dlqVars
  <2>3. pc' \in [Consumers -> ConsumerPc] /\ committed' \in [Consumers -> Nat]
    BY <1>1, <1>2 DEF SharedOK, ConsumerPc
  <2> QED BY <1>1, <1>2, <2>1, <2>2, <2>3 DEF SharedOK, storeVars, dlqVars
<1>4. Grows /\ \A j \in Consumers \ {k} : Stays(j)
  BY <1>1, <1>2 DEF SharedOK, Grows, Stays, storeVars, dlqVars
<1>5. pc'[k] \in {"poll", "down"} /\ committed'[k] \in {committed[k], position[k]}
  BY <1>1, <1>2 DEF SharedOK
<1>6. HandlerProgress(k)'
  BY <1>5 DEF HandlerProgress, Handling
<1>7. (\A i \in 1..committed[k] : Secured(k, Topic[k][i]))'
  <2> SUFFICES ASSUME NEW i \in 1..committed'[k] PROVE Secured(k, Topic[k][i])'
    OBVIOUS
  <2>1. /\ committed[k] \in Nat /\ committed[k] <= position[k] /\ position[k] <= Len(Topic[k])
        /\ position[k] <= committed[k] + 1
    BY <1>1 DEF SharedOK, ConsumerOK, Offsets
  <2>2. i \in 1..position[k] /\ Topic[k][i] \in Events
    BY <1>1, <1>5, <2>1, TopicType
  <2>3. i \in 1..committed[k] \/ i = position[k]
    BY <1>1, <1>5, <2>1, <2>2
  <2>4. Secured(k, Topic[k][i])
    BY <1>1, <2>3 DEF ConsumerOK, At
  <2> QED BY <2>2, <2>4, <1>1, <1>2, <1>4
          DEF Grows, Secured, Kept, Handled, Audited, LostLetter
<1>8. ConsumerOK(k)'
  <2>1. pc'[k] = "poll" => committed'[k] = position[k]
    BY <1>1, <1>2, <1>5 DEF SharedOK, Commit, CommitFails, Goto
  <2>2. Offsets(k)'
    BY <1>1, <1>2, <1>5, <2>1 DEF SharedOK, ConsumerOK, Offsets, Handling
  <2> QED BY <1>5, <1>6, <1>7, <2>2 DEF ConsumerOK
<1> QED BY <1>3, <1>4, <1>8, HandlerStep
-----------------------------------------------------------------------------
(* The steps of the process *)

\* A step that moves no consumer.
LEMMA NobodyMoves ==
    ASSUME ConsumersInv, SharedOK', Grows, \A k \in Consumers : Stays(k)
    PROVE  ConsumersInv'
<1>1. stops' \in Nat
  BY DEF SharedOK
<1> QED BY <1>1, ConsumerStays DEF ConsumersInv

LEMMA DlqDeliverStep == ConsumersInv /\ DlqDeliver => ConsumersInv'
<1> SUFFICES ASSUME ConsumersInv, DlqDeliver PROVE ConsumersInv'
  OBVIOUS
<1>1. SharedOK
  BY DEF ConsumersInv
<1>2. PICK letter \in dlqBuffer :
          dlqBuffer' = dlqBuffer \ {letter} /\ dlq' = dlq \cup {letter}
  BY DEF DlqDeliver
<1>3. UNCHANGED <<consumerVars, storeVars, running, boundVars>>
  BY DEF DlqDeliver
<1>4. SharedOK'
  BY <1>1, <1>2, <1>3 DEF SharedOK, consumerVars, storeVars, boundVars,
                          StoredOnce, RowFirst, Troubled
<1>5. Grows
  BY <1>2, <1>3 DEF Grows, storeVars, boundVars
<1>6. \A k \in Consumers : Stays(k)
  BY <1>3 DEF Stays, consumerVars
<1> QED BY <1>4, <1>5, <1>6, NobodyMoves

LEMMA StopStep == ConsumersInv /\ Stop => ConsumersInv'
<1> SUFFICES ASSUME ConsumersInv, Stop PROVE ConsumersInv'
  OBVIOUS
<1>1. SharedOK
  BY DEF ConsumersInv
<1>2. /\ running' = FALSE /\ stops < MaxStops /\ stops' = stops + 1
      /\ UNCHANGED <<consumerVars, storeVars, dlqVars, faults, crashes>>
  BY DEF Stop
<1>3. stops' \in 0..MaxStops /\ stops' > 0
  BY <1>1, <1>2, ConsumersAssumption DEF SharedOK
<1>4. SharedOK'
  BY <1>1, <1>2, <1>3 DEF SharedOK, consumerVars, storeVars, dlqVars,
                          StoredOnce, RowFirst, Troubled
<1>5. Grows
  BY <1>2, <1>3 DEF Grows, storeVars, dlqVars
<1>6. \A k \in Consumers : Stays(k)
  BY <1>2 DEF Stays, consumerVars
<1> QED BY <1>4, <1>5, <1>6, NobodyMoves

\* After a stop() nothing is promised of a committed record.
LEMMA CancelledStep ==
    ASSUME ConsumersInv, NEW k \in Consumers, Cancelled(k)
    PROVE  ConsumersInv'
<1>1. SharedOK /\ ConsumerOK(k) /\ position[k] \in Nat /\ committed[k] \in Nat
  BY DEF ConsumersInv, SharedOK
<1>2. /\ ~running /\ pc' = [pc EXCEPT ![k] = "down"]
      /\ committed' \in {committed, [committed EXCEPT ![k] = position[k]]}
      /\ UNCHANGED <<position, attempt, known, storeVars, dlqVars, running, boundVars>>
  BY DEF Cancelled, Goto
<1>3. stops > 0 /\ stops' = stops
  BY <1>1, <1>2 DEF SharedOK, boundVars
<1>4. /\ committed' \in [Consumers -> Nat] /\ pc' \in [Consumers -> ConsumerPc]
      /\ pc'[k] = "down" /\ committed'[k] \in {committed[k], position[k]}
  BY <1>1, <1>2 DEF SharedOK, ConsumerPc
<1>5. SharedOK'
  BY <1>1, <1>2, <1>4 DEF SharedOK, storeVars, dlqVars, boundVars,
                          StoredOnce, RowFirst, Troubled
<1>6. Grows /\ \A j \in Consumers \ {k} : Stays(j)
  BY <1>1, <1>2 DEF SharedOK, Grows, Stays, storeVars, dlqVars, boundVars
<1>7. Offsets(k)'
  BY <1>1, <1>2, <1>4 DEF ConsumerOK, Offsets, Handling
<1>8. HandlerProgress(k)'
  BY <1>4 DEF HandlerProgress, Handling
<1>9. ConsumerOK(k)'
  BY <1>3, <1>4, <1>7, <1>8, StopsType DEF ConsumerOK, Secured
<1> QED BY <1>5, <1>6, <1>9, HandlerStep

\* The consumers begin at their committed offsets.
LEMMA StartedAt ==
    ASSUME ConsumersInv, Start, NEW k \in Consumers
    PROVE  Offsets(k)' /\ HandlerProgress(k)' /\ pc'[k] = "poll"
<1>1. /\ pc'[k] = "poll" /\ position'[k] = committed[k] /\ committed'[k] = committed[k]
      /\ committed[k] \in Nat /\ position[k] \in Nat
      /\ committed[k] <= position[k] /\ position[k] <= Len(Topic[k]) /\ Len(Topic[k]) \in Nat
  BY TopicType DEF ConsumersInv, SharedOK, ConsumerOK, Offsets, Start
<1>2. Offsets(k)'
  BY <1>1 DEF Offsets, Handling
<1> QED BY <1>1, <1>2 DEF HandlerProgress, Handling

LEMMA RestartStep == ConsumersInv /\ Restart => ConsumersInv'
<1> SUFFICES ASSUME ConsumersInv, Restart PROVE ConsumersInv'
  OBVIOUS
<1>1. SharedOK /\ ~running /\ Start /\ UNCHANGED <<dlqBuffer, boundVars>>
  BY DEF ConsumersInv, Restart
<1>2. stops > 0 /\ stops' = stops
  BY <1>1 DEF SharedOK, boundVars
<1>3. pc' \in [Consumers -> ConsumerPc]
  BY <1>1 DEF Start, ConsumerPc
<1>4. SharedOK'
  BY <1>1, <1>2, <1>3 DEF SharedOK, Start, storeVars, boundVars, StoredOnce, RowFirst, Troubled
<1>5. \A k \in Consumers : ConsumerOK(k)'
  BY <1>1, <1>2, StartedAt, StopsType DEF ConsumerOK, Secured
<1> QED BY <1>4, <1>5 DEF ConsumersInv

\* A dead letter that the crash takes is of a record that had been in trouble.
LEMMA CrashStep == ConsumersInv /\ Crash => ConsumersInv'
<1> SUFFICES ASSUME ConsumersInv, Crash PROVE ConsumersInv'
  OBVIOUS
<1>1. SharedOK /\ Start /\ dlqBuffer' = {} /\ UNCHANGED <<faults, stops>>
  BY DEF ConsumersInv, Crash
<1>2. crashes' \in 0..MaxCrashes /\ crashes' > 0
  BY <1>1, ConsumersAssumption DEF SharedOK, Crash
<1>3. pc' \in [Consumers -> ConsumerPc]
  BY <1>1 DEF Start, ConsumerPc
<1>4. SharedOK'
  BY <1>1, <1>2, <1>3 DEF SharedOK, Start, storeVars, StoredOnce, RowFirst, Troubled
<1>5. ASSUME NEW k \in Consumers PROVE ConsumerOK(k)'
  <2>1. Offsets(k)' /\ HandlerProgress(k)' /\ pc'[k] = "poll"
    BY <1>1, StartedAt
  <2>2. (\A i \in 1..committed[k] : Secured(k, Topic[k][i]))'
    <3> SUFFICES ASSUME NEW i \in 1..committed[k] PROVE Secured(k, Topic[k][i])'
      BY <1>1 DEF Start
    <3>1. Secured(k, Topic[k][i])
      BY DEF ConsumersInv, ConsumerOK
    <3>2. <<k, Topic[k][i]>> \in dlqBuffer => Troubled(Topic[k][i])
      BY <1>1 DEF SharedOK
    <3> QED BY <3>1, <3>2, <1>1, <1>2
            DEF Secured, Kept, Handled, LostLetter, Troubled, Start, storeVars
  <2> QED BY <2>1, <2>2 DEF ConsumerOK
<1> QED BY <1>4, <1>5 DEF ConsumersInv
-----------------------------------------------------------------------------
(* The specification *)

LEMMA InitOK == Init => ConsumersInv
<1> SUFFICES ASSUME Init PROVE ConsumersInv
  OBVIOUS
<1>1. SharedOK
  BY ConsumersAssumption DEF Init, SharedOK, ConsumerPc, Handling, StoredOnce, RowFirst
<1>2. ASSUME NEW k \in Consumers PROVE ConsumerOK(k)
  <2>1. committed[k] = 0 /\ position[k] = 0 /\ pc[k] = "poll"
    BY DEF Init
  <2>2. Offsets(k) /\ HandlerProgress(k)
    BY <2>1, TopicType DEF Offsets, HandlerProgress, Handling
  <2> QED BY <2>1, <2>2 DEF ConsumerOK
<1> QED BY <1>1, <1>2 DEF ConsumersInv

LEMMA NextOK == ConsumersInv /\ [Next]_vars => ConsumersInv'
<1> SUFFICES ASSUME ConsumersInv, [Next]_vars PROVE ConsumersInv'
  OBVIOUS
<1>1. ASSUME NEW k \in Consumers, MessageStep(k) PROVE ConsumersInv'
  BY <1>1, FetchStep, LookUpStep, InsertStep, LeafStep, SubmitStep, RaisesStep,
     DeadLetterStep, CommitStep DEF MessageStep
<1>2. ASSUME NEW k \in Consumers, Cancelled(k) PROVE ConsumersInv'
  BY <1>2, CancelledStep
<1>3. CASE UNCHANGED vars
  <2>1. SharedOK'
    BY <1>3 DEF vars, consumerVars, storeVars, dlqVars, boundVars, ConsumersInv, SharedOK,
                StoredOnce, RowFirst, Troubled
  <2>2. Grows /\ \A k \in Consumers : Stays(k)
    BY <1>3 DEF vars, consumerVars, storeVars, dlqVars, boundVars, Grows, Stays
  <2> QED BY <2>1, <2>2, NobodyMoves
<1> QED BY <1>1, <1>2, <1>3, DlqDeliverStep, StopStep, RestartStep, CrashStep DEF Next

LEMMA Inductive == Spec => []ConsumersInv
BY InitOK, NextOK, PTL DEF Spec

\* The offsets, tables and letters have their types in every reachable state, and
\* no consumer commits past the record at hand (_consume_loop, kafka_consumer.py).
THEOREM TypeCorrect == Spec => []TypeOK
BY Inductive, InvImplies, PTL

\* An event with an eventId has at most one row, whatever the two handlers' order,
\* their retries and the crashes (store(), event_store.py).
THEOREM OneRowPerEventId == Spec => []StoredOnce
BY Inductive, InvImplies, PTL

\* A leaf of the memory tree and an audit job stand for a stored event.
THEOREM RowBeforeAudit == Spec => []RowFirst
BY Inductive, InvImplies, PTL

\* With the dead letters' producer up and no orderly shutdown, a committed record
\* was handled or is a dead letter, but for the letter that a crash took.
THEOREM NoRecordUnaccounted == Spec => []Accounted
BY Inductive, InvImplies, PTL

\* The two handlers keep one row for an eventId, and one before every leaf and audit.
THEOREM RowsAreSound == Spec => []RowsSound
BY TypeCorrect, OneRowPerEventId, RowBeforeAudit, PTL DEF RowsSound
=============================================================================
