-------------------------- MODULE PrometheusTextProofs --------------------------
(***************************************************************************)
(* Proofs about PrometheusText: for any names, durations and number of     *)
(* checks, what the samples of an exposition say, where its lines are, and *)
(* that a scraper reads every name back.                                   *)
(*                                                                         *)
(* FlattenSeq and Read are recursive functions.  What they compute is      *)
(* proved by induction on natural numbers in the form of `Induction`,      *)
(* about a set instead of a predicate: first that the function satisfies   *)
(* its recursion, then what it returns.                                    *)
(***************************************************************************)
EXTENDS PrometheusText, HealthTypesProofs, SequenceTheorems, FiniteSetTheorems, WellFoundedInduction

\* A sweep's results, in their order.
ResultsInv == results \in Seq(Result)

\* Results stay results.
LEMMA ResultsInvariant == Spec => []ResultsInv
  <1>1. Init => ResultsInv
    BY DEF Init, ResultsInv
  <1>2. ResultsInv /\ [Next]_results => ResultsInv'
    <2> SUFFICES ASSUME results \in Seq(Result), [Next]_results PROVE results' \in Seq(Result)
      BY DEF ResultsInv
    <2>1. ASSUME NEW result \in Result, Resolve(result) PROVE results' \in Seq(Result)
      BY <2>1, AppendProperties DEF Resolve
    <2>2. CASE Scrape
      BY <2>2, EmptySeq DEF Scrape
    <2> QED BY <2>1, <2>2 DEF Next
  <1> QED BY <1>1, <1>2, PTL DEF Spec

\* The fields of a result.
LEMMA ResultFields ==
  ASSUME ResultsInv, NEW i \in DOMAIN results
  PROVE  results[i].status \in HealthStatus /\ results[i].duration \in Nat
  <1>1. results[i] \in Result
    <2>1. results \in Seq(Result)
      BY DEF ResultsInv
    <2> QED BY <2>1
  <1>2. results[i].status \in HealthStatus /\ results[i].duration \in Duration
    BY <1>1 DEF Result
  <1> QED BY <1>2, ExpositionAssumption

-----------------------------------------------------------------------------
\* A gauge falls as the status gets worse.
LEMMA GaugeFalls ==
  ASSUME NEW s \in HealthStatus, NEW t \in HealthStatus, Severity[s] <= Severity[t]
  PROVE  healthiness_value(s) >= healthiness_value(t)
  BY DEF HealthStatus, Severity, healthiness_value

\* The gauge of a result is that of its status.
LEMMA GaugeValue ==
  ASSUME NEW result PROVE Gauge(result).value = healthiness_value(result.status)
  BY DEF Gauge, Line

\* Some gauge is the aggregate's, and none is below it.
LEMMA GaugesFollow == ResultsInv => GaugesMatchAggregate
  <1> SUFFICES ASSUME ResultsInv PROVE GaugesMatchAggregate
    OBVIOUS
  <1> DEFINE S == {results[i].status : i \in DOMAIN results}
             overall == aggregate(S)
  <1>1. \A i \in DOMAIN results : results[i].status \in HealthStatus
    BY ResultFields
  <1>2. S \in SUBSET HealthStatus
    BY <1>1
  <1>3. /\ S # {} => overall \in S
        /\ \A t \in S : Severity[t] <= Severity[overall]
        /\ overall \in HealthStatus
    BY <1>2, AggregateIsWorst, AggregateVerdict
  <1>4. results # <<>> => S # {}
    BY DEF ResultsInv
  <1> HIDE DEF overall
  <1>5. ASSUME NEW i \in DOMAIN results
        PROVE  Gauge(results[i]).value >= healthiness_value(overall)
    BY <1>1, <1>3, GaugeFalls, GaugeValue
  <1>6. ASSUME results # <<>>
        PROVE  \E i \in DOMAIN results : Gauge(results[i]).value = healthiness_value(overall)
    BY <1>3, <1>4, <1>6, GaugeValue
  <1> QED BY <1>5, <1>6 DEF GaugesMatchAggregate, overall

\* For every sweep, whatever its size: the worst gauge says what the aggregate says.
THEOREM GaugesAgree == Spec => []GaugesMatchAggregate
  BY ResultsInvariant, GaugesFollow, PTL

-----------------------------------------------------------------------------
\* The members of a concatenation.
LEMMA Joined ==
  ASSUME NEW S, NEW a \in Seq(S), NEW b \in Seq(S), NEW c, c = a \o b
  PROVE  /\ c \in Seq(S) /\ Len(c) = Len(a) + Len(b) /\ Len(a) \in Nat /\ Len(b) \in Nat
         /\ \A k \in 1..(Len(a) + Len(b)) : c[k] = IF k <= Len(a) THEN a[k] ELSE b[k - Len(a)]
  BY ConcatProperties, LenProperties

\* A sequence is one of its own members.
LEMMA OwnMembers ==
  ASSUME NEW S, NEW c \in Seq(S), NEW n, n = Len(c)
  PROVE  c \in Seq({c[k] : k \in 1..n})
  <1> DEFINE R == {c[k] : k \in 1..n}
  <1>1. n \in Nat /\ c \in [1..n -> S]
    BY LenProperties
  <1>2. c \in [1..n -> R]
    BY <1>1
  <1> HIDE DEF R
  <1>3. c = [k \in 1..n |-> c[k]] /\ \A k \in 1..n : c[k] \in R
    BY <1>2
  <1> QED BY <1>1, <1>2, SeqDef

\* Fourteen samples from eleven and three.
LEMMA Fourteen ==
  ASSUME NEW a, NEW b, NEW c,
         \A k \in 1..14 : c[k] = IF k <= 11 THEN a[k] ELSE b[k - 11]
  PROVE  /\ \A k \in 1..11 : c[k] = a[k]
         /\ c[12] = b[1] /\ c[13] = b[2] /\ c[14] = b[3]
  OBVIOUS

\* The samples of one check, by position.
LEMMA HistogramSamples ==
  ASSUME NEW result
  PROVE  LET h == Histogram(result)
             name == escape_label(result.name)
         IN /\ \A k \in 1..11 :
                 h[k] = Line("bucket", name, LATENCY_BUCKETS[k],
                             bucket_count(result.duration, LATENCY_BUCKETS[k]))
            /\ h[12] = Line("bucket", name, NoBound, 1)
            /\ h[13] = Line("sum", name, NoBound, result.duration)
            /\ h[14] = Line("count", name, NoBound, 1)
            /\ h \in Seq({h[k] : k \in 1..14}) /\ Len(h) = 14
  <1> DEFINE name == escape_label(result.name)
             bucket(k) == Line("bucket", name, LATENCY_BUCKETS[k],
                               bucket_count(result.duration, LATENCY_BUCKETS[k]))
             a == [k \in DOMAIN LATENCY_BUCKETS |-> bucket(k)]
             b == << Line("bucket", name, NoBound, 1), Line("sum", name, NoBound, result.duration),
                     Line("count", name, NoBound, 1) >>
             S == {bucket(k) : k \in 1..11} \cup {b[1], b[2], b[3]}
  <1>1. Histogram(result) = a \o b
    BY DEF Histogram
  <1>2. DOMAIN LATENCY_BUCKETS = 1..11
    BY DEF LATENCY_BUCKETS
  <1> HIDE DEF bucket
  <1>3. a \in Seq(S) /\ Len(a) = 11 /\ \A k \in 1..11 : a[k] = bucket(k)
    <2>1. a = [k \in 1..11 |-> bucket(k)]
      BY <1>2
    <2>2. a \in [1..11 -> S]
      BY <2>1
    <2> QED BY <2>1, <2>2
  <1>4. b \in Seq(S) /\ Len(b) = 3
    OBVIOUS
  <1>5. b[1] = Line("bucket", name, NoBound, 1) /\ b[2] = Line("sum", name, NoBound, result.duration)
        /\ b[3] = Line("count", name, NoBound, 1)
    OBVIOUS
  <1> HIDE DEF S, a, b
  <1> DEFINE h == Histogram(result)
  <1>6. \A k \in 1..14 : h[k] = IF k <= 11 THEN a[k] ELSE b[k - 11]
    <2>1. \A k \in 1..(Len(a) + Len(b)) : h[k] = IF k <= Len(a) THEN a[k] ELSE b[k - Len(a)]
      <3>1. a \in Seq(S) /\ b \in Seq(S) /\ h = a \o b
        BY <1>1, <1>3, <1>4
      <3> HIDE DEF h
      <3> QED BY <3>1, Joined
    <2>2. Len(a) = 11 /\ Len(b) = 3 /\ 11 + 3 = 14
      BY <1>3, <1>4
    <2> QED BY <2>1, <2>2
  <1>7. h[12] = b[1] /\ h[13] = b[2] /\ h[14] = b[3] /\ \A k \in 1..11 : h[k] = a[k]
    BY <1>6, Fourteen
  <1>8. \A k \in 1..11 : h[k] = bucket(k)
    BY <1>3, <1>7
  <1>9. h \in Seq({h[k] : k \in 1..14}) /\ Len(h) = 14
    <2>1. h \in Seq(S) /\ Len(h) = Len(a) + Len(b)
      <3>1. a \in Seq(S) /\ b \in Seq(S) /\ h = a \o b
        BY <1>1, <1>3, <1>4
      <3> HIDE DEF h
      <3> QED BY <3>1, Joined
    <2>2. 14 = Len(h)
      BY <1>3, <1>4, <2>1
    <2> HIDE DEF h
    <2> QED BY <2>1, <2>2, OwnMembers
  <1> QED BY <1>5, <1>7, <1>8, <1>9, Zenon DEF bucket

\* The bounds are positive and increase.
LEMMA BoundsIncrease ==
  /\ DOMAIN LATENCY_BUCKETS = 1..11
  /\ \A k \in 1..11 : LATENCY_BUCKETS[k] \in Nat \ {0}
  /\ \A k, l \in 1..11 : k < l => LATENCY_BUCKETS[k] < LATENCY_BUCKETS[l]
  BY DEF LATENCY_BUCKETS

\* The histogram of any result is cumulative.
LEMMA HistogramsFollow == ResultsInv => HistogramsAreCumulative
  <1> SUFFICES ASSUME ResultsInv, NEW i \in DOMAIN results
               PROVE  LET h == Histogram(results[i])
                          bounds == DOMAIN LATENCY_BUCKETS
                      IN /\ \A k, l \in bounds : k < l => h[k].le < h[l].le /\ h[k].value <= h[l].value
                         /\ \A k \in bounds : h[k].value = h[14].value <=> h[13].value <= h[k].le
                         /\ h[12].le = NoBound /\ h[12].value = h[14].value
                         /\ \A k \in bounds : h[k].value <= h[12].value
    BY DEF HistogramsAreCumulative
  <1> DEFINE h == Histogram(results[i])
             d == results[i].duration
  <1>1. d \in Nat
    BY ResultFields
  <1>2. /\ \A k \in 1..11 : /\ h[k].le = LATENCY_BUCKETS[k]
                            /\ h[k].value = IF d <= LATENCY_BUCKETS[k] THEN 1 ELSE 0
        /\ h[12].le = NoBound /\ h[12].value = 1 /\ h[13].value = d /\ h[14].value = 1
    <2> DEFINE name == escape_label(results[i].name)
    <2>1. \A k \in 1..11 :
            h[k] = Line("bucket", name, LATENCY_BUCKETS[k], bucket_count(d, LATENCY_BUCKETS[k]))
      BY HistogramSamples
    <2>2. /\ h[12] = Line("bucket", name, NoBound, 1) /\ h[13] = Line("sum", name, NoBound, d)
          /\ h[14] = Line("count", name, NoBound, 1)
      BY HistogramSamples
    <2> HIDE DEF h, d, name
    <2> QED BY <2>1, <2>2 DEF Line, bucket_count
  <1> HIDE DEF h, d
  <1>3. \A k, l \in 1..11 : k < l => h[k].le < h[l].le /\ h[k].value <= h[l].value
    BY <1>1, <1>2, BoundsIncrease
  <1>4. \A k \in 1..11 : h[k].value = h[14].value <=> h[13].value <= h[k].le
    BY <1>2
  <1>5. \A k \in 1..11 : h[k].value <= h[12].value
    BY <1>2
  <1> QED BY <1>2, <1>3, <1>4, <1>5, BoundsIncrease DEF h

\* For every duration: the histogram of a check is cumulative, and its
\* buckets, sum and count agree about the observation.
THEOREM HistogramsSound == Spec => []HistogramsAreCumulative
  BY ResultsInvariant, HistogramsFollow, PTL

-----------------------------------------------------------------------------
(***************************************************************************)
(* Induction, and what FlattenSeq returns.                                 *)
(***************************************************************************)
\* Every set of natural numbers has a least member.
LEMMA Smallest ==
  ASSUME NEW T \in SUBSET Nat, T # {}
  PROVE  \E n \in T : \A m \in T : n <= m
  <1> DEFINE R == OpToRel(<, Nat)
  <1>1. PICK x \in T : \A y \in T : <<y, x>> \notin R
    <2>1. IsWellFoundedOn(R, Nat)
      BY NatLessThanWellFounded
    <2> HIDE DEF R
    <2> QED BY <2>1, WFMin
  <1>2. \A k, l \in Nat : k < l => <<k, l>> \in R
    BY DEF OpToRel
  <1> HIDE DEF R
  <1>3. ASSUME NEW y \in T PROVE x <= y
    <2>1. x \in Nat /\ y \in Nat /\ ~(y < x)
      BY <1>1, <1>2
    <2> QED BY <2>1
  <1> QED BY <1>3

\* A set of natural numbers that holds 0 and the successor of each of its members is all of Nat.
LEMMA Induction ==
  ASSUME NEW T, 0 \in T, \A n \in Nat : n \in T => n + 1 \in T
  PROVE  \A n \in Nat : n \in T
  <1> SUFFICES ASSUME NEW k \in Nat, k \notin T PROVE FALSE
    OBVIOUS
  <1> DEFINE C == Nat \ T
  <1>1. PICK n \in C : \A m \in C : n <= m
    <2>1. C \in SUBSET Nat /\ C # {}
      OBVIOUS
    <2> HIDE DEF C
    <2> QED BY <2>1, Smallest
  <1>2. n # 0 /\ n \in Nat
    BY <1>1
  <1>3. n - 1 \in Nat /\ n - 1 \notin C
    BY <1>1, <1>2
  <1> QED BY <1>2, <1>3

\* flatten satisfies its recursion.
LEMMA FlattenRecursion ==
  ASSUME NEW s, Len(s) \in Nat \ {0}
  PROVE  \E f : /\ f = [i \in 1..Len(s) |-> IF i = 1 THEN s[i] ELSE f[i - 1] \o s[i]]
                /\ FlattenSeq(s) = f[Len(s)]
  <1> DEFINE n == Len(s)
             step(f, i) == IF i = 1 THEN s[i] ELSE f[i - 1] \o s[i]
             upto(f, k) == f = [i \in 1..k |-> step(f, i)]
             T == {k \in Nat : \E f : upto(f, k)}
  <1> HIDE DEF n
  <1>1. 0 \in T
    <2>1. upto([i \in {} |-> <<>>], 0)
      OBVIOUS
    <2> QED BY <2>1
  <1>2. ASSUME NEW k \in Nat, k \in T PROVE k + 1 \in T
    <2>1. PICK f : upto(f, k)
      BY <1>2
    <2> DEFINE g == [i \in 1..(k + 1) |-> step(f, i)]
    <2>2. ASSUME NEW i \in 1..k PROVE f[i] = step(f, i) /\ g[i] = step(f, i)
      <3> DEFINE ff == [j \in 1..k |-> step(f, j)]
      <3>1. f = ff
        BY <2>1, Zenon
      <3> HIDE DEF step
      <3>2. ff[i] = step(f, i)
        OBVIOUS
      <3>3. g[i] = step(f, i)
        OBVIOUS
      <3> HIDE DEF ff
      <3> QED BY <3>1, <3>2, <3>3
    <2>3. ASSUME NEW i \in 1..(k + 1) PROVE step(f, i) = step(g, i)
      <3>1. CASE i = 1
        BY <3>1
      <3>2. CASE i # 1
        <4>1. i - 1 \in 1..k
          BY <3>2
        <4>2. f[i - 1] = g[i - 1]
          BY <4>1, <2>2
        <4> HIDE DEF g
        <4> QED BY <3>2, <4>2
      <3> QED BY <3>1, <3>2
    <2>4. upto(g, k + 1)
      <3> HIDE DEF step
      <3> QED BY <2>3
    <2> HIDE DEF upto, g
    <2> QED BY <2>4
  <1> HIDE DEF T
  <1>3. n \in T
    BY <1>1, <1>2, Induction DEF n
  <1>4. \E f : upto(f, n)
    BY <1>3 DEF T
  <1> DEFINE flatten == CHOOSE f : upto(f, n)
  <1>5. upto(flatten, n)
    <2> HIDE DEF upto
    <2> QED BY <1>4
  <1>6. FlattenSeq(s) = flatten[n]
    BY Zenon DEF FlattenSeq, n
  <1> QED BY <1>5, <1>6, Zenon DEF n

\* pos[i] members of the flattened s lie before its i-th piece.
Offsets(s, n, pos) ==
  /\ \A i \in 1..(n + 1) : pos[i] \in Nat
  /\ pos[1] = 0
  /\ \A i \in 1..n : /\ pos[i + 1] = pos[i] + Len(s[i])
                    /\ pos[i + 1] <= Len(FlattenSeq(s))
  /\ \A i \in 1..n, k \in Nat \ {0} :
       k <= Len(s[i]) => FlattenSeq(s)[pos[i] + k] = s[i][k]
  /\ Len(FlattenSeq(s)) = pos[n + 1]

\* FlattenSeq puts the pieces one behind the other.
LEMMA Flattened ==
  ASSUME NEW S, NEW s \in Seq(Seq(S)), NEW n, n = Len(s)
  PROVE  FlattenSeq(s) \in Seq(S) /\ \E pos : Offsets(s, n, pos)
  <1>0. n \in Nat /\ \A i \in 1..n : s[i] \in Seq(S)
    BY LenProperties, ElementOfSeq
  <1>1. CASE n = 0
    <2> DEFINE pos == [i \in 1..1 |-> 0]
    <2>1. s = <<>> /\ FlattenSeq(s) = s
      <3>1. s = <<>>
        BY <1>1, EmptySeq
      <3>2. FlattenSeq(s) = s
        BY <1>1 DEF FlattenSeq
      <3> QED BY <3>1, <3>2
    <2>2. s \in Seq(S)
      BY <2>1, EmptySeq
    <2>3. pos[1] = 0 /\ \A i \in 1..(n + 1) : i = 1
      BY <1>1
    <2>4. \A i \in 1..n : FALSE
      BY <1>1
    <2>5. FlattenSeq(s) \in Seq(S) /\ Len(FlattenSeq(s)) = 0 /\ n + 1 = 1
      <3>1. FlattenSeq(s) \in Seq(S)
        BY <2>1, <2>2
      <3>2. Len(FlattenSeq(s)) = 0
        BY <1>1, <2>1
      <3> QED BY <1>1, <3>1, <3>2
    <2> HIDE DEF pos
    <2>6. \A i \in 1..(n + 1) : pos[i] \in Nat
      BY <2>3
    <2>7. Offsets(s, n, pos)
      BY <2>3, <2>4, <2>5, <2>6 DEF Offsets
    <2> QED BY <2>5, <2>7
  <1>2. CASE n # 0
    <2>1. PICK f : /\ f = [i \in 1..n |-> IF i = 1 THEN s[i] ELSE f[i - 1] \o s[i]]
                   /\ FlattenSeq(s) = f[n]
      BY <1>0, <1>2, FlattenRecursion
    <2>2. /\ f[1] = s[1]
          /\ \A i \in 1..n : i # 1 => f[i] = f[i - 1] \o s[i]
      <3> DEFINE step(i) == IF i = 1 THEN s[i] ELSE f[i - 1] \o s[i]
                 ff == [i \in 1..n |-> step(i)]
      <3>1. f = ff
        BY <2>1, Zenon
      <3> HIDE DEF step
      <3>2. ASSUME NEW i \in 1..n PROVE ff[i] = step(i)
        OBVIOUS
      <3> HIDE DEF ff
      <3>3. \A i \in 1..n : f[i] = step(i)
        BY <3>1, <3>2
      <3>4. 1 \in 1..n
        BY <1>0, <1>2
      <3> QED BY <3>3, <3>4, Zenon DEF step
    <2> DEFINE pos == [i \in 1..(n + 1) |-> IF i = 1 THEN 0 ELSE Len(f[i - 1])]
               Placed(j) == \A i \in 1..j, k \in Nat \ {0} :
                              k <= Len(s[i]) => f[j][pos[i] + k] = s[i][k]
               good(j) == /\ f[j] \in Seq(S)
                          /\ pos[j] \in Nat /\ Len(f[j]) = pos[j] + Len(s[j])
                          /\ \A i \in 1..j : pos[i] \in Nat /\ pos[i] + Len(s[i]) <= Len(f[j])
                          /\ Placed(j)
               T == {j \in Nat : j < n => good(j + 1)}
    <2>3. pos[1] = 0 /\ \A i \in 1..n : pos[i + 1] = Len(f[i])
      BY <1>0, <1>2
    <2> HIDE DEF pos
    <2>4. 0 \in T
      <3>1. 1 \in 1..n
        BY <1>0, <1>2
      <3>2. f[1] = s[1] /\ f[1] \in Seq(S) /\ Len(f[1]) \in Nat
        BY <3>1, <1>0, <2>2, LenProperties
      <3>3. good(1)
        BY <2>3, <3>2
      <3> HIDE DEF good
      <3> QED BY <3>3
    <2>5. ASSUME NEW j \in Nat, j \in T PROVE j + 1 \in T
      <3> SUFFICES ASSUME j + 1 < n PROVE good(j + 2)
        <4> HIDE DEF good
        <4> QED OBVIOUS
      <3>1. good(j + 1)
        <4> HIDE DEF good
        <4> QED BY <1>0, <2>5
      <3>2. j + 2 \in 1..n /\ j + 1 \in 1..n /\ (j + 2) - 1 = j + 1 /\ j + 2 # 1
        BY <1>0
      <3> DEFINE a == f[j + 1]
                 b == s[j + 2]
                 c == f[j + 2]
      <3>3. c = a \o b
        BY <2>2, <3>2
      <3>4. a \in Seq(S) /\ b \in Seq(S)
        BY <1>0, <3>1, <3>2
      <3>5. /\ c \in Seq(S) /\ Len(c) = Len(a) + Len(b) /\ Len(a) \in Nat /\ Len(b) \in Nat
            /\ \A k \in 1..(Len(a) + Len(b)) : c[k] = IF k <= Len(a) THEN a[k] ELSE b[k - Len(a)]
        <4> HIDE DEF a, b, c
        <4> QED BY <3>3, <3>4, ConcatProperties, LenProperties
      <3>6. pos[j + 2] = Len(a)
        BY <2>3, <3>2
      <3>7. \A i \in 1..(j + 1) : /\ pos[i] \in Nat /\ Len(s[i]) \in Nat
                                  /\ pos[i] + Len(s[i]) <= Len(a)
                                  /\ \A k \in Nat \ {0} : k <= Len(s[i]) => a[pos[i] + k] = s[i][k]
        BY <1>0, <3>1, <3>2, LenProperties
      <3> HIDE DEF a, c
      <3>8. ASSUME NEW i \in 1..(j + 2), NEW k \in Nat \ {0}, k <= Len(s[i])
            PROVE  c[pos[i] + k] = s[i][k]
        <4>1. CASE i = j + 2
          <5>1. Len(a) + k \in 1..(Len(a) + Len(b)) /\ ~(Len(a) + k <= Len(a))
                /\ (Len(a) + k) - Len(a) = k
            BY <3>5, <3>8, <4>1
          <5>2. c[Len(a) + k] = b[k]
            BY <3>5, <5>1
          <5> QED BY <3>6, <4>1, <5>2
        <4>2. CASE i # j + 2
          <5>0. i \in 1..(j + 1)
            BY <4>2
          <5>1. pos[i] + k \in 1..(Len(a) + Len(b)) /\ pos[i] + k <= Len(a)
            BY <3>5, <3>7, <3>8, <5>0
          <5>2. c[pos[i] + k] = a[pos[i] + k]
            BY <3>5, <5>1
          <5> QED BY <3>7, <3>8, <5>0, <5>2
        <4> QED BY <4>1, <4>2
      <3>9. \A i \in 1..(j + 2) : pos[i] \in Nat /\ pos[i] + Len(s[i]) <= Len(c)
        <4>1. pos[j + 2] \in Nat /\ pos[j + 2] + Len(b) <= Len(c)
          BY <3>5, <3>6
        <4>2. \A i \in 1..(j + 1) : pos[i] \in Nat /\ pos[i] + Len(s[i]) <= Len(c)
          BY <3>5, <3>7
        <4>3. \A i \in 1..(j + 2) : i = j + 2 \/ i \in 1..(j + 1)
          OBVIOUS
        <4> QED BY <4>1, <4>2, <4>3
      <3> QED BY <3>5, <3>6, <3>8, <3>9 DEF c
    <2>6. \A j \in Nat : j \in T
      <3> HIDE DEF T
      <3> QED BY <2>4, <2>5, Induction
    <2> HIDE DEF good
    <2>7. \A j \in 1..n : good(j)
      <3>1. ASSUME NEW j \in 1..n PROVE good(j)
        <4>1. j - 1 \in Nat /\ j - 1 < n /\ (j - 1) + 1 = j
          BY <1>0
        <4>2. good((j - 1) + 1)
          BY <2>6, <4>1
        <4> QED BY <4>1, <4>2
      <3> QED BY <3>1
    <2>8. n \in 1..n
      BY <1>0, <1>2
    <2>9. \A i \in 1..n : pos[i + 1] = pos[i] + Len(s[i]) /\ pos[i] \in Nat /\ pos[i + 1] \in Nat
      BY <2>3, <2>7, <1>0, LenProperties DEF good
    <2>10. ASSUME NEW i \in 1..(n + 1) PROVE pos[i] \in Nat
      <3>1. CASE i = 1
        BY <2>3, <3>1
      <3>2. CASE i # 1
        <4>1. i - 1 \in 1..n /\ (i - 1) + 1 = i
          BY <1>0, <3>2
        <4> QED BY <2>9, <4>1
      <3> QED BY <3>1, <3>2
    <2>11. /\ \A i \in 1..n : pos[i + 1] <= Len(f[n])
           /\ f[n] \in Seq(S) /\ Len(f[n]) = pos[n + 1]
           /\ \A i \in 1..n, k \in Nat \ {0} : k <= Len(s[i]) => f[n][pos[i] + k] = s[i][k]
      BY <2>3, <2>7, <2>8, <2>9 DEF good
    <2>12. Offsets(s, n, pos)
      <3>1. /\ \A i \in 1..n : pos[i + 1] <= Len(FlattenSeq(s))
            /\ FlattenSeq(s) \in Seq(S) /\ Len(FlattenSeq(s)) = pos[n + 1]
            /\ \A i \in 1..n, k \in Nat \ {0} :
                 k <= Len(s[i]) => FlattenSeq(s)[pos[i] + k] = s[i][k]
        <4> DEFINE flat == FlattenSeq(s)
        <4>1. flat = f[n]
          BY <2>1, Zenon
        <4> HIDE DEF flat
        <4>2. /\ \A i \in 1..n : pos[i + 1] <= Len(flat)
              /\ flat \in Seq(S) /\ Len(flat) = pos[n + 1]
              /\ \A i \in 1..n, k \in Nat \ {0} : k <= Len(s[i]) => flat[pos[i] + k] = s[i][k]
          BY ONLY <4>1, <2>11
        <4> QED BY <4>2, Zenon DEF flat
      <3>2. \A i \in 1..n : pos[i + 1] = pos[i] + Len(s[i])
        BY <2>9
      <3> QED BY <2>3, <2>10, <3>1, <3>2, Zenon DEF Offsets
    <2> QED BY <2>1, <2>11, <2>12, Zenon
  <1> QED BY <1>1, <1>2

-----------------------------------------------------------------------------
(***************************************************************************)
(* Escaping, and a scraper that undoes it.                                 *)
(***************************************************************************)
\* What an escaped character looks like.
LEMMA EscapedShape ==
  ASSUME NEW ch \in Char
  PROVE  /\ escaped(ch) \in Seq(Char)
         /\ \/ ch = "n" /\ Len(escaped(ch)) = 1 /\ escaped(ch)[1] = ch
            \/ /\ ch # "n" /\ Len(escaped(ch)) = 2 /\ escaped(ch)[1] = "backslash"
               /\ escaped(ch)[2] = IF ch = "newline" THEN "n" ELSE ch
  <1>1. ASSUME NEW a \in Char PROVE <<a>> \in Seq(Char) /\ Len(<<a>>) = 1 /\ <<a>>[1] = a
    OBVIOUS
  <1>2. ASSUME NEW a \in Char, NEW b \in Char, NEW c, c = <<a, b>>
        PROVE  c \in Seq(Char) /\ Len(c) = 2 /\ c[1] = a /\ c[2] = b
    BY <1>2
  <1>3. "backslash" \in Char /\ "n" \in Char
    BY DEF Char
  <1>4. CASE ch = "n"
    <2>1. escaped(ch) = <<ch>>
      BY <1>4 DEF escaped
    <2> QED BY <1>1, <1>4, <2>1, Zenon
  <1>5. CASE ch = "newline"
    <2>1. escaped(ch) = <<"backslash", "n">> /\ ch # "n"
      BY <1>5 DEF escaped
    <2>2. /\ escaped(ch) \in Seq(Char) /\ Len(escaped(ch)) = 2
          /\ escaped(ch)[1] = "backslash" /\ escaped(ch)[2] = "n"
      BY <1>2, <1>3, <2>1
    <2> QED BY <1>5, <2>1, <2>2
  <1>6. CASE ch \in {"backslash", "quote"}
    <2>1. escaped(ch) = <<"backslash", ch>> /\ ch # "n" /\ ch # "newline"
      BY <1>6 DEF escaped
    <2>2. /\ escaped(ch) \in Seq(Char) /\ Len(escaped(ch)) = 2
          /\ escaped(ch)[1] = "backslash" /\ escaped(ch)[2] = ch
      BY <1>2, <1>3, <2>1
    <2> QED BY <2>1, <2>2
  <1> QED BY <1>4, <1>5, <1>6 DEF Char

\* read satisfies its recursion.
LEMMA ReadRecursion ==
  ASSUME NEW label, NEW n \in Nat, n = Len(label)
  PROVE  \E read :
           /\ Read(label) = read[1]
           /\ \A i \in 1..(n + 1) :
                read[i] = IF i > n THEN <<>>
                          ELSE IF label[i] # "backslash"
                          THEN IF label[i] \in {"quote", "newline"} THEN <<"malformed">>
                               ELSE <<label[i]>> \o read[i + 1]
                          ELSE IF i = n \/ label[i + 1] = "newline" THEN <<"malformed">>
                          ELSE <<IF label[i + 1] = "n" THEN "newline" ELSE label[i + 1]>> \o read[i + 2]
  <1> DEFINE step(read, i) ==
               IF i > n THEN <<>>
               ELSE IF label[i] # "backslash"
               THEN IF label[i] \in {"quote", "newline"} THEN <<"malformed">>
                    ELSE <<label[i]>> \o read[i + 1]
               ELSE IF i = n \/ label[i + 1] = "newline" THEN <<"malformed">>
               ELSE <<IF label[i + 1] = "n" THEN "newline" ELSE label[i + 1]>> \o read[i + 2]
             from(read, k) == read = [i \in (n + 1 - k)..(n + 1) |-> step(read, i)]
             T == {k \in Nat : k <= n => \E read : from(read, k)}
  <1>1. ASSUME NEW f, NEW g, NEW i \in Nat,
               \A j \in Nat : i < j /\ j <= n + 1 => f[j] = g[j]
        PROVE  step(f, i) = step(g, i)
    <2>1. CASE i > n
      BY <2>1
    <2>3. CASE i = n
      <3>1. f[i + 1] = g[i + 1] /\ ~(i > n)
        BY <1>1, <2>3
      <3> QED BY <3>1, <2>3, Zenon
    <2>2. CASE i < n
      <3>1. f[i + 1] = g[i + 1] /\ f[i + 2] = g[i + 2]
        BY <1>1, <2>2
      <3> QED BY <3>1, Zenon
    <2> QED BY <2>1, <2>2, <2>3
  <1> HIDE DEF step
  <1>2. ASSUME NEW f, NEW S, f = [i \in S |-> step(f, i)], NEW i \in S PROVE f[i] = step(f, i)
    <2> DEFINE ff == [j \in S |-> step(f, j)]
    <2>1. ff[i] = step(f, i)
      OBVIOUS
    <2>2. f = ff
      BY <1>2, Zenon
    <2> HIDE DEF ff
    <2> QED BY <2>1, <2>2
  <1>3. 0 \in T
    <2> DEFINE r == [i \in (n + 1)..(n + 1) |-> <<>>]
    <2>1. \A i \in (n + 1)..(n + 1) : step(r, i) = <<>>
      BY DEF step
    <2>2. from(r, 0)
      BY <2>1
    <2> HIDE DEF r
    <2> QED BY <2>2
  <1>4. ASSUME NEW k \in Nat, k \in T PROVE k + 1 \in T
    <2> SUFFICES ASSUME k + 1 <= n PROVE \E g : from(g, k + 1)
      OBVIOUS
    <2>1. PICK f : from(f, k)
      BY <1>4
    <2> DEFINE m == n - k
               g == [i \in m..(n + 1) |-> step(f, i)]
    <2>2. m \in Nat /\ n + 1 - k = m + 1 /\ n + 1 - (k + 1) = m
      OBVIOUS
    <2> HIDE DEF m
    <2>3. f = [i \in (m + 1)..(n + 1) |-> step(f, i)]
      BY <2>1, <2>2
    <2>4. ASSUME NEW i \in (m + 1)..(n + 1) PROVE f[i] = g[i]
      <3>1. f[i] = step(f, i)
        BY <2>3, <1>2
      <3>2. i \in m..(n + 1)
        BY <2>2
      <3> QED BY <3>1, <3>2
    <2>5. ASSUME NEW i \in m..(n + 1) PROVE step(f, i) = step(g, i)
      <3> HIDE DEF g
      <3>1. ASSUME NEW j \in Nat, i < j, j <= n + 1 PROVE f[j] = g[j]
        <4>1. j \in (m + 1)..(n + 1)
          BY <2>2, <3>1
        <4> QED BY <2>4, <4>1
      <3> QED BY <3>1, <1>1, <2>2
    <2>6. from(g, k + 1)
      BY <2>2, <2>5
    <2> HIDE DEF g, from
    <2> QED BY <2>6
  <1> HIDE DEF T
  <1>5. n \in T
    BY <1>3, <1>4, Induction
  <1>6. \E read : from(read, n)
    BY <1>5 DEF T
  <1> DEFINE read == CHOOSE r : r = [i \in 1..(n + 1) |-> step(r, i)]
  <1>7. read = [i \in 1..(n + 1) |-> step(read, i)]
    <2>1. \E r : r = [i \in 1..(n + 1) |-> step(r, i)]
      BY <1>6
    <2> QED BY <2>1, Zenon
  <1>8. \A i \in 1..(n + 1) : read[i] = step(read, i)
    <2> HIDE DEF read
    <2> QED BY <1>2, <1>7
  <1>9. Read(label) = read[1]
    BY Zenon DEF Read, step
  <1> QED BY <1>8, <1>9, Zenon DEF step

\* A scraper that unescapes a label reads the name behind it.
LEMMA EscapingIsUndone ==
  ASSUME NEW name \in Seq(Char)
  PROVE  /\ escape_label(name) \in Seq(Char)
         /\ Read(escape_label(name)) = name
  <1> DEFINE label == escape_label(name)
             pieces == [i \in DOMAIN name |-> escaped(name[i])]
             length == Len(label)
  <1>1. PICK n \in Nat : n = Len(name)
    BY LenProperties
  <1>2. DOMAIN name = 1..n /\ \A i \in 1..n : name[i] \in Char
    BY <1>1, LenProperties, ElementOfSeq
  <1>3. pieces \in Seq(Seq(Char)) /\ Len(pieces) = n /\ \A i \in 1..n : pieces[i] = escaped(name[i])
    <2>1. pieces = [i \in 1..n |-> escaped(name[i])]
      BY <1>2
    <2>2. \A i \in 1..n : escaped(name[i]) \in Seq(Char)
      BY <1>2, EscapedShape
    <2>3. pieces \in [1..n -> Seq(Char)]
      BY <2>1, <2>2
    <2> QED BY <2>1, <2>3
  <1>4. label = FlattenSeq(pieces)
    BY DEF escape_label
  <1> HIDE DEF pieces, label
  <1>5. label \in Seq(Char) /\ \E pos : Offsets(pieces, n, pos)
    BY <1>3, <1>4, Flattened
  <1>6. PICK pos : Offsets(pieces, n, pos)
    BY <1>5
  <1>7. length \in Nat
    BY <1>5, LenProperties
  <1>8. PICK read :
          /\ Read(label) = read[1]
          /\ \A i \in 1..(length + 1) :
               read[i] = IF i > length THEN <<>>
                         ELSE IF label[i] # "backslash"
                         THEN IF label[i] \in {"quote", "newline"} THEN <<"malformed">>
                              ELSE <<label[i]>> \o read[i + 1]
                         ELSE IF i = length \/ label[i + 1] = "newline" THEN <<"malformed">>
                         ELSE <<IF label[i + 1] = "n" THEN "newline" ELSE label[i + 1]>> \o read[i + 2]
    BY <1>7, ReadRecursion
  <1>9. ASSUME NEW i \in 1..n
        PROVE  read[pos[i] + 1] = <<name[i]>> \o read[pos[i + 1] + 1]
    <2> DEFINE p == pos[i]
               q == pos[i + 1]
               ch == name[i]
    <2>1. /\ p \in Nat /\ q \in Nat /\ q = p + Len(escaped(ch)) /\ q <= length
          /\ \A k \in Nat \ {0} : k <= Len(escaped(ch)) => label[p + k] = escaped(ch)[k]
      BY <1>3, <1>4, <1>6 DEF Offsets
    <2>2. ch \in Char
      BY <1>2
    <2> HIDE DEF p, q, ch, length
    <2>3. CASE ch = "n" /\ Len(escaped(ch)) = 1 /\ escaped(ch)[1] = ch
      <3>1. /\ q = p + 1 /\ p + 1 \in 1..(length + 1) /\ ~(p + 1 > length)
            /\ (p + 1) + 1 = q + 1
            /\ label[p + 1] = "n"
        BY <1>7, <2>1, <2>3
      <3>2. label[p + 1] # "backslash" /\ label[p + 1] \notin {"quote", "newline"}
        BY <3>1
      <3>3. read[p + 1] = <<label[p + 1]>> \o read[(p + 1) + 1]
        BY <1>8, <3>1, <3>2, Zenon
      <3> QED BY <2>3, <3>1, <3>3, Zenon DEF p, q, ch
    <2>4. CASE /\ ch # "n" /\ Len(escaped(ch)) = 2 /\ escaped(ch)[1] = "backslash"
               /\ escaped(ch)[2] = IF ch = "newline" THEN "n" ELSE ch
      <3>1. /\ q = p + 2 /\ p + 1 \in 1..(length + 1) /\ ~(p + 1 > length) /\ p + 1 # length
            /\ (p + 1) + 2 = q + 1 /\ (p + 1) + 1 = p + 2
            /\ label[p + 1] = "backslash"
            /\ label[p + 2] = IF ch = "newline" THEN "n" ELSE ch
        BY <1>7, <2>1, <2>4
      <3>2. label[(p + 1) + 1] # "newline"
        BY <3>1
      <3>3. read[p + 1] = <<IF label[(p + 1) + 1] = "n" THEN "newline" ELSE label[(p + 1) + 1]>>
                            \o read[(p + 1) + 2]
        BY <1>8, <3>1, <3>2, Zenon
      <3>4. (IF label[(p + 1) + 1] = "n" THEN "newline" ELSE label[(p + 1) + 1]) = ch
        BY <2>4, <3>1
      <3> QED BY <3>1, <3>3, <3>4, Zenon DEF p, q, ch
    <2> QED BY <2>2, <2>3, <2>4, EscapedShape
  <1> DEFINE T == {j \in Nat : j <= n => read[pos[n + 1 - j] + 1] = SubSeq(name, n + 1 - j, n)}
  <1>10. 0 \in T
    <2>1. pos[n + 1] = length
      BY <1>4, <1>6 DEF Offsets
    <2>2. read[length + 1] = <<>>
      <3>1. length + 1 \in 1..(length + 1) /\ length + 1 > length
        BY <1>7
      <3> QED BY <1>8, <3>1, Zenon
    <2>3. SubSeq(name, n + 1, n) = <<>>
      BY SubSeqEmpty
    <2>4. n + 1 - 0 = n + 1
      OBVIOUS
    <2> QED BY <2>1, <2>2, <2>3, <2>4, Zenon
  <1>11. ASSUME NEW j \in Nat, j \in T PROVE j + 1 \in T
    <2> SUFFICES ASSUME j + 1 <= n
                 PROVE  read[pos[n + 1 - (j + 1)] + 1] = SubSeq(name, n + 1 - (j + 1), n)
      OBVIOUS
    <2> DEFINE i == n - j
    <2>1. i \in 1..n /\ n + 1 - (j + 1) = i /\ n + 1 - j = i + 1 /\ n \in i..n /\ j <= n
      OBVIOUS
    <2>2. read[pos[i + 1] + 1] = SubSeq(name, i + 1, n)
      BY <1>11, <2>1
    <2> HIDE DEF i
    <2>3. SubSeq(name, i, n) = <<name[i]>> \o SubSeq(name, i + 1, n)
      BY <1>1, <2>1, SubSeqRecursiveFirst
    <2>4. read[pos[i] + 1] = <<name[i]>> \o SubSeq(name, i + 1, n)
      BY <1>9, <2>1, <2>2, Zenon
    <2> QED BY <2>1, <2>3, <2>4, Zenon
  <1>12. n \in T
    <2> HIDE DEF T
    <2> QED BY <1>10, <1>11, Induction
  <1>13. read[pos[1] + 1] = SubSeq(name, 1, n)
    BY <1>12
  <1>14. pos[1] + 1 = 1
    BY <1>6 DEF Offsets
  <1>15. SubSeq(name, 1, n) = name
    BY <1>1, SubSeqFull
  <1> QED BY <1>5, <1>8, <1>13, <1>14, <1>15, Zenon DEF label

\* Every name comes back.
LEMMA NamesFollow == ResultsInv => NamesReadBack
  <1> SUFFICES ASSUME ResultsInv, NEW i \in DOMAIN results
               PROVE  Read(Gauge(results[i]).check) = results[i].name
    BY DEF NamesReadBack
  <1>1. results[i].name \in Seq(Char)
    <2>1. results[i] \in Result
      BY DEF ResultsInv
    <2>2. results[i].name \in Name
      BY <2>1 DEF Result
    <2> QED BY <2>2, ExpositionAssumption
  <1>2. Gauge(results[i]).check = escape_label(results[i].name)
    BY DEF Gauge, Line
  <1> QED BY <1>1, <1>2, EscapingIsUndone

\* For names of any length: what a scraper unescapes is the name that was
\* registered.
THEOREM NamesRead == Spec => []NamesReadBack
  BY ResultsInvariant, NamesFollow, PTL

-----------------------------------------------------------------------------
(***************************************************************************)
(* The lines of an exposition and their series.                            *)
(***************************************************************************)
\* The lines of an exposition, by position, for n results.
Laid(out, n) ==
  /\ Len(out) = 2 + 15 * n /\ DOMAIN out = 1..(2 + 15 * n)
  /\ out[1] = GaugeHeader
  /\ \A i \in 1..n : out[1 + i] = Gauge(results[i])
  /\ out[2 + n] = HistogramHeader
  /\ \A i \in 1..n, k \in 1..14 : out[2 + n + 14 * (i - 1) + k] = Histogram(results[i])[k]

\* Pieces of fourteen lie fourteen apart.
LEMMA EveryFourteen ==
  ASSUME NEW n \in Nat, NEW pos, pos[1] = 0, \A i \in 1..n : pos[i + 1] = pos[i] + 14
  PROVE  \A i \in 1..(n + 1) : pos[i] = 14 * (i - 1)
  <1> DEFINE T == {j \in Nat : j <= n => pos[j + 1] = 14 * j}
  <1>1. 0 \in T
    OBVIOUS
  <1>2. ASSUME NEW j \in Nat, j \in T PROVE j + 1 \in T
    <2>1. CASE j + 1 <= n
      <3>1. pos[j + 1] = 14 * j /\ j + 1 \in 1..n
        BY <1>2, <2>1
      <3>2. pos[(j + 1) + 1] = 14 * j + 14
        BY <3>1
      <3> QED BY <3>2
    <2>2. CASE ~(j + 1 <= n)
      BY <2>2
    <2> QED BY <2>1, <2>2
  <1>3. \A j \in Nat : j \in T
    <2> HIDE DEF T
    <2> QED BY <1>1, <1>2, Induction
  <1>4. ASSUME NEW i \in 1..(n + 1) PROVE pos[i] = 14 * (i - 1)
    <2>1. i - 1 \in Nat /\ i - 1 <= n /\ (i - 1) + 1 = i
      OBVIOUS
    <2>2. i - 1 \in T
      BY <1>3, <2>1
    <2> QED BY <2>1, <2>2
  <1> QED BY <1>4

\* The histograms of all the checks, one behind the other.
LEMMA HistogramsLaid ==
  ASSUME NEW n \in Nat, NEW R, NEW pieces \in Seq(Seq(R)), n = Len(pieces),
         \A i \in 1..n : Len(pieces[i]) = 14
  PROVE  /\ FlattenSeq(pieces) \in Seq(R)
         /\ Len(FlattenSeq(pieces)) = 14 * n
         /\ \A i \in 1..n, k \in 1..14 : FlattenSeq(pieces)[14 * (i - 1) + k] = pieces[i][k]
  <1>1. FlattenSeq(pieces) \in Seq(R) /\ \E pos : Offsets(pieces, n, pos)
    BY Flattened
  <1>2. PICK pos : Offsets(pieces, n, pos)
    BY <1>1
  <1>3. \A i \in 1..(n + 1) : pos[i] = 14 * (i - 1)
    <2>1. pos[1] = 0 /\ \A i \in 1..n : pos[i + 1] = pos[i] + 14
      BY <1>2 DEF Offsets
    <2> QED BY <2>1, EveryFourteen
  <1>4. Len(FlattenSeq(pieces)) = 14 * n
    <2>1. Len(FlattenSeq(pieces)) = pos[n + 1] /\ n + 1 \in 1..(n + 1)
      BY <1>2 DEF Offsets
    <2> QED BY <1>3, <2>1
  <1>5. ASSUME NEW i \in 1..n, NEW k \in 1..14
        PROVE  FlattenSeq(pieces)[14 * (i - 1) + k] = pieces[i][k]
    <2>1. pos[i] = 14 * (i - 1)
      BY <1>3
    <2>2. FlattenSeq(pieces)[pos[i] + k] = pieces[i][k]
      <3>1. \A j \in 1..n, l \in Nat \ {0} :
              l <= Len(pieces[j]) => FlattenSeq(pieces)[pos[j] + l] = pieces[j][l]
        BY <1>2 DEF Offsets
      <3>2. k \in Nat \ {0} /\ k <= Len(pieces[i])
        <4>1. Len(pieces[i]) = 14
          OBVIOUS
        <4>2. k \in Nat \ {0} /\ k <= 14
          BY ONLY k \in 1..14
        <4> QED BY <4>1, <4>2, Zenon
      <3> QED BY <3>1, <3>2, Zenon
    <2> QED BY <2>1, <2>2
  <1> QED BY <1>1, <1>4, <1>5

\* The members of four sequences, one after the other.
Members(S, e, a, b, c, d) ==
  /\ e \in Seq(S) /\ Len(e) = 2 + Len(b) + Len(d)
  /\ e[1] = a[1] /\ \A i \in 1..Len(b) : e[1 + i] = b[i]
  /\ e[2 + Len(b)] = c[1] /\ \A k \in 1..Len(d) : e[2 + Len(b) + k] = d[k]

\* Four parts joined, the first and the third of a single line.
LEMMA FourJoined ==
  ASSUME NEW S, NEW a \in Seq(S), NEW b \in Seq(S), NEW c \in Seq(S), NEW d \in Seq(S),
         Len(a) = 1, Len(c) = 1, NEW e, e = a \o b \o c \o d
  PROVE  Members(S, e, a, b, c, d)
  <1>1. PICK ab, abc : ab = a \o b /\ abc = ab \o c /\ e = abc \o d
    OBVIOUS
  <1>2. PICK n \in Nat, m \in Nat : Len(b) = n /\ Len(d) = m
    BY LenProperties
  <1>3. /\ ab \in Seq(S) /\ Len(ab) = Len(a) + Len(b)
        /\ \A k \in 1..(Len(a) + Len(b)) : ab[k] = IF k <= Len(a) THEN a[k] ELSE b[k - Len(a)]
    BY ONLY Joined, a \in Seq(S), b \in Seq(S), <1>1
  <1>4. /\ abc \in Seq(S) /\ Len(abc) = Len(ab) + Len(c)
        /\ \A k \in 1..(Len(ab) + Len(c)) : abc[k] = IF k <= Len(ab) THEN ab[k] ELSE c[k - Len(ab)]
    BY ONLY <1>3, Joined, c \in Seq(S), <1>1
  <1>5. /\ e \in Seq(S) /\ Len(e) = Len(abc) + Len(d)
        /\ \A k \in 1..(Len(abc) + Len(d)) : e[k] = IF k <= Len(abc) THEN abc[k] ELSE d[k - Len(abc)]
    <2>1. abc \in Seq(S)
      BY <1>4
    <2> QED BY ONLY <2>1, Joined, d \in Seq(S), <1>1
  <1>6. Len(ab) = 1 + n /\ Len(abc) = 2 + n /\ Len(e) = 2 + n + m
    BY ONLY n \in Nat, m \in Nat, Len(a) = 1, Len(c) = 1, <1>2, <1>3, <1>4, <1>5
  <1>7. e[1] = a[1] /\ \A i \in 1..n : e[1 + i] = b[i]
    BY ONLY n \in Nat, m \in Nat, Len(a) = 1, Len(c) = 1, <1>2,
            <1>3, <1>4, <1>5, <1>6
  <1>8. e[2 + n] = c[1] /\ \A k \in 1..m : e[2 + n + k] = d[k]
    BY ONLY n \in Nat, m \in Nat, Len(a) = 1, Len(c) = 1, <1>2,
            <1>3, <1>4, <1>5, <1>6
  <1> QED BY <1>5, <1>6, <1>7, <1>8, <1>2, Zenon DEF Members

\* A sequence of one.
LEMMA OneLine ==
  ASSUME NEW S, NEW x \in S, NEW c, c = <<x>>
  PROVE  c \in Seq(S) /\ Len(c) = 1 /\ c[1] = x
  OBVIOUS

\* Where the lines of an exposition are.
LEMMA LinesLaid ==
  ASSUME ResultsInv, NEW n, n = Len(results)
  PROVE  n \in Nat /\ Laid(Out, n)
  <1> DEFINE gauges == [i \in DOMAIN results |-> Gauge(results[i])]
             pieces == [i \in DOMAIN results |-> Histogram(results[i])]
             samples == FlattenSeq(pieces)
             R == UNION {{Histogram(results[i])[k] : k \in 1..14} : i \in 1..n}
             S == {GaugeHeader, HistogramHeader} \cup {Gauge(results[i]) : i \in 1..n} \cup R
  <1>1. n \in Nat /\ DOMAIN results = 1..n
    BY LenProperties DEF ResultsInv
  <1>2. gauges \in Seq(S) /\ Len(gauges) = n /\ \A i \in 1..n : gauges[i] = Gauge(results[i])
    <2>1. gauges = [i \in 1..n |-> Gauge(results[i])]
      BY <1>1
    <2>2. \A i \in 1..n : Gauge(results[i]) \in S
      OBVIOUS
    <2> HIDE DEF S
    <2>3. gauges \in [1..n -> S]
      BY <2>1, <2>2
    <2> QED BY <1>1, <2>1, <2>3
  <1>3. /\ pieces \in Seq(Seq(R)) /\ Len(pieces) = n
        /\ \A i \in 1..n : pieces[i] = Histogram(results[i]) /\ Len(pieces[i]) = 14
    <2>1. pieces = [i \in 1..n |-> Histogram(results[i])]
      BY <1>1
    <2>2. ASSUME NEW i \in 1..n
          PROVE  Histogram(results[i]) \in Seq(R) /\ Len(Histogram(results[i])) = 14
      <3> DEFINE h == Histogram(results[i])
                 own == {h[k] : k \in 1..14}
      <3>1. h \in Seq(own) /\ Len(h) = 14
        BY HistogramSamples
      <3>2. own \subseteq R
        OBVIOUS
      <3> HIDE DEF h, own, R
      <3>3. h \in Seq(R)
        BY <3>1, <3>2, SeqMonotonic
      <3> QED BY <3>1, <3>3 DEF h
    <2> HIDE DEF R
    <2>3. pieces \in [1..n -> Seq(R)]
      BY <2>1, <2>2
    <2>4. pieces \in Seq(Seq(R)) /\ Len(pieces) = n
      BY ONLY <1>1, <2>1, <2>3
    <2> QED BY <2>1, <2>2, <2>4
  <1> HIDE DEF gauges, pieces
  <1>4. /\ samples \in Seq(R) /\ Len(samples) = 14 * n
        /\ \A i \in 1..n, k \in 1..14 : samples[14 * (i - 1) + k] = pieces[i][k]
    <2> HIDE DEF R, S
    <2>1. n \in Nat /\ pieces \in Seq(Seq(R)) /\ n = Len(pieces) /\ \A i \in 1..n : Len(pieces[i]) = 14
      BY <1>1, <1>3
    <2> QED BY <2>1, HistogramsLaid, Zenon
  <1>5. samples \in Seq(S)
    <2>1. R \subseteq S
      OBVIOUS
    <2> HIDE DEF R, S, samples
    <2> QED BY <1>4, <2>1, SeqMonotonic
  <1>6. Out = <<GaugeHeader>> \o gauges \o <<HistogramHeader>> \o samples
    BY DEF Out, render_prometheus, gauges, pieces
  <1>7. GaugeHeader \in S /\ HistogramHeader \in S
    OBVIOUS
  <1> HIDE DEF R, S, samples
  <1>8. PICK a, c : a = <<GaugeHeader>> /\ c = <<HistogramHeader>>
    OBVIOUS
  <1>9. /\ a \in Seq(S) /\ Len(a) = 1 /\ a[1] = GaugeHeader
         /\ c \in Seq(S) /\ Len(c) = 1 /\ c[1] = HistogramHeader
    BY <1>7, <1>8, OneLine
  <1>10. PICK e : e = a \o gauges \o c \o samples
    OBVIOUS
  <1>11. e = Out
    BY <1>6, <1>8, <1>10, Zenon
  <1> DEFINE m == 14 * n
  <1>12. m \in Nat
    BY <1>1
  <1> HIDE DEF m
  <1>13. /\ e \in Seq(S) /\ Len(e) = 2 + n + m
         /\ e[1] = a[1] /\ \A i \in 1..n : e[1 + i] = gauges[i]
         /\ e[2 + n] = c[1] /\ \A k \in 1..m : e[2 + n + k] = samples[k]
    <2>1. Len(samples) = m
      BY <1>4 DEF m
    <2>2. gauges \in Seq(S) /\ Len(gauges) = n
      BY <1>2
    <2>3. Members(S, e, a, gauges, c, samples)
      BY <1>5, <1>9, <1>10, <2>2, FourJoined
    <2> QED BY <2>1, <2>2, <2>3, Zenon DEF Members
  <1>14. Len(e) = 2 + 15 * n /\ DOMAIN e = 1..(2 + 15 * n)
    <2>1. Len(e) = 2 + 15 * n
      BY ONLY <1>1, <1>13 DEF m
    <2>2. DOMAIN e = 1..Len(e)
      BY <1>13, LenProperties
    <2> QED BY <2>1, <2>2, Zenon
  <1>15. ASSUME NEW i \in 1..n, NEW k \in 1..14
         PROVE  e[2 + n + 14 * (i - 1) + k] = Histogram(results[i])[k]
    <2> DEFINE p == 14 * (i - 1) + k
    <2>1. p \in 1..m /\ 2 + n + 14 * (i - 1) + k = 2 + n + p
      BY ONLY <1>1, i \in 1..n, k \in 1..14 DEF m
    <2>2. samples[p] = pieces[i][k]
      BY <1>4
    <2>3. pieces[i][k] = Histogram(results[i])[k]
      BY <1>3, Zenon
    <2> HIDE DEF p
    <2>4. e[2 + n + p] = samples[p]
      BY <1>13, <2>1, Zenon
    <2> QED BY <2>1, <2>2, <2>3, <2>4, Zenon
  <1> QED BY <1>1, <1>2, <1>11, <1>13, <1>14, <1>15, <1>9, Zenon DEF Laid

\* For sweeps of any size: the text is the first header with all gauges, then
\* the second with all histograms, each in the order of the results, so the
\* lines of a family are one group behind its header, as the format demands.
THEOREM Layout == Spec => []Laid(Out, Len(results))
  <1>1. ResultsInv => Laid(Out, Len(results))
    BY LinesLaid
  <1> QED BY <1>1, ResultsInvariant, PTL

\* Names escape to different labels.
LEMMA LabelsDiffer ==
  ASSUME NEW a \in Seq(Char), NEW b \in Seq(Char), escape_label(a) = escape_label(b)
  PROVE  a = b
  BY EscapingIsUndone

\* Metric and bound of the k-th sample of a histogram.
SampleMetric(k) == IF k <= 12 THEN "bucket" ELSE IF k = 13 THEN "sum" ELSE "count"
SampleBound(k) == IF k <= 11 THEN LATENCY_BUCKETS[k] ELSE NoBound

\* They tell the samples of one histogram apart.
LEMMA SamplesDiffer ==
  ASSUME NEW k \in 1..14, NEW l \in 1..14,
         SampleMetric(k) = SampleMetric(l), SampleBound(k) = SampleBound(l)
  PROVE  k = l
  <1>1. CASE k <= 12 /\ l <= 12
    <2> DEFINE bound(j) == LATENCY_BUCKETS[j]
    <2>1. \A j \in 1..11 : bound(j) \in Nat \ {0}
      BY BoundsIncrease
    <2>2. \A i, j \in 1..11 : i < j => bound(i) < bound(j)
      BY BoundsIncrease
    <2>3. (IF k <= 11 THEN bound(k) ELSE 0) = (IF l <= 11 THEN bound(l) ELSE 0)
      BY DEF SampleBound, NoBound
    <2> HIDE DEF bound
    <2> QED BY <1>1, <2>1, <2>2, <2>3
  <1>2. CASE ~(k <= 12 /\ l <= 12)
    BY <1>2 DEF SampleMetric
  <1> QED BY <1>1, <1>2

\* The metric, the label and the bound of every line.
Told(out, n) ==
  /\ Series(out[1]) = <<"healthiness_header", <<>>, NoBound>>
  /\ \A i \in 1..n : Series(out[1 + i]) = <<"healthiness", escape_label(results[i].name), NoBound>>
  /\ Series(out[2 + n]) = <<"duration_header", <<>>, NoBound>>
  /\ \A i \in 1..n, k \in 1..14 :
       Series(out[2 + n + 14 * (i - 1) + k])
         = <<SampleMetric(k), escape_label(results[i].name), SampleBound(k)>>

\* A line's series follows from its position.
LEMMA LineSeries ==
  ASSUME ResultsInv, NEW n \in Nat, NEW out, Laid(out, n), n = Len(results)
  PROVE  Told(out, n)
  <1>1. \A metric, check, le, value : Series(Line(metric, check, le, value)) = <<metric, check, le>>
    BY DEF Series, Line
  <1>2. Series(out[1]) = <<"healthiness_header", <<>>, NoBound>>
    BY <1>1, Zenon DEF Laid, GaugeHeader
  <1>3. Series(out[2 + n]) = <<"duration_header", <<>>, NoBound>>
    BY <1>1, Zenon DEF Laid, HistogramHeader
  <1>4. ASSUME NEW i \in 1..n
        PROVE  Series(out[1 + i]) = <<"healthiness", escape_label(results[i].name), NoBound>>
    <2>1. out[1 + i] = Gauge(results[i])
      BY DEF Laid
    <2> QED BY <1>1, <2>1, Zenon DEF Gauge
  <1>5. ASSUME NEW i \in 1..n, NEW k \in 1..14
        PROVE  Series(out[2 + n + 14 * (i - 1) + k])
                 = <<SampleMetric(k), escape_label(results[i].name), SampleBound(k)>>
    <2> DEFINE h == Histogram(results[i])
               name == escape_label(results[i].name)
    <2>1. out[2 + n + 14 * (i - 1) + k] = h[k]
      BY DEF Laid
    <2>2. \E value : h[k] = Line(SampleMetric(k), name, SampleBound(k), value)
      <3>1. CASE k \in 1..11
        <4>1. SampleMetric(k) = "bucket" /\ SampleBound(k) = LATENCY_BUCKETS[k]
          BY <3>1 DEF SampleMetric, SampleBound
        <4>2. \E value : h[k] = Line("bucket", name, LATENCY_BUCKETS[k], value)
          BY <3>1, HistogramSamples, Zenon
        <4> QED BY <4>1, <4>2, Zenon
      <3>2. CASE k = 12
        <4>1. SampleMetric(k) = "bucket" /\ SampleBound(k) = NoBound
          BY <3>2 DEF SampleMetric, SampleBound
        <4>2. h[k] = Line("bucket", name, NoBound, 1)
          BY <3>2, HistogramSamples, Zenon
        <4> QED BY <4>1, <4>2, Zenon
      <3>3. CASE k = 13
        <4>1. SampleMetric(k) = "sum" /\ SampleBound(k) = NoBound
          BY <3>3 DEF SampleMetric, SampleBound
        <4>2. h[k] = Line("sum", name, NoBound, results[i].duration)
          BY <3>3, HistogramSamples, Zenon
        <4> QED BY <4>1, <4>2, Zenon
      <3>4. CASE k = 14
        <4>1. SampleMetric(k) = "count" /\ SampleBound(k) = NoBound
          BY <3>4 DEF SampleMetric, SampleBound
        <4>2. h[k] = Line("count", name, NoBound, 1)
          BY <3>4, HistogramSamples, Zenon
        <4> QED BY <4>1, <4>2, Zenon
      <3> QED BY <3>1, <3>2, <3>3, <3>4
    <2> QED BY <1>1, <2>1, <2>2, Zenon
  <1> QED BY <1>2, <1>3, <1>4, <1>5 DEF Told

\* Every line is a header, a gauge or a sample of a histogram.
LEMMA EveryLine ==
  ASSUME NEW n \in Nat, NEW p \in 1..(2 + 15 * n)
  PROVE  \/ p = 1 \/ p = 2 + n
         \/ \E i \in 1..n : p = 1 + i
         \/ \E i \in 1..n, k \in 1..14 : p = 2 + n + 14 * (i - 1) + k
  <1>1. CASE p <= 2 + n
    <2>1. p = 1 \/ p = 2 + n \/ (p - 1 \in 1..n /\ p = 1 + (p - 1))
      BY <1>1
    <2> QED BY <2>1
  <1>2. CASE p > 2 + n
    <2> DEFINE q == p - (2 + n) - 1
               T == {j \in Nat : j < 14 * n => \E i \in 1..n, k \in 1..14 : j = 14 * (i - 1) + (k - 1)}
    <2>1. 0 \in T
      <3> SUFFICES ASSUME 0 < 14 * n
                   PROVE  \E i \in 1..n, k \in 1..14 : 0 = 14 * (i - 1) + (k - 1)
        OBVIOUS
      <3>1. 1 \in 1..n /\ 1 \in 1..14 /\ 0 = 14 * (1 - 1) + (1 - 1)
        OBVIOUS
      <3> QED BY <3>1
    <2>2. ASSUME NEW j \in Nat, j \in T PROVE j + 1 \in T
      <3> SUFFICES ASSUME j + 1 < 14 * n
                   PROVE  \E i \in 1..n, k \in 1..14 : j + 1 = 14 * (i - 1) + (k - 1)
        OBVIOUS
      <3>1. PICK i \in 1..n, k \in 1..14 : j = 14 * (i - 1) + (k - 1)
        BY <2>2
      <3>2. CASE k < 14
        <4>1. k + 1 \in 1..14 /\ j + 1 = 14 * (i - 1) + ((k + 1) - 1)
          BY <3>1, <3>2
        <4> QED BY <4>1
      <3>3. CASE k = 14
        <4>1. i + 1 \in 1..n /\ 1 \in 1..14 /\ j + 1 = 14 * ((i + 1) - 1) + (1 - 1)
          BY <3>1, <3>3
        <4> QED BY <4>1
      <3> QED BY <3>2, <3>3
    <2>3. \A j \in Nat : j \in T
      <3> HIDE DEF T
      <3> QED BY <2>1, <2>2, Induction
    <2>4. q \in Nat /\ q < 14 * n
      BY <1>2
    <2>5. PICK i \in 1..n, k \in 1..14 : q = 14 * (i - 1) + (k - 1)
      BY <2>3, <2>4
    <2>6. p = 2 + n + 14 * (i - 1) + k
      BY <2>5
    <2> QED BY <2>6
  <1> QED BY <1>1, <1>2

\* No two lines of an exposition are of one series, when no two checks have one name.
LEMMA SeriesDiffer ==
  ASSUME ResultsInv, NEW n \in Nat, NEW out, Laid(out, n), n = Len(results),
         \A i, j \in 1..n : results[i].name = results[j].name => i = j,
         NEW p \in 1..(2 + 15 * n), NEW q \in 1..(2 + 15 * n), Series(out[p]) = Series(out[q])
  PROVE  p = q
  <1> DEFINE label(i) == escape_label(results[i].name)
             Header(r) == (r = 1 /\ Series(out[r]) = <<"healthiness_header", <<>>, NoBound>>)
                            \/ (r = 2 + n /\ Series(out[r]) = <<"duration_header", <<>>, NoBound>>)
             OfGauge(r, i) == r = 1 + i /\ Series(out[r]) = <<"healthiness", label(i), NoBound>>
             OfSample(r, i, k) == r = 2 + n + 14 * (i - 1) + k
                                    /\ Series(out[r]) = <<SampleMetric(k), label(i), SampleBound(k)>>
  <1>1. \A i, j \in 1..n : label(i) = label(j) => i = j
    <2> SUFFICES ASSUME NEW i \in 1..n, NEW j \in 1..n, label(i) = label(j) PROVE i = j
      OBVIOUS
    <2>1. \A m \in 1..n : results[m].name \in Seq(Char)
      <3> SUFFICES ASSUME NEW m \in 1..n PROVE results[m].name \in Seq(Char)
        OBVIOUS
      <3>1. results[m] \in Result
        BY ElementOfSeq DEF ResultsInv
      <3>2. results[m].name \in Name
        BY <3>1 DEF Result
      <3> QED BY <3>2, ExpositionAssumption
    <2>2. results[i].name = results[j].name
      BY <2>1, LabelsDiffer
    <2> QED BY <2>2
  <1>2. \A k \in 1..14 : SampleMetric(k) \in {"bucket", "sum", "count"}
    BY DEF SampleMetric
  <1>3. ASSUME NEW r \in 1..(2 + 15 * n)
        PROVE  \/ Header(r)
               \/ \E i \in 1..n : OfGauge(r, i)
               \/ \E i \in 1..n, k \in 1..14 : OfSample(r, i, k)
    <2>0. Told(out, n)
      BY LineSeries
    <2>1. CASE r = 1 \/ r = 2 + n
      BY <2>0, <2>1 DEF Told
    <2>2. CASE \E i \in 1..n : r = 1 + i
      BY <2>0, <2>2 DEF Told
    <2>3. CASE \E i \in 1..n, k \in 1..14 : r = 2 + n + 14 * (i - 1) + k
      <3>1. PICK i \in 1..n, k \in 1..14 : r = 2 + n + 14 * (i - 1) + k
        BY <2>3
      <3>2. Series(out[2 + n + 14 * (i - 1) + k]) = <<SampleMetric(k), label(i), SampleBound(k)>>
        BY <2>0, Zenon DEF Told
      <3>3. OfSample(r, i, k)
        BY <3>1, <3>2, Zenon
      <3> QED BY <3>3
    <2> QED BY <2>1, <2>2, <2>3, EveryLine
  <1> HIDE DEF label
  <1>4. ASSUME Header(p) PROVE p = q
    <2>1. ASSUME Header(q) PROVE p = q
      BY <1>4, <2>1
    <2>2. ASSUME NEW i \in 1..n, OfGauge(q, i) PROVE FALSE
      BY <1>4, <2>2
    <2>3. ASSUME NEW i \in 1..n, NEW k \in 1..14, OfSample(q, i, k) PROVE FALSE
      <3>1. SampleMetric(k) \in {"healthiness_header", "duration_header"}
        BY <1>4, <2>3
      <3> QED BY <1>2, <3>1
    <2> HIDE DEF Header, OfGauge, OfSample
    <2> QED BY <1>3, <2>1, <2>2, <2>3
  <1>5. ASSUME NEW i \in 1..n, OfGauge(p, i) PROVE p = q
    <2>1. ASSUME Header(q) PROVE FALSE
      BY <1>5, <2>1
    <2>2. ASSUME NEW j \in 1..n, OfGauge(q, j) PROVE p = q
      <3>1. label(i) = label(j)
        BY <1>5, <2>2
      <3> QED BY <1>1, <1>5, <2>2, <3>1
    <2>3. ASSUME NEW j \in 1..n, NEW k \in 1..14, OfSample(q, j, k) PROVE FALSE
      <3>1. SampleMetric(k) = "healthiness"
        BY <1>5, <2>3
      <3> QED BY <1>2, <3>1
    <2> HIDE DEF Header, OfGauge, OfSample
    <2> QED BY <1>3, <2>1, <2>2, <2>3
  <1>6. ASSUME NEW i \in 1..n, NEW k \in 1..14, OfSample(p, i, k) PROVE p = q
    <2>1. ASSUME Header(q) PROVE FALSE
      <3>1. SampleMetric(k) \in {"healthiness_header", "duration_header"}
        BY <1>6, <2>1
      <3> QED BY <1>2, <3>1
    <2>2. ASSUME NEW j \in 1..n, OfGauge(q, j) PROVE FALSE
      <3>1. SampleMetric(k) = "healthiness"
        BY <1>6, <2>2
      <3> QED BY <1>2, <3>1
    <2>3. ASSUME NEW j \in 1..n, NEW l \in 1..14, OfSample(q, j, l) PROVE p = q
      <3>1. label(i) = label(j) /\ SampleMetric(k) = SampleMetric(l) /\ SampleBound(k) = SampleBound(l)
        BY <1>6, <2>3
      <3>2. i = j /\ k = l
        BY <1>1, <3>1, SamplesDiffer
      <3> QED BY <1>6, <2>3, <3>2
    <2> HIDE DEF Header, OfGauge, OfSample
    <2> QED BY <1>3, <2>1, <2>2, <2>3
  <1> HIDE DEF Header, OfGauge, OfSample
  <1> QED BY <1>3, <1>4, <1>5, <1>6

\* As many series as lines.
LEMMA SeriesFollow == ResultsInv => SeriesAreUnique
  <1> SUFFICES ASSUME ResultsInv,
                      \A i, j \in DOMAIN results : results[i].name = results[j].name => i = j
               PROVE  LET out == Out IN Cardinality({Series(out[k]) : k \in DOMAIN out}) = Len(out)
    BY DEF SeriesAreUnique
  <1>1. PICK n : n = Len(results)
    OBVIOUS
  <1>2. n \in Nat /\ DOMAIN results = 1..n
    BY <1>1, LenProperties DEF ResultsInv
  <1>3. PICK out : out = Out
    OBVIOUS
  <1>4. Laid(out, n)
    BY <1>1, <1>3, LinesLaid
  <1> DEFINE N == 2 + 15 * n
             lines == 1..N
             T == {Series(out[k]) : k \in lines}
             f == [k \in lines |-> Series(out[k])]
  <1>5. DOMAIN out = lines /\ Len(out) = N
    BY <1>4 DEF Laid
  <1>6. \A p, q \in lines : Series(out[p]) = Series(out[q]) => p = q
    BY <1>1, <1>2, <1>4, SeriesDiffer
  <1>7. f \in Injection(lines, T)
    BY <1>6 DEF Injection, IsInjective
  <1>8. f \in Surjection(lines, T)
    BY DEF Surjection
  <1>9. IsFiniteSet(lines) /\ Cardinality(lines) = N
    BY <1>2, FS_Interval
  <1>10. Cardinality(T) = N
    <2> HIDE DEF f, T, lines
    <2> QED BY <1>7, <1>8, <1>9, FS_Surjection
  <1> QED BY <1>3, <1>5, <1>10

\* For sweeps of any size, names and durations: as many series as lines,
\* unless a name is there twice.
THEOREM SeriesUnique == Spec => []SeriesAreUnique
  BY ResultsInvariant, SeriesFollow, PTL

=============================================================================
