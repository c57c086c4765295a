---------------------------- MODULE SqlxCheckProofs ----------------------------
(***************************************************************************)
(* Proofs about SqlxCheck: for any number of probes and connections and    *)
(* any timeouts, its safety invariants hold and it implements TimedCheck.  *)
(***************************************************************************)
EXTENDS SqlxCheck, FiniteSetTheorems, SequenceTheorems, TLAPS

\* Only a probe that is over has an outcome.
OutcomeInv == \A p \in Probe : outcome[p] # "none" => phase[p] = "over"

\* The history set is of the hang that lasts.
HungInv == hungSince # {} => database = "hung"

\* The inductive invariant.
SqlxInv ==
  /\ TypeOK
  /\ OutcomeInv
  /\ HungInv
  /\ ProbingDoesNotDrain

-----------------------------------------------------------------------------
(***************************************************************************)
(* The queue and the permits.                                              *)
(***************************************************************************)
Queued(p) == \E i \in DOMAIN queue : queue[i] = p

\* What RemoveAt leaves, and where.
LEMMA RemoveAtFacts ==
  ASSUME NEW S, NEW q \in Seq(S), NEW i \in DOMAIN q
  PROVE  /\ RemoveAt(q, i) \in Seq(S)
         /\ Len(RemoveAt(q, i)) = Len(q) - 1
         /\ \A j \in 1..(Len(q) - 1) : RemoveAt(q, i)[j] = IF j < i THEN q[j] ELSE q[j + 1]
  <1> DEFINE a == SubSeq(q, 1, i - 1)
             b == SubSeq(q, i + 1, Len(q))
  <1>1. Len(q) \in Nat /\ i \in 1..Len(q) /\ \A j \in 1..Len(q) : q[j] \in S
    OBVIOUS
  <1>2. a \in Seq(S) /\ Len(a) = i - 1 /\ \A j \in 1..(i - 1) : a[j] = q[j]
    BY <1>1, SubSeqProperties
  <1>3. b \in Seq(S) /\ Len(b) = Len(q) - i /\ \A j \in 1..(Len(q) - i) : b[j] = q[i + j]
    BY <1>1, SubSeqProperties
  <1>4. RemoveAt(q, i) = a \o b
    BY DEF RemoveAt
  <1> HIDE DEF a, b
  <1>5. /\ a \o b \in Seq(S) /\ Len(a \o b) = Len(a) + Len(b)
        /\ \A j \in 1..(Len(a) + Len(b)) : (a \o b)[j] = IF j <= Len(a) THEN a[j] ELSE b[j - Len(a)]
    BY <1>2, <1>3, ConcatProperties
  <1>6. ASSUME NEW j \in 1..(Len(q) - 1)
        PROVE  (a \o b)[j] = IF j < i THEN q[j] ELSE q[j + 1]
    <2>1. CASE j < i
      BY <1>1, <1>2, <1>3, <1>5, <2>1
    <2>2. CASE ~(j < i)
      <3>1. j - (i - 1) \in 1..(Len(q) - i) /\ i + (j - (i - 1)) = j + 1 /\ ~(j <= i - 1)
        BY <1>1, <2>2
      <3>2. (a \o b)[j] = b[j - (i - 1)] /\ b[j - (i - 1)] = q[j + 1]
        <4>1. Len(a) + Len(b) = Len(q) - 1
          BY <1>1, <1>2, <1>3
        <4>2. (a \o b)[j] = IF j <= i - 1 THEN a[j] ELSE b[j - (i - 1)]
          BY <1>2, <1>5, <4>1
        <4>3. b[j - (i - 1)] = q[i + (j - (i - 1))]
          BY <1>3, <3>1
        <4> QED BY <3>1, <4>2, <4>3
      <3> QED BY <2>2, <3>2
    <2> QED BY <2>1, <2>2
  <1>7. Len(a \o b) = Len(q) - 1
    BY <1>1, <1>2, <1>3, <1>5
  <1>8. RemoveAt(q, i) \in Seq(S) /\ Len(RemoveAt(q, i)) = Len(q) - 1
    BY <1>4, <1>5, <1>7
  <1>9. \A j \in 1..(Len(q) - 1) : RemoveAt(q, i)[j] = IF j < i THEN q[j] ELSE q[j + 1]
    BY <1>4, <1>6
  <1> QED BY <1>8, <1>9

\* One that leaves the queue is out of it, the others keep their order.
LEMMA Unqueued ==
  ASSUME NEW q \in Seq(Probe), NEW i \in DOMAIN q,
         \A j, k \in DOMAIN q : q[j] = q[k] => j = k,
         NEW r, r = RemoveAt(q, i)
  PROVE  /\ r \in Seq(Probe)
         /\ \A j, k \in DOMAIN r : r[j] = r[k] => j = k
         /\ \A p \in Probe : (\E j \in DOMAIN r : r[j] = p) <=> p # q[i] /\ \E j \in DOMAIN q : q[j] = p
  <1> DEFINE old(j) == IF j < i THEN j ELSE j + 1
  <1>1. r \in Seq(Probe) /\ DOMAIN r = 1..(Len(q) - 1) /\ DOMAIN q = 1..Len(q) /\ Len(q) \in Nat
    BY RemoveAtFacts
  <1>2. \A j \in DOMAIN r : r[j] = q[old(j)] /\ old(j) \in DOMAIN q /\ old(j) # i
    <2> SUFFICES ASSUME NEW j \in DOMAIN r PROVE r[j] = q[old(j)] /\ old(j) \in DOMAIN q /\ old(j) # i
      OBVIOUS
    <2>1. j \in 1..(Len(q) - 1)
      BY <1>1
    <2>2. r[j] = IF j < i THEN q[j] ELSE q[j + 1]
      BY <2>1, RemoveAtFacts
    <2>3. CASE j < i
      BY <1>1, <2>1, <2>2, <2>3
    <2>4. CASE ~(j < i)
      BY <1>1, <2>1, <2>2, <2>4
    <2> QED BY <2>3, <2>4
  <1>3. \A j, k \in DOMAIN r : old(j) = old(k) => j = k
    BY <1>1
  <1>4. ASSUME NEW k \in DOMAIN q, k # i PROVE \E j \in DOMAIN r : r[j] = q[k]
    <2>1. CASE k < i
      <3>1. k \in DOMAIN r /\ old(k) = k
        BY <1>1, <2>1
      <3> QED BY <1>2, <3>1
    <2>2. CASE k > i
      <3>1. k - 1 \in DOMAIN r /\ old(k - 1) = k
        BY <1>1, <2>2
      <3> QED BY <1>2, <3>1
    <2> QED BY <1>1, <1>4, <2>1, <2>2
  <1> HIDE DEF old
  <1>5. \A j, k \in DOMAIN r : r[j] = r[k] => j = k
    BY <1>2, <1>3
  <1>6. \A p \in Probe : (\E j \in DOMAIN r : r[j] = p) <=> p # q[i] /\ \E j \in DOMAIN q : q[j] = p
    BY <1>2, <1>4
  <1> QED BY <1>1, <1>5, <1>6

\* Finitely many permits are with probes.
LEMMA HoldersFinite == TypeOK => IsFiniteSet(Holders) /\ Cardinality(Holders) \in Nat
  <1> SUFFICES ASSUME TypeOK PROVE IsFiniteSet(Holders)
    BY FS_CardinalityType
  <1>1. Holders \subseteq Probe
    BY DEF TypeOK, Holders
  <1> QED BY <1>1, SqlxAssumption, FS_Subset

\* No permit is given where none is taken.
LEMMA FewerHolders ==
  ASSUME TypeOK, Holders' \subseteq Holders, held' \in Nat, held' <= held
  PROVE  held' + Cardinality(Holders') <= MaxConnections
  <1>1. /\ Cardinality(Holders') <= Cardinality(Holders)
        /\ Cardinality(Holders') \in Nat /\ Cardinality(Holders) \in Nat
    BY HoldersFinite, FS_Subset, FS_CardinalityType
  <1>2. held \in Nat /\ held + Cardinality(Holders) <= MaxConnections /\ MaxConnections \in Nat
    BY SqlxAssumption DEF TypeOK
  <1> QED BY <1>1, <1>2

\* A probe that leaves, wherever it was, keeps queue and pool well formed.
LEMMA LeaveKeeps ==
  ASSUME TypeOK, NEW p \in Probe, phase[p] \in Pending, Leave(p), UNCHANGED world,
         outcome' \in [Probe -> Verdict \cup {"none"}], UNCHANGED <<elapsed, hungSince>>
  PROVE  TypeOK'
  <1>1. phase' \in [Probe -> {"idle", "over"} \cup Pending]
        /\ returning' \subseteq {q \in Probe : phase'[q] = "over"}
    BY DEF TypeOK, Leave, Pending
  <1>2. Holders' \subseteq Holders
    BY DEF TypeOK, Leave, Holders, Pending
  <1>3. held' + Cardinality(Holders') <= MaxConnections
    BY <1>2, FewerHolders DEF TypeOK, world
  <1>4. /\ queue' \in Seq(Probe)
        /\ \A i, j \in DOMAIN queue' : queue'[i] = queue'[j] => i = j
        /\ \A q \in Probe : phase'[q] = "queued" <=> \E i \in DOMAIN queue' : queue'[i] = q
    <2>1. CASE phase[p] = "queued"
      <3> DEFINE i == CHOOSE i \in DOMAIN queue : queue[i] = p
      <3>1. i \in DOMAIN queue /\ queue[i] = p
        BY <2>1 DEF TypeOK
      <3>2. queue' = RemoveAt(queue, i)
        BY <2>1 DEF Leave
      <3> HIDE DEF i
      <3>3. /\ queue' \in Seq(Probe)
            /\ \A j, k \in DOMAIN queue' : queue'[j] = queue'[k] => j = k
            /\ \A q \in Probe : (\E j \in DOMAIN queue' : queue'[j] = q)
                        <=> q # p /\ \E j \in DOMAIN queue : queue[j] = q
        <4>1. queue \in Seq(Probe) /\ \A j, k \in DOMAIN queue : queue[j] = queue[k] => j = k
          BY DEF TypeOK
        <4> QED BY <3>1, <3>2, <4>1, Unqueued
      <3>4. \A q \in Probe : phase'[q] = "queued" <=> q # p /\ phase[q] = "queued"
        BY DEF TypeOK, Leave
      <3> QED BY <3>3, <3>4 DEF TypeOK
    <2>2. CASE phase[p] # "queued"
      BY <2>2 DEF TypeOK, Leave, Pending
    <2> QED BY <2>1, <2>2
  <1> QED BY <1>1, <1>3, <1>4 DEF TypeOK, world

-----------------------------------------------------------------------------
\* The inductive invariant holds initially.
LEMMA InitInv == Init => SqlxInv
  <1> SUFFICES ASSUME Init PROVE SqlxInv
    OBVIOUS
  <1>1. Holders = {}
    BY DEF Init, Holders
  <1>2. held + Cardinality(Holders) <= MaxConnections
    BY <1>1, FS_EmptySet, SqlxAssumption DEF Init
  <1>3. TypeOK
    <2>1. queue \in Seq(Probe) /\ DOMAIN queue = {}
      BY DEF Init
    <2>2. /\ phase \in [Probe -> {"idle", "over"} \cup Pending]
          /\ \A p \in Probe : phase[p] # "queued"
          /\ outcome \in [Probe -> Verdict \cup {"none"}]
          /\ elapsed \in [Probe -> Nat]
      BY DEF Init
    <2>3. /\ database \in DatabaseMode /\ closed \in BOOLEAN /\ held \in Nat
          /\ returning = {} /\ hungSince = {}
      BY DEF Init
    <2> QED BY <1>2, <2>1, <2>2, <2>3 DEF TypeOK
  <1> QED BY <1>3 DEF Init, SqlxInv, OutcomeInv, HungInv,
             ProbingDoesNotDrain

\* A probe ends, with a verdict, or is dropped.
LEMMA EndInv ==
  ASSUME SqlxInv, NEW p \in Probe, phase[p] \in Pending, Leave(p),
         NEW verdict \in Verdict \cup {"none"}, outcome' = [outcome EXCEPT ![p] = verdict],
         UNCHANGED <<world, elapsed, hungSince>>
  PROVE  SqlxInv'
  <1>1. TypeOK'
    BY LeaveKeeps DEF SqlxInv, TypeOK
  <1>2. OutcomeInv' /\ HungInv'
    BY DEF SqlxInv, TypeOK, Leave, world, OutcomeInv, HungInv
  <1>3. ProbingDoesNotDrain'
    BY DEF SqlxInv, TypeOK, Leave, ProbingDoesNotDrain
  <1> QED BY <1>1, <1>2, <1>3 DEF SqlxInv

\* Every step of a probe keeps it.
LEMMA StepInv ==
  ASSUME SqlxInv, NEW p \in Probe, Step(p)
  PROVE  SqlxInv'
  <1> USE SqlxAssumption DEF SqlxInv
  <1>1. CASE StartCheck(p)
    <2>1. Holders' = Holders
      BY <1>1 DEF StartCheck, TypeOK, Holders
    <2>2. TypeOK'
      <3>1. held' + Cardinality(Holders') <= MaxConnections
        BY <1>1, <2>1, FewerHolders DEF StartCheck, TypeOK, world
      <3>2. CASE closed
        <4>1. /\ phase' = [phase EXCEPT ![p] = "over"] /\ phase[p] = "idle"
              /\ outcome' = [outcome EXCEPT ![p] = "unavailable"]
              /\ UNCHANGED <<world, queue, returning, elapsed>>
          BY <1>1, <3>2 DEF StartCheck
        <4>2. /\ phase' \in [Probe -> {"idle", "over"} \cup Pending]
              /\ returning' \subseteq {q \in Probe : phase'[q] = "over"}
              /\ \A q \in Probe : phase'[q] = "queued" <=> phase[q] = "queued"
          BY <4>1 DEF TypeOK
        <4>3. outcome' \in [Probe -> Verdict \cup {"none"}]
          BY <4>1 DEF TypeOK, Verdict
        <4>4. hungSince' \subseteq Probe
          BY <1>1 DEF StartCheck, TypeOK
        <4> QED BY <3>1, <4>1, <4>2, <4>3, <4>4 DEF TypeOK, world
      <3>3. CASE ~closed
        <4>1. /\ queue' = Append(queue, p) /\ phase' = [phase EXCEPT ![p] = "queued"]
              /\ UNCHANGED <<world, returning, elapsed, outcome>>
          BY <1>1, <3>3 DEF StartCheck
        <4>2. /\ queue' \in Seq(Probe) /\ DOMAIN queue' = DOMAIN queue \cup {Len(queue) + 1}
              /\ queue'[Len(queue) + 1] = p
              /\ \A i \in DOMAIN queue : queue'[i] = queue[i]
          BY <4>1 DEF TypeOK
        <4>3. \A i \in DOMAIN queue : queue[i] # p
          BY <1>1 DEF StartCheck, TypeOK
        <4>4. \A i, j \in DOMAIN queue' : queue'[i] = queue'[j] => i = j
          BY <4>2, <4>3 DEF TypeOK
        <4>5. \A q \in Probe : phase'[q] = "queued" <=> \E i \in DOMAIN queue' : queue'[i] = q
          BY <4>1, <4>2 DEF TypeOK
        <4>6. returning' \subseteq {q \in Probe : phase'[q] = "over"}
          BY <1>1, <4>1 DEF StartCheck, TypeOK
        <4> QED BY <1>1, <3>1, <4>1, <4>2, <4>4, <4>5, <4>6 DEF StartCheck, TypeOK, world, Pending
      <3> QED BY <3>2, <3>3
    <2>3. OutcomeInv' /\ HungInv'
      BY <1>1 DEF StartCheck, TypeOK, world, OutcomeInv, HungInv
    <2>4. ProbingDoesNotDrain'
      BY <1>1 DEF StartCheck, TypeOK, ProbingDoesNotDrain
    <2> QED BY <2>2, <2>3, <2>4
  <1>2. ASSUME NEW result \in {"rows", "error"}, QueryEnds(p, result)
        PROVE  SqlxInv'
    <2> DEFINE verdict == Matched(result, elapsed[p])
    <2>1. /\ phase[p] \in Pending /\ Leave(p) /\ UNCHANGED <<world, elapsed, hungSince>>
          /\ outcome' = [outcome EXCEPT ![p] = verdict]
      BY <1>2 DEF QueryEnds, Return, Pending
    <2>2. verdict \in Verdict
      BY DEF Matched, Verdict
    <2> HIDE DEF verdict
    <2> QED BY <2>1, <2>2, EndInv
  <1>3. CASE AcquireFails(p)
    BY <1>3, EndInv DEF AcquireFails, Return, Matched, Verdict, Pending
  <1>4. CASE CheckTimesOut(p)
    <2>1. phase[p] \in Pending /\ elapsed[p] >= Timeout
      BY <1>4 DEF CheckTimesOut, Overdue, TypeOK
    <2> QED BY <1>4, <2>1, EndInv DEF CheckTimesOut, Return, Verdict
  <1>5. CASE DropCheck(p)
    <2>1. outcome' = [outcome EXCEPT ![p] = "none"]
      BY <1>5 DEF DropCheck, TypeOK, OutcomeInv, Pending
    <2> QED BY <1>5, <2>1, EndInv DEF DropCheck, Verdict
  <1>6. CASE SendQuery(p)
    <2>1. Holders' = Holders
      BY <1>6 DEF SendQuery, TypeOK, Holders
    <2>2. held' + Cardinality(Holders') <= MaxConnections
      BY <1>6, <2>1, FewerHolders DEF SendQuery, TypeOK, world
    <2>3. TypeOK'
      BY <1>6, <2>2 DEF SendQuery, TypeOK, world, Pending
    <2>4. OutcomeInv' /\ HungInv'
      BY <1>6 DEF SendQuery, TypeOK, world, OutcomeInv, HungInv
    <2>5. ProbingDoesNotDrain'
      BY <1>6 DEF SendQuery, TypeOK, HungInv, ProbingDoesNotDrain
    <2> QED BY <2>3, <2>4, <2>5
  <1>7. CASE GiveBack(p)
    <2>1. Holders' \subseteq Holders
      BY <1>7 DEF GiveBack, Holders
    <2>2. held' + Cardinality(Holders') <= MaxConnections
      BY <1>7, <2>1, FewerHolders DEF GiveBack, TypeOK, world
    <2>3. TypeOK'
      BY <1>7, <2>2 DEF GiveBack, TypeOK, world
    <2>4. OutcomeInv' /\ HungInv' /\ ProbingDoesNotDrain'
      BY <1>7 DEF GiveBack, world, OutcomeInv, HungInv,
         ProbingDoesNotDrain
    <2> QED BY <2>3, <2>4
  <1> QED BY <1>1, <1>2, <1>3, <1>4, <1>5, <1>6, <1>7 DEF Step

\* The pool hands out a permit only where one is free, to the first waiter.
LEMMA GetPermitInv ==
  ASSUME SqlxInv, GetPermit
  PROVE  SqlxInv'
  <1> USE SqlxAssumption DEF SqlxInv
  <1> DEFINE p == Head(queue)
  <1>1. p = queue[1] /\ 1 \in DOMAIN queue /\ p \in Probe /\ phase[p] = "queued"
    BY DEF GetPermit, TypeOK
  <1>2. phase' = [phase EXCEPT ![p] = "testing"] /\ queue' = Tail(queue)
        /\ UNCHANGED <<world, returning, outcome, elapsed, hungSince>>
    BY DEF GetPermit
  <1> HIDE DEF p
  <1>3. Holders' = Holders \cup {p}
    BY <1>1, <1>2 DEF TypeOK, Holders
  <1>4. Cardinality(Holders') <= Cardinality(Holders) + 1 /\ Cardinality(Holders') \in Nat
        /\ Cardinality(Holders) \in Nat
    <2>1. IsFiniteSet(Holders) /\ Cardinality(Holders) \in Nat
      BY HoldersFinite
    <2>2. /\ IsFiniteSet(Holders \cup {p})
          /\ \/ Cardinality(Holders \cup {p}) = Cardinality(Holders)
             \/ Cardinality(Holders \cup {p}) = Cardinality(Holders) + 1
      BY <2>1, FS_AddElement
    <2> QED BY <1>3, <2>1, <2>2
  <1>5. held' + Cardinality(Holders') <= MaxConnections
    BY <1>2, <1>4 DEF GetPermit, Free, TypeOK, world
  <1>6. /\ queue' \in Seq(Probe) /\ DOMAIN queue' = 1..(Len(queue) - 1)
        /\ DOMAIN queue = 1..Len(queue) /\ Len(queue) \in Nat
        /\ \A i \in DOMAIN queue' : i + 1 \in DOMAIN queue /\ queue'[i] = queue[i + 1]
    BY <1>1, <1>2 DEF TypeOK
  <1>7. \A i, j \in DOMAIN queue' : queue'[i] = queue'[j] => i = j
    <2> SUFFICES ASSUME NEW i \in DOMAIN queue', NEW j \in DOMAIN queue', queue'[i] = queue'[j]
                 PROVE  i = j
      OBVIOUS
    <2>1. i + 1 = j + 1
      BY <1>6 DEF TypeOK
    <2> QED BY <1>6, <2>1
  <1>8. \A q \in Probe : phase'[q] = "queued" <=> \E i \in DOMAIN queue' : queue'[i] = q
    <2>1. ASSUME NEW q \in Probe, phase'[q] = "queued" PROVE \E i \in DOMAIN queue' : queue'[i] = q
      <3>1. q # p /\ phase[q] = "queued"
        BY <1>1, <1>2, <2>1 DEF TypeOK
      <3>2. PICK k \in DOMAIN queue : queue[k] = q
        BY <3>1 DEF TypeOK
      <3>3. k - 1 \in DOMAIN queue' /\ (k - 1) + 1 = k
        BY <1>1, <1>6, <3>1, <3>2
      <3> QED BY <1>6, <3>2, <3>3
    <2>2. ASSUME NEW i \in DOMAIN queue' PROVE phase'[queue'[i]] = "queued"
      <3>1. i + 1 \in DOMAIN queue /\ i + 1 # 1 /\ queue'[i] = queue[i + 1]
        BY <1>6
      <3>2. queue[i + 1] # p /\ queue[i + 1] \in Probe
        <4>1. queue[i + 1] = queue[1] => i + 1 = 1
          BY <1>1, <3>1 DEF TypeOK
        <4>2. queue[i + 1] \in Probe
          BY <3>1 DEF TypeOK
        <4> QED BY <1>1, <3>1, <4>1, <4>2
      <3>3. phase[queue[i + 1]] = "queued"
        BY <3>1, <3>2 DEF TypeOK
      <3> QED BY <1>2, <3>1, <3>2, <3>3 DEF TypeOK
    <2> QED BY <2>1, <2>2
  <1>9. phase' \in [Probe -> {"idle", "over"} \cup Pending]
        /\ returning' \subseteq {q \in Probe : phase'[q] = "over"}
    BY <1>1, <1>2 DEF TypeOK, Pending
  <1>10. TypeOK'
    BY <1>2, <1>5, <1>6, <1>7, <1>8, <1>9 DEF TypeOK, world
  <1>11. OutcomeInv' /\ HungInv' /\ ProbingDoesNotDrain'
    BY <1>1, <1>2 DEF TypeOK, world, OutcomeInv, HungInv,
       ProbingDoesNotDrain
  <1> QED BY <1>10, <1>11

\* What the application and the database do keeps it.
LEMMA WorldInv ==
  ASSUME SqlxInv, AppTakes \/ AppReturns \/ ClosePool \/ DatabaseChanges \/ UNCHANGED vars
  PROVE  SqlxInv'
  <1> USE SqlxAssumption DEF SqlxInv
  <1>1. Holders' = Holders /\ UNCHANGED probes
    BY DEF AppTakes, AppReturns, ClosePool, DatabaseChanges, vars, probes, Holders
  <1>2. held' \in Nat /\ held' + Cardinality(Holders') <= MaxConnections
    BY <1>1, HoldersFinite DEF AppTakes, AppReturns, ClosePool, DatabaseChanges, vars, world,
       Free, TypeOK
  <1>3. TypeOK'
    BY <1>1, <1>2 DEF AppTakes, AppReturns, ClosePool, DatabaseChanges, vars, world, probes, TypeOK
  <1>4. OutcomeInv' /\ HungInv' /\ ProbingDoesNotDrain'
    BY <1>1 DEF AppTakes, AppReturns, ClosePool, DatabaseChanges, vars, world, probes,
       OutcomeInv, HungInv, ProbingDoesNotDrain
  <1> QED BY <1>3, <1>4

\* Time keeps it.
LEMMA TickInv ==
  ASSUME SqlxInv, Tick
  PROVE  SqlxInv'
  <1> USE SqlxAssumption DEF SqlxInv
  <1>1. Holders' = Holders
    BY DEF Tick, Holders
  <1>2. TypeOK'
    BY <1>1 DEF Tick, TypeOK, world
  <1>3. OutcomeInv' /\ HungInv' /\ ProbingDoesNotDrain'
    BY DEF Tick, TypeOK, world, Pending, OutcomeInv, HungInv, ProbingDoesNotDrain
  <1> QED BY <1>2, <1>3

\* SqlxInv is an invariant of every execution.
THEOREM Safe == Spec => []SqlxInv
  <1>1. SqlxInv /\ [Next]_vars => SqlxInv'
    BY StepInv, GetPermitInv, WorldInv, TickInv DEF Next
  <1> QED BY <1>1, InitInv, PTL DEF Spec

\* The pool never has more permits out than connections, and its queue holds
\* the waiting probes, each once.
THEOREM TypeCorrect == Spec => []TypeOK
  <1>1. SqlxInv => TypeOK
    BY DEF SqlxInv
  <1> QED BY <1>1, Safe, PTL

\* Probes of a database that hangs leave the pool alone.
THEOREM PoolUntouched == Spec => []ProbingDoesNotDrain
  <1>1. SqlxInv => ProbingDoesNotDrain
    BY DEF SqlxInv
  <1> QED BY <1>1, Safe, PTL

-----------------------------------------------------------------------------
(***************************************************************************)
(* The check implements TimedCheck.                                        *)
(***************************************************************************)
\* A call that ends takes the contract's call from running to over.
LEMMA StageOver ==
  ASSUME NEW p \in Probe, TypeOK, phase[p] \in {"idle"} \cup Pending,
         phase' = [phase EXCEPT ![p] = "over"]
  PROVE  Stage' = [Stage EXCEPT ![p] = "over"]
  BY DEF Stage, TypeOK, Pending

\* A step that keeps every call where it is, or moves it from one wait to the
\* next, is none of the contract's.
LEMMA StageStays ==
  ASSUME TypeOK, NEW p \in Probe, NEW next \in Pending,
         \/ phase[p] \in Pending /\ phase' = [phase EXCEPT ![p] = next]
         \/ phase' = phase,
         UNCHANGED <<outcome, elapsed>>
  PROVE  UNCHANGED Contract!vars
  <1>1. Stage' = Stage
    BY DEF Stage, TypeOK, Pending
  <1> QED BY <1>1 DEF Contract!vars

\* The initial states map to the contract's.
LEMMA InitMaps == Init => Contract!Init
  BY DEF Init, Contract!Init, Stage, Pending

\* Every step of a probe maps to a step of the contract, or to none.
LEMMA StepMaps ==
  ASSUME SqlxInv, NEW p \in Probe, Step(p)
  PROVE  Contract!Next \/ UNCHANGED Contract!vars
  <1> USE DEF SqlxInv
  <1>1. CASE StartCheck(p)
    <2>1. CASE closed
      <3>1. Stage[p] = "idle" /\ Stage' = [Stage EXCEPT ![p] = "over"]
        BY <1>1, <2>1, StageOver DEF StartCheck, Stage, Pending
      <3>2. Contract!Fail(p)
        BY <1>1, <2>1, <3>1 DEF StartCheck, Contract!Fail, Contract!End
      <3> QED BY <3>2 DEF Contract!Next
    <2>2. CASE ~closed
      <3>1. Stage[p] = "idle" /\ Stage' = [Stage EXCEPT ![p] = "running"]
        BY <1>1, <2>2 DEF StartCheck, Stage, TypeOK, Pending
      <3>2. Contract!Begin(p)
        BY <1>1, <2>2, <3>1 DEF StartCheck, Contract!Begin
      <3> QED BY <3>2 DEF Contract!Next
    <2> QED BY <2>1, <2>2
  <1>2. ASSUME NEW result \in {"rows", "error"}, QueryEnds(p, result)
        PROVE  Contract!Next
    <2>1. p \in Contract!Running /\ Stage[p] = "running" /\ Stage' = [Stage EXCEPT ![p] = "over"]
      BY <1>2, StageOver DEF QueryEnds, Return, Leave, Contract!Running, Stage, Pending
    <2>2. CASE result = "rows"
      <3>1. Matched(result, elapsed[p]) = IF elapsed[p] > WarnAbove THEN "degraded" ELSE "healthy"
        BY <2>2 DEF Matched
      <3>2. Contract!Succeed(p)
        BY <1>2, <2>1, <3>1 DEF QueryEnds, Return, Contract!Succeed, Contract!End
      <3> QED BY <3>2 DEF Contract!Next
    <2>3. CASE result = "error"
      <3>1. Contract!Fail(p)
        BY <1>2, <2>1, <2>3 DEF QueryEnds, Return, Matched, Contract!Fail, Contract!End
      <3> QED BY <3>1 DEF Contract!Next
    <2> QED BY <1>2, <2>2, <2>3
  <1>3. CASE AcquireFails(p)
    <2>1. Stage[p] = "running" /\ Stage' = [Stage EXCEPT ![p] = "over"]
      BY <1>3, StageOver DEF AcquireFails, Return, Leave, Stage, Pending
    <2>2. Contract!Fail(p)
      BY <1>3, <2>1 DEF AcquireFails, Return, Matched, Contract!Fail, Contract!End
    <2> QED BY <2>2 DEF Contract!Next
  <1>4. CASE CheckTimesOut(p)
    <2>1. p \in Contract!Running /\ Stage' = [Stage EXCEPT ![p] = "over"]
      BY <1>4, StageOver DEF CheckTimesOut, Overdue, Return, Leave, Contract!Running, Stage
    <2>2. elapsed[p] >= Timeout
      BY <1>4, SqlxAssumption DEF CheckTimesOut, Overdue
    <2>3. Contract!TimeOut(p)
      BY <1>4, <2>1, <2>2 DEF CheckTimesOut, Return, Contract!TimeOut, Contract!End
    <2> QED BY <2>3 DEF Contract!Next
  <1>5. CASE DropCheck(p)
    <2>1. {p} \subseteq Contract!Running /\ Stage' = [Stage EXCEPT ![p] = "over"]
      BY <1>5, StageOver DEF DropCheck, Leave, Contract!Running, Stage
    <2>2. Stage' = [q \in Probe |-> IF q \in {p} THEN "over" ELSE Stage[q]]
      BY <2>1 DEF Stage
    <2>3. Contract!Drop({p})
      BY <1>5, <2>2 DEF DropCheck, Contract!Drop
    <2> QED BY <2>1, <2>3 DEF Contract!Next
  <1>6. CASE SendQuery(p)
    BY <1>6, StageStays DEF SendQuery, Pending
  <1>7. CASE GiveBack(p)
    BY <1>7, StageStays DEF GiveBack, Pending
  <1> QED BY <1>1, <1>2, <1>3, <1>4, <1>5, <1>6, <1>7 DEF Step

\* The clock of the calls is the contract's.
LEMMA TickMaps == SqlxInv /\ Tick => Contract!Tick
  <1> SUFFICES ASSUME SqlxInv, Tick PROVE Contract!Tick
    OBVIOUS
  <1>1. \A p \in Probe : p \in Contract!Running <=> phase[p] \in Pending
    BY DEF Contract!Running, Stage, SqlxInv, TypeOK, Pending
  <1>2. \A p \in Contract!Running : elapsed[p] < Timeout + Lag
    BY <1>1, SqlxAssumption DEF Tick, Overdue, SqlxInv, TypeOK, Contract!Running
  <1>3. elapsed' = [p \in Probe |-> IF p \in Contract!Running THEN elapsed[p] + 1 ELSE elapsed[p]]
    BY <1>1 DEF Tick
  <1>4. Stage' = Stage
    BY DEF Tick, Stage
  <1> QED BY <1>2, <1>3, <1>4 DEF Tick, Contract!Tick

\* What the pool, the application and the database do is not the contract's.
LEMMA WorldStutters ==
  ASSUME SqlxInv,
         GetPermit \/ AppTakes \/ AppReturns \/ ClosePool \/ DatabaseChanges \/ UNCHANGED vars
  PROVE  UNCHANGED Contract!vars
  <1>1. CASE GetPermit
    <2> DEFINE p == Head(queue)
    <2>1. p \in Probe /\ phase[p] = "queued"
      <3>1. p = queue[1] /\ 1 \in DOMAIN queue
        BY <1>1 DEF GetPermit, SqlxInv, TypeOK
      <3> QED BY <3>1 DEF SqlxInv, TypeOK
    <2>2. phase' = [phase EXCEPT ![p] = "testing"] /\ UNCHANGED <<outcome, elapsed>>
      BY <1>1 DEF GetPermit
    <2> QED BY <2>1, <2>2, StageStays DEF SqlxInv, Pending
  <1>2. CASE AppTakes \/ AppReturns \/ ClosePool \/ DatabaseChanges \/ UNCHANGED vars
    BY <1>2 DEF AppTakes, AppReturns, ClosePool, DatabaseChanges, vars, probes, Contract!vars, Stage
  <1> QED BY <1>1, <1>2

\* SqlxCheck keeps the promise of a check with a timeout, for any number of
\* calls, any pool and any database, with or without other users of the pool.
THEOREM Promise == Spec => ImplementsCheck
  <1>1. SqlxInv /\ [Next]_vars => [Contract!Next]_(Contract!vars)
    <2>1. SqlxInv /\ Tick => Contract!Next
      BY TickMaps DEF Contract!Next
    <2> QED BY <2>1, StepMaps, WorldStutters DEF Next
  <1> QED BY <1>1, InitMaps, Safe, PTL DEF Spec, ImplementsCheck, Contract!Spec

=============================================================================
