--------------------------- MODULE MetricsCacheProofs ---------------------------
(***************************************************************************)
(* The staleness bound of /metrics, for every number of scrapes and        *)
(* dependencies, every ttl and every deadline.                             *)
(***************************************************************************)
EXTENDS MetricsCache, TLAPS

\* A verdict b on dependency d that is out of date has been overtaken by a
\* flip no earlier than t.
Excused(b, d, t) == b \in {dep[d], "timed_out"} \/ flippedAt[d] >= t

SeenExcused ==
  \A s \in Scrape, d \in Dep :
    seen[s][d] # Unseen => Excused(seen[s][d], d, startedAt[s])

SlotsExcused ==
  \A s \in Scrape, d \in Dep :
    slots[s][d] # Unseen => Excused(slots[s][d], d, startedAt[s])

BlankAtRest ==
  \A s \in Scrape : stage[s] # "sweeping" => seen[s] = Blank /\ slots[s] = Blank

SweepsBounded ==
  \A s \in Scrape : stage[s] = "sweeping" => now - startedAt[s] <= Deadline

CacheExcused ==
  \A e \in cache, d \in Dep : Excused(e.body[d], d, e.at - Deadline)

AnswersExcused ==
  \A s \in Scrape, d \in Dep :
    stage[s] = "answered" => Excused(body[s][d], d, answeredAt[s] - CacheAge(s) - Deadline)

\* FlipVisible speaks of answers only; a step that answers copies a slot or
\* the entry, and a slot is a copy of what a check has found.  All three need
\* their own bound, against the begin of the sweep and against the stamp.
StalenessInv ==
  /\ TypeOK
  /\ SeenExcused
  /\ SlotsExcused
  /\ BlankAtRest
  /\ SweepsBounded
  /\ CacheExcused
  /\ AnswersExcused

\* The age an entry may have is a number.
LEMMA CacheAgeType == \A s \in Scrape : CacheAge(s) \in Nat
BY CacheAssumption DEF CacheAge

\* The inductive invariant holds initially.
LEMMA InitStaleness == Init => StalenessInv
<1> SUFFICES ASSUME Init PROVE StalenessInv
  OBVIOUS
<1>1. TypeOK
  BY CacheAssumption DEF Init, TypeOK, HealthStatus, Verdict, Blank
<1>2. SeenExcused /\ SlotsExcused /\ BlankAtRest /\ SweepsBounded /\ CacheExcused /\ AnswersExcused
  BY DEF Init, Blank, SeenExcused, SlotsExcused, BlankAtRest, SweepsBounded, CacheExcused, AnswersExcused
<1> QED BY <1>1, <1>2 DEF StalenessInv

-----------------------------------------------------------------------------
(***************************************************************************)
(* One lemma per action.                                                   *)
(***************************************************************************)
LEMMA FlipKeeps ==
  ASSUME StalenessInv, NEW d \in Dep, NEW state \in DepState, Flip(d, state)
  PROVE  StalenessInv'
<1>1. /\ UNCHANGED <<now, cache, stage, startedAt, seen, slots, body, answeredAt>>
      /\ \A c \in Dep \ {d} : dep'[c] = dep[c] /\ flippedAt'[c] = flippedAt[c]
      /\ flippedAt'[d] = now
  BY DEF StalenessInv, TypeOK, Flip, scrapes, sweeps
<1>2. TypeOK'
  BY <1>1 DEF StalenessInv, TypeOK, Flip
<1>3. ASSUME NEW c \in Dep, NEW b, NEW t \in Int, t <= now, Excused(b, c, t)
      PROVE  Excused(b, c, t)'
  BY <1>1, <1>3 DEF Excused
<1>4. SeenExcused' /\ SlotsExcused'
  BY <1>1, <1>3 DEF StalenessInv, TypeOK, SeenExcused, SlotsExcused
<1>5. BlankAtRest' /\ SweepsBounded'
  BY <1>1 DEF StalenessInv, BlankAtRest, SweepsBounded
<1>6. CacheExcused'
  <2> SUFFICES ASSUME NEW e \in cache, NEW c \in Dep
               PROVE  Excused(e.body[c], c, e.at - Deadline)'
    BY <1>1 DEF CacheExcused
  <2>1. e.at - Deadline \in Int /\ e.at - Deadline <= now
    BY CacheAssumption DEF StalenessInv, TypeOK
  <2> QED BY <1>3, <2>1 DEF StalenessInv, CacheExcused
<1>7. AnswersExcused'
  <2> SUFFICES ASSUME NEW s \in Scrape, NEW c \in Dep, stage[s] = "answered"
               PROVE  Excused(body[s][c], c, answeredAt[s] - CacheAge(s) - Deadline)'
    BY <1>1 DEF AnswersExcused
  <2>1. /\ answeredAt[s] - CacheAge(s) - Deadline \in Int
        /\ answeredAt[s] - CacheAge(s) - Deadline <= now
    BY CacheAssumption, CacheAgeType DEF StalenessInv, TypeOK
  <2>2. Excused(body[s][c], c, answeredAt[s] - CacheAge(s) - Deadline)
    BY DEF StalenessInv, AnswersExcused
  <2> QED BY <1>1, <1>3, <2>1, <2>2
<1> QED BY <1>2, <1>4, <1>5, <1>6, <1>7 DEF StalenessInv

\* A hit copies an entry whose stamp is younger than the ttl.
LEMMA ServeCachedKeeps ==
  ASSUME StalenessInv, NEW s \in Scrape, ServeCached(s)
  PROVE  StalenessInv'
<1>1. PICK e \in FreshEntries(s) : Respond(s, e.body)
  BY DEF ServeCached
<1>2. /\ e \in cache /\ s \notin Uncached /\ now - e.at < Ttl
      /\ e.at \in 0..now /\ e.body \in [Dep -> Verdict]
  BY CacheAssumption DEF FreshEntries, cached_within, StalenessInv, TypeOK
<1>3. UNCHANGED <<now, dep, flippedAt, cache, startedAt, seen, slots>>
  BY DEF ServeCached, world, sweeps
<1>4. TypeOK'
  BY <1>1, <1>2, <1>3 DEF StalenessInv, TypeOK, Respond
<1>5. SeenExcused' /\ SlotsExcused' /\ CacheExcused'
  BY <1>3 DEF StalenessInv, SeenExcused, SlotsExcused, CacheExcused, Excused
<1>7. BlankAtRest' /\ SweepsBounded'
  <2>1. stage[s] = "idle" /\ stage' = [stage EXCEPT ![s] = "answered"]
    BY <1>1 DEF ServeCached, Respond
  <2> QED BY <1>3, <2>1 DEF StalenessInv, TypeOK, BlankAtRest, SweepsBounded
<1>6. AnswersExcused'
  <2> SUFFICES ASSUME NEW r \in Scrape, NEW d \in Dep, stage'[r] = "answered"
               PROVE  Excused(body[r][d], d, answeredAt[r] - CacheAge(r) - Deadline)'
    BY DEF AnswersExcused
  <2>1. CASE r = s
    <3>1. body'[r] = e.body /\ answeredAt'[r] = now
      BY <1>1, <2>1 DEF StalenessInv, TypeOK, Respond
    <3>2. now - CacheAge(s) <= e.at /\ now \in Nat /\ CacheAge(s) \in Nat /\ Deadline \in Nat
      BY <1>2, CacheAssumption, CacheAgeType DEF CacheAge, StalenessInv, TypeOK
    <3>3. Excused(e.body[d], d, e.at - Deadline)
      BY <1>2 DEF StalenessInv, CacheExcused
    <3>4. flippedAt[d] \in Nat
      BY DEF StalenessInv, TypeOK
    <3> QED BY <1>2, <1>3, <2>1, <3>1, <3>2, <3>3, <3>4 DEF Excused
  <2>2. CASE r # s
    BY <1>1, <1>3, <2>2 DEF StalenessInv, TypeOK, AnswersExcused, Excused, Respond
  <2> QED BY <2>1, <2>2
<1> QED BY <1>4, <1>5, <1>6, <1>7 DEF StalenessInv

\* Slots are blank whenever no sweep runs, so a sweep begins with nothing seen.
LEMMA StartSweepKeeps ==
  ASSUME StalenessInv, NEW s \in Scrape, StartSweep(s)
  PROVE  StalenessInv'
<1>1. UNCHANGED <<now, dep, flippedAt, cache, seen, slots, body, answeredAt>>
  BY DEF StartSweep, world
<1>2. TypeOK'
  BY <1>1 DEF StalenessInv, TypeOK, StartSweep
<1>3. BlankAtRest'
  BY <1>1 DEF StalenessInv, TypeOK, BlankAtRest, StartSweep
<1>4. SeenExcused' /\ SlotsExcused'
  <2>1. seen[s] = Blank /\ slots[s] = Blank
    BY DEF StalenessInv, BlankAtRest, StartSweep
  <2>2. \A r \in Scrape \ {s} : startedAt'[r] = startedAt[r]
    BY DEF StalenessInv, TypeOK, StartSweep
  <2> QED BY <1>1, <2>1, <2>2 DEF StalenessInv, SeenExcused, SlotsExcused, Excused, Blank
<1>5. SweepsBounded'
  BY <1>1, CacheAssumption DEF StalenessInv, TypeOK, SweepsBounded, StartSweep
<1>6. CacheExcused' /\ AnswersExcused'
  BY <1>1 DEF StalenessInv, TypeOK, CacheExcused, AnswersExcused, Excused, StartSweep
<1> QED BY <1>2, <1>3, <1>4, <1>5, <1>6 DEF StalenessInv

\* A check that looks at its dependency sees the current state.
LEMMA ObserveKeeps ==
  ASSUME StalenessInv, NEW s \in Scrape, NEW d \in Dep, Observe(s, d)
  PROVE  StalenessInv'
<1>1. UNCHANGED <<now, dep, flippedAt, cache, stage, startedAt, slots, body, answeredAt>>
  BY DEF Observe, world
<1>2. seen' = [seen EXCEPT ![s][d] = dep[d]] /\ dep[d] \in HealthStatus
  BY CacheAssumption DEF Observe, StalenessInv, TypeOK
<1>3. TypeOK'
  BY <1>1, <1>2 DEF StalenessInv, TypeOK
<1>4. SeenExcused'
  <2> SUFFICES ASSUME NEW r \in Scrape, NEW c \in Dep, seen'[r][c] # Unseen
               PROVE  Excused(seen[r][c], c, startedAt[r])'
    BY DEF SeenExcused
  <2>1. CASE r = s /\ c = d
    BY <1>1, <1>2, <2>1 DEF StalenessInv, TypeOK, Excused
  <2>2. CASE r # s \/ c # d
    <3>1. seen'[r][c] = seen[r][c]
      BY <1>2, <2>2 DEF StalenessInv, TypeOK
    <3> QED BY <1>1, <3>1 DEF StalenessInv, SeenExcused, Excused
  <2> QED BY <2>1, <2>2
<1>5. BlankAtRest'
  BY <1>1, <1>2 DEF StalenessInv, TypeOK, BlankAtRest, Observe, Pending
<1>6. SlotsExcused' /\ SweepsBounded' /\ CacheExcused' /\ AnswersExcused'
  BY <1>1 DEF StalenessInv, SlotsExcused, SweepsBounded, CacheExcused, AnswersExcused, Excused
<1> QED BY <1>3, <1>4, <1>5, <1>6 DEF StalenessInv

\* Return and TimeOut fill one slot, with what was seen since the sweep began
\* or with a timeout.
LEMMA FillKeeps ==
  ASSUME StalenessInv, NEW s \in Scrape, NEW d \in Dep, Return(s, d) \/ TimeOut(s, d)
  PROVE  StalenessInv'
<1>1. UNCHANGED <<now, dep, flippedAt, cache, stage, startedAt, seen, body, answeredAt>>
  BY DEF Return, TimeOut, Decide, world
<1>2. PICK v \in Verdict :
        /\ slots' = [slots EXCEPT ![s][d] = v]
        /\ Excused(v, d, startedAt[s])
  <2>1. CASE Return(s, d)
    <3>1. seen[s][d] # Unseen /\ slots' = [slots EXCEPT ![s][d] = seen[s][d]]
      BY <2>1 DEF Return, Decide
    <3>2. seen[s][d] \in Verdict
      BY <3>1 DEF StalenessInv, TypeOK, Verdict
    <3>3. Excused(seen[s][d], d, startedAt[s])
      BY <3>1 DEF StalenessInv, SeenExcused
    <3> QED BY <3>1, <3>2, <3>3
  <2>2. CASE TimeOut(s, d)
    BY <2>2 DEF TimeOut, Decide, Excused, Verdict
  <2> QED BY <2>1, <2>2
<1>3. slots' \in [Scrape -> [Dep -> Verdict \cup {Unseen}]]
  BY <1>2 DEF StalenessInv, TypeOK
<1>4. TypeOK'
  BY <1>1, <1>3 DEF StalenessInv, TypeOK
<1>5. SlotsExcused'
  <2> SUFFICES ASSUME NEW r \in Scrape, NEW c \in Dep, slots'[r][c] # Unseen
               PROVE  Excused(slots[r][c], c, startedAt[r])'
    BY DEF SlotsExcused
  <2>1. CASE r = s /\ c = d
    <3>1. slots'[r][c] = v
      BY <1>2, <2>1 DEF StalenessInv, TypeOK
    <3> QED BY <1>1, <1>2, <2>1, <3>1 DEF Excused
  <2>2. CASE r # s \/ c # d
    <3>1. slots'[r][c] = slots[r][c]
      BY <1>2, <2>2 DEF StalenessInv, TypeOK
    <3> QED BY <1>1, <3>1 DEF StalenessInv, SlotsExcused, Excused
  <2> QED BY <2>1, <2>2
<1>6. BlankAtRest'
  <2>1. stage[s] = "sweeping"
    BY DEF Return, TimeOut, Decide, Pending
  <2> QED BY <1>1, <1>2, <2>1 DEF StalenessInv, TypeOK, BlankAtRest
<1>7. SeenExcused' /\ SweepsBounded' /\ CacheExcused' /\ AnswersExcused'
  BY <1>1 DEF StalenessInv, SeenExcused, SweepsBounded, CacheExcused, AnswersExcused, Excused
<1> QED BY <1>4, <1>5, <1>6, <1>7 DEF StalenessInv

\* What a sweep forgets leaves nothing behind to be excused.
LEMMA ForgetKeeps ==
  ASSUME StalenessInv, NEW s \in Scrape, Forget(s), UNCHANGED <<dep, flippedAt>>
  PROVE  /\ SeenExcused' /\ SlotsExcused'
         /\ seen'[s] = Blank /\ slots'[s] = Blank
         /\ seen' \in [Scrape -> [Dep -> HealthStatus \cup {Unseen}]]
         /\ slots' \in [Scrape -> [Dep -> Verdict \cup {Unseen}]]
<1>1. \A r \in Scrape \ {s} :
        seen'[r] = seen[r] /\ slots'[r] = slots[r] /\ startedAt'[r] = startedAt[r]
  BY DEF Forget, StalenessInv, TypeOK
<1>2. seen'[s] = Blank /\ slots'[s] = Blank
  BY DEF Forget, StalenessInv, TypeOK
<1>3. SeenExcused' /\ SlotsExcused'
  BY <1>1, <1>2 DEF StalenessInv, SeenExcused, SlotsExcused, Excused, Blank
<1>4. /\ seen' \in [Scrape -> [Dep -> HealthStatus \cup {Unseen}]]
      /\ slots' \in [Scrape -> [Dep -> Verdict \cup {Unseen}]]
  BY DEF Forget, StalenessInv, TypeOK, Blank
<1> QED BY <1>2, <1>3, <1>4

\* A finished sweep fills the entry and the answer with what it saw since its begin.
LEMMA FinishSweepKeeps ==
  ASSUME StalenessInv, NEW s \in Scrape, FinishSweep(s)
  PROVE  StalenessInv'
<1>1. UNCHANGED <<now, dep, flippedAt>> /\ Respond(s, slots[s]) /\ Forget(s)
  BY DEF FinishSweep, world
<1>2. slots[s] \in [Dep -> Verdict] /\ \A d \in Dep : slots[s][d] # Unseen
  BY DEF FinishSweep, Complete, StalenessInv, TypeOK
<1>3. /\ now \in Nat /\ startedAt[s] \in Nat /\ now - Deadline <= startedAt[s]
      /\ Deadline \in Nat /\ CacheAge(s) \in Nat /\ \A d \in Dep : flippedAt[d] \in Nat
  BY CacheAssumption, CacheAgeType
     DEF FinishSweep, Complete, StalenessInv, TypeOK, SweepsBounded
<1>4. \A d \in Dep : Excused(slots[s][d], d, now - Deadline)
  BY <1>2, <1>3 DEF StalenessInv, SlotsExcused, Excused
<1>5. cache' = cache \/ cache' = {[at |-> now, body |-> slots[s]]}
  BY DEF FinishSweep, Stored
<1>10. /\ SeenExcused' /\ SlotsExcused'
       /\ seen'[s] = Blank /\ slots'[s] = Blank
       /\ seen' \in [Scrape -> [Dep -> HealthStatus \cup {Unseen}]]
       /\ slots' \in [Scrape -> [Dep -> Verdict \cup {Unseen}]]
  BY <1>1, ForgetKeeps
<1>6. TypeOK'
  <2>1. startedAt' \in [Scrape -> 0..now]
    BY <1>1, <1>3 DEF Forget, StalenessInv, TypeOK
  <2>2. \A e \in cache' : e.at \in 0..now /\ e.body \in [Dep -> Verdict]
    BY <1>2, <1>3, <1>5 DEF StalenessInv, TypeOK
  <2>3. \A e, f \in cache' : e = f
    BY <1>5 DEF StalenessInv, TypeOK
  <2>4. /\ stage' \in [Scrape -> {"idle", "sweeping", "answered", "dropped"}]
        /\ body' \in [Scrape -> [Dep -> Verdict \cup {Unseen}]]
        /\ answeredAt' \in [Scrape -> 0..now]
    BY <1>1, <1>2, <1>3 DEF StalenessInv, TypeOK, Respond
  <2> QED BY <1>1, <1>10, <2>1, <2>2, <2>3, <2>4 DEF StalenessInv, TypeOK
<1>7. BlankAtRest' /\ SweepsBounded'
  BY <1>1, <1>10 DEF Forget, StalenessInv, TypeOK, BlankAtRest, SweepsBounded, Respond
<1>8. CacheExcused'
  BY <1>1, <1>4, <1>5 DEF StalenessInv, CacheExcused, Excused
<1>9. AnswersExcused'
  <2> SUFFICES ASSUME NEW r \in Scrape, NEW d \in Dep, stage'[r] = "answered"
               PROVE  Excused(body[r][d], d, answeredAt[r] - CacheAge(r) - Deadline)'
    BY DEF AnswersExcused
  <2>1. CASE r = s
    <3>1. body'[r] = slots[s] /\ answeredAt'[r] = now
      BY <1>1, <2>1 DEF StalenessInv, TypeOK, Respond
    <3> QED BY <1>1, <1>3, <1>4, <2>1, <3>1 DEF Excused
  <2>2. CASE r # s
    BY <1>1, <2>2 DEF StalenessInv, TypeOK, AnswersExcused, Excused, Respond
  <2> QED BY <2>1, <2>2
<1> QED BY <1>6, <1>7, <1>8, <1>9, <1>10 DEF StalenessInv

\* A dropped scrape leaves entry and answers alone.
LEMMA DropScrapeKeeps ==
  ASSUME StalenessInv, NEW s \in Scrape, DropScrape(s)
  PROVE  StalenessInv'
<1>1. UNCHANGED <<now, dep, flippedAt, cache, body, answeredAt>> /\ Forget(s)
      /\ stage' = [stage EXCEPT ![s] = "dropped"]
  BY DEF DropScrape, world
<1>2. /\ SeenExcused' /\ SlotsExcused'
      /\ seen'[s] = Blank /\ slots'[s] = Blank
      /\ seen' \in [Scrape -> [Dep -> HealthStatus \cup {Unseen}]]
      /\ slots' \in [Scrape -> [Dep -> Verdict \cup {Unseen}]]
  BY <1>1, ForgetKeeps
<1>3. TypeOK'
  BY <1>1, <1>2 DEF Forget, StalenessInv, TypeOK
<1>4. BlankAtRest' /\ SweepsBounded'
  BY <1>1, <1>2 DEF Forget, StalenessInv, TypeOK, BlankAtRest, SweepsBounded
<1>5. CacheExcused' /\ AnswersExcused'
  BY <1>1 DEF StalenessInv, TypeOK, CacheExcused, AnswersExcused, Excused
<1> QED BY <1>2, <1>3, <1>4, <1>5 DEF StalenessInv

\* Time passes a running sweep only within its deadline.
LEMMA TickKeeps ==
  ASSUME StalenessInv, Tick
  PROVE  StalenessInv'
<1>1. UNCHANGED <<dep, flippedAt, cache, stage, startedAt, seen, slots, body, answeredAt>>
  BY DEF Tick, world, scrapes, sweeps
<1>2. now' = now + 1 /\ now' \in 0..Horizon /\ 0..now \subseteq 0..now'
  BY CacheAssumption DEF Tick, StalenessInv, TypeOK
<1>3. TypeOK'
  BY <1>1, <1>2 DEF StalenessInv, TypeOK
<1>4. SweepsBounded'
  BY <1>1, <1>2, CacheAssumption DEF StalenessInv, TypeOK, SweepsBounded, Tick, InBound
<1>5. SeenExcused' /\ SlotsExcused' /\ BlankAtRest' /\ CacheExcused' /\ AnswersExcused'
  BY <1>1 DEF StalenessInv, SeenExcused, SlotsExcused, BlankAtRest, CacheExcused,
              AnswersExcused, Excused
<1> QED BY <1>3, <1>4, <1>5 DEF StalenessInv

\* Every step keeps the inductive invariant.
LEMMA NextStaleness == StalenessInv /\ [Next]_vars => StalenessInv'
<1> SUFFICES ASSUME StalenessInv, [Next]_vars PROVE StalenessInv'
  OBVIOUS
<1>1. ASSUME NEW d \in Dep, NEW state \in DepState, Flip(d, state) PROVE StalenessInv'
  BY <1>1, FlipKeeps
<1>2. ASSUME NEW s \in Scrape, Handle(s) PROVE StalenessInv'
  BY <1>2, ServeCachedKeeps, StartSweepKeeps, ObserveKeeps, FillKeeps,
     FinishSweepKeeps, DropScrapeKeeps DEF Handle
<1>3. CASE Tick
  BY <1>3, TickKeeps
<1>4. CASE UNCHANGED vars
  BY <1>4 DEF vars, world, scrapes, sweeps, StalenessInv, TypeOK, SeenExcused, SlotsExcused,
              BlankAtRest, SweepsBounded, CacheExcused, AnswersExcused, Excused
<1> QED BY <1>1, <1>2, <1>3, <1>4 DEF Next

-----------------------------------------------------------------------------
\* Every variable keeps its type, a cached or served body included: it has a
\* status for each dependency.
THEOREM TypeCorrect == Spec => []TypeOK
<1>1. StalenessInv => TypeOK
  BY DEF StalenessInv
<1> QED BY <1>1, InitStaleness, NextStaleness, PTL DEF Spec

\* A state a dependency has kept for longer than ttl and deadline together
\* shows in every answer, cached or fresh, unless its check was timed out.
THEOREM BoundedStaleness == Spec => []FlipVisible
<1>1. StalenessInv => FlipVisible
  <2> SUFFICES ASSUME StalenessInv, NEW s \in Scrape, NEW d \in Dep, stage[s] = "answered",
                      answeredAt[s] - flippedAt[d] > CacheAge(s) + Deadline
               PROVE  body[s][d] \in {dep[d], "timed_out"}
    BY DEF FlipVisible
  <2>1. answeredAt[s] \in Nat /\ flippedAt[d] \in Nat /\ CacheAge(s) \in Nat /\ Deadline \in Nat
    BY CacheAssumption, CacheAgeType DEF StalenessInv, TypeOK
  <2>2. Excused(body[s][d], d, answeredAt[s] - CacheAge(s) - Deadline)
    BY DEF StalenessInv, AnswersExcused
  <2> QED BY <2>1, <2>2 DEF Excused
<1> QED BY <1>1, InitStaleness, NextStaleness, PTL DEF Spec

\* Successive entries never carry an older stamp.
THEOREM StampsMonotone == Spec => StampsNeverGoBack
<1> DEFINE Forward == \A e \in cache : \E f \in cache' : f.at >= e.at
<1>1. StalenessInv /\ [Next]_vars => Forward
  <2> SUFFICES ASSUME StalenessInv, [Next]_vars, NEW e \in cache
               PROVE  \E f \in cache' : f.at >= e.at
    OBVIOUS
  <2>1. e.at \in Nat /\ e.at <= now /\ now \in Nat
    BY DEF StalenessInv, TypeOK
  <2>2. UNCHANGED cache \/ \E s \in Scrape : cache' = {[at |-> now, body |-> slots[s]]}
    BY DEF Next, Flip, Handle, ServeCached, StartSweep, Observe, Return, TimeOut, Decide,
           FinishSweep, Stored, DropScrape, Tick, vars
  <2>3. CASE UNCHANGED cache
    <3>1. e \in cache' /\ e.at >= e.at
      BY <2>1, <2>3
    <3> QED BY <3>1
  <2>4. ASSUME NEW s \in Scrape, cache' = {[at |-> now, body |-> slots[s]]}
        PROVE  \E f \in cache' : f.at >= e.at
    <3> DEFINE f == [at |-> now, body |-> slots[s]]
    <3>1. f \in cache' /\ f.at >= e.at
      BY <2>1, <2>4
    <3> QED BY <3>1
  <2> QED BY <2>2, <2>3, <2>4
<1> HIDE DEF Forward
<1>2. StalenessInv /\ [Next]_vars => [Forward]_vars
  BY <1>1
<1> QED BY <1>2, InitStaleness, NextStaleness, PTL DEF Spec, StampsNeverGoBack, Forward

=============================================================================
