------------------------------ MODULE MetricsCache ------------------------------
(***************************************************************************)
(* The /metrics handler of src/metrics.rs, mounted with its TTL cache and  *)
(* without: concurrent scrapes, each served from the cache or running a    *)
(* registry-wide sweep of its own, over dependencies whose state changes   *)
(* in the meantime.                                                        *)
(*                                                                         *)
(* The sweep is HealthRegistry's, seen from outside: every check looks at  *)
(* its dependency at some moment of the sweep and returns later, unless    *)
(* the registry times it out, and the sweep is over within the registry's  *)
(* deadline (property SweepWithinDeadline of HealthRegistry).              *)
(***************************************************************************)
EXTENDS HealthTypes, Integers

CONSTANTS
  Scrape,    \* GET /metrics requests
  Dep,       \* dependencies, each with one registered check
  DepState,  \* what a check may find, or that it finds nothing: "hung"
  Uncached,  \* those to a route of MetricsState::new, the rest share one of with_cache
  Ttl,       \* the ttl of with_cache
  Deadline,  \* the longest a sweep takes
  Horizon    \* where the clock of the model stops

ASSUME CacheAssumption ==
  /\ Uncached \subseteq Scrape
  /\ "healthy" \in DepState /\ DepState \subseteq HealthStatus \cup {"hung"}
  /\ Ttl \in Nat
  /\ Deadline \in Nat
  /\ Horizon \in Nat

VARIABLES
  now,         \* the clock behind Instant::now
  dep,         \* dep[d]: true state of a dependency
  flippedAt,   \* history: when dep[d] changed last
  cache,       \* the Option behind the RwLock, a set of at most one entry
  stage,       \* stage[s]: progress of a scrape
  startedAt,   \* startedAt[s]: when its sweep began
  seen,        \* seen[s][d]: what the running check of d has found
  slots,       \* slots[s][d]: verdict of its sweep so far
  body,        \* body[s]: what the scrape was answered
  answeredAt   \* answeredAt[s]: when it was answered

world == <<dep, flippedAt>>
sweeps == <<startedAt, seen, slots>>
scrapes == <<stage, sweeps, body, answeredAt>>
vars == <<now, world, cache, scrapes>>

Verdict == HealthStatus \cup {"timed_out"}
Unseen == "unseen"
Blank == [d \in Dep |-> Unseen]

Init ==
  /\ now = 0
  /\ dep = [d \in Dep |-> "healthy"]
  /\ flippedAt = [d \in Dep |-> 0]
  /\ cache = {}
  /\ stage = [s \in Scrape |-> "idle"]
  /\ startedAt = [s \in Scrape |-> 0]
  /\ seen = [s \in Scrape |-> Blank]
  /\ slots = [s \in Scrape |-> Blank]
  /\ body = [s \in Scrape |-> Blank]
  /\ answeredAt = [s \in Scrape |-> 0]

\* Environment: a dependency changes state.
Flip(d, state) ==
  /\ state # dep[d]
  /\ dep' = [dep EXCEPT ![d] = state]
  /\ flippedAt' = [flippedAt EXCEPT ![d] = now]
  /\ UNCHANGED <<now, cache, scrapes>>

\* Mutant: an entry exactly ttl old still counts as fresh.
cached_within_closed(e) == now - e.at <= Ttl

\* The entry is younger than the ttl.
cached_within(e) == now - e.at < Ttl

FreshEntries(s) == {e \in cache : s \notin Uncached /\ cached_within(e)}

Respond(s, b) ==
  /\ stage' = [stage EXCEPT ![s] = "answered"]
  /\ body' = [body EXCEPT ![s] = b]
  /\ answeredAt' = [answeredAt EXCEPT ![s] = now]

\* render, cache hit.
ServeCached(s) ==
  /\ stage[s] = "idle"
  /\ \E e \in FreshEntries(s) : Respond(s, e.body)
  /\ UNCHANGED <<now, world, cache, sweeps>>

\* render, cache miss: check_all starts.  Nothing keeps a second scrape from
\* missing, and sweeping, at the same time.
StartSweep(s) ==
  /\ stage[s] = "idle"
  /\ FreshEntries(s) = {}
  /\ stage' = [stage EXCEPT ![s] = "sweeping"]
  /\ startedAt' = [startedAt EXCEPT ![s] = now]
  /\ UNCHANGED <<now, world, cache, seen, slots, body, answeredAt>>

Pending(s, d) == stage[s] = "sweeping" /\ slots[s][d] = Unseen

\* The check of d finds its dependency in some state, if it answers at all.
Observe(s, d) ==
  /\ Pending(s, d)
  /\ seen[s][d] = Unseen
  /\ dep[d] # "hung"
  /\ seen' = [seen EXCEPT ![s][d] = dep[d]]
  /\ UNCHANGED <<now, world, cache, stage, startedAt, slots, body, answeredAt>>

Decide(s, d, verdict) ==
  /\ Pending(s, d)
  /\ slots' = [slots EXCEPT ![s][d] = verdict]
  /\ UNCHANGED <<now, world, cache, stage, startedAt, seen, body, answeredAt>>

\* The check returns what it has found, which may be history by then.
Return(s, d) == seen[s][d] # Unseen /\ Decide(s, d, seen[s][d])

\* Mutant: the sweep runs its checks without a timeout.
TimeOutNever(s, d) == FALSE /\ UNCHANGED vars

\* The registry's timeout: a check that has not returned by the deadline,
\* whatever the state of its dependency, is reported unhealthy.
TimeOut(s, d) == now - startedAt[s] >= Deadline /\ Decide(s, d, "timed_out")

\* Mutant: a sweep that is not over is rendered and cached all the same.
CompleteEarly(s) == stage[s] = "sweeping"

Complete(s) == stage[s] = "sweeping" /\ \A d \in Dep : slots[s][d] # Unseen

\* Mutant: the entry is stamped with the time its sweep began.
StoredAtStart(s) ==
  IF s \in Uncached THEN cache ELSE {[at |-> startedAt[s], body |-> slots[s]]}

\* The write after a fresh render: stamped with the time of the write, over
\* whatever another scrape has written since this one began.
Stored(s) == IF s \in Uncached THEN cache ELSE {[at |-> now, body |-> slots[s]]}

\* The results and the futures of a sweep do not outlive it.
Forget(s) ==
  /\ startedAt' = [startedAt EXCEPT ![s] = 0]
  /\ seen' = [seen EXCEPT ![s] = Blank]
  /\ slots' = [slots EXCEPT ![s] = Blank]

\* The sweep is over: render, write the cache, answer.
FinishSweep(s) ==
  /\ Complete(s)
  /\ cache' = Stored(s)
  /\ Respond(s, slots[s])
  /\ Forget(s)
  /\ UNCHANGED <<now, world>>

\* The scrape is dropped mid-sweep (the client hangs up, a check panics);
\* the cache keeps what it had.
DropScrape(s) ==
  /\ stage[s] = "sweeping"
  /\ ~Complete(s)
  /\ stage' = [stage EXCEPT ![s] = "dropped"]
  /\ Forget(s)
  /\ UNCHANGED <<now, world, cache, body, answeredAt>>

\* A sweep that is complete has been rendered before time passes, one that
\* is not has not used up its deadline.
InBound(s) == ~Complete(s) /\ now - startedAt[s] < Deadline

Tick ==
  /\ now < Horizon
  /\ \A s \in Scrape : stage[s] = "sweeping" => InBound(s)
  /\ now' = now + 1
  /\ UNCHANGED <<world, cache, scrapes>>

Handle(s) ==
  \/ ServeCached(s)
  \/ StartSweep(s)
  \/ \E d \in Dep : Observe(s, d) \/ Return(s, d) \/ TimeOut(s, d)
  \/ FinishSweep(s)
  \/ DropScrape(s)

Next ==
  \/ \E d \in Dep, state \in DepState : Flip(d, state)
  \/ \E s \in Scrape : Handle(s)
  \/ Tick

Spec == Init /\ [][Next]_vars

\* Time passes, timers fire, and a completed sweep is rendered.  No check has
\* to find or to return anything, no client has to hang up.
Fairness ==
  /\ WF_vars(Tick)
  /\ \A s \in Scrape :
       /\ WF_vars(FinishSweep(s))
       /\ \A d \in Dep : WF_vars(TimeOut(s, d))

FairSpec == Spec /\ Fairness

-----------------------------------------------------------------------------
\* Every variable has its type: a cached body is complete.
TypeOK ==
  /\ now \in 0..Horizon
  /\ dep \in [Dep -> DepState]
  /\ flippedAt \in [Dep -> 0..now]
  /\ \A e \in cache : e.at \in 0..now /\ e.body \in [Dep -> Verdict]
  /\ \A e, f \in cache : e = f
  /\ stage \in [Scrape -> {"idle", "sweeping", "answered", "dropped"}]
  /\ startedAt \in [Scrape -> 0..now]
  /\ seen \in [Scrape -> [Dep -> HealthStatus \cup {Unseen}]]
  /\ slots \in [Scrape -> [Dep -> Verdict \cup {Unseen}]]
  /\ body \in [Scrape -> [Dep -> Verdict \cup {Unseen}]]
  /\ answeredAt \in [Scrape -> 0..now]

\* The longest an entry is served after its stamp, in whole ticks.
CacheAge(s) == IF s \in Uncached \/ Ttl = 0 THEN 0 ELSE Ttl - 1

\* Staleness is bounded by the ttl plus the length of one sweep, however
\* scrapes interleave and overwrite each other's entry: once a dependency has
\* been in its state for longer, every answer shows that state, or says that
\* the check was timed out.  One that hangs can only be timed out.
FlipVisible ==
  \A s \in Scrape, d \in Dep :
    stage[s] = "answered" /\ answeredAt[s] - flippedAt[d] > CacheAge(s) + Deadline
      => body[s][d] \in {dep[d], "timed_out"}

\* Overwriting another scrape's entry never makes the cache look older: the
\* stamps of successive entries do not go back, whichever scrape began first.
StampsNeverGoBack ==
  [][\A e \in cache : \E f \in cache' : f.at >= e.at]_vars

\* Every scrape that starts a sweep ends, although no dependency has to
\* answer.
EveryScrapeEnds ==
  \A s \in Scrape :
    stage[s] = "sweeping" ~> (stage[s] \in {"answered", "dropped"} \/ now = Horizon)

=============================================================================
