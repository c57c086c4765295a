------------------------------- MODULE SqlxCheck -------------------------------
(***************************************************************************)
(* SqlxCheck of src/checks/sqlx.rs: `timeout` around a query on a pool.    *)
(* The pool (sqlx 0.8, with its defaults) has one permit per connection,   *)
(* served in order; a permit's connection is tested or opened before it is *)
(* handed out, and flushed by a task of its own before it is idle again.   *)
(***************************************************************************)
EXTENDS Naturals, FiniteSets, SequencesExt

CONSTANTS
  Probe,           \* calls of SqlxCheck::check, one each
  MaxConnections,  \* permits of the pool
  Timeout,         \* the check's timeout
  AcquireTimeout,  \* the pool's own, for handing out a connection
  WarnAbove,       \* the latency above which a success means degraded
  Lag              \* most ticks the runtime needs to serve an expired timer

ASSUME SqlxAssumption ==
  /\ IsFiniteSet(Probe)
  /\ MaxConnections \in Nat \ {0}
  /\ Timeout \in Nat
  /\ AcquireTimeout \in Nat
  /\ WarnAbove \in Nat
  /\ Lag \in Nat

VARIABLES
  database,   \* what the database does with a connection
  closed,     \* whether the pool is closed
  held,       \* permits the application holds
  phase,      \* phase[p]: how far the probe's query has come
  queue,      \* probes that wait for a permit
  returning,  \* probes whose connection is on its way back
  outcome,    \* outcome[p]: what check() returned
  elapsed,    \* elapsed[p]: ticks since check() started, until it is over
  hungSince   \* history: probes begun while the database hung as it still does

probes == <<phase, queue, returning, outcome, elapsed>>
world == <<database, closed, held>>
vars == <<world, probes, hungSince>>

DatabaseMode == {"answering", "refusing", "hung"}
Pending == {"queued", "testing", "running"}
Verdict == {"healthy", "degraded", "unavailable", "timed_out"}

Init ==
  /\ database \in DatabaseMode
  /\ closed = FALSE
  /\ held = 0
  /\ phase = [p \in Probe |-> "idle"]
  /\ queue = <<>>
  /\ returning = {}
  /\ outcome = [p \in Probe |-> "none"]
  /\ elapsed = [p \in Probe |-> 0]
  /\ hungSince = {}

-----------------------------------------------------------------------------
(***************************************************************************)
(* check().                                                                *)
(***************************************************************************)
\* First poll: the timer is set and the query asks the pool for a permit.
StartCheck(p) ==
  /\ phase[p] = "idle"
  /\ IF closed
     THEN /\ phase' = [phase EXCEPT ![p] = "over"]
          /\ outcome' = [outcome EXCEPT ![p] = "unavailable"]
          /\ UNCHANGED queue
     ELSE /\ phase' = [phase EXCEPT ![p] = "queued"]
          /\ queue' = Append(queue, p)
          /\ UNCHANGED outcome
  /\ hungSince' = IF database = "hung" THEN hungSince \cup {p} ELSE hungSince
  /\ UNCHANGED <<world, returning, elapsed>>

\* The query's future is done with, or dropped: a waiter leaves the queue, a
\* permit whose connection was not ready is free at once, a connection in
\* use goes back.
Leave(p) ==
  /\ phase' = [phase EXCEPT ![p] = "over"]
  /\ queue' = IF phase[p] = "queued"
              THEN RemoveAt(queue, CHOOSE i \in DOMAIN queue : queue[i] = p)
              ELSE queue
  /\ returning' = IF phase[p] = "running" THEN returning \cup {p} ELSE returning

Return(p, verdict) ==
  /\ Leave(p)
  /\ outcome' = [outcome EXCEPT ![p] = verdict]
  /\ UNCHANGED <<world, elapsed, hungSince>>

\* Mutant: a success at the threshold already counts as slow.
MatchedEager(result, d) ==
  IF result = "error" THEN "unavailable" ELSE IF d >= WarnAbove THEN "degraded" ELSE "healthy"

\* The match at the end of check(), for a query that is over.
Matched(result, d) ==
  IF result = "error" THEN "unavailable" ELSE IF d > WarnAbove THEN "degraded" ELSE "healthy"

\* The query ends, with rows or an error.
QueryEnds(p, result) ==
  /\ phase[p] = "running"
  /\ \/ database = "answering"
     \/ database = "refusing" /\ result = "error"
  /\ Return(p, Matched(result, elapsed[p]))

\* The pool gives up on a connection: it was closed, it waited too long, or
\* the server refuses for good.
AcquireFails(p) ==
  /\ \/ phase[p] = "queued" /\ closed
     \/ phase[p] \in {"queued", "testing"} /\ elapsed[p] >= AcquireTimeout
     \/ phase[p] = "testing" /\ database = "refusing"
  /\ Return(p, Matched("error", elapsed[p]))

\* The deadline, set when check() starts, passed `by` ticks ago or more.
Overdue(p, by) == phase[p] \in Pending /\ elapsed[p] >= Timeout + by

\* Mutant: the timeout applies only once the query is sent.
CheckTimesOutRunning(p) ==
  phase[p] = "running" /\ elapsed[p] >= Timeout /\ Return(p, "timed_out")

\* The deadline has passed and the query, polled first, is not over.
CheckTimesOut(p) == Overdue(p, 0) /\ Return(p, "timed_out")

\* The probe's future is dropped: the registry's own deadline, a client that
\* hangs up.
DropCheck(p) ==
  /\ phase[p] \in Pending
  /\ Leave(p)
  /\ UNCHANGED <<world, outcome, elapsed, hungSince>>

-----------------------------------------------------------------------------
(***************************************************************************)
(* The pool.                                                               *)
(***************************************************************************)
Holders == {p \in Probe : phase[p] \in {"testing", "running"}} \cup returning

\* Mutant: a connection taken back is no longer counted.
FreeEarly == held + Cardinality({p \in Probe : phase[p] \in {"testing", "running"}}) < MaxConnections

Free == held + Cardinality(Holders) < MaxConnections

\* Mutant: an idle connection is handed out as it is.
GetPermitUntested ==
  /\ queue # <<>> /\ Free /\ ~closed
  /\ phase' = [phase EXCEPT ![Head(queue)] = "running"]
  /\ queue' = Tail(queue)
  /\ UNCHANGED <<world, returning, outcome, elapsed, hungSince>>

\* The first waiter gets a permit, and tests its idle connection or opens one.
GetPermit ==
  /\ queue # <<>> /\ Free /\ ~closed
  /\ phase' = [phase EXCEPT ![Head(queue)] = "testing"]
  /\ queue' = Tail(queue)
  /\ UNCHANGED <<world, returning, outcome, elapsed, hungSince>>

\* The connection is good, and the query is sent.
SendQuery(p) ==
  /\ phase[p] = "testing"
  /\ database = "answering"
  /\ phase' = [phase EXCEPT ![p] = "running"]
  /\ UNCHANGED <<world, queue, returning, outcome, elapsed, hungSince>>

\* A connection is flushed, or found broken and closed; either frees its
\* permit.  A closed pool flushes nothing.
GiveBack(p) ==
  /\ p \in returning
  /\ closed \/ database # "hung"
  /\ returning' = returning \ {p}
  /\ UNCHANGED <<world, phase, queue, outcome, elapsed, hungSince>>

\* The application takes and returns connections of the same pool.
AppTakes ==
  /\ Free /\ queue = <<>> /\ ~closed
  /\ held' = held + 1
  /\ UNCHANGED <<database, closed, probes, hungSince>>

AppReturns ==
  /\ held > 0
  /\ held' = held - 1
  /\ UNCHANGED <<database, closed, probes, hungSince>>

ClosePool ==
  /\ ~closed
  /\ closed' = TRUE
  /\ UNCHANGED <<database, held, probes, hungSince>>

DatabaseChanges ==
  /\ database' \in DatabaseMode \ {database}
  /\ hungSince' = {}
  /\ UNCHANGED <<closed, held, probes>>

\* Time cannot pass an expired timer by more than Lag.
Tick ==
  /\ \E p \in Probe : phase[p] \in Pending
  /\ \A p \in Probe : ~Overdue(p, Lag)
  /\ elapsed' = [p \in Probe |-> IF phase[p] \in Pending THEN elapsed[p] + 1 ELSE elapsed[p]]
  /\ UNCHANGED <<world, phase, queue, returning, outcome, hungSince>>

Step(p) ==
  \/ StartCheck(p)
  \/ \E result \in {"rows", "error"} : QueryEnds(p, result)
  \/ AcquireFails(p)
  \/ CheckTimesOut(p)
  \/ DropCheck(p)
  \/ SendQuery(p)
  \/ GiveBack(p)

Next ==
  \/ \E p \in Probe : Step(p)
  \/ GetPermit
  \/ AppTakes
  \/ AppReturns
  \/ ClosePool
  \/ DatabaseChanges
  \/ Tick

Spec == Init /\ [][Next]_vars

\* Time passes and timers are served.  The pool's tasks, the database and the
\* application owe nothing.
Fairness == WF_vars(Tick) /\ \A p \in Probe : WF_vars(CheckTimesOut(p))

FairSpec == Spec /\ Fairness

-----------------------------------------------------------------------------
\* The check as its caller sees it (TimedCheck): a call runs while its query
\* is pending, wherever in the pool or the database.
Stage == [p \in Probe |-> IF phase[p] \in Pending THEN "running" ELSE phase[p]]

Contract == INSTANCE TimedCheck WITH
  stage <- Stage, verdict <- outcome, age <- elapsed, Failure <- {"unavailable"}

\* Every variable has its type, the queue holds the waiters, each once, and
\* no permit is given twice.
TypeOK ==
  /\ database \in DatabaseMode
  /\ closed \in BOOLEAN
  /\ held \in Nat
  /\ phase \in [Probe -> {"idle", "over"} \cup Pending]
  /\ queue \in Seq(Probe)
  /\ \A p \in Probe : phase[p] = "queued" <=> \E i \in DOMAIN queue : queue[i] = p
  /\ \A i, j \in DOMAIN queue : queue[i] = queue[j] => i = j
  /\ returning \subseteq {p \in Probe : phase[p] = "over"}
  /\ outcome \in [Probe -> Verdict \cup {"none"}]
  /\ elapsed \in [Probe -> Nat]
  /\ hungSince \subseteq Probe
  /\ held + Cardinality(Holders) <= MaxConnections

\* Probing a database that hangs does not drain the pool: a probe begun
\* since it hangs leaves no connection behind, however it ends, so only
\* queries in flight when it began to hang keep permits.
ProbingDoesNotDrain ==
  \A p \in hungSince : phase[p] # "running" /\ p \notin returning

\* The check is one TimedCheck allows: its latency counts the wait for a
\* permit and a connection, with the threshold itself healthy; it is over
\* once, by its timeout, and its verdict stands whatever the pool does next.
ImplementsCheck == Contract!Spec

\* Every probe that starts is over eventually.
EveryCheckEnds == \A p \in Probe : phase[p] \in Pending ~> phase[p] = "over"

=============================================================================
