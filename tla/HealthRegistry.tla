---------------------------- MODULE HealthRegistry ----------------------------
(***************************************************************************)
(* The registry of src/registry.rs: threads and tasks register checks      *)
(* while probes sweep them.  A probe is one call of check_all (also        *)
(* reached through check_liveness and check_readiness) or of check_group.  *)
(* It clones the vector under the read lock, polls the futures of all the  *)
(* checks that are due together, each under its own timeout, and answers   *)
(* when the last of them is resolved.                                      *)
(***************************************************************************)
EXTENDS HealthTypes, Sequences, FiniteSets

CONSTANTS
  Call,          \* registration calls; a call is also the check it registers
  Probe,         \* sweeps of the registry, one call of check_all/check_group each
  Group,         \* group names
  Ungrouped,     \* the group of a check registered with add_check
  RegistryWide,  \* the scope of check_all
  GroupOf,       \* GroupOf[c]: the group argument of call c
  Name,          \* check names
  NameOf,        \* NameOf[c]: the name argument of call c
  Deadline,      \* Deadline[p]: default_timeout of the handle p uses, 0 = none
  Lag,           \* most ticks the runtime needs to serve an expired timer
  MaxElapsed,    \* where the clocks of a sweep without deadline saturate
  CheckOutcome   \* what the registered futures may resolve to

ASSUME GroupAssumption ==
  /\ GroupOf \in [Call -> Group \cup {Ungrouped}]
  /\ NameOf \in [Call -> Name]
  /\ Ungrouped \notin Group
  /\ RegistryWide \notin Group

ASSUME TimeAssumption ==
  /\ Deadline \in [Probe -> Nat]
  /\ Lag \in Nat
  /\ MaxElapsed \in Nat

\* A check may fail with a timeout of its own (RedisCheck, SqlxCheck), which
\* reads like the registry's, or with any other error.
ASSUME OutcomeAssumption == CheckOutcome \subseteq HealthStatus \cup {"error", "timed_out"}

VARIABLES
  checks,    \* the vector behind the RwLock, in registration order
  task,      \* task[c]: the blocking-pool task of an async registration
  caller,    \* caller[c]: what the registering caller knows
  runtime,   \* whether the tokio runtime still accepts work
  phase,     \* phase[p]: progress of the sweep
  scope,     \* scope[p]: RegistryWide, or the group argument of check_group
  snapshot,  \* snapshot[p]: the clone of `checks` the sweep works on
  cells,     \* cells[p]: position in the snapshot -> join_all's result slot
  future,    \* future[p]: position -> run_one's future: ticks since its start,
             \* and the answer its check is ready with
  elapsed,   \* elapsed[p]: ticks since the sweep was polled first
  overall,   \* overall[p]: the aggregate the sweep's caller computes
  emitted,   \* metrics facade: healthkit_check_result by status, and the
             \* samples of healthkit_check_duration_seconds
  acked      \* history: the calls already acknowledged when p began

registration == <<checks, task, caller, runtime>>
sweep == <<phase, scope, snapshot, cells, future, elapsed, overall, emitted, acked>>
vars == <<registration, sweep>>

Scope == Group \cup {RegistryWide}
Message == {"none", "error", "timed_out"}
CheckResult == [status : HealthStatus, message : Message, duration : Nat]
Pending == [status |-> "pending", message |-> "none", duration |-> 0]
Ended == {"answered", "panicked", "cancelled"}
EmptySlots == [i \in {} |-> Pending]
Future == [age : Nat, answer : CheckOutcome \cup {"none"}]
Started == [age |-> 0, answer |-> "none"]
NoFutures == [i \in {} |-> Started]
Sample == HealthStatus \cup {"duration"}

Init ==
  /\ checks = <<>>
  /\ task = [c \in Call |-> "none"]
  /\ caller = [c \in Call |-> "idle"]
  /\ runtime = "up"
  /\ phase = [p \in Probe |-> "idle"]
  /\ scope = [p \in Probe |-> RegistryWide]
  /\ snapshot = [p \in Probe |-> <<>>]
  /\ cells = [p \in Probe |-> EmptySlots]
  /\ future = [p \in Probe |-> NoFutures]
  /\ elapsed = [p \in Probe |-> 0]
  /\ overall = [p \in Probe |-> "healthy"]
  /\ emitted = [k \in Name \X Sample |-> 0]
  /\ acked = [p \in Probe |-> {}]

-----------------------------------------------------------------------------
(***************************************************************************)
(* Registration.  The write lock makes the push one atomic step.           *)
(***************************************************************************)
\* Mutant: the newest check goes to the front.
PushedFront(c) == <<c>> \o checks

Pushed(c) == Append(checks, c)

\* add_check, add_check_to_group: returns once the push is done.
AddCheck(c) ==
  /\ caller[c] = "idle"
  /\ checks' = Pushed(c)
  /\ caller' = [caller EXCEPT ![c] = "ok"]
  /\ UNCHANGED <<task, runtime, sweep>>

\* What spawn_blocking makes of a new task.
Spawned == IF runtime = "up" THEN "queued" ELSE "cancelled"

\* add_check_async, add_check_to_group_async up to the await: the push is
\* handed to the blocking pool.
AddCheckAsync(c) ==
  /\ caller[c] = "idle"
  /\ task' = [task EXCEPT ![c] = Spawned]
  /\ caller' = [caller EXCEPT ![c] = "awaiting"]
  /\ UNCHANGED <<checks, runtime, sweep>>

\* A blocking thread runs the closure.  A stopping pool may still drain its
\* queue, so this does not depend on the runtime.
RunRegistration(c) ==
  /\ task[c] = "queued"
  /\ checks' = Pushed(c)
  /\ task' = [task EXCEPT ![c] = "pushed"]
  /\ UNCHANGED <<caller, runtime, sweep>>

\* Mutant: a task that is torn down leaves its closure runnable.
CancelRegistrationLeaks(c) ==
  /\ runtime = "stopping"
  /\ task[c] = "queued"
  /\ caller' = [caller EXCEPT ![c] = IF @ = "awaiting" THEN "shutting_down" ELSE @]
  /\ UNCHANGED <<checks, task, runtime, sweep>>

\* The stopping runtime drops a task no thread has picked up.
CancelRegistration(c) ==
  /\ runtime = "stopping"
  /\ task[c] = "queued"
  /\ task' = [task EXCEPT ![c] = "cancelled"]
  /\ UNCHANGED <<checks, caller, runtime, sweep>>

\* Mutant: the JoinError is dropped instead of mapped.
JoinOutcomeIgnored(c) == "ok"

\* map_err(|_| ShuttingDown) on the join handle.
JoinOutcome(c) == IF task[c] = "pushed" THEN "ok" ELSE "shutting_down"

\* Mutant: a cancelled task never wakes its caller.
AsyncReturnsOnPush(c) ==
  /\ caller[c] = "awaiting"
  /\ task[c] = "pushed"
  /\ caller' = [caller EXCEPT ![c] = "ok"]
  /\ UNCHANGED <<checks, task, runtime, sweep>>

\* The await in add_check_inner_async resolves.
AsyncReturns(c) ==
  /\ caller[c] = "awaiting"
  /\ task[c] \in {"pushed", "cancelled"}
  /\ caller' = [caller EXCEPT ![c] = JoinOutcome(c)]
  /\ UNCHANGED <<checks, task, runtime, sweep>>

\* Mutant: dropping the caller aborts the blocking task.
DropCallerAborts(c) ==
  /\ caller[c] = "awaiting"
  /\ caller' = [caller EXCEPT ![c] = "dropped"]
  /\ task' = [task EXCEPT ![c] = IF @ = "queued" THEN "cancelled" ELSE @]
  /\ UNCHANGED <<checks, runtime, sweep>>

\* The caller's future is dropped at the await (a timeout around it, an
\* aborted task).  The join handle goes with it; the blocking task stays.
DropCaller(c) ==
  /\ caller[c] = "awaiting"
  /\ caller' = [caller EXCEPT ![c] = "dropped"]
  /\ UNCHANGED <<checks, task, runtime, sweep>>

\* The owner of the runtime starts to shut it down.
Shutdown ==
  /\ runtime = "up"
  /\ runtime' = "stopping"
  /\ UNCHANGED <<checks, task, caller, sweep>>

-----------------------------------------------------------------------------
(***************************************************************************)
(* Sweeps.                                                                 *)
(***************************************************************************)
\* Mutants: check_all leaves the grouped checks to check_group; check_group
\* lets ungrouped checks through its filter.
InScopeUnfiltered(c, s) == s = RegistryWide \/ GroupOf[c] \in {s, Ungrouped}
InScopeDisjoint(c, s) ==
  IF s = RegistryWide THEN GroupOf[c] = Ungrouped ELSE GroupOf[c] = s

\* check_all runs everything; check_group filters on the group.
InScope(c, s) == s = RegistryWide \/ GroupOf[c] = s

Due(seq, s) == {i \in DOMAIN seq : InScope(seq[i], s)}

\* Mutant: the timeout dropped.
ArmedNever(p) == FALSE

\* run_one wraps the check in tokio's timeout unless the deadline is zero.
Armed(p) == Deadline[p] > 0

Waiting(p) == {i \in DOMAIN cells[p] : cells[p][i] = Pending}

\* Mutant: a loop awaits one check after the other.
PolledInTurn(p) == {i \in Waiting(p) : phase[p] = "running" /\ \A j \in Waiting(p) : i <= j}

\* join_all polls every future that is not done.
Polled(p) == {i \in Waiting(p) : phase[p] = "running"}

Resolved(p) == phase[p] = "running" /\ Waiting(p) = {}

Statuses(p) == {cells[p][i].status : i \in DOMAIN cells[p]}

\* Mutant: an error keeps its own word as the status.
UnfoldedResult(outcome, d) ==
  [status |-> outcome, message |-> "none", duration |-> d]

\* The tail of run_one: errors, the timeout among them, fold to unhealthy.
FoldedResult(outcome, d) ==
  IF outcome \in HealthStatus
  THEN [status |-> outcome, message |-> "none", duration |-> d]
  ELSE [status |-> "unhealthy", message |-> outcome, duration |-> d]

\* The first poll of check_all (s = RegistryWide) or check_group: clone the
\* vector, filter it, start every check that is due.
BeginProbe(p, s) ==
  /\ runtime = "up"
  /\ phase[p] = "idle"
  /\ phase' = [phase EXCEPT ![p] = "running"]
  /\ scope' = [scope EXCEPT ![p] = s]
  /\ snapshot' = [snapshot EXCEPT ![p] = checks]
  /\ cells' = [cells EXCEPT ![p] = [i \in Due(checks, s) |-> Pending]]
  /\ future' = [future EXCEPT ![p] = [i \in Due(checks, s) |-> Started]]
  /\ elapsed' = [elapsed EXCEPT ![p] = 0]
  /\ acked' = [acked EXCEPT ![p] = {c \in Call : caller[c] = "ok"}]
  /\ UNCHANGED <<registration, overall, emitted>>

\* The check comes to an outcome, in time or too late; the task that drives
\* the sweep is woken, not polled yet.
CheckReady(p, i, outcome) ==
  /\ i \in Polled(p)
  /\ future[p][i].answer = "none"
  /\ future' = [future EXCEPT ![p][i].answer = outcome]
  /\ UNCHANGED <<registration, phase, scope, snapshot, cells, elapsed, overall, emitted, acked>>

\* run_one returns.
RunOneReturns(p, i, outcome) ==
  /\ cells' = [cells EXCEPT ![p][i] = FoldedResult(outcome, future[p][i].age)]
  /\ UNCHANGED <<registration, phase, scope, snapshot, future, elapsed, overall, emitted, acked>>

\* A poll finds the check ready.  The timeout polls it before its timer, so
\* an answer that beats the runtime's lag is taken after the deadline too.
CheckReturns(p, i) ==
  /\ i \in Polled(p)
  /\ future[p][i].answer # "none"
  /\ RunOneReturns(p, i, future[p][i].answer)

Expired(p, i) == Armed(p) /\ future[p][i].age >= Deadline[p]

\* Mutants: the timer is looked at before the check; it goes on running
\* when the check has answered.
CheckTimesOutFirst(p, i) ==
  i \in Polled(p) /\ Expired(p, i) /\ RunOneReturns(p, i, "timed_out")
CheckTimesOutAgain(p, i) ==
  phase[p] = "running" /\ Expired(p, i) /\ RunOneReturns(p, i, "timed_out")

\* A poll finds the timer expired and the check not ready.
CheckTimesOut(p, i) ==
  /\ i \in Polled(p)
  /\ future[p][i].answer = "none"
  /\ Expired(p, i)
  /\ RunOneReturns(p, i, "timed_out")

\* The sweep is gone and leaves nothing behind.
Discard(p, how) ==
  /\ phase' = [phase EXCEPT ![p] = how]
  /\ snapshot' = [snapshot EXCEPT ![p] = <<>>]
  /\ cells' = [cells EXCEPT ![p] = EmptySlots]
  /\ future' = [future EXCEPT ![p] = NoFutures]
  /\ elapsed' = [elapsed EXCEPT ![p] = 0]
  /\ acked' = [acked EXCEPT ![p] = {}]
  /\ UNCHANGED <<registration, scope, overall, emitted>>

\* A check panics while it is polled.  run_one has no catch_unwind, so the
\* panic unwinds join_all and the task that drives the sweep.
CheckPanics(p, i) ==
  /\ i \in Polled(p)
  /\ future[p][i].answer = "none"
  /\ Discard(p, "panicked")

\* The sweep's future is dropped between two polls: the client has hung up,
\* or the runtime is going away.
Abandon(p) ==
  /\ phase[p] = "running"
  /\ ~Resolved(p)
  /\ Discard(p, "cancelled")

\* Mutant: check_group feeds the facade as well.
EmitsAlways(p) == TRUE

\* Only check_all feeds the facade.
Emits(p) == scope[p] = RegistryWide

\* Results of sweep p under name n that count for s: every one has a
\* duration, and one status.
Counted(p, n, s) ==
  {i \in DOMAIN cells[p] :
     NameOf[snapshot[p][i]] = n /\ s \in {cells[p][i].status, "duration"}}

\* emit_facade_metrics over all results: each increments the counter of its
\* status and records its duration.
emit_facade_metrics(p) ==
  [k \in Name \X Sample |->
     emitted[k] + Cardinality(Counted(p, k[1], k[2]))]

\* join_all completes: emission, aggregation and the return to the caller
\* happen in the poll that resolved the last check.
Answer(p) ==
  /\ Resolved(p)
  /\ phase' = [phase EXCEPT ![p] = "answered"]
  /\ overall' = [overall EXCEPT ![p] = aggregate(Statuses(p))]
  /\ emitted' = IF Emits(p) THEN emit_facade_metrics(p) ELSE emitted
  /\ UNCHANGED <<registration, scope, snapshot, cells, future, elapsed, acked>>

-----------------------------------------------------------------------------
(***************************************************************************)
(* Time.  It waits for nothing but the runtime: for a sweep that can       *)
(* answer, and from Lag ticks after the deadline for a poll that would     *)
(* resolve a check.  A check that nothing resolves does not hold it up.    *)
(* The clocks of a sweep saturate: at MaxElapsed without a deadline, with  *)
(* one a tick after it should be over.                                     *)
(***************************************************************************)
Running == {p \in Probe : phase[p] = "running"}

PollIsDue(p, i) ==
  /\ Armed(p)
  /\ future[p][i].age >= Deadline[p] + Lag
  /\ ENABLED (CheckReturns(p, i) \/ CheckTimesOut(p, i))

TimeMayPass(p) == ~Resolved(p) /\ \A i \in DOMAIN cells[p] : ~PollIsDue(p, i)

Cap(p) == IF Deadline[p] > 0 THEN Deadline[p] + Lag + 1 ELSE MaxElapsed

Advance(p, t) == IF t < Cap(p) THEN t + 1 ELSE t

\* The futures of sweep p a tick later: those it polls have grown older.
Older(p) ==
  [i \in DOMAIN future[p] |->
     IF i \in Polled(p) THEN [future[p][i] EXCEPT !.age = Advance(p, @)] ELSE future[p][i]]

Tick ==
  /\ Running # {}
  /\ \A p \in Running : TimeMayPass(p)
  /\ future' = [p \in Probe |-> Older(p)]
  /\ elapsed' =
       [p \in Probe |-> IF p \in Running THEN Advance(p, elapsed[p]) ELSE elapsed[p]]
  /\ UNCHANGED <<registration, phase, scope, snapshot, cells, overall, emitted, acked>>

\* Nothing is left to do: every call is settled and every sweep is over.
Terminated ==
  /\ \A c \in Call : caller[c] \notin {"idle", "awaiting"} /\ task[c] # "queued"
  /\ \A p \in Probe : phase[p] \in Ended \/ (phase[p] = "idle" /\ runtime = "stopping")
  /\ UNCHANGED vars

Register(c) ==
  \/ AddCheck(c)
  \/ AddCheckAsync(c)
  \/ RunRegistration(c)
  \/ CancelRegistration(c)
  \/ AsyncReturns(c)
  \/ DropCaller(c)

Sweep(p) ==
  \/ \E s \in Scope : BeginProbe(p, s)
  \/ \E i \in DOMAIN cells[p] :
       \/ \E outcome \in CheckOutcome : CheckReady(p, i, outcome)
       \/ CheckReturns(p, i)
       \/ CheckTimesOut(p, i)
       \/ CheckPanics(p, i)
  \/ Abandon(p)
  \/ Answer(p)

Next ==
  \/ \E c \in Call : Register(c)
  \/ \E p \in Probe : Sweep(p)
  \/ Shutdown
  \/ Tick
  \/ Terminated

Spec == Init /\ [][Next]_vars

(***************************************************************************)
(* Fairness: the blocking pool works off its queue (or drops it when the   *)
(* runtime stops), a woken task is polled again, by its check or by its    *)
(* timer, and a runtime that stops drops its sweeps.  No check has to      *)
(* become ready.                                                           *)
(***************************************************************************)
Fairness ==
  /\ WF_vars(Tick)
  /\ \A c \in Call :
       /\ WF_vars(RunRegistration(c) \/ CancelRegistration(c))
       /\ WF_vars(AsyncReturns(c))
  /\ \A p \in Probe :
       /\ WF_vars(\E i \in DOMAIN cells[p] : CheckReturns(p, i) \/ CheckTimesOut(p, i))
       /\ WF_vars(Answer(p))
       /\ WF_vars(runtime = "stopping" /\ Abandon(p))

FairSpec == Spec /\ Fairness

-----------------------------------------------------------------------------
(***************************************************************************)
(* The registry as its callers see it (ProbeContract): the vector is the   *)
(* log, the clone taken at the first poll is the prefix an answer covers,  *)
(* and a panicked or dropped sweep is a failed one.                        *)
(***************************************************************************)
Progress ==
  [p \in Probe |-> IF phase[p] \in {"panicked", "cancelled"} THEN "failed" ELSE phase[p]]

Report ==
  [p \in Probe |-> IF phase[p] = "answered"
                   THEN [i \in DOMAIN cells[p] |-> cells[p][i].status]
                   ELSE [i \in {} |-> "healthy"]]

Contract == INSTANCE ProbeContract WITH
  log <- checks, standing <- caller, progress <- Progress, report <- Report,
  floor <- [p \in Probe |-> Len(snapshot[p])]

(***************************************************************************)
(* Properties                                                              *)
(***************************************************************************)
\* Every variable has its type: in particular the slots of a sweep are
\* exactly the positions due in its snapshot, and each holds a CheckResult
\* or is still pending.
TypeOK ==
  /\ checks \in Seq(Call)
  /\ task \in [Call -> {"none", "queued", "pushed", "cancelled"}]
  /\ caller \in [Call -> {"idle", "awaiting", "ok", "shutting_down", "dropped"}]
  /\ runtime \in {"up", "stopping"}
  /\ phase \in [Probe -> {"idle", "running"} \cup Ended]
  /\ scope \in [Probe -> Scope]
  /\ snapshot \in [Probe -> Seq(Call)]
  /\ DOMAIN cells = Probe
  /\ \A p \in Probe :
       cells[p] \in [Due(snapshot[p], scope[p]) -> CheckResult \cup {Pending}]
  /\ DOMAIN future = Probe
  /\ \A p \in Probe :
       future[p] \in [Due(snapshot[p], scope[p]) -> Future]
  /\ elapsed \in [Probe -> Nat]
  /\ overall \in [Probe -> HealthStatus]
  /\ emitted \in [Name \X Sample -> Nat]
  /\ acked \in [Probe -> SUBSET Call]

\* The clone a sweep works on is a prefix of the live vector, however many
\* registrations ran since: what check_all calls "registration order" is the
\* same order in every answer, and a later answer extends an earlier one.
SnapshotsArePrefixes ==
  \A p \in Probe :
    /\ Len(snapshot[p]) <= Len(checks)
    /\ \A i \in DOMAIN snapshot[p] : snapshot[p][i] = checks[i]

Positions(c) == {i \in DOMAIN checks : checks[i] = c}

\* A call that returned Ok has registered its check, once.  A call that has
\* not been acknowledged, dropped callers included, has registered it at
\* most once.
AcknowledgedOnce ==
  \A c \in Call :
    /\ caller[c] = "ok" => Positions(c) # {}
    /\ \A i, j \in Positions(c) : i = j

\* A call that returned ShuttingDown has not registered its check and never
\* will: the doc of add_check_async promises the check is not registered.
ShuttingDownNotRegistered ==
  \A c \in Call : caller[c] = "shutting_down" => Positions(c) = {} /\ task[c] = "cancelled"

\* A registration acknowledged before a sweep began is covered by the
\* sweep's answer: by every registry-wide answer, and by the answers for
\* its own group.
VisibleRegistrations ==
  \A p \in Probe : \A c \in acked[p] :
    phase[p] = "answered" /\ (scope[p] = RegistryWide \/ scope[p] = GroupOf[c])
      => \E i \in DOMAIN cells[p] : snapshot[p][i] = c /\ cells[p][i] # Pending

\* A group's answer rests on checks of that group alone.
GroupIsolation ==
  \A p \in Probe : scope[p] \in Group =>
    \A i \in DOMAIN cells[p] : GroupOf[snapshot[p][i]] = scope[p]

\* An answer is the worst of its verdicts, none of them missing: unhealthy
\* if some check is, healthy only if all are (the 1.0.0 regression).
WorstStatusWins ==
  \A p \in Probe : phase[p] = "answered" =>
    LET reported == {cells[p][i].status : i \in DOMAIN cells[p]} IN
    /\ "pending" \notin reported
    /\ overall[p] = "unhealthy" <=> "unhealthy" \in reported
    /\ overall[p] = "healthy" <=> reported \subseteq {"healthy"}

\* A check that was ready when it was polled is reported by its own answer,
\* late or not, a timeout of its own included.  Only a check that was not is
\* timed out by the registry: by a handle with a deadline, never before it.
TimeoutsAreEarned ==
  \A p \in Probe : \A i \in DOMAIN cells[p] :
    cells[p][i] # Pending =>
      LET check == future[p][i] IN
      IF check.answer # "none"
      THEN cells[p][i].status = IF check.answer \in HealthStatus THEN check.answer ELSE "unhealthy"
      ELSE /\ Deadline[p] > 0 /\ check.age >= Deadline[p]
           /\ cells[p][i].status = "unhealthy" /\ cells[p][i].message = "timed_out"

\* A sweep with a deadline is over by then, whatever its checks do and
\* however many there are: the deadlines run side by side and do not add up.
SweepWithinDeadline ==
  \A p \in Probe : Deadline[p] > 0 => elapsed[p] <= Deadline[p] + Lag

\* The facade counter of a name and status is the number of verdicts that
\* answered registry-wide sweeps returned for it, and the duration histogram
\* of a name has one sample for each of them: nothing is counted twice, and a
\* sweep that panicked or was dropped has counted nothing.
FacadeCounts ==
  \A n \in Name, s \in Sample :
    emitted[<<n, s>>] = Cardinality(
      {r \in Probe \X DOMAIN checks :
         /\ phase[r[1]] = "answered"
         /\ scope[r[1]] = RegistryWide
         /\ r[2] \in Counted(r[1], n, s)})

\* A verdict is final: until its sweep is gone no slot changes again, so a
\* check that answers after its timeout is ignored.
VerdictFinal ==
  [][\A p \in Probe : \A i \in DOMAIN cells[p] :
       cells[p][i] # Pending /\ phase'[p] \in {"running", "answered"}
         => cells'[p][i] = cells[p][i]]_vars

\* "One hanging dependency can never stall a probe": with a deadline, every
\* sweep that begins is over eventually, even if no check ever returns.
EveryProbeEnds ==
  \A p \in Probe : Deadline[p] > 0 => (phase[p] = "running" ~> phase[p] \in Ended)

\* An awaited registration is acknowledged or refused, unless its caller
\* gives up first.
RegistrationResolves ==
  \A c \in Call : caller[c] = "awaiting" ~> caller[c] \in {"ok", "shutting_down", "dropped"}

\* A caller that gave up has not withdrawn the registration: while the
\* runtime lives the check turns up in the vector all the same.
DroppedCallerRegisters ==
  \A c \in Call :
    caller[c] = "dropped" ~> (Positions(c) # {} \/ runtime = "stopping")

\* Every behaviour of the registry is one ProbeContract allows: an answer
\* covers exactly the log as it was at one moment of the sweep, and a
\* registration takes effect once, before it is confirmed and never after it
\* is refused.
ImplementsContract == Contract!Spec

-----------------------------------------------------------------------------
(***************************************************************************)
(* What the repository says and the code does not do.                      *)
(***************************************************************************)
\* registry.rs, above the UnwindSafe impl: run_one "folds failures into
\* CheckResult and never unwinds through the registry itself".
NeverUnwinds == \A p \in Probe : phase[p] # "panicked"

\* README, metrics facade: "counter, incremented per check execution".
CountsEveryExecution ==
  \A n \in Name, s \in HealthStatus :
    emitted[<<n, s>>] = Cardinality(
      {r \in Probe \X DOMAIN checks :
         phase[r[1]] = "answered" /\ r[2] \in Counted(r[1], n, s)})

=============================================================================
