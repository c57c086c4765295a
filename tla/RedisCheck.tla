------------------------------- MODULE RedisCheck -------------------------------
(***************************************************************************)
(* RedisCheck of src/checks/redis.rs: an async probe with a deadline that  *)
(* hands a blocking PING to tokio's blocking pool.  The probe may give up; *)
(* the thread cannot be cancelled and goes on alone, bounded by the socket *)
(* timeouts `ping` sets once it has a connection.                          *)
(***************************************************************************)
EXTENDS Naturals, Sequences, FiniteSets

CONSTANTS
  Probe,      \* calls of RedisCheck::check, one each
  PoolSize,   \* most blocking threads of the runtime
  Timeout,    \* the check's timeout
  WarnAbove,  \* the latency above which a reply means degraded
  Margin,     \* the second that `ping` adds to the socket timeouts
  Lag         \* most ticks the runtime needs to serve an expired timer

ASSUME RedisAssumption ==
  /\ PoolSize \in Nat \ {0}
  /\ Timeout \in Nat
  /\ WarnAbove \in Nat
  /\ Margin \in Nat
  /\ Lag \in Nat
  /\ Lag < Margin

VARIABLES
  server,   \* what the Redis server does with a connection
  runtime,  \* up, stopping (Runtime::drop waits for its threads) or gone
  call,     \* call[p]: the async side of the probe
  outcome,  \* outcome[p]: what check() returned
  elapsed,  \* elapsed[p]: ticks since check() started, until it returns
  job,      \* job[p]: the blocking task of the probe
  queue,    \* tasks no thread has taken yet
  ioTime    \* ioTime[p]: ticks since the PING was sent

async == <<call, outcome, elapsed>>
pool == <<job, queue, ioTime>>
vars == <<server, runtime, async, pool>>

ServerMode == {"answering", "refusing", "silent"}
Busy == {"connecting", "hung", "pinging"}
Finished == {"pong", "other_reply", "error", "io_timeout", "cancelled"}
Verdict == {"healthy", "degraded", "unavailable", "task_failed", "timed_out"}

Init ==
  /\ server \in ServerMode
  /\ runtime = "up"
  /\ call = [p \in Probe |-> "idle"]
  /\ outcome = [p \in Probe |-> "none"]
  /\ elapsed = [p \in Probe |-> 0]
  /\ job = [p \in Probe |-> "none"]
  /\ queue = <<>>
  /\ ioTime = [p \in Probe |-> 0]

-----------------------------------------------------------------------------
(***************************************************************************)
(* The async side.                                                         *)
(***************************************************************************)
\* Mutant: every poll, not the first alone, hands a task to the pool.
StartCheckEachPoll(p) ==
  /\ runtime = "up"
  /\ call[p] \in {"idle", "awaiting"}
  /\ call' = [call EXCEPT ![p] = "awaiting"]
  /\ job' = [job EXCEPT ![p] = "queued"]
  /\ queue' = Append(queue, p)
  /\ UNCHANGED <<server, runtime, outcome, elapsed, ioTime>>

\* check() is polled first: the blocking task is queued, the timer runs.
StartCheck(p) ==
  /\ runtime = "up"
  /\ call[p] = "idle"
  /\ call' = [call EXCEPT ![p] = "awaiting"]
  /\ job' = [job EXCEPT ![p] = "queued"]
  /\ queue' = Append(queue, p)
  /\ UNCHANGED <<server, runtime, outcome, elapsed, ioTime>>

\* Mutant: a reply at the threshold already counts as slow.
MatchedEager(result, d) ==
  CASE result = "pong" /\ d >= WarnAbove -> "degraded"
    [] result = "pong" /\ d < WarnAbove -> "healthy"
    [] result = "cancelled" -> "task_failed"
    [] OTHER -> "unavailable"

\* The match at the end of check(), for a task that is over.
Matched(result, d) ==
  CASE result = "pong" /\ d > WarnAbove -> "degraded"
    [] result = "pong" /\ d <= WarnAbove -> "healthy"
    [] result = "cancelled" -> "task_failed"
    [] OTHER -> "unavailable"

Return(p, verdict) ==
  /\ call' = [call EXCEPT ![p] = "returned"]
  /\ outcome' = [outcome EXCEPT ![p] = verdict]

\* The join handle is ready.  elapsed counts queueing and connecting too.
CheckReturns(p) ==
  /\ call[p] = "awaiting"
  /\ job[p] \in Finished
  /\ Return(p, Matched(job[p], elapsed[p]))
  /\ UNCHANGED <<server, runtime, elapsed, pool>>

\* Mutant: only the time spent on the wire counts for the timeout.
OverdueOnWire(p, by) == ioTime[p] >= Timeout + by

\* The deadline, set when check() starts, passed `by` ticks ago or more.
Overdue(p, by) == elapsed[p] >= Timeout + by

\* Mutant: the timeout applies only once a thread has the task.
CheckTimesOutRunning(p) ==
  /\ call[p] = "awaiting"
  /\ job[p] \in Busy
  /\ Overdue(p, 0)
  /\ Return(p, "timed_out")
  /\ UNCHANGED <<server, runtime, elapsed, pool>>

\* The deadline has passed and the handle, polled first, is not ready; the
\* blocking task is left to itself.
CheckTimesOut(p) ==
  /\ call[p] = "awaiting"
  /\ job[p] \notin Finished
  /\ Overdue(p, 0)
  /\ Return(p, "timed_out")
  /\ UNCHANGED <<server, runtime, elapsed, pool>>

\* The probe's future is dropped: the registry's own deadline, a client that
\* hangs up.
DropCheck(p) ==
  /\ call[p] = "awaiting"
  /\ call' = [call EXCEPT ![p] = "dropped"]
  /\ UNCHANGED <<server, runtime, outcome, elapsed, pool>>

-----------------------------------------------------------------------------
(***************************************************************************)
(* The blocking side.                                                      *)
(***************************************************************************)
BusyThreads == {p \in Probe : job[p] \in Busy}

\* A thread takes the oldest task and starts `ping`.
PickUp ==
  /\ queue # <<>>
  /\ Cardinality(BusyThreads) < PoolSize
  /\ job' = [job EXCEPT ![Head(queue)] = "connecting"]
  /\ queue' = Tail(queue)
  /\ UNCHANGED <<server, runtime, async, ioTime>>

\* get_connection: the URL is bad or the server refuses; or it answers and
\* the handshake completes; or it accepts and says nothing, and since no
\* socket timeout is set before get_connection returns, the thread hangs.
Connect(p) ==
  /\ job[p] = "connecting"
  /\ job' = [job EXCEPT ![p] = CASE server = "refusing" -> "error"
                                 [] server = "answering" -> "pinging"
                                 [] server = "silent" -> "hung"]
  /\ ioTime' = [ioTime EXCEPT ![p] = 0]
  /\ UNCHANGED <<server, runtime, async, queue>>

\* The peer of a hung connection closes it after all.
PeerCloses(p) ==
  /\ job[p] = "hung"
  /\ job' = [job EXCEPT ![p] = "error"]
  /\ UNCHANGED <<server, runtime, async, queue, ioTime>>

\* PING is answered (PONG, something else, an error), or the connection
\* breaks.
Reply(p, result) ==
  /\ job[p] = "pinging"
  /\ \/ server = "answering"
     \/ server = "refusing" /\ result = "error"
  /\ job' = [job EXCEPT ![p] = result]
  /\ UNCHANGED <<server, runtime, async, queue, ioTime>>

\* Mutant: the socket deadline equals the probe's own.
SlackNone == Timeout

\* The socket timeouts `ping` sets.
Slack == Timeout + Margin

\* Mutant: the read timeout is not set.
PingTimesOutNever(p) == FALSE /\ UNCHANGED vars

\* The socket timeout ends the PING.
PingTimesOut(p) ==
  /\ job[p] = "pinging"
  /\ ioTime[p] >= Slack
  /\ job' = [job EXCEPT ![p] = "io_timeout"]
  /\ UNCHANGED <<server, runtime, async, queue, ioTime>>

-----------------------------------------------------------------------------
(***************************************************************************)
(* Environment: the server, the runtime, time.                             *)
(***************************************************************************)
ServerChanges ==
  /\ server' \in ServerMode \ {server}
  /\ UNCHANGED <<runtime, async, pool>>

\* The runtime is dropped: tasks still queued are cancelled, probes that
\* wait are dropped with their tasks' handles.
Shutdown ==
  /\ runtime = "up"
  /\ runtime' = "stopping"
  /\ call' = [p \in Probe |-> IF call[p] = "awaiting" THEN "dropped" ELSE call[p]]
  /\ job' = [p \in Probe |-> IF job[p] = "queued" THEN "cancelled" ELSE job[p]]
  /\ queue' = <<>>
  /\ UNCHANGED <<server, outcome, elapsed, ioTime>>

\* The drop returns once no blocking thread is busy.
ShutdownCompletes ==
  /\ runtime = "stopping"
  /\ BusyThreads = {}
  /\ runtime' = "gone"
  /\ UNCHANGED <<server, async, pool>>

\* Time cannot pass an expired timer by more than Lag, nor a finished task
\* whose probe still waits, nor an expired socket timeout.
MayPass(p) ==
  /\ call[p] = "awaiting" => ~Overdue(p, Lag) /\ job[p] \notin Finished
  /\ job[p] = "pinging" => ioTime[p] < Slack

Tick ==
  /\ \E p \in Probe : call[p] = "awaiting" \/ job[p] = "pinging"
  /\ \A p \in Probe : MayPass(p)
  /\ elapsed' = [p \in Probe |-> IF call[p] = "awaiting" THEN elapsed[p] + 1 ELSE elapsed[p]]
  /\ ioTime' = [p \in Probe |-> IF job[p] = "pinging" THEN ioTime[p] + 1 ELSE ioTime[p]]
  /\ UNCHANGED <<server, runtime, call, outcome, job, queue>>

Step(p) ==
  \/ StartCheck(p)
  \/ CheckReturns(p)
  \/ CheckTimesOut(p)
  \/ DropCheck(p)
  \/ Connect(p)
  \/ PeerCloses(p)
  \/ \E result \in {"pong", "other_reply", "error"} : Reply(p, result)
  \/ PingTimesOut(p)

Next ==
  \/ \E p \in Probe : Step(p)
  \/ PickUp
  \/ ServerChanges
  \/ Shutdown
  \/ ShutdownCompletes
  \/ Tick

Spec == Init /\ [][Next]_vars

\* Threads, timers and woken tasks are served; the server owes nothing: no
\* fairness for Reply, PeerCloses or ServerChanges.
Fairness ==
  /\ WF_vars(Tick)
  /\ WF_vars(PickUp)
  /\ WF_vars(ShutdownCompletes)
  /\ \A p \in Probe :
       /\ WF_vars(CheckReturns(p))
       /\ WF_vars(CheckTimesOut(p))
       /\ WF_vars(Connect(p))
       /\ WF_vars(PingTimesOut(p))

FairSpec == Spec /\ Fairness

-----------------------------------------------------------------------------
\* The check as its caller sees it (TimedCheck): the async side alone.
Stage ==
  [p \in Probe |-> CASE call[p] = "idle" -> "idle"
                     [] call[p] = "awaiting" -> "running"
                     [] OTHER -> "over"]

Contract == INSTANCE TimedCheck WITH
  stage <- Stage, verdict <- outcome, age <- elapsed,
  Failure <- {"unavailable", "task_failed"}

\* Every variable has its type, and the queue holds the queued tasks, each
\* once.
TypeOK ==
  /\ server \in ServerMode
  /\ runtime \in {"up", "stopping", "gone"}
  /\ call \in [Probe -> {"idle", "awaiting", "returned", "dropped"}]
  /\ outcome \in [Probe -> Verdict \cup {"none"}]
  /\ elapsed \in [Probe -> Nat]
  /\ job \in [Probe -> {"none", "queued"} \cup Busy \cup Finished]
  /\ queue \in Seq(Probe)
  /\ \A p \in Probe : job[p] = "queued" <=> \E i \in DOMAIN queue : queue[i] = p
  /\ \A i, j \in DOMAIN queue : queue[i] = queue[j] => i = j
  /\ ioTime \in [Probe -> Nat]

\* ping: "Slack above the async deadline keeps the outer timeout
\* authoritative": the socket timeout never ends a task its probe still
\* waits for, so it never turns a timeout into another verdict.
OuterTimeoutAuthoritative ==
  \A p \in Probe : job[p] = "io_timeout" => call[p] # "awaiting" /\ outcome[p] \in {"none", "timed_out"}

\* A success is a PONG, classified by the whole latency of the probe, a
\* reply exactly at the threshold being healthy; every verdict that is not a
\* timeout is that of a task that is over.
VerdictMatchesReply ==
  \A p \in Probe :
    /\ outcome[p] = "healthy" => job[p] = "pong" /\ elapsed[p] <= WarnAbove
    /\ outcome[p] = "degraded" => job[p] = "pong" /\ elapsed[p] > WarnAbove
    /\ outcome[p] \in {"unavailable", "task_failed"} => job[p] \in Finished \ {"pong"}

\* The check is one TimedCheck allows, whatever becomes of its thread: the
\* latency counts queueing and connecting, it is over once, by its timeout,
\* and a PONG or an error that comes later changes no verdict.
ImplementsCheck == Contract!Spec

\* Every probe that starts is over eventually.
EveryCheckEnds ==
  \A p \in Probe : call[p] = "awaiting" ~> call[p] \in {"returned", "dropped"}

\* Once it has a connection, a blocking task ends although nobody waits for
\* it and the server says nothing.
PingEnds == \A p \in Probe : job[p] = "pinging" ~> job[p] \in Finished

\* A dropped runtime is gone eventually unless a thread hangs in
\* get_connection.
RuntimeStops ==
  runtime = "stopping" ~> (runtime = "gone" \/ \E p \in Probe : job[p] = "hung")

\* Doc of ping: io_deadline bounds each socket read and write "so the
\* blocking task can never hang on a silent server" and "guarantees the
\* blocking thread eventually unwinds".
BlockingTaskEnds == \A p \in Probe : job[p] \in Busy ~> job[p] \in Finished

=============================================================================
