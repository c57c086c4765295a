------------------------------- MODULE K8sService -------------------------------
(***************************************************************************)
(* examples/k8s_service.rs: a process from start-up through graceful       *)
(* shutdown or a crash to its restart, its registry of dependency checks   *)
(* and of the checks on the flags `initialized` and `draining`, and the    *)
(* requests of kubelets and load balancers to the routes of src/axum.rs.   *)
(*                                                                         *)
(* A sweep is HealthRegistry's: the checks on the flags are resolved in    *)
(* its first poll, the dependencies' later, at the latest by the timeout.  *)
(* The Redis check runs on a blocking thread as in RedisCheck.             *)
(***************************************************************************)
EXTENDS HealthRoutes

CONSTANTS
  Request,  \* HTTP requests, each on a connection of its own
  Dep,      \* monitored dependencies: "database", and "cache" if REDIS_URL is set
  Strict    \* degraded_fails_readiness of the readiness routes

ASSUME ServiceAssumption ==
  /\ "database" \in Dep
  /\ Dep \subseteq {"database", "cache"}
  /\ Strict \in BOOLEAN

VARIABLES
  process,      \* how far run() has come, or how the process ended
  initialized,  \* the flag behind the init group's check
  draining,     \* the flag behind the draining check
  dep,          \* dep[d]: true state of a dependency
  stage,        \* stage[r]: progress of a request
  route,        \* route[r]: the route asked for
  slots,        \* slots[r]: check -> verdict, or Unseen, of its sweep
  thread,       \* thread[r]: the blocking thread of its Redis check
  code,         \* code[r]: the HTTP status answered
  sawDraining,  \* history: whether draining was set when its sweep began
  steady,       \* history: dependencies unchanged since then
  late          \* history: dependencies whose check its sweep timed out

flags == <<initialized, draining>>
requests == <<stage, route, slots, thread, code, sawDraining, steady, late>>
vars == <<process, flags, dep, requests>>

Starting == {"connecting", "registering", "binding", "bound"}
Dead == {"failed", "killed", "exited"}
Served == {"accepted", "sending", "requested", "sweeping"}
Open == Served \cup {"pending"}
Over == {"answered", "refused", "closed", "gone"}
DepState == {"up", "slow", "down", "hung"}
Unseen == "unseen"
Flag == {"initialized", "draining"}
Check == Dep \cup Flag
InitGroup == {"initialized"}
Threads == IF "cache" \in Dep THEN {"none", "busy", "hung", "done"} ELSE {"none"}
NoSlots == [c \in {} |-> Unseen]

Init ==
  /\ process = "connecting"
  /\ initialized = FALSE
  /\ draining = FALSE
  /\ dep \in [Dep -> DepState]
  /\ stage = [r \in Request |-> "idle"]
  /\ route = [r \in Request |-> "healthz"]
  /\ slots = [r \in Request |-> NoSlots]
  /\ thread = [r \in Request |-> "none"]
  /\ code = [r \in Request |-> 0]
  /\ sawDraining = [r \in Request |-> FALSE]
  /\ steady = [r \in Request |-> Dep]
  /\ late = [r \in Request |-> {}]

-----------------------------------------------------------------------------
(***************************************************************************)
(* run(): start-up and shutdown.                                           *)
(***************************************************************************)
RunStep(from, to) ==
  /\ process = from
  /\ process' = to
  /\ UNCHANGED <<dep, requests>>

\* SqlitePool::connect(..).await?: an error ends the process, and a database
\* that hangs is an error once sqlx gives up.
ConnectPool ==
  /\ RunStep("connecting", IF dep["database"] \in {"up", "slow"} THEN "registering" ELSE "failed")
  /\ UNCHANGED flags

\* The blocking task registers all checks.
RegisterChecks == RunStep("registering", "binding") /\ UNCHANGED flags

\* TcpListener::bind(..).await?.
Bind == \E to \in {"bound", "failed"} : RunStep("binding", to) /\ UNCHANGED flags

\* Mutant: the flag waits until every dependency answers.
SetInitializedAllUp ==
  /\ ~initialized
  /\ \A d \in Dep : dep[d] \in {"up", "slow"}
  /\ RunStep("bound", "bound")
  /\ initialized' = TRUE
  /\ UNCHANGED draining

SetInitialized ==
  /\ ~initialized
  /\ RunStep("bound", "bound")
  /\ initialized' = TRUE
  /\ UNCHANGED draining

\* axum::serve starts, with its signal handlers; connections made since the
\* bind are in the backlog.
Serve == initialized /\ RunStep("bound", "serving") /\ UNCHANGED flags

\* The process dies: an early signal's default action, SIGKILL after the
\* grace period, no memory.  Its connections and threads end with it.
Kill ==
  /\ process \notin Dead
  /\ process' = "killed"
  /\ stage' = [r \in Request |-> IF stage[r] \in Open THEN "closed" ELSE stage[r]]
  /\ thread' = [r \in Request |-> "none"]
  /\ UNCHANGED <<flags, dep, route, slots, code, sawDraining, steady, late>>

\* The kubelet starts the container again: main() from the top, flags unset.
Restart ==
  /\ process \in Dead
  /\ process' = "connecting"
  /\ initialized' = FALSE
  /\ draining' = FALSE
  /\ UNCHANGED <<dep, requests>>

\* shutdown_signal: SIGINT or SIGTERM sets the flag.
Signal ==
  /\ ~draining
  /\ RunStep("serving", "serving")
  /\ draining' = TRUE
  /\ UNCHANGED initialized

\* The accept loop learns that shutdown_signal is over, in a task of its own,
\* and drops the listener with its backlog.
StopAccepting ==
  /\ process = "serving"
  /\ draining
  /\ process' = "closing"
  /\ stage' = [r \in Request |-> IF stage[r] = "pending" THEN "closed" ELSE stage[r]]
  /\ UNCHANGED <<flags, dep, route, slots, thread, code, sawDraining, steady, late>>

\* axum::serve(..).await returns once every connection is over, be it one
\* whose client has sent half a request and stopped.
ServeReturns ==
  /\ \A r \in Request : stage[r] \notin Served
  /\ RunStep("closing", "dropping")
  /\ UNCHANGED flags

\* main drops the runtime, which waits for its blocking threads.
RuntimeDropped ==
  /\ \A r \in Request : thread[r] \in {"none", "done"}
  /\ RunStep("dropping", "exited")
  /\ UNCHANGED flags

-----------------------------------------------------------------------------
(***************************************************************************)
(* Requests.                                                               *)
(***************************************************************************)
\* A client connects, to ask for a route.
Arrive(r, rt) ==
  /\ stage[r] = "idle"
  /\ stage' = [stage EXCEPT ![r] = IF process \in {"bound", "serving"} THEN "pending" ELSE "refused"]
  /\ route' = [route EXCEPT ![r] = rt]
  /\ UNCHANGED <<process, flags, dep, slots, thread, code, sawDraining, steady, late>>

Move(r, from, to) ==
  /\ stage[r] = from
  /\ stage' = [stage EXCEPT ![r] = to]
  /\ UNCHANGED <<process, flags, dep, route, slots, thread, code, sawDraining, steady, late>>

Accept(r) == process = "serving" /\ Move(r, "pending", "accepted")

\* The client sends the first and the last of its request, in its own time.
SendPart(r) == Move(r, "accepted", "sending")
SendRest(r) == Move(r, "sending", "requested")

\* Graceful shutdown closes an accepted connection without a byte of a request.
CloseIdle(r) == process = "closing" /\ Move(r, "accepted", "closed")

\* The client hangs up: hyper drops the handler's future.
Leave(r) == \E from \in Open : Move(r, from, "gone")

\* liveness_handler, ping_handler.
AnswerAlive(r) ==
  /\ stage[r] = "requested"
  /\ route[r] \in Constant
  /\ stage' = [stage EXCEPT ![r] = "answered"]
  /\ code' = [code EXCEPT ![r] = OK]
  /\ UNCHANGED <<process, flags, dep, route, slots, thread, sawDraining, steady, late>>

\* Mutant: startup_route, which runs every check, for startup_route_for_group.
DueAll(rt) == Check

\* The checks of a route: the init group's, or all.
Due(rt) == IF rt = "startupz" THEN InitGroup ELSE Check

\* Mutant: the draining check returns the value captured at registration.
FlagVerdictCaptured(c) ==
  IF c = "draining" \/ initialized THEN "healthy" ELSE "unhealthy"

\* Mutant: an error keeps its own word as the status.
FlagVerdictUnfolded(c) ==
  IF (c = "initialized" /\ initialized) \/ (c = "draining" /\ ~draining)
  THEN "healthy" ELSE "error"

\* The closures registered for the two flags, their errors folded.
FlagVerdict(c) ==
  IF (c = "initialized" /\ initialized) \/ (c = "draining" /\ ~draining)
  THEN "healthy" ELSE "unhealthy"

\* readiness_handler, detailed_handler, startup_handler up to the first
\* await of the sweep.
BeginSweep(r) ==
  /\ stage[r] = "requested"
  /\ route[r] \notin Constant
  /\ stage' = [stage EXCEPT ![r] = "sweeping"]
  /\ slots' = [slots EXCEPT ![r] =
       [c \in Due(route[r]) |-> IF c \in Flag THEN FlagVerdict(c) ELSE Unseen]]
  /\ thread' = [thread EXCEPT ![r] = IF "cache" \in Due(route[r]) THEN "busy" ELSE "none"]
  /\ sawDraining' = [sawDraining EXCEPT ![r] = draining]
  /\ steady' = [steady EXCEPT ![r] = Dep]
  /\ late' = [late EXCEPT ![r] = {}]
  /\ UNCHANGED <<process, flags, dep, route, code>>

Waiting(r, d) == stage[r] = "sweeping" /\ d \in DOMAIN slots[r] /\ slots[r][d] = Unseen

\* The verdict of SqlxCheck or RedisCheck on a dependency that answers.
Verdict(state) ==
  CASE state = "up" -> "healthy" [] state = "slow" -> "degraded" [] state = "down" -> "unhealthy"

Resolve(r, d, verdict) ==
  slots' = IF Waiting(r, d) THEN [slots EXCEPT ![r][d] = verdict] ELSE slots

\* SELECT 1 ends.
DatabaseAnswers(r) ==
  /\ Waiting(r, "database")
  /\ dep["database"] # "hung"
  /\ Resolve(r, "database", Verdict(dep["database"]))
  /\ UNCHANGED <<process, flags, dep, stage, route, thread, code, sawDraining, steady, late>>

\* The blocking thread is done with PING, or hangs in get_connection; its
\* probe may be over already.
ThreadRuns(r) ==
  /\ thread[r] = "busy"
  /\ IF dep["cache"] = "hung"
     THEN thread' = [thread EXCEPT ![r] = "hung"] /\ UNCHANGED slots
     ELSE /\ thread' = [thread EXCEPT ![r] = "done"]
          /\ Resolve(r, "cache", Verdict(dep["cache"]))
  /\ UNCHANGED <<process, flags, dep, stage, route, code, sawDraining, steady, late>>

\* The server closes a hung connection after all.
PeerCloses(r) ==
  /\ thread[r] = "hung"
  /\ thread' = [thread EXCEPT ![r] = "done"]
  /\ Resolve(r, "cache", "unhealthy")
  /\ UNCHANGED <<process, flags, dep, stage, route, code, sawDraining, steady, late>>

\* Mutant: no timeout, neither the check's nor the registry's.
TimeOutNever(r, d) == FALSE /\ UNCHANGED vars

\* A timeout ends the wait on time alone, whether the dependency hangs or
\* the check has been kept from asking it (pool or threads in use): the
\* check's own or the registry's, which leave the same verdict.
TimeOut(r, d) ==
  /\ Waiting(r, d)
  /\ Resolve(r, d, "unhealthy")
  /\ late' = [late EXCEPT ![r] = @ \cup {d}]
  /\ UNCHANGED <<process, flags, dep, stage, route, thread, code, sawDraining, steady>>

\* The rest of the handlers, after the await.
Status(r) ==
  sweep_status_code(route[r], {slots[r][c] : c \in DOMAIN slots[r]}, Strict)

Answer(r) ==
  /\ stage[r] = "sweeping"
  /\ \A c \in DOMAIN slots[r] : slots[r][c] # Unseen
  /\ stage' = [stage EXCEPT ![r] = "answered"]
  /\ code' = [code EXCEPT ![r] = Status(r)]
  /\ UNCHANGED <<process, flags, dep, route, slots, thread, sawDraining, steady, late>>

\* Environment: a dependency changes state.
Flip(d, state) ==
  /\ state # dep[d]
  /\ dep' = [dep EXCEPT ![d] = state]
  /\ steady' = [r \in Request |-> steady[r] \ {d}]
  /\ UNCHANGED <<process, flags, stage, route, slots, thread, code, sawDraining, late>>

Run ==
  \/ ConnectPool
  \/ RegisterChecks
  \/ Bind
  \/ SetInitialized
  \/ Serve
  \/ Kill
  \/ Restart
  \/ Signal
  \/ StopAccepting
  \/ ServeReturns
  \/ RuntimeDropped

Respond(r) ==
  \/ \E rt \in Route : Arrive(r, rt)
  \/ Accept(r)
  \/ SendPart(r)
  \/ SendRest(r)
  \/ CloseIdle(r)
  \/ Leave(r)
  \/ AnswerAlive(r)
  \/ BeginSweep(r)
  \/ DatabaseAnswers(r)
  \/ ThreadRuns(r)
  \/ PeerCloses(r)
  \/ \E d \in Dep : TimeOut(r, d)
  \/ Answer(r)

Next ==
  \/ Run
  \/ \E r \in Request : Respond(r)
  \/ \E d \in Dep, state \in DepState : Flip(d, state)

Spec == Init /\ [][Next]_vars

\* run() and the tasks of the runtime are scheduled, timers fire, threads
\* run, and the kubelet restarts what ended.  Clients, signals, dependencies
\* and hung peers owe nothing.
Fairness ==
  /\ WF_vars(ConnectPool \/ RegisterChecks \/ Bind)
  /\ WF_vars(SetInitialized)
  /\ WF_vars(Serve)
  /\ WF_vars(StopAccepting)
  /\ WF_vars(ServeReturns)
  /\ WF_vars(RuntimeDropped)
  /\ WF_vars(Restart)
  /\ \A r \in Request :
       /\ WF_vars(Accept(r))
       /\ WF_vars(CloseIdle(r))
       /\ WF_vars(AnswerAlive(r) \/ BeginSweep(r))
       /\ WF_vars(ThreadRuns(r))
       /\ \A d \in Dep : WF_vars(TimeOut(r, d))
       /\ WF_vars(Answer(r))

FairSpec == Spec /\ Fairness

-----------------------------------------------------------------------------
\* Every variable has its type: in particular a sweep's slots are those of
\* its route's checks.
TypeOK ==
  /\ process \in Starting \cup {"serving", "closing", "dropping"} \cup Dead
  /\ initialized \in BOOLEAN
  /\ draining \in BOOLEAN
  /\ dep \in [Dep -> DepState]
  /\ stage \in [Request -> {"idle"} \cup Open \cup Over]
  /\ route \in [Request -> Route]
  /\ DOMAIN slots = Request
  /\ \A r \in Request : slots[r] \in [DOMAIN slots[r] -> HealthStatus \cup {Unseen}]
  /\ \A r \in Request : stage[r] = "sweeping" => DOMAIN slots[r] = Due(route[r])
  /\ thread \in [Request -> Threads]
  /\ code \in [Request -> {0, OK, SERVICE_UNAVAILABLE}]
  /\ sawDraining \in [Request -> BOOLEAN]
  /\ steady \in [Request -> SUBSET Dep]
  /\ late \in [Request -> SUBSET Dep]

\* From the moment the signal is received no sweep that begins answers that
\* the pod is ready, while sweeps in flight and connections in the backlog
\* are still served.
DrainingNeverReady ==
  \A r \in Request :
    stage[r] = "answered" /\ route[r] \in Readiness /\ sawDraining[r]
      => code[r] = SERVICE_UNAVAILABLE

\* /startupz gates on the init group alone and the listener is not served
\* before the flag is set: whatever the dependencies do, whatever the signal
\* does, no start-up probe is ever answered 503.
StartupNeverFails ==
  \A r \in Request :
    stage[r] = "answered" /\ route[r] = "startupz" => code[r] = OK

\* A readiness answer is right about every dependency that has not changed
\* during its sweep: one that is down or hung makes it 503, timed out or not,
\* and if none is (nor slow, under the strict setting), no check was timed
\* out and the pod is not draining, it is 200.
ReadinessTracks ==
  [][\A r \in Request :
       stage[r] = "sweeping" /\ stage'[r] = "answered" /\ route[r] \in Readiness =>
         /\ (\E d \in steady[r] : dep[d] \in {"down", "hung"})
              => code'[r] = SERVICE_UNAVAILABLE
         /\ /\ steady[r] = Dep
            /\ late[r] = {}
            /\ ~sawDraining[r]
            /\ \A d \in Dep : dep[d] \in {"up"} \cup (IF Strict THEN {} ELSE {"slow"})
            => code'[r] = OK]_vars

\* A connection is accepted and a request that has been sent is over
\* eventually, dependencies that hang, shutdown and crashes notwithstanding.
\* In between it is the client's turn.
RequestsEnd ==
  \A r \in Request :
    stage[r] \in {"pending", "requested", "sweeping"}
      ~> stage[r] \in Over \cup {"accepted", "sending"}

\* What a shutdown waits for without bound: the rest of a request, and a
\* Redis thread in get_connection.
ClientsFinish == \A r \in Request : []<>(stage[r] # "sending")
ThreadsFinish == \A r \in Request : []<>(thread[r] # "hung")

\* After the signal the process ends, if no client keeps a request half sent
\* and no Redis thread hangs for good.
ShutdownCompletes == ClientsFinish /\ ThreadsFinish => (draining ~> process \in Dead)

\* Start-up depends on the database alone: once it accepts connections for
\* good and nothing from outside ends the process any more (a signal, a kill,
\* an address in use), the process serves for good after finitely many
\* restarts, whatever the cache does, if only an earlier shutdown completes.
ComesUp ==
  /\ <>[](dep["database"] \in {"up", "slow"})
  /\ <>[][/\ process' = "killed" => process = "killed"
          /\ process' = "failed" => process # "binding"
          /\ draining' => draining]_vars
  /\ ClientsFinish /\ ThreadsFinish
  => <>[](process = "serving")

=============================================================================
