--------------------------- MODULE K8sServiceProofs ---------------------------
(***************************************************************************)
(* Proofs about K8sService: for any number of requests and any behaviour   *)
(* of the dependencies, what its routes answer.                            *)
(***************************************************************************)
EXTENDS K8sService, HealthTypesProofs

\* The listener is served only once the flag is set, and a request handled
\* only while it is served: a restart, which resets the flag, finds none.
ServedInitialized ==
  /\ process \in {"serving", "closing"} => initialized
  /\ \A r \in Request : stage[r] \in Served => process \in {"serving", "closing"}

\* The flags' verdicts in a sweep are those of its first poll.
FlagSlots ==
  \A r \in Request : stage[r] = "sweeping" =>
    /\ route[r] \notin Constant
    /\ slots[r]["initialized"] = "healthy"
    /\ route[r] # "startupz" =>
         slots[r]["draining"] = IF sawDraining[r] THEN "unhealthy" ELSE "healthy"

\* What a check shows of a dependency that stays in its state.
Shown(state) ==
  IF state = "up" THEN "healthy" ELSE IF state = "slow" THEN "degraded" ELSE "unhealthy"

\* A resolved slot of a dependency that has not changed since the sweep
\* began shows its state or is a timeout's, and a thread hangs only on a
\* dependency that does.
SteadySlots ==
  \A r \in Request : stage[r] = "sweeping" =>
    /\ \A d \in steady[r] \cap DOMAIN slots[r] :
         slots[r][d] # Unseen =>
           slots[r][d] = Shown(dep[d]) \/ (d \in late[r] /\ slots[r][d] = "unhealthy")
    /\ "cache" \in steady[r] /\ thread[r] = "hung" => dep["cache"] = "hung"

ServiceInv ==
  /\ TypeOK
  /\ ServedInitialized
  /\ FlagSlots
  /\ SteadySlots

\* The flags are not dependencies, and a sweep covers them.
LEMMA CheckFacts ==
  /\ "initialized" \notin Dep
  /\ "draining" \notin Dep
  /\ InitGroup \subseteq Check
  /\ \A rt \in Route \ Constant : "initialized" \in Due(rt) /\ (rt # "startupz" => Due(rt) = Check)
  BY ServiceAssumption DEF Check, Flag, InitGroup, Due, Route, Constant

\* A slot is filled with a verdict at most once, and nothing else changes.
LEMMA ResolveSlots ==
  ASSUME TypeOK, NEW r \in Request, NEW d \in Dep, NEW verdict \in HealthStatus,
         Resolve(r, d, verdict)
  PROVE  /\ DOMAIN slots' = Request
         /\ \A q \in Request : DOMAIN slots'[q] = DOMAIN slots[q]
         /\ \A q \in Request : slots'[q] \in [DOMAIN slots'[q] -> HealthStatus \cup {Unseen}]
         /\ \A q \in Request : \A c \in DOMAIN slots[q] :
              \/ slots'[q][c] = slots[q][c]
              \/ q = r /\ c = d /\ slots'[q][c] = verdict
  <1>1. CASE ~Waiting(r, d)
    BY <1>1 DEF Resolve, TypeOK
  <1>2. CASE Waiting(r, d)
    <2>1. slots' = [slots EXCEPT ![r] = [slots[r] EXCEPT ![d] = verdict]]
      BY <1>2 DEF Resolve
    <2>2. d \in DOMAIN slots[r]
      BY <1>2 DEF Waiting
    <2>3. [slots[r] EXCEPT ![d] = verdict] \in [DOMAIN slots[r] -> HealthStatus \cup {Unseen}]
      BY <2>2 DEF TypeOK
    <2>4. /\ slots'[r] = [slots[r] EXCEPT ![d] = verdict]
          /\ \A q \in Request \ {r} : slots'[q] = slots[q]
          /\ DOMAIN slots' = Request
      BY <2>1 DEF TypeOK
    <2>5. DOMAIN slots'[r] = DOMAIN slots[r]
      BY <2>4
    <2>6. \A c \in DOMAIN slots[r] : slots'[r][c] = slots[r][c] \/ (c = d /\ slots'[r][c] = verdict)
      BY <2>4
    <2>7. slots'[r] \in [DOMAIN slots'[r] -> HealthStatus \cup {Unseen}]
      BY <2>3, <2>4, <2>5
    <2>8. \A q \in Request : slots'[q] \in [DOMAIN slots'[q] -> HealthStatus \cup {Unseen}]
      <3>1. ASSUME NEW q \in Request
            PROVE  slots'[q] \in [DOMAIN slots'[q] -> HealthStatus \cup {Unseen}]
        <4>1. CASE q = r
          BY <4>1, <2>7
        <4>2. CASE q # r
          BY <4>2, <2>4 DEF TypeOK
        <4>. QED  BY <4>1, <4>2
      <3>. QED  BY <3>1
    <2>. QED  BY <2>4, <2>5, <2>6, <2>8
  <1>. QED  BY <1>1, <1>2

\* The inductive invariant holds initially.
LEMMA InitService == Init => ServiceInv
  <1> SUFFICES ASSUME Init
               PROVE  ServiceInv
    OBVIOUS
  <1>1. \A r \in Request : slots[r] \in [DOMAIN slots[r] -> HealthStatus \cup {Unseen}]
    BY DEF Init, NoSlots
  <1>2. TypeOK
    BY <1>1 DEF Init, TypeOK, Starting, Route, Threads
  <1>3. ServedInitialized /\ FlagSlots /\ SteadySlots
    BY DEF Init, ServedInitialized, Served, FlagSlots, SteadySlots
  <1>. QED  BY <1>2, <1>3 DEF ServiceInv

\* A step that resolves at most one slot of one sweep with a sound verdict.
LEMMA ResolveInv ==
  ASSUME ServiceInv, NEW r \in Request, NEW d \in Dep, NEW verdict \in HealthStatus,
         Resolve(r, d, verdict),
         Waiting(r, d) /\ d \in steady[r] =>
           verdict = Shown(dep[d]) \/ (d \in late'[r] /\ verdict = "unhealthy"),
         late' \in [Request -> SUBSET Dep],
         \A q \in Request : late[q] \subseteq late'[q],
         thread' \in [Request -> Threads],
         \A q \in Request : thread'[q] = "hung" => thread[q] = "hung",
         UNCHANGED <<process, flags, dep, stage, route, code, sawDraining, steady>>
  PROVE  ServiceInv'
  <1>1. TypeOK'
    BY ResolveSlots DEF ServiceInv, TypeOK, flags
  <1>2. ServedInitialized'
    BY DEF ServiceInv, ServedInitialized, flags
  <1>3. FlagSlots'
    <2>1. ASSUME NEW q \in Request, NEW c \in {"initialized", "draining"} \cap DOMAIN slots[q]
          PROVE  slots'[q][c] = slots[q][c]
      BY ResolveSlots, CheckFacts DEF ServiceInv
    <2>2. \A q \in Request : stage[q] = "sweeping" =>
            /\ "initialized" \in DOMAIN slots[q]
            /\ route[q] # "startupz" => "draining" \in DOMAIN slots[q]
      BY CheckFacts DEF ServiceInv, TypeOK, FlagSlots, Check, Flag
    <2>. QED  BY <2>1, <2>2 DEF ServiceInv, FlagSlots
  <1>4. SteadySlots'
    <2>1. ASSUME NEW q \in Request, stage[q] = "sweeping",
                 NEW c \in steady[q] \cap DOMAIN slots[q], slots'[q][c] # Unseen
          PROVE  slots'[q][c] = Shown(dep[c]) \/ (c \in late'[q] /\ slots'[q][c] = "unhealthy")
      <3>1. CASE slots'[q][c] = slots[q][c]
        BY <2>1, <3>1 DEF ServiceInv, SteadySlots
      <3>2. CASE slots'[q][c] # slots[q][c]
        <4>1. q = r /\ c = d /\ slots'[q][c] = verdict
          BY <3>2, ResolveSlots DEF ServiceInv
        <4>2. Waiting(r, d)
          BY <3>2 DEF Resolve
        <4>. QED  BY <2>1, <4>1, <4>2
      <3>. QED  BY <3>1, <3>2
    <2>2. \A q \in Request : DOMAIN slots'[q] = DOMAIN slots[q]
      BY ResolveSlots DEF ServiceInv
    <2>3. UNCHANGED <<stage, steady, dep>>
      OBVIOUS
    <2>4. \A q \in Request : stage'[q] = "sweeping" => \A c \in steady'[q] \cap DOMAIN slots'[q] :
            slots'[q][c] # Unseen =>
              slots'[q][c] = Shown(dep'[c]) \/ (c \in late'[q] /\ slots'[q][c] = "unhealthy")
      BY <2>1, <2>2, <2>3
    <2>5. \A q \in Request : stage'[q] = "sweeping" =>
            ("cache" \in steady'[q] /\ thread'[q] = "hung" => dep'["cache"] = "hung")
      BY <2>3 DEF ServiceInv, SteadySlots
    <2>. QED  BY <2>4, <2>5 DEF SteadySlots, Shown
  <1>. QED  BY <1>1, <1>2, <1>3, <1>4 DEF ServiceInv

\* Every step of run(), of a signal, a kill or a restart keeps it.
LEMMA RunInv == ServiceInv /\ Run => ServiceInv'
  <1> SUFFICES ASSUME ServiceInv, Run
               PROVE  ServiceInv'
    OBVIOUS
  <1> USE DEF requests, flags, Starting, Dead, Open, Served
  <1>1. TypeOK'
    <2>1. /\ stage' \in [Request -> {"idle"} \cup Open \cup Over]
          /\ \A r \in Request : stage'[r] = "sweeping" => stage[r] = "sweeping"
          /\ thread' \in [Request -> Threads]
          /\ UNCHANGED <<dep, route, slots, code, sawDraining, steady, late>>
      BY DEF Run, ConnectPool, RegisterChecks, Bind, SetInitialized, Serve, Kill, Restart, Signal,
         StopAccepting, ServeReturns, RuntimeDropped, RunStep, ServiceInv, TypeOK, Over, Threads
    <2>2. /\ process' \in Starting \cup {"serving", "closing", "dropping"} \cup Dead
          /\ initialized' \in BOOLEAN
          /\ draining' \in BOOLEAN
      BY DEF Run, ConnectPool, RegisterChecks, Bind, SetInitialized, Serve, Kill, Restart, Signal,
         StopAccepting, ServeReturns, RuntimeDropped, RunStep, ServiceInv, TypeOK
    <2>. QED  BY <2>1, <2>2 DEF ServiceInv, TypeOK
  <1>2. /\ \A r \in Request : stage'[r] \in Served => stage'[r] = stage[r]
        /\ \A r \in Request : thread'[r] = "hung" => thread[r] = "hung"
        /\ UNCHANGED <<dep, route, slots, code, sawDraining, steady, late>>
    BY DEF Run, ConnectPool, RegisterChecks, Bind, SetInitialized, Serve, Kill, Restart, Signal,
       StopAccepting, ServeReturns, RuntimeDropped, RunStep, ServiceInv, TypeOK
  <1>3. /\ process' \in {"serving", "closing"} => initialized'
        /\ \A r \in Request : stage'[r] \in Served => process' \in {"serving", "closing"}
    BY DEF Run, ConnectPool, RegisterChecks, Bind, SetInitialized, Serve, Kill, Restart, Signal,
       StopAccepting, ServeReturns, RuntimeDropped, RunStep, ServiceInv, TypeOK, ServedInitialized
  <1>4. ServedInitialized'
    BY <1>2, <1>3 DEF ServiceInv, ServedInitialized
  <1>5. FlagSlots' /\ SteadySlots'
    BY <1>2 DEF ServiceInv, FlagSlots, SteadySlots, Shown
  <1>. QED  BY <1>1, <1>4, <1>5 DEF ServiceInv

\* Every step of a request keeps it.
LEMMA RespondInv == ASSUME ServiceInv, NEW r \in Request, Respond(r) PROVE ServiceInv'
  <1> USE DEF flags, Over, Open, Served
  <1>1. ASSUME NEW rt \in Route, Arrive(r, rt)
        PROVE  ServiceInv'
    <2>1. TypeOK'
      BY <1>1 DEF ServiceInv, Arrive, TypeOK
    <2>2. ServedInitialized' /\ FlagSlots' /\ SteadySlots'
      BY <1>1 DEF ServiceInv, Arrive, TypeOK, ServedInitialized, FlagSlots, SteadySlots, Shown
    <2>. QED  BY <2>1, <2>2 DEF ServiceInv
  <1>2. CASE Accept(r) \/ SendPart(r) \/ SendRest(r) \/ CloseIdle(r) \/ Leave(r)
    <2>1. PICK from \in Open, to \in {"accepted", "sending", "requested", "closed", "gone"} :
            Move(r, from, to) /\ (to \in Served => process = "serving" \/ from \in Served)
      BY <1>2 DEF Accept, SendPart, SendRest, CloseIdle, Leave
    <2>2. TypeOK'
      BY <2>1 DEF ServiceInv, Move, TypeOK
    <2>3. ServedInitialized'
      BY <2>1 DEF ServiceInv, Move, TypeOK, ServedInitialized
    <2>4. FlagSlots' /\ SteadySlots'
      BY <2>1 DEF ServiceInv, Move, TypeOK, FlagSlots, SteadySlots, Shown
    <2>. QED  BY <2>2, <2>3, <2>4 DEF ServiceInv
  <1>3. CASE AnswerAlive(r)
    <2>1. TypeOK'
      BY <1>3 DEF ServiceInv, AnswerAlive, TypeOK
    <2>2. ServedInitialized' /\ FlagSlots' /\ SteadySlots'
      BY <1>3 DEF ServiceInv, AnswerAlive, TypeOK, ServedInitialized, FlagSlots, SteadySlots, Shown
    <2>. QED  BY <2>1, <2>2 DEF ServiceInv
  <1>4. CASE BeginSweep(r)
    <2> DEFINE s == [c \in Due(route[r]) |-> IF c \in Flag THEN FlagVerdict(c) ELSE Unseen]
    <2>1. slots'[r] = s /\ \A q \in Request \ {r} : slots'[q] = slots[q]
      BY <1>4 DEF BeginSweep, ServiceInv, TypeOK
    <2>2. s \in [DOMAIN s -> HealthStatus \cup {Unseen}] /\ DOMAIN s = Due(route[r])
      BY DEF FlagVerdict, HealthStatus
    <2>3. DOMAIN slots' = Request
      BY <1>4 DEF BeginSweep, ServiceInv, TypeOK
    <2>4. route[r] \in Route \ Constant /\ initialized
      BY <1>4 DEF BeginSweep, ServiceInv, TypeOK, ServedInitialized
    <2>5. TypeOK'
      <3>1. \A q \in Request : slots'[q] \in [DOMAIN slots'[q] -> HealthStatus \cup {Unseen}]
        <4>1. ASSUME NEW q \in Request
              PROVE  slots'[q] \in [DOMAIN slots'[q] -> HealthStatus \cup {Unseen}]
          <5>1. CASE q = r
            BY <5>1, <2>1, <2>2
          <5>2. CASE q # r
            BY <5>2, <2>1 DEF ServiceInv, TypeOK
          <5>. QED  BY <5>1, <5>2
        <4>. QED  BY <4>1
      <3>2. \A q \in Request : stage'[q] = "sweeping" => DOMAIN slots'[q] = Due(route[q])
        BY <1>4, <2>1, <2>2 DEF BeginSweep, ServiceInv, TypeOK
      <3>. QED  BY <1>4, <2>3, <3>1, <3>2 DEF BeginSweep, ServiceInv, TypeOK, Threads, Due, InitGroup, Check, Flag
    <2>6. ServedInitialized'
      BY <1>4, <2>4 DEF BeginSweep, ServiceInv, TypeOK, ServedInitialized
    <2>7. s["initialized"] = "healthy" /\ (route[r] # "startupz" =>
            s["draining"] = IF draining THEN "unhealthy" ELSE "healthy")
      BY <2>4, CheckFacts DEF FlagVerdict, Check, Flag
    <2>8. FlagSlots'
      BY <1>4, <2>1, <2>4, <2>7 DEF BeginSweep, ServiceInv, TypeOK, FlagSlots
    <2>9. \A d \in Dep \cap DOMAIN s : s[d] = Unseen
      BY CheckFacts DEF Flag
    <2>10. SteadySlots'
      <3>1. UNCHANGED dep /\ \A q \in Request \ {r} :
              UNCHANGED <<stage[q], steady[q], slots[q], thread[q], late[q]>>
        BY <1>4, <2>1 DEF BeginSweep, ServiceInv, TypeOK
      <3>2. slots'[r] = s /\ steady'[r] = Dep /\ thread'[r] # "hung"
        BY <1>4, <2>1 DEF BeginSweep, ServiceInv, TypeOK
      <3>3. \A q \in Request \ {r} : stage'[q] = "sweeping" =>
              /\ \A d \in steady'[q] \cap DOMAIN slots'[q] :
                   slots'[q][d] # Unseen =>
                     \/ slots'[q][d] = Shown(dep'[d])
                     \/ d \in late'[q] /\ slots'[q][d] = "unhealthy"
              /\ "cache" \in steady'[q] /\ thread'[q] = "hung" => dep'["cache"] = "hung"
        BY <3>1 DEF ServiceInv, SteadySlots, Shown
      <3>4. \A d \in steady'[r] \cap DOMAIN slots'[r] : slots'[r][d] = Unseen
        BY <3>2, <2>9
      <3>. QED  BY <3>2, <3>3, <3>4 DEF SteadySlots, Shown
    <2>. QED  BY <2>5, <2>6, <2>8, <2>10 DEF ServiceInv
  <1>5. CASE DatabaseAnswers(r)
    <2>1. "database" \in Dep /\ dep["database"] \in DepState \ {"hung"}
      BY <1>5, ServiceAssumption DEF DatabaseAnswers, ServiceInv, TypeOK
    <2>2. Verdict(dep["database"]) \in HealthStatus
      BY <2>1 DEF Verdict, DepState, HealthStatus
    <2>3. Verdict(dep["database"]) = Shown(dep["database"])
      BY <2>1 DEF Shown, Verdict, DepState
    <2>. QED  BY <1>5, <2>1, <2>2, <2>3, ResolveInv DEF DatabaseAnswers, ServiceInv, TypeOK
  <1>6. CASE ThreadRuns(r)
    <2>1. "cache" \in Dep /\ thread[r] = "busy"
      BY <1>6 DEF ThreadRuns, ServiceInv, TypeOK, Threads
    <2>2. CASE dep["cache"] = "hung"
      <3>1. thread' = [thread EXCEPT ![r] = "hung"]
            /\ UNCHANGED <<process, flags, dep, stage, route, slots, code, sawDraining, steady, late>>
        BY <1>6, <2>2 DEF ThreadRuns
      <3>2. TypeOK'
        BY <2>1, <3>1 DEF ServiceInv, TypeOK, Threads
      <3>3. ServedInitialized' /\ FlagSlots' /\ SteadySlots'
        BY <2>2, <3>1 DEF ServiceInv, TypeOK, ServedInitialized, FlagSlots, SteadySlots, Shown
      <3>. QED  BY <3>2, <3>3 DEF ServiceInv
    <2>3. CASE dep["cache"] # "hung"
      <3>1. dep["cache"] \in DepState \ {"hung"}
        BY <2>1, <2>3 DEF ServiceInv, TypeOK
      <3>2. Verdict(dep["cache"]) = Shown(dep["cache"]) /\ Verdict(dep["cache"]) \in HealthStatus
        BY <3>1 DEF Verdict, Shown, DepState, HealthStatus
      <3>3. /\ thread' = [thread EXCEPT ![r] = "done"]
            /\ Resolve(r, "cache", Verdict(dep["cache"]))
            /\ UNCHANGED <<process, flags, dep, stage, route, code, sawDraining, steady, late>>
        BY <1>6, <2>3 DEF ThreadRuns
      <3>4. /\ thread' \in [Request -> Threads] /\ late' \in [Request -> SUBSET Dep]
            /\ \A q \in Request : thread'[q] = "hung" => thread[q] = "hung"
        BY <2>1, <3>3 DEF ServiceInv, TypeOK, Threads
      <3>. QED  BY <2>1, <3>2, <3>3, <3>4, ResolveInv
    <2>. QED  BY <2>2, <2>3
  <1>7. CASE PeerCloses(r)
    <2>1. "cache" \in Dep /\ thread[r] = "hung"
      BY <1>7 DEF PeerCloses, ServiceInv, TypeOK, Threads
    <2>2. Waiting(r, "cache") /\ "cache" \in steady[r] => "unhealthy" = Shown(dep["cache"])
      BY <2>1 DEF Waiting, ServiceInv, SteadySlots, Shown
    <2>3. /\ thread' = [thread EXCEPT ![r] = "done"]
          /\ Resolve(r, "cache", "unhealthy")
          /\ UNCHANGED <<process, flags, dep, stage, route, code, sawDraining, steady, late>>
      BY <1>7 DEF PeerCloses
    <2>4. /\ thread' \in [Request -> Threads] /\ late' \in [Request -> SUBSET Dep]
          /\ \A q \in Request : thread'[q] = "hung" => thread[q] = "hung"
      BY <2>1, <2>3 DEF ServiceInv, TypeOK, Threads
    <2>5. "unhealthy" \in HealthStatus
      BY DEF HealthStatus
    <2>. QED  BY <2>1, <2>2, <2>3, <2>4, <2>5, ResolveInv
  <1>8. ASSUME NEW d \in Dep, TimeOut(r, d)
        PROVE  ServiceInv'
    <2>1. /\ Resolve(r, d, "unhealthy")
          /\ late' = [late EXCEPT ![r] = late[r] \cup {d}]
          /\ UNCHANGED <<process, flags, dep, stage, route, thread, code, sawDraining, steady>>
      BY <1>8 DEF TimeOut
    <2>2. /\ d \in late'[r]
          /\ late' \in [Request -> SUBSET Dep]
          /\ \A q \in Request : late[q] \subseteq late'[q]
      BY <2>1 DEF ServiceInv, TypeOK
    <2>3. thread' \in [Request -> Threads] /\ "unhealthy" \in HealthStatus
      BY <2>1 DEF ServiceInv, TypeOK, HealthStatus
    <2>. QED  BY <2>1, <2>2, <2>3, ResolveInv
  <1>9. CASE Answer(r)
    <2>1. Status(r) \in {OK, SERVICE_UNAVAILABLE}
      BY DEF Status, sweep_status_code, startup_status_code, readiness_status_code
    <2>2. TypeOK'
      BY <1>9, <2>1 DEF ServiceInv, Answer, TypeOK
    <2>3. ServedInitialized' /\ FlagSlots' /\ SteadySlots'
      BY <1>9 DEF ServiceInv, Answer, TypeOK, ServedInitialized, FlagSlots, SteadySlots, Shown
    <2>. QED  BY <2>2, <2>3 DEF ServiceInv
  <1>. QED  BY <1>1, <1>2, <1>3, <1>4, <1>5, <1>6, <1>7, <1>8, <1>9 DEF Respond

\* A dependency that changes keeps it, being steady for nobody any more.
LEMMA FlipInv ==
  ASSUME ServiceInv, NEW d \in Dep, NEW state \in DepState, Flip(d, state)
  PROVE  ServiceInv'
  <1>1. /\ dep' = [dep EXCEPT ![d] = state]
        /\ steady' = [r \in Request |-> steady[r] \ {d}]
        /\ UNCHANGED <<process, flags, stage, route, slots, thread, code, sawDraining, late>>
    BY DEF Flip
  <1>2. TypeOK'
    BY <1>1 DEF ServiceInv, TypeOK, flags
  <1>3. ServedInitialized' /\ FlagSlots'
    BY <1>1 DEF ServiceInv, ServedInitialized, FlagSlots, flags
  <1>4. \A r \in Request : \A c \in steady'[r] : c \in steady[r] /\ dep'[c] = dep[c]
    BY <1>1 DEF ServiceInv, TypeOK
  <1>5. SteadySlots'
    BY <1>1, <1>4 DEF ServiceInv, SteadySlots, Shown
  <1>. QED  BY <1>2, <1>3, <1>5 DEF ServiceInv

\* Every step keeps it.
LEMMA NextService == ServiceInv /\ [Next]_vars => ServiceInv'
  <1>1. ServiceInv /\ UNCHANGED vars => ServiceInv'
    BY DEF vars, flags, requests, ServiceInv, TypeOK, ServedInitialized, FlagSlots, SteadySlots, Shown
  <1>. QED  BY <1>1, RunInv, RespondInv, FlipInv DEF Next

\* ServiceInv is an invariant of every execution.
THEOREM ServiceSafe == Spec => []ServiceInv
  BY InitService, NextService, PTL DEF Spec

\* Every variable keeps its type: a sweep has the slots of its route's checks.
THEOREM TypeCorrect == Spec => []TypeOK
  <1>1. ServiceInv => TypeOK
    BY DEF ServiceInv
  <1>. QED  BY <1>1, ServiceSafe, PTL

-----------------------------------------------------------------------------
(***************************************************************************)
(* What the routes answer.                                                 *)
(***************************************************************************)
\* A sweeping route answers 503 exactly if one of its checks is unhealthy,
\* or degraded where the route does not let that pass: /startupz never does,
\* the readiness routes do unless degraded_fails_readiness is set.
THEOREM RouteVerdict ==
  ASSUME NEW rt \in Route \ Constant, NEW S \in SUBSET HealthStatus, NEW strict \in BOOLEAN
  PROVE  sweep_status_code(rt, S, strict) =
           IF "unhealthy" \in S \/ ("degraded" \in S /\ (rt = "startupz" \/ strict))
           THEN SERVICE_UNAVAILABLE ELSE OK
  <1> DEFINE worst == aggregate(S)
  <1>1. /\ worst \in HealthStatus
        /\ worst = "unhealthy" <=> "unhealthy" \in S
        /\ worst = "healthy" <=> S \subseteq {"healthy"}
    BY AggregateVerdict
  <1>2. sweep_status_code(rt, S, strict) =
          IF rt = "startupz" THEN startup_status_code(worst) ELSE readiness_status_code(worst, strict)
    BY DEF sweep_status_code
  <1> HIDE DEF worst
  <1>3. CASE worst = "healthy"
    BY <1>1, <1>2, <1>3 DEF startup_status_code, readiness_status_code, is_healthy
  <1>4. CASE worst = "degraded"
    <2>1. "degraded" \in S /\ "unhealthy" \notin S
      BY <1>1, <1>4 DEF HealthStatus
    <2>. QED  BY <1>2, <1>4, <2>1 DEF startup_status_code, readiness_status_code, is_healthy
  <1>5. CASE worst = "unhealthy"
    BY <1>1, <1>2, <1>5 DEF startup_status_code, readiness_status_code, is_healthy
  <1>. QED  BY <1>1, <1>3, <1>4, <1>5 DEF HealthStatus

Statuses(r) == {slots[r][c] : c \in DOMAIN slots[r]}

\* What a handler has in hand when it answers.
LEMMA AnswerFacts ==
  ASSUME ServiceInv, NEW r \in Request, Answer(r)
  PROVE  /\ code'[r] = sweep_status_code(route[r], Statuses(r), Strict)
         /\ Statuses(r) \in SUBSET HealthStatus
         /\ route[r] \in Route \ Constant
         /\ route[r] = "startupz" => Statuses(r) = {"healthy"}
         /\ route[r] # "startupz" => DOMAIN slots[r] = Check
  <1>1. /\ stage[r] = "sweeping"
        /\ \A c \in DOMAIN slots[r] : slots[r][c] # Unseen
        /\ code' = [code EXCEPT ![r] = Status(r)]
    BY DEF Answer
  <1>2. code'[r] = sweep_status_code(route[r], Statuses(r), Strict)
    BY <1>1 DEF ServiceInv, TypeOK, Status, Statuses
  <1>3. Statuses(r) \in SUBSET HealthStatus
    BY <1>1 DEF ServiceInv, TypeOK, Statuses
  <1>4. route[r] \in Route \ Constant /\ DOMAIN slots[r] = Due(route[r])
    BY <1>1 DEF ServiceInv, TypeOK, FlagSlots
  <1>5. route[r] = "startupz" => DOMAIN slots[r] = {"initialized"}
    BY <1>4 DEF Due, InitGroup
  <1>6. slots[r]["initialized"] = "healthy"
    BY <1>1 DEF ServiceInv, FlagSlots
  <1>7. route[r] = "startupz" => Statuses(r) = {"healthy"}
    BY <1>5, <1>6 DEF Statuses
  <1>. QED  BY <1>2, <1>3, <1>4, <1>7, CheckFacts

\* Steps that answer nobody leave what was answered alone.
LEMMA Silent ==
  ASSUME ServiceInv, [Next]_vars, NEW r \in Request, stage'[r] = "answered",
         ~Answer(r), ~AnswerAlive(r)
  PROVE  UNCHANGED <<stage[r], route[r], code[r], sawDraining[r]>>
  <1> USE DEF ServiceInv, TypeOK, flags, requests, RunStep
  <1>1. CASE UNCHANGED vars
    BY <1>1 DEF vars
  <1>2. CASE Run
    BY <1>2 DEF Run, ConnectPool, RegisterChecks, Bind, SetInitialized, Serve, Kill, Restart, Signal,
       StopAccepting, ServeReturns, RuntimeDropped
  <1>3. ASSUME NEW q \in Request, Respond(q)
        PROVE  UNCHANGED <<stage[r], route[r], code[r], sawDraining[r]>>
    <2>1. CASE \E rt \in Route : Arrive(q, rt)
      BY <2>1 DEF Arrive
    <2>2. CASE Accept(q) \/ SendPart(q) \/ SendRest(q) \/ CloseIdle(q) \/ Leave(q)
      BY <2>2 DEF Accept, SendPart, SendRest, CloseIdle, Leave, Move
    <2>3. CASE BeginSweep(q)
      BY <2>3 DEF BeginSweep
    <2>4. CASE \/ DatabaseAnswers(q) \/ ThreadRuns(q) \/ PeerCloses(q)
               \/ \E d \in Dep : TimeOut(q, d)
      BY <2>4 DEF DatabaseAnswers, ThreadRuns, PeerCloses, TimeOut
    <2>5. CASE AnswerAlive(q)
      BY <2>5 DEF AnswerAlive
    <2>6. CASE Answer(q)
      BY <2>6 DEF Answer
    <2>. QED  BY <1>3, <2>1, <2>2, <2>3, <2>4, <2>5, <2>6 DEF Respond
  <1>4. ASSUME NEW d \in Dep, NEW state \in DepState, Flip(d, state)
        PROVE  UNCHANGED <<stage[r], route[r], code[r], sawDraining[r]>>
    BY <1>4 DEF Flip
  <1>. QED  BY <1>1, <1>2, <1>3, <1>4 DEF Next

\* No sweep begun after the signal answers that the pod is ready.
THEOREM DrainingHolds == Spec => []DrainingNeverReady
  <1>1. Init => DrainingNeverReady
    BY DEF Init, DrainingNeverReady
  <1>2. ServiceInv /\ DrainingNeverReady /\ [Next]_vars => DrainingNeverReady'
    <2> SUFFICES ASSUME ServiceInv, DrainingNeverReady, [Next]_vars, NEW r \in Request,
                        stage'[r] = "answered", route'[r] \in Readiness, sawDraining'[r]
                 PROVE  code'[r] = SERVICE_UNAVAILABLE
      BY DEF DrainingNeverReady
    <2>1. CASE Answer(r)
      <3>1. UNCHANGED <<route, sawDraining>> /\ stage[r] = "sweeping"
        BY <2>1 DEF Answer
      <3>2. slots[r]["draining"] = "unhealthy" /\ DOMAIN slots[r] = Check
        BY <2>1, <3>1, AnswerFacts DEF ServiceInv, FlagSlots, Readiness
      <3>3. "unhealthy" \in Statuses(r)
        BY <3>2 DEF Statuses, Check, Flag
      <3>. QED  BY <2>1, <3>3, AnswerFacts, RouteVerdict, ServiceAssumption
    <2>2. CASE AnswerAlive(r)
      BY <2>2 DEF AnswerAlive, Constant, Readiness
    <2>3. CASE ~Answer(r) /\ ~AnswerAlive(r)
      BY <2>3, Silent DEF DrainingNeverReady
    <2>. QED  BY <2>1, <2>2, <2>3
  <1>. QED  BY <1>1, <1>2, ServiceSafe, PTL DEF Spec

\* No start-up probe is ever answered 503.
THEOREM StartupHolds == Spec => []StartupNeverFails
  <1>1. Init => StartupNeverFails
    BY DEF Init, StartupNeverFails
  <1>2. ServiceInv /\ StartupNeverFails /\ [Next]_vars => StartupNeverFails'
    <2> SUFFICES ASSUME ServiceInv, StartupNeverFails, [Next]_vars, NEW r \in Request,
                        stage'[r] = "answered", route'[r] = "startupz"
                 PROVE  code'[r] = OK
      BY DEF StartupNeverFails
    <2>1. CASE Answer(r)
      <3>1. UNCHANGED route
        BY <2>1 DEF Answer
      <3>2. "unhealthy" \notin Statuses(r) /\ "degraded" \notin Statuses(r)
        BY <2>1, <3>1, AnswerFacts
      <3>. QED  BY <2>1, <3>2, AnswerFacts, RouteVerdict, ServiceAssumption
    <2>2. CASE AnswerAlive(r)
      BY <2>2 DEF AnswerAlive, Constant
    <2>3. CASE ~Answer(r) /\ ~AnswerAlive(r)
      BY <2>3, Silent DEF StartupNeverFails
    <2>. QED  BY <2>1, <2>2, <2>3
  <1>. QED  BY <1>1, <1>2, ServiceSafe, PTL DEF Spec

\* Readiness is right about every dependency that kept still: one that is
\* down or hung makes it 503, and without one, a timeout or the signal it
\* is 200.
THEOREM ReadinessHolds == Spec => ReadinessTracks
  <1> DEFINE Tracks ==
        \A r \in Request :
          stage[r] = "sweeping" /\ stage'[r] = "answered" /\ route[r] \in Readiness =>
            /\ (\E d \in steady[r] : dep[d] \in {"down", "hung"})
                 => code'[r] = SERVICE_UNAVAILABLE
            /\ /\ steady[r] = Dep
               /\ late[r] = {}
               /\ ~sawDraining[r]
               /\ \A d \in Dep : dep[d] \in {"up"} \cup (IF Strict THEN {} ELSE {"slow"})
               => code'[r] = OK
  <1>1. ServiceInv /\ [Next]_vars => Tracks
    <2> SUFFICES ASSUME ServiceInv, [Next]_vars, NEW r \in Request, stage[r] = "sweeping",
                        stage'[r] = "answered", route[r] \in Readiness
                 PROVE  /\ (\E d \in steady[r] : dep[d] \in {"down", "hung"})
                             => code'[r] = SERVICE_UNAVAILABLE
                        /\ /\ steady[r] = Dep
                           /\ late[r] = {}
                           /\ ~sawDraining[r]
                           /\ \A d \in Dep : dep[d] \in {"up"} \cup (IF Strict THEN {} ELSE {"slow"})
                           => code'[r] = OK
      OBVIOUS
    <2>1. Answer(r)
      BY Silent DEF AnswerAlive
    <2>2. /\ DOMAIN slots[r] = Check
          /\ code'[r] = IF "unhealthy" \in Statuses(r) \/ ("degraded" \in Statuses(r) /\ Strict)
                        THEN SERVICE_UNAVAILABLE ELSE OK
      <3>1. route[r] # "startupz"
        BY DEF Readiness
      <3>. QED  BY <2>1, <3>1, AnswerFacts, RouteVerdict, ServiceAssumption
    <2>3. \A d \in steady[r] :
            /\ d \in Dep
            /\ slots[r][d] = Shown(dep[d]) \/ (d \in late[r] /\ slots[r][d] = "unhealthy")
      BY <2>1, <2>2 DEF Answer, ServiceInv, TypeOK, SteadySlots, Check
    <2>4. ASSUME NEW d \in steady[r], dep[d] \in {"down", "hung"}
          PROVE  code'[r] = SERVICE_UNAVAILABLE
      <3>1. "unhealthy" \in Statuses(r)
        BY <2>2, <2>3, <2>4 DEF Statuses, Shown, Check
      <3>. QED  BY <2>2, <3>1
    <2>5. ASSUME steady[r] = Dep, late[r] = {}, ~sawDraining[r],
                 \A d \in Dep : dep[d] \in {"up"} \cup (IF Strict THEN {} ELSE {"slow"})
          PROVE  code'[r] = OK
      <3>1. \A c \in Flag : slots[r][c] = "healthy"
        BY <2>5 DEF ServiceInv, FlagSlots, Readiness, Flag
      <3>2. \A c \in Dep : slots[r][c] \in {"healthy"} \cup (IF Strict THEN {} ELSE {"degraded"})
        BY <2>3, <2>5 DEF Shown
      <3>3. Statuses(r) \subseteq {"healthy"} \cup (IF Strict THEN {} ELSE {"degraded"})
        BY <2>2, <3>1, <3>2 DEF Statuses, Check
      <3>. QED  BY <2>2, <3>3
    <2>. QED  BY <2>4, <2>5
  <1>2. [Next]_vars /\ Tracks => [Tracks]_vars
    OBVIOUS
  <1>3. ServiceInv /\ [Next]_vars => [Tracks]_vars
    BY <1>1
  <1>. QED  BY <1>3, ServiceSafe, PTL DEF Spec, ReadinessTracks

=============================================================================
