------------------------- MODULE HealthRegistryProofs -------------------------
(***************************************************************************)
(* Theorems about HealthRegistry, for every set of checks, probes and      *)
(* groups, every deadline and every lag.                                   *)
(***************************************************************************)
EXTENDS HealthRegistry, HealthTypesProofs, SequenceTheorems, FiniteSetTheorems

-----------------------------------------------------------------------------
(***************************************************************************)
(* Facts about the helpers.                                                *)
(***************************************************************************)
\* A push puts the check behind all others and leaves those where they are.
LEMMA PushedProperties ==
  ASSUME checks \in Seq(Call), NEW c \in Call
  PROVE  /\ Pushed(c) \in Seq(Call)
         /\ Len(Pushed(c)) = Len(checks) + 1
         /\ Pushed(c)[Len(checks) + 1] = c
         /\ \A i \in DOMAIN checks : Pushed(c)[i] = checks[i]
         /\ DOMAIN Pushed(c) = DOMAIN checks \cup {Len(checks) + 1}
BY DEF Pushed

\* The results counted under one name and status are finitely many.
LEMMA CountedFinite ==
  ASSUME TypeOK, NEW p \in Probe, NEW n, NEW s
  PROVE  IsFiniteSet(Counted(p, n, s)) /\ Cardinality(Counted(p, n, s)) \in Nat
<1>1. DOMAIN snapshot[p] = 1..Len(snapshot[p]) /\ Len(snapshot[p]) \in Nat
  BY DEF TypeOK
<1>2. Counted(p, n, s) \subseteq 1..Len(snapshot[p])
  BY <1>1 DEF TypeOK, Counted, Due
<1>3. IsFiniteSet(1..Len(snapshot[p]))
  BY <1>1, FS_Interval
<1>4. IsFiniteSet(Counted(p, n, s))
  BY <1>2, <1>3, FS_Subset
<1> QED BY <1>4, FS_CardinalityType

\* What run_one may return: what a check may, and the registry's timeout.
Outcome == HealthStatus \cup {"error", "timed_out"}

\* What run_one returns is a CheckResult, and never a pending slot.
LEMMA FoldedResultType ==
  ASSUME NEW outcome \in Outcome, NEW d \in Nat
  PROVE  /\ FoldedResult(outcome, d) \in CheckResult
         /\ FoldedResult(outcome, d) # Pending
         /\ outcome \in HealthStatus => FoldedResult(outcome, d).status = outcome
         /\ outcome \notin HealthStatus =>
              /\ FoldedResult(outcome, d).status = "unhealthy"
              /\ FoldedResult(outcome, d).message = outcome
<1>1. CASE outcome \in HealthStatus
  BY <1>1 DEF FoldedResult, CheckResult, Pending, Message, HealthStatus
<1>2. CASE outcome \notin HealthStatus
  BY <1>2 DEF FoldedResult, CheckResult, Pending, Message, HealthStatus, Outcome
<1> QED BY <1>1, <1>2

\* Only statuses are left in the slots of a resolved sweep.
LEMMA ResolvedStatuses ==
  ASSUME TypeOK, NEW p \in Probe, Waiting(p) = {}
  PROVE  /\ \A i \in DOMAIN cells[p] : cells[p][i] \in CheckResult
         /\ Statuses(p) \in SUBSET HealthStatus
<1>1. \A i \in DOMAIN cells[p] : cells[p][i] \in CheckResult \cup {Pending}
  BY DEF TypeOK
<1>2. \A i \in DOMAIN cells[p] : cells[p][i] # Pending
  BY DEF Waiting
<1>3. \A i \in DOMAIN cells[p] : cells[p][i] \in CheckResult
  BY <1>1, <1>2
<1>4. \A i \in DOMAIN cells[p] : cells[p][i].status \in HealthStatus
  BY <1>3 DEF CheckResult
<1> QED BY <1>3, <1>4 DEF Statuses

-----------------------------------------------------------------------------
(***************************************************************************)
(* Type correctness.                                                       *)
(***************************************************************************)
LEMMA InitTypeOK == Init => TypeOK
<1> SUFFICES ASSUME Init PROVE TypeOK
  OBVIOUS
<1>1. \A p \in Probe : Due(snapshot[p], scope[p]) = {}
  BY DEF Init, Due
<1>2. \A p \in Probe :
        /\ cells[p] \in [Due(snapshot[p], scope[p]) -> CheckResult \cup {Pending}]
        /\ future[p] \in [Due(snapshot[p], scope[p]) -> Future]
  BY <1>1 DEF Init, EmptySlots, NoFutures
<1> QED BY <1>2 DEF Init, TypeOK, Scope, HealthStatus

\* A step that only touches the registration variables, and keeps their
\* types, keeps them all.
LEMMA RegisterTypeOK ==
  ASSUME TypeOK, NEW c \in Call, Register(c)
  PROVE  TypeOK'
<1>1. UNCHANGED <<runtime, sweep>>
  BY DEF Register, AddCheck, AddCheckAsync, RunRegistration, CancelRegistration,
         AsyncReturns, DropCaller
<1>2. checks' \in Seq(Call)
  BY PushedProperties DEF TypeOK, Register, AddCheck, AddCheckAsync, RunRegistration,
         CancelRegistration, AsyncReturns, DropCaller
<1>3. task' \in [Call -> {"none", "queued", "pushed", "cancelled"}]
  BY DEF TypeOK, Register, AddCheck, AddCheckAsync, RunRegistration,
         CancelRegistration, AsyncReturns, DropCaller, Spawned
<1>4. caller' \in [Call -> {"idle", "awaiting", "ok", "shutting_down", "dropped"}]
  BY DEF TypeOK, Register, AddCheck, AddCheckAsync, RunRegistration,
         CancelRegistration, AsyncReturns, DropCaller, JoinOutcome
<1>5. \A q \in Probe :
        /\ cells'[q] \in [Due(snapshot'[q], scope'[q]) -> CheckResult \cup {Pending}]
        /\ future'[q] \in [Due(snapshot'[q], scope'[q]) -> Future]
  BY <1>1 DEF TypeOK, sweep
<1>6. DOMAIN cells' = Probe /\ DOMAIN future' = Probe
  BY <1>1 DEF TypeOK, sweep
<1> QED BY <1>1, <1>2, <1>3, <1>4, <1>5, <1>6 DEF TypeOK, sweep, Due

\* A sweep that begins has a pending slot and a future for each check due in
\* its clone.
LEMMA BeginTypeOK ==
  ASSUME TypeOK, NEW p \in Probe, NEW s \in Scope, BeginProbe(p, s)
  PROVE  TypeOK'
<1>0. Started \in Future
  BY DEF Started, Future
<1>1. \A q \in Probe :
        /\ cells'[q] \in [Due(snapshot'[q], scope'[q]) -> CheckResult \cup {Pending}]
        /\ future'[q] \in [Due(snapshot'[q], scope'[q]) -> Future]
  <2> TAKE q \in Probe
  <2>1. CASE q = p
    BY <1>0, <2>1 DEF TypeOK, BeginProbe
  <2>2. CASE q # p
    BY <2>2 DEF TypeOK, BeginProbe
  <2> QED BY <2>1, <2>2
<1>2. /\ DOMAIN cells' = Probe /\ DOMAIN future' = Probe
      /\ phase' \in [Probe -> {"idle", "running"} \cup Ended]
  BY DEF TypeOK, BeginProbe
<1>3. scope' \in [Probe -> Scope] /\ snapshot' \in [Probe -> Seq(Call)]
  BY DEF TypeOK, BeginProbe
<1>4. elapsed' \in [Probe -> Nat] /\ acked' \in [Probe -> SUBSET Call]
  BY DEF TypeOK, BeginProbe
<1> QED BY <1>1, <1>2, <1>3, <1>4 DEF TypeOK, BeginProbe, registration, Due

\* A slot that is filled is filled with a CheckResult.
LEMMA ResolveTypeOK ==
  ASSUME TypeOK, NEW p \in Probe, NEW i \in DOMAIN cells[p], NEW o \in Outcome,
         RunOneReturns(p, i, o)
  PROVE  TypeOK'
<1> DEFINE r == FoldedResult(o, future[p][i].age)
<1>1. r \in CheckResult
  <2>1. future[p][i] \in Future
    BY DEF TypeOK
  <2>2. future[p][i].age \in Nat
    BY <2>1 DEF Future
  <2> QED BY <2>2, FoldedResultType DEF Outcome
<1>2. cells' = [cells EXCEPT ![p][i] = r]
  BY DEF RunOneReturns
<1> HIDE DEF r
<1>3. \A q \in Probe :
        cells'[q] \in [Due(snapshot[q], scope[q]) -> CheckResult \cup {Pending}]
  <2> TAKE q \in Probe
  <2>1. CASE q = p
    <3>1. cells[p] \in [Due(snapshot[p], scope[p]) -> CheckResult \cup {Pending}]
      BY DEF TypeOK
    <3>2. cells'[p] = [cells[p] EXCEPT ![i] = r]
      BY <1>2 DEF TypeOK
    <3> QED BY <1>1, <2>1, <3>1, <3>2
  <2>2. CASE q # p
    BY <1>2, <2>2 DEF TypeOK
  <2> QED BY <2>1, <2>2
<1>4. DOMAIN cells' = Probe
  BY <1>2 DEF TypeOK
<1> QED BY <1>3, <1>4 DEF TypeOK, RunOneReturns, registration, Due

\* A check that has become ready carries one of the outcomes it may have.
LEMMA ReadyTypeOK ==
  ASSUME TypeOK, NEW p \in Probe, NEW i \in DOMAIN cells[p], NEW o \in CheckOutcome,
         CheckReady(p, i, o)
  PROVE  TypeOK'
<1>1. \A q \in Probe : future'[q] \in [Due(snapshot[q], scope[q]) -> Future]
  <2> TAKE q \in Probe
  <2>1. CASE q = p
    <3>1. future[p] \in [Due(snapshot[p], scope[p]) -> Future]
      BY DEF TypeOK
    <3>2. future'[p] = [future[p] EXCEPT ![i].answer = o]
      BY DEF TypeOK, CheckReady
    <3>3. \A j \in Due(snapshot[p], scope[p]) : [future[p][j] EXCEPT !.answer = o] \in Future
      BY <3>1 DEF Future
    <3>4. DOMAIN future'[p] = Due(snapshot[p], scope[p])
      BY <3>1, <3>2
    <3>5. \A j \in Due(snapshot[p], scope[p]) :
            future'[p][j] = IF j = i THEN [future[p][j] EXCEPT !.answer = o] ELSE future[p][j]
      BY <3>1, <3>2
    <3>6. \A j \in Due(snapshot[p], scope[p]) : future'[p][j] \in Future
      BY <3>1, <3>3, <3>5
    <3>7. future'[p] = [j \in Due(snapshot[p], scope[p]) |-> future'[p][j]]
      BY <3>1, <3>2
    <3> QED BY <2>1, <3>6, <3>7
  <2>2. CASE q # p
    BY <2>2 DEF TypeOK, CheckReady
  <2> QED BY <2>1, <2>2
<1>2. DOMAIN future' = Probe
  BY DEF TypeOK, CheckReady
<1> QED BY <1>1, <1>2 DEF TypeOK, CheckReady, registration, Due

\* A sweep that ends without an answer forgets its clone and its slots.
LEMMA DiscardTypeOK ==
  ASSUME TypeOK, NEW p \in Probe, NEW how \in Ended, Discard(p, how)
  PROVE  TypeOK'
<1>1. \A q \in Probe :
        /\ cells'[q] \in [Due(snapshot'[q], scope'[q]) -> CheckResult \cup {Pending}]
        /\ future'[q] \in [Due(snapshot'[q], scope'[q]) -> Future]
  <2> TAKE q \in Probe
  <2>1. CASE q = p
    <3>1. snapshot'[q] = <<>> /\ cells'[q] = EmptySlots /\ future'[q] = NoFutures
      BY <2>1 DEF TypeOK, Discard
    <3>2. Due(<<>>, scope'[q]) = {}
      BY DEF Due
    <3> QED BY <3>1, <3>2 DEF EmptySlots, NoFutures
  <2>2. CASE q # p
    BY <2>2 DEF TypeOK, Discard
  <2> QED BY <2>1, <2>2
<1>2. /\ DOMAIN cells' = Probe /\ DOMAIN future' = Probe
      /\ phase' \in [Probe -> {"idle", "running"} \cup Ended]
  BY DEF TypeOK, Discard
<1>3. <<>> \in Seq(Call)
  OBVIOUS
<1>4. snapshot' \in [Probe -> Seq(Call)]
  BY <1>3 DEF TypeOK, Discard
<1>5. elapsed' \in [Probe -> Nat] /\ acked' \in [Probe -> SUBSET Call]
  BY DEF TypeOK, Discard
<1> QED BY <1>1, <1>2, <1>4, <1>5 DEF TypeOK, Discard, registration, Due

\* An answer aggregates statuses, and counts them.
LEMMA AnswerTypeOK ==
  ASSUME TypeOK, NEW p \in Probe, Answer(p)
  PROVE  TypeOK'
<1>1. aggregate(Statuses(p)) \in HealthStatus
  BY ResolvedStatuses, AggregateVerdict DEF Answer, Resolved
<1>2. overall' \in [Probe -> HealthStatus]
  BY <1>1 DEF TypeOK, Answer
<1>3. phase' \in [Probe -> {"idle", "running"} \cup Ended]
  BY DEF TypeOK, Answer, Ended
<1>4. emit_facade_metrics(p) \in [Name \X Sample -> Nat]
  <2>1. \A k \in Name \X Sample :
          emitted[k] + Cardinality(Counted(p, k[1], k[2])) \in Nat
    BY CountedFinite DEF TypeOK
  <2> QED BY <2>1 DEF emit_facade_metrics
<1>5. emitted' \in [Name \X Sample -> Nat]
  BY <1>4 DEF TypeOK, Answer
<1>6. UNCHANGED <<registration, scope, snapshot, cells, future, elapsed, acked>>
  BY DEF Answer
<1>7. \A q \in Probe :
        /\ cells'[q] \in [Due(snapshot'[q], scope'[q]) -> CheckResult \cup {Pending}]
        /\ future'[q] \in [Due(snapshot'[q], scope'[q]) -> Future]
  BY <1>6 DEF TypeOK
<1>8. DOMAIN cells' = Probe /\ DOMAIN future' = Probe
  BY <1>6 DEF TypeOK
<1> QED BY <1>2, <1>3, <1>5, <1>6, <1>7, <1>8 DEF TypeOK, registration, Due

\* Clocks keep their type.
LEMMA AdvanceType ==
  ASSUME NEW p \in Probe, NEW t \in Nat
  PROVE  Advance(p, t) \in Nat
BY TimeAssumption DEF Advance

\* Futures and sweeps grow older.
LEMMA TickTypeOK ==
  ASSUME TypeOK, Tick
  PROVE  TypeOK'
<1>1. elapsed' \in [Probe -> Nat]
  BY AdvanceType DEF TypeOK, Tick
<1>2. ASSUME NEW p \in Probe PROVE future'[p] \in [Due(snapshot[p], scope[p]) -> Future]
  <2>1. future[p] \in [Due(snapshot[p], scope[p]) -> Future]
    BY DEF TypeOK
  <2>2. ASSUME NEW i \in DOMAIN future[p]
        PROVE  [future[p][i] EXCEPT !.age = Advance(p, @)] \in Future
    BY <2>1, AdvanceType DEF Future
  <2>3. future'[p] = Older(p)
    BY DEF Tick
  <2> QED BY <2>1, <2>2, <2>3 DEF Older
<1>3. DOMAIN cells' = Probe /\ DOMAIN future' = Probe
  BY DEF TypeOK, Tick
<1>4. \A q \in Probe :
        /\ cells'[q] \in [Due(snapshot'[q], scope'[q]) -> CheckResult \cup {Pending}]
        /\ future'[q] \in [Due(snapshot'[q], scope'[q]) -> Future]
  BY <1>2 DEF TypeOK, Tick
<1>5. UNCHANGED <<registration, phase, scope, snapshot, overall, emitted, acked>>
  BY DEF Tick
<1> QED BY <1>1, <1>3, <1>4, <1>5 DEF TypeOK, registration, Due

\* The two ways a slot is filled: with the answer the check is ready with, or
\* with a timeout, which takes a check that is not ready and an expired timer.
LEMMA ResolveSteps ==
  ASSUME TypeOK, NEW p \in Probe, NEW i \in DOMAIN cells[p],
         CheckReturns(p, i) \/ CheckTimesOut(p, i)
  PROVE  \E o \in Outcome :
           /\ i \in Polled(p)
           /\ RunOneReturns(p, i, o)
           /\ IF future[p][i].answer # "none" THEN o = future[p][i].answer
                                              ELSE o = "timed_out" /\ Expired(p, i)
<1>1. future[p][i].answer \in CheckOutcome \cup {"none"}
  <2>1. future[p][i] \in Future
    BY DEF TypeOK
  <2> QED BY <2>1 DEF Future
<1>2. CASE CheckReturns(p, i)
  <2>1. future[p][i].answer \in Outcome
    BY <1>1, <1>2, OutcomeAssumption DEF CheckReturns, Outcome
  <2> QED BY <1>2, <2>1 DEF CheckReturns
<1>3. CASE CheckTimesOut(p, i)
  BY <1>3 DEF CheckTimesOut, Outcome
<1> QED BY <1>2, <1>3

\* Every step of a sweep keeps the types.
LEMMA SweepTypeOK ==
  ASSUME TypeOK, NEW p \in Probe, Sweep(p)
  PROVE  TypeOK'
<1>1. ASSUME NEW s \in Scope, BeginProbe(p, s) PROVE TypeOK'
  BY <1>1, BeginTypeOK
<1>2. ASSUME NEW i \in DOMAIN cells[p], CheckReturns(p, i) \/ CheckTimesOut(p, i)
      PROVE  TypeOK'
  BY <1>2, ResolveSteps, ResolveTypeOK
<1>6. ASSUME NEW i \in DOMAIN cells[p], NEW o \in CheckOutcome, CheckReady(p, i, o)
      PROVE  TypeOK'
  BY <1>6, ReadyTypeOK
<1>3. ASSUME NEW i \in DOMAIN cells[p], CheckPanics(p, i) PROVE TypeOK'
  BY <1>3, DiscardTypeOK DEF CheckPanics, Ended
<1>4. CASE Abandon(p)
  BY <1>4, DiscardTypeOK DEF Abandon, Ended
<1>5. CASE Answer(p)
  BY <1>5, AnswerTypeOK
<1> QED BY <1>1, <1>2, <1>3, <1>4, <1>5, <1>6 DEF Sweep

\* Every step keeps the types.
LEMMA NextTypeOK == TypeOK /\ [Next]_vars => TypeOK'
<1> SUFFICES ASSUME TypeOK, [Next]_vars PROVE TypeOK'
  OBVIOUS
<1>1. ASSUME NEW c \in Call, Register(c) PROVE TypeOK'
  BY <1>1, RegisterTypeOK
<1>2. ASSUME NEW p \in Probe, Sweep(p) PROVE TypeOK'
  BY <1>2, SweepTypeOK
<1>3. CASE Shutdown
  BY <1>3 DEF TypeOK, Shutdown, sweep, Due
<1>4. CASE Tick
  BY <1>4, TickTypeOK
<1>5. CASE UNCHANGED vars
  BY <1>5 DEF TypeOK, vars, registration, sweep, Due
<1> QED BY <1>1, <1>2, <1>3, <1>4, <1>5 DEF Next, Terminated

\* TypeOK holds in every reachable state.
THEOREM TypeCorrect == Spec => []TypeOK
BY InitTypeOK, NextTypeOK, PTL DEF Spec

-----------------------------------------------------------------------------
(***************************************************************************)
(* The inductive invariant.  None of the safety invariants is inductive by *)
(* itself: that an acknowledged call is registered needs the agreement     *)
(* between caller, task and vector below, that a sweep covers what was     *)
(* acknowledged before it needs both that agreement at its begin and the   *)
(* history variable afterwards.                                            *)
(***************************************************************************)
Unique == \A i, j \in DOMAIN checks : checks[i] = checks[j] => i = j

TaskAgrees(c) ==
  /\ caller[c] = "idle" => task[c] = "none"
  /\ task[c] = "none" /\ caller[c] # "ok" => Positions(c) = {}
  /\ task[c] \in {"queued", "cancelled"} => Positions(c) = {}
  /\ caller[c] = "ok" \/ task[c] = "pushed" => Positions(c) # {}
  /\ caller[c] = "shutting_down" => task[c] = "cancelled"

RegistrationInv == Unique /\ \A c \in Call : TaskAgrees(c)

AckedInSnapshot ==
  \A p \in Probe : \A c \in acked[p] : \E i \in DOMAIN snapshot[p] : snapshot[p][i] = c

AnswerComplete ==
  \A p \in Probe : phase[p] = "answered" =>
    Waiting(p) = {} /\ overall[p] = aggregate(Statuses(p))

IdleHasNoSlots ==
  \A p \in Probe : phase[p] = "idle" => DOMAIN cells[p] = {}

SafetyInv ==
  /\ TypeOK
  /\ IdleHasNoSlots
  /\ RegistrationInv
  /\ SnapshotsArePrefixes
  /\ AckedInSnapshot
  /\ AnswerComplete
  /\ TimeoutsAreEarned

\* A push adds one position, that of the pushed check.
LEMMA PushedPositions ==
  ASSUME checks \in Seq(Call), NEW c \in Call, checks' = Pushed(c)
  PROVE  /\ Positions(c)' = Positions(c) \cup {Len(checks) + 1}
         /\ \A d \in Call \ {c} : Positions(d)' = Positions(d)
         /\ Unique /\ Positions(c) = {} => Unique'
<1>1. DOMAIN checks' = DOMAIN checks \cup {Len(checks) + 1}
  BY PushedProperties
<1>2. checks'[Len(checks) + 1] = c /\ \A i \in DOMAIN checks : checks'[i] = checks[i]
  BY PushedProperties
<1>3. Len(checks) + 1 \notin DOMAIN checks
  BY LenProperties
<1>4. Positions(c)' = Positions(c) \cup {Len(checks) + 1}
  BY <1>1, <1>2, <1>3 DEF Positions
<1>5. \A d \in Call \ {c} : Positions(d)' = Positions(d)
  BY <1>1, <1>2, <1>3 DEF Positions
<1>6. Unique /\ Positions(c) = {} => Unique'
  BY <1>1, <1>2, <1>3 DEF Unique, Positions
<1> QED BY <1>4, <1>5, <1>6

\* Registration steps preserve the agreement of caller, task and vector.
LEMMA RegisterAgrees ==
  ASSUME TypeOK, RegistrationInv, NEW c \in Call, Register(c)
  PROVE  RegistrationInv'
<1>0. checks \in Seq(Call)
  BY DEF TypeOK
<1>1. \A d \in Call : TaskAgrees(d)
  BY DEF RegistrationInv
<1>2. CASE AddCheck(c)
  <2>1. checks' = Pushed(c) /\ UNCHANGED task /\ caller' = [caller EXCEPT ![c] = "ok"]
    BY <1>2 DEF AddCheck
  <2>2. task[c] = "none" /\ Positions(c) = {}
    BY <1>1, <1>2 DEF AddCheck, TaskAgrees
  <2>3. Unique'
    BY <1>0, <2>1, <2>2, PushedPositions DEF RegistrationInv
  <2>4. TaskAgrees(c)'
    BY <1>0, <2>1, <2>2, PushedPositions DEF TypeOK, TaskAgrees
  <2>5. \A d \in Call \ {c} : TaskAgrees(d)'
    BY <1>0, <1>1, <2>1, PushedPositions DEF TypeOK, TaskAgrees
  <2> QED BY <2>3, <2>4, <2>5 DEF RegistrationInv
<1>3. CASE RunRegistration(c)
  <2>1. checks' = Pushed(c) /\ UNCHANGED caller /\ task' = [task EXCEPT ![c] = "pushed"]
    BY <1>3 DEF RunRegistration
  <2>2. task[c] = "queued" /\ Positions(c) = {}
    BY <1>1, <1>3 DEF RunRegistration, TaskAgrees
  <2>3. Unique'
    BY <1>0, <2>1, <2>2, PushedPositions DEF RegistrationInv
  <2>4. TaskAgrees(c)'
    BY <1>0, <1>1, <2>1, <2>2, PushedPositions DEF TypeOK, TaskAgrees
  <2>5. \A d \in Call \ {c} : TaskAgrees(d)'
    BY <1>0, <1>1, <2>1, PushedPositions DEF TypeOK, TaskAgrees
  <2> QED BY <2>3, <2>4, <2>5 DEF RegistrationInv
<1>4. CASE AddCheckAsync(c) \/ CancelRegistration(c) \/ AsyncReturns(c) \/ DropCaller(c)
  <2>1. UNCHANGED checks
    BY <1>4 DEF AddCheckAsync, CancelRegistration, AsyncReturns, DropCaller
  <2>2. Unique' /\ \A d \in Call : Positions(d)' = Positions(d)
    BY <2>1 DEF RegistrationInv, Unique, Positions
  <2>3. \A d \in Call \ {c} : TaskAgrees(d)'
    BY <1>1, <1>4, <2>2 DEF TypeOK, TaskAgrees, AddCheckAsync, CancelRegistration,
                            AsyncReturns, DropCaller
  <2>4. TaskAgrees(c)'
    <3>1. CASE AddCheckAsync(c)
      BY <1>1, <2>2, <3>1 DEF TypeOK, TaskAgrees, AddCheckAsync, Spawned
    <3>2. CASE CancelRegistration(c)
      BY <1>1, <2>2, <3>2 DEF TypeOK, TaskAgrees, CancelRegistration
    <3>3. CASE AsyncReturns(c)
      BY <1>1, <2>2, <3>3 DEF TypeOK, TaskAgrees, AsyncReturns, JoinOutcome
    <3>4. CASE DropCaller(c)
      BY <1>1, <2>2, <3>4 DEF TypeOK, TaskAgrees, DropCaller
    <3> QED BY <1>4, <3>1, <3>2, <3>3, <3>4
  <2> QED BY <2>2, <2>3, <2>4 DEF RegistrationInv
<1> QED BY <1>2, <1>3, <1>4 DEF Register

\* Steps of sweeps and of time leave the registration side alone.
LEMMA OthersKeepRegistration ==
  ASSUME [Next]_vars, \A c \in Call : ~Register(c)
  PROVE  /\ UNCHANGED <<checks, task, caller>>
         /\ RegistrationInv => RegistrationInv'
<1>1. UNCHANGED <<checks, task, caller>>
  BY DEF Next, Sweep, BeginProbe, CheckReady, CheckReturns, CheckTimesOut, RunOneReturns,
         CheckPanics, Abandon, Discard, Answer, Shutdown, Tick, Terminated, vars, registration
<1>2. RegistrationInv => RegistrationInv'
  BY <1>1 DEF RegistrationInv, Unique, TaskAgrees, Positions
<1> QED BY <1>1, <1>2

\* Every step keeps caller, task and vector in agreement.
LEMMA NextRegistrationInv ==
  TypeOK /\ RegistrationInv /\ [Next]_vars => RegistrationInv'
BY RegisterAgrees, OthersKeepRegistration

\* The vector only grows, and only at its end.
LEMMA ChecksGrow ==
  ASSUME TypeOK, [Next]_vars
  PROVE  Len(checks) <= Len(checks') /\ \A i \in DOMAIN checks : checks'[i] = checks[i]
<1>1. CASE UNCHANGED checks
  BY <1>1 DEF TypeOK
<1>2. ASSUME NEW c \in Call, checks' = Pushed(c)
      PROVE  Len(checks) <= Len(checks') /\ \A i \in DOMAIN checks : checks'[i] = checks[i]
  BY <1>2, PushedProperties DEF TypeOK
<1>3. UNCHANGED checks \/ \E c \in Call : checks' = Pushed(c)
  <2>1. ASSUME NEW c \in Call, Register(c)
        PROVE  UNCHANGED checks \/ checks' = Pushed(c)
    BY <2>1 DEF Register, AddCheck, AddCheckAsync, RunRegistration, CancelRegistration,
                AsyncReturns, DropCaller
  <2> QED BY <2>1, OthersKeepRegistration
<1> QED BY <1>1, <1>2, <1>3

\* Every step keeps the clones prefixes of the vector, with all that was
\* acknowledged before they were made.
LEMMA NextSnapshots ==
  ASSUME TypeOK, RegistrationInv, SnapshotsArePrefixes, AckedInSnapshot, [Next]_vars
  PROVE  SnapshotsArePrefixes' /\ AckedInSnapshot'
<1>1. Len(checks) <= Len(checks') /\ \A i \in DOMAIN checks : checks'[i] = checks[i]
  BY ChecksGrow
<1>2. TypeOK'
  BY NextTypeOK
<1>3. ASSUME NEW p \in Probe
      PROVE  \/ snapshot'[p] = snapshot[p] /\ acked'[p] = acked[p]
             \/ snapshot'[p] = <<>> /\ acked'[p] = {}
             \/ snapshot'[p] = checks /\ acked'[p] = {c \in Call : caller[c] = "ok"}
  <2>1. CASE UNCHANGED <<snapshot, acked>>
    BY <2>1
  <2>2. ASSUME NEW q \in Probe, NEW s \in Scope, BeginProbe(q, s) PROVE <1>3!2
    BY <2>2 DEF TypeOK, BeginProbe
  <2>3. ASSUME NEW q \in Probe, NEW how, Discard(q, how) PROVE <1>3!2
    BY <2>3 DEF TypeOK, Discard
  <2> QED BY <2>1, <2>2, <2>3 DEF Next, Register, AddCheck, AddCheckAsync, RunRegistration,
        CancelRegistration, AsyncReturns, DropCaller, Sweep, CheckReady, CheckReturns,
        CheckTimesOut, RunOneReturns, CheckPanics, Abandon, Answer, Shutdown, Tick, Terminated,
        vars, registration, sweep
<1>4. \A c \in Call : caller[c] = "ok" => \E i \in DOMAIN checks : checks[i] = c
  BY DEF RegistrationInv, TaskAgrees, Positions
<1>5. SnapshotsArePrefixes'
  <2> SUFFICES ASSUME NEW p \in Probe
               PROVE  /\ Len(snapshot'[p]) <= Len(checks')
                      /\ \A i \in DOMAIN snapshot'[p] : snapshot'[p][i] = checks'[i]
    BY DEF SnapshotsArePrefixes
  <2>0. /\ checks \in Seq(Call) /\ checks' \in Seq(Call) /\ snapshot[p] \in Seq(Call)
        /\ Len(snapshot[p]) <= Len(checks)
        /\ \A i \in DOMAIN snapshot[p] : snapshot[p][i] = checks[i]
    BY <1>2 DEF SnapshotsArePrefixes, TypeOK
  <2>1. CASE snapshot'[p] = snapshot[p]
    BY <1>1, <2>0, <2>1
  <2>2. CASE snapshot'[p] = <<>>
    BY <1>2, <2>2 DEF TypeOK
  <2>3. CASE snapshot'[p] = checks
    BY <1>1, <2>3
  <2> QED BY <1>3, <2>1, <2>2, <2>3
<1>6. AckedInSnapshot'
  BY <1>3, <1>4 DEF AckedInSnapshot
<1> QED BY <1>5, <1>6

-----------------------------------------------------------------------------
(***************************************************************************)
(* One step, as one probe sees it.                                         *)
(***************************************************************************)
Rests(p) ==
  /\ phase'[p] = phase[p] /\ scope'[p] = scope[p] /\ snapshot'[p] = snapshot[p]
  /\ cells'[p] = cells[p] /\ overall'[p] = overall[p]
  /\ \A i \in DOMAIN cells[p] \ Waiting(p) : future'[p][i] = future[p][i]

Begins(p) ==
  /\ phase[p] = "idle" /\ phase'[p] = "running" /\ scope'[p] \in Scope
  /\ snapshot'[p] = checks /\ cells'[p] = [i \in Due(checks, scope'[p]) |-> Pending]
  /\ overall'[p] = overall[p]

Resolves(p, i, o) ==
  /\ phase[p] = "running" /\ phase'[p] = "running"
  /\ i \in Waiting(p)
  /\ IF future[p][i].answer # "none" THEN o = future[p][i].answer
                                     ELSE o = "timed_out" /\ Expired(p, i)
  /\ cells'[p] = [cells[p] EXCEPT ![i] = FoldedResult(o, future[p][i].age)]
  /\ future'[p] = future[p]
  /\ scope'[p] = scope[p] /\ snapshot'[p] = snapshot[p]
  /\ overall'[p] = overall[p]

Fails(p) ==
  /\ phase[p] = "running" /\ phase'[p] \in {"panicked", "cancelled"}
  /\ snapshot'[p] = <<>> /\ cells'[p] = EmptySlots
  /\ scope'[p] = scope[p] /\ overall'[p] = overall[p]

Answers(p) ==
  /\ Resolved(p) /\ phase'[p] = "answered"
  /\ overall'[p] = aggregate(Statuses(p))
  /\ cells'[p] = cells[p] /\ scope'[p] = scope[p] /\ snapshot'[p] = snapshot[p]
  /\ future'[p] = future[p]

Moves(p) ==
  \/ Begins(p)
  \/ \E i \in DOMAIN cells[p], o \in Outcome : Resolves(p, i, o)
  \/ Fails(p)
  \/ Answers(p)

\* A check that becomes ready moves no sweep: its slot is still pending.
LEMMA ReadyRests ==
  ASSUME TypeOK, NEW p \in Probe, NEW i \in DOMAIN cells[p], NEW o, CheckReady(p, i, o)
  PROVE  \A q \in Probe : Rests(q)
<1>1. UNCHANGED <<phase, scope, snapshot, cells, overall>> /\ i \in Waiting(p)
  BY DEF CheckReady, Polled
<1>2. \A q \in Probe : \A j \in DOMAIN cells[q] : q # p \/ j # i => future'[q][j] = future[q][j]
  BY DEF TypeOK, CheckReady
<1> QED BY <1>1, <1>2 DEF Rests

\* A step of sweep p rests or is one of the moves for p; every other probe rests.
LEMMA SweepMoves ==
  ASSUME TypeOK, NEW p \in Probe, Sweep(p)
  PROVE  (Rests(p) \/ Moves(p)) /\ \A q \in Probe \ {p} : Rests(q)
<1>1. ASSUME NEW s \in Scope, BeginProbe(p, s)
      PROVE  Begins(p) /\ \A q \in Probe \ {p} : Rests(q)
  BY <1>1 DEF TypeOK, BeginProbe, Begins, Rests
<1>2. ASSUME NEW i \in DOMAIN cells[p], CheckReturns(p, i) \/ CheckTimesOut(p, i)
      PROVE  /\ \E o \in Outcome : Resolves(p, i, o)
             /\ \A q \in Probe \ {p} : Rests(q)
  <2>1. PICK o \in Outcome :
           /\ i \in Polled(p)
           /\ RunOneReturns(p, i, o)
           /\ IF future[p][i].answer # "none" THEN o = future[p][i].answer
                                              ELSE o = "timed_out" /\ Expired(p, i)
    BY <1>2, ResolveSteps
  <2>2. /\ cells'[p] = [cells[p] EXCEPT ![i] = FoldedResult(o, future[p][i].age)]
        /\ \A q \in Probe \ {p} : cells'[q] = cells[q]
        /\ UNCHANGED <<phase, scope, snapshot, future, overall>>
    BY <2>1 DEF TypeOK, RunOneReturns
  <2>3. Resolves(p, i, o)
    BY <2>1, <2>2 DEF Resolves, Polled
  <2> QED BY <2>2, <2>3 DEF Rests
<1>3. ASSUME NEW how \in {"panicked", "cancelled"}, phase[p] = "running", Discard(p, how)
      PROVE  Fails(p) /\ \A q \in Probe \ {p} : Rests(q)
  BY <1>3 DEF TypeOK, Discard, Fails, Rests
<1>4. CASE Answer(p)
  <2>1. Answers(p) /\ \A q \in Probe \ {p} : Rests(q)
    BY <1>4 DEF TypeOK, Answer, Answers, Rests
  <2> QED BY <2>1 DEF Moves
<1>5. ASSUME NEW i \in DOMAIN cells[p], NEW o \in CheckOutcome, CheckReady(p, i, o)
      PROVE  \A q \in Probe : Rests(q)
  BY <1>5, ReadyRests
<1> QED BY <1>1, <1>2, <1>3, <1>4, <1>5 DEF Sweep, CheckPanics, Polled, Abandon, Moves

\* Time moves no sweep on: only the futures of pending slots grow older.
LEMMA TickRests ==
  ASSUME TypeOK, Tick
  PROVE  \A p \in Probe : Rests(p)
<1> SUFFICES ASSUME NEW p \in Probe PROVE Rests(p)
  OBVIOUS
<1>1. future'[p] = Older(p) /\ UNCHANGED <<phase, scope, snapshot, cells, overall>>
  BY DEF Tick
<1>2. DOMAIN future[p] = DOMAIN cells[p]
  BY DEF TypeOK
<1>3. \A i \in DOMAIN cells[p] \ Waiting(p) : Older(p)[i] = future[p][i]
  BY <1>2 DEF Older, Polled
<1> QED BY <1>1, <1>3 DEF Rests

\* The whole next-state relation from the point of view of any one probe.
LEMMA ProbeSteps ==
  ASSUME TypeOK, [Next]_vars
  PROVE  \A p \in Probe : Rests(p) \/ Moves(p)
<1>1. ASSUME NEW c \in Call, Register(c) PROVE \A p \in Probe : Rests(p)
  BY <1>1 DEF Register, AddCheck, AddCheckAsync, RunRegistration, CancelRegistration,
              AsyncReturns, DropCaller, sweep, Rests
<1>2. ASSUME NEW q \in Probe, Sweep(q) PROVE \A p \in Probe : Rests(p) \/ Moves(p)
  BY <1>2, SweepMoves
<1>3. CASE Shutdown \/ Terminated \/ UNCHANGED vars
  BY <1>3 DEF Shutdown, Terminated, vars, sweep, Rests
<1> QED BY <1>1, <1>2, <1>3, TickRests DEF Next

\* Every step leaves a sweep that has not begun without slots.
LEMMA NextIdle ==
  ASSUME TypeOK, IdleHasNoSlots, [Next]_vars
  PROVE  IdleHasNoSlots'
BY ProbeSteps DEF IdleHasNoSlots, Rests, Moves, Begins, Resolves, Fails, Answers

\* Every step leaves an answered sweep complete, with the aggregate of its slots.
LEMMA NextAnswerComplete ==
  ASSUME TypeOK, AnswerComplete, [Next]_vars
  PROVE  AnswerComplete'
<1> SUFFICES ASSUME NEW p \in Probe, phase'[p] = "answered"
             PROVE  Waiting(p)' = {} /\ overall'[p] = aggregate(Statuses(p))'
  BY DEF AnswerComplete
<1>1. CASE Rests(p)
  BY <1>1 DEF AnswerComplete, Rests, Waiting, Statuses
<1>2. CASE Moves(p)
  <2>1. Answers(p)
    BY <1>2 DEF Moves, Begins, Resolves, Fails
  <2>2. Statuses(p)' = Statuses(p) /\ Waiting(p)' = Waiting(p)
    BY <2>1 DEF Answers, Statuses, Waiting
  <2> QED BY <2>1, <2>2 DEF Answers, Resolved
<1> QED BY <1>1, <1>2, ProbeSteps

\* What TimeoutsAreEarned says of one slot that is decided.
Earned(p, check, r) ==
  IF check.answer # "none"
  THEN r.status = IF check.answer \in HealthStatus THEN check.answer ELSE "unhealthy"
  ELSE /\ Deadline[p] > 0 /\ check.age >= Deadline[p]
       /\ r.status = "unhealthy" /\ r.message = "timed_out"

\* The invariant slot by slot.
LEMMA EarnedSlots ==
  TimeoutsAreEarned <=>
    \A p \in Probe : \A i \in DOMAIN cells[p] \ Waiting(p) : Earned(p, future[p][i], cells[p][i])
BY DEF TimeoutsAreEarned, Earned, Waiting

\* Every step leaves every decided slot with a verdict it has earned.
LEMMA NextEarned ==
  ASSUME TypeOK, TimeoutsAreEarned, [Next]_vars
  PROVE  TimeoutsAreEarned'
<1> SUFFICES ASSUME NEW p \in Probe, NEW i \in DOMAIN cells'[p], cells'[p][i] # Pending
             PROVE  Earned(p, future'[p][i], cells'[p][i])
  BY DEF TimeoutsAreEarned, Earned
<1>1. \A j \in DOMAIN cells[p] : cells[p][j] # Pending => Earned(p, future[p][j], cells[p][j])
  BY EarnedSlots DEF Waiting
<1>2. CASE Rests(p)
  BY <1>1, <1>2 DEF Rests, Waiting
<1>3. CASE Begins(p) \/ Fails(p)
  BY <1>3 DEF Begins, Fails, EmptySlots
<1>4. ASSUME NEW j \in DOMAIN cells[p], NEW o \in Outcome, Resolves(p, j, o)
      PROVE  Earned(p, future'[p][i], cells'[p][i])
  <2>1. CASE i # j
    BY <1>1, <1>4, <2>1 DEF Resolves
  <2>2. CASE i = j
    <3> DEFINE r == FoldedResult(o, future[p][j].age)
    <3>1. future[p][j].age \in Nat
      <4>1. future[p][j] \in Future
        BY DEF TypeOK
      <4> QED BY <4>1 DEF Future
    <3>2. /\ o \in HealthStatus => r.status = o
          /\ o \notin HealthStatus => r.status = "unhealthy" /\ r.message = o
      BY <3>1, FoldedResultType
    <3>3. "timed_out" \notin HealthStatus
      BY DEF HealthStatus
    <3>4. future'[p][i] = future[p][j] /\ cells'[p][i] = r
      BY <1>4, <2>2 DEF Resolves
    <3>5. IF future[p][j].answer # "none" THEN o = future[p][j].answer
                                         ELSE o = "timed_out" /\ Expired(p, j)
      BY <1>4 DEF Resolves
    <3> HIDE DEF r
    <3>6. Earned(p, future[p][j], r)
      BY <3>2, <3>3, <3>5 DEF Earned, Expired, Armed
    <3> QED BY <3>4, <3>6
  <2> QED BY <2>1, <2>2
<1>5. CASE Answers(p)
  BY <1>1, <1>5 DEF Answers
<1> QED BY <1>2, <1>3, <1>4, <1>5, ProbeSteps DEF Moves

\* The inductive invariant holds initially.
LEMMA InitSafetyInv == Init => SafetyInv
<1> SUFFICES ASSUME Init PROVE SafetyInv
  OBVIOUS
<1>1. TypeOK
  BY InitTypeOK
<1>2. RegistrationInv
  BY DEF Init, RegistrationInv, Unique, TaskAgrees, Positions
<1>3. SnapshotsArePrefixes /\ AckedInSnapshot
  BY DEF Init, SnapshotsArePrefixes, AckedInSnapshot
<1>4. AnswerComplete
  BY DEF Init, AnswerComplete
<1>5. TimeoutsAreEarned
  BY DEF Init, TimeoutsAreEarned, EmptySlots
<1>6. IdleHasNoSlots
  BY DEF Init, IdleHasNoSlots, EmptySlots
<1> QED BY <1>1, <1>2, <1>3, <1>4, <1>5, <1>6 DEF SafetyInv

\* Every step keeps the inductive invariant.
LEMMA NextSafetyInv == SafetyInv /\ [Next]_vars => SafetyInv'
<1> SUFFICES ASSUME SafetyInv, [Next]_vars PROVE SafetyInv'
  OBVIOUS
<1> USE DEF SafetyInv
<1>1. TypeOK'
  BY NextTypeOK
<1>2. RegistrationInv'
  BY NextRegistrationInv
<1>3. SnapshotsArePrefixes' /\ AckedInSnapshot'
  BY NextSnapshots
<1>4. AnswerComplete'
  BY NextAnswerComplete
<1>5. TimeoutsAreEarned'
  BY NextEarned
<1>6. IdleHasNoSlots'
  BY NextIdle
<1> QED BY <1>1, <1>2, <1>3, <1>4, <1>5, <1>6

\* The invariant holds in every reachable state.
THEOREM Safety == Spec => []SafetyInv
BY InitSafetyInv, NextSafetyInv, PTL DEF Spec

-----------------------------------------------------------------------------
(***************************************************************************)
(* What callers and probes may rely on.                                    *)
(***************************************************************************)
\* An Ok from a registration call means registered once.
THEOREM Acknowledged == Spec => []AcknowledgedOnce
<1>1. SafetyInv => AcknowledgedOnce
  BY DEF SafetyInv, RegistrationInv, Unique, TaskAgrees, AcknowledgedOnce, Positions
<1> QED BY <1>1, Safety, PTL

\* ShuttingDown means not registered, now or later.
THEOREM Refused == Spec => []ShuttingDownNotRegistered
<1>1. SafetyInv => ShuttingDownNotRegistered
  BY DEF SafetyInv, RegistrationInv, TaskAgrees, ShuttingDownNotRegistered
<1> QED BY <1>1, Safety, PTL

\* Every answer is over a prefix of the live vector, in registration order.
THEOREM StableOrder == Spec => []SnapshotsArePrefixes
<1>1. SafetyInv => SnapshotsArePrefixes
  BY DEF SafetyInv
<1> QED BY <1>1, Safety, PTL

\* A sweep answers for every check in its scope that was acknowledged before
\* the sweep began.
THEOREM Visibility == Spec => []VisibleRegistrations
<1> SUFFICES SafetyInv => VisibleRegistrations
  BY Safety, PTL
<1> SUFFICES ASSUME SafetyInv, NEW p \in Probe, NEW c \in acked[p], phase[p] = "answered",
                    scope[p] = RegistryWide \/ scope[p] = GroupOf[c]
             PROVE  \E i \in DOMAIN cells[p] : snapshot[p][i] = c /\ cells[p][i] # Pending
  BY DEF VisibleRegistrations
<1>1. PICK i \in DOMAIN snapshot[p] : snapshot[p][i] = c
  BY DEF SafetyInv, AckedInSnapshot
<1>2. i \in Due(snapshot[p], scope[p])
  BY <1>1 DEF Due, InScope
<1>3. i \in DOMAIN cells[p]
  BY <1>2 DEF SafetyInv, TypeOK
<1>4. cells[p][i] # Pending
  BY <1>3 DEF SafetyInv, AnswerComplete, Waiting
<1> QED BY <1>1, <1>3, <1>4

\* The answer of a group sweep rests on that group's checks only.
THEOREM Isolation == Spec => []GroupIsolation
<1>1. TypeOK => GroupIsolation
  BY GroupAssumption DEF TypeOK, GroupIsolation, Due, InScope
<1> QED BY <1>1, TypeCorrect, PTL

\* No answer is better than its worst verdict, and none is still pending.
THEOREM WorstWins == Spec => []WorstStatusWins
<1> SUFFICES SafetyInv => WorstStatusWins
  BY Safety, PTL
<1> SUFFICES ASSUME SafetyInv, NEW p \in Probe, phase[p] = "answered"
             PROVE  /\ "pending" \notin Statuses(p)
                    /\ overall[p] = "unhealthy" <=> "unhealthy" \in Statuses(p)
                    /\ overall[p] = "healthy" <=> Statuses(p) \subseteq {"healthy"}
  BY DEF WorstStatusWins, Statuses
<1>1. Statuses(p) \in SUBSET HealthStatus /\ overall[p] = aggregate(Statuses(p))
  BY ResolvedStatuses DEF SafetyInv, AnswerComplete
<1>2. "pending" \notin HealthStatus
  BY DEF HealthStatus
<1> QED BY <1>1, <1>2, AggregateVerdict

\* A check that is ready is reported by what it says, its own timeout error
\* included; only one that is not, and whose deadline has passed, is timed out.
THEOREM Timeouts == Spec => []TimeoutsAreEarned
<1>1. SafetyInv => TimeoutsAreEarned
  BY DEF SafetyInv
<1> QED BY <1>1, Safety, PTL

\* A resolved slot keeps its verdict as long as its sweep lives.
THEOREM Finality == Spec => VerdictFinal
<1> DEFINE Final == \A p \in Probe : \A i \in DOMAIN cells[p] :
       cells[p][i] # Pending /\ phase'[p] \in {"running", "answered"}
         => cells'[p][i] = cells[p][i]
<1>1. SafetyInv /\ [Next]_vars => Final
  <2> SUFFICES ASSUME SafetyInv, [Next]_vars, NEW p \in Probe, NEW i \in DOMAIN cells[p],
                      cells[p][i] # Pending, phase'[p] \in {"running", "answered"}
               PROVE  cells'[p][i] = cells[p][i]
    OBVIOUS
  <2>1. Rests(p) \/ Moves(p)
    BY ProbeSteps DEF SafetyInv
  <2>2. ~Begins(p)
    BY DEF SafetyInv, IdleHasNoSlots, Begins
  <2>3. ASSUME NEW j \in DOMAIN cells[p], NEW o \in Outcome, Resolves(p, j, o)
        PROVE  cells'[p][i] = cells[p][i]
    BY <2>3 DEF Resolves, Waiting
  <2> QED BY <2>1, <2>2, <2>3 DEF Rests, Moves, Fails, Answers
<1> HIDE DEF Final
<1>2. SafetyInv /\ [Next]_vars => [Final]_vars
  BY <1>1
<1> QED BY <1>2, Safety, PTL DEF Spec, VerdictFinal, Final

-----------------------------------------------------------------------------
(***************************************************************************)
(* The facade's counters.                                                  *)
(***************************************************************************)
Contributes(p, i, n, s) ==
  phase[p] = "answered" /\ scope[p] = RegistryWide /\ i \in Counted(p, n, s)

\* The results that FacadeCounts counts for one name and status.
Tally(n, s) == {r \in Probe \X DOMAIN checks : Contributes(r[1], r[2], n, s)}

\* Cardinalities add up only for finite sets.
TallyInv ==
  \A n \in Name, s \in Sample :
    IsFiniteSet(Tally(n, s)) /\ emitted[<<n, s>>] = Cardinality(Tally(n, s))

\* A counted result has its check in the live vector.
InVector == \A p \in Probe : \A i, n, s : Contributes(p, i, n, s) => i \in DOMAIN checks

\* The positions a sweep counts are positions of the live vector.
LEMMA CountedInVector == SafetyInv => InVector
<1> SUFFICES ASSUME SafetyInv, NEW p \in Probe, NEW n, NEW s
             PROVE  Counted(p, n, s) \subseteq DOMAIN checks
  BY DEF InVector, Contributes
<1>1. Counted(p, n, s) \subseteq DOMAIN snapshot[p]
  BY DEF SafetyInv, TypeOK, Counted, Due
<1>2. DOMAIN snapshot[p] = 1..Len(snapshot[p]) /\ DOMAIN checks = 1..Len(checks)
  BY DEF SafetyInv, TypeOK
<1>3. Len(snapshot[p]) \in Nat /\ Len(checks) \in Nat /\ Len(snapshot[p]) <= Len(checks)
  BY DEF SafetyInv, TypeOK, SnapshotsArePrefixes
<1> QED BY <1>1, <1>2, <1>3

\* The share of one sweep in a tally.
LEMMA ShareOf ==
  ASSUME NEW p, NEW S, IsFiniteSet(S)
  PROVE  IsFiniteSet({p} \X S) /\ Cardinality({p} \X S) = Cardinality(S)
<1> DEFINE pair == [i \in S |-> <<p, i>>]
<1>1. pair \in Bijection(S, {p} \X S)
  BY DEF Bijection, Injection, Surjection, IsInjective
<1>2. ExistsBijection(S, {p} \X S)
  BY <1>1 DEF ExistsBijection
<1> QED BY <1>2, FS_Bijection

\* Answers count; no other step adds to a counter or to a tally.
LEMMA OthersEmitNothing ==
  ASSUME TypeOK, [Next]_vars, \A p \in Probe : ~Answer(p)
  PROVE  /\ emitted' = emitted
         /\ \A p \in Probe : phase'[p] = "answered" => Rests(p)
<1>1. emitted' = emitted
  BY DEF Next, Register, AddCheck, AddCheckAsync, RunRegistration, CancelRegistration,
         AsyncReturns, DropCaller, Sweep, BeginProbe, CheckReady, CheckReturns, CheckTimesOut,
         RunOneReturns, CheckPanics, Abandon, Discard, Shutdown, Tick, Terminated, sweep, vars
<1>2. ASSUME NEW p \in Probe, phase'[p] = "answered" PROVE Rests(p)
  <2>1. phase[p] = "answered"
    BY <1>2 DEF TypeOK, Next, Register, AddCheck, AddCheckAsync, RunRegistration,
           CancelRegistration, AsyncReturns, DropCaller, Sweep, BeginProbe, CheckReady,
           CheckReturns, CheckTimesOut, RunOneReturns, CheckPanics, Abandon, Discard, Shutdown,
           Tick, Terminated, sweep, vars
  <2> QED BY <2>1, ProbeSteps DEF Moves, Begins, Resolves, Fails, Answers, Resolved
<1> QED BY <1>1, <1>2

\* An answered sweep keeps its results.
LEMMA AnsweredRests ==
  ASSUME TypeOK, [Next]_vars, NEW p \in Probe, phase[p] = "answered"
  PROVE  Rests(p)
BY ProbeSteps DEF Moves, Begins, Resolves, Fails, Answers, Resolved

\* A sweep at rest contributes what it did.
LEMMA RestsContributes ==
  ASSUME NEW p \in Probe, Rests(p)
  PROVE  \A n, s, i : Contributes(p, i, n, s)' <=> Contributes(p, i, n, s)
BY DEF Rests, Contributes, Counted

\* Every step keeps counters and tallies equal.
LEMMA NextTally ==
  ASSUME SafetyInv, SafetyInv', TallyInv, [Next]_vars
  PROVE  TallyInv'
<1> SUFFICES ASSUME NEW n \in Name, NEW s \in Sample
             PROVE  IsFiniteSet(Tally(n, s)') /\ emitted'[<<n, s>>] = Cardinality(Tally(n, s)')
  BY DEF TallyInv
<1> USE DEF SafetyInv
<1>1. IsFiniteSet(Tally(n, s)) /\ emitted[<<n, s>>] = Cardinality(Tally(n, s))
  BY DEF TallyInv
<1>2. \A p \in Probe : \A i : Contributes(p, i, n, s) => i \in DOMAIN checks
  BY CountedInVector DEF InVector
<1>3. \A p \in Probe : \A i : Contributes(p, i, n, s)' => i \in DOMAIN checks'
  <2>1. InVector'
    BY CountedInVector, PTL
  <2> QED BY <2>1 DEF InVector
<1>4. CASE \A p \in Probe : ~Answer(p)
  <2>1. \A p \in Probe : \A i : Contributes(p, i, n, s)' <=> Contributes(p, i, n, s)
    BY <1>4, OthersEmitNothing, AnsweredRests, RestsContributes DEF Contributes
  <2>2. Tally(n, s)' = Tally(n, s)
    BY <1>2, <1>3, <2>1 DEF Tally
  <2> QED BY <1>1, <1>4, <2>2, OthersEmitNothing
<1>5. ASSUME NEW p \in Probe, Answer(p)
      PROVE  IsFiniteSet(Tally(n, s)') /\ emitted'[<<n, s>>] = Cardinality(Tally(n, s)')
  <2> DEFINE share == {p} \X Counted(p, n, s)
  <2>1. \A q \in Probe \ {p} : \A i : Contributes(q, i, n, s)' <=> Contributes(q, i, n, s)
    <3>1. Sweep(p)
      BY <1>5 DEF Sweep
    <3> QED BY <3>1, SweepMoves, RestsContributes
  <2>2. phase[p] = "running" /\ phase'[p] = "answered"
        /\ UNCHANGED <<scope, cells, snapshot, checks>>
    BY <1>5 DEF Answer, Resolved, TypeOK, registration
  <2>3. \A i : ~Contributes(p, i, n, s)
    BY <2>2 DEF Contributes
  <2>4. \A i : Contributes(p, i, n, s)' <=> scope[p] = RegistryWide /\ i \in Counted(p, n, s)
    BY <2>2 DEF Contributes, Counted
  <2>5. IsFiniteSet(Counted(p, n, s)) /\ Cardinality(Counted(p, n, s)) \in Nat
    BY CountedFinite
  <2>6. CASE scope[p] = RegistryWide
    <3>1. Tally(n, s)' = Tally(n, s) \cup share
      BY <1>2, <1>3, <2>1, <2>2, <2>3, <2>4, <2>6 DEF Tally
    <3>2. Tally(n, s) \cap share = {}
      BY <2>3 DEF Tally
    <3>3. IsFiniteSet(share) /\ Cardinality(share) = Cardinality(Counted(p, n, s))
      BY <2>5, ShareOf
    <3>4. /\ IsFiniteSet(Tally(n, s) \cup share)
          /\ Cardinality(Tally(n, s) \cup share)
               = Cardinality(Tally(n, s)) + Cardinality(share) - Cardinality(Tally(n, s) \cap share)
      BY <1>1, <3>3, FS_Union
    <3>5. Cardinality(Tally(n, s) \cap share) = 0 /\ Cardinality(Tally(n, s)) \in Nat
      BY <1>1, <3>2, FS_EmptySet, FS_CardinalityType
    <3>6. emitted'[<<n, s>>] = emitted[<<n, s>>] + Cardinality(Counted(p, n, s))
      BY <1>5, <2>6 DEF Answer, Emits, emit_facade_metrics
    <3> QED BY <1>1, <2>5, <3>1, <3>3, <3>4, <3>5, <3>6
  <2>7. CASE scope[p] # RegistryWide
    <3>1. Tally(n, s)' = Tally(n, s)
      BY <1>2, <1>3, <2>1, <2>2, <2>3, <2>4, <2>7 DEF Tally
    <3>2. emitted' = emitted
      BY <1>5, <2>7 DEF Answer, Emits
    <3> QED BY <1>1, <3>1, <3>2
  <2> QED BY <2>6, <2>7
<1> QED BY <1>4, <1>5

\* The counters are the verdicts of answered registry-wide sweeps: none twice,
\* and none of a sweep that panicked or was dropped.
THEOREM FacadeExact == Spec => []FacadeCounts
<1>1. Init => TallyInv
  <2> SUFFICES ASSUME Init, NEW n \in Name, NEW s \in Sample
               PROVE  IsFiniteSet(Tally(n, s)) /\ emitted[<<n, s>>] = Cardinality(Tally(n, s))
    BY DEF TallyInv
  <2>1. Tally(n, s) = {}
    BY DEF Init, Tally, Contributes
  <2>2. emitted[<<n, s>>] = 0
    BY DEF Init
  <2> QED BY <2>1, <2>2, FS_EmptySet
<1>2. TallyInv => FacadeCounts
  BY DEF TallyInv, FacadeCounts, Tally, Contributes
<1> QED BY <1>1, <1>2, NextTally, Safety, PTL DEF Spec

=============================================================================
