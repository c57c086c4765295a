-------------------------- MODULE RegistryRefinement --------------------------
(***************************************************************************)
(* The registry implements ProbeContract: every step of HealthRegistry is  *)
(* a step of the contract under the mapping that HealthRegistry defines    *)
(* with `Contract`, or leaves the contract's variables unchanged.          *)
(***************************************************************************)
EXTENDS HealthRegistryProofs

Floor == [p \in Probe |-> Len(snapshot[p])]

\* The initial states map to the contract's.
LEMMA InitMaps == Init => Contract!Init
BY DEF Init, Contract!Init, Contract!NoReport, Progress, Report

\* The three mapped functions, when the sweep variables do not change.
LEMMA SweepsStutter ==
  ASSUME UNCHANGED <<phase, snapshot, cells>>
  PROVE  UNCHANGED <<Progress, Floor, Report>>
BY DEF Progress, Floor, Report

\* Every step of a registration maps to one of the contract, or to none.
LEMMA RegisterMaps ==
  ASSUME SafetyInv, NEW c \in Call, Register(c)
  PROVE  Contract!Next \/ UNCHANGED Contract!vars
<1>1. UNCHANGED sweep
  BY DEF Register, AddCheck, AddCheckAsync, RunRegistration, CancelRegistration,
         AsyncReturns, DropCaller
<1>2. UNCHANGED <<Progress, scope, Floor, Report, overall>>
  BY <1>1, SweepsStutter DEF sweep
<1>3. TaskAgrees(c)
  BY DEF SafetyInv, RegistrationInv
<1>4. Contract!InLog(c) <=> Positions(c) # {}
  BY DEF Contract!InLog, Positions
<1>5. CASE AddCheck(c)
  <2>1. Contract!Register(c)
    BY <1>2, <1>5 DEF AddCheck, Pushed, Contract!Register, Floor
  <2> QED BY <2>1 DEF Contract!Next
<1>6. CASE AddCheckAsync(c)
  <2>1. Contract!Ask(c)
    BY <1>2, <1>6 DEF AddCheckAsync, Contract!Ask, Contract!Settle, Floor
  <2> QED BY <2>1 DEF Contract!Next
<1>7. CASE RunRegistration(c)
  <2>1. caller[c] \in {"awaiting", "dropped"} /\ Positions(c) = {}
    BY <1>3, <1>7 DEF RunRegistration, TaskAgrees, SafetyInv, TypeOK
  <2>2. Contract!TakeEffect(c)
    BY <1>2, <1>4, <1>7, <2>1 DEF RunRegistration, Pushed, Contract!TakeEffect, Floor
  <2> QED BY <2>2 DEF Contract!Next
<1>8. CASE CancelRegistration(c)
  BY <1>2, <1>8 DEF CancelRegistration, Contract!vars, Floor
<1>9. CASE AsyncReturns(c)
  <2>1. CASE task[c] = "pushed"
    <3>1. Contract!Confirm(c)
      BY <1>2, <1>3, <1>4, <1>9, <2>1
         DEF AsyncReturns, JoinOutcome, TaskAgrees, Contract!Confirm, Contract!Settle, Floor
    <3> QED BY <3>1 DEF Contract!Next
  <2>2. CASE task[c] = "cancelled"
    <3>1. Contract!Refuse(c)
      BY <1>2, <1>3, <1>4, <1>9, <2>2
         DEF AsyncReturns, JoinOutcome, TaskAgrees, Contract!Refuse, Contract!Settle, Floor
    <3> QED BY <3>1 DEF Contract!Next
  <2> QED BY <1>9, <2>1, <2>2 DEF AsyncReturns
<1>10. CASE DropCaller(c)
  <2>1. Contract!Withdraw(c)
    BY <1>2, <1>10 DEF DropCaller, Contract!Withdraw, Contract!Settle, Floor
  <2> QED BY <2>1 DEF Contract!Next
<1> QED BY <1>5, <1>6, <1>7, <1>8, <1>9, <1>10 DEF Register

\* The clone of the vector is the contract's begin.
LEMMA BeginMaps ==
  ASSUME SafetyInv, NEW p \in Probe, NEW s \in Scope, BeginProbe(p, s)
  PROVE  Contract!Begin(p, s)
<1>1. phase' = [phase EXCEPT ![p] = "running"] /\ phase[p] = "idle"
  BY DEF BeginProbe
<1>2. Progress' = [Progress EXCEPT ![p] = "running"] /\ Progress[p] = "idle"
  BY <1>1 DEF Progress, SafetyInv, TypeOK
<1>3. Floor' = [Floor EXCEPT ![p] = Len(checks)]
  BY DEF Floor, BeginProbe, SafetyInv, TypeOK
<1>4. \A q \in Probe : phase'[q] = "answered" => q # p /\ cells'[q] = cells[q]
  BY DEF BeginProbe, SafetyInv, TypeOK
<1>5. \A q \in Probe : phase'[q] = "answered" <=> phase[q] = "answered"
  BY <1>1 DEF SafetyInv, TypeOK
<1>6. Report' = Report
  BY <1>4, <1>5 DEF Report
<1> QED BY <1>2, <1>3, <1>6 DEF BeginProbe, registration, Contract!Begin, Floor

\* Filling a slot is invisible: a report exists only once it is complete.
LEMMA ResolveMaps ==
  ASSUME SafetyInv, NEW p \in Probe, NEW i \in DOMAIN cells[p],
         CheckReturns(p, i) \/ CheckTimesOut(p, i)
  PROVE  UNCHANGED Contract!vars
<1>1. /\ phase[p] = "running"
      /\ UNCHANGED <<checks, caller, phase, scope, snapshot, overall>>
      /\ \A q \in Probe \ {p} : cells'[q] = cells[q]
  BY DEF CheckReturns, CheckTimesOut, RunOneReturns, Polled, registration, SafetyInv, TypeOK
<1>2. UNCHANGED <<Progress, Floor>>
  BY <1>1 DEF Progress, Floor
<1>3. UNCHANGED Report
  BY <1>1 DEF Report
<1> QED BY <1>1, <1>2, <1>3 DEF Contract!vars, Floor

\* A sweep that panics or is dropped is one that fails.
LEMMA DiscardMaps ==
  ASSUME SafetyInv, NEW p \in Probe, NEW how \in {"panicked", "cancelled"},
         phase[p] = "running", Discard(p, how)
  PROVE  Contract!Fail(p)
<1>1. phase' = [phase EXCEPT ![p] = how]
  BY DEF Discard
<1>2. Progress' = [Progress EXCEPT ![p] = "failed"] /\ Progress[p] = "running"
  BY <1>1 DEF Progress, SafetyInv, TypeOK
<1>3. Floor' = [Floor EXCEPT ![p] = 0]
  BY DEF Floor, Discard, SafetyInv, TypeOK
<1>4. \A q \in Probe : phase'[q] = "answered" => q # p /\ cells'[q] = cells[q]
  BY DEF Discard, SafetyInv, TypeOK
<1>5. \A q \in Probe : phase'[q] = "answered" <=> phase[q] = "answered"
  BY <1>1 DEF SafetyInv, TypeOK
<1>6. Report' = Report
  BY <1>4, <1>5 DEF Report
<1> QED BY <1>2, <1>3, <1>6 DEF Discard, registration, Contract!Fail, Floor

\* The answer covers the prefix of the log the snapshot was.
LEMMA AnswerMaps ==
  ASSUME SafetyInv, NEW p \in Probe, Answer(p)
  PROVE  Contract!Answer(p)
<1> DEFINE n == Len(snapshot[p])
           r == [i \in DOMAIN cells[p] |-> cells[p][i].status]
<1>1. n \in Nat /\ n <= Len(checks) /\ Len(checks) \in Nat /\ DOMAIN snapshot[p] = 1..n
  BY DEF SafetyInv, TypeOK, SnapshotsArePrefixes
<1>2. Contract!Covered(scope[p], n) = DOMAIN cells[p]
  <2>1. DOMAIN cells[p] = {i \in 1..n : InScope(snapshot[p][i], scope[p])}
    BY <1>1 DEF SafetyInv, TypeOK, Due
  <2>2. \A i \in 1..n : snapshot[p][i] = checks[i]
    BY <1>1 DEF SafetyInv, SnapshotsArePrefixes
  <2> QED BY <2>1, <2>2 DEF InScope, Contract!Covered
<1>3. r \in [Contract!Covered(scope[p], n) -> Contract!HealthStatus]
  <2>1. \A i \in DOMAIN cells[p] : cells[p][i] \in CheckResult
    BY ResolvedStatuses DEF SafetyInv, Answer, Resolved
  <2>2. \A i \in DOMAIN cells[p] : cells[p][i].status \in HealthStatus
    BY <2>1 DEF CheckResult
  <2> QED BY <1>2, <2>2 DEF Contract!HealthStatus, HealthStatus
<1>4. {r[i] : i \in DOMAIN r} = Statuses(p)
  BY DEF Statuses
<1>5. overall' = [overall EXCEPT ![p] = Contract!aggregate({r[i] : i \in DOMAIN r})]
  <2>1. overall' = [overall EXCEPT ![p] = aggregate(Statuses(p))]
    BY DEF Answer
  <2>2. Contract!aggregate(Statuses(p)) = aggregate(Statuses(p))
    BY DEF aggregate, Contract!aggregate, Severity, Contract!Severity
  <2> QED BY <1>4, <2>1, <2>2
<1>6. phase' = [phase EXCEPT ![p] = "answered"] /\ phase[p] = "running"
  BY DEF Answer, Resolved
<1>7. Progress' = [Progress EXCEPT ![p] = "answered"] /\ Progress[p] = "running"
  BY <1>6 DEF Progress, SafetyInv, TypeOK
<1>8. Report' = [Report EXCEPT ![p] = r]
  <2>1. UNCHANGED cells
    BY DEF Answer
  <2> QED BY <1>6, <2>1 DEF Report, SafetyInv, TypeOK
<1>9. UNCHANGED <<checks, caller, scope, Floor>>
  BY DEF Answer, registration, Floor
<1> HIDE DEF r
<1>10. Contract!AnswerFrom(p, n)
  BY <1>3, <1>5, <1>7, <1>8, <1>9 DEF Contract!AnswerFrom, Floor
<1>11. n \in Floor[p]..Len(checks)
  BY <1>1 DEF Floor
<1> QED BY <1>10, <1>11 DEF Contract!Answer, Floor

\* Every step of a sweep maps to one of the contract, or to none.
LEMMA SweepMaps ==
  ASSUME SafetyInv, NEW p \in Probe, Sweep(p)
  PROVE  Contract!Next \/ UNCHANGED Contract!vars
<1>1. ASSUME NEW s \in Scope, BeginProbe(p, s) PROVE Contract!Next
  BY <1>1, BeginMaps DEF Contract!Next, Scope
<1>2. ASSUME NEW i \in DOMAIN cells[p], CheckReturns(p, i) \/ CheckTimesOut(p, i)
      PROVE  UNCHANGED Contract!vars
  BY <1>2, ResolveMaps
<1>6. ASSUME NEW i \in DOMAIN cells[p], NEW o \in CheckOutcome, CheckReady(p, i, o)
      PROVE  UNCHANGED Contract!vars
  <2>1. UNCHANGED <<checks, caller, phase, scope, snapshot, cells, overall>>
    BY <1>6 DEF CheckReady, registration
  <2> QED BY <2>1, SweepsStutter DEF Contract!vars, Floor
<1>3. ASSUME NEW i \in DOMAIN cells[p], CheckPanics(p, i) PROVE Contract!Next
  BY <1>3, DiscardMaps DEF CheckPanics, Polled, Contract!Next
<1>4. CASE Abandon(p)
  BY <1>4, DiscardMaps DEF Abandon, Contract!Next
<1>5. CASE Answer(p)
  BY <1>5, AnswerMaps DEF Contract!Next
<1> QED BY <1>1, <1>2, <1>3, <1>4, <1>5, <1>6 DEF Sweep

\* So does every step.
LEMMA NextMaps == SafetyInv /\ [Next]_vars => [Contract!Next]_Contract!vars
<1> SUFFICES ASSUME SafetyInv, [Next]_vars
             PROVE  Contract!Next \/ UNCHANGED Contract!vars
  OBVIOUS
<1>1. ASSUME NEW c \in Call, Register(c)
      PROVE  Contract!Next \/ UNCHANGED Contract!vars
  BY <1>1, RegisterMaps
<1>2. ASSUME NEW p \in Probe, Sweep(p)
      PROVE  Contract!Next \/ UNCHANGED Contract!vars
  BY <1>2, SweepMaps
<1>3. CASE Shutdown \/ Tick \/ Terminated \/ UNCHANGED vars
  <2>1. UNCHANGED <<checks, caller, phase, scope, snapshot, cells, overall>>
    BY <1>3 DEF Shutdown, Tick, Terminated, vars, registration, sweep
  <2> QED BY <2>1, SweepsStutter DEF Contract!vars, Floor
<1> QED BY <1>1, <1>2, <1>3 DEF Next

\* The registry implements the contract, for every set of calls and probes.
THEOREM Refinement == Spec => ImplementsContract
BY InitMaps, NextMaps, Safety, PTL DEF Spec, ImplementsContract, Contract!Spec

=============================================================================
