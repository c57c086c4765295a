--------------------------- MODULE RedisCheckProofs ---------------------------
(***************************************************************************)
(* Proofs about RedisCheck: for any number of probes and threads and any   *)
(* timeout, its safety invariants hold and it implements TimedCheck.       *)
(***************************************************************************)
EXTENDS RedisCheck, TLAPS

\* A probe that has not started has no task.
IdleInv ==
  \A p \in Probe : call[p] = "idle" => job[p] = "none"

\* Only a returned probe has an outcome, and one that returned before its
\* task was over timed out.
OutcomeInv ==
  \A p \in Probe :
    /\ call[p] # "returned" => outcome[p] = "none"
    /\ job[p] \notin Finished => outcome[p] \in {"none", "timed_out"}

\* The wire time of a probe that waits is part of its whole time.
WireInv ==
  \A p \in Probe : call[p] = "awaiting" /\ job[p] = "pinging" => ioTime[p] <= elapsed[p]

\* What Tick assumes of the runtime: an expired timer is served within Lag.
BackInTime == \A p \in Probe : elapsed[p] <= Timeout + Lag

\* The inductive invariant.  OuterTimeoutAuthoritative needs WireInv and
\* BackInTime: with Lag < Margin they keep a waiting PING below Slack.
RedisInv ==
  /\ TypeOK
  /\ IdleInv
  /\ OutcomeInv
  /\ WireInv
  /\ BackInTime
  /\ OuterTimeoutAuthoritative
  /\ VerdictMatchesReply

\* The inductive invariant holds initially.
LEMMA InitInv == Init => RedisInv
  BY RedisAssumption DEF Init, RedisInv, TypeOK, IdleInv, OutcomeInv, WireInv, BackInTime,
     OuterTimeoutAuthoritative, VerdictMatchesReply, Finished, Busy

\* Every step keeps it.
LEMMA NextInv == RedisInv /\ [Next]_vars => RedisInv'
  <1> SUFFICES ASSUME RedisInv, [Next]_vars
               PROVE  RedisInv'
    OBVIOUS
  <1> USE RedisAssumption DEF RedisInv, async, pool, Busy, Finished
  <1>0. CASE UNCHANGED vars
    BY <1>0 DEF vars, TypeOK, IdleInv, OutcomeInv, WireInv, BackInTime,
       OuterTimeoutAuthoritative, VerdictMatchesReply
  <1>1. ASSUME NEW p \in Probe, StartCheck(p)
        PROVE  RedisInv'
    <2>1. TypeOK'
      <3>1. /\ queue' = Append(queue, p)
            /\ queue' \in Seq(Probe)
            /\ Len(queue') = Len(queue) + 1
        BY <1>1 DEF StartCheck, TypeOK
      <3>2. queue'[Len(queue')] = p /\ \A i \in DOMAIN queue : queue'[i] = queue[i]
        BY <3>1 DEF TypeOK
      <3>3. \A i \in DOMAIN queue' : i \in DOMAIN queue \/ i = Len(queue')
        BY <3>1 DEF TypeOK
      <3>4. job[p] = "none" /\ job' = [job EXCEPT ![p] = "queued"]
        BY <1>1 DEF StartCheck, IdleInv
      <3>5. \A i \in DOMAIN queue : queue[i] # p
        BY <3>4 DEF TypeOK
      <3>6. \A i, j \in DOMAIN queue' : queue'[i] = queue'[j] => i = j
        BY <3>1, <3>2, <3>3, <3>5 DEF TypeOK
      <3>7. \A i \in DOMAIN queue : i \in DOMAIN queue'
        BY <3>1 DEF TypeOK
      <3>8. Len(queue') \in DOMAIN queue'
        BY <3>1 DEF TypeOK
      <3>9. \A x \in Probe : job'[x] = "queued" <=> \E i \in DOMAIN queue' : queue'[i] = x
        BY <3>2, <3>3, <3>4, <3>5, <3>7, <3>8 DEF TypeOK
      <3>. QED  BY <1>1, <3>1, <3>6, <3>9 DEF StartCheck, TypeOK
    <2>2. (IdleInv /\ OutcomeInv /\ WireInv /\ BackInTime)'
      BY <1>1 DEF StartCheck, TypeOK, IdleInv, OutcomeInv, WireInv, BackInTime
    <2>3. (OuterTimeoutAuthoritative /\ VerdictMatchesReply)'
      BY <1>1 DEF StartCheck, TypeOK, IdleInv, OuterTimeoutAuthoritative, VerdictMatchesReply
    <2>. QED  BY <2>1, <2>2, <2>3
  <1>2. ASSUME NEW p \in Probe, CheckReturns(p)
        PROVE  RedisInv'
    <2>1. Matched(job[p], elapsed[p]) \in Verdict
      BY <1>2 DEF CheckReturns, Matched, Verdict
    <2>2. TypeOK'
      BY <1>2, <2>1 DEF CheckReturns, Return, TypeOK
    <2>3. (IdleInv /\ OutcomeInv /\ WireInv /\ BackInTime)'
      BY <1>2 DEF CheckReturns, Return, TypeOK, IdleInv, OutcomeInv, WireInv, BackInTime
    <2>4. OuterTimeoutAuthoritative'
      BY <1>2 DEF CheckReturns, Return, TypeOK, OuterTimeoutAuthoritative
    <2>5. VerdictMatchesReply'
      BY <1>2 DEF CheckReturns, Return, Matched, TypeOK, VerdictMatchesReply
    <2>. QED  BY <2>2, <2>3, <2>4, <2>5
  <1>3. ASSUME NEW p \in Probe, CheckTimesOut(p)
        PROVE  RedisInv'
    <2>1. TypeOK'
      BY <1>3 DEF CheckTimesOut, Return, TypeOK, Verdict
    <2>2. (IdleInv /\ OutcomeInv /\ WireInv /\ BackInTime)'
      BY <1>3 DEF CheckTimesOut, Return, TypeOK, IdleInv, OutcomeInv, WireInv, BackInTime
    <2>3. (OuterTimeoutAuthoritative /\ VerdictMatchesReply)'
      BY <1>3 DEF CheckTimesOut, Return, TypeOK, OuterTimeoutAuthoritative, VerdictMatchesReply
    <2>. QED  BY <2>1, <2>2, <2>3
  <1>4. ASSUME NEW p \in Probe, DropCheck(p)
        PROVE  RedisInv'
    <2>1. TypeOK'
      BY <1>4 DEF DropCheck, TypeOK
    <2>2. (IdleInv /\ OutcomeInv /\ WireInv /\ BackInTime)'
      BY <1>4 DEF DropCheck, TypeOK, IdleInv, OutcomeInv, WireInv, BackInTime
    <2>3. (OuterTimeoutAuthoritative /\ VerdictMatchesReply)'
      BY <1>4 DEF DropCheck, TypeOK, OuterTimeoutAuthoritative, VerdictMatchesReply
    <2>. QED  BY <2>1, <2>2, <2>3
  <1>5. ASSUME NEW p \in Probe, Connect(p)
        PROVE  RedisInv'
    <2>1. TypeOK'
      BY <1>5 DEF Connect, TypeOK, ServerMode
    <2>2. (IdleInv /\ OutcomeInv /\ WireInv /\ BackInTime)'
      BY <1>5 DEF Connect, TypeOK, ServerMode, IdleInv, OutcomeInv, WireInv, BackInTime
    <2>3. (OuterTimeoutAuthoritative /\ VerdictMatchesReply)'
      BY <1>5 DEF Connect, TypeOK, ServerMode, OuterTimeoutAuthoritative, VerdictMatchesReply
    <2>. QED  BY <2>1, <2>2, <2>3
  <1>6. ASSUME NEW p \in Probe, PeerCloses(p)
        PROVE  RedisInv'
    <2>1. TypeOK'
      BY <1>6 DEF PeerCloses, TypeOK
    <2>2. (IdleInv /\ OutcomeInv /\ WireInv /\ BackInTime)'
      BY <1>6 DEF PeerCloses, TypeOK, IdleInv, OutcomeInv, WireInv, BackInTime
    <2>3. (OuterTimeoutAuthoritative /\ VerdictMatchesReply)'
      BY <1>6 DEF PeerCloses, TypeOK, OuterTimeoutAuthoritative, VerdictMatchesReply
    <2>. QED  BY <2>1, <2>2, <2>3
  <1>7. ASSUME NEW p \in Probe, NEW result \in {"pong", "other_reply", "error"}, Reply(p, result)
        PROVE  RedisInv'
    <2>1. TypeOK'
      BY <1>7 DEF Reply, TypeOK
    <2>2. (IdleInv /\ OutcomeInv /\ WireInv /\ BackInTime)'
      BY <1>7 DEF Reply, TypeOK, IdleInv, OutcomeInv, WireInv, BackInTime
    <2>3. (OuterTimeoutAuthoritative /\ VerdictMatchesReply)'
      BY <1>7 DEF Reply, TypeOK, OuterTimeoutAuthoritative, VerdictMatchesReply
    <2>. QED  BY <2>1, <2>2, <2>3
  <1>8. ASSUME NEW p \in Probe, PingTimesOut(p)
        PROVE  RedisInv'
    <2>1. TypeOK'
      BY <1>8 DEF PingTimesOut, TypeOK
    <2>2. (IdleInv /\ OutcomeInv /\ WireInv /\ BackInTime)'
      BY <1>8 DEF PingTimesOut, TypeOK, IdleInv, OutcomeInv, WireInv, BackInTime
    <2>3. call[p] # "awaiting"
      BY <1>8 DEF PingTimesOut, Slack, TypeOK, WireInv, BackInTime
    <2>4. (OuterTimeoutAuthoritative /\ VerdictMatchesReply)'
      BY <1>8, <2>3 DEF PingTimesOut, TypeOK, OutcomeInv, OuterTimeoutAuthoritative,
         VerdictMatchesReply
    <2>. QED  BY <2>1, <2>2, <2>4
  <1>9. CASE PickUp
    <2> DEFINE q == Head(queue)
    <2>1. q = queue[1] /\ q \in Probe /\ job[q] = "queued"
      BY <1>9 DEF PickUp, TypeOK
    <2>2. job' = [job EXCEPT ![q] = "connecting"] /\ UNCHANGED <<server, runtime, async, ioTime>>
      BY <1>9 DEF PickUp
    <2>3. TypeOK'
      <3>1. queue' \in Seq(Probe) /\ Len(queue') = Len(queue) - 1
        BY <1>9 DEF PickUp, TypeOK
      <3>2. \A i \in DOMAIN queue' : i + 1 \in DOMAIN queue /\ queue'[i] = queue[i + 1]
        BY <1>9, <3>1 DEF PickUp, TypeOK
      <3>3. ASSUME NEW i \in DOMAIN queue', queue'[i] = q
            PROVE  FALSE
        <4>1. i \in Nat \ {0} /\ 1 \in DOMAIN queue
          BY <1>9, <3>1 DEF PickUp, TypeOK
        <4>2. i + 1 = 1
          BY <2>1, <3>2, <3>3, <4>1 DEF TypeOK
        <4>. QED  BY <4>1, <4>2
      <3>4. \A i \in DOMAIN queue : i = 1 \/ (i - 1 \in DOMAIN queue' /\ queue'[i - 1] = queue[i])
        BY <1>9, <3>1 DEF PickUp, TypeOK
      <3>5. \A x \in Probe \ {q} : (\E i \in DOMAIN queue : queue[i] = x)
                                     <=> (\E i \in DOMAIN queue' : queue'[i] = x)
        BY <2>1, <3>2, <3>4 DEF TypeOK
      <3>6. ASSUME NEW x \in Probe
            PROVE  job'[x] = "queued" <=> \E i \in DOMAIN queue' : queue'[i] = x
        <4>1. CASE x = q
          BY <4>1, <2>1, <2>2, <3>3 DEF TypeOK
        <4>2. CASE x # q
          <5>1. job'[x] = job[x]
            BY <4>2, <2>2 DEF TypeOK
          <5>. QED  BY <4>2, <5>1, <3>5 DEF TypeOK
        <4>. QED  BY <4>1, <4>2
      <3>7. \A i, j \in DOMAIN queue' : queue'[i] = queue'[j] => i = j
        BY <3>1, <3>2 DEF TypeOK
      <3>. QED  BY <2>1, <2>2, <3>1, <3>6, <3>7 DEF TypeOK
    <2>4. (IdleInv /\ OutcomeInv /\ WireInv /\ BackInTime)'
      BY <2>1, <2>2 DEF TypeOK, IdleInv, OutcomeInv, WireInv, BackInTime
    <2>5. (OuterTimeoutAuthoritative /\ VerdictMatchesReply)'
      BY <2>1, <2>2 DEF TypeOK, OuterTimeoutAuthoritative, VerdictMatchesReply
    <2>. QED  BY <2>3, <2>4, <2>5
  <1>10. CASE ServerChanges
    BY <1>10 DEF ServerChanges, TypeOK, IdleInv, OutcomeInv, WireInv, BackInTime,
       OuterTimeoutAuthoritative, VerdictMatchesReply
  <1>11. CASE Shutdown
    <2>1. TypeOK'
      BY <1>11 DEF Shutdown, TypeOK
    <2>2. (IdleInv /\ OutcomeInv /\ WireInv /\ BackInTime)'
      BY <1>11 DEF Shutdown, TypeOK, IdleInv, OutcomeInv, WireInv, BackInTime
    <2>3. (OuterTimeoutAuthoritative /\ VerdictMatchesReply)'
      BY <1>11 DEF Shutdown, TypeOK, OuterTimeoutAuthoritative, VerdictMatchesReply
    <2>. QED  BY <2>1, <2>2, <2>3
  <1>12. CASE ShutdownCompletes
    BY <1>12 DEF ShutdownCompletes, TypeOK, IdleInv, OutcomeInv, WireInv, BackInTime,
       OuterTimeoutAuthoritative, VerdictMatchesReply
  <1>13. CASE Tick
    <2>1. TypeOK'
      BY <1>13 DEF Tick, TypeOK
    <2>2. BackInTime'
      BY <1>13 DEF Tick, MayPass, Overdue, TypeOK, BackInTime
    <2>3. (IdleInv /\ OutcomeInv /\ WireInv)'
      BY <1>13 DEF Tick, TypeOK, IdleInv, OutcomeInv, WireInv
    <2>4. (OuterTimeoutAuthoritative /\ VerdictMatchesReply)'
      BY <1>13 DEF Tick, TypeOK, OutcomeInv, OuterTimeoutAuthoritative, VerdictMatchesReply
    <2>. QED  BY <2>1, <2>2, <2>3, <2>4
  <1>. QED
    BY <1>0, <1>1, <1>2, <1>3, <1>4, <1>5, <1>6, <1>7, <1>8, <1>9, <1>10, <1>11, <1>12, <1>13
    DEF Next, Step

\* RedisInv is an invariant of every execution.
THEOREM Safe == Spec => []RedisInv
  BY InitInv, NextInv, PTL DEF Spec

\* Every variable keeps its type, and the queue is that of the queued tasks.
THEOREM TypeCorrect == Spec => []TypeOK
  <1>1. RedisInv => TypeOK
    BY DEF RedisInv
  <1>. QED  BY <1>1, Safe, PTL

\* The socket timeouts of `ping` never end a task whose probe still waits.
THEOREM OuterTimeoutWins == Spec => []OuterTimeoutAuthoritative
  <1>1. RedisInv => OuterTimeoutAuthoritative
    BY DEF RedisInv
  <1>. QED  BY <1>1, Safe, PTL

\* A verdict is that of the task's reply and of the probe's whole latency.
THEOREM VerdictSound == Spec => []VerdictMatchesReply
  <1>1. RedisInv => VerdictMatchesReply
    BY DEF RedisInv
  <1>. QED  BY <1>1, Safe, PTL

-----------------------------------------------------------------------------
(***************************************************************************)
(* The check implements TimedCheck: the blocking side stutters.            *)
(***************************************************************************)
\* A call that ends takes the contract's call from running to over.
LEMMA StageOver ==
  ASSUME NEW p \in Probe, TypeOK, call[p] = "awaiting", NEW end \in {"returned", "dropped"},
         call' = [call EXCEPT ![p] = end]
  PROVE  p \in Contract!Running /\ Stage' = [Stage EXCEPT ![p] = "over"]
  BY DEF Stage, TypeOK, Contract!Running

\* What leaves the async side alone is none of the contract's steps.
LEMMA AsyncStays == UNCHANGED async => UNCHANGED Contract!vars
  BY DEF async, Stage, Contract!vars

\* The initial states map to the contract's.
LEMMA InitMaps == Init => Contract!Init
  BY DEF Init, Contract!Init, Stage

\* Every step of a probe maps to a step of the contract, or to none.
LEMMA StepMaps ==
  ASSUME RedisInv, NEW p \in Probe, Step(p)
  PROVE  Contract!Next \/ UNCHANGED Contract!vars
  <1> USE DEF RedisInv
  <1>1. CASE StartCheck(p)
    <2>1. Stage[p] = "idle" /\ Stage' = [Stage EXCEPT ![p] = "running"]
      BY <1>1 DEF StartCheck, Stage, TypeOK
    <2>2. Contract!Begin(p)
      BY <1>1, <2>1 DEF StartCheck, Contract!Begin
    <2>. QED  BY <2>2 DEF Contract!Next
  <1>2. CASE CheckReturns(p)
    <2>1. p \in Contract!Running /\ Stage[p] = "running" /\ Stage' = [Stage EXCEPT ![p] = "over"]
      BY <1>2, StageOver DEF CheckReturns, Return, Contract!Running
    <2>2. /\ outcome' = [outcome EXCEPT ![p] = Matched(job[p], elapsed[p])]
          /\ job[p] \in Finished /\ elapsed' = elapsed
      BY <1>2 DEF CheckReturns, Return
    <2>3. CASE job[p] = "pong"
      <3>1. Matched(job[p], elapsed[p]) = IF elapsed[p] > WarnAbove THEN "degraded" ELSE "healthy"
        BY <2>3, RedisAssumption DEF Matched, TypeOK
      <3>2. Contract!Succeed(p)
        BY <2>1, <2>2, <3>1 DEF Contract!Succeed, Contract!End
      <3>. QED  BY <3>2 DEF Contract!Next
    <2>4. CASE job[p] # "pong"
      <3>1. Matched(job[p], elapsed[p]) \in {"unavailable", "task_failed"}
        BY <2>4 DEF Matched
      <3>2. Contract!Fail(p)
        BY <2>1, <2>2, <3>1 DEF Contract!Fail, Contract!End
      <3>. QED  BY <3>2 DEF Contract!Next
    <2>. QED  BY <2>3, <2>4
  <1>3. CASE CheckTimesOut(p)
    <2>1. p \in Contract!Running /\ Stage' = [Stage EXCEPT ![p] = "over"]
      BY <1>3, StageOver DEF CheckTimesOut, Return
    <2>2. elapsed[p] >= Timeout
      BY <1>3, RedisAssumption DEF CheckTimesOut, Overdue
    <2>3. Contract!TimeOut(p)
      BY <1>3, <2>1, <2>2 DEF CheckTimesOut, Return, Contract!TimeOut, Contract!End
    <2>. QED  BY <2>3 DEF Contract!Next
  <1>4. CASE DropCheck(p)
    <2>1. {p} \subseteq Contract!Running /\ Stage' = [Stage EXCEPT ![p] = "over"]
      BY <1>4, StageOver DEF DropCheck
    <2>2. Stage' = [q \in Probe |-> IF q \in {p} THEN "over" ELSE Stage[q]]
      BY <2>1 DEF Stage
    <2>3. Contract!Drop({p})
      BY <1>4, <2>2 DEF DropCheck, Contract!Drop
    <2>. QED  BY <2>1, <2>3 DEF Contract!Next
  <1>5. CASE \/ Connect(p)
             \/ PeerCloses(p)
             \/ \E result \in {"pong", "other_reply", "error"} : Reply(p, result)
             \/ PingTimesOut(p)
    BY <1>5, AsyncStays DEF Connect, PeerCloses, Reply, PingTimesOut
  <1>. QED  BY <1>1, <1>2, <1>3, <1>4, <1>5 DEF Step

\* A runtime that stops drops every call that runs.
LEMMA ShutdownMaps == RedisInv /\ Shutdown => Contract!Next
  <1> SUFFICES ASSUME RedisInv, Shutdown PROVE Contract!Next
    OBVIOUS
  <1>1. Stage' = [p \in Probe |-> IF p \in Contract!Running THEN "over" ELSE Stage[p]]
    BY DEF Shutdown, Stage, Contract!Running, RedisInv, TypeOK
  <1>2. Contract!Drop(Contract!Running)
    BY <1>1 DEF Shutdown, Contract!Drop
  <1>. QED  BY <1>2 DEF Contract!Next

\* The clock of the calls is the contract's, also while only PINGs run.
LEMMA TickMaps == RedisInv /\ Tick => Contract!Tick
  <1> SUFFICES ASSUME RedisInv, Tick PROVE Contract!Tick
    OBVIOUS
  <1>1. \A p \in Probe : p \in Contract!Running <=> call[p] = "awaiting"
    BY DEF Contract!Running, Stage, RedisInv, TypeOK
  <1>2. \A p \in Contract!Running : elapsed[p] < Timeout + Lag
    BY <1>1, RedisAssumption DEF Tick, MayPass, Overdue, RedisInv, TypeOK, Contract!Running
  <1>3. elapsed' = [p \in Probe |-> IF p \in Contract!Running THEN elapsed[p] + 1 ELSE elapsed[p]]
    BY <1>1 DEF Tick
  <1>4. Stage' = Stage
    BY DEF Tick, Stage
  <1>. QED  BY <1>2, <1>3, <1>4 DEF Tick, Contract!Tick

\* RedisCheck keeps the promise of a check with a timeout, for any number of
\* calls and threads, although its threads may outlive every call.
THEOREM Promise == Spec => ImplementsCheck
  <1>1. RedisInv /\ [Next]_vars => [Contract!Next]_(Contract!vars)
    <2>1. RedisInv /\ Tick => Contract!Next
      BY TickMaps DEF Contract!Next
    <2>2. PickUp \/ ServerChanges \/ ShutdownCompletes \/ UNCHANGED vars => UNCHANGED Contract!vars
      BY AsyncStays DEF PickUp, ServerChanges, ShutdownCompletes, vars
    <2>. QED  BY <2>1, <2>2, StepMaps, ShutdownMaps DEF Next
  <1>. QED  BY <1>1, InitMaps, Safe, PTL DEF Spec, ImplementsCheck, Contract!Spec

=============================================================================
