------------------------------- MODULE TimedCheck -------------------------------
(***************************************************************************)
(* What the crate's own checks promise to whoever awaits them, without a   *)
(* pool, a thread or a server: a call that begins ends at most once, by    *)
(* its timeout plus the runtime's lag; it is a success only by the latency *)
(* of the whole call, it times out only when its time is up, and a verdict *)
(* given is final.  A call whose future is dropped gives none.             *)
(***************************************************************************)
EXTENDS Naturals

CONSTANTS
  Probe,      \* calls of check()
  Timeout,    \* the check's timeout
  WarnAbove,  \* the latency above which a success means degraded
  Lag,        \* most ticks the runtime needs to serve an expired timer
  Failure     \* the verdicts of a call that failed before its timeout

VARIABLES
  stage,    \* stage[p]: idle, running or over
  verdict,  \* verdict[p]: what the call returned, "none" if nothing
  age       \* age[p]: ticks since it began, until it is over

vars == <<stage, verdict, age>>

Init ==
  /\ stage = [p \in Probe |-> "idle"]
  /\ verdict = [p \in Probe |-> "none"]
  /\ age = [p \in Probe |-> 0]

Running == {p \in Probe : stage[p] = "running"}

Begin(p) ==
  /\ stage[p] = "idle"
  /\ stage' = [stage EXCEPT ![p] = "running"]
  /\ UNCHANGED <<verdict, age>>

End(p, v) ==
  /\ stage' = [stage EXCEPT ![p] = "over"]
  /\ verdict' = [verdict EXCEPT ![p] = v]
  /\ UNCHANGED age

Succeed(p) ==
  /\ p \in Running
  /\ End(p, IF age[p] > WarnAbove THEN "degraded" ELSE "healthy")

\* A call may fail at any time, in its first poll already.
Fail(p) ==
  /\ stage[p] \in {"idle", "running"}
  /\ \E v \in Failure : End(p, v)

TimeOut(p) ==
  /\ p \in Running
  /\ age[p] >= Timeout
  /\ End(p, "timed_out")

\* The calls in S are dropped, with a runtime all that run.
Drop(S) ==
  /\ stage' = [p \in Probe |-> IF p \in S THEN "over" ELSE stage[p]]
  /\ UNCHANGED <<verdict, age>>

Tick ==
  /\ \A p \in Running : age[p] < Timeout + Lag
  /\ age' = [p \in Probe |-> IF p \in Running THEN age[p] + 1 ELSE age[p]]
  /\ UNCHANGED <<stage, verdict>>

Next ==
  \/ \E p \in Probe : Begin(p) \/ Succeed(p) \/ Fail(p) \/ TimeOut(p)
  \/ \E S \in SUBSET Running : Drop(S)
  \/ Tick

Spec == Init /\ [][Next]_vars

=============================================================================
