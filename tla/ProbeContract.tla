----------------------------- MODULE ProbeContract -----------------------------
(***************************************************************************)
(* What a health registry promises to the code that registers checks and   *)
(* to the code that probes it, without snapshots, result slots, timers or  *)
(* a blocking pool: registrations form one growing log, and a probe's      *)
(* answer gives one status to every check due in some prefix of that log,  *)
(* a prefix the log had at a moment between the probe's begin and its end. *)
(***************************************************************************)
EXTENDS HealthTypes, Sequences

CONSTANTS Call, Probe, Group, RegistryWide, GroupOf

VARIABLES
  log,       \* the registered checks, in registration order
  standing,  \* standing[c]: what the registering caller knows
  progress,  \* progress[p]: idle, running, answered or failed
  scope,     \* scope[p]: RegistryWide or the group asked for
  floor,     \* floor[p]: length of the log when p began
  report,    \* report[p]: position in the log -> status, once answered
  overall    \* overall[p]: the aggregate of the report

vars == <<log, standing, progress, scope, floor, report, overall>>

NoReport == [i \in {} |-> "healthy"]

Init ==
  /\ log = <<>>
  /\ standing = [c \in Call |-> "idle"]
  /\ progress = [p \in Probe |-> "idle"]
  /\ scope = [p \in Probe |-> RegistryWide]
  /\ floor = [p \in Probe |-> 0]
  /\ report = [p \in Probe |-> NoReport]
  /\ overall = [p \in Probe |-> "healthy"]

InLog(c) == \E i \in DOMAIN log : log[i] = c

Covered(s, n) == {i \in 1..n : s = RegistryWide \/ GroupOf[log[i]] = s}

\* A synchronous registration: logged and acknowledged in one step.
Register(c) ==
  /\ standing[c] = "idle"
  /\ log' = Append(log, c)
  /\ standing' = [standing EXCEPT ![c] = "ok"]
  /\ UNCHANGED <<progress, scope, floor, report, overall>>

\* A deferred registration moves from idle to awaiting; it is then settled
\* (confirmed only once it is logged, refused only if it is not) or dropped.
Settle(c, from, to) ==
  /\ standing[c] = from
  /\ standing' = [standing EXCEPT ![c] = to]
  /\ UNCHANGED <<log, progress, scope, floor, report, overall>>

Ask(c) == Settle(c, "idle", "awaiting")
Confirm(c) == InLog(c) /\ Settle(c, "awaiting", "ok")
Refuse(c) == ~InLog(c) /\ Settle(c, "awaiting", "shutting_down")
Withdraw(c) == Settle(c, "awaiting", "dropped")

\* A deferred registration takes effect, at most once, and never after a
\* refusal.
TakeEffect(c) ==
  /\ standing[c] \in {"awaiting", "dropped"}
  /\ ~InLog(c)
  /\ log' = Append(log, c)
  /\ UNCHANGED <<standing, progress, scope, floor, report, overall>>

Begin(p, s) ==
  /\ progress[p] = "idle"
  /\ progress' = [progress EXCEPT ![p] = "running"]
  /\ scope' = [scope EXCEPT ![p] = s]
  /\ floor' = [floor EXCEPT ![p] = Len(log)]
  /\ UNCHANGED <<log, standing, report, overall>>

\* The answer over the first n entries of the log.
AnswerFrom(p, n) ==
  /\ progress[p] = "running"
  /\ progress' = [progress EXCEPT ![p] = "answered"]
  /\ \E r \in [Covered(scope[p], n) -> HealthStatus] :
       /\ report' = [report EXCEPT ![p] = r]
       /\ overall' = [overall EXCEPT ![p] = aggregate({r[i] : i \in DOMAIN r})]
  /\ UNCHANGED <<log, standing, scope, floor>>

Answer(p) == \E n \in floor[p]..Len(log) : AnswerFrom(p, n)

\* A probe may end without an answer; it then reports nothing at all.
Fail(p) ==
  /\ progress[p] = "running"
  /\ progress' = [progress EXCEPT ![p] = "failed"]
  /\ floor' = [floor EXCEPT ![p] = 0]
  /\ UNCHANGED <<log, standing, scope, report, overall>>

Next ==
  \/ \E c \in Call :
       Register(c) \/ Ask(c) \/ TakeEffect(c) \/ Confirm(c) \/ Refuse(c) \/ Withdraw(c)
  \/ \E p \in Probe :
       (\E s \in Group \cup {RegistryWide} : Begin(p, s)) \/ Answer(p) \/ Fail(p)

Spec == Init /\ [][Next]_vars

=============================================================================
