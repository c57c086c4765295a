--------------------------- MODULE HealthTypesProofs ---------------------------
(***************************************************************************)
(* What `aggregate` computes, for every set of statuses.                   *)
(***************************************************************************)
EXTENDS HealthTypes, TLAPS

\* Every non-empty set of statuses has a worst member, so the fold of
\* `aggregate` is well defined.
LEMMA WorstExists ==
  ASSUME NEW S \in SUBSET HealthStatus, S # {}
  PROVE  \E s \in S : \A t \in S : Severity[t] <= Severity[s]
<1>1. CASE "unhealthy" \in S
  <2>1. \A t \in S : Severity[t] <= Severity["unhealthy"]
    BY DEF HealthStatus, Severity
  <2> QED BY <1>1, <2>1
<1>2. CASE "unhealthy" \notin S /\ "degraded" \in S
  <2>1. \A t \in S : Severity[t] <= Severity["degraded"]
    BY <1>2 DEF HealthStatus, Severity
  <2> QED BY <1>2, <2>1
<1>3. CASE "unhealthy" \notin S /\ "degraded" \notin S
  <2>1. \A t \in S : t = "healthy"
    BY <1>3 DEF HealthStatus
  <2>2. \A s, t \in S : Severity[t] <= Severity[s]
    BY <2>1 DEF Severity
  <2> QED BY <2>2
<1> QED BY <1>1, <1>2, <1>3

\* `aggregate` returns a member of the set (healthy for the empty one) that
\* no member is worse than.
THEOREM AggregateIsWorst ==
  ASSUME NEW S \in SUBSET HealthStatus
  PROVE  /\ aggregate(S) \in S \cup {"healthy"}
         /\ S # {} => aggregate(S) \in S
         /\ \A t \in S : Severity[t] <= Severity[aggregate(S)]
<1>1. CASE S = {}
  BY <1>1 DEF aggregate
<1>2. CASE S # {}
  <2>1. \E s \in S : \A t \in S : Severity[t] <= Severity[s]
    BY <1>2, WorstExists
  <2>2. aggregate(S) = CHOOSE s \in S : \A t \in S : Severity[t] <= Severity[s]
    BY <1>2 DEF aggregate
  <2>3. aggregate(S) \in S /\ \A t \in S : Severity[t] <= Severity[aggregate(S)]
    BY <2>1, <2>2
  <2> QED BY <1>2, <2>3
<1> QED BY <1>1, <1>2

\* The reading a probe's caller relies on: unhealthy if and only if some
\* status is, healthy if and only if all are.
THEOREM AggregateVerdict ==
  ASSUME NEW S \in SUBSET HealthStatus
  PROVE  /\ aggregate(S) \in HealthStatus
         /\ aggregate(S) = "unhealthy" <=> "unhealthy" \in S
         /\ aggregate(S) = "healthy" <=> S \subseteq {"healthy"}
<1> DEFINE a == aggregate(S)
<1>1. a \in S \cup {"healthy"} /\ (S # {} => a \in S)
  BY AggregateIsWorst
<1>2. \A t \in S : Severity[t] <= Severity[a]
  BY AggregateIsWorst
<1>3. a \in HealthStatus
  BY <1>1 DEF HealthStatus
<1> HIDE DEF a
<1>4. "unhealthy" \in S => a = "unhealthy"
  BY <1>2, <1>3 DEF HealthStatus, Severity
<1>5. "degraded" \in S => a # "healthy"
  BY <1>2, <1>3 DEF HealthStatus, Severity
<1>6. a = "unhealthy" <=> "unhealthy" \in S
  BY <1>1, <1>4
<1>7. a = "healthy" <=> S \subseteq {"healthy"}
  BY <1>1, <1>4, <1>5 DEF HealthStatus
<1> QED BY <1>3, <1>6, <1>7 DEF a

=============================================================================
