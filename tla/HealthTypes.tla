----------------------------- MODULE HealthTypes -----------------------------
(***************************************************************************)
(* The vocabulary every healthkit component shares: the statuses a check   *)
(* can report (types.rs) and the aggregate of several of them (registry.rs *)
(* and, word for word, axum.rs).                                           *)
(***************************************************************************)
EXTENDS Naturals

HealthStatus == {"healthy", "degraded", "unhealthy"}

(***************************************************************************)
(* The key that `aggregate` and `aggregate_status` hand to max_by_key.     *)
(***************************************************************************)
Severity == [healthy |-> 0, degraded |-> 1, unhealthy |-> 2]

(***************************************************************************)
(* The worst status of a set.  The code folds a slice; the key is          *)
(* injective, so order and multiplicity of the results do not matter.      *)
(***************************************************************************)
\* Mutant: the min_by_key fold the 1.0.0 changelog describes.
aggregate_min(S) ==
  IF S = {} THEN "healthy"
  ELSE CHOOSE s \in S : \A t \in S : Severity[s] <= Severity[t]

aggregate(S) ==
  IF S = {} THEN "healthy"
  ELSE CHOOSE s \in S : \A t \in S : Severity[t] <= Severity[s]

=============================================================================
