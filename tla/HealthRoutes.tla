------------------------------ MODULE HealthRoutes ------------------------------
(***************************************************************************)
(* What the handlers of src/axum.rs make of a sweep: which checks a route  *)
(* runs and which HTTP status it answers with.                             *)
(***************************************************************************)
EXTENDS HealthTypes

Route == {"healthz", "ping", "readyz", "detailed", "startupz"}

\* Routes that answer without a sweep, and those that check readiness.
Constant == {"healthz", "ping"}
Readiness == {"readyz", "detailed"}

OK == 200
SERVICE_UNAVAILABLE == 503

is_healthy(status) == status = "healthy"

\* Mutant: the negation before degraded_fails_readiness is lost.
readiness_status_code_inverted(status, strict) ==
  IF is_healthy(status) \/ (status = "degraded" /\ strict)
  THEN OK ELSE SERVICE_UNAVAILABLE

\* `strict` is ReadinessConfig.degraded_fails_readiness.
readiness_status_code(status, strict) ==
  IF is_healthy(status) \/ (status = "degraded" /\ ~strict)
  THEN OK ELSE SERVICE_UNAVAILABLE

startup_status_code(status) ==
  IF is_healthy(status) THEN OK ELSE SERVICE_UNAVAILABLE

\* The answer of a sweeping route whose checks ended with these statuses.
sweep_status_code(route, statuses, strict) ==
  IF route = "startupz"
  THEN startup_status_code(aggregate(statuses))
  ELSE readiness_status_code(aggregate(statuses), strict)

=============================================================================
