----------------------------- MODULE MCK8sService -----------------------------
(***************************************************************************)
(* The instance of K8sService for TLC: database and cache, default         *)
(* ReadinessConfig.                                                        *)
(***************************************************************************)
EXTENDS K8sService

=============================================================================
