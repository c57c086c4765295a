----------------------------- MODULE MCRedisCheck -----------------------------
(***************************************************************************)
(* Instances of RedisCheck for TLC.  Probes are interchangeable.           *)
(***************************************************************************)
EXTENDS RedisCheck, TLC

ProbeSymmetry == Permutations(Probe)

=============================================================================
