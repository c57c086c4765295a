--------------------------- MODULE MCHealthRegistry ---------------------------
(***************************************************************************)
(* Instances of HealthRegistry for TLC: the checks of the Kubernetes       *)
(* example ("migrations" stands for its init group), with one name used    *)
(* twice, and handles with and without a deadline.                         *)
(***************************************************************************)
EXTENDS HealthRegistry, TLC

\* "cache" is registered twice under one name, which the code allows.
MCGroupOf == [c \in Call |-> IF c = "migrations" THEN "init" ELSE Ungrouped]
MCNameOf == [c \in Call |-> IF c = "cache2" THEN "cache" ELSE c]
MCName == {MCNameOf[c] : c \in Call}

\* The probe named "unbounded" uses a handle with a zero deadline.
MCDeadline == [p \in Probe |-> IF p = "unbounded" THEN 0 ELSE 1]

ProbeSymmetry == Permutations(Probe)

=============================================================================
