---------------------------- MODULE MCPrometheusText ----------------------------
(***************************************************************************)
(* The instance of PrometheusText for TLC: every name of up to two         *)
(* characters, durations below, on and above a bound, and beyond the last. *)
(***************************************************************************)
EXTENDS PrometheusText

MCName == UNION {[1..m -> Char] : m \in 0..2}
MCDuration == {5, 6, 10000, 10001}

=============================================================================
