---------------------------- MODULE MCMetricsCache ----------------------------
(***************************************************************************)
(* Instances of MetricsCache for TLC: one dependency, two routes.          *)
(***************************************************************************)
EXTENDS MetricsCache, TLC

\* Scrapes of the cached route are interchangeable.
ScrapeSymmetry == Permutations(Scrape \ Uncached)

=============================================================================
