----------------------------- MODULE PrometheusText -----------------------------
(***************************************************************************)
(* render_prometheus of src/metrics.rs: the results of a sweep, in the     *)
(* order join_all returns them, become the lines of a text exposition.  A  *)
(* line keeps its family, its labels and its value; HELP and TYPE are one  *)
(* header.  Names are sequences of the characters that escaping tells      *)
(* apart, durations and bucket bounds are milliseconds.                    *)
(***************************************************************************)
EXTENDS HealthTypes, SequencesExt

CONSTANTS
  Name,       \* names of registered checks
  Duration,   \* durations a sweep may measure
  MaxChecks   \* most results of a sweep

Char == {"backslash", "quote", "newline", "n"}

ASSUME ExpositionAssumption ==
  /\ Name \subseteq Seq(Char)
  /\ Duration \subseteq Nat
  /\ MaxChecks \in Nat

VARIABLE results  \* the results of the sweep so far

Result == [name : Name, status : HealthStatus, duration : Duration]

Init == results = <<>>

\* Another check of the sweep is resolved; names may repeat.
Resolve(result) == Len(results) < MaxChecks /\ results' = Append(results, result)

\* The next scrape.
Scrape == results # <<>> /\ results' = <<>>

Next == (\E result \in Result : Resolve(result)) \/ Scrape

Spec == Init /\ [][Next]_results

-----------------------------------------------------------------------------
LATENCY_BUCKETS == <<5, 10, 25, 50, 100, 250, 500, 1000, 2500, 5000, 10000>>

\* Mutant: an enumeration of the variants in the order of Severity.
healthiness_value_severity(status) == Severity[status]

\* In halves: 1, 0.5 and 0.
healthiness_value(status) ==
  CASE status = "healthy" -> 2 [] status = "degraded" -> 1 [] status = "unhealthy" -> 0

\* Mutant: the backslash itself is not escaped.
escaped_loose(ch) ==
  CASE ch = "quote" -> <<"backslash", "quote">>
    [] ch = "newline" -> <<"backslash", "n">>
    [] OTHER -> <<ch>>

\* Mutant: newlines go through.
escaped_broken(ch) == IF ch \in {"backslash", "quote"} THEN <<"backslash", ch>> ELSE <<ch>>

\* The match of escape_label on one character.
escaped(ch) ==
  CASE ch \in {"backslash", "quote"} -> <<"backslash", ch>>
    [] ch = "newline" -> <<"backslash", "n">>
    [] OTHER -> <<ch>>

escape_label(name) == FlattenSeq([i \in DOMAIN name |-> escaped(name[i])])

\* The le label of a line that has none, or has "+Inf".
NoBound == 0

Line(metric, check, le, value) == [metric |-> metric, check |-> check, le |-> le, value |-> value]

\* HELP and TYPE of the two families.
GaugeHeader == Line("healthiness_header", <<>>, NoBound, 0)
HistogramHeader == Line("duration_header", <<>>, NoBound, 0)

Gauge(result) ==
  Line("healthiness", escape_label(result.name), NoBound, healthiness_value(result.status))

\* Mutant: a bucket excludes its bound.
bucket_count_open(secs, bucket) == IF secs < bucket THEN 1 ELSE 0

bucket_count(secs, bucket) == IF secs <= bucket THEN 1 ELSE 0

\* The samples of one check: its buckets, +Inf, sum and count.
Histogram(result) ==
  LET name == escape_label(result.name) IN
  [k \in DOMAIN LATENCY_BUCKETS |->
     Line("bucket", name, LATENCY_BUCKETS[k], bucket_count(result.duration, LATENCY_BUCKETS[k]))]
  \o << Line("bucket", name, NoBound, 1),
        Line("sum", name, NoBound, result.duration),
        Line("count", name, NoBound, 1) >>

render_prometheus(rs) ==
  <<GaugeHeader>> \o [i \in DOMAIN rs |-> Gauge(rs[i])]
  \o <<HistogramHeader>> \o FlattenSeq([i \in DOMAIN rs |-> Histogram(rs[i])])

-----------------------------------------------------------------------------
(***************************************************************************)
(* What a scraper makes of the text.                                       *)
(***************************************************************************)
Out == render_prometheus(results)

Series(line) == <<line.metric, line.check, line.le>>

\* The label value behind an escaped one, "malformed" for what the format
\* does not allow between quotes.
Read(label) ==
  LET read[i \in 1..(Len(label) + 1)] ==
        IF i > Len(label) THEN <<>>
        ELSE IF label[i] # "backslash"
        THEN IF label[i] \in {"quote", "newline"} THEN <<"malformed">>
             ELSE <<label[i]>> \o read[i + 1]
        ELSE IF i = Len(label) \/ label[i + 1] = "newline" THEN <<"malformed">>
        ELSE <<IF label[i + 1] = "n" THEN "newline" ELSE label[i + 1]>> \o read[i + 2]
  IN read[1]

\* A scraper reads back the names that were registered, in registration
\* order, whatever characters they are made of: no name breaks a line or
\* ends its label early.
NamesReadBack ==
  \A i \in DOMAIN results : Read(Gauge(results[i]).check) = results[i].name

\* Checks of different names never share a series, so every series is there
\* once unless a name was registered twice (which the registry allows).
SeriesAreUnique ==
  (\A i, j \in DOMAIN results : results[i].name = results[j].name => i = j)
    => LET out == Out IN Cardinality({Series(out[k]) : k \in DOMAIN out}) = Len(out)

\* The worst gauge of an exposition says what /readyz says of the same
\* results: an alert on the gauge fires exactly if the aggregate is bad.
GaugesMatchAggregate ==
  LET overall == aggregate({results[i].status : i \in DOMAIN results}) IN
  /\ \A i \in DOMAIN results : Gauge(results[i]).value >= healthiness_value(overall)
  /\ results # <<>> => \E i \in DOMAIN results : Gauge(results[i]).value = healthiness_value(overall)

\* A histogram is one: bounds and counts never decrease, the last bucket is
\* the count, and a bucket counts the observation iff the sum, which is that
\* observation, does not exceed its bound.
HistogramsAreCumulative ==
  \A i \in DOMAIN results :
    LET h == Histogram(results[i])
        bounds == DOMAIN LATENCY_BUCKETS
    IN /\ \A k, l \in bounds : k < l => h[k].le < h[l].le /\ h[k].value <= h[l].value
       /\ \A k \in bounds : h[k].value = h[14].value <=> h[13].value <= h[k].le
       /\ h[12].le = NoBound /\ h[12].value = h[14].value
       /\ \A k \in bounds : h[k].value <= h[12].value

=============================================================================
