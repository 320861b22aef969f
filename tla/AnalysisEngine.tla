---------------------------- MODULE AnalysisEngine ----------------------------
(***************************************************************************)
(* What an analysis run makes of a provider's responses: the two providers *)
(* (internal/metrics), the threshold test, and the sums that the loop of   *)
(* Evaluate (internal/analysis/engine.go) takes over the metrics.          *)
(*                                                                         *)
(* A metric value is a float64: a number, a NaN or an infinity.  An        *)
(* optional bound of a threshold is a set with one number or none.  A      *)
(* response stands for what the provider's parser tells apart in it.       *)
(***************************************************************************)
EXTENDS Decide

Floats == [kind: {"number", "nan", "+inf", "-inf"}, n: Int]

Number(n) == [kind |-> "number", n |-> n]
NaN == [kind |-> "nan", n |-> 0]
PlusInf == [kind |-> "+inf", n |-> 0]

\* What stands where a value should, and is none: a JSON null, a tuple of the
\* wrong length, a string that is not a number.
NoValue == [kind |-> "none", n |-> 0]

Thresholds == [min: SUBSET Int, max: SUBSET Int]

-----------------------------------------------------------------------------
(* The providers                                                           *)

\* Prometheus answers with a vector, Dynatrace with the points of a series;
\* both are sequences of values here.  data is empty, too, for a Dynatrace
\* response without a result or without a series.
Responses == [answered: BOOLEAN, code: Nat, wellFormed: BOOLEAN,
              data: Seq(Floats \cup {NoValue})]

\* The classes of internal/errors: one asks for another pass in a while, the
\* other goes to the work queue as an error.
Retryable == [kind |-> "retryable", n |-> 0]
Permanent == [kind |-> "permanent", n |-> 0]

\* Prometheus: the first sample of the vector, if the status is success.
PrometheusValue(r) ==
    IF ~r.wellFormed \/ r.data = <<>> THEN Permanent
    ELSE IF r.data[1] = NoValue THEN Permanent
    ELSE r.data[1]

\* Dynatrace: the last point of the series that is not null.
DynatraceValue(r) ==
    LET known == {i \in DOMAIN r.data : r.data[i] # NoValue}
    IN  IF ~r.wellFormed \/ known = {} THEN Permanent
        ELSE r.data[CHOOSE i \in known : \A j \in known : j <= i]

PrometheusQuery(r) ==
    IF r.answered /\ r.code = 200 THEN PrometheusValue(r) ELSE Retryable

\* A refused token is not worth another try.
DynatraceQuery(r) ==
    IF r.answered /\ r.code = 200 THEN DynatraceValue(r)
    ELSE IF r.answered /\ r.code \in {401, 403} THEN Permanent
    ELSE Retryable

\* The manager has one provider for all Canaries.
Query(provider, r) ==
    IF provider = "dynatrace" THEN DynatraceQuery(r) ELSE PrometheusQuery(r)

-----------------------------------------------------------------------------
(* The loop of Evaluate                                                    *)

\* The comparisons of IEEE 754: a NaN is neither below nor above a number.
Below(v, n) == v.kind = "-inf" \/ (v.kind = "number" /\ v.n < n)
Above(v, n) == v.kind = "+inf" \/ (v.kind = "number" /\ v.n > n)

withinThreshold(v, t) ==
    /\ \A n \in t.min : ~Below(v, n)
    /\ \A n \in t.max : ~Above(v, n)

\* What the loop has so far: metrics done, those that missed their threshold,
\* and whether the report can still be encoded.
NoChecks == [done |-> 0, failedThisRun |-> 0, encodable |-> TRUE]

\* One turn of the loop, with the value of the next metric.
Checked(checks, metrics, v) ==
    LET passed == withinThreshold(v, metrics[checks.done + 1])
    IN  [done          |-> checks.done + 1,
         failedThisRun |-> checks.failedThisRun + (IF passed THEN 0 ELSE 1),
         encodable     |-> checks.encodable /\ v.kind = "number"]

\* (Mutants: a run fails once for every check that failed; a failed run is not
\* counted; it is counted down.)
SummedPerMetric(status, checks) ==
    [ran       |-> TRUE,
     passed    |-> checks.failedThisRun = 0,
     failed    |-> IF checks.failedThisRun = 0 THEN 0
                   ELSE status.failed + checks.failedThisRun,
     encodable |-> checks.encodable]
SummedUncounted(status, checks) ==
    [ran       |-> TRUE,
     passed    |-> checks.failedThisRun = 0,
     failed    |-> IF checks.failedThisRun = 0 THEN 0 ELSE status.failed,
     encodable |-> checks.encodable]
SummedCountedDown(status, checks) ==
    [ran       |-> TRUE,
     passed    |-> checks.failedThisRun = 0,
     failed    |-> IF checks.failedThisRun = 0 THEN 0 ELSE status.failed - 1,
     encodable |-> checks.encodable]

\* The Result after the loop: a run fails once, however many checks failed.
Summed(status, checks) ==
    [ran       |-> TRUE,
     passed    |-> checks.failedThisRun = 0,
     failed    |-> IF checks.failedThisRun = 0 THEN 0 ELSE status.failed + 1,
     encodable |-> checks.encodable]
=============================================================================
