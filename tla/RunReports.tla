----------------------------- MODULE RunReports -----------------------------
(***************************************************************************)
(* What is reported of a finished run: the percentiles of                  *)
(* internal/domain/latency/percentiles.go, the metrics that                *)
(* internal/domain/session/manager.go puts together, the reports of        *)
(* internal/handlers/testing/routes.go, and the verdicts of the workbook   *)
(* that cmd/export_run_metrics writes.  Pure functions; OrderFlow applies  *)
(* them to a run.                                                          *)
(*                                                                         *)
(* Shares are kept as two counts instead of a quotient, and percentages    *)
(* compared by multiplying out, so the rounding of floats is left out.     *)
(***************************************************************************)
EXTENDS Integers, SequencesExt

\* sort.Slice, by counting: at k is the least sample that has k samples up to it.
UpTo(samples, v) == Cardinality({i \in DOMAIN samples : samples[i] <= v})
Sorted(samples) ==
    [k \in DOMAIN samples |-> Min({v \in Range(samples) : UpTo(samples, v) >= k})]

\* It is the sorting of the standard modules.
ASSUME SortedSorts ==
    \A samples \in UNION {[1..n -> 0..3] : n \in 0..4} :
        Sorted(samples) = SortSeq(samples, LAMBDA a, b : a < b)

\* Mutant: the index is rounded up.
PercentileIndexUp(n, pct) == (pct * (n - 1) + 99) \div 100

\* int(p * float64(n - 1)), for p = pct / 100.
PercentileIndex(n, pct) == (pct * (n - 1)) \div 100

PercentileMs(samples, pct) ==
    IF samples = <<>> THEN 0
    ELSE Sorted(samples)[PercentileIndex(Len(samples), pct) + 1]

\* The summary that finalizeRunLatencies stores for a stage: of its outcomes the
\* successes, and the percentiles of their latencies.
LatencySummary(success, samples) ==
    [success |-> success, p90 |-> PercentileMs(samples, 90), p95 |-> PercentileMs(samples, 95),
     p99 |-> PercentileMs(samples, 99)]

\* mergeRunLatencySummaries: the counters of the callbacks give way to the summary
\* once the run is over.
CallbackMetrics(status, counters, summary) ==
    IF status \in {"completed", "failed"} THEN summary ELSE counters

\* buildRunJourneyMetrics, for one stage.
Journey(req, cb) ==
    [sent |-> req.sent, success |-> cb.success, p90 |-> cb.p90, p95 |-> cb.p95, p99 |-> cb.p99]

\* journeyStageForReport: the percentiles of the stored events, or those of the
\* summary when there are none.
StageReport(journey, samples) ==
    [p50 |-> PercentileMs(samples, 50),
     p95 |-> IF samples = <<>> THEN journey.p95 ELSE PercentileMs(samples, 95),
     max |-> IF samples # <<>> THEN Last(Sorted(samples))
             ELSE IF journey.p99 # 0 THEN journey.p99 ELSE journey.p90]

-----------------------------------------------------------------------------
(* The workbook.                                                           *)

\* Whether the drop of a stage, in percent, is at least pct.  A stage without
\* requests counts as a drop of 100.
DropAtLeast(j, pct) == 100 * (j.sent - j.success) >= pct * j.sent
DropAtMost(j, pct) == j.sent > 0 /\ 100 * (j.sent - j.success) <= pct * j.sent
NoDrop(j) == j.sent > 0 /\ j.sent = j.success

\* Mutant: the tolerance is a share of the expected drop.
DropCheckTight(j, injected) ==
    IF ~injected THEN IF NoDrop(j) THEN "OK" ELSE "Unexpected drop"
    ELSE IF DropAtLeast(j, 10) /\ DropAtMost(j, 10) THEN "OK"
    ELSE IF DropAtLeast(j, 10) THEN "Higher than expected" ELSE "Lower than expected"

\* dropCheck: ten percent, give or take two, when errors are injected.
DropCheck(j, injected) ==
    IF ~injected THEN IF NoDrop(j) THEN "OK" ELSE "Unexpected drop"
    ELSE IF DropAtLeast(j, 8) /\ DropAtMost(j, 12) THEN "OK"
    ELSE IF DropAtLeast(j, 8) THEN "Higher than expected" ELSE "Lower than expected"

\* buildObservation, over the stages select, init and confirm.
Observation(js, injected) ==
    CASE ~injected /\ \A s \in 1..3 : NoDrop(js[s]) -> "Baseline clean"
      [] ~injected /\ \E s \in 1..3 : ~NoDrop(js[s]) -> "Baseline has drops"
      [] injected /\ DropAtLeast(js[1], 8) /\ \E s \in 2..3 : ~DropAtLeast(js[s], 2) -> "Anomaly"
      [] injected /\ \A s \in 1..3 : DropAtLeast(js[s], 8) -> "Drop propagated"
      [] OTHER -> "Inconsistent"

BehaviorRow(js, injected) ==
    [checks |-> [s \in 1..3 |-> DropCheck(js[s], injected)],
     observation |-> Observation(js, injected)]
=============================================================================
