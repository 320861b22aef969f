-------------------------- MODULE DocumentedClaims --------------------------
(***************************************************************************)
(* What comments and SPEC.md say of the controller that CanaryReconciler,  *)
(* which does what the code does, contradicts.  Each is checked by a run   *)
(* of its own that finds the behaviour against it.                         *)
(***************************************************************************)
EXTENDS CanaryReconciler

\* SPEC.md 4.3.2 draws "Progressing --> Analyzing: step weight applied", and
\* telemetry/metrics.go:37 calls the recorded weight "Current canary traffic
\* weight": metrics are analysed while the canary receives the step's weight.
\* The first step of a Progressive rollout is analysed before anything routes
\* to it.
AnalyzedStepIsRouted ==
    failures = 0 /\ pc = "idle" /\ api.status.phase = "Analyzing" =>
        traffic = api.status.weight

\* canary_types.go:156: "MaxFailedChecks is the number of consecutive analysis
\* failures before the reconciler aborts and rolls back".  A rollout is not
\* rolled back on fewer failures of its own: the count in the status outlives
\* the rollout it was taken in.
RollsBackOnOwnFailures ==
    [][ api.status.phase = "Analyzing" /\ api'.status.phase = "RolledBack" =>
           streak >= api.strategy.maxFailed ]_vars

\* canary_types.go:21: "AnnotationAbort triggers an immediate rollback when set
\* to "true"": an abort given to a rollout under way is followed by the phase of
\* a rollback, with nothing of the canary left.
AbortRollsBack ==
    "abort" \in api.ann /\ api.status.phase \in Routed
        ~> (api.status.phase = "RolledBack" /\ Clean)
=============================================================================
