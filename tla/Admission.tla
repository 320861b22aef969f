------------------------------ MODULE Admission ------------------------------
(***************************************************************************)
(* How a Canary gets past the API server: the defaults and the schema of   *)
(* its CRD (markers in api/v1alpha1/canary_types.go), and the mutating and *)
(* validating webhook (api/v1alpha1/canary_webhook.go), which the manager  *)
(* registers unless told not to.                                           *)
(*                                                                         *)
(* A request is what the user's YAML says of strategy and analysis, before *)
(* any of it is checked; fields that are not set are at Go's zero value.   *)
(***************************************************************************)
EXTENDS CanaryReconciler

Requests == [mode: {"", "Manual", "Progressive"}, steps: Seq(Int),
             maxFailed: Int, enabled: BOOLEAN, providerType: BOOLEAN,
             metrics: Nat]

\* Default, after the defaults of the CRD, which are the same.
Default(raw) ==
    [raw EXCEPT !.mode = IF @ = "" THEN "Manual" ELSE @,
                !.maxFailed = IF @ = 0 THEN 2 ELSE @]

\* The schema: it alone stands when the manager runs without webhooks.
MeetsSchema(raw) ==
    /\ raw.steps # <<>>
    /\ \A i \in DOMAIN raw.steps : raw.steps[i] \in 0..100
    /\ raw.maxFailed >= 1

\* (Mutant: steps are not compared.)
validateStepsApart(steps) ==
    /\ \A i \in DOMAIN steps : steps[i] \in 1..100
    /\ steps # <<>> => steps[Len(steps)] = 100

\* validateSteps compares each step with the one before it.
validateSteps(steps) ==
    /\ \A i \in DOMAIN steps : steps[i] \in 1..100
    /\ \A i \in DOMAIN steps : i > 1 => steps[i - 1] < steps[i]
    /\ steps # <<>> => steps[Len(steps)] = 100

validateAnalysis(raw) == raw.enabled => raw.providerType /\ raw.metrics # 0

\* validateTargetRef, on updates too.  An API error other than "not found"
\* lets the request pass.
TargetAdmits(revision, readFails) == revision # NoRevision \/ readFails

\* A request is carried out only when nothing objects.
Admits(raw) ==
    /\ MeetsSchema(Default(raw))
    /\ validateSteps(raw.steps)
    /\ validateAnalysis(raw)

\* The strategy the reconciler finds in a Canary admitted: the manager here is
\* one with a metrics address.
Stored(raw) ==
    [mode |-> Default(raw).mode, steps |-> raw.steps,
     maxFailed |-> Default(raw).maxFailed, analysis |-> raw.enabled]

\* What a set of requests lets into the API server.
Admitted(requests) == {Stored(raw) : raw \in {r \in requests : Admits(r)}}

-----------------------------------------------------------------------------
(* Properties                                                              *)

\* What the reconciler takes for granted of a plan, and neither the schema nor
\* it checks: every step asks for more than the ones before.  While the plan is
\* not edited and no pass is cut short, the share of the traffic the canary
\* receives only rises, until it is taken back as a whole.
TrafficOnlyRises ==
    [][ failures' = 0 /\ api'.gen = 1 =>
           traffic' >= traffic \/ traffic' = 0 ]_vars
=============================================================================
