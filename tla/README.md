# Kanary in TLA+

Kanary (`github.com/adrianbp/kanary-dev`) is a Kubernetes operator for canary
rollouts: a `Canary` resource names a Deployment, a plan of weights, and a
traffic provider, and a controller takes the share of the traffic that goes to
a copy of the Deployment through the plan, on a user's word (`Manual`) or on
the word of a metrics provider (`Progressive`).

This directory holds TLA+ modules that model the operator, the TLC
configurations that check them on small instances, and theorems about them with
proofs that TLAPS checks. `PROJECT.json` maps each definition to the lines of
the source it is translated from.

## 1. The system

| Component | State it keeps | Operations |
|---|---|---|
| Canary API types (`api/v1alpha1/canary_types.go`) | the Canary object: annotations, strategy, generation, status | merge patch of annotations, merge patch of the status subresource |
| Canary reconciler (`internal/controller`) | none of its own between passes: all of it is in the Canary's status | `Reconcile`: read, analyse, decide, write traffic, workload, annotations, status; `requeueFor`, `requeueOnRetryable` |
| Analysis engine (`internal/analysis`) | none; the count of consecutive failures is in the status | `Evaluate`, `ShouldRollback` |
| Workload reconciler (`internal/workload`) | canary Deployment, canary and stable Service | `EnsureCanaryDeployment`, `EnsureServices`, `CleanupCanary` |
| Traffic routers (`internal/traffic`) | the OpenShift Route's weights; the nginx sibling Ingress | `Reconcile`, `Reset`, `Status`; a factory filled at start-up |
| Metric providers (`internal/metrics`) | none | one HTTP query per metric |
| Telemetry (`internal/telemetry`) | Prometheus gauges and counters | `SetPhase`, `SetWeight`, counters, `DeleteCanary` |
| Webhook (`api/v1alpha1/canary_webhook.go`) | none | `Default`, validation on create and update |
| Error classification, manager wiring, Helm chart | flags | retryable or permanent; caches, watches, leader election |

**How they interact.** The work queue hands a Canary to one pass at a time. The
pass reads the Canary and its target from informer caches; in `Analyzing` it
asks the engine, which asks a metric provider; `decide` turns annotations,
strategy, status, target revision and result into a decision; then the pass
calls the router, the workload reconciler and the API server, one call after
the other. The user changes the same Canary by annotating or editing it, the
pipeline changes the target, and the owner of the Route or Ingress goes on
editing it. There is no shared memory: everything meets in the API server.

**What is hard.** A pass is some ten API calls, none of them a transaction.
It can fail or die between any two, and everything it read is stale by the time
it writes. Commands are annotations that are consumed by one patch and take
effect by another. Reads come from caches that lag. Writes are refused on
conflict, or carried out with the answer lost. Rollouts end and begin again
on the same status, and the strategy can be edited in the middle of one.

**What makes each component correct.**

- *Reconciler and workload*: nothing of a canary is left over once the status
  says there is nothing to roll out; the status describes one point of one
  rollout; traffic is never ahead of it by more than a step; a promote moves the
  rollout once; an abort is never lost, and leads to a rollback; rollouts end.
- *Engine*: a rollout is rolled back for its own consecutive failures, at the
  configured number.
- *Routers*: no edit of the user is lost; a `Reset` that returned stays in force;
  the share goes in one step to what was asked; with the user at rest it gets
  there.
- *Engine and providers*: whatever a provider answers, a run of the analysis passes,
  fails once, or is an error as a whole.
- *Workload*: nothing of the user's is written but what carries Kanary's names;
  nothing of Kanary's outlives the rollout, or the Canary; the workload a step needs
  comes about again after every interference.
- *Webhook*: what it admits, the reconciler can carry out. *Telemetry*: never two
  phases of a Canary at once, and between passes the one in its status.

The hazards this adds up to are listed, each at its line, under `hazards` in
`PROJECT.json`.

## 2. The modules

| Module | Models | Checked as |
|---|---|---|
| `CanaryApi` | the Canary and what the API server and the client do to it | used by the next |
| `Decide` | `Evaluate`, `ShouldRollback`, `decide`, `updateStatus` as operators | used by the next |
| `CanaryReconciler` | a pass, call by call; user and pipeline; passes cut short | `MCCanaryReconciler` |
| `RolloutLifecycle` | abstract: the life of a rollout as readers of the status know it | refined by `CanaryReconciler` |
| `AnalysisEngine` | both metric providers, thresholds, the loop of `Evaluate` as operators | used by the next |
| `MonitoredReconciler` | a pass in more detail: the analysis metric by metric, gauges and counters, and the process that holds them | `MCMonitoredReconciler`; refines `CanaryReconciler` |
| `Admission` | CRD defaults and schema, the webhook | `MCCanaryReconciler`, `StaleReconciler` |
| `StaleReconciler` | `CanaryReconciler` with reads from lagging caches, a target that is deleted and created again, and the webhook's look at it | `MCStaleReconciler` |
| `WorkloadObjects` | the Deployment and the Services with labels, ports and owners; the user and the garbage collector | `MCWorkloadObjects` |
| `DocumentedClaims` | what comments and SPEC.md say that the code does not do | `MCCanaryReconciler` |
| `TrafficContract` | abstract: what the reconciler takes a router to be | refined by the next two |
| `OpenShiftRoute` | the Route router, its conflicts and lost answers, and the Route's owner | `MCOpenShiftRoute` |
| `NginxRouter` | the Ingress router, with caches | itself |
| `ReconcilerProofs` | theorems: types, what is left of a canary, promotes, aborts | TLAPS |
| `LifecycleProofs` | theorems: the status, the cluster next to it, `RolloutLifecycle` | TLAPS |
| `BoundsProofs` | theorems: admitted plans, the rise of the traffic, failures in a row | TLAPS |
| `MonitorProofs` | theorems about `MonitoredReconciler` | TLAPS |
| `StaleProofs` | theorems about `StaleReconciler` | TLAPS |
| `WorkloadProofs` | theorems about `WorkloadObjects` | TLAPS |
| `OpenShiftProofs`, `NginxProofs` | theorems about the routers | TLAPS |

### State and actions against the code

`CanaryReconciler.api` is the object on the API server, `obj` the pass's pointer
to its copy, `seen` the string `observedRev`, `result` and `verdict` the values
`analysisResult` and `decision`/`newPhase`/`weight`, `pc` the next API call.
`traffic`, `deployment` and `services` are what the calls act on. A pass is

    Begin -> [Analyse] -> ResetTraffic -> DeleteDeployment -> DeleteService
                        | RouteTraffic -> EnsureDeployment -> EnsureStable -> EnsureCanary
                        | (neither)
          -> [ClearCommands] -> Persist

with one action per API call, in the order of `Reconcile`. `PassFails` ends it
before any of them, which stands for an error of the call, and for the end of the
process: the code keeps nothing in memory that a later pass would miss.
`ClearCommands` ends with the refresh of the copy from the response of the patch,
which brings in a status or a spec written meanwhile; `Persist` computes
`updateStatus` on that copy and sends the difference only, as `MergeFrom` does.

Three things are history, read by no guard: `promotes`, `forwards`, `streak`.

`MonitoredReconciler` splits two of these steps. `Check` and `CheckFails` are one turn
of the loop in `Evaluate` each, with a provider's response; `Conclude` is what
`Analyse` was. `DeleteServiceAndCount`, `CountEnd` are the end of `CleanupCanary` and the
counter after it; `ZeroPhases`, `ShowPhase`, `PersistShown` are `SetPhase`, in two steps
with a scrape possible in between, the weight's gauge, and the patch. `Restart` ends the
process in the middle of a pass, with its gauges and counters. That it all
implements `CanaryReconciler` is checked (`ImplementsReconciler`): the one reading
`Decide` takes stands for any number of metrics.

`WorkloadObjects` splits the workload's steps: `Get(n)` and `Write(n)` for each object,
`Leave` for a stable Service without the label, `Refused` for a write the API server
does not take (not the version read, already there, immutable selector, a targetPort that
is no port), `Panic` for the nil map of `buildCanaryDeployment`. `targetPort` converts a
text as workload.go:298 does; what the API server makes of the result is `Defaulted` and
`IsServicePort`, and `Forwards` says, apart from both, which port the Canary means.
`ask` stands for the rest of the reconciler: it
asks for the workload, for the clean-up, or for nothing.

`Admission` is what stands between the user and `CanaryReconciler`'s `Strategies`:
in run `edits` they are the admitted ones of eleven requests (`Admitted`), one for each
rule that refuses. `StaleReconciler` uses its `TargetAdmits`: the webhook runs on the
pass's own patch of the annotations too, and refuses it once the target is gone
(`ClearRefused`); not on that of the status, which is a subresource it is not registered
for.

`RouteTraffic` and `ResetTraffic` are one step each, although a router makes
several calls. `TrafficContract` is the licence for it: the share moves in one
step from the old value to the one asked for, and both routers are shown to
implement that, so that a router call that fails half-way is either
`PassFails` before the step, or `PassFails` after it.

Details of the API machinery the models rest on: a JSON merge patch of a field
that did not change is not sent; every status field is `omitempty`, so a value
the server holds as zero survives in memory; the client of controller-runtime
0.19 reads unstructured objects (the Route) from the server and typed ones
(Canary, Deployment, Ingress) from the cache; an update that changes nothing
makes no new version; `controllerutil.CreateOrUpdate` compares before it writes.

### What is abstracted

Names, namespaces, events, logs, conditions and
messages are left out. A revision is a number, the target's
`deployment.kubernetes.io/revision` (a `gen-N` before that annotation is there is one
more value, and to the controller a push). In `CanaryReconciler` an analysis is one
reading for all its metrics: in range, out of range, an infinity, a NaN, or an error; in
`AnalysisEngine` a response is its status code, whether it parses, and its values. A
pod template is its labels, in `WorkloadObjects`, and its revision elsewhere. A targetPort
there is empty, a number (by the halves that an `int32` keeps and drops), a port name,
or another text; that a Deployment may have a name the API server does not take for a
Service is left out with the names. A strategy is
its mode, weights, `maxFailedChecks`, and whether analysis is on. Time is left out:
`RequeueAfter` only says that another pass follows. Weights are 1..100, as the
webhook demands (the CRD itself admits 0).

## 3. The runs

Passing runs:

| Run | What it shows | Bounds |
|---|---|---|
| `failures` | `NoLeak`, `StatusCoherent`, `TrafficWithinReach`, `PromotesPaidFor`, `AtRest`, `FailuresBounded`, `AbortOnlyByRollback`, `GaugeTellsStatus`, `EndsAreCounted`, the inductive invariants `LeakInv`, `PromoteAccount`, `AbortHeld`, and the refinements `KeepsLifecycle` and `ImplementsReconciler` | Manual plans of one and three steps, a Progressive one of two, three revisions, one promote, aborts and pauses at will, two metrics, both providers, ten responses, one pass or process cut short |
| `edits` | `TrafficOnlyRises` for the plans the webhook admits; liveness when the plan changes under a rollout: `OverrunEnds`, `Settles`, `FollowsTarget`, `AbortAnswered` | three plans admitted of eleven requests, one edit, three revisions, two promotes, one pass cut short, any number of provider outages and infinite readings |
| `stale` | `StableNeverReverts`, `AbortOnlyByRollback`, `AbortAnsweredLate` with lagging caches, a target that is deleted and created again, and the webhook refusing meanwhile | a two-step plan, two revisions, one promote, one deletion of the target, two passes on old copies, one cut short |
| `route` | `UserEditsSurvive`, `ResetSticks`, `SharesAreWhole`, `StatusReportsNear`, `Converges`, refinement `KeepsContract`, the inductive `RouteInv` | weights 10, 60, 100; three edits, three requests, two failures |
| `nginx` | `ResetSticks`, `Converges`, refinement `KeepsContract` | two weights, two edits, four requests, one failure |
| `objects` | `StableServiceIsKept`, `CleanedUp`; liveness: `Collected`, `Converges` | three targets (another selector, no matchLabels), three targetPorts (none, a name, `70000`), two Canaries, two interventions of the user, one pass cut short |

**Why the bounds are enough.** Three steps are the fewest with a first, a middle
and a last one, which is all `decide` tells apart; the third revision is one that is
pushed during a rollout, or starts a second rollout after the first. One cut-short pass
at any call is enough for the partial states, as the passes after it start from what
it left; the theorems below are for any number. Three targetPorts are one for each end
a write can come to: a number, a name, and a refusal; `ServedPorts` is about all others. One edit takes a rollout from each
plan to each other (shorter, and other mode). Two stale reads allow an old copy of
the Canary in one pass and of the target in another. A single promote is enough to be
counted twice; that any number is, with edits of the plan or without, is proved.
Two metrics are the fewest of which one fails and one passes, or one fails and one is
an error. In `objects`, two interventions allow one between the read and the write of a
pass and another to prepare for it; the second Canary meets what the first one left. In the routers, a request after
a `Reset` whose answer was lost, with an edit between any two calls, needs three
requests and two failures.

**Fairness.** `FairSpec` has weak fairness on "a pass begins or makes its next
call": every return of `Reconcile` asks for another pass (`requeueFor`, or an error the
queue retries; `requeueOnRetryable`), and a call returns. The provider is an
environment the code does not control: it may fail, or answer with an infinity, time
and again, and strong fairness says only that it does not do so for ever. The user, the pipeline and
failures are not fair, and failures are bounded in number, not in time. With caches,
the watches are fair as well (`SyncCanary`, `SyncTarget`). A pause stops the
reconciler by design: the runs that check liveness have none. For the routers,
fairness is that of the caller, which repeats its request (`Again`): that holds for
`Reconcile` in `Progressing` and `AwaitingPromotion`, which reconcile at every pass,
and for a `Reset` until one succeeds.

`WorkloadObjects` takes passes to follow one another, and the garbage collector to
come round.

`route`, `nginx` and `objects` are checked with `CHECK_DEADLOCK FALSE`: after the last
request allowed by the bound, and a `Reset` that succeeded, a router has nothing to do;
nor has the workload reconciler after the last Canary is deleted and collected.

Each property has a mutant of the code's definitions (named in comments that begin
"Mutant") that TLC finds to violate it.

## 4. What the code does otherwise

Each of these has a run that finds a behaviour against a comment or document:

- `claim_abort_wiped`: the patch that clears a promote sets the annotations to null
  when there is no other annotation, and so removes an abort set meanwhile.
- `claim_abort_crash`: the abort is removed by one patch and `RolledBack` written by
  another; a pass that ends between them leaves no trace of the abort, and the
  next one goes on with the rollout that was under way.
- `claim_analyzed_step`: a rollout enters its first step in `Analyzing`, which routes
  nothing: the canary is judged on metrics without traffic or workload.
- `claim_own_failures`: `failedChecks` outlives its rollout; the next one may be
  rolled back at its first analysis, even one that passes.
- `claim_stale_leak`: a pass on a copy from before a rollback routes traffic and
  creates the workload anew, and no later pass clears them, as `decide` finds no
  new revision.
- `claim_stable_selector`: the stable Service selects by `matchLabels` alone, which the
  canary's pods carry too, so part of the stable share reaches the canary.

These follow from the same modules, and have no run of their own:

- `ShouldRollback` compares with `>` and with the count from before this pass's
  analysis, so it takes `maxFailedChecks + 2` failed analyses to roll back, where
  canary_types.go:156 says `maxFailedChecks`. (`FailuresBounded` states what holds.)
- The patch that clears a promote queues the Canary; a pass on the cached copy from
  before it takes a second step on the same promote. (`PromotesPaidFor` fails in
  `StaleReconciler`, and is proved for `CanaryReconciler`, whose reads are current.)
- In `Analyzing` a pass returns on an error of the metrics provider before it decides,
  so an abort waits for the end of an outage; the comment at canary_controller.go:262
  says it "wins over everything".
- With analysis disabled, or a manager without a metrics address, a Progressive rollout
  waits in `Analyzing` until somebody promotes it (the code says so).
- A target not yet annotated has its generation for a revision; when the annotation
  comes, a rollout of the same template starts.
- A NaN or an infinity from the provider cannot be encoded into the status. A pass
  that promotes on a NaN has reset traffic and workload by then, and cannot record it;
  this repeats until another value comes.
- Traffic is routed before the workload it goes to is created (canary_controller.go:203
  and 209).
- A promotion records the revision the target runs at that pass, also one that was
  pushed after the last step and never was the canary.
- A strategy edited while a pass clears a promote is recorded as observed one pass before
  it is applied.
- A target that is deleted and created again counts its revisions from 1, and may be
  taken for the stable one, with traffic and workload of the old rollout left over.
- The Route router's `Reset` removes the alternate backends of the user as well as its
  own, where route.go:5 says "we never mutate it"; its `Status` rounds down twice
  and reports 9 after `Reconcile(10)` (`StatusReportsNear` states what holds).
- A NaN passes every threshold, and so does anything where neither `min` nor `max` is
  set; canary_types.go:173 says "At least one of Min/Max must be set", which neither
  schema nor webhook checks.
- An error of one metric hides the failures of the others in that run; the provider is
  the one the manager was started with, whatever `spec.analysis.provider.type` says.
- The phase gauges are all 0 for a moment at every pass, where telemetry/metrics.go:85
  says "exactly one label combination is 1 at any time"; a pass that fails afterwards
  leaves them ahead of the status, and repeats its counters. Checks of a pass that
  promotes or rolls back are not counted at all (canary_controller.go:231), and
  `DeleteCanary` is called by nothing.
- The webhook looks for the target on every update: once it is deleted, an abort
  is refused, and so is the patch of a pass that clears one.
- A target with `matchExpressions` alone makes the builder of the canary Deployment
  write to a nil map. A Deployment under the canary's name with another selector refuses
  every update. (Both are `Blocked` in `Converges`.)
- `spec.service.targetPort` is any text: canary_types.go:115-116 has no check, nor has the
  webhook. With `70000`, `-1` or a text that is no port name the API server refuses the
  Services Kanary writes, and the rollout stays where it is at every pass (`Blocked` as well). Of a
  number, workload.go:303 keeps the low 32 bits, where the comment says "port numbers fit
  in int32": 4294975376, which is 2^32 + 8080, is taken and traffic goes to 8080; `0`, and
  what is cut to it, gets the Service's own port. `ServedPorts` proves that these are all.
- The canary Service and Deployment are updated, and deleted, by name, also when they
  are the user's; the comment at workload.go:83 keeps "existing user-managed Services"
  from being taken over, which the code does for the stable one only. A Deployment of the
  user that was taken over has no owner, and outlives the Canary.
- The stable Service is owned by the Canary and goes with it. A Canary deleted in the
  middle of a rollout leaves its share in the Route, which nothing owns.
- `canary-enabled=false` or a pause in the middle of a rollout leaves the canary its
  share; `skip-analysis` of SPEC.md is not implemented; ADR 001:26 has the stable template
  updated at the end of a rollout, which the code does not do.

## 5. What is proved

TLAPS proves the following for every value of the constants that meets the `ASSUME`
of the module: any strategies with a step, readings, metrics, responses, annotations,
targets, ports, percentages and Routes of the user, and any bounds on failures,
promotes, pushes, edits and stale reads. What a theorem assumes beyond that is in the
last column.

**The reconciler** (`ReconcilerProofs`, `LifecycleProofs`, `BoundsProofs`)

| Theorem | Property | Rests on; assumes |
|---|---|---|
| `TypeCorrect` | `TypeOK` | `decide` and `updateStatus` return what their types say (lemmas) |
| `LeftoversBelongToARollout` | `LeakInv` | induction, with `TypeOK` |
| `NothingLeaks` | `NoLeak` | `LeakInv` |
| `OneMovePerPromote` | `PromotesPaidFor` | `PromoteAccount`; the Canary is created without a promote |
| `AbortNotLostToPromote` | `AbortOnlyByRollback` | `AbortHeld`, `LeakInv`; the Canary has an annotation that is not Kanary's |
| `PromotesAccountedFor`, `HeldAbortRollsBack` | `PromoteAccount`, `AbortHeld` | induction, with `TypeOK`, under the same two assumptions |
| `ClusterIsAsRecorded` | `AtRest` | `RestInv`, with `LeakInv` |
| `RolloutInOrder` | | `FirstPlan`: `RolloutInv` until the plan is edited |
| `StatusTellsOneStep` | `StatusCoherent` | `RolloutInv`; until the plan is edited |
| `TrafficNeverFarAhead` | `TrafficWithinReach` | `RolloutInv`; until the plan is edited |
| `StatusFollowsLifecycle` | `KeepsLifecycle` | `RolloutInv`, step by step; the plan is not edited |
| `AdmittedPlansAreSound` | | the schema and the rules of the webhook |
| `TrafficRises` | `TrafficOnlyRises` | `RiseInv`; the steps of every plan rise |
| `FailuresAreBounded` | `FailuresBounded` | `FailInv`, `PromoteAccount`; no initial promote, `maxFailed` of at least 1; until the plan is edited |

**The pass in detail, and with stale reads** (`MonitorProofs`, `StaleProofs`)

| Theorem | Property | Rests on; assumes |
|---|---|---|
| `MonitorImplementsReconciler` | `ImplementsReconciler` | the sum over the loop is one of the readings, step by step |
| `EveryEndIsCounted` | `EndsAreCounted` | `CountInv`, `ReportInv`, `LoopInv`, and `LeakInv` by the refinement |
| `GaugesAgreeWithStatus` | `GaugeTellsStatus` | `GaugeInv`, `ReportInv`, `LoopInv`, and `TypeOK` by the refinement |
| `AbortNotLostToStaleReads` | `AbortOnlyByRollback` | `CleanUpInv`, `CachedHeld`; the Canary has an annotation that is not Kanary's |
| `StableMovesOn` | `StableNeverReverts` | `RevisionsInOrder`; until the target is created again |

The three about `MonitoredReconciler` take `Readings` to be all `ReadingKinds`: which
reading the loop comes to is for the responses to say, not for a constant.

**Workload and routers** (`WorkloadProofs`, `OpenShiftProofs`, `NginxProofs`)

| Theorem | Property | Rests on |
|---|---|---|
| `WorkloadTypeCorrect` | `TypeOK`: objects keep to their kinds, for any text in `targetPort` | `WorkInv`: what `fresh` means, and that uids are counted up |
| `ServedPorts` | | cases of `targetPort`: what becomes of any text in it, exactly |
| `UserServiceIsLeftAlone` | `StableServiceIsKept` | `WorkInv` |
| `CleanupIsComplete` | `CleanedUp` | `CleanInv`, `WorkInv` |
| `CopiesAreCurrent` | `RouteInv` | induction, with `TypeOK` |
| `RouteTypeCorrect`, `NoEditLost`, `ResetIsFinal`, `NoMixedShares` | `TypeOK`, `UserEditsSurvive`, `ResetSticks`, `SharesAreWhole` | `RouteInv` |
| `StatusIsNear` | `StatusReportsNear` | arithmetic of the two roundings, for every percentage |
| `RouteImplementsContract` | `KeepsContract` | `RouteInv`, step by step |
| `NginxTypeCorrect` | `TypeOK` of `NginxRouter` | induction |
| `NoSiblingAfterReset` | `ResetSticks` of `NginxRouter` | `NginxInv` |
| `NginxImplementsContract` | `KeepsContract` of `NginxRouter` | `NginxInv`, step by step |

### The arguments

None of the invariants above is inductive by itself, for the same reason: a pass is
about to write, and one must know what of the things it read is still so.

- **What is left over.** `LeakInv` adds to `NoLeak` that the copy of the status is
  current (only a pass writes it, and there is one), that the revision read lies between the
  stable one and the target's, that a pass that writes traffic or workload read a
  rollout to be under way, and that one that ends a rollout has cleaned up what it is
  past, call by call.
- **Commands.** `PromoteAccount` says where a promote is: on the Canary, in the hands of
  the pass that cleared it, or spent; its second conjunct is that a pass advances
  without analysis only if it holds a promote. `AbortHeld` says a pass whose copy carries an
  abort is a rollback, so that the patch which removes it comes after the clean-up; the
  assumption is needed, as `claim_abort_wiped` shows.
- **The cluster.** `RestInv` adds to `AtRest` what a pass that has routed has come past
  (`WritesMade`), and that an analysis has run in a pass over an `Analyzing` Canary only
  (`AnalysisJustified`): only such a pass can be unable to encode its status, and end with
  things other than recorded and no failure counted.
- **The rollout.** `RolloutInv` says of a rollout under way that it goes from a recorded
  stable revision to a later one, and of the pass in flight that its verdict is one of the
  four things `decide` can return for the status and plan on the server (`Outcome`, in
  the shape of cases instead of the code's cascade; `MoveOnCases` and
  `DecideOutcome` derive it). `StatusCoherent`, `TrafficWithinReach` and each step of the
  lifecycle follow from it. It ends with the first edit of the plan: a pass
  that read the old plan may then write a step the new one does not have (`OverrunEnds`
  is what holds instead).
- **The rise.** Only two things are needed, and neither is an induction over the plan:
  while no pass has failed the traffic is that of the recorded step or none, and a pass
  moves on to the step after it; that neighbouring steps rise is what `validateSteps`
  says, and `AdmittedPlansAreSound` that the webhook sees to it.
- **Failures.** The count in the status is at least the failures in a row. After a failed
  analysis the rollout goes on to another one only below the limit, or with a promote;
  `FailInv` therefore carries the promote from the Canary, through the pass that has
  cleared it, to the counter of promotes, which `PromoteAccount` ties together.
- **The detailed pass.** `Check` and `CheckFails` stutter, and `Conclude` is `Analyse` with
  the reading that has the same sum (`SummedIsEvaluated`); everything about telemetry
  stutters but the last step, so that every theorem about `CanaryReconciler` holds of
  `MonitoredReconciler`. `GaugeInv` says what the gauges show at each point of a pass: what
  they showed when it began, nothing, or its verdict. `CountInv` has the surplus go up where
  a pass that has counted an end does not write it.
- **Stale reads.** `LeakInv` is false here, as copies are not current. `AbortOnlyByRollback`
  does not need it: the order of the calls alone sees to it that a pass that ends a
  rollout has cleaned up by the time it clears commands (`CleanUpInv`), and that the
  annotations in the cache hold the one that is not Kanary's is a matter of the cache
  holding copies of the Canary (`CachedHeld`). `StableNeverReverts` is a chain: what is
  recorded is not after what a pass has seen, nor that after the cache, nor that after
  the target.
- **Workload.** A Deployment on the server selects its own pods because the builder extends
  selector and template alike; a Service has a port because the server takes no
  other. `fresh` is the model of a resource version: `FreshInv` says that a write
  that is not refused has in hand what the server holds, so the label a pass
  found on the stable Service is still there. `CleanInv` says that when the
  clean-up is done no pass is left that writes in the name of the Canary; those of
  Canaries before it are told apart by their uid, which no two share.
- **Routers.** In `RouteInv` the key conjunct is that a copy of the current version is
  the current Route: it makes a conditional update of all of the Route as good as one of
  the two weights. The nginx router needs no such thing, as it owns the sibling Ingress as
  a whole; `NginxInv` says what each call is made for, so that after a `Reset` no call
  is left to be repeated that would write.

TLC checked the strengthenings as well, on the constants of the runs: those of
`LifecycleProofs` and `BoundsProofs` on `failures` (1,430,590 states) and `edits`
(396,001), of `MonitorProofs` on `failures`, of `StaleProofs` on `stale` (626,378), and
of `WorkloadProofs` on `objects` (641,000).

## 6. What is model-checked only

- Liveness (`OverrunEnds`, `Settles`, `FollowsTarget`, `AbortAnswered`,
  `AbortAnsweredLate`, `Collected`, and `Converges` in three modules): fairness is beyond
  the provers installed. Every other property of the passing runs is stated by a theorem.
- The properties of section 4's runs: they are violated, and TLC shows how.
- `StatusCoherent`, `TrafficWithinReach` and `FailuresBounded` are proved up to the
  first edit of the plan, and `KeepsLifecycle` without one: this is as far as they hold.
  `failures` checks them with constants that allow no edit.
- Sums over all of a plan, or all metrics: that a plan whose neighbouring steps rise is
  in order as a whole is an induction over data. No theorem needs it: those above are
  about neighbouring steps, and about a loop one turn at a time.

## 7. What is not modelled, and why

- HTTP and JSON of the metric providers, and their `HealthCheck` and factory, which nothing
  calls; error classification beyond its two classes (it decides the delay before the
  next pass only); the Helm chart; generated code.
- `AnalysisChecksTotal` and the histogram of durations: additions next to calls that are
  modelled.
- Two Canaries on one target or one Route, which undo each other's writes: nothing in the
  code or the documents says what they should do.
- The Deployment controller: pods, their readiness, and when it writes the revision.
- Two managers at once: leader election is off by default, and without it their passes
  would interleave. Writes of a dead process that arrive after the next began (the
  routers model an update carried out with its answer lost, before the next call).
- Users who change the weights in the Route, the sibling Ingress, or the canary's own
  objects: the reconciler repairs them in the phases that reconcile, and nobody
  looks in others.

## 8. Plan

Done: `CanaryApi`, `Decide`, `CanaryReconciler`, `RolloutLifecycle`, `StaleReconciler`,
`TrafficContract`, `OpenShiftRoute`, `NginxRouter` and the first proofs, in that
order: the state machine first, as everything else serves it, then its failures and its
stale reads, then the contract of the routers it calls. Then what the first models
had left out: `AnalysisEngine` and `MonitoredReconciler`, `Admission`, `WorkloadObjects`.

Then the proofs, from the reconciler outwards: what is left over, commands, the status and
its lifecycle, the bounds on a rollout, the detailed pass, stale reads, the workload and the
routers.

Next:

1. What does hold of the status from the first edit of the plan on: how far `stepIndex` may
   be past the end of a plan that became shorter, and for how many passes.
2. `LeakInv` with stale reads, weakened to what holds: what is left over after a stale
   pass belongs to a rollout the cache still showed.
3. The safety half of the liveness properties: that in every state of a rollout under
   way some call of the pass is enabled, or a pass may begin.
