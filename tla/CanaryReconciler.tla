-------------------------- MODULE CanaryReconciler --------------------------
(***************************************************************************)
(* The control loop of internal/controller/canary_controller.go for one    *)
(* Canary, with everything a pass reads and writes: the Canary, the target *)
(* Deployment, the traffic split of the provider, and the canary workload  *)
(* of internal/workload/workload.go.                                       *)
(*                                                                         *)
(* A pass is not atomic.  It reads the Canary and the target once, decides *)
(* on what it read, and then makes its writes one API call at a time;      *)
(* between any two of them the user annotates the Canary or edits it, the  *)
(* pipeline pushes a revision, and the pass itself fails: an API call      *)
(* returns an error, or the process dies, and the writes already made      *)
(* stay.  The work queue never runs two passes of one Canary together.     *)
(*                                                                         *)
(* Here the read at the start of a pass returns what the server holds at   *)
(* that moment.  StaleReconciler lets it lag, as the informer cache does.  *)
(***************************************************************************)
EXTENDS Decide

CONSTANTS
    Strategies,         \* the values spec.strategy takes
    Readings,           \* what the metrics provider can answer
    InitialAnnotations, \* the annotations the Canary is created with
    UserAnnotations,    \* the annotations a user sets
    MaxRevision,        \* bound: revisions of the target
    MaxGeneration,      \* bound: edits of the spec, from generation 1
    MaxPromotes,        \* bound: promote annotations given
    MaxFailures         \* bound: passes cut short

ASSUME ConstantsAssumption ==
    /\ Strategies \subseteq StrategyRecords /\ Strategies # {}
    /\ \A s \in Strategies : s.steps # <<>>
    /\ Readings \subseteq ReadingKinds
    /\ InitialAnnotations \subseteq Annotations
    /\ UserAnnotations \subseteq Annotations
    /\ MaxRevision \in Nat /\ MaxGeneration \in Nat
    /\ MaxPromotes \in Nat /\ MaxFailures \in Nat

VARIABLES
    api,        \* the Canary: annotations, spec.strategy, generation, status
    target,     \* the revision of the target Deployment
    traffic,    \* percentage of traffic the provider sends to the canary
    deployment, \* revision of the canary Deployment, NoRevision without one
    services,   \* which of the two managed Services exist
    pc,         \* the call the pass makes next
    obj,        \* the pass's copy of the Canary
    seen,       \* the revision of the target as the pass read it
    result,     \* the pass's analysis result
    verdict,    \* what decide returned
    failures,   \* passes cut short so far
    promotes,   \* history: promote annotations given
    forwards,   \* history: moves forward recorded without an analysis
    streak      \* history: consecutive failed analyses of this rollout

world == <<target, traffic, deployment, services>>
pass  == <<pc, obj, seen, result, verdict>>
ghost == <<promotes, forwards, streak>>
vars  == <<api, world, pass, failures, ghost>>

CanaryObjects == [ann: SUBSET Annotations, strategy: StrategyRecords,
                  gen: Nat, status: Statuses]

Calls == {"analyse", "reset", "deleteDeployment", "deleteService", "route",
          "ensureDeployment", "ensureStable", "ensureCanary",
          "clear", "persist"}

\* What the pass's locals hold when there is no pass.
NoObject == [ann |-> {}, strategy |-> [mode |-> "Manual", steps |-> <<>>,
                                       maxFailed |-> 0, analysis |-> FALSE],
             gen |-> 0, status |-> ZeroStatus]
NoVerdict == Verdict("Hold", "", 0)

Init ==
    /\ \E s \in Strategies :
          api = [ann |-> InitialAnnotations, strategy |-> s, gen |-> 1,
                 status |-> ZeroStatus]
    /\ target = 1
    /\ traffic = 0
    /\ deployment = NoRevision
    /\ services = {}
    /\ pc = "idle"
    /\ obj = NoObject
    /\ seen = NoRevision
    /\ result = NotRun
    /\ verdict = NoVerdict
    /\ failures = 0
    /\ promotes = 0
    /\ forwards = 0
    /\ streak = 0

-----------------------------------------------------------------------------
(* The order of the calls of a pass                                        *)

\* (Mutant: an abort is cleared, a promote is forgotten.)
AfterWritesOfAbort(copy) == IF "abort" \in copy.ann THEN "clear" ELSE "persist"

\* After the writes to traffic and workload: the command annotations, if the
\* copy the pass read carries one, and the status.
AfterWrites(copy) == IF copy.ann \cap Commands # {} THEN "clear" ELSE "persist"

\* (Mutants: a promotion does not clean up; a hold does not route.)
FirstCallNoCleanup(v, copy) ==
    IF v.decision = "Rollback" THEN "reset"
    ELSE IF v.phase \in Routed THEN "route"
    ELSE AfterWrites(copy)
FirstCallNoRouting(v, copy) ==
    IF v.decision \in Settling THEN "reset"
    ELSE IF v.phase = "Progressing" THEN "route"
    ELSE AfterWrites(copy)

FirstCall(v, copy) ==
    IF v.decision \in Settling THEN "reset"
    ELSE IF v.phase \in Routed THEN "route"
    ELSE AfterWrites(copy)

\* The pass returns: its locals are gone.
Return ==
    /\ pc' = "idle"
    /\ obj' = NoObject
    /\ seen' = NoRevision
    /\ result' = NotRun
    /\ verdict' = NoVerdict

-----------------------------------------------------------------------------
(* Reconcile                                                               *)

\* A pass over the given copies of the Canary and of the target.  Without a
\* target (NoRevision) it returns at once, and so it does when suspended.
BeginOn(copy, revision) ==
    /\ pc = "idle"
    /\ copy.ann \cap Suspensions = {}
    /\ revision # NoRevision
    /\ obj' = copy
    /\ seen' = revision
    /\ result' = NotRun
    /\ IF Analyses(copy.strategy, copy.status)
       THEN pc' = "analyse" /\ verdict' = NoVerdict
       ELSE /\ verdict' = Decide(copy.ann, copy.strategy, copy.status,
                                 revision, NotRun)
            /\ pc' = FirstCall(verdict', copy)
    /\ UNCHANGED <<api, world, failures, ghost>>

Begin == BeginOn(api, target)

\* The analysis returned, and the pass decides.
Analyse(reading) ==
    /\ pc = "analyse"
    /\ reading # "error"
    /\ result' = Evaluated(obj.status, reading)
    /\ verdict' = Decide(obj.ann, obj.strategy, obj.status, seen, result')
    /\ pc' = FirstCall(verdict', obj)
    /\ UNCHANGED <<api, world, obj, seen, failures, ghost>>

\* The provider failed: the pass returns before it decides anything.
AnalysisFails ==
    /\ pc = "analyse"
    /\ "error" \in Readings
    /\ Return
    /\ UNCHANGED <<api, world, failures, ghost>>

\* Router.Reset, the first call of a rollback or a promotion.
ResetTraffic ==
    /\ pc = "reset"
    /\ traffic' = 0
    /\ pc' = "deleteDeployment"
    /\ UNCHANGED <<api, target, deployment, services, obj, seen, result,
                   verdict, failures, ghost>>

\* CleanupCanary: the canary Deployment, then the canary Service.  The stable
\* Service stays.
DeleteDeployment ==
    /\ pc = "deleteDeployment"
    /\ deployment' = NoRevision
    /\ pc' = "deleteService"
    /\ UNCHANGED <<api, target, traffic, services, obj, seen, result,
                   verdict, failures, ghost>>

DeleteService ==
    /\ pc = "deleteService"
    /\ services' = services \ {"canary"}
    /\ pc' = AfterWrites(obj)
    /\ UNCHANGED <<api, target, traffic, deployment, obj, seen, result,
                   verdict, failures, ghost>>

\* Router.Reconcile, ahead of the workload the traffic is for.
RouteTraffic ==
    /\ pc = "route"
    /\ traffic' = verdict.weight
    /\ pc' = "ensureDeployment"
    /\ UNCHANGED <<api, target, deployment, services, obj, seen, result,
                   verdict, failures, ghost>>

\* (Mutant: a canary Deployment that exists is left as it is.)
EnsureDeploymentOnce ==
    /\ pc = "ensureDeployment"
    /\ deployment' = IF deployment = NoRevision THEN seen ELSE deployment
    /\ pc' = "ensureStable"
    /\ UNCHANGED <<api, target, traffic, services, obj, seen, result,
                   verdict, failures, ghost>>

\* EnsureCanaryDeployment creates or overwrites the canary Deployment with the
\* template the pass read from the target.
EnsureDeployment ==
    /\ pc = "ensureDeployment"
    /\ deployment' = seen
    /\ pc' = "ensureStable"
    /\ UNCHANGED <<api, target, traffic, services, obj, seen, result,
                   verdict, failures, ghost>>

\* EnsureServices: the stable Service, then the canary Service.
EnsureStable ==
    /\ pc = "ensureStable"
    /\ services' = services \cup {"stable"}
    /\ pc' = "ensureCanary"
    /\ UNCHANGED <<api, target, traffic, deployment, obj, seen, result,
                   verdict, failures, ghost>>

EnsureCanary ==
    /\ pc = "ensureCanary"
    /\ services' = services \cup {"canary"}
    /\ pc' = AfterWrites(obj)
    /\ UNCHANGED <<api, target, traffic, deployment, obj, seen, result,
                   verdict, failures, ghost>>

\* The patch of the annotations, and the copy refreshed from its response.
ClearCommands ==
    /\ pc = "clear"
    /\ api' = [api EXCEPT !.ann = PatchAnnotations(api.ann, obj.ann)]
    /\ obj' = [api' EXCEPT !.status = DecodeInto(obj.status, api.status)]
    /\ pc' = "persist"
    /\ UNCHANGED <<world, seen, result, verdict, failures, ghost>>

\* updateStatus and the patch of the status, with which the pass ends.
Persist ==
    /\ pc = "persist"
    /\ result.encodable
    /\ api' = [api EXCEPT !.status =
                  MergePatch(obj.status,
                             UpdateStatus(obj.status, verdict, seen, obj.gen,
                                          result),
                             api.status)]
    /\ forwards' = IF verdict.decision \in Forward /\ ~result.ran
                   THEN forwards + 1 ELSE forwards
    /\ streak' = IF verdict.decision \in Settling THEN 0
                 ELSE IF ~result.ran THEN streak
                 ELSE IF result.passed THEN 0
                 ELSE streak + 1
    /\ Return
    /\ UNCHANGED <<world, failures, promotes>>

\* The status holds a NaN, and the patch cannot be encoded.
PersistFails ==
    /\ pc = "persist"
    /\ ~result.encodable
    /\ Return
    /\ UNCHANGED <<api, world, failures, ghost>>

\* An API call fails, or the process dies, before the pass's next call.
PassFails ==
    /\ pc # "idle"
    /\ failures < MaxFailures
    /\ failures' = failures + 1
    /\ Return
    /\ UNCHANGED <<api, world, ghost>>

Calling ==
    \/ \E r \in Readings : Analyse(r)
    \/ AnalysisFails
    \/ ResetTraffic \/ DeleteDeployment \/ DeleteService
    \/ RouteTraffic \/ EnsureDeployment \/ EnsureStable \/ EnsureCanary
    \/ ClearCommands \/ Persist \/ PersistFails

-----------------------------------------------------------------------------
(* The user and the pipeline                                               *)

\* kubectl annotate.
Annotate(a) ==
    /\ a \notin api.ann
    /\ a = "promote" => promotes < MaxPromotes
    /\ api' = [api EXCEPT !.ann = @ \cup {a}]
    /\ promotes' = IF a = "promote" THEN promotes + 1 ELSE promotes
    /\ UNCHANGED <<world, pass, failures, forwards, streak>>

\* The user lifts a suspension.
Resume(a) ==
    /\ a \in api.ann
    /\ api' = [api EXCEPT !.ann = @ \ {a}]
    /\ UNCHANGED <<world, pass, failures, ghost>>

EditStrategy(s) ==
    /\ api.gen < MaxGeneration
    /\ s # api.strategy
    /\ api' = [api EXCEPT !.strategy = s, !.gen = @ + 1]
    /\ UNCHANGED <<world, pass, failures, ghost>>

\* A new pod template: the Deployment controller counts one revision up.
Push ==
    /\ target < MaxRevision
    /\ target' = target + 1
    /\ UNCHANGED <<api, traffic, deployment, services, pass, failures, ghost>>

Environment ==
    \/ \E a \in UserAnnotations : Annotate(a)
    \/ \E a \in UserAnnotations \cap Suspensions : Resume(a)
    \/ \E s \in Strategies : EditStrategy(s)
    \/ Push

Next == Begin \/ Calling \/ PassFails \/ Environment

Spec == Init /\ [][Next]_vars

\* Every return of Reconcile asks for another pass, with RequeueAfter or by
\* an error, and a pass that makes its calls comes to its end.  The provider
\* may fail time and again, as long as it does not for ever.
FairSpec ==
    /\ Spec
    /\ WF_vars(Begin \/ Calling)
    /\ SF_vars(\E r \in Readings \ Unencodable : Analyse(r))

-----------------------------------------------------------------------------
(* Properties                                                              *)

\* Every variable holds what the code's types allow it.
TypeOK ==
    /\ api \in CanaryObjects
    /\ target \in Nat \ {0}
    /\ traffic \in 0..100
    /\ deployment \in Nat
    /\ services \subseteq {"stable", "canary"}
    /\ pc \in Calls \cup {"idle"}
    /\ obj \in CanaryObjects
    /\ seen \in Nat
    /\ result \in Results
    /\ verdict \in Verdicts
    /\ failures \in Nat /\ promotes \in Nat
    /\ forwards \in Nat /\ streak \in Nat

\* Nothing of a canary is left: router.go's "100% stable", and no workload.
Clean ==
    /\ traffic = 0
    /\ deployment = NoRevision
    /\ "canary" \notin services

\* A Canary whose recorded stable revision is the one its target runs is
\* never acted on again (decide returns "no new revision" for it), so by then
\* no traffic, Deployment or Service of a canary may be left, whichever call
\* of whichever pass failed on the way: Reset and CleanupCanary come before
\* the status that makes the rollout look finished.
NoLeak == api.status.stable = target => Clean

\* The status describes one point of the rollout: the phase, the step index
\* and the weight are those of the same step, and a rollout that is over, or
\* was never begun, is back at step 0.
StatusCoherent ==
    LET st == api.status  steps == api.strategy.steps
    IN  /\ st.step < Len(steps)
        /\ st.phase \in Routed \cup {"Analyzing"} => st.weight = steps[st.step + 1]
        /\ st.phase \in {"", "Idle", "RolledBack", "Failed"} =>
               st.step = 0 /\ st.weight = 0
        /\ st.phase = "Succeeded" =>
               st.step = 0 /\ st.weight \in {0, steps[Len(steps)]}

\* The traffic the provider sends to the canary is never further along than
\* one step from the recorded one, and never at a weight that is no step's,
\* although it is moved before the status and passes fail in between.
TrafficWithinReach ==
    LET reached == api.status.step + 1  steps == api.strategy.steps
    IN  traffic # 0 =>
           \E i \in {reached, reached + 1} \cap DOMAIN steps : traffic = steps[i]

\* One promote annotation moves the rollout forward once at most: however the
\* passes fail, none moves it again on a promote that was already used.
PromotesPaidFor == forwards <= promotes

\* When no pass has failed and none is running, what the status says of the
\* step is what the cluster does: the traffic is at its weight, and the
\* Deployment and both Services that receive it are there, at the revision
\* recorded.  (Not so in Analyzing: a promotion whose status holds a NaN has
\* cleaned up and cannot say so.)
AtRest ==
    failures = 0 /\ pc = "idle" /\ api.status.phase \in Routed =>
        /\ traffic = api.status.weight
        /\ deployment = api.status.canary
        /\ services = {"stable", "canary"}

\* An abort annotation leaves the Canary only once the traffic is back on
\* stable and the canary workload is gone, also when it arrives while a pass
\* that has not seen it is on its way to clear a promote.
AbortOnlyByRollback ==
    [][ "abort" \in api.ann /\ "abort" \notin api'.ann => Clean ]_vars

\* A rollout in force has failed maxFailedChecks + 1 analyses in a row at
\* most, and one more for every promote a user gave, which wins over the
\* rollback that is due: the count in the status, and the rollback it causes a
\* pass later, hold for the failures that happened.
FailuresBounded == streak <= api.strategy.maxFailed + 1 + promotes

\* An abort given is followed by a rollback: the phase the controller records
\* for it, with nothing of the canary left, also when the metrics provider is
\* down meanwhile and passes return before they look at it.  No pass must be
\* cut short or be unable to encode its status (see DocumentedClaims): what
\* matters is that no other pass, under way or to come, loses it.
AbortAnswered ==
    "abort" \in api.ann ~> \/ api.status.phase = "RolledBack" /\ Clean
                           \/ failures > 0
                           \/ ~result.encodable

\* A Progressive rollout comes to its end by itself: once the pushes and the
\* edits stop, the target's revision becomes the recorded stable one, by
\* promotion or by rollback, and stays so.
Settles ==
    <>[](api.strategy.mode = "Progressive" => api.status.stable = target)

\* A rollout follows its target: once the pushes and the edits stop, either it
\* is over, or the canary Deployment runs the revision of the target.
FollowsTarget == <>[](api.status.stable = target \/ deployment = target)

\* An edit that cuts the plan short behind a rollout's step does not strand
\* the rollout: unless another edit takes it back, it is rolled back, and the
\* step index is within the plan again.
OverrunEnds ==
    api.status.step >= Len(api.strategy.steps)
        ~> api.status.step < Len(api.strategy.steps)

-----------------------------------------------------------------------------
(* The lifecycle the status promises                                       *)

Lifecycle == INSTANCE RolloutLifecycle
                 WITH mode   <- api.strategy.mode,
                      steps  <- api.strategy.steps,
                      phase  <- api.status.phase,
                      step   <- api.status.step,
                      weight <- api.status.weight,
                      stable <- api.status.stable

\* As long as the strategy is not edited, the status lives the life of a
\* rollout as its readers know it: no step is skipped or visited twice, only
\* the last one leads to success, and the stable revision never goes back.
KeepsLifecycle == Lifecycle!Spec

-----------------------------------------------------------------------------
(* Invariants that are inductive: why the properties above hold            *)

Writing == {"route", "ensureDeployment", "ensureStable", "ensureCanary"}

\* What a pass in flight knows of the world is still so: nobody but a pass
\* writes the status, and the target only moves on.
PassIsCurrent ==
    pc # "idle" => /\ obj.status = api.status
                   /\ seen # NoRevision
                   /\ api.status.stable <= seen /\ seen <= target

\* A pass writes traffic or workload only in a rollout it has read to be one,
\* and one that ends a rollout has cleaned up what it is past.
WritesJustified ==
    /\ pc \in Writing => /\ verdict.decision \notin Settling
                         /\ api.status.stable \notin {NoRevision, seen}
    /\ pc \in {"deleteDeployment", "deleteService"} => traffic = 0
    /\ pc = "deleteService" => deployment = NoRevision
    /\ pc \in {"clear", "persist"} /\ verdict.decision \in Settling => Clean

\* The strengthening of NoLeak: what is left of a canary belongs to a rollout
\* from a recorded stable revision to a later one of the target.  It rests on
\* the pass's knowledge being current, and on the order of its calls.
LeakInv ==
    /\ PassIsCurrent
    /\ WritesJustified
    /\ api.status.stable <= target
    /\ ~Clean => api.status.stable \notin {NoRevision, target}

\* The strengthening of PromotesPaidFor: a promote is in one of three places,
\* on the Canary, in the hands of the pass that cleared it, or spent.
PromoteAccount ==
    LET onCanary == IF "promote" \in api.ann THEN 1 ELSE 0
        unearned == verdict.decision \in Forward /\ ~result.ran
        inPass   == IF pc = "persist" /\ unearned THEN 1 ELSE 0
    IN  /\ pc # "persist" /\ "promote" \in obj.ann => "promote" \in api.ann
        /\ pc # "persist" /\ unearned => "promote" \in obj.ann
        /\ forwards + onCanary + inPass <= promotes

\* The strengthening of AbortOnlyByRollback, for a Canary that carries some
\* annotation that is not a command: a pass that holds an abort rolls back.
AbortHeld ==
    /\ "other" \in api.ann
    /\ pc # "idle" => "other" \in obj.ann
    /\ pc \notin {"idle", "analyse", "persist"} /\ "abort" \in obj.ann =>
           verdict.decision = "Rollback"
=============================================================================
