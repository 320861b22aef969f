---------------------------- MODULE BoundsProofs ----------------------------
(***************************************************************************)
(* Theorems about how far a rollout goes before it is stopped: what the    *)
(* schema and the webhook make sure of in a plan, that with such a plan    *)
(* the share of the traffic the canary receives only rises, and that the   *)
(* failed analyses of a rollout in a row are bounded.                      *)
(***************************************************************************)
EXTENDS LifecycleProofs

-----------------------------------------------------------------------------
(* The inductive invariants                                                *)

\* A Manual rollout is never analysed, and while no pass has failed, the
\* traffic is at the recorded step until a pass routes it on.
RiseInv ==
    LET manual == api.strategy.mode = "Manual"
        st     == api.status
        routed == pc \notin {"idle", "analyse", "route"} /\ verdict.phase \in Routed
    IN  /\ manual => st.phase # "Analyzing"
        /\ manual /\ failures = 0 /\ ~routed =>
              traffic \in {0, api.strategy.steps[st.step + 1]}

\* The strengthening of FailuresBounded.  The count in the status is at least
\* the failures in a row; a failed analysis is followed by another only below
\* the limit of the plan, or with a promote, which is on the Canary or in the
\* hands of the pass that cleared it.
FailInv ==
    LET onCanary == IF "promote" \in api.ann THEN 1 ELSE 0
        failed   == pc \notin {"idle", "analyse"} /\ result.ran /\ ~result.passed
        inHand   == IF pc = "persist" /\ failed /\ verdict.decision = "Advance"
                    THEN 1 ELSE 0
        limit    == api.strategy.maxFailed
    IN  /\ streak <= api.status.failed
        /\ pc = "analyse" => obj.strategy.mode = "Progressive"
        /\ failed => /\ result.failed = api.status.failed + 1
                     /\ verdict.decision = "Hold" => api.status.failed <= limit
                     /\ verdict.decision = "Advance" /\ pc # "persist" =>
                           "promote" \in obj.ann
        /\ streak + onCanary + inHand <= limit + 1 + promotes

-----------------------------------------------------------------------------
(* Admission                                                               *)

\* What the webhook and the schema let through is what the reconciler takes
\* for granted of a plan: steps that rise, within 1..100, one at least, and a
\* limit of failed analyses of one at least.
THEOREM AdmittedPlansAreSound ==
    ASSUME NEW requests \in SUBSET Requests, NEW s \in Admitted(requests)
    PROVE  /\ s \in StrategyRecords /\ s.steps # <<>>
           /\ validateSteps(s.steps) /\ s.maxFailed >= 1
  <1>1. PICK raw \in requests : Admits(raw) /\ s = Stored(raw)
    BY DEF Admitted
  <1>2. /\ raw.mode \in {"", "Manual", "Progressive"} /\ raw.steps \in Seq(Int)
        /\ raw.maxFailed \in Int /\ raw.enabled \in BOOLEAN
    BY <1>1 DEF Requests
  <1>3. /\ Default(raw).steps = raw.steps
        /\ Default(raw).mode = IF raw.mode = "" THEN "Manual" ELSE raw.mode
        /\ Default(raw).maxFailed = IF raw.maxFailed = 0 THEN 2 ELSE raw.maxFailed
    BY <1>1 DEF Default, Requests
  <1>4. /\ s.mode = Default(raw).mode /\ s.steps = raw.steps
        /\ s.maxFailed = Default(raw).maxFailed /\ s.analysis = raw.enabled
    BY <1>1 DEF Stored
  <1>5. raw.steps # <<>> /\ Default(raw).maxFailed >= 1 /\ validateSteps(raw.steps)
    BY <1>1, <1>3 DEF Admits, MeetsSchema
  <1>6. raw.steps \in Seq(1..100)
    <2>1. raw.steps \in [1..Len(raw.steps) -> Int] /\ Len(raw.steps) \in Nat
          /\ DOMAIN raw.steps = 1..Len(raw.steps)
      BY <1>2, LenProperties
    <2>2. \A i \in 1..Len(raw.steps) : raw.steps[i] \in 1..100
      <3>1. \A i \in DOMAIN raw.steps : raw.steps[i] \in 1..100
        BY <1>5, Zenon DEF validateSteps
      <3> QED
        BY <2>1, <3>1
    <2>3. raw.steps \in [1..Len(raw.steps) -> 1..100]
      BY <2>1, <2>2
    <2> QED
      BY <2>1, <2>3, SeqDef
  <1>7. s \in StrategyRecords
    <2>1. /\ Default(raw).mode \in {"Manual", "Progressive"}
          /\ Default(raw).maxFailed \in Nat
      <3>1. Default(raw).mode \in {"Manual", "Progressive"}
        BY <1>2, <1>3
      <3>2. Default(raw).maxFailed \in Int /\ Default(raw).maxFailed >= 1
        <4>1. raw.maxFailed \in Int
          BY <1>2
        <4>2. Default(raw).maxFailed = IF raw.maxFailed = 0 THEN 2 ELSE raw.maxFailed
          BY <1>3
        <4> QED
          BY <1>5, <4>1, <4>2
      <3> QED
        BY <3>1, <3>2
    <2>2. s = [mode |-> Default(raw).mode, steps |-> raw.steps,
               maxFailed |-> Default(raw).maxFailed, analysis |-> raw.enabled]
      BY <1>1 DEF Stored
    <2> QED
      BY <1>2, <1>6, <2>1, <2>2 DEF StrategyRecords
  <1> QED
    BY <1>3, <1>4, <1>5, <1>7

-----------------------------------------------------------------------------
(* TrafficOnlyRises                                                        *)

LEMMA InitRiseInv == Init => RiseInv
  <1> SUFFICES ASSUME Init PROVE RiseInv
    OBVIOUS
  <1>1. api.status = ZeroStatus /\ traffic = 0
    BY DEF Init
  <1>2. ZeroStatus.phase = ""
    BY Zenon DEF ZeroStatus
  <1> QED
    BY <1>1, <1>2 DEF RiseInv

LEMMA PersistKeepsRiseInv ==
    ASSUME TypeOK, LeakInv, RestInv, RolloutInv, RiseInv, Persist
    PROVE  RiseInv'
  <1> DEFINE old == api.status  new == api'.status  steps == api.strategy.steps
             manual == api.strategy.mode = "Manual"
  <1>1. /\ old.step \in Nat
        /\ api'.strategy = api.strategy /\ pc' = "idle" /\ pc = "persist"
        /\ traffic' = traffic /\ failures' = failures
    BY PersistRecords DEF TypeOK, CanaryObjects, Statuses, LeakInv, Persist, Return, world
  <1>2. new.phase = verdict.phase /\ new.weight = verdict.weight
    BY PersistRecords, UpdateStatusRecords DEF LeakInv
  <1>3. verdict.phase \in Routed => traffic = new.weight
    BY <1>1, <1>2 DEF RestInv, WritesMade
  <1>4. manual /\ failures = 0 /\ verdict.phase \notin Routed =>
           traffic \in {0, steps[old.step + 1]}
    BY <1>1 DEF RiseInv
  <1> DEFINE Risen ==
        /\ manual => new.phase # "Analyzing"
        /\ manual /\ failures = 0 => traffic \in {0, steps[new.step + 1]}
  <1>5. CASE /\ new.phase = "RolledBack" /\ new.step = 0 /\ new.weight = 0
             /\ new.stable = seen /\ traffic = 0
    <2> Risen
      BY <1>5
    <2> QED
      BY <1>1 DEF RiseInv
  <1>6. CASE /\ old.phase = "" /\ old.stable = NoRevision
             /\ new.phase = "Idle" /\ new.step = 0 /\ new.weight = 0
             /\ new.stable = seen
    <2> Risen
      BY <1>6 DEF LeakInv, Clean
    <2> QED
      BY <1>1 DEF RiseInv
  <1>7. CASE /\ old.phase \in Over /\ new.phase = old.phase
             /\ new.step = 0 /\ new.weight = 0
             /\ new.stable = old.stable /\ old.stable # NoRevision
    <2>1. old.step = 0
      BY <1>7 DEF RolloutInv, RolloutStatus, StatusCoherent, Over
    <2> Risen
      BY <1>2, <1>4, <1>7, <2>1 DEF Over, Routed
    <2> QED
      BY <1>1 DEF RiseInv
  <1>8. CASE /\ old.stable # NoRevision /\ old.stable < seen
             /\ old.step + 1 = Len(steps)
             /\ new.phase = "Succeeded" /\ new.step = 0
             /\ new.weight = steps[Len(steps)]
             /\ new.stable = seen /\ traffic = 0
    <2> Risen
      BY <1>8
    <2> QED
      BY <1>1 DEF RiseInv
  <1>9. CASE /\ old.stable # NoRevision /\ old.stable < seen
             /\ old.step + 1 < Len(steps)
             /\ new.phase = "Progressing" /\ new.step = old.step + 1
             /\ new.weight = steps[old.step + 2]
             /\ new.stable = old.stable /\ traffic = new.weight
    <2>1. new.step + 1 = old.step + 2
      BY <1>1, <1>9
    <2> Risen
      BY <1>9, <2>1
    <2> QED
      BY <1>1 DEF RiseInv
  <1>10. CASE /\ old.stable # NoRevision /\ old.stable < seen
              /\ new.phase = WaitingPhase(api.strategy) /\ new.step = old.step
              /\ new.weight = steps[old.step + 1]
              /\ new.stable = old.stable
    <2>1. manual => new.phase = "AwaitingPromotion"
      BY <1>10 DEF WaitingPhase
    <2> Risen
      BY <1>2, <1>3, <1>10, <2>1 DEF Routed
    <2> QED
      BY <1>1 DEF RiseInv
  <1> QED
    BY <1>5, <1>6, <1>7, <1>8, <1>9, <1>10, PersistCases

LEMMA NextRiseInv ==
    ASSUME TypeOK, LeakInv, RestInv, RolloutInv, RiseInv, [Next]_vars,
           api'.strategy = api.strategy
    PROVE  RiseInv'
  <1>1. CASE Begin
    BY <1>1 DEF Begin, BeginOn, world, RiseInv
  <1>2. ASSUME NEW r \in Readings, Analyse(r) PROVE RiseInv'
    BY <1>2 DEF Analyse, world, RiseInv
  <1>3. CASE AnalysisFails
    BY <1>3 DEF AnalysisFails, Return, world, RiseInv
  <1>4. CASE ResetTraffic
    BY <1>4 DEF ResetTraffic, RiseInv
  <1>5. CASE DeleteDeployment \/ DeleteService \/ EnsureDeployment \/ EnsureStable
             \/ EnsureCanary
    BY <1>5, NextCallType
    DEF DeleteDeployment, DeleteService, EnsureDeployment, EnsureStable, EnsureCanary, RiseInv
  <1>6. CASE RouteTraffic
    BY <1>6 DEF RouteTraffic, RestInv, WritesMade, Writing, RiseInv
  <1>7. CASE ClearCommands
    <2>1. api'.status = api.status
      BY <1>7 DEF ClearCommands, TypeOK, CanaryObjects
    <2> QED
      BY <1>7, <2>1 DEF ClearCommands, world, RiseInv
  <1>8. CASE Persist
    BY <1>8, PersistKeepsRiseInv
  <1>9. CASE PersistFails
    <2>1. api.strategy.mode # "Manual"
      BY <1>9 DEF PersistFails, RestInv, AnalysisJustified, RiseInv
    <2> QED
      BY <1>9, <2>1 DEF PersistFails, RiseInv
  <1>10. CASE PassFails
    <2>1. failures' # 0 /\ api' = api
      BY <1>10 DEF PassFails, TypeOK
    <2> QED
      BY <2>1 DEF RiseInv
  <1>11. ASSUME NEW a \in UserAnnotations, Annotate(a) \/ Resume(a) PROVE RiseInv'
    BY <1>11 DEF Annotate, Resume, world, pass, TypeOK, CanaryObjects, RiseInv
  <1>12. ASSUME NEW s \in Strategies, EditStrategy(s) PROVE RiseInv'
    BY <1>12 DEF EditStrategy, TypeOK, CanaryObjects
  <1>13. CASE Push
    BY <1>13 DEF Push, pass, RiseInv
  <1>14. CASE UNCHANGED vars
    BY <1>14 DEF vars, world, pass, RiseInv
  <1> QED
    BY <1>1, <1>2, <1>3, <1>4, <1>5, <1>6, <1>7, <1>8, <1>9, <1>10, <1>11, <1>12, <1>13, <1>14
    DEF Next, Calling, Environment

\* The plan of a Canary is one of those that were admitted.
PlanAdmitted == api.strategy \in Strategies

LEMMA InitPlanAdmitted == Init => PlanAdmitted
  BY DEF Init, PlanAdmitted

LEMMA NextPlanAdmitted == TypeOK /\ PlanAdmitted /\ [Next]_vars => PlanAdmitted'
  <1> SUFFICES ASSUME TypeOK, PlanAdmitted, [Next]_vars PROVE PlanAdmitted'
    OBVIOUS
  <1>1. CASE api' = api
    BY <1>1 DEF PlanAdmitted
  <1>2. CASE ClearCommands \/ Persist
    BY <1>2 DEF ClearCommands, Persist, TypeOK, CanaryObjects, PlanAdmitted
  <1>3. ASSUME NEW a \in UserAnnotations, Annotate(a) \/ Resume(a) PROVE PlanAdmitted'
    BY <1>3 DEF Annotate, Resume, TypeOK, CanaryObjects, PlanAdmitted
  <1>4. ASSUME NEW s \in Strategies, EditStrategy(s) PROVE PlanAdmitted'
    BY <1>4 DEF EditStrategy, TypeOK, CanaryObjects, PlanAdmitted
  <1> QED
    BY <1>1, <1>2, <1>3, <1>4
    DEF Next, Begin, BeginOn, Calling, Analyse, AnalysisFails, ResetTraffic,
        DeleteDeployment, DeleteService, RouteTraffic, EnsureDeployment,
        EnsureStable, EnsureCanary, PersistFails, PassFails, Environment, Push, vars

\* Only RouteTraffic gives the canary a share other than 0.
LEMMA OnlyRouteRaises ==
    ASSUME [Next]_vars
    PROVE  RouteTraffic \/ traffic' \in {0, traffic}
  BY DEF Next, Begin, BeginOn, Calling, Analyse, AnalysisFails, ResetTraffic,
         DeleteDeployment, DeleteService, RouteTraffic, EnsureDeployment, EnsureStable,
         EnsureCanary, ClearCommands, Persist, PersistFails, PassFails, Environment,
         Annotate, Resume, EditStrategy, Push, vars, world

\* With steps that rise, a pass routes no less than there is.
LEMMA RouteRises ==
    ASSUME TypeOK, RestInv, RolloutInv, RiseInv, RouteTraffic, failures = 0,
           validateSteps(api.strategy.steps)
    PROVE  traffic' >= traffic
  <1> DEFINE steps == api.strategy.steps  k == api.status.step
  <1>1. /\ api.strategy \in StrategyRecords /\ api.status \in Statuses
        /\ steps \in Seq(1..100) /\ k \in Nat /\ traffic \in 0..100
    BY DEF TypeOK, CanaryObjects, StrategyRecords, Statuses
  <1>2. Len(steps) \in Nat /\ DOMAIN steps = 1..Len(steps) /\ k < Len(steps)
    <2>1. k < Len(steps)
      BY DEF RolloutInv, RolloutStatus, StatusCoherent
    <2> QED
      BY <1>1, <2>1
  <1>3. \A i \in DOMAIN steps : steps[i] \in 1..100 /\ (i > 1 => steps[i - 1] < steps[i])
    BY Zenon DEF validateSteps
  <1>4. /\ pc = "route" /\ traffic' = verdict.weight
        /\ verdict.decision \notin Settling /\ verdict.phase \in Routed
        /\ Outcome(verdict, api.strategy, api.status, seen)
    BY DEF RouteTraffic, RestInv, WritesMade, Writing, RolloutInv, RolloutPass
  <1>5. \/ verdict = MoveOn(steps, k)
        \/ verdict = Verdict("Hold", WaitingPhase(api.strategy), steps[k + 1])
    BY <1>4 DEF Outcome, Verdict, SettledPhase, Settling, Routed
  <1>6. CASE verdict = MoveOn(steps, k)
    <2>1. k + 1 < Len(steps) /\ verdict = Verdict("Advance", "Progressing", steps[k + 2])
      BY <1>1, <1>2, <1>4, <1>6, MoveOnCases DEF Verdict, Settling
    <2>2. traffic' = steps[k + 2] /\ k + 1 \in DOMAIN steps /\ k + 2 \in DOMAIN steps
      BY <1>1, <1>2, <1>4, <2>1 DEF Verdict
    <2>3. steps[k + 1] \in 1..100 /\ steps[k + 2] \in 1..100 /\ steps[k + 1] < steps[k + 2]
      <3>1. k + 2 > 1 /\ (k + 2) - 1 = k + 1
        BY <1>1
      <3> QED
        BY <1>3, <2>2, <3>1
    <2>4. traffic # 0 => traffic \in {steps[k + 1], steps[k + 2]}
      <3>1. (k + 1) + 1 = k + 2
        BY <1>1
      <3> QED
        BY <3>1 DEF RolloutInv, RolloutStatus, TrafficWithinReach
    <2>5. CASE traffic = 0
      BY <2>2, <2>3, <2>5
    <2>6. CASE traffic # 0
      <3> DEFINE a == steps[k + 1]  b == steps[k + 2]
      <3>1. a \in Int /\ b \in Int /\ a < b /\ traffic' = b /\ (traffic = a \/ traffic = b)
        BY <2>2, <2>3, <2>4, <2>6
      <3> HIDE DEF a, b
      <3> QED
        BY <3>1
    <2> QED
      BY <2>5, <2>6
  <1>7. CASE verdict = Verdict("Hold", WaitingPhase(api.strategy), steps[k + 1])
    <2>1. traffic' = steps[k + 1] /\ api.strategy.mode = "Manual"
      BY <1>1, <1>4, <1>7 DEF Verdict, WaitingPhase, Routed, StrategyRecords
    <2>2. traffic \in {0, steps[k + 1]}
      BY <1>4, <2>1 DEF RiseInv
    <2>3. steps[k + 1] \in 1..100
      BY <1>1, <1>2, k + 1 \in 1..Len(steps), ElementOfSeq
    <2> QED
      BY <2>1, <2>2, <2>3
  <1> QED
    BY <1>5, <1>6, <1>7

\* As long as the plan is the one the Canary was created with.
FirstRise == api.gen = 1 => RiseInv

LEMMA NextFirstRise ==
    TypeOK /\ LeakInv /\ RestInv /\ FirstPlan /\ FirstRise /\ [Next]_vars => FirstRise'
  <1> SUFFICES ASSUME TypeOK, LeakInv, RestInv, FirstPlan, FirstRise, [Next]_vars,
                      api'.gen = 1
               PROVE  RiseInv'
    BY DEF FirstRise
  <1>1. api.gen = 1 /\ api'.strategy = api.strategy
    BY GenerationCountsEdits DEF TypeOK, CanaryObjects, FirstPlan
  <1> QED
    BY <1>1, NextRiseInv DEF FirstPlan, FirstRise

\* With a plan the webhook lets through, while it is not edited and no pass is
\* cut short, the share of the traffic the canary receives only rises, until it
\* is taken back as a whole: through every promote, push, failed analysis and
\* status that cannot be written.
THEOREM TrafficRises ==
    ASSUME \A s \in Strategies : validateSteps(s.steps)
    PROVE  Spec => TrafficOnlyRises
  <1>1. Init => FirstRise
    BY InitRiseInv DEF FirstRise
  <1>2. TypeOK /\ RestInv /\ FirstPlan /\ FirstRise /\ PlanAdmitted /\ [Next]_vars =>
          [ failures' = 0 /\ api'.gen = 1 =>
               traffic' >= traffic \/ traffic' = 0 ]_vars
    <2> SUFFICES ASSUME TypeOK, RestInv, FirstPlan, FirstRise, PlanAdmitted, [Next]_vars,
                        failures' = 0, api'.gen = 1
                 PROVE  traffic' >= traffic \/ traffic' = 0
      OBVIOUS
    <2>1. api.gen = 1 /\ api'.strategy = api.strategy
      BY GenerationCountsEdits DEF TypeOK, CanaryObjects, FirstPlan
    <2>2. validateSteps(api.strategy.steps)
      BY DEF PlanAdmitted
    <2>3. CASE RouteTraffic
      <3>1. failures = 0
        BY <2>3 DEF RouteTraffic
      <3> QED
        BY <2>1, <2>2, <2>3, <3>1, RouteRises DEF FirstPlan, FirstRise
    <2>4. CASE traffic' \in {0, traffic}
      BY <2>4 DEF TypeOK
    <2> QED
      BY <2>3, <2>4, OnlyRouteRaises
  <1> QED
    BY <1>1, <1>2, NextFirstRise, InitTypeOK, NextTypeOK, InitLeakInv, NextLeakInv, InitRestInv,
       NextRestInv, InitFirstPlan, NextFirstPlan, InitPlanAdmitted, NextPlanAdmitted, PTL
    DEF Spec, TrafficOnlyRises

-----------------------------------------------------------------------------
(* FailuresBounded                                                         *)

\* decide after a failed analysis: it waits for another only below the limit,
\* and moves on only on a promote.
LEMMA DecideFailed ==
    ASSUME NEW ann, NEW strategy \in StrategyRecords, NEW status \in Statuses,
           NEW observed, NEW res, strategy.maxFailed >= 1, strategy.mode = "Progressive",
           status.step < Len(strategy.steps), status.phase = "Analyzing",
           status.stable # NoRevision, status.stable # observed, res.ran, ~res.passed
    PROVE  LET v == Decide(ann, strategy, status, observed, res)
           IN  /\ v.decision = "Hold" => status.failed <= strategy.maxFailed
               /\ v.decision \in Forward => "promote" \in ann
  <1> DEFINE steps == strategy.steps  v == Decide(ann, strategy, status, observed, res)
  <1>1. /\ steps \in Seq(1..100) /\ status.step \in Nat /\ status.failed \in Nat
        /\ strategy.maxFailed \in Nat
    BY DEF StrategyRecords, Statuses
  <1>2. steps # <<>> /\ ~(status.step >= Len(steps))
    BY <1>1
  <1>3. ShouldRollback(strategy, status) <=> status.failed > strategy.maxFailed
    BY <1>1 DEF ShouldRollback
  <1>4. CASE "abort" \in ann
    BY <1>4 DEF Decide, Verdict, Forward
  <1>5. CASE "abort" \notin ann /\ "promote" \in ann
    <2>1. v = MoveOn(steps, status.step)
      BY <1>2, <1>5 DEF Decide, DecideRollout, DecideProgressive
    <2> QED
      BY <1>1, <1>5, <2>1, MoveOnForward DEF Forward
  <1>6. CASE "abort" \notin ann /\ "promote" \notin ann /\ ShouldRollback(strategy, status)
    <2>1. v = Verdict("Rollback", "RolledBack", 0)
      BY <1>2, <1>6 DEF Decide, DecideRollout, DecideProgressive
    <2> QED
      BY <2>1 DEF Verdict, Forward
  <1>7. CASE "abort" \notin ann /\ "promote" \notin ann /\ ~ShouldRollback(strategy, status)
    <2>1. v = Verdict("Hold", "Analyzing", steps[status.step + 1])
      BY <1>2, <1>7 DEF Decide, DecideRollout, DecideProgressive
    <2> QED
      BY <1>1, <1>3, <1>7, <2>1 DEF Verdict, Forward
  <1> QED
    BY <1>4, <1>5, <1>6, <1>7

LEMMA InitFailInv == Init /\ "promote" \notin InitialAnnotations => FailInv
  <1> SUFFICES ASSUME Init, "promote" \notin InitialAnnotations PROVE FailInv
    OBVIOUS
  <1>1. api.ann = InitialAnnotations /\ api.status = ZeroStatus
    BY DEF Init
  <1>2. ZeroStatus.failed = 0
    BY Zenon DEF ZeroStatus
  <1>3. api.strategy.maxFailed \in Nat
    BY InitTypeOK DEF TypeOK, CanaryObjects, StrategyRecords
  <1> QED
    BY <1>1, <1>2, <1>3 DEF Init, FailInv

\* A pass that returns without a status has failed nothing.
LEMMA ReturnKeepsFailInv ==
    ASSUME TypeOK, FailInv, Return, UNCHANGED <<api, ghost>>
    PROVE  FailInv'
  <1>1. api.strategy.maxFailed \in Nat /\ streak \in Nat /\ promotes \in Nat
    BY DEF TypeOK, CanaryObjects, StrategyRecords
  <1> QED
    BY <1>1 DEF FailInv, Return, ghost

\* A call of a pass past its decision keeps the account: none of them comes to
\* record a move that a promote is still due for.
LEMMA CallKeepsFailInv ==
    ASSUME TypeOK, FailInv, UNCHANGED <<api, obj, result, verdict, ghost>>,
           pc \notin {"idle", "analyse", "persist"},
           pc' \notin {"idle", "analyse", "persist"} \/ pc' = AfterWrites(obj)
    PROVE  FailInv'
  <1>1. pc' \notin {"idle", "analyse"}
    BY NextCallType
  <1>2. pc' = "persist" => "promote" \notin obj.ann
    BY AfterWritesHoldsPromote
  <1>3. api.strategy.maxFailed \in Nat /\ streak \in Nat /\ promotes \in Nat
    BY DEF TypeOK, CanaryObjects, StrategyRecords
  <1> QED
    BY <1>1, <1>2, <1>3 DEF FailInv, ghost

LEMMA AnalyseKeepsFailInv ==
    ASSUME TypeOK, LeakInv, RestInv, RolloutInv, FailInv, api.strategy.maxFailed >= 1,
           NEW r \in Readings, Analyse(r)
    PROVE  FailInv'
  <1> DEFINE v == Decide(obj.ann, obj.strategy, obj.status, seen, result')
  <1>1. /\ pc = "analyse" /\ result' = Evaluated(obj.status, r) /\ verdict' = v
        /\ pc' = FirstCall(v, obj) /\ UNCHANGED <<api, obj, ghost>>
    BY DEF Analyse
  <1>2. /\ obj.status = api.status /\ obj.strategy = api.strategy
        /\ obj.strategy.mode = "Progressive" /\ api.status.phase = "Analyzing"
    BY <1>1 DEF LeakInv, PassIsCurrent, RolloutInv, RolloutPass, FailInv, RestInv,
                AnalysisJustified
  <1>3. /\ obj.status \in Statuses /\ obj.strategy \in StrategyRecords /\ seen \in Nat
        /\ result' \in Results
    BY <1>1, EvaluatedType DEF TypeOK, CanaryObjects
  <1>4. obj.status.step < Len(obj.strategy.steps)
    BY <1>2 DEF RolloutInv, RolloutStatus, StatusCoherent
  <1>5. obj.status.stable # NoRevision /\ obj.status.stable # seen
    <2>1. obj.status.stable < seen /\ obj.status.stable \in Nat
      BY <1>1, <1>2, <1>3 DEF RolloutInv, RolloutPass, Underway, Statuses
    <2>2. api.status.stable # NoRevision
      BY <1>2 DEF RolloutInv, RolloutStatus
    <2> QED
      BY <1>2, <1>3, <2>1, <2>2
  <1>6. result'.ran /\ (~result'.passed => result'.failed = api.status.failed + 1)
    BY <1>1, <1>2 DEF Evaluated
  <1>7. ~result'.passed => /\ v.decision = "Hold" => api.status.failed <= api.strategy.maxFailed
                           /\ v.decision \in Forward => "promote" \in obj.ann
    BY <1>2, <1>3, <1>4, <1>5, <1>6, DecideFailed
  <1>8. v \in Verdicts
    BY <1>3, DecideVerdict
  <1>9. pc' = "persist" => ~(v.decision \in Forward /\ ~result'.passed)
    <2> DEFINE passed == result'.passed
    <2>1. v.decision \in Forward /\ ~passed => "promote" \in obj.ann
      BY <1>7
    <2> HIDE DEF passed, v
    <2>2. FirstCall(v, obj) = "persist" => ~(v.decision \in Forward /\ ~passed)
      BY <1>8, <2>1, FirstCallHoldsPromote
    <2> QED
      BY <1>1, <2>2 DEF passed
  <1>10. pc' \notin {"idle", "analyse"}
    BY <1>1, NextCallType
  <1>11. api.strategy.maxFailed \in Nat /\ streak \in Nat /\ promotes \in Nat
    BY DEF TypeOK, CanaryObjects, StrategyRecords
  <1> HIDE DEF v
  <1> QED
    BY <1>1, <1>6, <1>7, <1>9, <1>10, <1>11 DEF FailInv, Forward, ghost

\* The pass hands the promote over from the Canary to itself.
LEMMA ClearKeepsFailInv ==
    ASSUME TypeOK, FailInv, PromoteAccount, ClearCommands
    PROVE  FailInv'
  <1>1. /\ pc = "clear" /\ pc' = "persist" /\ UNCHANGED <<result, verdict, ghost>>
        /\ api'.ann = PatchAnnotations(api.ann, obj.ann)
        /\ api'.status = api.status /\ api'.strategy = api.strategy
    BY DEF ClearCommands, TypeOK, CanaryObjects
  <1>2. "promote" \in obj.ann => "promote" \in api.ann /\ "promote" \notin api'.ann
    BY <1>1 DEF PromoteAccount, PatchAnnotations, Commands
  <1>3. "promote" \in api'.ann => "promote" \in api.ann
    BY <1>1 DEF PatchAnnotations
  <1>4. api.strategy.maxFailed \in Nat /\ streak \in Nat /\ promotes \in Nat
    BY DEF TypeOK, CanaryObjects, StrategyRecords
  <1> QED
    BY <1>1, <1>2, <1>3, <1>4 DEF FailInv, ghost

\* A promote on the Canary is one of those given.
LEMMA PromoteOnCanary ==
    ASSUME TypeOK, PromoteAccount
    PROVE  (IF "promote" \in api.ann THEN 1 ELSE 0) <= promotes
  BY DEF TypeOK, PromoteAccount

LEMMA PersistKeepsFailInv ==
    ASSUME TypeOK, LeakInv, FailInv, PromoteAccount, Persist
    PROVE  FailInv'
  <1> DEFINE limit == api.strategy.maxFailed
             onCanary == IF "promote" \in api.ann THEN 1 ELSE 0
  <1>1. /\ api'.ann = api.ann /\ api'.strategy = api.strategy
        /\ api'.status = UpdateStatus(api.status, verdict, seen, obj.gen, result)
    BY PersistRecords DEF LeakInv
  <1>2. api'.status.failed = IF result.ran THEN result.failed ELSE api.status.failed
    BY <1>1, UpdateStatusRecords
  <1>3. /\ pc = "persist" /\ pc' = "idle" /\ promotes' = promotes
        /\ streak' = IF verdict.decision \in Settling THEN 0
                     ELSE IF ~result.ran THEN streak
                     ELSE IF result.passed THEN 0
                     ELSE streak + 1
    BY DEF Persist, Return
  <1>4. /\ limit \in Nat /\ streak \in Nat /\ promotes \in Nat
        /\ result.failed \in Nat /\ api.status.failed \in Nat
        /\ verdict.decision \in Decisions
    BY DEF TypeOK, CanaryObjects, StrategyRecords, Statuses, Results, Verdicts
  <1>5. onCanary \in Nat /\ onCanary <= promotes
    BY PromoteOnCanary
  <1>6. streak <= api.status.failed /\ streak + onCanary <= limit + 1 + promotes
    BY <1>4 DEF FailInv
  <1>7. streak' <= api'.status.failed /\ streak' + onCanary <= limit + 1 + promotes
    <2>1. CASE verdict.decision \in Settling \/ ~result.ran \/ result.passed
      BY <1>2, <1>3, <1>4, <1>5, <1>6, <2>1
    <2>2. ASSUME verdict.decision \notin Settling, result.ran, ~result.passed,
                 verdict.decision = "Hold"
          PROVE  streak' <= api'.status.failed /\ streak' + onCanary <= limit + 1 + promotes
      <3>1. result.failed = api.status.failed + 1 /\ api.status.failed <= limit
        BY <1>3, <2>2 DEF FailInv
      <3>2. streak' = streak + 1 /\ api'.status.failed = result.failed
        BY <1>2, <1>3, <2>2
      <3> QED
        BY <1>4, <1>5, <1>6, <3>1, <3>2
    <2>3. ASSUME verdict.decision \notin Settling, result.ran, ~result.passed,
                 verdict.decision = "Advance"
          PROVE  streak' <= api'.status.failed /\ streak' + onCanary <= limit + 1 + promotes
      <3>1. result.failed = api.status.failed + 1
        BY <1>3, <2>3 DEF FailInv
      <3>2. streak + onCanary + 1 <= limit + 1 + promotes
        BY <1>3, <2>3 DEF FailInv
      <3>3. streak' = streak + 1 /\ api'.status.failed = result.failed
        BY <1>2, <1>3, <2>3
      <3> QED
        BY <1>4, <1>5, <1>6, <3>1, <3>2, <3>3
    <2> QED
      BY <1>4, <2>1, <2>2, <2>3 DEF Decisions, Settling
  <1>8. streak' \in Nat
    BY <1>3, <1>4
  <1> QED
    BY <1>1, <1>3, <1>4, <1>7, <1>8 DEF FailInv

LEMMA EnvironmentKeepsFailInv ==
    ASSUME TypeOK, FailInv, NEW a \in UserAnnotations,
           Annotate(a) \/ (a \in Suspensions /\ Resume(a))
    PROVE  FailInv'
  <1>1. /\ api'.status = api.status /\ api'.strategy = api.strategy
        /\ UNCHANGED <<pass, streak>>
    BY DEF Annotate, Resume, ghost, TypeOK, CanaryObjects
  <1>2. api.strategy.maxFailed \in Nat /\ streak \in Nat /\ promotes \in Nat
    BY DEF TypeOK, CanaryObjects, StrategyRecords
  <1>3. CASE Annotate(a)
    <2>1. /\ a \notin api.ann /\ api'.ann = api.ann \cup {a}
          /\ promotes' = IF a = "promote" THEN promotes + 1 ELSE promotes
      BY <1>3 DEF Annotate, TypeOK, CanaryObjects
    <2> QED
      BY <1>1, <1>2, <2>1 DEF FailInv, pass
  <1>4. CASE a \in Suspensions /\ Resume(a)
    <2>1. a # "promote" /\ api'.ann = api.ann \ {a} /\ promotes' = promotes
      BY <1>4 DEF Resume, ghost, Suspensions, TypeOK, CanaryObjects
    <2> QED
      BY <1>1, <1>2, <2>1 DEF FailInv, pass
  <1> QED
    BY <1>3, <1>4

LEMMA NextFailInv ==
    ASSUME TypeOK, LeakInv, RestInv, RolloutInv, FailInv, PromoteAccount, [Next]_vars,
           api'.strategy = api.strategy, api.strategy.maxFailed >= 1
    PROVE  FailInv'
  <1>1. CASE Begin
    <2>1. /\ result' = NotRun /\ obj' = api /\ pc = "idle" /\ UNCHANGED <<api, ghost>>
          /\ pc' = "analyse" => api.strategy.mode = "Progressive"
      BY <1>1, NextCallType DEF Begin, BeginOn, Analyses
    <2>2. NotRun.ran = FALSE
      BY Zenon DEF NotRun
    <2>3. api.strategy.maxFailed \in Nat /\ streak \in Nat /\ promotes \in Nat
      BY DEF TypeOK, CanaryObjects, StrategyRecords
    <2> QED
      BY <2>1, <2>2, <2>3 DEF FailInv, ghost
  <1>2. ASSUME NEW r \in Readings, Analyse(r) PROVE FailInv'
    BY <1>2, AnalyseKeepsFailInv
  <1>3. CASE AnalysisFails \/ PersistFails \/ PassFails
    BY <1>3, ReturnKeepsFailInv DEF AnalysisFails, PersistFails, PassFails
  <1>4. CASE ResetTraffic \/ DeleteDeployment \/ DeleteService
             \/ RouteTraffic \/ EnsureDeployment \/ EnsureStable \/ EnsureCanary
    BY <1>4, CallKeepsFailInv
    DEF ResetTraffic, DeleteDeployment, DeleteService, RouteTraffic, EnsureDeployment,
        EnsureStable, EnsureCanary
  <1>5. CASE ClearCommands
    BY <1>5, ClearKeepsFailInv
  <1>6. CASE Persist
    BY <1>6, PersistKeepsFailInv
  <1>7. ASSUME NEW a \in UserAnnotations, Annotate(a) PROVE FailInv'
    BY <1>7, EnvironmentKeepsFailInv
  <1>8. ASSUME NEW a \in UserAnnotations \cap Suspensions, Resume(a) PROVE FailInv'
    BY <1>8, EnvironmentKeepsFailInv
  <1>9. ASSUME NEW s \in Strategies, EditStrategy(s) PROVE FailInv'
    BY <1>9 DEF EditStrategy, TypeOK, CanaryObjects
  <1>10. CASE Push \/ UNCHANGED vars
    BY <1>10 DEF Push, vars, pass, ghost, FailInv
  <1> QED
    BY <1>1, <1>2, <1>3, <1>4, <1>5, <1>6, <1>7, <1>8, <1>9, <1>10
    DEF Next, Calling, Environment

\* As long as the plan is the one the Canary was created with.
FirstFail == api.gen = 1 => FailInv

\* Until the plan is edited, a rollout fails no more than maxFailed + 1 analyses
\* in a row, and one more for every promote given: the count that is read one
\* pass late still stops it, whichever passes fail in between.
THEOREM FailuresAreBounded ==
    ASSUME "promote" \notin InitialAnnotations, \A s \in Strategies : s.maxFailed >= 1
    PROVE  Spec => [](api.gen = 1 => FailuresBounded)
  <1>1. Init => FirstFail
    BY InitFailInv DEF FirstFail
  <1>2. Init => PromoteAccount
    BY InitPromoteAccount
  <1>3. TypeOK /\ LeakInv /\ RestInv /\ FirstPlan /\ PlanAdmitted /\ PromoteAccount /\ FirstFail
           /\ [Next]_vars => FirstFail'
    <2> SUFFICES ASSUME TypeOK, LeakInv, RestInv, FirstPlan, PlanAdmitted, PromoteAccount,
                        FirstFail, [Next]_vars, api'.gen = 1
                 PROVE  FailInv'
      BY DEF FirstFail
    <2>1. api.gen = 1 /\ api'.strategy = api.strategy
      BY GenerationCountsEdits DEF TypeOK, CanaryObjects, FirstPlan
    <2>2. api.strategy.maxFailed >= 1
      BY DEF PlanAdmitted
    <2> QED
      BY <2>1, <2>2, NextFailInv DEF FirstPlan, FirstFail
  <1>4. TypeOK /\ FirstFail => (api.gen = 1 => FailuresBounded)
    <2> SUFFICES ASSUME TypeOK, FailInv PROVE FailuresBounded
      BY DEF FirstFail
    <2>1. api.strategy.maxFailed \in Nat /\ streak \in Nat /\ promotes \in Nat
      BY DEF TypeOK, CanaryObjects, StrategyRecords
    <2> QED
      BY <2>1 DEF FailInv, FailuresBounded
  <1> QED
    BY <1>1, <1>2, <1>3, <1>4, InitTypeOK, NextTypeOK, InitLeakInv, NextLeakInv, InitRestInv,
       NextRestInv, InitFirstPlan, NextFirstPlan, InitPlanAdmitted, NextPlanAdmitted,
       NextPromoteAccount, PTL
    DEF Spec
==============================================================================
