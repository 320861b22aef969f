--------------------------- MODULE LifecycleProofs ---------------------------
(***************************************************************************)
(* Theorems about what the status of a Canary says of its rollout, and     *)
(* what traffic and workload are next to it: that the status lives the     *)
(* life RolloutLifecycle describes, and that the cluster is what the       *)
(* status says.  They hold for every plan and any number of failed passes, *)
(* pushes and promotes, up to the first edit of the plan: what becomes of  *)
(* a rollout whose plan is edited under it is OverrunEnds and Settles.     *)
(***************************************************************************)
EXTENDS ReconcilerProofs, Admission

-----------------------------------------------------------------------------
(* The inductive invariants                                                *)

\* The phases of a rollout under way, and those of one that is over.
Underway == {"Progressing", "AwaitingPromotion", "Analyzing"}
Over == {"Idle", "Succeeded", "RolledBack"}

\* Where a rollout waits between two steps.
WaitingPhase(strategy) ==
    IF strategy.mode = "Progressive" THEN "Analyzing" ELSE "AwaitingPromotion"

\* What decide can return for a status whose step is within the plan, by what
\* it has found to be so.
Outcome(v, strategy, status, observed) ==
    LET steps == strategy.steps  i == status.step
    IN  \/ v = Verdict("Rollback", "RolledBack", 0)
        \/ v = Verdict("Hold", "Idle", 0) /\ status.stable = NoRevision
        \/ /\ v = Verdict("Hold", SettledPhase(status.phase), 0)
           /\ status.stable = observed /\ status.stable # NoRevision
        \/ /\ v = MoveOn(steps, i) \/ v = Verdict("Hold", WaitingPhase(strategy), steps[i + 1])
           /\ status.stable \notin {NoRevision, observed}

CleaningUp == {"reset", "deleteDeployment", "deleteService"}

\* A pass that has routed keeps to its verdict: traffic, Deployment and
\* Services are what it has come past.
WritesMade ==
    LET routes == verdict.decision \notin Settling /\ verdict.phase \in Routed
        written == pc \in {"clear", "persist"} /\ routes
    IN  /\ pc \notin {"idle", "analyse"} /\ verdict.decision \in Settling =>
               verdict.phase \notin Routed
        /\ pc \in CleaningUp => verdict.decision \in Settling
        /\ pc \in Writing => routes
        /\ pc \in Writing \ {"route"} \/ written => traffic = verdict.weight
        /\ pc \in {"ensureStable", "ensureCanary"} \/ written => deployment = seen
        /\ pc = "ensureCanary" \/ written => "stable" \in services
        /\ written => "canary" \in services

\* An analysis has run only in a pass over an Analyzing Canary, and only such a
\* pass can find its status unfit to be written.
AnalysisJustified ==
    /\ pc = "analyse" => api.status.phase = "Analyzing"
    /\ pc # "idle" /\ result.ran => api.status.phase = "Analyzing"
    /\ pc # "idle" /\ ~result.ran => result.encodable

\* The strengthening of AtRest.
RestInv == WritesMade /\ AnalysisJustified /\ AtRest

\* The strengthening of StatusCoherent and TrafficWithinReach: a rollout that
\* is under way goes from a recorded stable revision to a later one, ...
RolloutStatus ==
    LET st == api.status
    IN  /\ StatusCoherent
        /\ TrafficWithinReach
        /\ st.phase # "Failed"
        /\ st.stable = NoRevision <=> st.phase = ""
        /\ st.phase \in Underway => st.stable < target

\* ... and the pass in flight has decided on this plan and this status.
RolloutPass ==
    LET st == api.status
    IN  pc # "idle" =>
           /\ st.phase \in Underway => st.stable < seen
           /\ obj.strategy = api.strategy
           /\ pc # "analyse" => Outcome(verdict, api.strategy, st, seen)

RolloutInv == RolloutStatus /\ RolloutPass

\* As long as the plan is the one the Canary was created with.
FirstPlan == api.gen >= 1 /\ (api.gen = 1 => RolloutInv)

-----------------------------------------------------------------------------
(* AtRest                                                                  *)

LEMMA InitRestInv == Init => RestInv
  <1> SUFFICES ASSUME Init PROVE RestInv
    OBVIOUS
  <1>1. api.status = ZeroStatus
    BY DEF Init
  <1>2. ZeroStatus.phase = ""
    BY Zenon DEF ZeroStatus
  <1> QED
    BY <1>1, <1>2 DEF Init, RestInv, WritesMade, AnalysisJustified, AtRest, Writing, CleaningUp, Routed

\* An edit of the annotations or the plan, or a push, has no part in it.
LEMMA OthersKeepRestInv ==
    ASSUME RestInv, UNCHANGED <<traffic, deployment, services, pass, failures>>,
           api'.status = api.status
    PROVE  RestInv'
  BY DEF RestInv, WritesMade, AnalysisJustified, AtRest, Writing, CleaningUp, pass

\* Nor has a pass that is cut short: by then a pass has failed.
LEMMA PassFailsKeepsRestInv ==
    ASSUME TypeOK, RestInv, PassFails
    PROVE  RestInv'
  BY DEF TypeOK, RestInv, PassFails, Return, WritesMade, AnalysisJustified, AtRest, Writing, CleaningUp

\* A pass that gives up without a write starts from Analyzing, a phase that
\* AtRest says nothing of.
LEMMA GivingUpKeepsRestInv ==
    ASSUME RestInv, Return, UNCHANGED <<api, world, failures>>,
           api.status.phase = "Analyzing"
    PROVE  RestInv'
  BY DEF RestInv, Return, world, WritesMade, AnalysisJustified, AtRest, Writing,
         CleaningUp, Routed

\* The phase and the weight a pass records are those of its verdict, and the
\* canary's revision is the one it read, if it routes.
LEMMA UpdateStatusRecords ==
    ASSUME NEW status, NEW v, NEW revision, NEW generation, NEW res
    PROVE  LET new == UpdateStatus(status, v, revision, generation, res)
           IN  /\ new.phase = v.phase
               /\ new.weight = v.weight
               /\ v.decision \notin Settling /\ v.phase \in Routed =>
                     new.canary = revision
               /\ new.step = IF v.decision \in Settling THEN 0
                             ELSE IF v.decision = "Advance" THEN status.step + 1
                             ELSE status.step
               /\ new.failed = IF res.ran THEN res.failed ELSE status.failed
  BY DEF UpdateStatus

\* What Persist makes of the status on the server, whose copy is current.
LEMMA PersistRecords ==
    ASSUME TypeOK, PassIsCurrent, Persist
    PROVE  /\ api'.status = UpdateStatus(api.status, verdict, seen, obj.gen, result)
           /\ api'.ann = api.ann /\ api'.strategy = api.strategy /\ api'.gen = api.gen
  <1> DEFINE new == UpdateStatus(obj.status, verdict, seen, obj.gen, result)
  <1>1. new \in Statuses /\ obj.status \in Statuses
    BY UpdateStatusType DEF TypeOK, CanaryObjects
  <1>2. obj.status = api.status
    BY DEF PassIsCurrent, Persist
  <1>3. MergePatch(obj.status, new, api.status) = new
    BY <1>1, <1>2, MergePatchOfCurrent
  <1>4. api' = [api EXCEPT !.status = new]
    BY <1>3 DEF Persist
  <1> HIDE DEF new
  <1>5. /\ api'.status = new
        /\ api'.ann = api.ann /\ api'.strategy = api.strategy /\ api'.gen = api.gen
    BY <1>4 DEF TypeOK, CanaryObjects
  <1> QED
    BY <1>2, <1>5 DEF new

\* A verdict that ends the rollout has a phase that routes nothing.
LEMMA DecideSettles ==
    ASSUME NEW ann, NEW strategy, NEW status, NEW observed, NEW res
    PROVE  LET v == Decide(ann, strategy, status, observed, res)
           IN  v.decision \in Settling => v.phase \notin Routed
  BY DEF Decide, DecideRollout, DecideProgressive, DecideManual, MoveOn, Overrun, Verdict,
         Settling, Routed

LEMMA NextRestInv == TypeOK /\ LeakInv /\ RestInv /\ [Next]_vars => RestInv'
  <1> SUFFICES ASSUME TypeOK, LeakInv, RestInv, [Next]_vars PROVE RestInv'
    OBVIOUS
  <1>0. NotRun.ran = FALSE /\ NotRun.encodable = TRUE
    BY Zenon DEF NotRun
  <1>1. CASE Begin
    <2> DEFINE v == Decide(api.ann, api.strategy, api.status, target, NotRun)
    <2>1. v \in Verdicts
      BY NoPassTypes, DecideVerdict DEF TypeOK, CanaryObjects
    <2>2. /\ result' = NotRun /\ api' = api
          /\ \/ pc' = "analyse" /\ api.status.phase = "Analyzing"
             \/ pc' = FirstCall(v, api) /\ verdict' = v
      BY <1>1 DEF Begin, BeginOn, Analyses
    <2>3. pc' # "idle" /\ (pc' = "analyse" => api.status.phase = "Analyzing")
      BY <2>2, NextCallType
    <2>4. WritesMade'
      BY <2>1, <2>2, FirstCallMeaning, NextCallType, DecideSettles DEF WritesMade, Writing, CleaningUp
    <2> QED
      BY <1>0, <2>2, <2>3, <2>4 DEF RestInv, AnalysisJustified, AtRest
  <1>2. ASSUME NEW r \in Readings, Analyse(r) PROVE RestInv'
    <2> DEFINE v == Decide(obj.ann, obj.strategy, obj.status, seen, result')
    <2>1. v \in Verdicts
      BY <1>2, EvaluatedType, DecideVerdict DEF Analyse, TypeOK, CanaryObjects
    <2>2. /\ api' = api /\ api.status.phase = "Analyzing"
          /\ pc' = FirstCall(v, obj) /\ verdict' = v /\ result'.ran
      BY <1>2 DEF Analyse, RestInv, AnalysisJustified, Evaluated
    <2>3. pc' \notin {"idle", "analyse"}
      BY <2>2, NextCallType
    <2>4. WritesMade'
      BY <2>1, <2>2, FirstCallMeaning, NextCallType, DecideSettles DEF WritesMade, Writing, CleaningUp
    <2> QED
      BY <2>2, <2>3, <2>4 DEF RestInv, AnalysisJustified, AtRest
  <1>3. CASE AnalysisFails
    <2>1. api.status.phase = "Analyzing"
      BY <1>3 DEF AnalysisFails, RestInv, AnalysisJustified
    <2> QED
      BY <1>3, <2>1, GivingUpKeepsRestInv DEF AnalysisFails
  <1>4. CASE ResetTraffic
    BY <1>4 DEF ResetTraffic, RestInv, WritesMade, AnalysisJustified, AtRest, Writing, CleaningUp
  <1>5. CASE DeleteDeployment
    BY <1>5 DEF DeleteDeployment, RestInv, WritesMade, AnalysisJustified, AtRest, Writing, CleaningUp
  <1>6. CASE DeleteService
    BY <1>6, NextCallType
    DEF DeleteService, LeakInv, WritesJustified, RestInv, WritesMade, AnalysisJustified, AtRest,
        Writing, CleaningUp
  <1>7. CASE RouteTraffic \/ EnsureDeployment \/ EnsureStable
    BY <1>7
    DEF RouteTraffic, EnsureDeployment, EnsureStable, RestInv, WritesMade, AnalysisJustified, AtRest,
        Writing, CleaningUp
  <1>8. CASE EnsureCanary
    BY <1>8, NextCallType
    DEF EnsureCanary, RestInv, WritesMade, AnalysisJustified, AtRest, Writing, CleaningUp
  <1>9. CASE ClearCommands
    <2>1. api'.status = api.status
      BY <1>9 DEF ClearCommands, TypeOK, CanaryObjects
    <2> QED
      BY <1>9, <2>1
      DEF ClearCommands, world, RestInv, WritesMade, AnalysisJustified, AtRest, Writing, CleaningUp
  <1>10. CASE Persist
    <2> DEFINE routes == verdict.decision \notin Settling /\ verdict.phase \in Routed
    <2>1. /\ api'.status.phase = verdict.phase /\ api'.status.weight = verdict.weight
          /\ routes => api'.status.canary = seen
      BY <1>10, PersistRecords, UpdateStatusRecords DEF LeakInv
    <2>2. verdict.decision \in Settling => verdict.phase \notin Routed
      BY <1>10 DEF Persist, RestInv, WritesMade
    <2>3. pc' = "idle" /\ UNCHANGED <<traffic, deployment, services>>
      BY <1>10 DEF Persist, Return, world
    <2>4. routes => /\ traffic = verdict.weight /\ deployment = seen
                    /\ services = {"stable", "canary"}
      BY <1>10 DEF Persist, RestInv, WritesMade, TypeOK
    <2> QED
      BY <2>1, <2>2, <2>3, <2>4 DEF RestInv, WritesMade, AnalysisJustified, AtRest, Writing, CleaningUp
  <1>11. CASE PersistFails
    <2>1. api.status.phase = "Analyzing"
      BY <1>11 DEF PersistFails, RestInv, AnalysisJustified
    <2> QED
      BY <1>11, <2>1, GivingUpKeepsRestInv DEF PersistFails
  <1>12. CASE PassFails
    BY <1>12, PassFailsKeepsRestInv
  <1>13. ASSUME NEW a \in UserAnnotations, Annotate(a) \/ Resume(a) PROVE RestInv'
    BY <1>13, OthersKeepRestInv
    DEF Annotate, Resume, world, pass, TypeOK, CanaryObjects
  <1>14. ASSUME NEW s \in Strategies, EditStrategy(s) PROVE RestInv'
    BY <1>14, OthersKeepRestInv DEF EditStrategy, world, TypeOK, CanaryObjects
  <1>15. CASE Push
    BY <1>15, OthersKeepRestInv DEF Push
  <1>16. CASE UNCHANGED vars
    BY <1>16, OthersKeepRestInv DEF vars, world
  <1> QED
    BY <1>1, <1>2, <1>3, <1>4, <1>5, <1>6, <1>7, <1>8, <1>9, <1>10, <1>11,
       <1>12, <1>13, <1>14, <1>15, <1>16
    DEF Next, Calling, Environment

\* While no pass has failed and none is running, the cluster is what the status
\* says of the step, whatever is pushed, edited or annotated.
THEOREM ClusterIsAsRecorded == Spec => []AtRest
  <1>1. RestInv => AtRest
    BY DEF RestInv
  <1> QED
    BY <1>1, InitTypeOK, NextTypeOK, InitLeakInv, NextLeakInv, InitRestInv, NextRestInv,
       PTL DEF Spec

-----------------------------------------------------------------------------
(* The rollout                                                             *)

LEMMA MoveOnCases ==
    ASSUME NEW steps \in Seq(1..100), NEW i \in Nat, i < Len(steps)
    PROVE  \/ /\ i + 1 = Len(steps)
              /\ MoveOn(steps, i) = Verdict("Promote", "Succeeded", steps[Len(steps)])
           \/ /\ i + 1 < Len(steps)
              /\ MoveOn(steps, i) = Verdict("Advance", "Progressing", steps[i + 2])
  BY DEF MoveOn

\* decide, for a step within the plan.
LEMMA DecideOutcome ==
    ASSUME NEW ann, NEW strategy \in StrategyRecords, NEW status \in Statuses,
           NEW observed, NEW res, status.step < Len(strategy.steps)
    PROVE  Outcome(Decide(ann, strategy, status, observed, res), strategy, status, observed)
  <1>1. strategy.steps # <<>> /\ ~(status.step >= Len(strategy.steps))
    BY DEF StrategyRecords, Statuses
  <1> QED
    BY <1>1
    DEF Outcome, Decide, DecideRollout, DecideProgressive, DecideManual, WaitingPhase

\* What a pass records, by what it has decided: the steps of a rollout's life.
LEMMA PersistCases ==
    ASSUME TypeOK, LeakInv, RestInv, RolloutInv, Persist
    PROVE  LET old == api.status  new == api'.status  steps == api.strategy.steps
           IN  \/ /\ new.phase = "RolledBack" /\ new.step = 0 /\ new.weight = 0
                  /\ new.stable = seen /\ traffic = 0
               \/ /\ old.phase = "" /\ old.stable = NoRevision
                  /\ new.phase = "Idle" /\ new.step = 0 /\ new.weight = 0
                  /\ new.stable = seen
               \/ /\ old.phase \in Over /\ new.phase = old.phase
                  /\ new.step = 0 /\ new.weight = 0
                  /\ new.stable = old.stable /\ old.stable # NoRevision
               \/ /\ old.stable # NoRevision /\ old.stable < seen
                  /\ \/ /\ old.step + 1 = Len(steps)
                        /\ new.phase = "Succeeded" /\ new.step = 0
                        /\ new.weight = steps[Len(steps)]
                        /\ new.stable = seen /\ traffic = 0
                     \/ /\ old.step + 1 < Len(steps)
                        /\ new.phase = "Progressing" /\ new.step = old.step + 1
                        /\ new.weight = steps[old.step + 2]
                        /\ new.stable = old.stable /\ traffic = new.weight
                     \/ /\ new.phase = WaitingPhase(api.strategy) /\ new.step = old.step
                        /\ new.weight = steps[old.step + 1]
                        /\ new.stable = old.stable
  <1> DEFINE old == api.status  new == api'.status  steps == api.strategy.steps
             v == verdict
  <1>1. /\ old \in Statuses /\ old.step \in Nat /\ old.stable \in Nat
        /\ steps \in Seq(1..100) /\ old.step < Len(steps)
        /\ seen \in Nat /\ seen # NoRevision /\ old.stable <= seen
        /\ Outcome(v, api.strategy, old, seen)
    BY DEF TypeOK, CanaryObjects, Statuses, StrategyRecords, RolloutInv, RolloutStatus, RolloutPass,
           StatusCoherent, LeakInv, PassIsCurrent, Persist
  <1>2. /\ new.phase = v.phase /\ new.weight = v.weight
        /\ new.step = IF v.decision \in Settling THEN 0
                      ELSE IF v.decision = "Advance" THEN old.step + 1 ELSE old.step
        /\ new.stable = IF v.decision \in Settling \/ old.stable = NoRevision
                        THEN seen ELSE old.stable
    BY <1>1, PersistRecords, UpdateStatusRecords, UpdateStatusStable DEF LeakInv
  <1>3. v.decision \in Settling => traffic = 0
    BY DEF LeakInv, WritesJustified, Clean, Persist
  <1>4. v.decision \notin Settling /\ v.phase \in Routed => traffic = v.weight
    BY DEF RestInv, WritesMade, Persist
  <1>5. CASE v = Verdict("Rollback", "RolledBack", 0)
    BY <1>2, <1>3, <1>5 DEF Verdict, Settling
  <1>6. CASE v = Verdict("Hold", "Idle", 0) /\ old.stable = NoRevision
    <2>1. old.phase = "" /\ old.step = 0
      BY <1>6 DEF RolloutInv, RolloutStatus, StatusCoherent
    <2> QED
      BY <1>2, <1>6, <2>1 DEF Verdict, Settling
  <1>7. CASE /\ v = Verdict("Hold", SettledPhase(old.phase), 0)
             /\ old.stable = seen /\ old.stable # NoRevision
    <2>1. old.phase \notin Underway
      <3>1. old.phase \in Underway => old.stable < seen
        BY DEF RolloutInv, RolloutPass, Persist
      <3> QED
        BY <1>1, <1>7, <3>1
    <2>2. old.phase \in Over
      <3>1. old.phase \in Phases /\ old.phase \notin {"", "Failed"}
        BY <1>7 DEF RolloutInv, RolloutStatus, TypeOK, CanaryObjects, Statuses
      <3> QED
        BY <2>1, <3>1 DEF Phases, Underway, Over
    <2>3. old.step = 0
      BY <2>2 DEF RolloutInv, RolloutStatus, StatusCoherent, Over
    <2>4. SettledPhase(old.phase) = old.phase
      BY <2>2 DEF SettledPhase, Over
    <2> QED
      BY <1>2, <1>7, <2>2, <2>3, <2>4 DEF Verdict, Settling
  <1>8. CASE v = MoveOn(steps, old.step) /\ old.stable \notin {NoRevision, seen}
    <2>1. CASE /\ old.step + 1 = Len(steps)
               /\ v = Verdict("Promote", "Succeeded", steps[Len(steps)])
      BY <1>1, <1>2, <1>3, <1>8, <2>1 DEF Verdict, Settling
    <2>2. CASE /\ old.step + 1 < Len(steps)
               /\ v = Verdict("Advance", "Progressing", steps[old.step + 2])
      BY <1>1, <1>2, <1>4, <1>8, <2>2 DEF Verdict, Settling, Routed
    <2> QED
      BY <1>1, <1>8, <2>1, <2>2, MoveOnCases
  <1>9. CASE /\ v = Verdict("Hold", WaitingPhase(api.strategy), steps[old.step + 1])
             /\ old.stable \notin {NoRevision, seen}
    <2>1. /\ v.decision = "Hold" /\ v.phase = WaitingPhase(api.strategy)
          /\ v.weight = steps[old.step + 1]
      BY <1>9 DEF Verdict
    <2>2. /\ new.phase = WaitingPhase(api.strategy) /\ new.step = old.step
          /\ new.weight = steps[old.step + 1] /\ new.stable = old.stable
      BY <1>2, <1>9, <2>1 DEF Settling
    <2>3. old.stable # NoRevision /\ old.stable < seen
      BY <1>1, <1>9
    <2> QED
      BY <2>2, <2>3
  <1>10. \/ v = Verdict("Rollback", "RolledBack", 0)
         \/ v = Verdict("Hold", "Idle", 0) /\ old.stable = NoRevision
         \/ /\ v = Verdict("Hold", SettledPhase(old.phase), 0)
            /\ old.stable = seen /\ old.stable # NoRevision
         \/ /\ \/ v = MoveOn(steps, old.step)
               \/ v = Verdict("Hold", WaitingPhase(api.strategy), steps[old.step + 1])
            /\ old.stable \notin {NoRevision, seen}
    BY <1>1 DEF Outcome
  <1> QED
    BY <1>5, <1>6, <1>7, <1>8, <1>9, <1>10

LEMMA InitRolloutInv == Init => RolloutInv
  <1> SUFFICES ASSUME Init PROVE RolloutInv
    OBVIOUS
  <1>1. PICK s \in Strategies :
          api = [ann |-> InitialAnnotations, strategy |-> s, gen |-> 1,
                 status |-> ZeroStatus]
    BY DEF Init
  <1>2. /\ ZeroStatus.phase = "" /\ ZeroStatus.step = 0 /\ ZeroStatus.weight = 0
        /\ ZeroStatus.stable = NoRevision
    BY Zenon DEF ZeroStatus
  <1>3. Len(s.steps) \in Nat /\ Len(s.steps) > 0
    BY ConstantsAssumption DEF StrategyRecords
  <1>4. api.status = ZeroStatus /\ api.strategy = s
    BY <1>1
  <1> QED
    BY <1>2, <1>3, <1>4
    DEF Init, RolloutInv, RolloutStatus, RolloutPass, StatusCoherent, TrafficWithinReach,
        Underway, Routed

\* A step that leaves status and plan alone keeps what is known of them, if it
\* moves no traffic to the canary.
LEMMA StatusStays ==
    ASSUME TypeOK, RolloutStatus, api'.status = api.status, api'.strategy = api.strategy,
           target' \in Nat, target <= target', traffic' \in {0, traffic}
    PROVE  RolloutStatus'
  <1>1. StatusCoherent'
    BY DEF RolloutStatus, StatusCoherent
  <1>2. TrafficWithinReach'
    BY DEF RolloutStatus, TrafficWithinReach
  <1>3. api.status.stable \in Nat /\ target \in Nat
    BY DEF TypeOK, CanaryObjects, Statuses
  <1>4. api.status.phase \in Underway => api.status.stable < target'
    <2>1. api.status.phase \in Underway => api.status.stable < target
      BY DEF RolloutStatus
    <2> QED
      BY <1>3, <2>1
  <1> QED
    BY <1>1, <1>2, <1>4 DEF RolloutStatus

\* The same for a step of a pass that keeps its verdict.
LEMMA PassStays ==
    ASSUME RolloutPass, api'.status = api.status, api'.strategy = api.strategy,
           pc' # "idle" => pc \notin {"idle", "analyse"},
           obj'.strategy = obj.strategy, UNCHANGED <<seen, verdict>>
    PROVE  RolloutPass'
  BY DEF RolloutPass, Outcome

\* The weight a pass routes to is that of the recorded step, or of the next.
LEMMA RoutedWeight ==
    ASSUME NEW strategy \in StrategyRecords, NEW status \in Statuses,
           status.step < Len(strategy.steps), NEW observed, NEW v,
           Outcome(v, strategy, status, observed),
           v.decision \notin Settling, v.phase \in Routed
    PROVE  \E i \in {status.step + 1, status.step + 2} \cap DOMAIN strategy.steps :
              v.weight = strategy.steps[i]
  <1> DEFINE steps == strategy.steps  k == status.step
  <1>1. steps \in Seq(1..100) /\ k \in Nat /\ DOMAIN steps = 1..Len(steps)
    BY DEF StrategyRecords, Statuses
  <1>2. \/ v = MoveOn(steps, k)
        \/ v = Verdict("Hold", WaitingPhase(strategy), steps[k + 1])
    BY DEF Outcome, Verdict, SettledPhase, Settling, Routed
  <1>3. CASE v = MoveOn(steps, k)
    <2>1. k + 1 < Len(steps) /\ v = Verdict("Advance", "Progressing", steps[k + 2])
      BY <1>1, <1>3, MoveOnCases DEF Verdict, Settling
    <2>2. v.weight = steps[k + 2] /\ k + 2 \in DOMAIN steps
      BY <1>1, <2>1 DEF Verdict
    <2> QED
      BY <2>2
  <1>4. CASE v = Verdict("Hold", WaitingPhase(strategy), steps[k + 1])
    <2>1. v.weight = steps[k + 1] /\ k + 1 \in DOMAIN steps
      BY <1>1, <1>4 DEF Verdict
    <2> QED
      BY <2>1
  <1> QED
    BY <1>2, <1>3, <1>4

\* Persist moves the status, and what is known of it, to the next point.
LEMMA PersistKeepsRolloutStatus ==
    ASSUME TypeOK, LeakInv, RestInv, RolloutInv, Persist
    PROVE  RolloutStatus'
  <1> DEFINE old == api.status  new == api'.status  steps == api.strategy.steps
  <1>1. /\ old \in Statuses /\ steps \in Seq(1..100) /\ target \in Nat /\ seen \in Nat
        /\ traffic \in 0..100
    BY DEF TypeOK, CanaryObjects, StrategyRecords
  <1>2. /\ old.step \in Nat /\ old.stable \in Nat
        /\ Len(steps) \in Nat /\ DOMAIN steps = 1..Len(steps)
    BY <1>1 DEF Statuses
  <1>3. old.step < Len(steps)
    BY DEF RolloutInv, RolloutStatus, StatusCoherent
  <1>4. seen # NoRevision /\ seen <= target
    BY DEF LeakInv, PassIsCurrent, Persist
  <1>5. api'.strategy = api.strategy /\ traffic' = traffic /\ target' = target
    BY PersistRecords DEF Persist, world, LeakInv
  <1> DEFINE Coherent ==
        /\ new.step \in Nat /\ new.step < Len(steps)
        /\ new.phase \in Routed \cup {"Analyzing"} => new.weight = steps[new.step + 1]
        /\ new.phase \in {"", "Idle", "RolledBack", "Failed"} =>
              new.step = 0 /\ new.weight = 0
        /\ new.phase = "Succeeded" =>
              new.step = 0 /\ new.weight \in {0, steps[Len(steps)]}
        /\ traffic # 0 =>
              \E i \in {new.step + 1, new.step + 2} \cap DOMAIN steps : traffic = steps[i]
        /\ new.phase # "Failed"
        /\ new.stable = NoRevision <=> new.phase = ""
        /\ new.phase \in Underway => new.stable < target
  <1>6. /\ old.phase \in Over => old.step = 0
        /\ traffic # 0 =>
              \E i \in {old.step + 1, old.step + 2} \cap DOMAIN steps : traffic = steps[i]
    <2>1. old.phase \in Over => old.step = 0
      BY DEF RolloutInv, RolloutStatus, StatusCoherent, Over
    <2>2. (old.step + 1) + 1 = old.step + 2
      BY <1>2
    <2> QED
      BY <2>1, <2>2 DEF RolloutInv, RolloutStatus, TrafficWithinReach
  <1>7. old.stable = NoRevision => traffic = 0 /\ old.step = 0
    BY DEF LeakInv, Clean, RolloutInv, RolloutStatus, StatusCoherent
  <1>8. WaitingPhase(api.strategy) \in Underway \ {"Progressing"}
    BY DEF WaitingPhase, Underway
  <1>9. Coherent
    <2>1. CASE /\ new.phase = "RolledBack" /\ new.step = 0 /\ new.weight = 0
               /\ new.stable = seen /\ traffic = 0
      BY <1>2, <1>3, <1>4, <2>1 DEF Routed, Underway
    <2>2. CASE /\ old.phase = "" /\ old.stable = NoRevision
               /\ new.phase = "Idle" /\ new.step = 0 /\ new.weight = 0
               /\ new.stable = seen
      BY <1>2, <1>3, <1>4, <1>7, <2>2 DEF Routed, Underway
    <2>3. CASE /\ old.phase \in Over /\ new.phase = old.phase
               /\ new.step = 0 /\ new.weight = 0
               /\ new.stable = old.stable /\ old.stable # NoRevision
      BY <1>2, <1>3, <1>6, <2>3 DEF Routed, Underway, Over
    <2>4. CASE /\ old.stable # NoRevision /\ old.stable < seen
               /\ old.step + 1 = Len(steps)
               /\ new.phase = "Succeeded" /\ new.step = 0
               /\ new.weight = steps[Len(steps)]
               /\ new.stable = seen /\ traffic = 0
      BY <1>2, <1>3, <1>4, <2>4 DEF Routed, Underway
    <2>5. CASE /\ old.stable # NoRevision /\ old.stable < seen
               /\ old.step + 1 < Len(steps)
               /\ new.phase = "Progressing" /\ new.step = old.step + 1
               /\ new.weight = steps[old.step + 2]
               /\ new.stable = old.stable /\ traffic = new.weight
      <3>1. new.stable < target /\ new.step < Len(steps) /\ new.step + 1 = old.step + 2
        BY <1>1, <1>2, <1>4, <2>5
      <3>2. new.step + 1 \in DOMAIN steps /\ traffic = steps[new.step + 1]
        BY <1>2, <2>5, <3>1
      <3> QED
        BY <1>2, <2>5, <3>1, <3>2 DEF Routed, Underway
    <2>6. CASE /\ old.stable # NoRevision /\ old.stable < seen
               /\ new.phase = WaitingPhase(api.strategy) /\ new.step = old.step
               /\ new.weight = steps[old.step + 1]
               /\ new.stable = old.stable
      <3>1. new.stable < target
        BY <1>1, <1>2, <1>4, <2>6
      <3>2. new.phase \in {"AwaitingPromotion", "Analyzing"}
        BY <1>8, <2>6 DEF Underway
      <3> QED
        BY <1>2, <1>3, <1>6, <2>6, <3>1, <3>2 DEF Routed, Underway
    <2> QED
      BY <2>1, <2>2, <2>3, <2>4, <2>5, <2>6, PersistCases
  <1>10. StatusCoherent'
    BY <1>5, <1>9 DEF StatusCoherent
  <1>11. TrafficWithinReach'
    <2>1. (new.step + 1) + 1 = new.step + 2
      <3>1. new.step \in Nat
        BY <1>9
      <3> QED
        BY <3>1
    <2>2. traffic # 0 =>
             \E i \in {new.step + 1, (new.step + 1) + 1} \cap DOMAIN steps : traffic = steps[i]
      BY <1>9, <2>1
    <2> QED
      BY <1>5, <2>2 DEF TrafficWithinReach
  <1> QED
    BY <1>5, <1>9, <1>10, <1>11 DEF RolloutStatus

\* A step that leaves the plan alone keeps the rollout in order.
LEMMA NextRolloutInv ==
    ASSUME TypeOK, LeakInv, RestInv, RolloutInv, [Next]_vars,
           api'.strategy = api.strategy
    PROVE  RolloutInv'
  <1>0. /\ api.status \in Statuses /\ api.strategy \in StrategyRecords
        /\ api.status.step < Len(api.strategy.steps) /\ target \in Nat
    BY DEF TypeOK, CanaryObjects, RolloutInv, RolloutStatus, StatusCoherent
  <1>1. CASE Begin
    <2>1. /\ api' = api /\ obj' = api /\ seen' = target /\ UNCHANGED world
          /\ \/ pc' = "analyse"
             \/ verdict' = Decide(api.ann, api.strategy, api.status, target, NotRun)
      BY <1>1 DEF Begin, BeginOn
    <2>2. RolloutStatus'
      BY <1>0, <2>1, StatusStays DEF RolloutInv, world
    <2>3. pc' # "analyse" => Outcome(verdict', api.strategy, api.status, target)
      BY <1>0, <2>1, DecideOutcome
    <2>4. api.status.phase \in Underway => api.status.stable < target
      BY DEF RolloutInv, RolloutStatus
    <2>5. RolloutPass'
      BY <2>1, <2>3, <2>4 DEF RolloutPass
    <2> QED
      BY <2>2, <2>5 DEF RolloutInv
  <1>2. ASSUME NEW r \in Readings, Analyse(r) PROVE RolloutInv'
    <2>1. /\ pc = "analyse" /\ api' = api /\ UNCHANGED <<world, obj, seen>>
          /\ verdict' = Decide(obj.ann, obj.strategy, obj.status, seen, result')
      BY <1>2 DEF Analyse
    <2>2. obj.strategy = api.strategy /\ obj.status = api.status
      BY <2>1 DEF RolloutInv, RolloutPass, LeakInv, PassIsCurrent
    <2>3. RolloutStatus'
      BY <1>0, <2>1, StatusStays DEF RolloutInv, world
    <2>4. Outcome(verdict', api.strategy, api.status, seen)
      BY <1>0, <2>1, <2>2, DecideOutcome
    <2>5. RolloutPass'
      BY <2>1, <2>2, <2>4 DEF RolloutInv, RolloutPass
    <2> QED
      BY <2>3, <2>5 DEF RolloutInv
  <1>3. CASE AnalysisFails \/ PersistFails \/ PassFails
    <2>1. pc' = "idle" /\ api' = api /\ UNCHANGED world
      BY <1>3 DEF AnalysisFails, PersistFails, PassFails, Return
    <2>2. RolloutStatus'
      BY <1>0, <2>1, StatusStays DEF RolloutInv, world
    <2> QED
      BY <2>1, <2>2 DEF RolloutInv, RolloutPass
  <1>4. CASE ResetTraffic \/ DeleteDeployment \/ DeleteService
             \/ EnsureDeployment \/ EnsureStable \/ EnsureCanary
    <2>1. /\ api' = api /\ target' = target /\ traffic' \in {0, traffic}
          /\ pc \notin {"idle", "analyse"} /\ UNCHANGED <<obj, seen, verdict>>
      BY <1>4 DEF ResetTraffic, DeleteDeployment, DeleteService,
                  EnsureDeployment, EnsureStable, EnsureCanary
    <2> QED
      BY <1>0, <2>1, StatusStays, PassStays DEF RolloutInv
  <1>5. CASE RouteTraffic
    <2>1. /\ api' = api /\ target' = target /\ traffic' = verdict.weight
          /\ pc = "route" /\ UNCHANGED <<obj, seen, verdict>>
      BY <1>5 DEF RouteTraffic
    <2>2. RolloutPass'
      BY <2>1, PassStays DEF RolloutInv
    <2>3. Outcome(verdict, api.strategy, api.status, seen)
      BY <2>1 DEF RolloutInv, RolloutPass
    <2>4. verdict.decision \notin Settling /\ verdict.phase \in Routed
      BY <2>1 DEF RestInv, WritesMade, Writing
    <2>5. \E i \in {api.status.step + 1, api.status.step + 2} \cap DOMAIN api.strategy.steps :
             traffic' = api.strategy.steps[i]
      BY <1>0, <2>1, <2>3, <2>4, RoutedWeight
    <2>6. (api.status.step + 1) + 1 = api.status.step + 2
      BY <1>0 DEF Statuses
    <2>7. TrafficWithinReach'
      BY <2>1, <2>5, <2>6 DEF TrafficWithinReach
    <2>8. RolloutStatus'
      BY <2>1, <2>7 DEF RolloutInv, RolloutStatus, StatusCoherent
    <2> QED
      BY <2>2, <2>8 DEF RolloutInv
  <1>6. CASE ClearCommands
    <2>1. /\ api'.status = api.status /\ obj'.strategy = api'.strategy
          /\ UNCHANGED <<world, seen, verdict>> /\ pc = "clear"
      BY <1>6 DEF ClearCommands, TypeOK, CanaryObjects
    <2>2. obj'.strategy = obj.strategy
      BY <2>1 DEF RolloutInv, RolloutPass
    <2> QED
      BY <1>0, <2>1, <2>2, StatusStays, PassStays DEF RolloutInv, world
  <1>7. CASE Persist
    <2>1. pc' = "idle"
      BY <1>7 DEF Persist, Return
    <2> QED
      BY <1>7, <2>1, PersistKeepsRolloutStatus DEF RolloutInv, RolloutPass
  <1>8. ASSUME NEW a \in UserAnnotations, Annotate(a) \/ Resume(a) PROVE RolloutInv'
    <2>1. api'.status = api.status /\ UNCHANGED <<world, pass>>
      BY <1>8 DEF Annotate, Resume, TypeOK, CanaryObjects
    <2> QED
      BY <1>0, <2>1, StatusStays DEF RolloutInv, RolloutPass, Outcome, world, pass
  <1>9. ASSUME NEW s \in Strategies, EditStrategy(s) PROVE RolloutInv'
    BY <1>9 DEF EditStrategy, TypeOK, CanaryObjects
  <1>10. CASE Push
    <2>1. api' = api /\ target' = target + 1 /\ UNCHANGED <<traffic, pass>>
      BY <1>10 DEF Push
    <2>2. RolloutStatus'
      BY <1>0, <2>1, StatusStays DEF RolloutInv
    <2> QED
      BY <2>1, <2>2 DEF RolloutInv, RolloutPass, Outcome, pass
  <1>11. CASE UNCHANGED vars
    <2>1. UNCHANGED <<api, world, pass>>
      BY <1>11 DEF vars
    <2> QED
      BY <1>0, <2>1, StatusStays DEF RolloutInv, RolloutPass, Outcome, world, pass
  <1> QED
    BY <1>1, <1>2, <1>3, <1>4, <1>5, <1>6, <1>7, <1>8, <1>9, <1>10, <1>11
    DEF Next, Calling, Environment

LEMMA InitFirstPlan == Init => FirstPlan
  <1>1. Init => api.gen = 1
    BY DEF Init
  <1> QED
    BY <1>1, InitRolloutInv DEF FirstPlan

\* The generation counts the edits of the plan, and nothing else edits it.
LEMMA GenerationCountsEdits ==
    ASSUME TypeOK, [Next]_vars
    PROVE  /\ api'.gen >= api.gen
           /\ api'.gen = api.gen => api'.strategy = api.strategy
  <1>0. api.gen \in Nat
    BY DEF TypeOK, CanaryObjects
  <1>1. CASE api' = api
    BY <1>0, <1>1
  <1>2. CASE ClearCommands \/ Persist
    BY <1>0, <1>2 DEF ClearCommands, Persist, TypeOK, CanaryObjects
  <1>3. ASSUME NEW a \in UserAnnotations, Annotate(a) \/ Resume(a)
        PROVE  api'.gen = api.gen /\ api'.strategy = api.strategy
    BY <1>3 DEF Annotate, Resume, TypeOK, CanaryObjects
  <1>4. ASSUME NEW s \in Strategies, EditStrategy(s) PROVE api'.gen = api.gen + 1
    BY <1>4 DEF EditStrategy, TypeOK, CanaryObjects
  <1> QED
    BY <1>0, <1>1, <1>2, <1>3, <1>4
    DEF Next, Begin, BeginOn, Calling, Analyse, AnalysisFails, ResetTraffic,
        DeleteDeployment, DeleteService, RouteTraffic, EnsureDeployment,
        EnsureStable, EnsureCanary, PersistFails, PassFails, Environment, Push, vars

LEMMA NextFirstPlan == TypeOK /\ LeakInv /\ RestInv /\ FirstPlan /\ [Next]_vars => FirstPlan'
  <1> SUFFICES ASSUME TypeOK, LeakInv, RestInv, FirstPlan, [Next]_vars PROVE FirstPlan'
    OBVIOUS
  <1>1. api.gen \in Nat /\ api.gen >= 1
    BY DEF TypeOK, CanaryObjects, FirstPlan
  <1>2. api'.gen >= api.gen /\ (api'.gen = api.gen => api'.strategy = api.strategy)
    BY GenerationCountsEdits
  <1>3. api'.gen \in Nat
    BY NextTypeOK DEF TypeOK, CanaryObjects
  <1>4. CASE api'.gen = 1
    <2>1. api.gen = 1
      BY <1>1, <1>2, <1>3, <1>4
    <2>2. RolloutInv
      BY <2>1 DEF FirstPlan
    <2>3. api'.strategy = api.strategy
      BY <1>2, <1>4, <2>1
    <2> QED
      BY <1>4, <2>2, <2>3, NextRolloutInv DEF FirstPlan
  <1>5. CASE api'.gen # 1
    BY <1>1, <1>2, <1>3, <1>5 DEF FirstPlan
  <1> QED
    BY <1>4, <1>5

\* Until the plan is edited, a rollout under way goes from a recorded stable
\* revision to a later one, and the pass in flight has decided on the status and
\* the plan that the server still holds.
THEOREM RolloutInOrder == Spec => []FirstPlan
  BY InitTypeOK, NextTypeOK, InitLeakInv, NextLeakInv, InitRestInv, NextRestInv,
     InitFirstPlan, NextFirstPlan, PTL DEF Spec

\* Until the plan is edited, the phase, the step index and the weight of the
\* status are those of one and the same step, whichever passes fail.
THEOREM StatusTellsOneStep == Spec => [](api.gen = 1 => StatusCoherent)
  <1>1. FirstPlan => (api.gen = 1 => StatusCoherent)
    BY DEF FirstPlan, RolloutInv, RolloutStatus
  <1> QED
    BY <1>1, RolloutInOrder, PTL

\* Until the plan is edited, the provider never sends the canary a share that
\* is not that of the recorded step or of the next, wherever a pass was cut
\* short between the call that moves the traffic and the one that records it.
THEOREM TrafficNeverFarAhead == Spec => [](api.gen = 1 => TrafficWithinReach)
  <1>1. FirstPlan => (api.gen = 1 => TrafficWithinReach)
    BY DEF FirstPlan, RolloutInv, RolloutStatus
  <1> QED
    BY <1>1, RolloutInOrder, PTL

-----------------------------------------------------------------------------
(* The lifecycle                                                           *)

\* Nobody edits the plan.
Unedited == [][api'.strategy = api.strategy]_vars

LEMMA InitLifecycle == Init => Lifecycle!Init
  <1> SUFFICES ASSUME Init PROVE Lifecycle!Init
    OBVIOUS
  <1>1. PICK s \in Strategies :
          api = [ann |-> InitialAnnotations, strategy |-> s, gen |-> 1,
                 status |-> ZeroStatus]
    BY DEF Init
  <1>2. /\ ZeroStatus.phase = "" /\ ZeroStatus.step = 0 /\ ZeroStatus.weight = 0
        /\ ZeroStatus.stable = NoRevision
    BY Zenon DEF ZeroStatus
  <1>3. /\ s.mode \in {"Manual", "Progressive"}
        /\ s.steps \in Seq(1..100) /\ s.steps # <<>>
    BY ConstantsAssumption DEF StrategyRecords
  <1>4. api.status = ZeroStatus /\ api.strategy = s
    BY <1>1
  <1> QED
    BY <1>2, <1>3, <1>4 DEF Lifecycle!Init, NoRevision

\* Only Persist changes what the readers of the status see.
LEMMA OthersStutter ==
    ASSUME TypeOK, [Next]_vars, api'.strategy = api.strategy
    PROVE  Persist \/ api'.status = api.status
  <1>1. CASE api' = api
    BY <1>1
  <1>2. CASE ClearCommands
    BY <1>2 DEF ClearCommands, TypeOK, CanaryObjects
  <1>3. ASSUME NEW a \in UserAnnotations, Annotate(a) \/ Resume(a)
        PROVE  api'.status = api.status
    BY <1>3 DEF Annotate, Resume, TypeOK, CanaryObjects
  <1>4. ASSUME NEW s \in Strategies, EditStrategy(s) PROVE api'.status = api.status
    BY <1>4 DEF EditStrategy, TypeOK, CanaryObjects
  <1> QED
    BY <1>1, <1>2, <1>3, <1>4
    DEF Next, Begin, BeginOn, Calling, Analyse, AnalysisFails, ResetTraffic,
        DeleteDeployment, DeleteService, RouteTraffic, EnsureDeployment,
        EnsureStable, EnsureCanary, PersistFails, PassFails, Environment, Push, vars

\* The point of the lifecycle that a pass comes to with its status.
LEMMA PersistIsLifecycleStep ==
    ASSUME TypeOK, LeakInv, RestInv, RolloutInv, Persist
    PROVE  Lifecycle!Next
  <1> DEFINE old == api.status  new == api'.status  steps == api.strategy.steps
  <1>1. /\ old \in Statuses /\ seen \in Nat /\ steps \in Seq(1..100)
        /\ api.strategy.mode \in {"Manual", "Progressive"}
    BY DEF TypeOK, CanaryObjects, StrategyRecords
  <1>2. old.step \in Nat /\ old.stable \in Nat /\ Len(steps) \in Nat
    BY <1>1 DEF Statuses
  <1>3. seen # NoRevision /\ old.stable <= seen
    BY DEF LeakInv, PassIsCurrent, Persist
  <1>4. api'.strategy = api.strategy
    BY PersistRecords DEF LeakInv
  <1>5. Lifecycle!Plan
    BY <1>4 DEF Lifecycle!Plan
  <1>6. /\ old.phase \in Over => old.step = 0
        /\ old.phase \in {"", "Failed"} => old.step = 0
    BY DEF RolloutInv, RolloutStatus, StatusCoherent, Over
  <1>7. WaitingPhase(api.strategy) = Lifecycle!Waiting
    BY <1>1 DEF WaitingPhase, Lifecycle!Waiting
  <1>8. CASE /\ new.phase = "RolledBack" /\ new.step = 0 /\ new.weight = 0
             /\ new.stable = seen /\ traffic = 0
    BY <1>1, <1>3, <1>5, <1>8 DEF Lifecycle!RollBack, Lifecycle!Next, NoRevision
  <1>9. CASE /\ old.phase = "" /\ old.stable = NoRevision
             /\ new.phase = "Idle" /\ new.step = 0 /\ new.weight = 0
             /\ new.stable = seen
    <2>1. old.step = 0 /\ old.weight = 0
      BY <1>9 DEF RolloutInv, RolloutStatus, StatusCoherent
    <2> QED
      BY <1>1, <1>3, <1>5, <1>9, <2>1 DEF Lifecycle!Seed, Lifecycle!Next, NoRevision
  <1>10. CASE /\ old.phase \in Over /\ new.phase = old.phase
              /\ new.step = 0 /\ new.weight = 0
              /\ new.stable = old.stable /\ old.stable # NoRevision
    BY <1>5, <1>6, <1>10 DEF Lifecycle!Rest, Lifecycle!Next, NoRevision, Over
  <1>11. CASE /\ old.stable # NoRevision /\ old.stable < seen
              /\ old.step + 1 = Len(steps)
              /\ new.phase = "Succeeded" /\ new.step = 0
              /\ new.weight = steps[Len(steps)]
              /\ new.stable = seen /\ traffic = 0
    BY <1>1, <1>5, <1>11 DEF Lifecycle!Succeed, Lifecycle!Next, NoRevision
  <1>12. CASE /\ old.stable # NoRevision /\ old.stable < seen
              /\ old.step + 1 < Len(steps)
              /\ new.phase = "Progressing" /\ new.step = old.step + 1
              /\ new.weight = steps[old.step + 2]
              /\ new.stable = old.stable /\ traffic = new.weight
    <2>1. new.step + 1 = old.step + 2
      BY <1>2, <1>12
    <2> QED
      BY <1>5, <1>12, <2>1 DEF Lifecycle!Advance, Lifecycle!Next, NoRevision
  <1>13. CASE /\ old.stable # NoRevision /\ old.stable < seen
              /\ new.phase = WaitingPhase(api.strategy) /\ new.step = old.step
              /\ new.weight = steps[old.step + 1]
              /\ new.stable = old.stable
    <2>1. old.phase \in Lifecycle!Underway \/ old.step = 0
      BY <1>1, <1>6 DEF Statuses, Phases, Over, Lifecycle!Underway
    <2> QED
      BY <1>5, <1>7, <1>13, <2>1 DEF Lifecycle!Wait, Lifecycle!Next, NoRevision
  <1> QED
    BY <1>8, <1>9, <1>10, <1>11, <1>12, <1>13, PersistCases

LEMMA NextLifecycle ==
    ASSUME TypeOK, LeakInv, RestInv, RolloutInv, [Next]_vars,
           [api'.strategy = api.strategy]_vars
    PROVE  [Lifecycle!Next]_(Lifecycle!vars)
  <1>1. api'.strategy = api.strategy
    BY DEF vars
  <1>2. CASE api'.status = api.status
    BY <1>1, <1>2 DEF Lifecycle!vars
  <1>3. CASE Persist
    BY <1>3, PersistIsLifecycleStep
  <1> QED
    BY <1>1, <1>2, <1>3, OthersStutter

\* Unless the plan is edited, the status goes through the life of a rollout:
\* no step is skipped or visited twice, success is reached from the last step
\* only, and the stable revision never goes back.
THEOREM StatusFollowsLifecycle == Spec /\ Unedited => KeepsLifecycle
  <1>1. RolloutInv /\ [Next]_vars /\ [api'.strategy = api.strategy]_vars
           /\ TypeOK /\ LeakInv /\ RestInv => RolloutInv'
    BY NextRolloutInv DEF vars
  <1>2. TypeOK /\ LeakInv /\ RestInv /\ RolloutInv /\ [Next]_vars
           /\ [api'.strategy = api.strategy]_vars => [Lifecycle!Next]_(Lifecycle!vars)
    BY NextLifecycle
  <1> QED
    BY <1>1, <1>2, InitTypeOK, NextTypeOK, InitLeakInv, NextLeakInv, InitRestInv, NextRestInv,
       InitRolloutInv, InitLifecycle, PTL
    DEF Spec, Unedited, KeepsLifecycle, Lifecycle!Spec
==============================================================================
