-------------------------- MODULE ReconcilerProofs --------------------------
(***************************************************************************)
(* Theorems about CanaryReconciler, for every set of strategies, every     *)
(* number of revisions, promotes and edits, and any number of failed       *)
(* passes.                                                                 *)
(***************************************************************************)
EXTENDS CanaryReconciler, SequenceTheorems, TLAPS

-----------------------------------------------------------------------------
(* What the helpers return                                                 *)

\* A merge patch onto the very status it was computed from yields the new one.
LEMMA MergePatchOfCurrent ==
    ASSUME NEW s \in Statuses, NEW t \in Statuses
    PROVE  MergePatch(s, t, s) = t
  BY DEF MergePatch, Statuses

\* Refreshing a copy that is up to date changes nothing.
LEMMA DecodeIntoSame ==
    ASSUME NEW s \in Statuses
    PROVE  DecodeInto(s, s) = s
  BY DEF DecodeInto, Statuses

\* A move off a step of the strategy is a move forward to a weight of it.
LEMMA MoveOnForward ==
    ASSUME NEW steps \in Seq(1..100), NEW i \in Nat, i < Len(steps)
    PROVE  /\ MoveOn(steps, i) \in Verdicts
           /\ MoveOn(steps, i).decision \in Forward
           /\ MoveOn(steps, i).decision = "Advance" =>
                 MoveOn(steps, i).phase = "Progressing"
           /\ MoveOn(steps, i).decision = "Promote" =>
                 MoveOn(steps, i).phase = "Succeeded"
  <1>1. CASE i + 1 >= Len(steps)
    <2>1. Len(steps) \in 1..Len(steps)
      OBVIOUS
    <2>2. steps[Len(steps)] \in 1..100
      BY <2>1, ElementOfSeq
    <2> QED
      BY <1>1, <2>2 DEF MoveOn, Verdict, Verdicts, Decisions, Phases, Forward
  <1>2. CASE ~(i + 1 >= Len(steps))
    <2>1. steps[i + 2] \in 1..100
      BY <1>2, i + 2 \in 1..Len(steps), ElementOfSeq
    <2> QED
      BY <1>2, <2>1 DEF MoveOn, Verdict, Verdicts, Decisions, Phases, Forward
  <1> QED
    BY <1>1, <1>2

\* The verdict of a Progressive pass: without an analysis it moves the rollout
\* forward only on a promote.
LEMMA DecideProgressiveVerdict ==
    ASSUME NEW ann, NEW strategy \in StrategyRecords, NEW status \in Statuses,
           NEW res \in Results, status.step < Len(strategy.steps)
    PROVE  LET v == DecideProgressive(ann, strategy, status, res)
           IN  /\ v \in Verdicts
               /\ v.decision \in Forward /\ ~res.ran => "promote" \in ann
  <1> DEFINE steps == strategy.steps
             i     == status.step
             stay  == Verdict("Hold", "Analyzing", steps[i + 1])
             back  == Verdict("Rollback", "RolledBack", 0)
             v     == DecideProgressive(ann, strategy, status, res)
  <1>1. steps \in Seq(1..100) /\ i \in Nat /\ i < Len(steps)
    BY DEF StrategyRecords, Statuses
  <1>2. steps[i + 1] \in 1..100
    BY <1>1, i + 1 \in 1..Len(steps), ElementOfSeq
  <1>3. stay \in Verdicts /\ stay.decision \notin Forward
    BY <1>2 DEF Verdict, Verdicts, Decisions, Phases, Forward
  <1>4. back \in Verdicts /\ back.decision \notin Forward
    BY DEF Verdict, Verdicts, Decisions, Phases, Forward
  <1>5. MoveOn(steps, i) \in Verdicts
    BY <1>1, MoveOnForward
  <1>6. \/ v = MoveOn(steps, i) /\ ("promote" \in ann \/ res.ran)
        \/ v = stay
        \/ v = back
    BY DEF DecideProgressive
  <1> QED
    BY <1>3, <1>4, <1>5, <1>6

LEMMA DecideManualVerdict ==
    ASSUME NEW ann, NEW steps \in Seq(1..100), NEW i \in Nat, i < Len(steps)
    PROVE  LET v == DecideManual(ann, steps, i)
           IN  /\ v \in Verdicts
               /\ v.decision \in Forward => "promote" \in ann
  <1> DEFINE await == Verdict("Hold", "AwaitingPromotion", steps[i + 1])
  <1>1. steps[i + 1] \in 1..100
    BY i + 1 \in 1..Len(steps), ElementOfSeq
  <1>2. await \in Verdicts /\ await.decision \notin Forward
    BY <1>1 DEF Verdict, Verdicts, Decisions, Phases, Forward
  <1>3. MoveOn(steps, i) \in Verdicts
    BY MoveOnForward
  <1>4. DecideManual(ann, steps, i) =
          IF "promote" \in ann THEN MoveOn(steps, i) ELSE await
    BY DEF DecideManual
  <1> QED
    BY <1>2, <1>3, <1>4

\* Holding at weight 0 is a verdict that neither routes nor moves.
LEMMA HoldAtZero ==
    ASSUME NEW phase \in {"Succeeded", "RolledBack", "Idle"}
    PROVE  LET v == Verdict("Hold", phase, 0)
           IN  v \in Verdicts /\ v.phase \notin Routed /\ v.decision \notin Forward
  <1> DEFINE v == Verdict("Hold", phase, 0)
  <1>1. phase \in Phases /\ phase \notin Routed
    BY DEF Phases, Routed
  <1>2. v.decision = "Hold" /\ v.phase = phase
    BY DEF Verdict
  <1>3. v \in Verdicts
    BY <1>1 DEF Verdict, Verdicts, Decisions
  <1>4. "Hold" \notin Forward
    BY DEF Forward
  <1> QED
    BY <1>1, <1>2, <1>3, <1>4

\* decide: what it returns is a verdict; it routes traffic only for a Canary
\* whose stable revision is recorded and is not the one the target runs; and
\* it moves forward on an analysis or a promote.
LEMMA DecideVerdict ==
    ASSUME NEW ann, NEW strategy \in StrategyRecords, NEW status \in Statuses,
           NEW observed \in Nat, NEW res \in Results
    PROVE  LET v == Decide(ann, strategy, status, observed, res)
           IN  /\ v \in Verdicts
               /\ v.decision \notin Settling /\ v.phase \in Routed =>
                     status.stable # NoRevision /\ status.stable # observed
               /\ v.decision \in Forward /\ ~res.ran => "promote" \in ann
  <1> DEFINE v == Decide(ann, strategy, status, observed, res)
             started == /\ strategy.steps # <<>>
                        /\ status.stable # NoRevision
                        /\ status.stable # observed
                        /\ status.step < Len(strategy.steps)
  <1>1. CASE "abort" \in ann
    BY <1>1 DEF Decide, DecideRollout, Verdict, Verdicts, Decisions, Phases, Forward, Settling
  <1>2. CASE "abort" \notin ann /\ (strategy.steps = <<>> \/ status.stable = NoRevision)
    <2>1. v = Verdict("Hold", "Idle", 0)
      BY <1>2 DEF Decide, DecideRollout
    <2> QED
      BY <2>1, HoldAtZero
  <1>3. CASE /\ "abort" \notin ann /\ strategy.steps # <<>>
             /\ status.stable # NoRevision /\ status.stable = observed
    <2>1. SettledPhase(status.phase) \in {"Succeeded", "RolledBack", "Idle"}
      BY DEF SettledPhase
    <2>2. v = Verdict("Hold", SettledPhase(status.phase), 0)
      BY <1>3 DEF Decide, DecideRollout
    <2> QED
      BY <2>1, <2>2, HoldAtZero
  <1>4. CASE /\ "abort" \notin ann /\ strategy.steps # <<>>
             /\ status.stable # NoRevision /\ status.stable # observed
             /\ status.step >= Len(strategy.steps)
    BY <1>4 DEF Decide, DecideRollout, Overrun, Verdict, Verdicts, Decisions, Phases, Forward,
                Settling
  <1>5. CASE "abort" \notin ann /\ started /\ strategy.mode = "Progressive"
    <2>1. v = DecideProgressive(ann, strategy, status, res)
      BY <1>5 DEF Decide, DecideRollout, StrategyRecords, Statuses
    <2> QED
      BY <1>5, <2>1, DecideProgressiveVerdict
  <1>6. CASE "abort" \notin ann /\ started /\ strategy.mode # "Progressive"
    <2>1. v = DecideManual(ann, strategy.steps, status.step)
      BY <1>6 DEF Decide, DecideRollout, StrategyRecords, Statuses
    <2>2. strategy.steps \in Seq(1..100) /\ status.step \in Nat
      BY DEF StrategyRecords, Statuses
    <2> QED
      BY <1>6, <2>1, <2>2, DecideManualVerdict
  <1>7. status.step \in Nat /\ Len(strategy.steps) \in Nat
    BY DEF Statuses, StrategyRecords
  <1> QED
    BY <1>1, <1>2, <1>3, <1>4, <1>5, <1>6, <1>7

-----------------------------------------------------------------------------
(* Types                                                                   *)

LEMMA UpdateStatusType ==
    ASSUME NEW status \in Statuses, NEW v \in Verdicts, NEW revision \in Nat,
           NEW generation \in Nat, NEW res \in Results
    PROVE  UpdateStatus(status, v, revision, generation, res) \in Statuses
  BY DEF UpdateStatus, Statuses, Verdicts, Results, NoRevision

LEMMA MergePatchType ==
    ASSUME NEW s \in Statuses, NEW t \in Statuses, NEW c \in Statuses
    PROVE  MergePatch(s, t, c) \in Statuses
  BY DEF MergePatch, Statuses

LEMMA DecodeIntoType ==
    ASSUME NEW s \in Statuses, NEW c \in Statuses
    PROVE  DecodeInto(s, c) \in Statuses
  BY DEF DecodeInto, Statuses

LEMMA EvaluatedType ==
    ASSUME NEW status \in Statuses, NEW reading
    PROVE  Evaluated(status, reading) \in Results
  BY DEF Evaluated, Statuses, Results

LEMMA PatchAnnotationsType ==
    ASSUME NEW current \in SUBSET Annotations, NEW held
    PROVE  PatchAnnotations(current, held) \in SUBSET Annotations
  BY DEF PatchAnnotations

\* The first call of a pass, and the one after its writes, are calls.
LEMMA NextCallType ==
    ASSUME NEW v, NEW copy
    PROVE  /\ AfterWrites(copy) \in {"clear", "persist"}
           /\ FirstCall(v, copy) \in {"reset", "route", "clear", "persist"}
  BY DEF FirstCall, AfterWrites

\* What the pass's locals hold when there is no pass.
LEMMA NoPassTypes ==
    /\ NoObject \in CanaryObjects
    /\ NotRun \in Results
    /\ NoVerdict \in Verdicts
    /\ ZeroStatus \in Statuses
  <1>1. ZeroStatus \in Statuses
    BY DEF ZeroStatus, Statuses, Phases, NoRevision
  <1>2. <<>> \in Seq(1..100)
    OBVIOUS
  <1>3. NoObject \in CanaryObjects
    BY <1>1, <1>2 DEF NoObject, CanaryObjects, StrategyRecords
  <1>4. NotRun \in Results
    BY DEF NotRun, Results
  <1>5. NoVerdict \in Verdicts
    BY DEF NoVerdict, Verdict, Verdicts, Decisions, Phases
  <1> QED
    BY <1>1, <1>3, <1>4, <1>5

LEMMA ReturnType ==
    ASSUME Return
    PROVE  /\ pc' = "idle" /\ obj' \in CanaryObjects /\ seen' \in Nat
           /\ result' \in Results /\ verdict' \in Verdicts
  BY NoPassTypes DEF Return, NoRevision

LEMMA InitTypeOK == Init => TypeOK
  <1> SUFFICES ASSUME Init PROVE TypeOK
    OBVIOUS
  <1>1. PICK s \in Strategies :
          api = [ann |-> InitialAnnotations, strategy |-> s, gen |-> 1,
                 status |-> ZeroStatus]
    BY DEF Init
  <1>2. api \in CanaryObjects
    BY <1>1, NoPassTypes, ConstantsAssumption DEF CanaryObjects
  <1> QED
    BY <1>2, NoPassTypes DEF Init, TypeOK, NoRevision, Calls

\* TypeOK, but for the target, which StaleReconciler deletes.
Typed ==
    /\ api \in CanaryObjects
    /\ traffic \in 0..100
    /\ deployment \in Nat
    /\ services \subseteq {"stable", "canary"}
    /\ pc \in Calls \cup {"idle"}
    /\ obj \in CanaryObjects
    /\ seen \in Nat
    /\ result \in Results
    /\ verdict \in Verdicts
    /\ failures \in Nat /\ promotes \in Nat
    /\ forwards \in Nat /\ streak \in Nat

LEMMA BeginTyped ==
    ASSUME Typed, NEW copy \in CanaryObjects, NEW revision \in Nat, BeginOn(copy, revision)
    PROVE  Typed'
  <1> USE DEF Typed
  <1> DEFINE v == Decide(copy.ann, copy.strategy, copy.status, revision, NotRun)
  <1>1. v \in Verdicts
    BY NoPassTypes, DecideVerdict DEF CanaryObjects
  <1>2. pc' \in Calls /\ verdict' \in Verdicts
    BY <1>1, NoPassTypes, NextCallType DEF BeginOn, Calls
  <1> QED
    BY <1>2, NoPassTypes DEF BeginOn, world, ghost

LEMMA StepTyped ==
    ASSUME Typed, Calling \/ PassFails \/ Environment \/ UNCHANGED vars
    PROVE  Typed'
  <1> USE DEF Typed
  <1>1. ASSUME NEW r \in Readings, Analyse(r) PROVE Typed'
    <2>1. result' \in Results
      BY <1>1, EvaluatedType DEF Analyse, CanaryObjects
    <2>2. verdict' \in Verdicts
      BY <1>1, <2>1, DecideVerdict DEF Analyse, CanaryObjects
    <2>3. pc' \in Calls
      BY <1>1, NextCallType DEF Analyse, Calls
    <2> QED
      BY <1>1, <2>1, <2>2, <2>3 DEF Analyse, world, ghost
  <1>2. CASE AnalysisFails
    BY <1>2, ReturnType DEF AnalysisFails, world, ghost
  <1>3. CASE ResetTraffic
    BY <1>3 DEF ResetTraffic, ghost, Calls
  <1>4. CASE DeleteDeployment
    BY <1>4 DEF DeleteDeployment, ghost, Calls, NoRevision
  <1>5. CASE DeleteService
    BY <1>5, NextCallType DEF DeleteService, ghost, Calls
  <1>6. CASE RouteTraffic
    BY <1>6 DEF RouteTraffic, ghost, Calls, Verdicts
  <1>7. CASE EnsureDeployment
    BY <1>7 DEF EnsureDeployment, ghost, Calls
  <1>8. CASE EnsureStable
    BY <1>8 DEF EnsureStable, ghost, Calls
  <1>9. CASE EnsureCanary
    BY <1>9, NextCallType DEF EnsureCanary, ghost, Calls
  <1>10. CASE ClearCommands
    <2>1. api' \in CanaryObjects
      BY <1>10, PatchAnnotationsType DEF ClearCommands, CanaryObjects
    <2>2. obj' \in CanaryObjects
      BY <1>10, <2>1, DecodeIntoType DEF ClearCommands, CanaryObjects
    <2> QED
      BY <1>10, <2>1, <2>2 DEF ClearCommands, world, ghost, Calls
  <1>11. CASE Persist
    <2> DEFINE new == UpdateStatus(obj.status, verdict, seen, obj.gen, result)
    <2>1. new \in Statuses
      BY UpdateStatusType DEF CanaryObjects
    <2>2. MergePatch(obj.status, new, api.status) \in Statuses
      BY <2>1, MergePatchType DEF CanaryObjects
    <2>3. api' \in CanaryObjects
      BY <1>11, <2>2 DEF Persist, CanaryObjects
    <2>4. forwards' \in Nat /\ streak' \in Nat
      BY <1>11 DEF Persist
    <2> QED
      BY <1>11, <2>3, <2>4, ReturnType DEF Persist, world
  <1>12. CASE PersistFails
    BY <1>12, ReturnType DEF PersistFails, world, ghost
  <1>13. CASE PassFails
    BY <1>13, ReturnType DEF PassFails, world, ghost
  <1>14. ASSUME NEW a \in UserAnnotations, Annotate(a) PROVE Typed'
    <2>1. api' \in CanaryObjects
      BY <1>14, ConstantsAssumption DEF Annotate, CanaryObjects
    <2> QED
      BY <1>14, <2>1 DEF Annotate, world, pass
  <1>15. ASSUME NEW a \in UserAnnotations \cap Suspensions, Resume(a)
         PROVE  Typed'
    <2>1. api' \in CanaryObjects
      BY <1>15 DEF Resume, CanaryObjects
    <2> QED
      BY <1>15, <2>1 DEF Resume, world, pass, ghost
  <1>16. ASSUME NEW s \in Strategies, EditStrategy(s) PROVE Typed'
    <2>1. s \in StrategyRecords
      BY ConstantsAssumption
    <2>2. api' = [ann |-> api.ann, strategy |-> s, gen |-> api.gen + 1,
                  status |-> api.status]
      BY <1>16 DEF EditStrategy, CanaryObjects
    <2>3. api' \in CanaryObjects
      BY <2>1, <2>2 DEF CanaryObjects
    <2> QED
      BY <1>16, <2>3 DEF EditStrategy, world, pass, ghost
  <1>17. CASE Push
    BY <1>17 DEF Push, pass, ghost
  <1>18. CASE UNCHANGED vars
    BY <1>18 DEF vars, world, pass, ghost
  <1> QED
    BY <1>1, <1>2, <1>3, <1>4, <1>5, <1>6, <1>7, <1>8, <1>9, <1>10, <1>11,
       <1>12, <1>13, <1>14, <1>15, <1>16, <1>17, <1>18
    DEF Calling, Environment

LEMMA NextTypeOK == TypeOK /\ [Next]_vars => TypeOK'
  <1> SUFFICES ASSUME TypeOK, [Next]_vars PROVE TypeOK'
    OBVIOUS
  <1>1. Typed /\ api \in CanaryObjects /\ target \in Nat \ {0}
    BY DEF TypeOK, Typed
  <1>2. Typed'
    BY <1>1, BeginTyped, StepTyped DEF Next, Begin
  <1>3. target' \in {target, target + 1}
    BY DEF Next, Begin, BeginOn, Calling, Analyse, AnalysisFails, ResetTraffic, DeleteDeployment,
           DeleteService, RouteTraffic, EnsureDeployment, EnsureStable, EnsureCanary,
           ClearCommands, Persist, PersistFails, PassFails, Environment, Annotate, Resume,
           EditStrategy, Push, vars, world
  <1> QED
    BY <1>1, <1>2, <1>3 DEF TypeOK, Typed

\* Every variable keeps the type the code gives it, whatever the passes and
\* their environment do.
THEOREM TypeCorrect == Spec => []TypeOK
  BY InitTypeOK, NextTypeOK, PTL DEF Spec

-----------------------------------------------------------------------------
(* NoLeak                                                                  *)

\* The call a pass starts its writes with, by the verdict.
LEMMA FirstCallMeaning ==
    ASSUME NEW v \in Verdicts, NEW copy
    PROVE  /\ FirstCall(v, copy) \notin {"deleteDeployment", "deleteService"}
           /\ FirstCall(v, copy) = "reset" => v.decision \in Settling
           /\ FirstCall(v, copy) \in Writing =>
                 v.decision \notin Settling /\ v.phase \in Routed
           /\ FirstCall(v, copy) \in {"clear", "persist"} =>
                 v.decision \notin Settling /\ v.phase \notin Routed
  BY DEF FirstCall, AfterWrites, Writing

\* updateStatus: what it makes of the stable revision.
LEMMA UpdateStatusStable ==
    ASSUME NEW status \in Statuses, NEW v, NEW revision, NEW generation, NEW res
    PROVE  UpdateStatus(status, v, revision, generation, res).stable =
             IF v.decision \in Settling \/ status.stable = NoRevision
             THEN revision ELSE status.stable
  BY DEF UpdateStatus

LEMMA ReturnKeepsLeakInv ==
    ASSUME LeakInv, Return, UNCHANGED <<api, world>>
    PROVE  LeakInv'
  <1> USE DEF LeakInv, world
  <1>1. PassIsCurrent' /\ WritesJustified'
    BY DEF Return, PassIsCurrent, WritesJustified, Writing
  <1>2. Clean' = Clean
    BY DEF Clean
  <1> QED
    BY <1>1, <1>2

LEMMA InitLeakInv == Init => LeakInv
  <1> SUFFICES ASSUME Init PROVE LeakInv
    OBVIOUS
  <1>1. api.status.stable = 0
    <2>1. api.status = ZeroStatus
      BY DEF Init
    <2>2. ZeroStatus.stable = 0
      BY Zenon DEF ZeroStatus, NoRevision
    <2> QED
      BY <2>1, <2>2
  <1>2. pc = "idle" /\ target = 1 /\ Clean
    BY DEF Init, Clean
  <1> QED
    BY <1>1, <1>2 DEF LeakInv, PassIsCurrent, WritesJustified, Writing

LEMMA NextLeakInv == TypeOK /\ LeakInv /\ [Next]_vars => LeakInv'
  <1> SUFFICES ASSUME TypeOK, LeakInv, [Next]_vars PROVE LeakInv'
    OBVIOUS
  <1> DEFINE stable == api.status.stable
  <1>0. /\ stable \in Nat /\ target \in Nat \ {0} /\ seen \in Nat
        /\ api.status \in Statuses /\ obj.status \in Statuses
    BY DEF TypeOK, CanaryObjects, Statuses
  <1>1. CASE Begin
    <2> DEFINE v == Decide(api.ann, api.strategy, api.status, target, NotRun)
    <2>1. /\ v \in Verdicts
          /\ v.decision \notin Settling /\ v.phase \in Routed =>
                stable \notin {NoRevision, target}
      BY NoPassTypes, DecideVerdict DEF TypeOK, CanaryObjects
    <2>2. PassIsCurrent'
      BY <1>0, <1>1 DEF Begin, BeginOn, world, LeakInv, PassIsCurrent
    <2>3. CASE Analyses(api.strategy, api.status)
      BY <1>1, <2>2, <2>3
      DEF Begin, BeginOn, world, LeakInv, WritesJustified, Writing, Clean
    <2>4. CASE ~Analyses(api.strategy, api.status)
      <3>1. verdict' = v /\ pc' = FirstCall(v, api) /\ seen' = target
        BY <1>1, <2>4 DEF Begin, BeginOn
      <3>2. WritesJustified'
        BY <1>1, <2>1, <3>1, FirstCallMeaning
        DEF Begin, BeginOn, WritesJustified
      <3> QED
        BY <1>1, <2>2, <3>2 DEF Begin, BeginOn, world, LeakInv, Clean
    <2> QED
      BY <2>3, <2>4
  <1>2. ASSUME NEW r \in Readings, Analyse(r) PROVE LeakInv'
    <2> DEFINE v == Decide(obj.ann, obj.strategy, obj.status, seen, result')
    <2>1. result' \in Results
      BY <1>0, <1>2, EvaluatedType DEF Analyse
    <2>2. /\ v \in Verdicts
          /\ v.decision \notin Settling /\ v.phase \in Routed =>
                obj.status.stable \notin {NoRevision, seen}
      BY <2>1, DecideVerdict DEF TypeOK, CanaryObjects
    <2>3. PassIsCurrent'
      BY <1>2 DEF Analyse, world, LeakInv, PassIsCurrent
    <2>4. verdict' = v /\ pc' = FirstCall(v, obj) /\ obj.status = api.status
      BY <1>2 DEF Analyse, LeakInv, PassIsCurrent
    <2>5. WritesJustified'
      BY <1>2, <2>2, <2>4, FirstCallMeaning DEF Analyse, WritesJustified
    <2> QED
      BY <1>2, <2>3, <2>5 DEF Analyse, world, LeakInv, Clean
  <1>3. CASE AnalysisFails
    BY <1>3, ReturnKeepsLeakInv DEF AnalysisFails
  <1>4. CASE ResetTraffic
    BY <1>4 DEF ResetTraffic, LeakInv, PassIsCurrent, WritesJustified, Writing, Clean
  <1>5. CASE DeleteDeployment
    BY <1>5 DEF DeleteDeployment, LeakInv, PassIsCurrent, WritesJustified, Writing, Clean
  <1>6. CASE DeleteService
    BY <1>6 DEF DeleteService, AfterWrites, LeakInv, PassIsCurrent, WritesJustified,
                Writing, Clean
  <1>7. CASE RouteTraffic
    <2>1. stable \notin {NoRevision, target}
      BY <1>0, <1>7 DEF RouteTraffic, LeakInv, PassIsCurrent, WritesJustified, Writing
    <2> QED
      BY <1>7, <2>1 DEF RouteTraffic, LeakInv, PassIsCurrent, WritesJustified, Writing
  <1>8. CASE EnsureDeployment
    <2>1. stable \notin {NoRevision, target}
      BY <1>0, <1>8 DEF EnsureDeployment, LeakInv, PassIsCurrent, WritesJustified, Writing
    <2> QED
      BY <1>8, <2>1 DEF EnsureDeployment, LeakInv, PassIsCurrent, WritesJustified, Writing
  <1>9. CASE EnsureStable
    BY <1>9 DEF EnsureStable, LeakInv, PassIsCurrent, WritesJustified, Writing, Clean
  <1>10. CASE EnsureCanary
    <2>1. stable \notin {NoRevision, target}
      BY <1>0, <1>10 DEF EnsureCanary, LeakInv, PassIsCurrent, WritesJustified, Writing
    <2> QED
      BY <1>10, <2>1 DEF EnsureCanary, AfterWrites, LeakInv, PassIsCurrent,
                         WritesJustified, Writing
  <1>11. CASE ClearCommands
    <2>1. api'.status = api.status
      BY <1>11 DEF ClearCommands, TypeOK, CanaryObjects
    <2>2. obj'.status = api.status
      BY <1>0, <1>11, <2>1, DecodeIntoSame
      DEF ClearCommands, TypeOK, CanaryObjects, LeakInv, PassIsCurrent
    <2> QED
      BY <1>11, <2>1, <2>2
      DEF ClearCommands, world, LeakInv, PassIsCurrent, WritesJustified, Writing, Clean
  <1>12. CASE Persist
    <2> DEFINE new == UpdateStatus(obj.status, verdict, seen, obj.gen, result)
    <2>1. new \in Statuses
      BY UpdateStatusType DEF TypeOK, CanaryObjects
    <2>2. api'.status = new
      BY <1>0, <1>12, <2>1, MergePatchOfCurrent
      DEF Persist, LeakInv, PassIsCurrent, TypeOK, CanaryObjects
    <2>3. api'.status.stable =
            IF verdict.decision \in Settling \/ stable = NoRevision
            THEN seen ELSE stable
      BY <1>0, <1>12, <2>2, UpdateStatusStable DEF Persist, LeakInv, PassIsCurrent
    <2>4. PassIsCurrent' /\ WritesJustified'
      BY <1>12 DEF Persist, Return, PassIsCurrent, WritesJustified, Writing
    <2>5. Clean' = Clean
      BY <1>12 DEF Persist, world, Clean
    <2>6. verdict.decision \in Settling => Clean
      BY <1>12 DEF Persist, LeakInv, WritesJustified
    <2> QED
      BY <1>0, <1>12, <2>3, <2>4, <2>5, <2>6
      DEF Persist, world, LeakInv, PassIsCurrent
  <1>13. CASE PersistFails
    BY <1>13, ReturnKeepsLeakInv DEF PersistFails
  <1>14. CASE PassFails
    BY <1>14, ReturnKeepsLeakInv DEF PassFails
  <1>15. ASSUME NEW a \in UserAnnotations,
                Annotate(a) \/ Resume(a)
         PROVE  LeakInv'
    <2>1. api'.status = api.status
      BY <1>15 DEF Annotate, Resume, TypeOK, CanaryObjects
    <2> QED
      BY <1>15, <2>1
      DEF Annotate, Resume, world, pass, LeakInv, PassIsCurrent, WritesJustified, Clean
  <1>16. ASSUME NEW s \in Strategies, EditStrategy(s) PROVE LeakInv'
    <2>1. api'.status = api.status
      BY <1>16 DEF EditStrategy, TypeOK, CanaryObjects
    <2> QED
      BY <1>16, <2>1
      DEF EditStrategy, world, pass, LeakInv, PassIsCurrent, WritesJustified, Clean
  <1>17. CASE Push
    BY <1>0, <1>17
    DEF Push, pass, LeakInv, PassIsCurrent, WritesJustified, Clean
  <1>18. CASE UNCHANGED vars
    BY <1>18
    DEF vars, world, pass, LeakInv, PassIsCurrent, WritesJustified, Clean
  <1> QED
    BY <1>1, <1>2, <1>3, <1>4, <1>5, <1>6, <1>7, <1>8, <1>9, <1>10, <1>11,
       <1>12, <1>13, <1>14, <1>15, <1>16, <1>17, <1>18
    DEF Next, Calling, Environment

\* The reason for NoLeak: what is left of a canary always belongs to a rollout
\* between two recorded revisions.
THEOREM LeftoversBelongToARollout == Spec => []LeakInv
  BY InitTypeOK, NextTypeOK, InitLeakInv, NextLeakInv, PTL DEF Spec

\* However many passes are cut short, at whatever call, and whatever is pushed,
\* edited or annotated meanwhile: a Canary whose stable revision is the one
\* its target runs has no traffic, Deployment or Service of a canary left.
THEOREM NothingLeaks == Spec => []NoLeak
  <1>1. LeakInv => NoLeak
    BY DEF LeakInv, NoLeak
  <1> QED
    BY <1>1, LeftoversBelongToARollout, PTL

-----------------------------------------------------------------------------
(* PromotesPaidFor                                                         *)

LEMMA ReturnKeepsPromoteAccount ==
    ASSUME TypeOK, PromoteAccount, Return, UNCHANGED <<api, ghost>>
    PROVE  PromoteAccount'
  <1>1. NoVerdict.decision \notin Forward
    BY DEF NoVerdict, Verdict, Forward
  <1>2. NoObject.ann = {}
    BY Zenon DEF NoObject
  <1>3. forwards \in Nat /\ promotes \in Nat
    BY DEF TypeOK
  <1> QED
    BY <1>1, <1>2, <1>3 DEF PromoteAccount, Return, ghost

LEMMA InitPromoteAccount ==
    Init /\ "promote" \notin InitialAnnotations => PromoteAccount
  <1> SUFFICES ASSUME Init, "promote" \notin InitialAnnotations
               PROVE  PromoteAccount
    OBVIOUS
  <1>1. NoVerdict.decision \notin Forward
    BY DEF NoVerdict, Verdict, Forward
  <1>2. obj.ann = {}
    BY Zenon DEF Init, NoObject
  <1>3. api.ann = InitialAnnotations
    BY DEF Init
  <1> QED
    BY <1>1, <1>2, <1>3 DEF Init, PromoteAccount

\* The verdict a pass starts its writes with moves forward without an analysis
\* only on the promote it holds, which it clears before it records the move.
LEMMA FirstCallHoldsPromote ==
    ASSUME NEW v \in Verdicts, NEW copy, NEW ran,
           v.decision \in Forward /\ ~ran => "promote" \in copy.ann
    PROVE  FirstCall(v, copy) = "persist" => ~(v.decision \in Forward /\ ~ran)
  BY DEF FirstCall, AfterWrites, Commands

LEMMA AfterWritesHoldsPromote ==
    ASSUME NEW copy, "promote" \in copy.ann
    PROVE  AfterWrites(copy) = "clear"
  BY DEF AfterWrites, Commands

LEMMA NextPromoteAccount == TypeOK /\ PromoteAccount /\ [Next]_vars => PromoteAccount'
  <1> SUFFICES ASSUME TypeOK, PromoteAccount, [Next]_vars PROVE PromoteAccount'
    OBVIOUS
  <1>0. forwards \in Nat /\ promotes \in Nat
    BY DEF TypeOK
  <1>1. CASE Begin
    <2> DEFINE v == Decide(api.ann, api.strategy, api.status, target, NotRun)
    <2>1. v \in Verdicts /\ (v.decision \in Forward => "promote" \in api.ann)
      <3>1. NotRun.ran = FALSE
        BY Zenon DEF NotRun
      <3> QED
        BY <3>1, NoPassTypes, DecideVerdict DEF TypeOK, CanaryObjects
    <2>2. CASE Analyses(api.strategy, api.status)
      <3>1. NoVerdict.decision \notin Forward
        BY DEF NoVerdict, Verdict, Forward
      <3> QED
        BY <1>0, <1>1, <2>2, <3>1 DEF Begin, BeginOn, ghost, PromoteAccount
    <2>3. CASE ~Analyses(api.strategy, api.status)
      <3>1. /\ verdict' = v /\ pc' = FirstCall(v, api) /\ obj' = api
            /\ api' = api /\ forwards' = forwards /\ promotes' = promotes
            /\ pc = "idle"
        BY <1>1, <2>3 DEF Begin, BeginOn, ghost
      <3>2. pc' = "persist" => verdict'.decision \notin Forward
        BY <2>1, <3>1, FirstCallHoldsPromote
      <3> QED
        BY <1>0, <2>1, <3>1, <3>2 DEF PromoteAccount
    <2> QED
      BY <2>2, <2>3
  <1>2. ASSUME NEW r \in Readings, Analyse(r) PROVE PromoteAccount'
    <2> DEFINE v == Decide(obj.ann, obj.strategy, obj.status, seen, result')
    <2>1. result' \in Results
      BY <1>2, EvaluatedType DEF Analyse, TypeOK, CanaryObjects
    <2>2. v \in Verdicts /\ (v.decision \in Forward /\ ~result'.ran => "promote" \in obj.ann)
      BY <2>1, DecideVerdict DEF TypeOK, CanaryObjects
    <2>3. /\ verdict' = v /\ pc' = FirstCall(v, obj) /\ obj' = obj
          /\ api' = api /\ forwards' = forwards /\ promotes' = promotes
          /\ pc = "analyse"
      BY <1>2 DEF Analyse, ghost
    <2>4. pc' = "persist" => ~(verdict'.decision \in Forward /\ ~result'.ran)
      BY <2>2, <2>3, FirstCallHoldsPromote
    <2> QED
      BY <1>0, <2>2, <2>3, <2>4 DEF PromoteAccount
  <1>3. CASE AnalysisFails
    BY <1>3, ReturnKeepsPromoteAccount DEF AnalysisFails
  <1>4. CASE ResetTraffic \/ DeleteDeployment \/ RouteTraffic
             \/ EnsureDeployment \/ EnsureStable
    BY <1>0, <1>4
    DEF ResetTraffic, DeleteDeployment, RouteTraffic, EnsureDeployment,
        EnsureStable, ghost, PromoteAccount
  <1>5. CASE DeleteService \/ EnsureCanary
    <2>1. /\ pc # "persist" /\ pc' = AfterWrites(obj)
          /\ UNCHANGED <<api, obj, result, verdict, forwards, promotes>>
      BY <1>5 DEF DeleteService, EnsureCanary, ghost
    <2>2. pc' = "persist" => "promote" \notin obj.ann
      BY <2>1, AfterWritesHoldsPromote
    <2> QED
      BY <1>0, <2>1, <2>2 DEF PromoteAccount
  <1>6. CASE ClearCommands
    <2>1. /\ pc = "clear" /\ pc' = "persist"
          /\ UNCHANGED <<result, verdict, forwards, promotes>>
      BY <1>6 DEF ClearCommands, ghost
    <2>2. api'.ann = PatchAnnotations(api.ann, obj.ann)
      BY <1>6 DEF ClearCommands, TypeOK, CanaryObjects
    <2>3. "promote" \in obj.ann => "promote" \notin api'.ann
      BY <2>2 DEF PatchAnnotations, Commands
    <2>4. "promote" \in api'.ann => "promote" \in api.ann
      BY <2>2 DEF PatchAnnotations
    <2> QED
      BY <1>0, <2>1, <2>3, <2>4 DEF PromoteAccount
  <1>7. CASE Persist
    <2>1. /\ pc = "persist" /\ pc' = "idle" /\ obj' = NoObject /\ verdict' = NoVerdict
          /\ promotes' = promotes
          /\ forwards' = IF verdict.decision \in Forward /\ ~result.ran
                         THEN forwards + 1 ELSE forwards
      BY <1>7 DEF Persist, Return
    <2>2. api'.ann = api.ann
      BY <1>7 DEF Persist, TypeOK, CanaryObjects
    <2>3. NoVerdict.decision \notin Forward
      BY DEF NoVerdict, Verdict, Forward
    <2>4. NoObject.ann = {}
      BY Zenon DEF NoObject
    <2> QED
      BY <1>0, <2>1, <2>2, <2>3, <2>4 DEF PromoteAccount
  <1>8. CASE PersistFails
    BY <1>8, ReturnKeepsPromoteAccount DEF PersistFails
  <1>9. CASE PassFails
    BY <1>9, ReturnKeepsPromoteAccount DEF PassFails
  <1>10. ASSUME NEW a \in UserAnnotations, Annotate(a) PROVE PromoteAccount'
    <2>1. /\ a \notin api.ann /\ api'.ann = api.ann \cup {a}
          /\ promotes' = IF a = "promote" THEN promotes + 1 ELSE promotes
          /\ UNCHANGED <<pc, obj, result, verdict, forwards>>
      BY <1>10 DEF Annotate, pass, TypeOK, CanaryObjects
    <2> QED
      BY <1>0, <2>1 DEF PromoteAccount
  <1>11. ASSUME NEW a \in UserAnnotations \cap Suspensions, Resume(a)
         PROVE  PromoteAccount'
    <2>1. /\ api'.ann = api.ann \ {a} /\ a # "promote"
          /\ UNCHANGED <<pc, obj, result, verdict, forwards, promotes>>
      BY <1>11 DEF Resume, pass, ghost, Suspensions, TypeOK, CanaryObjects
    <2> QED
      BY <1>0, <2>1 DEF PromoteAccount
  <1>12. ASSUME NEW s \in Strategies, EditStrategy(s) PROVE PromoteAccount'
    <2>1. /\ api'.ann = api.ann
          /\ UNCHANGED <<pc, obj, result, verdict, forwards, promotes>>
      BY <1>12 DEF EditStrategy, pass, ghost, TypeOK, CanaryObjects
    <2> QED
      BY <1>0, <2>1 DEF PromoteAccount
  <1>13. CASE Push
    BY <1>13 DEF Push, pass, ghost, PromoteAccount
  <1>14. CASE UNCHANGED vars
    BY <1>14 DEF vars, pass, ghost, PromoteAccount
  <1> QED
    BY <1>1, <1>2, <1>3, <1>4, <1>5, <1>6, <1>7, <1>8, <1>9, <1>10, <1>11,
       <1>12, <1>13, <1>14
    DEF Next, Calling, Environment

\* However the passes fail and whatever else is annotated, edited or pushed:
\* no promote annotation moves the rollout forward more than once.
THEOREM OneMovePerPromote ==
    ASSUME "promote" \notin InitialAnnotations
    PROVE  Spec => []PromotesPaidFor
  <1>1. TypeOK /\ PromoteAccount => PromotesPaidFor
    BY DEF TypeOK, PromoteAccount, PromotesPaidFor
  <1>2. Init => PromoteAccount
    BY InitPromoteAccount
  <1> QED
    BY <1>1, <1>2, InitTypeOK, NextTypeOK, NextPromoteAccount, PTL DEF Spec

\* A promote is always in one place only: on the Canary, in the hands of the
\* pass that cleared it, or spent on the one move it pays for.
THEOREM PromotesAccountedFor ==
    ASSUME "promote" \notin InitialAnnotations
    PROVE  Spec => []PromoteAccount
  BY InitPromoteAccount, InitTypeOK, NextTypeOK, NextPromoteAccount, PTL DEF Spec

-----------------------------------------------------------------------------
(* AbortOnlyByRollback                                                     *)

\* decide: an abort in the annotations it is given wins over everything.
LEMMA DecideAbort ==
    ASSUME NEW ann, NEW strategy, NEW status, NEW observed, NEW res, "abort" \in ann
    PROVE  Decide(ann, strategy, status, observed, res).decision = "Rollback"
  BY DEF Decide, Verdict

LEMMA InitAbortHeld == Init /\ "other" \in InitialAnnotations => AbortHeld
  BY DEF Init, AbortHeld

\* Clearing the commands of a copy that holds another annotation leaves that
\* annotation, and every command the copy does not hold.
LEMMA PatchAnnotationsKeeps ==
    ASSUME NEW current, NEW held, "other" \in held, NEW a \in current,
           a \notin held \/ a \notin Commands
    PROVE  a \in PatchAnnotations(current, held)
  BY DEF PatchAnnotations, Commands

LEMMA BeginHoldsAbort ==
    ASSUME AbortHeld, NEW copy, "other" \in copy.ann, NEW revision, BeginOn(copy, revision)
    PROVE  AbortHeld'
  BY DecideAbort DEF BeginOn, AbortHeld

LEMMA StepHoldsAbort ==
    ASSUME Typed, AbortHeld, Calling \/ PassFails \/ Environment \/ UNCHANGED vars
    PROVE  AbortHeld'
  <1> USE DEF AbortHeld
  <1>1. ASSUME NEW r \in Readings, Analyse(r) PROVE AbortHeld'
    BY <1>1, DecideAbort DEF Analyse
  <1>2. CASE AnalysisFails \/ PersistFails \/ PassFails
    BY <1>2 DEF AnalysisFails, PersistFails, PassFails, Return
  <1>3. CASE ResetTraffic \/ DeleteDeployment \/ DeleteService \/ RouteTraffic
             \/ EnsureDeployment \/ EnsureStable \/ EnsureCanary
    BY <1>3
    DEF ResetTraffic, DeleteDeployment, DeleteService, RouteTraffic,
        EnsureDeployment, EnsureStable, EnsureCanary
  <1>4. CASE ClearCommands
    <2>1. /\ pc = "clear" /\ pc' = "persist"
          /\ api'.ann = PatchAnnotations(api.ann, obj.ann)
          /\ obj'.ann = api'.ann
      BY <1>4 DEF ClearCommands, Typed, CanaryObjects
    <2>2. "other" \in api'.ann
      BY <2>1, PatchAnnotationsKeeps DEF Commands
    <2> QED
      BY <2>1, <2>2
  <1>5. CASE Persist
    BY <1>5 DEF Persist, Return, Typed, CanaryObjects
  <1>6. ASSUME NEW a \in UserAnnotations, Annotate(a) PROVE AbortHeld'
    BY <1>6 DEF Annotate, pass, Typed, CanaryObjects
  <1>7. ASSUME NEW a \in UserAnnotations \cap Suspensions, Resume(a)
        PROVE  AbortHeld'
    BY <1>7 DEF Resume, Suspensions, pass, Typed, CanaryObjects
  <1>8. ASSUME NEW s \in Strategies, EditStrategy(s) PROVE AbortHeld'
    BY <1>8 DEF EditStrategy, pass, Typed, CanaryObjects
  <1>9. CASE Push
    BY <1>9 DEF Push, pass
  <1>10. CASE UNCHANGED vars
    BY <1>10 DEF vars, pass
  <1> QED
    BY <1>1, <1>2, <1>3, <1>4, <1>5, <1>6, <1>7, <1>8, <1>9, <1>10
    DEF Calling, Environment

LEMMA NextAbortHeld == TypeOK /\ AbortHeld /\ [Next]_vars => AbortHeld'
  <1> SUFFICES ASSUME TypeOK, AbortHeld, [Next]_vars PROVE AbortHeld'
    OBVIOUS
  <1>1. Typed /\ "other" \in api.ann
    BY DEF TypeOK, Typed, AbortHeld
  <1> QED
    BY <1>1, BeginHoldsAbort, StepHoldsAbort DEF Next, Begin

\* A pass that holds an abort, on a Canary with an annotation of somebody
\* else's, rolls back: decide lets nothing else come first.
THEOREM HeldAbortRollsBack ==
    ASSUME "other" \in InitialAnnotations
    PROVE  Spec => []AbortHeld
  BY InitAbortHeld, InitTypeOK, NextTypeOK, NextAbortHeld, PTL DEF Spec

\* Only the call that clears the commands takes an abort off the Canary, and
\* it does so in a pass that has cleaned up.
LEMMA AbortTakenOffClean ==
    ASSUME Typed, AbortHeld, Calling \/ PassFails \/ Environment,
           pc = "clear" /\ verdict.decision \in Settling => Clean,
           "abort" \in api.ann, "abort" \notin api'.ann
    PROVE  Clean
  <1>1. CASE ClearCommands
    <2>1. pc = "clear" /\ api'.ann = PatchAnnotations(api.ann, obj.ann)
      BY <1>1 DEF ClearCommands, Typed, CanaryObjects
    <2>2. "abort" \in obj.ann
      BY <2>1, PatchAnnotationsKeeps DEF AbortHeld
    <2> QED
      BY <2>1, <2>2 DEF AbortHeld, Settling
  <1>2. CASE Persist
    BY <1>2 DEF Persist, Typed, CanaryObjects
  <1>3. ASSUME NEW a \in UserAnnotations, Annotate(a) PROVE Clean
    BY <1>3 DEF Annotate, Typed, CanaryObjects
  <1>4. ASSUME NEW a \in UserAnnotations \cap Suspensions, Resume(a) PROVE Clean
    BY <1>4 DEF Resume, Suspensions, Typed, CanaryObjects
  <1>5. ASSUME NEW s \in Strategies, EditStrategy(s) PROVE Clean
    BY <1>5 DEF EditStrategy, Typed, CanaryObjects
  <1>6. ~UNCHANGED api
    OBVIOUS
  <1> QED
    BY <1>1, <1>2, <1>3, <1>4, <1>5, <1>6
    DEF Calling, Analyse, AnalysisFails, ResetTraffic,
        DeleteDeployment, DeleteService, RouteTraffic, EnsureDeployment,
        EnsureStable, EnsureCanary, PersistFails, PassFails, Environment, Push

\* On a Canary with an annotation of somebody else's, an abort is taken off
\* only once traffic and workload are back to stable, whatever fails and
\* whichever other commands race it.
THEOREM AbortNotLostToPromote ==
    ASSUME "other" \in InitialAnnotations
    PROVE  Spec => AbortOnlyByRollback
  <1>1. Init => AbortHeld
    BY InitAbortHeld
  <1>2. TypeOK /\ LeakInv /\ AbortHeld /\ [Next]_vars =>
          [ "abort" \in api.ann /\ "abort" \notin api'.ann => Clean ]_vars
    <2> SUFFICES ASSUME TypeOK, LeakInv, AbortHeld, Next,
                        "abort" \in api.ann, "abort" \notin api'.ann
                 PROVE  Clean
      OBVIOUS
    <2>1. Typed /\ (pc = "clear" /\ verdict.decision \in Settling => Clean)
      BY DEF TypeOK, Typed, LeakInv, WritesJustified
    <2>2. ~Begin
      BY DEF Begin, BeginOn
    <2> QED
      BY <2>1, <2>2, AbortTakenOffClean DEF Next
  <1> QED
    BY <1>1, <1>2, InitTypeOK, NextTypeOK, InitLeakInv, NextLeakInv,
       NextAbortHeld, PTL DEF Spec, AbortOnlyByRollback
=============================================================================
