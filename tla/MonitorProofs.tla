---------------------------- MODULE MonitorProofs ----------------------------
(***************************************************************************)
(* Theorems about MonitoredReconciler, for any metrics, answers and        *)
(* providers: that the analysis loop and the telemetry implement the       *)
(* reconciler whose analysis is one reading, and what gauges and counters  *)
(* show.                                                                   *)
(***************************************************************************)
EXTENDS MonitoredReconciler, LifecycleProofs, FiniteSetTheorems

-----------------------------------------------------------------------------
(* The inductive invariants                                                *)

\* What the loop over the metrics has in its hands.
LoopInv == checks.done \in Nat /\ checks.failedThisRun \in Nat /\ checks.encodable \in BOOLEAN

\* Telemetry is due at the end of a pass only: an end is counted after the
\* clean-up, and phase and weight are shown ahead of the status.
ReportInv ==
    /\ report \in {"none", "count", "zeroed", "shown"}
    /\ report = "count" => pc \in {"clear", "persist"}
    /\ report \in {"zeroed", "shown"} => pc = "persist"

\* The gauges of one phase.
Shown(phase, weight) == [phases |-> {phase}, weight |-> weight]

\* The strengthening of GaugeTellsStatus: what the gauges show in the middle of
\* a pass is its verdict once it is shown, and before that what they showed
\* when it began.
GaugeInv ==
    /\ gauge \in [phases: {{}} \cup {{p} : p \in Phases}, weight: 0..100]
    /\ unwritten \in BOOLEAN
    /\ report = "zeroed" => gauge.phases = {}
    /\ report = "shown" => gauge = Shown(verdict.phase, verdict.weight)
    /\ report \in {"none", "count"} /\ gauge # NoSeries /\ ~unwritten =>
          gauge = Shown(api.status.phase, api.status.weight)

\* The strengthening of EndsAreCounted.
CountInv == surplus \in Int /\ EndsAreCounted

-----------------------------------------------------------------------------
(* The loop is a reading                                                   *)

\* The reading that stands for what a loop has summed up.
ReadingOf(c) ==
    IF c.failedThisRun = 0 THEN IF c.encodable THEN "inRange" ELSE "nan"
    ELSE IF c.encodable THEN "outOfRange" ELSE "infinite"

LEMMA SummedIsEvaluated ==
    ASSUME NEW c, NEW status, c.encodable \in BOOLEAN
    PROVE  /\ ReadingOf(c) \in ReadingKinds \ {"error"}
           /\ Summed(status, c) = Evaluated(status, ReadingOf(c))
  BY DEF ReadingOf, ReadingKinds, Summed, Evaluated, Missed, Unencodable

LEMMA NoChecksTypes ==
    NoChecks.done \in Nat /\ NoChecks.failedThisRun \in Nat /\ NoChecks.encodable \in BOOLEAN
  BY DEF NoChecks

LEMMA InitLoopInv == MonitorInit => LoopInv
  BY NoChecksTypes DEF MonitorInit, LoopInv

LEMMA NextLoopInv == LoopInv /\ [MonitorNext]_monitorVars => LoopInv'
  <1> SUFFICES ASSUME LoopInv, [MonitorNext]_monitorVars PROVE LoopInv'
    OBVIOUS
  <1>1. CASE checks' = checks
    BY <1>1 DEF LoopInv
  <1>2. CASE checks' = NoChecks
    BY <1>2, NoChecksTypes DEF LoopInv
  <1>3. ASSUME NEW p \in Providers, NEW r \in Answers, Check(p, r) PROVE LoopInv'
    <2>1. checks' = Checked(checks, Metrics, Query(p, r))
      BY <1>3 DEF Check
    <2> QED
      BY <2>1 DEF LoopInv, Checked
  <1> QED
    BY <1>1, <1>2, <1>3
    DEF MonitorNext, MonitorBegin, MonitorCalling, CheckFails, Conclude, DeleteServiceAndCount,
        CountEnd, ZeroPhases, ShowPhase, PersistShown, PersistShownFails, MonitorPassFails,
        Restart, monitorVars, loop

\* Every step is one of the reconciler, or changes nothing of it.
LEMMA MonitorStep ==
    Readings = ReadingKinds /\ LoopInv /\ [MonitorNext]_monitorVars => [Next]_vars
  <1> SUFFICES ASSUME Readings = ReadingKinds, LoopInv, [MonitorNext]_monitorVars
               PROVE  Next \/ UNCHANGED vars
    OBVIOUS
  <1>1. CASE MonitorBegin \/ MonitorCalling
    BY <1>1 DEF MonitorBegin, MonitorCalling, Next, Calling
  <1>2. ASSUME NEW p \in Providers, NEW r \in Answers, Check(p, r) PROVE UNCHANGED vars
    BY <1>2 DEF Check
  <1>3. ASSUME NEW p \in Providers, NEW r \in Answers, CheckFails(p, r) PROVE Next
    BY <1>3 DEF CheckFails, AnalysisFails, ReadingKinds, Next, Calling
  <1>4. ASSUME Conclude PROVE Next
    <2>1. /\ ReadingOf(checks) \in Readings /\ ReadingOf(checks) # "error"
          /\ Summed(obj.status, checks) = Evaluated(obj.status, ReadingOf(checks))
      BY SummedIsEvaluated DEF LoopInv
    <2>2. Analyse(ReadingOf(checks))
      BY <1>4, <2>1 DEF Conclude, Analyse
    <2> QED
      BY <2>1, <2>2 DEF Next, Calling
  <1>5. CASE DeleteServiceAndCount \/ PersistShown \/ PersistShownFails
    BY <1>5 DEF DeleteServiceAndCount, PersistShown, PersistShownFails, Next, Calling
  <1>6. CASE CountEnd \/ ZeroPhases \/ ShowPhase
    BY <1>6 DEF CountEnd, ZeroPhases, ShowPhase
  <1>7. CASE MonitorPassFails \/ Restart \/ Environment
    BY <1>7 DEF MonitorPassFails, Restart, Next
  <1>8. CASE UNCHANGED monitorVars
    BY <1>8 DEF monitorVars
  <1> QED
    BY <1>1, <1>2, <1>3, <1>4, <1>5, <1>6, <1>7, <1>8 DEF MonitorNext

\* The loop over the metrics is one of the readings of the reconciler, whatever
\* the values, the bounds and the order they come in, and telemetry has no part
\* in what a pass does: so all that is proved of CanaryReconciler holds of the
\* pass in detail.
THEOREM MonitorImplementsReconciler ==
    ASSUME Readings = ReadingKinds
    PROVE  MonitorSpec => ImplementsReconciler
  <1>1. MonitorInit => Init
    BY DEF MonitorInit
  <1>2. LoopInv /\ [MonitorNext]_monitorVars => [Next]_vars
    BY MonitorStep
  <1> QED
    BY <1>1, <1>2, InitLoopInv, NextLoopInv, PTL DEF MonitorSpec, ImplementsReconciler, Spec

-----------------------------------------------------------------------------
(* When telemetry is due                                                   *)

LEMMA InitReportInv == MonitorInit => ReportInv
  BY DEF MonitorInit, ReportInv

\* The end of a pass leaves no telemetry due.
LEMMA NextReportInv == ReportInv /\ [MonitorNext]_monitorVars => ReportInv'
  <1> SUFFICES ASSUME ReportInv, [MonitorNext]_monitorVars PROVE ReportInv'
    OBVIOUS
  <1> USE DEF ReportInv
  <1>1. CASE report' = "none"
    BY <1>1
  <1>2. CASE pc' = pc /\ report' = report
    BY <1>2
  <1>3. CASE MonitorBegin \/ Conclude
    BY <1>3 DEF MonitorBegin, Begin, BeginOn, Conclude, telemetry
  <1>4. CASE MonitorCalling
    BY <1>4 DEF MonitorCalling, telemetry
  <1>5. ASSUME NEW p \in Providers, NEW r \in Answers, Check(p, r) \/ CheckFails(p, r)
        PROVE  ReportInv'
    BY <1>5 DEF Check, CheckFails, telemetry, vars, pass
  <1>6. CASE DeleteServiceAndCount
    BY <1>6, NextCallType DEF DeleteServiceAndCount, DeleteService
  <1>7. CASE ZeroPhases \/ ShowPhase
    BY <1>7 DEF ZeroPhases, ShowPhase, vars, pass
  <1>8. CASE Environment /\ UNCHANGED <<loop, telemetry>>
    BY <1>8 DEF Environment, Annotate, Resume, EditStrategy, Push, telemetry, pass
  <1> QED
    BY <1>1, <1>2, <1>3, <1>4, <1>5, <1>6, <1>7, <1>8
    DEF MonitorNext, CountEnd, PersistShown, PersistShownFails, MonitorPassFails, Restart,
        monitorVars, vars, pass, telemetry

-----------------------------------------------------------------------------
(* EndsAreCounted                                                          *)

\* What a pass past its clean-up or its routing has to count.
CountDue == IF pc \in {"clear", "persist"} /\ report # "count" THEN Ends(verdict) ELSE 0

LEMMA EndsOf ==
    ASSUME NEW v
    PROVE  Ends(v) \in {0, 1} /\ (v.decision \notin Settling => Ends(v) = 0)
  BY DEF Ends

\* More passes cut short leave more room.
LEMMA RoomToCount ==
    ASSUME NEW due \in {0, 1}, NEW sum \in Int, NEW f \in Nat, NEW g \in Nat, g >= f,
           due <= sum, sum <= due + f
    PROVE  sum <= due + g
  OBVIOUS

LEMMA InitCountInv == MonitorInit => CountInv
  <1> SUFFICES ASSUME MonitorInit PROVE CountInv
    OBVIOUS
  <1>1. surplus = 0 /\ failures = 0 /\ pc = "idle"
    BY DEF MonitorInit, Init
  <1>2. CountDue = 0
    BY <1>1 DEF CountDue
  <1>3. surplus \in Int /\ CountDue <= surplus /\ surplus <= CountDue + failures
    BY <1>1, <1>2
  <1> QED
    BY <1>3 DEF CountInv, EndsAreCounted, CountDue

\* A step that leaves what is due and the counters as they are.
LEMMA SameCount ==
    ASSUME TypeOK, CountInv, CountDue' = CountDue, surplus' = surplus,
           failures' \in Nat, failures' >= failures
    PROVE  CountInv'
  <1>1. CountDue \in {0, 1} /\ CountDue' \in {0, 1}
    BY EndsOf DEF CountDue
  <1>2. surplus \in Int /\ CountDue <= surplus /\ surplus <= CountDue + failures
    BY DEF CountInv, EndsAreCounted, CountDue
  <1>3. failures \in Nat
    BY DEF TypeOK
  <1>4. surplus <= CountDue + failures'
    BY <1>1, <1>2, <1>3, RoomToCount
  <1>5. /\ surplus' \in Int /\ CountDue' <= surplus'
        /\ surplus' <= CountDue' + failures'
    BY <1>2, <1>4
  <1> QED
    BY <1>5 DEF CountInv, EndsAreCounted, CountDue

\* The verdict a pass decides on is not due to be counted before its clean-up.
LEMMA DecidedNotDue ==
    ASSUME NEW v \in Verdicts, NEW copy, pc' = FirstCall(v, copy), verdict' = v
    PROVE  CountDue' = 0
  BY FirstCallMeaning, EndsOf DEF CountDue

LEMMA NextCountInv ==
    TypeOK /\ TypeOK' /\ LeakInv /\ ReportInv /\ CountInv /\ [MonitorNext]_monitorVars
       => CountInv'
  <1> SUFFICES ASSUME TypeOK, TypeOK', LeakInv, ReportInv, CountInv, [MonitorNext]_monitorVars
               PROVE  CountInv'
    OBVIOUS
  <1>1. /\ CountDue \in {0, 1} /\ CountDue' \in {0, 1} /\ surplus \in Int
        /\ failures \in Nat /\ failures' \in Nat
        /\ CountDue <= surplus /\ surplus <= CountDue + failures
    BY EndsOf DEF CountInv, EndsAreCounted, CountDue, TypeOK
  <1>2. ASSUME surplus' \in Int, CountDue' <= surplus', surplus' <= CountDue' + failures'
        PROVE  CountInv'
    BY <1>2 DEF CountInv, EndsAreCounted, CountDue
  <1>3. CASE MonitorBegin
    <2> DEFINE v == Decide(api.ann, api.strategy, api.status, target, NotRun)
    <2>1. v \in Verdicts
      BY NoPassTypes, DecideVerdict DEF TypeOK, CanaryObjects
    <2>2. /\ pc = "idle" /\ surplus' = surplus /\ failures' = failures
          /\ pc' = "analyse" \/ (pc' = FirstCall(v, api) /\ verdict' = v)
      BY <1>3 DEF MonitorBegin, Begin, BeginOn, telemetry
    <2>3. CountDue' = 0 /\ CountDue = 0
      BY <2>1, <2>2, DecidedNotDue DEF CountDue
    <2> QED
      BY <1>1, <2>2, <2>3, SameCount
  <1>4. CASE Conclude
    <2> DEFINE v == Decide(obj.ann, obj.strategy, obj.status, seen, result')
    <2>1. /\ pc = "analyse" /\ surplus' = surplus /\ failures' = failures
          /\ pc' = FirstCall(v, obj) /\ verdict' = v
      BY <1>4 DEF Conclude, telemetry
    <2>2. v \in Verdicts
      BY <2>1 DEF TypeOK
    <2>3. CountDue' = 0 /\ CountDue = 0
      BY <2>1, <2>2, DecidedNotDue DEF CountDue
    <2> QED
      BY <1>1, <2>1, <2>3, SameCount
  <1>5. CASE MonitorCalling
    <2>1. /\ report = "none" /\ report' = "none" /\ surplus' = surplus
          /\ failures' = failures /\ verdict' = verdict
      BY <1>5 DEF MonitorCalling, telemetry, ResetTraffic, DeleteDeployment, RouteTraffic,
                  EnsureDeployment, EnsureStable, EnsureCanary, ClearCommands
    <2>2. CASE ResetTraffic \/ DeleteDeployment \/ RouteTraffic \/ EnsureDeployment
               \/ EnsureStable \/ ClearCommands
      BY <1>1, <2>1, <2>2, SameCount
      DEF ResetTraffic, DeleteDeployment, RouteTraffic, EnsureDeployment, EnsureStable,
          ClearCommands, CountDue
    <2>3. CASE EnsureCanary
      <3>1. pc = "ensureCanary" /\ verdict.decision \notin Settling
        BY <2>3 DEF EnsureCanary, LeakInv, WritesJustified, Writing
      <3>2. CountDue = 0 /\ CountDue' = 0
        BY <2>1, <3>1, EndsOf DEF CountDue
      <3> QED
        BY <1>1, <2>1, <3>2, SameCount
    <2> QED
      BY <1>5, <2>2, <2>3 DEF MonitorCalling
  <1>6. ASSUME NEW p \in Providers, NEW r \in Answers, Check(p, r) \/ CheckFails(p, r)
        PROVE  CountInv'
    <2>1. /\ pc = "analyse" /\ pc' \in {"analyse", "idle"}
          /\ surplus' = surplus /\ failures' = failures
      BY <1>6 DEF Check, CheckFails, telemetry, vars, pass, Return
    <2> QED
      BY <1>1, <2>1, SameCount DEF CountDue
  <1>7. CASE DeleteServiceAndCount
    <2>1. /\ pc = "deleteService" /\ report' = "count"
          /\ surplus' = surplus /\ failures' = failures
      BY <1>7 DEF DeleteServiceAndCount, DeleteService
    <2> QED
      BY <1>1, <2>1, SameCount DEF CountDue
  <1>8. CASE CountEnd
    <2>1. /\ report = "count" /\ report' = "none" /\ pc \in {"clear", "persist"}
          /\ surplus' = surplus + Ends(verdict)
          /\ pc' = pc /\ verdict' = verdict /\ failures' = failures
      BY <1>8 DEF CountEnd, ReportInv, vars, pass
    <2>2. CountDue = 0 /\ CountDue' = Ends(verdict) /\ Ends(verdict) \in {0, 1}
      BY <2>1, EndsOf DEF CountDue
    <2>3. /\ surplus' \in Int /\ CountDue' <= surplus'
          /\ surplus' <= CountDue' + failures'
      BY <1>1, <2>1, <2>2
    <2> QED
      BY <1>2, <2>3
  <1>9. CASE ZeroPhases \/ ShowPhase
    <2>1. /\ report # "count" /\ report' # "count" /\ surplus' = surplus
          /\ pc' = pc /\ verdict' = verdict /\ failures' = failures
      BY <1>9 DEF ZeroPhases, ShowPhase, vars, pass
    <2> QED
      BY <1>1, <2>1, SameCount DEF CountDue
  <1>10. CASE PersistShown \/ PersistShownFails
    <2>1. /\ pc = "persist" /\ pc' = "idle" /\ report = "shown" /\ failures' = failures
          /\ surplus' = IF verdict.decision \in Settling THEN surplus - 1 ELSE surplus
      BY <1>10 DEF PersistShown, PersistShownFails, Persist, PersistFails, Return
    <2>2. CountDue' = 0 /\ CountDue = IF verdict.decision \in Settling THEN 1 ELSE 0
      BY <2>1 DEF CountDue, Ends
    <2>3. /\ surplus' \in Int /\ CountDue' <= surplus'
          /\ surplus' <= CountDue' + failures'
      BY <1>1, <2>1, <2>2
    <2> QED
      BY <1>2, <2>3
  <1>11. CASE MonitorPassFails
    <2>1. pc' = "idle" /\ surplus' = surplus /\ failures' = failures + 1
      BY <1>11 DEF MonitorPassFails, PassFails, Return
    <2>2. CountDue' = 0
      BY <2>1 DEF CountDue
    <2>3. /\ surplus' \in Int /\ CountDue' <= surplus'
          /\ surplus' <= CountDue' + failures'
      BY <1>1, <2>1, <2>2
    <2> QED
      BY <1>2, <2>3
  <1>12. CASE Restart
    <2>1. pc' = "idle" /\ surplus' = 0
      BY <1>12 DEF Restart, PassFails, Return
    <2>2. CountDue' = 0
      BY <2>1 DEF CountDue
    <2>3. \A n \in Nat : 0 <= 0 + n
      OBVIOUS
    <2>4. surplus' \in Int /\ CountDue' <= surplus'
      BY <2>1, <2>2
    <2>5. surplus' <= CountDue' + failures'
      BY <1>1, <2>1, <2>2, <2>3, Zenon
    <2> QED
      BY <1>2, <2>4, <2>5
  <1>13. CASE (Environment /\ UNCHANGED <<loop, telemetry>>) \/ UNCHANGED monitorVars
    <2>1. UNCHANGED <<pc, verdict, report, surplus, failures>>
      BY <1>13 DEF Environment, Annotate, Resume, EditStrategy, Push, telemetry, pass,
                   monitorVars, vars
    <2> QED
      BY <1>1, <2>1, SameCount DEF CountDue
  <1> QED
    BY <1>3, <1>4, <1>5, <1>6, <1>7, <1>8, <1>9, <1>10, <1>11, <1>12, <1>13 DEF MonitorNext

\* A rollback or a promotion whose status is recorded has been counted, and one
\* is counted again for a pass that failed on its way from the count to the
\* status and for no other: every status a pass settles on takes one off what
\* was counted before it, for any number of passes cut short.
THEOREM EveryEndIsCounted ==
    ASSUME Readings = ReadingKinds
    PROVE  MonitorSpec => []EndsAreCounted
  <1>1. MonitorInit => TypeOK /\ LeakInv /\ LoopInv /\ ReportInv /\ CountInv
    BY InitTypeOK, InitLeakInv, InitLoopInv, InitReportInv, InitCountInv DEF MonitorInit
  <1>2. /\ TypeOK /\ LeakInv /\ LoopInv /\ ReportInv /\ CountInv
        /\ [MonitorNext]_monitorVars
        => (TypeOK /\ LeakInv /\ LoopInv /\ ReportInv /\ CountInv)'
    BY MonitorStep, NextTypeOK, NextLeakInv, NextLoopInv, NextReportInv, NextCountInv
  <1>3. CountInv => EndsAreCounted
    BY DEF CountInv
  <1> QED
    BY <1>1, <1>2, <1>3, PTL DEF MonitorSpec

-----------------------------------------------------------------------------
(* GaugeTellsStatus                                                        *)

LEMMA NoSeriesTypes ==
    NoSeries \in [phases: {{}} \cup {{p} : p \in Phases}, weight: 0..100]
  BY DEF NoSeries

LEMMA InitGaugeInv == MonitorInit => GaugeInv
  BY NoSeriesTypes DEF MonitorInit, GaugeInv

\* A step between two calls of a pass.
LEMMA SameGauge ==
    ASSUME GaugeInv, UNCHANGED <<gauge, unwritten>>, report' \in {"none", "count"},
           report \in {"none", "count"}, api'.status = api.status
    PROVE  GaugeInv'
  BY DEF GaugeInv, Shown, NoSeries

LEMMA NextGaugeInv ==
    TypeOK /\ LeakInv /\ ReportInv /\ GaugeInv /\ [MonitorNext]_monitorVars => GaugeInv'
  <1> SUFFICES ASSUME TypeOK, LeakInv, ReportInv, GaugeInv, [MonitorNext]_monitorVars
               PROVE  GaugeInv'
    OBVIOUS
  <1>1. api \in CanaryObjects /\ verdict \in Verdicts
    BY DEF TypeOK
  <1>2. report \in {"none", "count", "zeroed", "shown"}
    BY DEF ReportInv
  <1>3. CASE MonitorBegin \/ Conclude
    <2>1. report \in {"none", "count"}
      BY <1>3 DEF MonitorBegin, Begin, BeginOn, Conclude, ReportInv
    <2>2. UNCHANGED <<api, gauge, unwritten, report>>
      BY <1>3 DEF MonitorBegin, Begin, BeginOn, Conclude, telemetry
    <2> QED
      BY <2>1, <2>2, SameGauge
  <1>4. CASE MonitorCalling
    <2>1. report = "none" /\ UNCHANGED <<gauge, unwritten, report>>
      BY <1>4 DEF MonitorCalling, telemetry
    <2>2. CASE UNCHANGED api
      BY <2>1, <2>2, SameGauge
    <2>3. CASE ClearCommands
      <3>1. api'.status = api.status
        BY <1>1, <2>3 DEF ClearCommands, CanaryObjects
      <3> QED
        BY <2>1, <3>1, SameGauge
    <2> QED
      BY <1>4, <2>2, <2>3
      DEF MonitorCalling, ResetTraffic, DeleteDeployment, RouteTraffic, EnsureDeployment,
          EnsureStable, EnsureCanary
  <1>5. ASSUME NEW p \in Providers, NEW r \in Answers, Check(p, r) \/ CheckFails(p, r)
        PROVE  GaugeInv'
    <2>1. /\ report \in {"none", "count"}
          /\ UNCHANGED <<api, gauge, unwritten, report>>
      BY <1>5 DEF Check, CheckFails, telemetry, vars, ReportInv
    <2> QED
      BY <2>1, SameGauge
  <1>6. CASE DeleteServiceAndCount
    <2>1. report \in {"none", "count"} /\ report' = "count"
      BY <1>6 DEF DeleteServiceAndCount, DeleteService, ReportInv
    <2>2. UNCHANGED <<api, gauge, unwritten>>
      BY <1>6 DEF DeleteServiceAndCount, DeleteService
    <2> QED
      BY <2>1, <2>2, SameGauge
  <1>7. CASE CountEnd
    <2>1. /\ report = "count" /\ report' = "none"
          /\ UNCHANGED <<api, gauge, unwritten>>
      BY <1>7 DEF CountEnd, vars
    <2> QED
      BY <2>1, SameGauge
  <1>8. CASE ZeroPhases
    <2>1. /\ report' = "zeroed" /\ unwritten' = unwritten
          /\ gauge' = [gauge EXCEPT !.phases = {}]
      BY <1>8 DEF ZeroPhases
    <2> QED
      BY <2>1 DEF GaugeInv
  <1>9. CASE ShowPhase
    <2>1. /\ report = "zeroed" /\ report' = "shown"
          /\ unwritten' = unwritten /\ verdict' = verdict
          /\ gauge' = [phases |-> gauge.phases \cup {verdict.phase},
                       weight |-> verdict.weight]
      BY <1>9 DEF ShowPhase, vars, pass
    <2>2. gauge' = Shown(verdict.phase, verdict.weight)
      BY <2>1 DEF GaugeInv, Shown
    <2>3. /\ verdict.phase \in Phases /\ verdict.weight \in 0..100
          /\ unwritten \in BOOLEAN
      BY <1>1 DEF Verdicts, GaugeInv
    <2>4. gauge' \in [phases: {{}} \cup {{p} : p \in Phases}, weight: 0..100]
      BY <2>2, <2>3 DEF Shown
    <2> QED
      BY <2>1, <2>2, <2>3, <2>4 DEF GaugeInv
  <1>10. CASE PersistShown
    <2>1. /\ report = "shown" /\ report' = "none" /\ Persist
          /\ unwritten' = FALSE /\ gauge' = gauge
      BY <1>10 DEF PersistShown
    <2>2. api'.status = UpdateStatus(api.status, verdict, seen, obj.gen, result)
      BY <2>1, PersistRecords DEF LeakInv
    <2>3. api'.status.phase = verdict.phase /\ api'.status.weight = verdict.weight
      BY <2>2, UpdateStatusRecords
    <2>4. gauge = Shown(verdict.phase, verdict.weight)
      BY <2>1 DEF GaugeInv
    <2> QED
      BY <2>1, <2>3, <2>4 DEF GaugeInv
  <1>11. CASE PersistShownFails \/ MonitorPassFails
    <2>1. /\ report' = "none" /\ gauge' = gauge /\ api' = api /\ unwritten' \in BOOLEAN
          /\ unwritten \/ report = "shown" => unwritten'
          /\ report # "zeroed"
      BY <1>11 DEF PersistShownFails, PersistFails, MonitorPassFails, PassFails, GaugeInv
    <2> QED
      BY <1>2, <2>1 DEF GaugeInv, NoSeries
  <1>12. CASE Restart
    <2>1. report' = "none" /\ gauge' = NoSeries /\ unwritten' = FALSE
      BY <1>12 DEF Restart
    <2>2. gauge' \in [phases: {{}} \cup {{p} : p \in Phases}, weight: 0..100]
      BY <2>1, NoSeriesTypes
    <2> QED
      BY <2>1, <2>2 DEF GaugeInv, NoSeries
  <1>13. CASE (Environment /\ UNCHANGED <<loop, telemetry>>) \/ UNCHANGED monitorVars
    <2>1. UNCHANGED <<verdict, report, gauge, unwritten>>
      BY <1>13 DEF Environment, Annotate, Resume, EditStrategy, Push, telemetry, pass,
                   monitorVars, vars
    <2>2. api'.status = api.status
      BY <1>1, <1>13 DEF Environment, Annotate, Resume, EditStrategy, Push, CanaryObjects,
                         monitorVars, vars
    <2> QED
      BY <2>1, <2>2 DEF GaugeInv, Shown, NoSeries
  <1> QED
    BY <1>3, <1>4, <1>5, <1>6, <1>7, <1>8, <1>9, <1>10, <1>11, <1>12, <1>13 DEF MonitorNext

\* No dashboard shows a Canary in two phases, and one that is not being
\* reconciled is shown in the phase and at the weight of its status, unless the
\* last pass to show them did not write it.
THEOREM GaugesAgreeWithStatus ==
    ASSUME Readings = ReadingKinds
    PROVE  MonitorSpec => []GaugeTellsStatus
  <1>1. MonitorInit => TypeOK /\ LeakInv /\ LoopInv /\ ReportInv /\ GaugeInv
    BY InitTypeOK, InitLeakInv, InitLoopInv, InitReportInv, InitGaugeInv DEF MonitorInit
  <1>2. /\ TypeOK /\ LeakInv /\ LoopInv /\ ReportInv /\ GaugeInv
        /\ [MonitorNext]_monitorVars
        => (TypeOK /\ LeakInv /\ LoopInv /\ ReportInv /\ GaugeInv)'
    BY MonitorStep, NextTypeOK, NextLeakInv, NextLoopInv, NextReportInv, NextGaugeInv
  <1>3. ReportInv /\ GaugeInv => GaugeTellsStatus
    <2> SUFFICES ASSUME ReportInv, GaugeInv PROVE GaugeTellsStatus
      OBVIOUS
    <2>1. gauge.phases = {} \/ \E p \in Phases : gauge.phases = {p}
      BY DEF GaugeInv
    <2>2. Cardinality(gauge.phases) <= 1
      BY <2>1, FS_EmptySet, FS_Singleton
    <2>3. pc = "idle" => report = "none"
      BY DEF ReportInv
    <2> QED
      BY <2>2, <2>3 DEF GaugeTellsStatus, GaugeInv, Shown
  <1> QED
    BY <1>1, <1>2, <1>3, PTL DEF MonitorSpec
==============================================================================
