------------------------- MODULE MonitoredReconciler -------------------------
(***************************************************************************)
(* CanaryReconciler in more detail, in two places.  The analysis of a pass *)
(* is the loop of the engine over the metrics, one provider query at a     *)
(* time (AnalysisEngine), in place of one reading for all of them.  And    *)
(* the pass reports what it does (internal/telemetry): it counts a         *)
(* rollback or promotion when its clean-up is done, and shows phase and    *)
(* weight in gauges before it writes the status.                           *)
(*                                                                         *)
(* Gauges and counters are memory of the process: a crash empties them,    *)
(* and the next pass of a Canary fills them again.                         *)
(***************************************************************************)
EXTENDS CanaryReconciler, AnalysisEngine

CONSTANTS
    Metrics,   \* the thresholds of spec.analysis.metrics
    Providers, \* what the manager may have been started with
    Answers    \* what a provider can respond

ASSUME MonitorAssumption ==
    /\ Metrics \in Seq(Thresholds) /\ Metrics # <<>>
    /\ Providers \subseteq {"prometheus", "dynatrace"}
    /\ Answers \subseteq Responses

VARIABLES
    checks,   \* the pass's loop over the metrics
    provider, \* the provider behind the engine, "" outside the loop
    report,   \* the telemetry the pass does next: "none" while it is not due
    gauge,    \* the phases whose gauge is 1, and the gauge of the weight
    surplus,  \* history: ends of rollouts counted but not recorded, other than
              \* by a pass that could not encode its status
    unwritten \* history: the gauge was set by a pass that wrote no status

loop == <<checks, provider>>
telemetry == <<report, gauge, surplus, unwritten>>
monitorVars == <<vars, loop, telemetry>>

\* The gauges of a process that has not reconciled the Canary yet.
NoSeries == [phases |-> {}, weight |-> 0]

MonitorInit ==
    /\ Init
    /\ checks = NoChecks
    /\ provider = ""
    /\ report = "none"
    /\ gauge = NoSeries
    /\ surplus = 0
    /\ unwritten = FALSE

-----------------------------------------------------------------------------
(* The analysis                                                            *)

\* A metric is queried, and its value held against the threshold.
Check(p, r) ==
    LET v == Query(p, r)
    IN  /\ pc = "analyse"
        /\ checks.done < Len(Metrics)
        /\ provider \in {"", p}
        /\ v \in Floats
        /\ checks' = Checked(checks, Metrics, v)
        /\ provider' = p
        /\ UNCHANGED <<vars, telemetry>>

\* The query failed: Evaluate returns the error, and what the loop had so far
\* is lost, failed checks included.
CheckFails(p, r) ==
    /\ pc = "analyse"
    /\ checks.done < Len(Metrics)
    /\ provider \in {"", p}
    /\ Query(p, r) \in {Retryable, Permanent}
    /\ Return
    /\ checks' = NoChecks
    /\ provider' = ""
    /\ UNCHANGED <<api, world, failures, ghost, telemetry>>

\* Evaluate returns, and the pass decides.
Conclude ==
    /\ pc = "analyse"
    /\ checks.done = Len(Metrics)
    /\ result' = Summed(obj.status, checks)
    /\ verdict' = Decide(obj.ann, obj.strategy, obj.status, seen, result')
    /\ pc' = FirstCall(verdict', obj)
    /\ checks' = NoChecks
    /\ provider' = ""
    /\ UNCHANGED <<api, world, obj, seen, failures, ghost, telemetry>>

-----------------------------------------------------------------------------
(* Telemetry                                                               *)

\* CleanupCanary is done: the end is counted next.
DeleteServiceAndCount ==
    /\ DeleteService
    /\ report' = "count"
    /\ UNCHANGED <<loop, gauge, surplus, unwritten>>

\* (Mutant: a promotion is not counted.)
EndsRolledBack(v) == IF v.decision = "Rollback" THEN 1 ELSE 0

\* The counters, by decision.
Ends(v) == IF v.decision \in Settling THEN 1 ELSE 0

CountEnd ==
    /\ report = "count"
    /\ report' = "none"
    /\ surplus' = surplus + Ends(verdict)
    /\ UNCHANGED <<vars, loop, gauge, unwritten>>

\* (Mutant: the other phases are left as they are.)
ZeroNoPhase ==
    /\ pc = "persist" /\ report = "none"
    /\ report' = "zeroed"
    /\ UNCHANGED <<vars, loop, gauge, surplus, unwritten>>

\* SetPhase, within updateStatus: all phases are set to 0, then one to 1.
ZeroPhases ==
    /\ pc = "persist" /\ report = "none"
    /\ report' = "zeroed"
    /\ gauge' = [gauge EXCEPT !.phases = {}]
    /\ UNCHANGED <<vars, loop, surplus, unwritten>>

ShowPhase ==
    /\ report = "zeroed"
    /\ report' = "shown"
    /\ gauge' = [phases |-> gauge.phases \cup {verdict.phase},
                 weight |-> verdict.weight]
    /\ UNCHANGED <<vars, loop, surplus, unwritten>>

\* The patch of the status, after all of this.
PersistShown ==
    /\ report = "shown"
    /\ Persist
    /\ report' = "none"
    /\ surplus' = IF verdict.decision \in Settling THEN surplus - 1 ELSE surplus
    /\ unwritten' = FALSE
    /\ UNCHANGED <<loop, gauge>>

\* The status cannot be encoded; a promotion is counted by the next pass once
\* more, and so on.
PersistShownFails ==
    /\ report = "shown"
    /\ PersistFails
    /\ report' = "none"
    /\ surplus' = IF verdict.decision \in Settling THEN surplus - 1 ELSE surplus
    /\ unwritten' = TRUE
    /\ UNCHANGED <<loop, gauge>>

-----------------------------------------------------------------------------
(* The rest of the pass, and the end of the process                        *)

MonitorBegin == Begin /\ UNCHANGED <<loop, telemetry>>

MonitorCalling ==
    /\ report = "none"
    /\ \/ ResetTraffic \/ DeleteDeployment
       \/ RouteTraffic \/ EnsureDeployment \/ EnsureStable \/ EnsureCanary
       \/ ClearCommands
    /\ UNCHANGED <<loop, telemetry>>

\* A call of the pass fails or its answer is lost, and the pass returns.
MonitorPassFails ==
    /\ PassFails
    /\ report # "zeroed"
    /\ checks' = NoChecks
    /\ provider' = ""
    /\ report' = "none"
    /\ unwritten' = (unwritten \/ report = "shown")
    /\ UNCHANGED <<gauge, surplus>>

\* The process dies in the middle of a pass, and with it what it has shown and
\* counted.
Restart ==
    /\ PassFails
    /\ checks' = NoChecks
    /\ provider' = ""
    /\ report' = "none"
    /\ gauge' = NoSeries
    /\ surplus' = 0
    /\ unwritten' = FALSE

MonitorNext ==
    \/ MonitorBegin \/ MonitorCalling
    \/ \E p \in Providers, r \in Answers : Check(p, r) \/ CheckFails(p, r)
    \/ Conclude
    \/ DeleteServiceAndCount \/ CountEnd
    \/ ZeroPhases \/ ShowPhase \/ PersistShown \/ PersistShownFails
    \/ MonitorPassFails \/ Restart
    \/ Environment /\ UNCHANGED <<loop, telemetry>>

MonitorSpec == MonitorInit /\ [][MonitorNext]_monitorVars

-----------------------------------------------------------------------------
(* Properties                                                              *)

\* The loop over the metrics is one of the readings CanaryReconciler takes it
\* for: whatever the values and their order, a run of Evaluate fails, passes,
\* or cannot be recorded as a whole, and adds one to the failures at most.
\* Telemetry, for its part, changes nothing.
ImplementsReconciler == Spec

\* What a dashboard shows of a Canary is what its status says: never two
\* phases at once, and between passes the phase and the weight of the status,
\* unless the last pass to show them could not write it.
GaugeTellsStatus ==
    /\ Cardinality(gauge.phases) <= 1
    /\ pc = "idle" /\ gauge # NoSeries /\ ~unwritten =>
           gauge = [phases |-> {api.status.phase}, weight |-> api.status.weight]

\* Every rollback and promotion the status records has been counted, and one
\* is counted twice only for a pass that was cut short in between, or whose
\* status could not be encoded.
EndsAreCounted ==
    LET inPass == IF pc \in {"clear", "persist"} /\ report # "count"
                  THEN Ends(verdict) ELSE 0
    IN  inPass <= surplus /\ surplus <= inPass + failures
=============================================================================
