------------------------------- MODULE Decide -------------------------------
(***************************************************************************)
(* The decisions of one reconcile pass, as operators: what an analysis run *)
(* says (internal/analysis/engine.go), what decide makes of the Canary,    *)
(* the target and that result, and what updateStatus records of it         *)
(* (internal/controller/canary_controller.go).                             *)
(*                                                                         *)
(* An analysis is abstracted to a reading: every metric in range, some     *)
(* metric out of range, a NaN (which compares as neither below Min nor     *)
(* above Max, so it passes), an infinity beyond Min or Max, or an error of *)
(* the provider.  A NaN or an infinity is nothing encoding/json writes     *)
(* into the status.                                                        *)
(***************************************************************************)
EXTENDS CanaryApi

Decisions == {"Hold", "Advance", "Promote", "Rollback"}

\* The decisions that take the rollout forward, and those that end it.
Forward  == {"Advance", "Promote"}
Settling == {"Promote", "Rollback"}

ReadingKinds == {"inRange", "outOfRange", "nan", "infinite", "error"}

\* The readings in which a metric misses its threshold, and those that make
\* the status unfit to be written.
Missed      == {"outOfRange", "infinite"}
Unencodable == {"nan", "infinite"}

Verdicts == [decision: Decisions, phase: Phases, weight: 0..100]

Verdict(decision, phase, weight) ==
    [decision |-> decision, phase |-> phase, weight |-> weight]

Results == [ran: BOOLEAN, passed: BOOLEAN, failed: Nat, encodable: BOOLEAN]

\* The nil *analysis.Result of a pass that runs no analysis.
NotRun == [ran |-> FALSE, passed |-> FALSE, failed |-> 0, encodable |-> TRUE]

-----------------------------------------------------------------------------
(* The analysis engine                                                     *)

\* Engine.Evaluate for a reading that is not an error.
Evaluated(status, reading) ==
    [ran       |-> TRUE,
     passed    |-> reading \notin Missed,
     failed    |-> IF reading \in Missed THEN status.failed + 1 ELSE 0,
     encodable |-> reading \notin Unencodable]

\* The count is the one of the status, from before this pass's analysis.
ShouldRollback(strategy, status) ==
    status.failed > (IF strategy.maxFailed = 0 THEN 2 ELSE strategy.maxFailed)

-----------------------------------------------------------------------------
(* The state machine                                                       *)

\* A pass runs the analysis before it decides, and only in this phase.
Analyses(strategy, status) ==
    /\ strategy.mode = "Progressive"
    /\ strategy.analysis
    /\ status.phase = "Analyzing"

\* Where decide leaves the phase when the target runs the stable revision.
SettledPhase(phase) ==
    IF phase \in {"Succeeded", "RolledBack"} THEN phase ELSE "Idle"

\* (Mutants: the weight of the step moved off; that of the last step.)
MoveOnSameWeight(steps, i) ==
    IF i + 1 >= Len(steps)
    THEN Verdict("Promote", "Succeeded", steps[Len(steps)])
    ELSE Verdict("Advance", "Progressing", steps[i + 1])
MoveOnToTheEnd(steps, i) ==
    Verdict(IF i + 1 >= Len(steps) THEN "Promote" ELSE "Advance",
            IF i + 1 >= Len(steps) THEN "Succeeded" ELSE "Progressing",
            steps[Len(steps)])

\* The move off step i (counted from 0): to the next one, or past the last.
MoveOn(steps, i) ==
    IF i + 1 >= Len(steps)
    THEN Verdict("Promote", "Succeeded", steps[Len(steps)])
    ELSE Verdict("Advance", "Progressing", steps[i + 2])

DecideManual(ann, steps, i) ==
    IF "promote" \in ann THEN MoveOn(steps, i)
    ELSE Verdict("Hold", "AwaitingPromotion", steps[i + 1])

DecideProgressive(ann, strategy, status, result) ==
    LET i    == status.step
        stay == Verdict("Hold", "Analyzing", strategy.steps[i + 1])
    IN  IF "promote" \in ann THEN MoveOn(strategy.steps, i)
        ELSE IF status.phase # "Analyzing" \/ ~result.ran THEN stay
        ELSE IF ShouldRollback(strategy, status)
             THEN Verdict("Rollback", "RolledBack", 0)
        ELSE IF result.passed THEN MoveOn(strategy.steps, i)
        ELSE stay

\* A step index past the plan, as an edit of the plan leaves behind.
\* (A mutant: such a rollout is put to rest where it is.)
OverrunIdle(steps, i) == Verdict("Hold", "Idle", 0)
Overrun(steps, i) == Verdict("Rollback", "Failed", 0)

\* decide for a Canary without an abort, its returns in the order of the
\* code.  The fallback for a mode that is neither is left out: the enum of
\* StrategyMode excludes it.
DecideRollout(ann, strategy, status, observed, result) ==
    IF strategy.steps = <<>> \/ status.stable = NoRevision
    THEN Verdict("Hold", "Idle", 0)
    ELSE IF status.stable = observed
         THEN Verdict("Hold", SettledPhase(status.phase), 0)
    ELSE IF status.step >= Len(strategy.steps)
         THEN Overrun(strategy.steps, status.step)
    ELSE IF strategy.mode = "Progressive"
         THEN DecideProgressive(ann, strategy, status, result)
    ELSE DecideManual(ann, strategy.steps, status.step)

\* (Mutant: a promote wins over an abort.)
DecidePromoteWins(ann, strategy, status, observed, result) ==
    IF "abort" \in ann /\ "promote" \notin ann
    THEN Verdict("Rollback", "RolledBack", 0)
    ELSE DecideRollout(ann, strategy, status, observed, result)

\* decide: an abort comes first, whatever else is so.
Decide(ann, strategy, status, observed, result) ==
    IF "abort" \in ann THEN Verdict("Rollback", "RolledBack", 0)
    ELSE DecideRollout(ann, strategy, status, observed, result)

\* (Mutant: a promotion does not reset the step index.)
UpdateStatusKeepsStep(status, verdict, revision, generation, result) ==
    LET settles == verdict.decision \in Settling
    IN  [phase    |-> verdict.phase,
         step     |-> IF verdict.decision = "Rollback" THEN 0
                      ELSE IF verdict.decision = "Advance" THEN status.step + 1
                      ELSE status.step,
         weight   |-> verdict.weight,
         stable   |-> IF settles \/ status.stable = NoRevision THEN revision
                      ELSE status.stable,
         canary   |-> IF settles THEN NoRevision
                      ELSE IF verdict.phase \in Routed THEN revision
                      ELSE status.canary,
         failed   |-> IF result.ran THEN result.failed ELSE status.failed,
         observed |-> generation]

\* (Mutant: a promotion does not record its revision as stable.)
UpdateStatusForgets(status, verdict, revision, generation, result) ==
    [UpdateStatusKeepsStep(status, verdict, revision, generation, result)
     EXCEPT !.step = IF verdict.decision = "Promote" THEN 0 ELSE @,
            !.stable = IF verdict.decision = "Promote" THEN status.stable ELSE @]

\* updateStatus.  A rollback records the revision of the target as stable
\* just as a promotion does: the target already runs it.
UpdateStatus(status, verdict, revision, generation, result) ==
    LET settles == verdict.decision \in Settling
    IN  [phase    |-> verdict.phase,
         step     |-> IF settles THEN 0
                      ELSE IF verdict.decision = "Advance" THEN status.step + 1
                      ELSE status.step,
         weight   |-> verdict.weight,
         stable   |-> IF settles \/ status.stable = NoRevision THEN revision
                      ELSE status.stable,
         canary   |-> IF settles THEN NoRevision
                      ELSE IF verdict.phase \in Routed THEN revision
                      ELSE status.canary,
         failed   |-> IF result.ran THEN result.failed ELSE status.failed,
         observed |-> generation]
=============================================================================
