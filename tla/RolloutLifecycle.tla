-------------------------- MODULE RolloutLifecycle --------------------------
(***************************************************************************)
(* What the status of a Canary promises to those who read it (the user,    *)
(* the pipeline of SPEC.md section 7, the dashboards): the life of a       *)
(* rollout as phase, step, weight and stable revision, with no mention of  *)
(* passes, API calls, traffic or workload.                                 *)
(*                                                                         *)
(* A rollout visits its steps one after the other, from the first; it ends *)
(* from the last step by success, or from anywhere by a rollback, and both *)
(* accept a revision later than the stable one there was.                  *)
(***************************************************************************)
EXTENDS Integers, Sequences

VARIABLES
    mode,   \* "Manual" or "Progressive"
    steps,  \* the weights of the plan
    phase,
    step,   \* index of the current step, from 0
    weight,
    stable  \* the stable revision, 0 while unknown

vars == <<mode, steps, phase, step, weight, stable>>

Init ==
    /\ mode \in {"Manual", "Progressive"}
    /\ steps \in Seq(1..100) /\ steps # <<>>
    /\ phase = ""
    /\ step = 0
    /\ weight = 0
    /\ stable = 0

\* Where a rollout waits between two steps.
Waiting == IF mode = "Manual" THEN "AwaitingPromotion" ELSE "Analyzing"

Underway == {"Progressing", "AwaitingPromotion", "Analyzing"}

Plan == UNCHANGED <<mode, steps>>

\* The first look at the target: its revision is the baseline.
Seed ==
    /\ stable = 0
    /\ stable' \in Nat \ {0}
    /\ phase' = "Idle"
    /\ UNCHANGED <<step, weight>> /\ Plan

\* The wait at the current step; a rollout not yet under way starts with it,
\* at the first step.
Wait ==
    /\ stable # 0
    /\ phase \in Underway \/ step = 0
    /\ phase' = Waiting
    /\ weight' = steps[step + 1]
    /\ UNCHANGED <<step, stable>> /\ Plan

\* On to the next step.
Advance ==
    /\ stable # 0
    /\ step + 1 < Len(steps)
    /\ phase' = "Progressing"
    /\ step' = step + 1
    /\ weight' = steps[step' + 1]
    /\ UNCHANGED stable /\ Plan

\* A success is reached from the last step.
Succeed ==
    /\ stable # 0
    /\ step + 1 = Len(steps)
    /\ phase' = "Succeeded"
    /\ step' = 0
    /\ weight' = steps[Len(steps)]
    /\ stable' \in Nat /\ stable' > stable
    /\ Plan

\* A rollback puts the rollout back at the start; it accepts the revision it
\* takes the traffic from, so that the same one is not tried again.
RollBack ==
    /\ phase' = "RolledBack"
    /\ step' = 0
    /\ weight' = 0
    /\ stable' \in Nat /\ stable' >= stable /\ stable' # 0
    /\ Plan

\* With nothing to roll out, the weight of a finished rollout is cleared.
Rest ==
    /\ phase \in {"Idle", "Succeeded", "RolledBack"}
    /\ stable # 0 /\ step = 0
    /\ weight' = 0
    /\ UNCHANGED <<phase, step, stable>> /\ Plan

Next == Seed \/ Wait \/ Advance \/ Succeed \/ RollBack \/ Rest

Spec == Init /\ [][Next]_vars
=============================================================================
