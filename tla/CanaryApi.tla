------------------------------ MODULE CanaryApi ------------------------------
(***************************************************************************)
(* The Canary custom resource (api/v1alpha1/canary_types.go) as the        *)
(* controller sees it, and what the API server does to it: a merge patch   *)
(* of the status subresource, a merge patch of the annotations, and the    *)
(* decoding of a server response into an object already in memory.         *)
(*                                                                         *)
(* Data is abstracted to what the controller tells apart.  A revision of   *)
(* the target Deployment is a positive number, the value of its            *)
(* deployment.kubernetes.io/revision annotation; the empty string is       *)
(* NoRevision.  An annotation is present or it is not: "promote", "abort"  *)
(* and "paused" stand for the value "true", "disabled" for                 *)
(* kanary.io/canary-enabled=false, and "other" for any annotation that is  *)
(* not Kanary's (kubectl's last-applied-configuration, for one).           *)
(***************************************************************************)
EXTENDS Integers, Sequences, FiniteSets

Commands == {"promote", "abort"}

\* What makes Reconcile return before it looks at anything else.
Suspensions == {"paused", "disabled"}

Annotations == Commands \cup Suspensions \cup {"other"}

\* The phases the controller writes; "" is a Canary never reconciled.  The
\* API also declares Promoting, which no line of the controller ever sets.
Phases == {"", "Idle", "Progressing", "AwaitingPromotion", "Analyzing",
           "Succeeded", "Failed", "RolledBack"}

\* The phases in which traffic and workload are reconciled.
Routed == {"Progressing", "AwaitingPromotion"}

NoRevision == 0

Statuses == [phase: Phases, step: Nat, weight: 0..100, stable: Nat,
             canary: Nat, failed: Nat, observed: Nat]

\* The status of a Canary the controller has never reconciled.
ZeroStatus == [phase |-> "", step |-> 0, weight |-> 0, stable |-> NoRevision,
               canary |-> NoRevision, failed |-> 0, observed |-> 0]

\* steps holds the weights.  analysis is true when spec.analysis.enabled is
\* set and the manager was started with a metrics address.
StrategyRecords == [mode: {"Manual", "Progressive"}, steps: Seq(1..100),
                    maxFailed: Nat, analysis: BOOLEAN]

-----------------------------------------------------------------------------
(* What the API server and the client do                                   *)

\* (A mutant: the whole status is written, as Update would do.)
MergePatchWhole(from, to, current) == to

\* client.MergeFrom(from): only the fields in which to differs from from are
\* sent, so a field the pass did not touch keeps what the server holds.
MergePatch(from, to, current) ==
    [f \in DOMAIN from |-> IF to[f] = from[f] THEN current[f] ELSE to[f]]

\* After Patch the client decodes the response into the object it was given.
\* Every status field is omitempty: one the server holds at its zero value is
\* not in the response, and the value in memory survives.
DecodeInto(mine, theirs) ==
    [f \in DOMAIN mine |-> IF theirs[f] = ZeroStatus[f] THEN mine[f]
                                                        ELSE theirs[f]]

\* (Mutants: the promote stays; both commands go, whichever was held.)
PatchAnnotationsButPromote(current, held) ==
    IF held \subseteq Commands THEN {} ELSE current \ (held \cap {"abort"})
PatchAnnotationsAllCommands(current, held) ==
    IF held \subseteq Commands THEN {} ELSE current \ Commands

\* clearCommandAnnotations drops the commands from the copy the pass holds.
\* When nothing is left the map becomes nil, and the merge patch carries
\* annotations: null, which empties the server's map whatever it holds by
\* then; otherwise it names just the commands held, and removes those.
PatchAnnotations(current, held) ==
    IF held \subseteq Commands THEN {} ELSE current \ (held \cap Commands)
=============================================================================
