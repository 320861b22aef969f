--------------------------- MODULE StaleReconciler ---------------------------
(***************************************************************************)
(* CanaryReconciler reading as the manager's client reads: from informer   *)
(* caches (mgr.GetClient() in cmd/manager/main.go), which follow the API   *)
(* server with a lag of their own for each kind of object.  A pass may     *)
(* start on a Canary or a target that is behind, behind even the writes of *)
(* the pass before: its own patch of the annotations is an event that      *)
(* queues the Canary again (AnnotationChangedPredicate in SetupWithManager)*)
(* at once, before the patch of the status need have come back.            *)
(*                                                                         *)
(* Writes go to the server.  The target can also be deleted, and created   *)
(* again, when its revisions start over; in between, the webhook refuses   *)
(* every change of the Canary but the one of its status: the user's, and   *)
(* the pass's own patch of the annotations.                                *)
(***************************************************************************)
EXTENDS Admission

CONSTANTS
    MaxRecreations, \* bound: deletions of the target
    MaxStaleReads   \* bound: passes started on copies that are behind

ASSUME StaleAssumption == MaxRecreations \in Nat /\ MaxStaleReads \in Nat

VARIABLES
    cachedCanary, \* the Canary as the cache holds it
    cachedTarget, \* the revision of the target as the cache holds it
    recreations,  \* deletions of the target so far
    staleReads    \* passes started on copies that were behind so far

cache == <<cachedCanary, cachedTarget>>
staleVars == <<vars, cache, recreations, staleReads>>

StaleInit ==
    /\ Init
    /\ cachedCanary = api
    /\ cachedTarget = target
    /\ recreations = 0
    /\ staleReads = 0

\* The watch delivers what the server holds by now.
SyncCanary ==
    /\ cachedCanary # api
    /\ cachedCanary' = api
    /\ UNCHANGED <<vars, cachedTarget, recreations, staleReads>>

SyncTarget ==
    /\ cachedTarget # target
    /\ cachedTarget' = target
    /\ UNCHANGED <<vars, cachedCanary, recreations, staleReads>>

StaleBegin ==
    /\ BeginOn(cachedCanary, cachedTarget)
    /\ IF cachedCanary = api /\ cachedTarget = target
       THEN UNCHANGED staleReads
       ELSE staleReads < MaxStaleReads /\ staleReads' = staleReads + 1
    /\ UNCHANGED <<cache, recreations>>

DeleteTarget ==
    /\ target # NoRevision
    /\ recreations < MaxRecreations
    /\ target' = NoRevision
    /\ recreations' = recreations + 1
    /\ UNCHANGED <<api, traffic, deployment, services, pass, failures, ghost, cache,
                   staleReads>>

\* A Deployment created counts its revisions from 1.
CreateTarget ==
    /\ target = NoRevision
    /\ target' = 1
    /\ UNCHANGED <<api, traffic, deployment, services, pass, failures, ghost,
                   cache, recreations, staleReads>>

StalePush ==
    /\ target # NoRevision
    /\ Push
    /\ UNCHANGED <<cache, recreations, staleReads>>

\* What the user does to the Canary.  Without a target the webhook may refuse
\* it, which changes nothing, or fail to read and admit it.
StaleUser ==
    /\ \/ \E a \in UserAnnotations : Annotate(a)
       \/ \E a \in UserAnnotations \cap Suspensions : Resume(a)
       \/ \E s \in Strategies : EditStrategy(s)
    /\ UNCHANGED <<cache, recreations, staleReads>>

\* The webhook finds no target, and refuses the patch of the annotations.
ClearRefused ==
    /\ pc = "clear"
    /\ ~TargetAdmits(target, FALSE)
    /\ Return
    /\ UNCHANGED <<api, world, failures, ghost>>

StaleCalling ==
    /\ Calling \/ ClearRefused
    /\ UNCHANGED <<cache, recreations, staleReads>>

StalePassFails == PassFails /\ UNCHANGED <<cache, recreations, staleReads>>

StaleNext ==
    \/ SyncCanary \/ SyncTarget
    \/ StaleBegin \/ StaleCalling \/ StalePassFails
    \/ StaleUser \/ StalePush \/ DeleteTarget \/ CreateTarget

StaleSpec == StaleInit /\ [][StaleNext]_staleVars

\* The watches deliver in the end, and the work queue goes on.
StaleFairSpec ==
    /\ StaleSpec
    /\ WF_staleVars(SyncCanary)
    /\ WF_staleVars(SyncTarget)
    /\ WF_staleVars(StaleBegin \/ StaleCalling)

-----------------------------------------------------------------------------
(* Properties                                                              *)

\* The stable revision never goes back to one that was replaced: a pass on an
\* old copy must not undo what a later one recorded, as long as the target
\* only moves on.
StableNeverReverts ==
    [][ recreations' = 0 => api'.status.stable >= api.status.stable ]_api

\* AbortAnswered with reads from a cache that is behind.  A pass that is to
\* answer it needs a target, and a Canary that is not suspended.
AbortAnsweredLate ==
    "abort" \in api.ann ~> \/ api.status.phase = "RolledBack" /\ Clean
                           \/ failures > 0
                           \/ target = NoRevision
                           \/ api.ann \cap Suspensions # {}

\* A leak does not last: whenever a canary is left over next to a status that
\* says the target runs the stable revision, some later pass clears it.
LeaksAreCleared == []<>NoLeak
=============================================================================
