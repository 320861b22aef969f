----------------------------- MODULE StaleProofs -----------------------------
(***************************************************************************)
(* Theorems about StaleReconciler, whose passes read caches that lag and   *)
(* whose target comes and goes: what holds of a pass without its copies    *)
(* being current.  The invariant behind NoLeak does not (LeaksAreCleared   *)
(* has a counterexample); that an abort is not lost, and that the stable   *)
(* revision does not go back, do.                                          *)
(***************************************************************************)
EXTENDS StaleReconciler, ReconcilerProofs

-----------------------------------------------------------------------------
(* The inductive invariants                                                *)

StaleTyped ==
    /\ Typed
    /\ target \in Nat
    /\ cachedCanary \in CanaryObjects
    /\ cachedTarget \in Nat
    /\ recreations \in Nat

\* WritesJustified without what a pass has read: the order of its calls alone
\* sees to it that a pass that ends a rollout has cleaned up when it is done.
CleanUpInv ==
    /\ pc \in Writing => verdict.decision \notin Settling
    /\ pc \in {"deleteDeployment", "deleteService"} => traffic = 0
    /\ pc = "deleteService" => deployment = NoRevision
    /\ pc \in {"clear", "persist"} /\ verdict.decision \in Settling => Clean

\* The annotation that is not Kanary's is in every copy.
CachedHeld == AbortHeld /\ "other" \in cachedCanary.ann

\* The strengthening of StableNeverReverts: what is recorded, what a pass has
\* seen, what the cache holds and what the target is at follow each other, as
\* long as the revisions were not counted from 1 again.
RevisionsInOrder ==
    recreations = 0 =>
        /\ api.status.stable <= cachedTarget
        /\ cachedTarget <= target
        /\ pc # "idle" => api.status.stable <= seen /\ seen <= cachedTarget

-----------------------------------------------------------------------------
(* Types                                                                   *)

LEMMA InitStaleTyped == StaleInit => StaleTyped
  BY InitTypeOK DEF StaleInit, StaleTyped, TypeOK, Typed

LEMMA NextStaleTyped == StaleTyped /\ [StaleNext]_staleVars => StaleTyped'
  <1> SUFFICES ASSUME StaleTyped, [StaleNext]_staleVars PROVE StaleTyped'
    OBVIOUS
  <1>1. /\ Typed /\ target \in Nat /\ cachedCanary \in CanaryObjects
        /\ cachedTarget \in Nat /\ recreations \in Nat
    BY DEF StaleTyped
  <1>2. Typed'
    <2>1. CASE StaleBegin
      BY <1>1, <2>1, BeginTyped DEF StaleBegin
    <2>2. CASE StaleCalling \/ StalePassFails \/ StaleUser \/ StalePush
               \/ SyncCanary \/ SyncTarget \/ UNCHANGED staleVars
      <3>1. CASE ClearRefused
        BY <1>1, <3>1, ReturnType DEF ClearRefused, Typed, world, ghost
      <3>2. CASE ~ClearRefused
        <4>1. Calling \/ PassFails \/ Environment \/ UNCHANGED vars
          BY <2>2, <3>2 DEF StaleCalling, StalePassFails, StaleUser, StalePush, Environment,
                            SyncCanary, SyncTarget, staleVars
        <4> QED
          BY <1>1, <4>1, StepTyped
      <3> QED
        BY <3>1, <3>2
    <2>3. CASE DeleteTarget \/ CreateTarget
      BY <1>1, <2>3 DEF DeleteTarget, CreateTarget, Typed, pass, ghost
    <2> QED
      BY <2>1, <2>2, <2>3 DEF StaleNext
  <1>3. target' \in {target, target + 1, NoRevision, 1}
    BY DEF StaleNext, SyncCanary, SyncTarget, StaleBegin, BeginOn, StaleCalling, ClearRefused,
           Calling, Analyse, AnalysisFails, ResetTraffic, DeleteDeployment, DeleteService,
           RouteTraffic, EnsureDeployment, EnsureStable, EnsureCanary, ClearCommands, Persist,
           PersistFails, StalePassFails, PassFails, StaleUser, Annotate, Resume, EditStrategy,
           StalePush, Push, DeleteTarget, CreateTarget, staleVars, vars, world
  <1>4. /\ cachedCanary' \in {cachedCanary, api} /\ cachedTarget' \in {cachedTarget, target}
        /\ recreations' \in {recreations, recreations + 1}
    BY DEF StaleNext, SyncCanary, SyncTarget, StaleBegin, StaleCalling, StalePassFails, StaleUser,
           StalePush, DeleteTarget, CreateTarget, staleVars, cache
  <1> QED
    BY <1>1, <1>2, <1>3, <1>4 DEF StaleTyped, Typed, NoRevision
-----------------------------------------------------------------------------
(* AbortOnlyByRollback                                                     *)

LEMMA InitCleanUpInv == StaleInit => CleanUpInv
  BY DEF StaleInit, Init, CleanUpInv, Writing

LEMMA ReturnKeepsCleanUpInv ==
    ASSUME Return
    PROVE  CleanUpInv'
  BY DEF Return, CleanUpInv, Writing

LEMMA StepKeepsCleanUpInv ==
    ASSUME Typed, CleanUpInv, Calling \/ PassFails \/ Environment \/ UNCHANGED vars
    PROVE  CleanUpInv'
  <1> USE DEF CleanUpInv
  <1>1. ASSUME NEW r \in Readings, Analyse(r) PROVE CleanUpInv'
    <2>1. verdict' \in Verdicts /\ pc' = FirstCall(verdict', obj)
      <3>1. result' \in Results
        BY <1>1, EvaluatedType DEF Analyse, Typed, CanaryObjects
      <3> QED
        BY <1>1, <3>1, DecideVerdict DEF Analyse, Typed, CanaryObjects
    <2> QED
      BY <2>1, FirstCallMeaning
  <1>2. CASE AnalysisFails \/ Persist \/ PersistFails \/ PassFails
    BY <1>2, ReturnKeepsCleanUpInv DEF AnalysisFails, Persist, PersistFails, PassFails
  <1>3. CASE ResetTraffic
    BY <1>3 DEF ResetTraffic, Writing
  <1>4. CASE DeleteDeployment
    BY <1>4 DEF DeleteDeployment, Writing
  <1>5. CASE DeleteService
    <2>1. /\ pc' \in {"clear", "persist"} /\ traffic' = 0 /\ deployment' = NoRevision
          /\ services' = services \ {"canary"}
      BY <1>5, NextCallType DEF DeleteService
    <2> QED
      BY <2>1 DEF Writing, Clean
  <1>6. CASE RouteTraffic \/ EnsureDeployment \/ EnsureStable
    BY <1>6 DEF RouteTraffic, EnsureDeployment, EnsureStable, Writing
  <1>7. CASE EnsureCanary
    <2>1. /\ pc = "ensureCanary" /\ pc' \in {"clear", "persist"} /\ verdict' = verdict
      BY <1>7, NextCallType DEF EnsureCanary
    <2> QED
      BY <2>1 DEF Writing
  <1>8. CASE ClearCommands
    BY <1>8 DEF ClearCommands, world, Clean, Writing
  <1>9. CASE Environment \/ UNCHANGED vars
    <2>1. UNCHANGED <<traffic, deployment, services, pc, verdict>>
      BY <1>9 DEF Environment, Annotate, Resume, EditStrategy, Push, vars, world, pass
    <2> QED
      BY <2>1 DEF Clean
  <1> QED
    BY <1>1, <1>2, <1>3, <1>4, <1>5, <1>6, <1>7, <1>8, <1>9 DEF Calling

LEMMA BeginKeepsCleanUpInv ==
    ASSUME NEW copy \in CanaryObjects, NEW revision \in Nat, BeginOn(copy, revision)
    PROVE  CleanUpInv'
  <1> DEFINE v == Decide(copy.ann, copy.strategy, copy.status, revision, NotRun)
  <1>1. v \in Verdicts
    BY NoPassTypes, DecideVerdict DEF CanaryObjects
  <1>2. pc' = "analyse" \/ (pc' = FirstCall(v, copy) /\ verdict' = v)
    BY DEF BeginOn
  <1> HIDE DEF v
  <1>3. CASE pc' = "analyse"
    BY <1>3 DEF CleanUpInv, Writing
  <1>4. CASE pc' = FirstCall(v, copy) /\ verdict' = v
    BY <1>1, <1>4, FirstCallMeaning DEF CleanUpInv
  <1> QED
    BY <1>2, <1>3, <1>4

LEMMA NextCleanUpInv ==
    StaleTyped /\ CleanUpInv /\ [StaleNext]_staleVars => CleanUpInv'
  <1> SUFFICES ASSUME StaleTyped, CleanUpInv, [StaleNext]_staleVars PROVE CleanUpInv'
    OBVIOUS
  <1>1. Typed /\ cachedCanary \in CanaryObjects /\ cachedTarget \in Nat
    BY DEF StaleTyped
  <1>2. CASE StaleBegin
    BY <1>1, <1>2, BeginKeepsCleanUpInv DEF StaleBegin
  <1>3. CASE ClearRefused
    BY <1>3, ReturnKeepsCleanUpInv DEF ClearRefused
  <1>4. CASE DeleteTarget \/ CreateTarget
    <2>1. UNCHANGED <<traffic, deployment, services, pc, verdict>>
      BY <1>4 DEF DeleteTarget, CreateTarget, pass
    <2> QED
      BY <2>1 DEF CleanUpInv, Clean
  <1>5. CASE Calling \/ PassFails \/ Environment \/ UNCHANGED vars
    BY <1>1, <1>5, StepKeepsCleanUpInv
  <1> QED
    BY <1>2, <1>3, <1>4, <1>5
    DEF StaleNext, StaleCalling, StalePassFails, StaleUser, StalePush, Environment, SyncCanary,
        SyncTarget, staleVars

LEMMA InitCachedHeld ==
    StaleInit /\ "other" \in InitialAnnotations => CachedHeld
  BY InitAbortHeld DEF StaleInit, CachedHeld, AbortHeld

LEMMA NextCachedHeld ==
    StaleTyped /\ CachedHeld /\ [StaleNext]_staleVars => CachedHeld'
  <1> SUFFICES ASSUME StaleTyped, CachedHeld, [StaleNext]_staleVars PROVE CachedHeld'
    OBVIOUS
  <1>1. Typed /\ AbortHeld /\ "other" \in cachedCanary.ann /\ "other" \in api.ann
    BY DEF StaleTyped, CachedHeld, AbortHeld
  <1>2. CASE StaleBegin
    BY <1>1, <1>2, BeginHoldsAbort DEF StaleBegin, CachedHeld, cache
  <1>3. CASE ClearRefused /\ UNCHANGED cache
    BY <1>1, <1>3 DEF ClearRefused, Return, AbortHeld, CachedHeld, cache
  <1>4. CASE DeleteTarget \/ CreateTarget
    BY <1>1, <1>4 DEF DeleteTarget, CreateTarget, AbortHeld, CachedHeld, pass, cache
  <1>5. CASE /\ Calling \/ PassFails \/ Environment \/ UNCHANGED vars
             /\ cachedCanary' \in {cachedCanary, api}
    <2>1. AbortHeld'
      BY <1>1, <1>5, StepHoldsAbort
    <2> QED
      BY <1>1, <1>5, <2>1 DEF CachedHeld
  <1> QED
    BY <1>2, <1>3, <1>4, <1>5
    DEF StaleNext, StaleCalling, StalePassFails, StaleUser, StalePush, Environment, SyncCanary,
        SyncTarget, staleVars, cache

\* Also a pass that reads an old copy, or one whose target is deleted under it,
\* takes an abort off a Canary with an annotation of somebody else's only when
\* it has cleaned up.
THEOREM AbortNotLostToStaleReads ==
    ASSUME "other" \in InitialAnnotations
    PROVE  StaleSpec => AbortOnlyByRollback
  <1>1. StaleInit => StaleTyped /\ CleanUpInv /\ CachedHeld
    BY InitStaleTyped, InitCleanUpInv, InitCachedHeld
  <1>2. StaleTyped /\ CleanUpInv /\ CachedHeld /\ [StaleNext]_staleVars =>
          [ "abort" \in api.ann /\ "abort" \notin api'.ann => Clean ]_vars
    <2> SUFFICES ASSUME StaleTyped, CleanUpInv, CachedHeld, [StaleNext]_staleVars,
                        "abort" \in api.ann, "abort" \notin api'.ann
                 PROVE  Clean
      OBVIOUS
    <2>1. /\ Typed /\ AbortHeld
          /\ pc = "clear" /\ verdict.decision \in Settling => Clean
      BY DEF StaleTyped, CachedHeld, CleanUpInv
    <2>2. Calling \/ PassFails \/ Environment
      BY DEF StaleNext, StaleCalling, StalePassFails, StaleUser, StalePush, Environment,
             SyncCanary, SyncTarget, StaleBegin, BeginOn, ClearRefused, DeleteTarget,
             CreateTarget, staleVars, vars
    <2> QED
      BY <2>1, <2>2, AbortTakenOffClean
  <1> QED
    BY <1>1, <1>2, NextStaleTyped, NextCleanUpInv, NextCachedHeld, PTL
    DEF StaleSpec, AbortOnlyByRollback
-----------------------------------------------------------------------------
(* StableNeverReverts                                                      *)

LEMMA InitRevisionsInOrder == StaleInit => RevisionsInOrder
  <1> SUFFICES ASSUME StaleInit PROVE RevisionsInOrder
    OBVIOUS
  <1>1. target = 1 /\ cachedTarget = 1 /\ pc = "idle"
    BY DEF StaleInit, Init
  <1>2. api.status.stable = 0
    <2>1. api.status = ZeroStatus
      BY DEF StaleInit, Init
    <2>2. ZeroStatus.stable = 0
      BY Zenon DEF ZeroStatus, NoRevision
    <2> QED
      BY <2>1, <2>2
  <1> QED
    BY <1>1, <1>2 DEF RevisionsInOrder

\* The status patch leaves the stable revision on the server, or makes it the
\* one the pass saw.
LEMMA PersistStable ==
    ASSUME Typed, Persist
    PROVE  api'.status.stable \in {api.status.stable, seen}
  <1> DEFINE new == UpdateStatus(obj.status, verdict, seen, obj.gen, result)
             patched == MergePatch(obj.status, new, api.status)
  <1>1. obj.status \in Statuses /\ api.status \in Statuses /\ new \in Statuses
    BY UpdateStatusType DEF Typed, CanaryObjects
  <1>2. new.stable \in {obj.status.stable, seen}
    BY <1>1, UpdateStatusStable
  <1> HIDE DEF new
  <1>3. patched.stable \in {api.status.stable, seen}
    BY <1>1, <1>2 DEF MergePatch, Statuses
  <1>4. api' = [api EXCEPT !.status = patched]
    BY DEF Persist, new
  <1> HIDE DEF patched
  <1>5. api'.status = patched
    BY <1>4 DEF Typed, CanaryObjects
  <1> QED
    BY <1>3, <1>5

\* Nothing but the status patch writes the stable revision.
LEMMA OthersKeepStable ==
    ASSUME StaleTyped, [StaleNext]_staleVars, ~(StaleCalling /\ Persist)
    PROVE  api'.status.stable = api.status.stable
  <1>1. api \in CanaryObjects
    BY DEF StaleTyped, Typed
  <1>2. CASE ClearCommands
    BY <1>1, <1>2 DEF ClearCommands, CanaryObjects
  <1>3. CASE StaleUser
    BY <1>1, <1>3 DEF StaleUser, Annotate, Resume, EditStrategy, CanaryObjects
  <1>4. CASE UNCHANGED api
    BY <1>4
  <1> QED
    BY <1>2, <1>3, <1>4
    DEF StaleNext, SyncCanary, SyncTarget, StaleBegin, BeginOn, StaleCalling, ClearRefused, Calling,
        Analyse, AnalysisFails, ResetTraffic, DeleteDeployment, DeleteService, RouteTraffic,
        EnsureDeployment, EnsureStable, EnsureCanary, PersistFails, StalePassFails, PassFails,
        StalePush, Push, DeleteTarget, CreateTarget, staleVars, vars

\* The steps of a pass move no revision but the one recorded.
LEMMA PassKeepsRevisions ==
    ASSUME StaleCalling \/ StalePassFails \/ StaleUser
    PROVE  /\ UNCHANGED <<cache, recreations, target>>
           /\ pc' = "idle" \/ (seen' = seen /\ pc # "idle")
  <1>1. UNCHANGED <<cache, recreations>>
    BY DEF StaleCalling, StalePassFails, StaleUser
  <1>2. UNCHANGED target
    BY DEF StaleCalling, StalePassFails, StaleUser, ClearRefused, Calling, Analyse, AnalysisFails,
           ResetTraffic, DeleteDeployment, DeleteService, RouteTraffic, EnsureDeployment,
           EnsureStable, EnsureCanary, ClearCommands, Persist, PersistFails, PassFails, Annotate,
           Resume, EditStrategy, world
  <1>3. pc' = "idle" \/ (seen' = seen /\ pc # "idle")
    BY DEF StaleCalling, StalePassFails, StaleUser, ClearRefused, Calling, Analyse, AnalysisFails,
           ResetTraffic, DeleteDeployment, DeleteService, RouteTraffic, EnsureDeployment,
           EnsureStable, EnsureCanary, ClearCommands, Persist, PersistFails, PassFails, Annotate,
           Resume, EditStrategy, pass, Return
  <1> QED
    BY <1>1, <1>2, <1>3

LEMMA NextRevisionsInOrder ==
    StaleTyped /\ RevisionsInOrder /\ [StaleNext]_staleVars => RevisionsInOrder'
  <1> SUFFICES ASSUME StaleTyped, RevisionsInOrder, [StaleNext]_staleVars, recreations' = 0
               PROVE  /\ api'.status.stable <= cachedTarget'
                      /\ cachedTarget' <= target'
                      /\ pc' # "idle" => api'.status.stable <= seen' /\ seen' <= cachedTarget'
    BY DEF RevisionsInOrder
  <1> DEFINE stable == api.status.stable
  <1>1. /\ stable \in Nat /\ target \in Nat /\ cachedTarget \in Nat /\ seen \in Nat
        /\ recreations \in Nat /\ Typed
    BY DEF StaleTyped, Typed, CanaryObjects, Statuses
  <1>2. recreations = 0 /\ ~DeleteTarget
    BY <1>1 DEF StaleNext, SyncCanary, SyncTarget, StaleBegin, StaleCalling, StalePassFails,
                StaleUser, StalePush, DeleteTarget, CreateTarget, staleVars
  <1>3. /\ stable <= cachedTarget /\ cachedTarget <= target
        /\ pc # "idle" => stable <= seen /\ seen <= cachedTarget
    BY <1>2 DEF RevisionsInOrder
  <1>4. CASE StaleCalling /\ Persist
    <2>1. /\ api'.status.stable \in {stable, seen} /\ pc' = "idle" /\ pc = "persist"
      BY <1>1, <1>4, PersistStable DEF Persist, Return
    <2>2. UNCHANGED <<cachedTarget, target>>
      BY <1>4, PassKeepsRevisions DEF cache
    <2> QED
      BY <1>3, <2>1, <2>2
  <1>5. CASE ~(StaleCalling /\ Persist)
    <2>1. api'.status.stable = stable
      BY <1>5, OthersKeepStable
    <2> HIDE DEF stable
    <2>2. CASE StaleBegin
      <3>1. seen' = cachedTarget /\ UNCHANGED <<cachedTarget, target>>
        BY <2>2 DEF StaleBegin, BeginOn, cache, world
      <3> QED
        BY <1>1, <1>3, <2>1, <3>1
    <2>3. CASE StaleCalling \/ StalePassFails \/ StaleUser
      <3>1. /\ UNCHANGED <<cachedTarget, target>>
            /\ pc' = "idle" \/ (seen' = seen /\ pc # "idle")
        BY <2>3, PassKeepsRevisions DEF cache
      <3> QED
        BY <1>3, <2>1, <3>1
    <2>4. CASE SyncTarget
      <3>1. cachedTarget' = target /\ UNCHANGED <<target, pc, seen>>
        BY <2>4 DEF SyncTarget, vars, world, pass
      <3>2. stable <= target
        BY <1>1, <1>3
      <3>3. pc # "idle" => seen <= target
        BY <1>1, <1>3
      <3> QED
        BY <1>1, <1>3, <2>1, <3>1, <3>2, <3>3
    <2>5. CASE StalePush
      <3>1. target' = target + 1 /\ UNCHANGED <<cachedTarget, pc, seen>>
        BY <2>5 DEF StalePush, Push, cache, pass
      <3>2. cachedTarget <= target + 1
        BY <1>1, <1>3
      <3> QED
        BY <1>3, <2>1, <3>1, <3>2
    <2>6. CASE CreateTarget
      <3>1. target = 0 /\ target' = 1 /\ UNCHANGED <<cachedTarget, pc, seen>>
        BY <2>6 DEF CreateTarget, cache, pass, NoRevision
      <3>2. cachedTarget <= 1
        BY <1>1, <1>3, <3>1
      <3> QED
        BY <1>3, <2>1, <3>1, <3>2
    <2>7. CASE SyncCanary \/ UNCHANGED staleVars
      <3>1. UNCHANGED <<cachedTarget, target, pc, seen>>
        BY <2>7 DEF SyncCanary, staleVars, vars, world, pass, cache
      <3> QED
        BY <1>3, <2>1, <3>1
    <2> QED
      BY <1>2, <2>2, <2>3, <2>4, <2>5, <2>6, <2>7 DEF StaleNext
  <1> QED
    BY <1>4, <1>5

\* Whatever copy of the Canary a pass decides on, and however far behind the
\* target it reads, the stable revision it records is none that an earlier pass
\* has replaced, as long as the target was not deleted and created again.
THEOREM StableMovesOn == StaleSpec => StableNeverReverts
  <1>1. StaleTyped /\ RevisionsInOrder /\ [StaleNext]_staleVars =>
          [ recreations' = 0 => api'.status.stable >= api.status.stable ]_api
    <2> SUFFICES ASSUME StaleTyped, RevisionsInOrder, [StaleNext]_staleVars, recreations' = 0
                 PROVE  api'.status.stable >= api.status.stable
      OBVIOUS
    <2>1. /\ api.status.stable \in Nat /\ seen \in Nat /\ Typed /\ recreations \in Nat
      BY DEF StaleTyped, Typed, CanaryObjects, Statuses
    <2>2. CASE StaleCalling /\ Persist
      <3>1. api'.status.stable \in {api.status.stable, seen} /\ pc # "idle"
        BY <2>1, <2>2, PersistStable DEF Persist
      <3>2. recreations = 0
        BY <2>2 DEF StaleCalling
      <3>3. api.status.stable <= seen
        BY <3>1, <3>2 DEF RevisionsInOrder
      <3> QED
        BY <2>1, <3>1, <3>3
    <2>3. CASE ~(StaleCalling /\ Persist)
      BY <2>1, <2>3, OthersKeepStable
    <2> QED
      BY <2>2, <2>3
  <1> QED
    BY <1>1, InitStaleTyped, NextStaleTyped, InitRevisionsInOrder, NextRevisionsInOrder, PTL
    DEF StaleSpec, StableNeverReverts
==============================================================================
