---------------------------- MODULE OpenShiftRoute ----------------------------
(***************************************************************************)
(* The traffic provider for OpenShift (internal/traffic/openshift): it     *)
(* splits the traffic by writing weights into the Route, an object of the  *)
(* user, who goes on editing it, and may delete it and create it again.    *)
(*                                                                         *)
(* A call is a read of the Route and an Update of all of it, which the API *)
(* server refuses when the Route is no longer the version read.  The       *)
(* client of the manager reads unstructured objects from the server, not   *)
(* from a cache.  The caller makes one call at a time: it repeats a        *)
(* Reconcile at every pass of a step, and a Reset until one succeeds.      *)
(***************************************************************************)
EXTENDS Integers, Sequences

CONSTANTS
    Weights,    \* the percentages the reconciler asks for
    UserRoutes, \* the weights and alternate backends the user creates it with
    MaxEdits,   \* bound: what the user does to the Route
    MaxAsks,    \* bound: requests of the reconciler
    MaxFailures \* bound: calls that fail for no reason of the Route

Backends == [svc: {"canary", "user"}, weight: 0..256]

ASSUME RouteAssumption ==
    /\ Weights \subseteq 0..100
    /\ UserRoutes \subseteq [to: 0..256, alts: Seq(Backends)]
    /\ \A r \in UserRoutes : \A i \in DOMAIN r.alts : r.alts[i].svc = "user"
    /\ MaxEdits \in Nat /\ MaxAsks \in Nat /\ MaxFailures \in Nat

VARIABLES
    route,   \* the Route on the server
    version, \* the resource version the server gave out last
    op,      \* the call the reconciler has to make: reconcile, reset or none
    asked,   \* the percentage it asks for
    pc,      \* where a call is: idle, get or update
    copy,    \* the Route as the call read it
    edits,   \* what the user did to the Route so far
    asks,    \* requests so far
    failures \* failed calls so far

vars == <<route, version, op, asked, pc, copy, edits, asks, failures>>

maxRouteWeight == 256

\* rest stands for the fields of the Route only the user writes (its host,
\* its TLS settings): the number of the edit that wrote them last.
NoRoute == [there |-> FALSE, rv |-> 0, rest |-> 0, to |-> 0, alts |-> <<>>]

UserRoute(r, rv, edit) ==
    [there |-> TRUE, rv |-> rv, rest |-> edit, to |-> r.to, alts |-> r.alts]

Init ==
    /\ \E r \in UserRoutes : route = UserRoute(r, 1, 0)
    /\ version = 1
    /\ op = "none" /\ asked = 0
    /\ pc = "idle" /\ copy = NoRoute
    /\ edits = 0 /\ asks = 0 /\ failures = 0

-----------------------------------------------------------------------------
(* The weights                                                             *)

\* (Mutant: the percentage is not divided.)
UndividedWeights(pct) ==
    [canary |-> pct * maxRouteWeight, stable |-> maxRouteWeight - pct]

\* The split of the 256 parts of a Route's weight, in whole numbers.
splitWeights(pct) ==
    LET canary == (pct * maxRouteWeight) \div 100
    IN  [canary |-> canary, stable |-> maxRouteWeight - canary]

\* (Mutants: the weight of the stable Service stays; the two are swapped; an
\* alternate backend that is there keeps its weight.)
setAlternate(r, w) ==
    [r EXCEPT !.alts = << [svc |-> "canary", weight |-> w.canary] >>]
setSwapped(r, w) ==
    [r EXCEPT !.to = w.canary,
              !.alts = << [svc |-> "canary", weight |-> w.stable] >>]
setOnce(r, w) ==
    IF r.alts # <<>> THEN r
    ELSE [r EXCEPT !.to = w.stable,
                   !.alts = << [svc |-> "canary", weight |-> w.canary] >>]

\* Both weights, with the canary as the only alternate backend.
setWeights(r, w) ==
    [r EXCEPT !.to = w.stable,
              !.alts = << [svc |-> "canary", weight |-> w.canary] >>]

\* (Mutant: the weights are put back, the alternate backend stays.)
ResetWeightOnly(r) == [r EXCEPT !.to = maxRouteWeight]

ResetWeights(r) == [r EXCEPT !.to = maxRouteWeight, !.alts = <<>>]

\* (Mutant: the 256 parts are taken for percent.)
UnscaledWeight(r) ==
    IF r.alts = <<>> THEN 0
    ELSE IF r.alts[1].weight > 100 THEN 100 ELSE r.alts[1].weight

\* What Status reports of the canary: the first alternate backend, whoever's
\* it is.
observedWeight(r) ==
    IF r.alts = <<>> THEN 0
    ELSE LET pct == (r.alts[1].weight * 100) \div maxRouteWeight
         IN  IF pct > 100 THEN 100 ELSE pct

\* The share of the canary Service.
CanaryShare(r) ==
    IF r.alts # <<>> /\ r.alts[1].svc = "canary" THEN r.alts[1].weight ELSE 0

-----------------------------------------------------------------------------
(* The API server                                                          *)

\* An Update is refused when the Route is gone, or has been written since.
Accepts(r) == route.there /\ route.rv = r.rv

\* One that changes nothing does not make a new version.
Store(r) ==
    IF r = route THEN UNCHANGED <<route, version>>
    ELSE /\ version' = version + 1
         /\ route' = [r EXCEPT !.rv = version']

-----------------------------------------------------------------------------
(* The router                                                              *)

Reconcile(pct) ==
    /\ pc = "idle"
    /\ asks < MaxAsks
    /\ op' = "reconcile" /\ asked' = pct
    /\ pc' = "get"
    /\ asks' = asks + 1
    /\ UNCHANGED <<route, version, copy, edits, failures>>

Reset ==
    /\ pc = "idle"
    /\ asks < MaxAsks
    /\ op' = "reset" /\ asked' = 0
    /\ pc' = "get"
    /\ asks' = asks + 1
    /\ UNCHANGED <<route, version, copy, edits, failures>>

\* The next pass makes the call again.
Again ==
    /\ pc = "idle"
    /\ op # "none"
    /\ pc' = "get"
    /\ UNCHANGED <<route, version, op, asked, copy, edits, asks, failures>>

\* A call that returns without an error: a Reset is done with.
Succeed ==
    /\ pc' = "idle" /\ copy' = NoRoute
    /\ op' = IF op = "reset" THEN "none" ELSE op

\* getRoute.  No Route is an error to Reconcile, and nothing to do to Reset.
GetRoute ==
    /\ pc = "get"
    /\ route.there
    /\ copy' = route
    /\ pc' = "update"
    /\ UNCHANGED <<route, version, op, asked, edits, asks, failures>>

NoRouteFound ==
    /\ pc = "get"
    /\ ~route.there
    /\ Succeed
    /\ UNCHANGED <<route, version, asked, edits, asks, failures>>

Written ==
    IF op = "reset" THEN ResetWeights(copy)
    ELSE setWeights(copy, splitWeights(asked))

Update ==
    /\ pc = "update"
    /\ Accepts(copy)
    /\ Store(Written)
    /\ Succeed
    /\ UNCHANGED <<asked, edits, asks, failures>>

\* (Mutant: after a conflict the copy is written over what is there.)
UpdateForced ==
    /\ pc = "update"
    /\ ~Accepts(copy)
    /\ IF route.there THEN Store(Written) /\ Succeed
       ELSE pc' = "idle" /\ copy' = NoRoute /\ UNCHANGED <<route, version, op>>
    /\ UNCHANGED <<asked, edits, asks, failures>>

\* A conflict, or the Route is gone: the error is retryable.
UpdateRefused ==
    /\ pc = "update"
    /\ ~Accepts(copy)
    /\ pc' = "idle" /\ copy' = NoRoute
    /\ UNCHANGED <<route, version, op, asked, edits, asks, failures>>

\* The server does not answer, or the process dies.  The Update may have been
\* carried out all the same.
CallFails ==
    /\ pc # "idle"
    /\ failures < MaxFailures
    /\ failures' = failures + 1
    /\ \/ UNCHANGED <<route, version>>
       \/ pc = "update" /\ Accepts(copy) /\ Store(Written)
    /\ pc' = "idle" /\ copy' = NoRoute
    /\ UNCHANGED <<op, asked, edits, asks>>

-----------------------------------------------------------------------------
(* The user                                                                *)

UserEdits ==
    /\ route.there
    /\ edits < MaxEdits
    /\ edits' = edits + 1
    /\ version' = version + 1
    /\ route' = [route EXCEPT !.rest = edits', !.rv = version']
    /\ UNCHANGED <<op, asked, pc, copy, asks, failures>>

UserDeletes ==
    /\ route.there
    /\ edits < MaxEdits
    /\ edits' = edits + 1
    /\ route' = NoRoute
    /\ UNCHANGED <<version, op, asked, pc, copy, asks, failures>>

UserCreates ==
    /\ ~route.there
    /\ version' = version + 1
    /\ \E r \in UserRoutes : route' = UserRoute(r, version', edits)
    /\ UNCHANGED <<op, asked, pc, copy, edits, asks, failures>>

Calling == GetRoute \/ NoRouteFound \/ Update \/ UpdateRefused

Next ==
    \/ \E w \in Weights : Reconcile(w)
    \/ Reset \/ Again \/ Calling \/ CallFails
    \/ UserEdits \/ UserDeletes \/ UserCreates

Spec == Init /\ [][Next]_vars

\* Every pass is followed by another, and makes its calls.
FairSpec == Spec /\ WF_vars(Again \/ Calling)

-----------------------------------------------------------------------------
(* Properties                                                              *)

Routes == [there: BOOLEAN, rv: Nat, rest: Nat, to: 0..256, alts: Seq(Backends)]

TypeOK ==
    /\ route \in Routes
    /\ version \in Nat
    /\ op \in {"none", "reconcile", "reset"} /\ asked \in 0..100
    /\ pc \in {"idle", "get", "update"} /\ copy \in Routes
    /\ edits \in Nat /\ asks \in Nat /\ failures \in Nat

\* An Update writes the whole Route from a copy, and still no edit of the user
\* made between the read and the Update is lost: the Route always carries
\* what the user wrote last.
UserEditsSurvive == route.there => route.rest = edits

\* Once a Reset has returned without an error, no traffic goes to the canary
\* until the next Reconcile, whatever failed or was carried out late before.
ResetSticks == op = "none" => CanaryShare(route) = 0

\* The Route never sends the canary anything but 0, or the whole share of a
\* percentage that was asked for: the parts of the Route are written together.
SharesAreWhole ==
    LET w == CanaryShare(route)
    IN  w # 0 => /\ route.to = maxRouteWeight - w
                 /\ \E pct \in Weights : w = splitWeights(pct).canary

\* What Status reports once a Reconcile is in effect is the percentage asked
\* for, or one less, as both conversions round down: "the observed weight
\* split" router.go:27 has the reconciler detect drift with.
StatusReportsNear ==
    asked # 0 /\ CanaryShare(route) = splitWeights(asked).canary =>
        observedWeight(route) \in {asked - 1, asked}

\* Once the user lets go of the Route, it sends the canary what was asked for
\* last.
Converges ==
    <>[](route.there => CanaryShare(route) = splitWeights(asked).canary)

\* The Route as the contract of traffic.Router sees it, in 256ths.
Contract == INSTANCE TrafficContract
                WITH Share  <- [pct \in 0..100 |-> splitWeights(pct).canary],
                     object <- route.there,
                     split  <- CanaryShare(route)

\* The provider splits traffic in one step from the old share to that asked.
KeepsContract == Contract!Spec

\* The inductive invariant behind these.  A copy of the version the server
\* holds is the Route itself, so what an Update the server accepts writes
\* back is what is there; and a call is made for the request in force.
RouteInv ==
    /\ ~route.there => route = NoRoute
    /\ route.rv <= version
    /\ pc # "idle" => op # "none"
    /\ pc = "update" => /\ copy.there /\ copy.rv <= version
                        /\ route.there /\ route.rv = copy.rv => route = copy
    /\ asked \in IF op = "reconcile" THEN Weights ELSE {0}
    /\ UserEditsSurvive
    /\ ResetSticks
    /\ SharesAreWhole

=============================================================================
