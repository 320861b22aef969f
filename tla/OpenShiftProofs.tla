--------------------------- MODULE OpenShiftProofs ---------------------------
(***************************************************************************)
(* Theorems about OpenShiftRoute, for all percentages, whatever Routes the *)
(* user creates, and any number of edits, requests and failed calls.       *)
(***************************************************************************)
EXTENDS OpenShiftRoute, TLAPS

-----------------------------------------------------------------------------
(* The weights                                                             *)

\* splitWeights: the parts make 256, and the canary's is the whole number of
\* 256ths just below its percentage.
LEMMA SplitWeightsExact ==
    ASSUME NEW pct \in 0..100
    PROVE  /\ splitWeights(pct).canary \in 0..256
           /\ splitWeights(pct).stable = 256 - splitWeights(pct).canary
           /\ 100 * splitWeights(pct).canary <= 256 * pct
           /\ 256 * pct < 100 * splitWeights(pct).canary + 100
  BY DEF splitWeights, maxRouteWeight

\* What Status reports of a Route the router has written is the percentage,
\* or one below it; it is exact for 0 and for 100.
LEMMA StatusWithinOne ==
    ASSUME NEW pct \in 0..100, NEW r \in Routes
    PROVE  LET seen == observedWeight(setWeights(r, splitWeights(pct)))
           IN  /\ seen \in {pct - 1, pct}
               /\ pct \in {0, 100} => seen = pct
  <1> DEFINE c == splitWeights(pct).canary
             new == setWeights(r, splitWeights(pct))
  <1>1. c \in 0..256 /\ 100 * c <= 256 * pct /\ 256 * pct < 100 * c + 100
    BY SplitWeightsExact
  <1>2. new.alts = << [svc |-> "canary", weight |-> c] >>
    BY DEF setWeights, Routes
  <1>3. new.alts # <<>> /\ new.alts[1].weight = c
    BY <1>2
  <1>4. (c * 100) \div 256 \in {pct - 1, pct}
    BY <1>1
  <1>5. pct \in {0, 100} => (c * 100) \div 256 = pct
    BY <1>1
  <1>6. observedWeight(new) = (c * 100) \div 256
    BY <1>3, <1>4 DEF observedWeight, maxRouteWeight
  <1> QED
    BY <1>4, <1>5, <1>6

-----------------------------------------------------------------------------
(* A Route written                                                         *)

LEMMA NoRouteTypes == NoRoute \in Routes /\ CanaryShare(NoRoute) = 0
  <1>1. <<>> \in Seq(Backends)
    OBVIOUS
  <1> QED
    BY <1>1 DEF NoRoute, Routes, CanaryShare

\* A Route of the user's has no traffic for the canary.
LEMMA UserRouteTypes ==
    ASSUME NEW r \in UserRoutes, NEW rv \in Nat, NEW edit \in Nat
    PROVE  LET u == UserRoute(r, rv, edit)
           IN  /\ u \in Routes /\ u.there /\ u.rv = rv /\ u.rest = edit
               /\ CanaryShare(u) = 0
  <1>1. r.to \in 0..256 /\ r.alts \in Seq(Backends)
    BY RouteAssumption
  <1>2. r.alts # <<>> => 1 \in DOMAIN r.alts
    BY <1>1
  <1>3. r.alts # <<>> => r.alts[1].svc = "user"
    BY <1>2, RouteAssumption
  <1> QED
    BY <1>1, <1>3 DEF UserRoute, Routes, CanaryShare

\* What an accepted Update writes: everything as the server has it, but for
\* the weights, which are those of the request.
LEMMA WrittenRoute ==
    ASSUME TypeOK, RouteInv, pc = "update", Accepts(copy)
    PROVE  /\ Written \in Routes /\ Written.there
           /\ Written.rv = route.rv /\ Written.rest = edits
           /\ op = "reset" => CanaryShare(Written) = 0
           /\ op = "reconcile" =>
                 /\ CanaryShare(Written) = splitWeights(asked).canary
                 /\ Written.to = 256 - splitWeights(asked).canary
  <1>1. copy = route /\ route.there /\ route.rest = edits /\ copy \in Routes
    BY DEF Accepts, RouteInv, UserEditsSurvive, TypeOK
  <1>2. op \in {"reset", "reconcile"} /\ asked \in 0..100
    BY DEF RouteInv, TypeOK
  <1>3. CASE op = "reset"
    <2>1. Written = [copy EXCEPT !.to = 256, !.alts = <<>>]
      BY <1>3 DEF Written, ResetWeights, maxRouteWeight
    <2>2. <<>> \in Seq(Backends) /\ 256 \in 0..256
      OBVIOUS
    <2>3. /\ Written \in Routes /\ Written.alts = <<>>
          /\ Written.there = copy.there /\ Written.rv = copy.rv
          /\ Written.rest = copy.rest
      BY <1>1, <2>1, <2>2 DEF Routes
    <2> QED
      BY <1>1, <1>3, <2>3 DEF CanaryShare
  <1>4. CASE op = "reconcile"
    <2> DEFINE w == splitWeights(asked)
               alts == << [svc |-> "canary", weight |-> w.canary] >>
    <2> asked \in 0..100
      BY <1>2
    <2>1. w.canary \in 0..256 /\ w.stable = 256 - w.canary
      BY SplitWeightsExact
    <2>2. Written = [copy EXCEPT !.to = w.stable, !.alts = alts]
      BY <1>4 DEF Written, setWeights
    <2>3. alts \in Seq(Backends) /\ alts # <<>> /\ alts[1].svc = "canary"
          /\ alts[1].weight = w.canary
      BY <2>1 DEF Backends
    <2>4. w.stable \in 0..256
      BY <2>1
    <2>5. /\ Written \in Routes /\ Written.alts = alts /\ Written.to = w.stable
          /\ Written.there = copy.there /\ Written.rv = copy.rv
          /\ Written.rest = copy.rest
      BY <1>1, <2>2, <2>3, <2>4 DEF Routes
    <2> QED
      BY <1>1, <1>4, <2>1, <2>3, <2>5 DEF CanaryShare
  <1> QED
    BY <1>2, <1>3, <1>4

\* Storing it leaves the Route as it is, or makes it a new version.
LEMMA StoredRoute ==
    ASSUME TypeOK, RouteInv, pc = "update", Accepts(copy), Store(Written)
    PROVE  /\ route' \in Routes /\ route'.there /\ route'.rest = edits
           /\ version' \in Nat /\ route'.rv <= version'
           /\ CanaryShare(route') = CanaryShare(Written)
           /\ route'.to = Written.to
  <1>1. /\ Written \in Routes /\ Written.there /\ Written.rest = edits
        /\ version \in Nat /\ route.rv <= version
    BY WrittenRoute DEF TypeOK, RouteInv
  <1>2. CASE Written = route
    BY <1>1, <1>2 DEF Store
  <1>3. CASE Written # route
    <2>1. version' = version + 1 /\ route' = [Written EXCEPT !.rv = version']
      BY <1>3 DEF Store
    <2>2. version' \in Nat
      BY <1>1, <2>1
    <2> DEFINE wr == Written  v == version'
    <2>3. wr \in Routes /\ v \in Nat /\ route' = [wr EXCEPT !.rv = v]
      BY <1>1, <2>1, <2>2
    <2> HIDE DEF wr, v
    <2>4. /\ route' \in Routes /\ route'.there = wr.there
          /\ route'.rest = wr.rest /\ route'.to = wr.to
          /\ route'.alts = wr.alts /\ route'.rv = v
      BY <2>3 DEF Routes
    <2> QED
      BY <1>1, <2>2, <2>4 DEF CanaryShare, wr, v
  <1> QED
    BY <1>2, <1>3

-----------------------------------------------------------------------------
(* Types                                                                   *)

LEMMA InitTypes == Init => TypeOK
  <1> SUFFICES ASSUME Init PROVE TypeOK
    OBVIOUS
  <1>1. PICK r \in UserRoutes : route = UserRoute(r, 1, 0)
    BY DEF Init
  <1>2. route \in Routes
    BY <1>1, UserRouteTypes
  <1> QED
    BY <1>2, NoRouteTypes DEF Init, TypeOK

\* Every step keeps the types, given the invariant.
LEMMA StepTypes == TypeOK /\ RouteInv /\ [Next]_vars => TypeOK'
  <1> SUFFICES ASSUME TypeOK, RouteInv, [Next]_vars PROVE TypeOK'
    OBVIOUS
  <1> USE DEF TypeOK
  <1>1. ASSUME NEW w \in Weights, Reconcile(w) PROVE TypeOK'
    <2>1. w \in 0..100
      BY RouteAssumption
    <2> QED
      BY <1>1, <2>1 DEF Reconcile
  <1>2. CASE Reset
    BY <1>2 DEF Reset
  <1>3. CASE Again
    BY <1>3 DEF Again
  <1>4. CASE GetRoute
    BY <1>4 DEF GetRoute
  <1>5. CASE NoRouteFound
    BY <1>5, NoRouteTypes DEF NoRouteFound, Succeed
  <1>6. CASE Update
    <2>1. route' \in Routes /\ version' \in Nat
      BY <1>6, StoredRoute DEF Update
    <2> QED
      BY <1>6, <2>1, NoRouteTypes DEF Update, Succeed
  <1>7. CASE UpdateRefused
    BY <1>7, NoRouteTypes DEF UpdateRefused
  <1>8. CASE CallFails
    <2>1. route' \in Routes /\ version' \in Nat
      BY <1>8, StoredRoute DEF CallFails
    <2> QED
      BY <1>8, <2>1, NoRouteTypes DEF CallFails
  <1>9. CASE UserEdits
    <2>1. edits' \in Nat /\ version' \in Nat
      BY <1>9 DEF UserEdits
    <2>2. route' \in Routes
      BY <1>9, <2>1 DEF UserEdits, Routes
    <2> QED
      BY <1>9, <2>1, <2>2 DEF UserEdits
  <1>10. CASE UserDeletes
    BY <1>10, NoRouteTypes DEF UserDeletes
  <1>11. CASE UserCreates
    <2>1. version' \in Nat
      BY <1>11 DEF UserCreates
    <2>2. PICK r \in UserRoutes : route' = UserRoute(r, version', edits)
      BY <1>11 DEF UserCreates
    <2>3. route' \in Routes
      BY <2>1, <2>2, UserRouteTypes
    <2> QED
      BY <1>11, <2>1, <2>3 DEF UserCreates
  <1>12. CASE UNCHANGED vars
    BY <1>12 DEF vars
  <1> QED
    BY <1>1, <1>2, <1>3, <1>4, <1>5, <1>6, <1>7, <1>8, <1>9, <1>10, <1>11,
       <1>12 DEF Next, Calling

-----------------------------------------------------------------------------
(* The invariant                                                           *)

LEMMA InitInv == Init => RouteInv
  <1> SUFFICES ASSUME Init PROVE RouteInv
    OBVIOUS
  <1>1. PICK r \in UserRoutes : route = UserRoute(r, 1, 0)
    BY DEF Init
  <1>2. /\ route.there /\ route.rv = 1 /\ route.rest = 0
        /\ CanaryShare(route) = 0
    BY <1>1, UserRouteTypes
  <1> QED
    BY <1>2 DEF Init, RouteInv, UserEditsSurvive, ResetSticks, SharesAreWhole

\* An Update the server carries out, whether or not the answer arrives.
LEMMA StoreKeepsInv ==
    ASSUME TypeOK, RouteInv, pc = "update", Accepts(copy), Store(Written),
           pc' = "idle", UNCHANGED <<asked, edits>>,
           op' \in {op, IF op = "reset" THEN "none" ELSE op}
    PROVE  RouteInv'
  <1>1. /\ route'.there /\ route'.rest = edits /\ route'.rv <= version'
        /\ CanaryShare(route') = CanaryShare(Written) /\ route'.to = Written.to
    BY StoredRoute
  <1>2. op \in {"reset", "reconcile"}
    BY DEF RouteInv, TypeOK
  <1>3. CASE op = "reset"
    <2>1. CanaryShare(route') = 0
      BY <1>1, <1>3, WrittenRoute
    <2> QED
      BY <1>1, <1>3, <2>1
      DEF RouteInv, UserEditsSurvive, ResetSticks, SharesAreWhole
  <1>4. CASE op = "reconcile"
    <2>1. /\ CanaryShare(route') = splitWeights(asked).canary
          /\ route'.to = 256 - splitWeights(asked).canary
      BY <1>1, <1>4, WrittenRoute
    <2>2. asked \in Weights /\ op' = "reconcile"
      BY <1>4 DEF RouteInv
    <2>3. SharesAreWhole'
      BY <2>1, <2>2 DEF SharesAreWhole, maxRouteWeight
    <2> QED
      BY <1>1, <2>2, <2>3 DEF RouteInv, UserEditsSurvive, ResetSticks
  <1> QED
    BY <1>2, <1>3, <1>4

LEMMA StepInv == TypeOK /\ RouteInv /\ [Next]_vars => RouteInv'
  <1> SUFFICES ASSUME TypeOK, RouteInv, [Next]_vars PROVE RouteInv'
    OBVIOUS
  <1> USE DEF RouteInv, UserEditsSurvive, ResetSticks
  <1>1. ASSUME NEW w \in Weights, Reconcile(w) PROVE RouteInv'
    BY <1>1 DEF Reconcile, SharesAreWhole, TypeOK
  <1>2. CASE Reset
    BY <1>2 DEF Reset, SharesAreWhole
  <1>3. CASE Again
    BY <1>3 DEF Again, SharesAreWhole
  <1>4. CASE GetRoute
    BY <1>4 DEF GetRoute, SharesAreWhole
  <1>5. CASE NoRouteFound
    <2>1. route = NoRoute /\ CanaryShare(route) = 0
      BY <1>5, NoRouteTypes DEF NoRouteFound
    <2> QED
      BY <1>5, <2>1 DEF NoRouteFound, Succeed, SharesAreWhole, TypeOK
  <1>6. CASE Update
    BY <1>6, StoreKeepsInv DEF Update, Succeed
  <1>7. CASE UpdateRefused
    BY <1>7 DEF UpdateRefused, SharesAreWhole
  <1>8. CASE CallFails
    <2>1. CASE UNCHANGED <<route, version>>
      BY <1>8, <2>1 DEF CallFails, SharesAreWhole
    <2>2. CASE pc = "update" /\ Accepts(copy) /\ Store(Written)
      BY <1>8, <2>2, StoreKeepsInv DEF CallFails
    <2> QED
      BY <1>8, <2>1, <2>2 DEF CallFails
  <1>9. CASE UserEdits
    <2>1. edits' \in Nat /\ version' \in Nat /\ version' = version + 1
      BY <1>9 DEF UserEdits, TypeOK
    <2> DEFINE e == edits'  v == version'  r == route'
    <2>2. route \in Routes /\ e \in Nat /\ v \in Nat
          /\ r = [route EXCEPT !.rest = e, !.rv = v]
      BY <1>9, <2>1 DEF UserEdits, TypeOK
    <2> HIDE DEF e, v, r
    <2>4. /\ r.there = route.there /\ r.rest = e /\ r.rv = v /\ r.to = route.to
          /\ r.alts = route.alts
      BY <2>2 DEF Routes
    <2>5. CanaryShare(r) = CanaryShare(route)
      BY <2>4 DEF CanaryShare
    <2>3. route.there
      BY <1>9 DEF UserEdits
    <2> QED
      BY <1>9, <2>1, <2>3, <2>4, <2>5
      DEF UserEdits, SharesAreWhole, TypeOK, Routes, e, v, r
  <1>10. CASE UserDeletes
    BY <1>10, NoRouteTypes DEF UserDeletes, SharesAreWhole, NoRoute, TypeOK
  <1>11. CASE UserCreates
    <2>1. version' \in Nat /\ version' = version + 1
      BY <1>11 DEF UserCreates, TypeOK
    <2>2. PICK r \in UserRoutes : route' = UserRoute(r, version', edits)
      BY <1>11 DEF UserCreates
    <2>3. /\ route'.there /\ route'.rest = edits /\ route'.rv = version'
          /\ CanaryShare(route') = 0
      BY <2>1, <2>2, UserRouteTypes DEF TypeOK
    <2> QED
      BY <1>11, <2>1, <2>3 DEF UserCreates, SharesAreWhole, TypeOK, Routes
  <1>12. CASE UNCHANGED vars
    BY <1>12 DEF vars, SharesAreWhole
  <1> QED
    BY <1>1, <1>2, <1>3, <1>4, <1>5, <1>6, <1>7, <1>8, <1>9, <1>10, <1>11,
       <1>12 DEF Next, Calling

LEMMA Invariance == Spec => [](TypeOK /\ RouteInv)
  <1>1. Init => TypeOK /\ RouteInv
    BY InitTypes, InitInv
  <1>2. TypeOK /\ RouteInv /\ [Next]_vars => (TypeOK /\ RouteInv)'
    BY StepTypes, StepInv
  <1> QED
    BY <1>1, <1>2, PTL DEF Spec

\* The variables stay in their types.
THEOREM RouteTypeCorrect == Spec => []TypeOK
  BY Invariance, PTL

\* What a call holds of the Route is still so, or its Update will be refused:
\* the copy with the current version is the current Route.
THEOREM CopiesAreCurrent == Spec => []RouteInv
  BY Invariance, PTL

\* No edit of the user is lost to an Update of the router.
THEOREM NoEditLost == Spec => []UserEditsSurvive
  <1>1. RouteInv => UserEditsSurvive
    BY DEF RouteInv
  <1> QED
    BY <1>1, Invariance, PTL

\* A Reset that has returned stays in force until the next Reconcile.
THEOREM ResetIsFinal == Spec => []ResetSticks
  <1>1. RouteInv => ResetSticks
    BY DEF RouteInv
  <1> QED
    BY <1>1, Invariance, PTL

\* The weights in the Route are always those of one percentage asked for.
THEOREM NoMixedShares == Spec => []SharesAreWhole
  <1>1. RouteInv => SharesAreWhole
    BY DEF RouteInv
  <1> QED
    BY <1>1, Invariance, PTL

\* The step from the share in the Route to what Status reports of it.
LEMMA ShareReadBack ==
    ASSUME TypeOK PROVE StatusReportsNear
  <1> SUFFICES ASSUME asked # 0, CanaryShare(route) = splitWeights(asked).canary
               PROVE  observedWeight(route) \in {asked - 1, asked}
    BY DEF StatusReportsNear
  <1> DEFINE c == splitWeights(asked).canary
  <1>1. asked \in 0..100 /\ asked # 0
    BY DEF TypeOK
  <1>2. c \in 0..256 /\ 100 * c <= 256 * asked /\ 256 * asked < 100 * c + 100
    BY <1>1, SplitWeightsExact
  <1> HIDE DEF c
  <1>3. c # 0
    BY <1>1, <1>2
  <1>4. route.alts # <<>> /\ route.alts[1].weight = c
    BY <1>3 DEF CanaryShare, c
  <1>5. (c * 100) \div 256 \in {asked - 1, asked} /\ (c * 100) \div 256 <= 100
    BY <1>1, <1>2
  <1>6. observedWeight(route) = (c * 100) \div 256
    BY <1>1, <1>2, <1>4, <1>5 DEF observedWeight, maxRouteWeight
  <1> QED
    BY <1>5, <1>6

\* Whatever was asked for, Status is off by the rounding at most.
THEOREM StatusIsNear == Spec => []StatusReportsNear
  BY RouteTypeCorrect, ShareReadBack, PTL

-----------------------------------------------------------------------------
(* The contract                                                            *)

LEMMA ShareOfNothing == splitWeights(0).canary = 0
  <1>1. splitWeights(0).canary \in 0..256 /\ 100 * splitWeights(0).canary <= 256 * 0
    BY SplitWeightsExact
  <1> QED
    BY <1>1

\* A carried out Update takes the share to what was asked for, or leaves it.
LEMMA StoreApplies ==
    ASSUME TypeOK, RouteInv, pc = "update", Accepts(copy), Store(Written),
           UNCHANGED asked
    PROVE  Contract!Apply
  <1>1. route.there = TRUE /\ route'.there = TRUE
    BY StoredRoute DEF Accepts, TypeOK, Routes
  <1>2. op \in {"reset", "reconcile"} /\ asked \in 0..100
    BY DEF RouteInv, TypeOK
  <1>3. CanaryShare(route') = splitWeights(asked).canary
    <2>1. CASE op = "reset"
      BY <2>1, StoredRoute, WrittenRoute, ShareOfNothing DEF RouteInv
    <2>2. CASE op = "reconcile"
      BY <2>2, StoredRoute, WrittenRoute
    <2> QED
      BY <1>2, <2>1, <2>2
  <1> QED
    BY <1>1, <1>2, <1>3 DEF Contract!Apply

\* Every step of the router, the server and the user is one of the contract,
\* or changes nothing it speaks of.
LEMMA StepContract ==
    TypeOK /\ RouteInv /\ [Next]_vars => [Contract!Next]_(Contract!vars)
  <1> SUFFICES ASSUME TypeOK, RouteInv, [Next]_vars
               PROVE  Contract!Next \/ UNCHANGED <<route.there, asked, CanaryShare(route)>>
    BY DEF Contract!vars
  <1>1. ASSUME NEW w \in Weights, Reconcile(w) PROVE Contract!Ask
    BY <1>1, RouteAssumption DEF Reconcile, Contract!Ask
  <1>2. ASSUME Reset PROVE Contract!Ask
    BY <1>2 DEF Reset, Contract!Ask
  <1>3. CASE Again \/ GetRoute \/ NoRouteFound \/ UpdateRefused
    BY <1>3 DEF Again, GetRoute, NoRouteFound, UpdateRefused
  <1>4. ASSUME Update PROVE Contract!Apply
    BY <1>4, StoreApplies DEF Update
  <1>5. CASE CallFails
    <2>1. CASE UNCHANGED <<route, version>>
      BY <1>5, <2>1 DEF CallFails
    <2>2. ASSUME pc = "update", Accepts(copy), Store(Written) PROVE Contract!Apply
      BY <1>5, <2>2, StoreApplies DEF CallFails
    <2> QED
      BY <1>5, <2>1, <2>2 DEF CallFails, Contract!Next
  <1>6. CASE UserEdits
    <2> DEFINE e == edits'  v == version'  r == route'
    <2>1. route \in Routes /\ r = [route EXCEPT !.rest = e, !.rv = v]
      BY <1>6 DEF UserEdits, TypeOK
    <2> HIDE DEF e, v, r
    <2>2. r.there = route.there /\ r.alts = route.alts
      BY <2>1 DEF Routes
    <2>3. CanaryShare(r) = CanaryShare(route)
      BY <2>2 DEF CanaryShare
    <2> QED
      BY <1>6, <2>2, <2>3 DEF UserEdits, r
  <1>7. ASSUME UserDeletes PROVE Contract!Remove
    <2>1. route.there /\ route' = NoRoute /\ UNCHANGED asked
      BY <1>7 DEF UserDeletes
    <2>2. ~NoRoute.there
      BY DEF NoRoute
    <2> QED
      BY <2>1, <2>2, NoRouteTypes, ShareOfNothing DEF Contract!Remove
  <1>8. ASSUME UserCreates PROVE Contract!Create
    <2>1. ~route.there /\ UNCHANGED asked /\ version' \in Nat /\ edits \in Nat
      BY <1>8 DEF UserCreates, TypeOK
    <2>2. PICK r \in UserRoutes : route' = UserRoute(r, version', edits)
      BY <1>8 DEF UserCreates
    <2>3. route'.there /\ CanaryShare(route') = 0
      BY <2>1, <2>2, UserRouteTypes
    <2>4. CanaryShare(route) = 0
      BY <2>1, NoRouteTypes DEF RouteInv
    <2> QED
      BY <2>1, <2>3, <2>4 DEF Contract!Create
  <1>9. CASE UNCHANGED vars
    BY <1>9 DEF vars
  <1> QED
    BY <1>1, <1>2, <1>3, <1>4, <1>5, <1>6, <1>7, <1>8, <1>9
    DEF Next, Calling, Contract!Next

\* The provider implements the contract: with retries, conflicts and the user
\* at the Route, the share still goes in one step to what was asked for.
THEOREM RouteImplementsContract == Spec => KeepsContract
  <1>1. Init => Contract!Init
    <2> SUFFICES ASSUME Init PROVE Contract!Init
      OBVIOUS
    <2>1. PICK r \in UserRoutes : route = UserRoute(r, 1, 0)
      BY DEF Init
    <2>2. route \in Routes /\ CanaryShare(route) = 0
      BY <2>1, UserRouteTypes
    <2>3. route.there \in BOOLEAN
      BY <2>2 DEF Routes
    <2> QED
      BY <2>2, <2>3, ShareOfNothing DEF Init, Contract!Init
  <1> QED
    BY <1>1, Invariance, StepContract, PTL
    DEF Spec, KeepsContract, Contract!Spec
=============================================================================
