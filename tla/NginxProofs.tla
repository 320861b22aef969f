----------------------------- MODULE NginxProofs -----------------------------
(***************************************************************************)
(* Theorems about NginxRouter, for all percentages, however far the cache  *)
(* lags, and any number of edits, requests and failed calls.               *)
(***************************************************************************)
EXTENDS NginxRouter, TLAPS

\* Where a call can be, by what it was made for.
Reconciling == {"getStable", "getSibling", "write"}

\* The strengthening of ResetSticks and of the contract: a call under way knows
\* what it is for, a Reset asks for nothing, and only a Reset that has returned
\* leaves no call to repeat.
NginxInv ==
    /\ pc \in Reconciling => op = "reconcile"
    /\ pc = "delete" => op = "reset"
    /\ op # "reconcile" => asked = 0
    /\ ResetSticks

-----------------------------------------------------------------------------
(* Types                                                                   *)

LEMMA NoSiblingTypes ==
    NoSibling \in Siblings /\ NoSibling.there = FALSE /\ NoSibling.weight = 0
  BY DEF NoSibling, Siblings

LEMMA SiblingTypes ==
    ASSUME NEW r \in Nat, NEW pct \in 0..100
    PROVE  SiblingIngress(r, pct) \in Siblings /\ SiblingIngress(r, pct).weight = pct
  BY DEF SiblingIngress, Siblings

LEMMA MutatedTypes ==
    ASSUME TypeOK
    PROVE  Mutated \in Siblings /\ Mutated.weight = asked
  BY DEF TypeOK, Mutated, Siblings

\* What the server holds once an Ingress is stored.
LEMMA StoredSibling ==
    ASSUME NEW i \in Siblings, version \in Nat, Store(i)
    PROVE  /\ version' \in Nat /\ stable' = stable
           /\ sibling' \in Siblings /\ sibling'.weight = i.weight
  BY DEF Store, Siblings

LEMMA ReturnTypes ==
    ASSUME Return
    PROVE  pc' = "idle" /\ rules' \in Nat /\ found' \in Siblings
  BY NoSiblingTypes DEF Return

LEMMA InitNginx == Init => TypeOK /\ NginxInv
  BY NoSiblingTypes DEF Init, TypeOK, NginxInv, ResetSticks, Reconciling

\* What a call that fails has done, if anything: a write or a deletion.
LEMMA CallFailsTypes ==
    ASSUME TypeOK, CallFails
    PROVE  stable' \in Nat /\ version' \in Nat /\ sibling' \in Siblings
  <1>1. CASE UNCHANGED server
    BY <1>1 DEF server, TypeOK
  <1>2. CASE Store(SiblingIngress(rules, asked))
    BY <1>2, SiblingTypes, StoredSibling DEF TypeOK
  <1>3. CASE Store(Mutated)
    BY <1>3, MutatedTypes, StoredSibling DEF TypeOK
  <1>4. CASE sibling' = NoSibling /\ UNCHANGED <<stable, version>>
    BY <1>4, NoSiblingTypes DEF TypeOK
  <1> QED
    BY <1>1, <1>2, <1>3, <1>4 DEF CallFails

LEMMA NextTypes == TypeOK /\ [Next]_vars => TypeOK'
  <1> SUFFICES ASSUME TypeOK, [Next]_vars PROVE TypeOK'
    OBVIOUS
  <1>1. ASSUME NEW w \in Weights, Reconcile(w) PROVE TypeOK'
    BY <1>1, NginxAssumption DEF Reconcile, TypeOK, server, cache
  <1>2. CASE Reset \/ Again
    BY <1>2 DEF Reset, Again, TypeOK, server, cache, bounds
  <1>3. CASE GetStable
    <2>1. pc' \in {"idle", "getSibling"} /\ rules' \in Nat /\ found' \in Siblings
      BY <1>3, ReturnTypes DEF GetStable, TypeOK
    <2> QED
      BY <1>3, <2>1 DEF GetStable, TypeOK, server, cache, bounds
  <1>4. CASE GetSibling
    BY <1>4 DEF GetSibling, TypeOK, server, cache, bounds
  <1>5. CASE Write
    <2>1. stable' \in Nat /\ version' \in Nat /\ sibling' \in Siblings
      BY <1>5, SiblingTypes, StoredSibling DEF Write, TypeOK
    <2> QED
      BY <1>5, <2>1, ReturnTypes DEF Write, TypeOK, cache, bounds
  <1>6. CASE Update
    <2>1. stable' \in Nat /\ version' \in Nat /\ sibling' \in Siblings
      BY <1>6, MutatedTypes, StoredSibling DEF Update, TypeOK
    <2> QED
      BY <1>6, <2>1, ReturnTypes DEF Update, TypeOK, cache, bounds
  <1>7. CASE NotWritten
    BY <1>7, ReturnTypes DEF NotWritten, TypeOK, server, cache, bounds
  <1>8. CASE Delete
    BY <1>8, ReturnTypes, NoSiblingTypes DEF Delete, TypeOK, cache, bounds
  <1>9. CASE CallFails
    BY <1>9, CallFailsTypes, ReturnTypes DEF CallFails, TypeOK, cache
  <1>10. CASE SyncStable \/ SyncSibling \/ UserWrites \/ UserDeletes
    BY <1>10 DEF SyncStable, SyncSibling, UserWrites, UserDeletes, TypeOK, server, cache, call, bounds
  <1>11. CASE UNCHANGED vars
    BY <1>11 DEF vars, TypeOK, server, cache, call, bounds
  <1> QED
    BY <1>1, <1>2, <1>3, <1>4, <1>5, <1>6, <1>7, <1>8, <1>9, <1>10, <1>11 DEF Next, Calling

\* Every variable keeps its type: no weight but a percentage is ever written.
THEOREM NginxTypeCorrect == Spec => []TypeOK
  BY InitNginx, NextTypes, PTL DEF Spec

-----------------------------------------------------------------------------
(* ResetSticks                                                             *)

LEMMA NextNginxInv == TypeOK /\ NginxInv /\ [Next]_vars => NginxInv'
  <1> SUFFICES ASSUME TypeOK, NginxInv, [Next]_vars PROVE NginxInv'
    OBVIOUS
  <1> USE DEF NginxInv, ResetSticks, Reconciling
  <1>1. ASSUME NEW w \in Weights, Reconcile(w) PROVE NginxInv'
    BY <1>1 DEF Reconcile, server
  <1>2. CASE Reset
    BY <1>2 DEF Reset, server
  <1>3. CASE Again
    BY <1>3 DEF Again, TypeOK, server
  <1>4. CASE GetStable \/ GetSibling \/ NotWritten
    BY <1>4 DEF GetStable, GetSibling, NotWritten, Return, server
  <1>5. CASE Write \/ Update
    BY <1>5 DEF Write, Update, Return
  <1>6. CASE Delete
    BY <1>6, NoSiblingTypes DEF Delete, Return
  <1>7. CASE CallFails
    <2>1. op # "none"
      BY <1>7 DEF CallFails, TypeOK
    <2> QED
      BY <1>7, <2>1 DEF CallFails, Return
  <1>8. CASE SyncStable \/ SyncSibling \/ UserWrites \/ UserDeletes \/ UNCHANGED vars
    BY <1>8 DEF SyncStable, SyncSibling, UserWrites, UserDeletes, server, call, vars
  <1> QED
    BY <1>1, <1>2, <1>3, <1>4, <1>5, <1>6, <1>7, <1>8 DEF Next, Calling

\* However far the cache lags behind the siblings the calls before have made:
\* once a Reset has returned, none is there until the next Reconcile.
THEOREM NoSiblingAfterReset == Spec => []ResetSticks
  <1>1. NginxInv => ResetSticks
    BY DEF NginxInv
  <1> QED
    BY <1>1, InitNginx, NextTypes, NextNginxInv, PTL DEF Spec

-----------------------------------------------------------------------------
(* The contract                                                            *)

\* A write takes the share from what it was to what was asked for.
LEMMA WriteApplies ==
    ASSUME NEW i \in Siblings, TypeOK, i.weight = asked, Store(i), UNCHANGED asked
    PROVE  Contract!Apply
  BY StoredSibling DEF TypeOK, Contract!Apply

LEMMA DeleteApplies ==
    ASSUME TypeOK, NginxInv, pc = "delete", sibling' = NoSibling, UNCHANGED asked
    PROVE  Contract!Apply
  <1>1. asked = 0
    BY DEF NginxInv
  <1>2. sibling'.weight = 0
    BY NoSiblingTypes
  <1> QED
    BY <1>1, <1>2 DEF Contract!Apply

\* Every step of the router, the server, the watches and the user is one of the
\* contract, or changes nothing it speaks of.
LEMMA StepContract ==
    TypeOK /\ NginxInv /\ [Next]_vars => [Contract!Next]_(Contract!vars)
  <1> SUFFICES ASSUME TypeOK, NginxInv, [Next]_vars
               PROVE  Contract!Next \/ UNCHANGED <<asked, sibling>>
    BY DEF Contract!vars
  <1>1. ASSUME NEW w \in Weights, Reconcile(w) PROVE Contract!Ask
    BY <1>1, NginxAssumption DEF Reconcile, server, Contract!Ask
  <1>2. ASSUME Reset PROVE Contract!Ask
    BY <1>2 DEF Reset, server, Contract!Ask
  <1>3. CASE Again \/ GetStable \/ GetSibling \/ NotWritten
    BY <1>3 DEF Again, GetStable, GetSibling, NotWritten, server
  <1>4. ASSUME Store(SiblingIngress(rules, asked)), UNCHANGED asked PROVE Contract!Apply
    BY <1>4, SiblingTypes, WriteApplies DEF TypeOK
  <1>5. ASSUME Store(Mutated), UNCHANGED asked PROVE Contract!Apply
    BY <1>5, MutatedTypes, WriteApplies
  <1>6. ASSUME Delete PROVE Contract!Apply
    BY <1>6, DeleteApplies DEF Delete
  <1>7. CASE CallFails
    <2>1. CASE UNCHANGED server
      BY <1>7, <2>1 DEF CallFails, server
    <2>2. CASE pc = "delete" /\ sibling' = NoSibling
      BY <1>7, <2>2, DeleteApplies DEF CallFails, Contract!Next
    <2> QED
      BY <1>4, <1>5, <1>7, <2>1, <2>2 DEF CallFails, Contract!Next
  <1>8. CASE SyncStable \/ SyncSibling \/ UserWrites \/ UserDeletes \/ UNCHANGED vars
    BY <1>8 DEF SyncStable, SyncSibling, UserWrites, UserDeletes, server, call, vars
  <1> QED
    BY <1>1, <1>2, <1>3, <1>4, <1>5, <1>6, <1>7, <1>8
    DEF Next, Calling, Write, Update, Contract!Next

\* The provider implements the contract: with a lagging cache, conflicts, calls
\* cut short and the user at the stable Ingress, the share still goes in one
\* step from what it was to what was asked for last.
THEOREM NginxImplementsContract == Spec => KeepsContract
  <1>1. Init => Contract!Init
    BY NoSiblingTypes DEF Init, Contract!Init
  <1> QED
    BY <1>1, InitNginx, NextTypes, NextNginxInv, StepContract, PTL
    DEF Spec, KeepsContract, Contract!Spec
==============================================================================
