----------------------------- MODULE NginxRouter -----------------------------
(***************************************************************************)
(* The traffic provider for ingress-nginx (internal/traffic/nginx): next   *)
(* to the Ingress of the user, which it only reads, it keeps a sibling     *)
(* Ingress of its own with the same rules, the canary Service behind them, *)
(* and the weight as an annotation.                                        *)
(*                                                                         *)
(* Both Ingresses are read from the informer cache, which lags; what is    *)
(* written goes to the server.  The caller makes one call at a time: it    *)
(* repeats a Reconcile at every pass of a step, and a Reset until one      *)
(* succeeds.                                                               *)
(***************************************************************************)
EXTENDS Integers

CONSTANTS
    Weights,    \* the percentages the reconciler asks for
    MaxEdits,   \* bound: what the user does to the stable Ingress
    MaxAsks,    \* bound: requests of the reconciler
    MaxFailures \* bound: calls that fail for no reason of the Ingresses

ASSUME NginxAssumption ==
    /\ Weights \subseteq 1..100
    /\ MaxEdits \in Nat /\ MaxAsks \in Nat /\ MaxFailures \in Nat

VARIABLES
    stable,        \* the rules of the user's Ingress, 0 without one
    sibling,       \* the canary Ingress
    cachedStable,  \* the two as the cache holds them
    cachedSibling,
    version,       \* the resource version given out last
    op,            \* the call the reconciler has to make
    asked,         \* the percentage it asks for
    pc,            \* where a call is: idle, getStable, getSibling, write, delete
    rules,         \* the rules of the stable Ingress as the call read them
    found,         \* the sibling as the call read it
    edits,         \* what the user did so far
    asks,          \* requests so far
    failures       \* failed calls so far

server == <<stable, sibling, version>>
cache  == <<cachedStable, cachedSibling>>
call   == <<op, asked, pc, rules, found>>
bounds == <<edits, asks, failures>>
vars   == <<server, cache, call, bounds>>

\* Rules stand for the spec of an Ingress: the number of the edit of the user
\* that wrote them.  The sibling's are the stable one's with every backend
\* Service replaced by the canary Service.
NoSibling == [there |-> FALSE, rv |-> 0, rules |-> 0, weight |-> 0]

\* (Mutant: the weight in tenths of a percent.)
SiblingPerMille(r, pct) ==
    [there |-> TRUE, rv |-> 0, rules |-> r, weight |-> 10 * pct]

SiblingIngress(r, pct) == [there |-> TRUE, rv |-> 0, rules |-> r, weight |-> pct]

Init ==
    /\ stable = 1 /\ cachedStable = 1
    /\ sibling = NoSibling /\ cachedSibling = NoSibling
    /\ version = 0
    /\ op = "none" /\ asked = 0
    /\ pc = "idle" /\ rules = 0 /\ found = NoSibling
    /\ edits = 0 /\ asks = 0 /\ failures = 0

-----------------------------------------------------------------------------
(* The router                                                              *)

Reconcile(pct) ==
    /\ pc = "idle"
    /\ asks < MaxAsks /\ asks' = asks + 1
    /\ op' = "reconcile" /\ asked' = pct
    /\ pc' = "getStable"
    /\ UNCHANGED <<server, cache, rules, found, edits, failures>>

Reset ==
    /\ pc = "idle"
    /\ asks < MaxAsks /\ asks' = asks + 1
    /\ op' = "reset" /\ asked' = 0
    /\ pc' = "delete"
    /\ UNCHANGED <<server, cache, rules, found, edits, failures>>

\* The next pass makes the call again.
Again ==
    /\ pc = "idle"
    /\ op # "none"
    /\ pc' = IF op = "reset" THEN "delete" ELSE "getStable"
    /\ UNCHANGED <<server, cache, op, asked, rules, found, bounds>>

\* The call returns.
Return == pc' = "idle" /\ rules' = 0 /\ found' = NoSibling

\* Without a stable Ingress the call is an error; otherwise its rules are what
\* the sibling is built from.
GetStable ==
    /\ pc = "getStable"
    /\ IF cachedStable = 0 THEN Return
       ELSE pc' = "getSibling" /\ rules' = cachedStable /\ UNCHANGED found
    /\ UNCHANGED <<server, cache, op, asked, bounds>>

\* The Get of CreateOrUpdate.
GetSibling ==
    /\ pc = "getSibling"
    /\ found' = cachedSibling
    /\ pc' = "write"
    /\ UNCHANGED <<server, cache, op, asked, rules, bounds>>

\* (Mutant: the mutation function sets the weight, not the rules.)
MutatedWeight == [found EXCEPT !.weight = asked]

\* The sibling read, with the rules and the weight it should have.
Mutated == [found EXCEPT !.rules = rules, !.weight = asked]

Store(i) ==
    /\ version' = version + 1
    /\ sibling' = [i EXCEPT !.rv = version']
    /\ UNCHANGED stable

\* Create is refused when a sibling the cache does not show is there.
Creates == ~found.there /\ ~sibling.there

\* Update is refused when the sibling is gone, or not the version read.
Updates == found.there /\ sibling.there /\ found.rv = sibling.rv

\* A sibling that was read to be as desired is not written at all.
Unchanged == found.there /\ Mutated = found

Write ==
    /\ pc = "write"
    /\ Creates
    /\ Store(SiblingIngress(rules, asked))
    /\ Return
    /\ UNCHANGED <<cache, op, asked, bounds>>

\* (Mutant: the sibling is deleted, and created again by the next call.)
Recreate ==
    /\ pc = "write"
    /\ Updates /\ ~Unchanged
    /\ sibling' = NoSibling
    /\ found' = NoSibling
    /\ UNCHANGED <<stable, version, cache, op, asked, pc, rules, bounds>>

Update ==
    /\ pc = "write"
    /\ Updates /\ ~Unchanged
    /\ Store(Mutated)
    /\ Return
    /\ UNCHANGED <<cache, op, asked, bounds>>

\* Nothing to write, or the write is refused, which is a retryable error.
NotWritten ==
    /\ pc = "write"
    /\ Unchanged \/ ~(Creates \/ Updates)
    /\ Return
    /\ UNCHANGED <<server, cache, op, asked, bounds>>

\* (Mutant: a sibling the cache does not show is not deleted.)
DeleteIfCached ==
    /\ pc = "delete"
    /\ sibling' = IF cachedSibling.there THEN NoSibling ELSE sibling
    /\ op' = "none"
    /\ Return
    /\ UNCHANGED <<stable, version, cache, asked, bounds>>

\* Reset deletes whatever is there, and nothing is as good.
Delete ==
    /\ pc = "delete"
    /\ sibling' = NoSibling
    /\ op' = "none"
    /\ Return
    /\ UNCHANGED <<stable, version, cache, asked, bounds>>

\* The server does not answer, or the process dies.  The write may have been
\* carried out all the same.
CallFails ==
    /\ pc # "idle"
    /\ failures < MaxFailures /\ failures' = failures + 1
    /\ \/ UNCHANGED server
       \/ pc = "write" /\ Creates /\ Store(SiblingIngress(rules, asked))
       \/ pc = "write" /\ Updates /\ ~Unchanged /\ Store(Mutated)
       \/ pc = "delete" /\ sibling' = NoSibling /\ UNCHANGED <<stable, version>>
    /\ Return
    /\ UNCHANGED <<cache, op, asked, edits, asks>>

-----------------------------------------------------------------------------
(* The watches and the user                                                *)

SyncStable ==
    /\ cachedStable # stable
    /\ cachedStable' = stable
    /\ UNCHANGED <<server, cachedSibling, call, bounds>>

SyncSibling ==
    /\ cachedSibling # sibling
    /\ cachedSibling' = sibling
    /\ UNCHANGED <<server, cachedStable, call, bounds>>

\* The user writes the Ingress, or creates it again.
UserWrites ==
    /\ edits < MaxEdits /\ edits' = edits + 1
    /\ stable' = edits' + 1
    /\ UNCHANGED <<sibling, version, cache, call, asks, failures>>

UserDeletes ==
    /\ stable # 0
    /\ edits < MaxEdits /\ edits' = edits + 1
    /\ stable' = 0
    /\ UNCHANGED <<sibling, version, cache, call, asks, failures>>

Calling == GetStable \/ GetSibling \/ Write \/ Update \/ NotWritten \/ Delete

Next ==
    \/ \E w \in Weights : Reconcile(w)
    \/ Reset \/ Again \/ Calling \/ CallFails
    \/ SyncStable \/ SyncSibling \/ UserWrites \/ UserDeletes

Spec == Init /\ [][Next]_vars

\* The watches deliver, and every pass is followed by another.
FairSpec ==
    /\ Spec
    /\ WF_vars(SyncStable) /\ WF_vars(SyncSibling)
    /\ WF_vars(Again \/ Calling)

-----------------------------------------------------------------------------
(* Properties                                                              *)

Siblings == [there: BOOLEAN, rv: Nat, rules: Nat, weight: 0..100]

TypeOK ==
    /\ stable \in Nat /\ cachedStable \in Nat
    /\ sibling \in Siblings /\ cachedSibling \in Siblings
    /\ version \in Nat
    /\ op \in {"none", "reconcile", "reset"} /\ asked \in 0..100
    /\ pc \in {"idle", "getStable", "getSibling", "write", "delete"}
    /\ rules \in Nat /\ found \in Siblings
    /\ edits \in Nat /\ asks \in Nat /\ failures \in Nat

\* Once a Reset has returned without an error, no sibling is there until the
\* next Reconcile, although the calls before may have created one that the
\* cache has yet to see.
ResetSticks == op = "none" => ~sibling.there

\* Once the user lets go of the stable Ingress, the sibling has its rules and
\* the weight asked for last, although each call may take the sibling in the
\* cache for up to date and write nothing.
Converges ==
    <>[](op = "reconcile" /\ stable # 0 =>
            /\ sibling.there
            /\ sibling.weight = asked /\ sibling.rules = stable)

\* The sibling as the contract of traffic.Router sees it.
Contract == INSTANCE TrafficContract
                WITH Share  <- [pct \in 0..100 |-> pct],
                     object <- TRUE,
                     split  <- sibling.weight

\* nginx.go:11: an update in place, with no "window of zero backends": the
\* share goes in one step from what it was to what was asked.
KeepsContract == Contract!Spec
=============================================================================
