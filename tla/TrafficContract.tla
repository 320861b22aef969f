--------------------------- MODULE TrafficContract ---------------------------
(***************************************************************************)
(* What CanaryReconciler takes a traffic provider to be: the share of the  *)
(* traffic that goes to the canary, and the percentage last asked for, by  *)
(* Reconcile or, for 0, by Reset (the contract of traffic.Router).  The    *)
(* share moves in one step from what it was to what was asked: there is no *)
(* moment with a third value.                                              *)
(***************************************************************************)
CONSTANT Share \* what the provider's own units make of a percentage

VARIABLES
    object, \* the user's object the provider works on is there
    asked,  \* the percentage last asked for
    split   \* the share of the canary

vars == <<object, asked, split>>

Init ==
    /\ object \in BOOLEAN
    /\ asked = 0
    /\ split = Share[0]

\* The reconciler calls.
Ask ==
    /\ asked' \in DOMAIN Share
    /\ UNCHANGED <<object, split>>

\* The call takes effect.
Apply ==
    /\ split' = Share[asked]
    /\ UNCHANGED <<object, asked>>

\* The user removes the object, and with it any share, or creates it anew.
Remove ==
    /\ object /\ ~object'
    /\ split' = Share[0]
    /\ UNCHANGED asked

Create ==
    /\ ~object /\ object'
    /\ UNCHANGED <<asked, split>>

Next == Ask \/ Apply \/ Remove \/ Create

Spec == Init /\ [][Next]_vars
=============================================================================
