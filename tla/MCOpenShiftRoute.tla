--------------------------- MODULE MCOpenShiftRoute ---------------------------
(* Values for the constants of OpenShiftRoute, for TLC.                    *)
EXTENDS OpenShiftRoute

\* The Route of the tests, a Route at the default weight, and one that splits
\* its traffic with a second Service of the user's.
MCPlain == { [to |-> 256, alts |-> <<>>] }
MCShared ==
    { [to |-> 128, alts |-> << [svc |-> "user", weight |-> 128] >>] }
MCUserRoutes == MCShared \cup { [to |-> 100, alts |-> <<>>] }
=============================================================================
