-------------------------- MODULE MCStaleReconciler --------------------------
(* Values for the constants of StaleReconciler, for TLC.  Two steps are    *)
(* the fewest on which a promote could be used twice.                      *)
EXTENDS StaleReconciler

MCManual2 == { [mode |-> "Manual", steps |-> <<20, 100>>, maxFailed |-> 1,
                analysis |-> FALSE] }
=============================================================================
