------------------------- MODULE MCCanaryReconciler -------------------------
(* Values for the constants of CanaryReconciler, for TLC.  Three steps are *)
(* the fewest with a first, a middle and a last one; two are the fewest on *)
(* which a Progressive rollout both advances and succeeds.                 *)
EXTENDS DocumentedClaims, Admission

MCStrategy(mode, steps, maxFailed) ==
    [mode |-> mode, steps |-> steps, maxFailed |-> maxFailed,
     analysis |-> mode = "Progressive"]

MCManual == { MCStrategy("Manual", <<20, 60, 100>>, 1) }
MCProgressive == { MCStrategy("Progressive", <<20, 60, 100>>, 1) }

MCRequest(mode, steps, maxFailed, enabled) ==
    [mode |-> mode, steps |-> steps, maxFailed |-> maxFailed,
     enabled |-> enabled, providerType |-> enabled,
     metrics |-> IF enabled THEN 1 ELSE 0]

\* Three plans that are admitted, one of them by its defaults, and for each
\* rule of the webhook and the schema one request that only that rule refuses.
MCRequests ==
    { MCRequest("", <<20, 60, 100>>, 0, FALSE),
      MCRequest("Manual", <<50, 100>>, 1, FALSE),
      MCRequest("Progressive", <<100>>, 1, TRUE),
      MCRequest("Manual", <<60, 20, 100>>, 1, FALSE),
      MCRequest("Manual", <<50, 50, 100>>, 1, FALSE),
      MCRequest("Manual", <<20, 60>>, 1, FALSE),
      MCRequest("Manual", <<0, 100>>, 1, FALSE),
      MCRequest("Manual", <<>>, 1, FALSE),
      MCRequest("Progressive", <<100>>, -1, TRUE),
      [MCRequest("Progressive", <<100>>, 1, TRUE) EXCEPT !.metrics = 0],
      [MCRequest("Progressive", <<100>>, 1, TRUE) EXCEPT !.providerType = FALSE] }

\* Plans that an edit of the Canary swaps for one another.
MCEdited == Admitted(MCRequests)
=============================================================================
