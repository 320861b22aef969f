----------------------- MODULE MCMonitoredReconciler ------------------------
(* Values for the constants of MonitoredReconciler, for TLC.  Three steps  *)
(* are the fewest with a first, a middle and a last one, two those on      *)
(* which a Progressive rollout both advances and succeeds, and one is what *)
(* a Manual rollout succeeds on with a single promote.                     *)
EXTENDS MonitoredReconciler

MCPlan(mode, steps) == [mode |-> mode, steps |-> steps, maxFailed |-> 1,
                        analysis |-> mode = "Progressive"]
MCPlans == { MCPlan("Manual", <<20, 60, 100>>), MCPlan("Manual", <<100>>),
             MCPlan("Progressive", <<20, 100>>) }

\* An error rate with an upper bound, and a success rate with a lower one.
MCMetrics == << [min |-> {}, max |-> {5}], [min |-> {2}, max |-> {}] >>

MCResponse(data) ==
    [answered |-> TRUE, code |-> 200, wellFormed |-> TRUE, data |-> data]

\* A value within both bounds, one outside either bound, the two values JSON
\* does not know, a series that ends in a null, and the ways to fail.
MCAnswers ==
    { MCResponse(<<Number(n)>>) : n \in {1, 3, 9} } \cup
    { MCResponse(<<NaN>>), MCResponse(<<PlusInf>>),
      MCResponse(<<Number(9), Number(3), NoValue>>), MCResponse(<<>>),
      [MCResponse(<<>>) EXCEPT !.answered = FALSE],
      [MCResponse(<<>>) EXCEPT !.wellFormed = FALSE],
      [MCResponse(<<>>) EXCEPT !.code = 401] }
=============================================================================
