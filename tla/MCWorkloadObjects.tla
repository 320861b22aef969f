------------------------- MODULE MCWorkloadObjects --------------------------
(* Values for the constants of WorkloadObjects, for TLC: a target, the     *)
(* same with another selector, and one that selects by expressions alone;  *)
(* a Service without a targetPort, with a name, and with one that is none. *)
EXTENDS WorkloadObjects

MCTargets == { [pods |-> {"app"}, match |-> {"app"}],
               [pods |-> {"app", "tier"}, match |-> {"app", "tier"}],
               [pods |-> {"app"}, match |-> {}] }
MCName == [text |-> "name", above |-> 0, low |-> 0]
MC70000 == [text |-> "number", above |-> 0, low |-> 70000]
MCPorts == [port: {80}, targetPort: {Unset, MCName, MC70000}]
=============================================================================
