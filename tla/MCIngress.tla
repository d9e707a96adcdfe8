------------------------------ MODULE MCIngress ------------------------------
(* Instances of Ingress for TLC. *)
EXTENDS Ingress, TLC

CONSTANTS a, b

\* Any one setting is changed under traffic; or backpressure is switched on
\* and enough segments come to keep the read loop waiting for a role.
MCScenarios ==
    [settings |-> [limits |-> {1}, switches |-> {TRUE}, extensions |-> {2},
                   budgets |-> {3}, segments |-> (a :> 1 @@ b :> 1), configures |-> 1],
     blocked |-> [limits |-> {}, switches |-> {TRUE}, extensions |-> {},
                  budgets |-> {}, segments |-> (a :> 1 @@ b :> 4), configures |-> 1]]
==============================================================================
