---------------------------- MODULE MCIngresses ----------------------------
(* Instances of Ingresses for TLC: two targets and a service, or one       *)
(* target, a service, an ingress that routes to it, and mishaps. The user  *)
(* selects the same pod by one of two labels.                              *)
EXTENDS Ingresses, TLC

App == <<"example.com", "app">> :> "x"
Tier == <<"", "tier">> :> "z"
TwoLabels == {App, Tier}
OnePod == {App @@ Tier}

MCInit ==
    /\ Init
    /\ configured = IF ing = None THEN Targets ELSE {CHOOSE t \in Targets : TRUE}
    /\ mishaps = IF ing = None THEN 0 ELSE MaxMishaps
    /\ \A t \in Targets :
         /\ t \notin configured => svcCopy[t] = None
         /\ t \notin configured \/ ing = None \/ svcCopy[t] # None => ingCopy[t] = None
MCSpec == MCInit /\ [][Next]_vars /\ Fairness
=============================================================================
