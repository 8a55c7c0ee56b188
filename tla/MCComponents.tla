--------------------------- MODULE MCComponents ---------------------------
(* Model checking of what a component waits for: the scripts of two          *)
(* operators (OperatorLifecycle) and the answers to the saves of properties  *)
(* (PropertyCommits).  The two share no state and a run of the model is of   *)
(* one of them, chosen at the start.                                         *)
EXTENDS MCOperatorLifecycle, PropertyCommits

VARIABLE part

componentsVars == <<vars, commitVars, part>>

ComponentsInit == part \in {"operators", "commit"} /\ Init /\ CommitInit

ComponentsNext ==
    /\ part' = part
    /\ \/ part = "operators" /\ Next /\ UNCHANGED commitVars
       \/ part = "commit" /\ CommitNext /\ UNCHANGED vars

ComponentsSpec == ComponentsInit /\ [][ComponentsNext]_componentsVars /\ Fairness /\ CommitFairness
=============================================================================
