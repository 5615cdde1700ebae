------------------------------- MODULE MCFair -------------------------------
(***************************************************************************)
(* One instance of each component whose promises need fairness and that    *)
(* starts small: the browser session and the runtime configuration.  Which *)
(* of them runs is chosen at the start, and the other stands still in an   *)
(* initial state, where none of its fair actions is enabled.               *)
(***************************************************************************)
EXTENDS Session, Config

VARIABLE running

fairVars == <<running, vars, configVars>>

Runs(component) == running = component

MCInit ==
    /\ running \in {"Session", "Config"}
    /\ Init
    /\ ConfigInit

MCNext ==
    \/ Runs("Session") /\ Next /\ UNCHANGED <<running, configVars>>
    \/ Runs("Config") /\ ConfigNext /\ UNCHANGED <<running, vars>>

MCSpec == MCInit /\ [][MCNext]_fairVars /\ Fairness /\ ConfigFairness
=============================================================================
