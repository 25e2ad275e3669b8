------------------------- MODULE MCDeploymentManager -------------------------
(***************************************************************************)
(* Constants for the model-checking runs of DeploymentManager.             *)
(***************************************************************************)
EXTENDS DeploymentManagerLife, DeploymentRecords, TLC

CONSTANTS h1, h2, h3, d1, d2, d3, web, api, n1, n2

SpreadAll == {[strategy |-> "spread", targets |-> {n1, n2}]}
LocalOnly == {[strategy |-> "spread", targets |-> {n1}]}
\* The handlers do the same things: their names do not matter.
Sym == Permutations(Handlers)
=============================================================================
