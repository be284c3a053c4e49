--------------------------- MODULE MCDeploymentJobs ---------------------------
(* Small instances of DeploymentJobs: the jobs of one deployment that fetches *)
(* candles; one of them may be its flatten window.                            *)
EXTENDS DeploymentJobs, TLC

CONSTANT live

MCDeploymentOf == [j \in Job |-> live]
MCOwnIds == [w \in Worker |-> w]
Symmetry == Permutations(Worker)
=============================================================================
