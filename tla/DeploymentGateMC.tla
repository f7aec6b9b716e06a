-------------------------- MODULE DeploymentGateMC --------------------------
(* Instances of DeploymentGate for TLC. *)
EXTENDS DeploymentGate, TLC

Interchangeable == Permutations(Sessions) \union Permutations(Commands)
=============================================================================
