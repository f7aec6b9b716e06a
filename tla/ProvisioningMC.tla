--------------------------- MODULE ProvisioningMC ---------------------------
(* Instances of Provisioning for TLC. *)
EXTENDS Provisioning, TLC

\* NetBox devices whose names normalize to the same NSO name.
CONSTANT shared
SharedName == [d \in Devices |-> shared]
Interchangeable == Permutations(Devices)
=============================================================================
