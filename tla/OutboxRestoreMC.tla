-------------------------- MODULE OutboxRestoreMC ---------------------------
(* Instances of OutboxRestore for TLC. *)
EXTENDS OutboxRestore, TLC

=============================================================================
