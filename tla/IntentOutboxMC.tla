--------------------------- MODULE IntentOutboxMC ---------------------------
(* Instances of IntentOutbox for TLC. *)
EXTENDS IntentOutbox, TLC

RoutePermutations == Permutations(Routes)
WorkerPermutations == Permutations(Workers)
=============================================================================
