---------------------------- MODULE SettlementMC ----------------------------
(* Settlement with its constants given as model values by settlement*.cfg. *)
EXTENDS Settlement, TLC

Symmetry == Permutations(Workers)

\* An apply job with its generation listed, one the listing has not caught up with, one whose
\* row cannot be read, and a job that carries no generation but cannot be read.
Readable == [kind |-> "apply", item |-> "good", row |-> "good"]
Unlisted == [kind |-> "apply", item |-> "bad", row |-> "none"]
Unreadable == [kind |-> "apply", item |-> "good", row |-> "bad"]
Carrierless == [kind |-> "other", item |-> "bad", row |-> "none"]

MCLandings == {Readable, Unlisted, Unreadable, Carrierless}
FeedLandings == {Readable, Unreadable}
=============================================================================
