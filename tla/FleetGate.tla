----------------------------- MODULE FleetGate -----------------------------
(***************************************************************************)
(* What the deployment gate promises, without locks, commands or rows: the *)
(* fleet's sessions are admitted to intent work one at a time and only     *)
(* while the gate is open, and the gate closes only once all of them have  *)
(* left.  DeploymentGate implements it.                                    *)
(***************************************************************************)

CONSTANT Sessions

VARIABLES
    closed,     \* the fleet is quiesced
    admitted    \* sessions inside an operation or a mutation

Init == ~closed /\ admitted = {}

Admit(s) ==
    /\ ~closed
    /\ admitted' = admitted \union {s}
    /\ UNCHANGED closed

Leave(s) ==
    /\ admitted' = admitted \ {s}
    /\ UNCHANGED closed

Close ==
    /\ admitted = {}
    /\ closed' = TRUE
    /\ UNCHANGED admitted

Open ==
    /\ closed' = FALSE
    /\ UNCHANGED admitted

Next == (\E s \in Sessions : Admit(s) \/ Leave(s)) \/ Close \/ Open

Spec == Init /\ [][Next]_<<closed, admitted>>
=============================================================================
