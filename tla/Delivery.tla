------------------------------ MODULE Delivery ------------------------------
(***************************************************************************)
(* What the intent outbox of one key promises, without rows, sequences,    *)
(* workers or receipts.  The owned intent changes only together with a     *)
(* debt; the adapter's store changes only while there is one, unless the   *)
(* store itself is replaced by an empty one; and the debt is paid only     *)
(* when the store is the intent.  IntentOutbox implements it.              *)
(***************************************************************************)

CONSTANT Empty  \* what a new store holds

VARIABLES
    wanted,     \* the intent that the operators own
    held,       \* what the adapter's store holds
    owed        \* something is still to be delivered

vars == <<wanted, held, owed>>

Init == wanted = held /\ ~owed

\* An operator writes, or somebody asks for a delivery: a debt, at once.
Ask == owed' /\ UNCHANGED held

\* A request lands, however late: only while something is owed.
Carry == owed /\ owed' /\ UNCHANGED wanted

\* The store is rebuilt, replaced or offboarded, the overlays with it.
Replace == owed' /\ held' = Empty

\* The debt is paid.
Pay == owed /\ ~owed' /\ held' = wanted /\ UNCHANGED wanted

Next == Ask \/ Carry \/ Replace \/ Pay

Spec == Init /\ [][Next]_vars
=============================================================================
