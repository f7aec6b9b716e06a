---------------------------- MODULE Provisioning ----------------------------
(***************************************************************************)
(* Onboarding a NetBox device into NSO (onboarding.py) and the durable     *)
(* tombstone that completes it (provision_lifecycle.py): an operator       *)
(* claims an attempt and posts it to the adapter while the identity is     *)
(* locked, a callback and any number of sweeps race to record what became  *)
(* of it, and an attempt that no management row tracks any more is         *)
(* offboarded from the adapter.  Quick Manage, the deletion of a row and   *)
(* the link that follows a row's save interleave with all of it.           *)
(*                                                                         *)
(* One NSO instance.  Attempts are numbered in the order they are claimed, *)
(* which is the order of attempt_sequence within one name.  The adapter is *)
(* external: one job per attempt, at most one device row per NSO name, a   *)
(* row of its own making that carries no NetBox device until a link.       *)
(***************************************************************************)
EXTENDS Naturals, FiniteSets

CONSTANTS
    Devices,       \* NetBox devices
    Names,         \* NSO device names
    NodeName,      \* the normalized name each device is onboarded under
    Bodies,        \* request bodies that differ (a NED, an address)
    Operators,     \* request workers that run onboard_candidate
    Sweepers,      \* workers that run one attempt's sweep at a time
    Racers,        \* those that run beside another sweep
    FleetSweepers, \* those that keep one inventory for a whole fleet sweep
    Events,        \* the faults and operator moves that may happen
    MaxAttempts,   \* bound: attempts claimed
    MaxMoves,      \* bound: Quick Manage requests and deletions of a row
    MaxFaults,     \* bound: requests and sweeps that go wrong, and racing sweeps
    NoRow          \* no management row, no adapter row

AllEvents == {"crash", "lost", "late", "refused", "outage", "age", "denied", "unmanage"}

ASSUME NodeNameAssumption == NodeName \in [Devices -> Names]
ASSUME FleetAssumption == FleetSweepers \subseteq Sweepers /\ Racers \subseteq Sweepers
ASSUME EventsAssumption == Events \subseteq AllEvents
ASSUME BoundsAssumption == {MaxAttempts, MaxMoves, MaxFaults} \subseteq Nat

VARIABLES
    tomb,       \* the tombstones, by attempt
    mgmt,       \* each device's management row
    job,        \* the adapter's receipt for each attempt
    node,       \* the adapter's device row for each NSO name
    late,       \* attempts whose request may still reach the adapter
    ob,         \* onboarding requests in progress
    sw,         \* sweeps in progress
    moves,      \* Quick Manage requests and deletions so far
    serial,     \* adapter device ids handed out
    faults      \* what went wrong so far, racing sweeps included

vars == <<tomb, mgmt, job, node, late, ob, sw, moves, serial, faults>>
adapter == <<job, node, late, serial>>
counts == <<moves, faults>>

Attempts == 1..MaxAttempts
Ids == Nat    \* 0: none

Unborn == [device |-> NoRow, body |-> NoRow, state |-> "unborn", job |-> FALSE, node |-> 0,
           verdict |-> "none", aged |-> FALSE]
Tombstones ==
    [device : Devices \union {NoRow}, body : Bodies \union {NoRow},
     state : {"unborn", "open", "terminal", "offboarded", "closed"}, job : BOOLEAN,
     node : Ids, verdict : {"none", "ok", "bad"}, aged : BOOLEAN]
ManagementRows ==
    [name : Names, job : 0..MaxAttempts, status : {"", "provisioning", "provision_failed"}, node : Ids]
Receipts == [st : {"absent", "running", "ok", "bad"}, node : Ids]
Nodes == [id : Ids, owner : Devices \union {NoRow}, by : 0..MaxAttempts]
Requests == [pc : {"idle", "claimed", "posting", "answered"}, att : 0..MaxAttempts, new : BOOLEAN]
Runs == [pc : {"idle", "polled", "marked", "looking", "deleting", "closing"}, att : 0..MaxAttempts,
         st : {"absent", "running", "ok", "bad"}, node : Ids, old : BOOLEAN]
Inventories == [read : BOOLEAN, nodes : [Names -> Nodes \union {NoRow}]]

ASSUME NoRowAssumption == NoRow \notin Devices \union ManagementRows \union Nodes

NobodyPosts == [pc |-> "idle", att |-> 0, new |-> FALSE]
NothingSwept == [pc |-> "idle", att |-> 0, st |-> "absent", node |-> 0, old |-> FALSE]
NoInventory == [read |-> FALSE, nodes |-> [n \in Names |-> NoRow]]

Init ==
    /\ tomb = [a \in Attempts |-> Unborn]
    /\ mgmt = [d \in Devices |-> NoRow]
    /\ job = [a \in Attempts |-> [st |-> "absent", node |-> 0]]
    /\ node = [n \in Names |-> NoRow]
    /\ late = {}
    /\ ob = [o \in Operators |-> NobodyPosts]
    /\ sw = [s \in Sweepers |-> [run |-> NothingSwept, inv |-> NoInventory]]
    /\ moves = 0
    /\ serial = 0
    /\ faults = 0

Born == {a \in Attempts : tomb[a].state # "unborn"}
Open == {a \in Born : tomb[a].state = "open"}
NameOf(a) == NodeName[tomb[a].device]
Row(d) == mgmt[d] # NoRow

(***************************************************************************)
(* Row locks.  A submission keeps every tombstone of its identity locked   *)
(* across the POST; the offboard of an orphan keeps its own tombstone and  *)
(* the device's intent lock across the adapter calls.                      *)
(***************************************************************************)
SameIdentity(d, n) == {a \in Born : tomb[a].device = d \/ NameOf(a) = n}
Posting == {o \in Operators : ob[o].pc \in {"posting", "answered"}}
Offboarding == {s \in Sweepers : sw[s].run.pc \in {"looking", "deleting"}}
\* variant of HeldBy: a submission that locks nothing
HoldsNothing(o) == {}
HeldBy(o) == SameIdentity(tomb[ob[o].att].device, NameOf(ob[o].att))
Held == (UNION {HeldBy(o) : o \in Posting}) \union {sw[s].run.att : s \in Offboarding}
\* variant of IntentHeld: an offboard without the device intent lock
IntentNeverHeld(d) == FALSE
IntentHeld(d) == \E s \in Offboarding : tomb[sw[s].run.att].device = d

Taken(d, n) == Row(d) \/ \E e \in Devices \ {d} : Row(e) /\ mgmt[e].name = n

----------------------------------------------------------------------------
(***************************************************************************)
(* The operator's request: claim an attempt, commit, then post it.         *)
(***************************************************************************)
Step(o, pc) == ob' = [ob EXCEPT ![o].pc = pc]
Return(o) == ob' = [ob EXCEPT ![o] = NobodyPosts]

Oldest(S) == CHOOSE a \in S : \A x \in S : a <= x

ClaimAttempt(o, d, b) ==
    LET active == SameIdentity(d, NodeName[d]) \intersect Open
        old == Oldest(active)
        new == Cardinality(Born) + 1
    IN  /\ ob[o].pc = "idle"
        /\ SameIdentity(d, NodeName[d]) \intersect Held = {}
        /\ ~Taken(d, NodeName[d])
        /\ \/ /\ active # {}
              /\ tomb[old].device = d /\ tomb[old].body = b
              /\ ob' = [ob EXCEPT ![o] = [pc |-> "claimed", att |-> old, new |-> FALSE]]
              /\ UNCHANGED tomb
           \/ /\ active = {}
              /\ new \in Attempts
              /\ tomb' = [tomb EXCEPT ![new] =
                    [Unborn EXCEPT !.device = d, !.body = b, !.state = "open"]]
              /\ ob' = [ob EXCEPT ![o] = [pc |-> "claimed", att |-> new, new |-> TRUE]]
        /\ UNCHANGED <<mgmt, adapter, sw, counts>>

CloseRejected(a) ==
    IF tomb[a].state = "open" /\ ~tomb[a].job THEN [tomb EXCEPT ![a].state = "closed"] ELSE tomb

\* _reconcile_rejected_provision_claim: an unreachable adapter (the last
\* disjunct) leaves the claim open.
ReconcileRejected(a) ==
    \/ /\ job[a].st = "absent"
       /\ tomb' = CloseRejected(a)
    \/ /\ job[a].st # "absent"
       /\ tomb' = [tomb EXCEPT ![a].job = @ \/ tomb[a].state = "open"]
    \/ /\ "outage" \in Events
       /\ UNCHANGED tomb

SubmitClaim(o) ==
    LET a == ob[o].att
    IN  /\ ob[o].pc = "claimed"
        /\ SameIdentity(tomb[a].device, NameOf(a)) \intersect Held = {}
        /\ \/ /\ Taken(tomb[a].device, NameOf(a))
              /\ Return(o)
              /\ IF ob[o].new THEN ReconcileRejected(a) ELSE UNCHANGED tomb
           \/ /\ ~Taken(tomb[a].device, NameOf(a))
              /\ IF tomb[a].state = "open" THEN Step(o, "posting") ELSE Return(o)
              /\ UNCHANGED tomb
        /\ UNCHANGED <<mgmt, adapter, sw, counts>>

Admitted(a) == [job EXCEPT ![a].st = IF @ = "absent" THEN "running" ELSE @]

\* Every fault of an exchange or a sweep counts against the bound.
Fails(event) == event \in Events /\ faults < MaxFaults /\ faults' = faults + 1

\* provision_device, with every answer the client can get.
Post(o) ==
    LET a == ob[o].att
    IN  /\ ob[o].pc = "posting"
        /\ \/ /\ job' = Admitted(a)
              /\ Step(o, "answered")
              /\ UNCHANGED <<tomb, late, faults>>
           \/ /\ Fails("lost")           \* admitted, the answer lost
              /\ job' = Admitted(a)
              /\ Return(o)
              /\ UNCHANGED <<tomb, late>>
           \/ /\ Fails("late")           \* the client gives up first
              /\ late' = late \union {a}
              /\ Return(o)
              /\ UNCHANGED <<tomb, job>>
           \/ /\ Fails("refused")        \* definitely_not_enqueued
              /\ ReconcileRejected(a)
              /\ Return(o)
              /\ UNCHANGED <<job, late>>
        /\ UNCHANGED <<mgmt, node, serial, sw, moves>>

\* The rest of the submission's transaction.  The management row's key may
\* have been taken by Quick Manage, which rolls everything back.
AdmitAttempt(o) ==
    LET a == ob[o].att
        d == tomb[a].device
        admitted == [tomb EXCEPT ![a].job = @ \/ tomb[a].state = "open"]
    IN  /\ ob[o].pc = "answered"
        /\ ~IntentHeld(d)
        /\ Return(o)
        /\ \/ /\ ~Row(d)
              /\ tomb' = admitted
              /\ mgmt' = [mgmt EXCEPT ![d] =
                    [name |-> NameOf(a), job |-> a, status |-> "provisioning", node |-> 0]]
              /\ UNCHANGED faults
           \/ /\ Fails("denied")         \* the row alone is rolled back
              /\ ~Row(d)
              /\ tomb' = admitted
              /\ UNCHANGED mgmt
           \/ /\ Row(d)
              /\ UNCHANGED <<tomb, mgmt, faults>>
        /\ UNCHANGED <<adapter, sw, moves>>

OperatorDies(o) ==
    /\ "crash" \in Events
    /\ ob[o].pc \in {"claimed", "answered"}
    /\ Return(o)
    /\ UNCHANGED <<tomb, mgmt, adapter, sw, counts>>

----------------------------------------------------------------------------
(***************************************************************************)
(* The adapter (external).                                                 *)
(***************************************************************************)
LateRequestLands(a) ==
    /\ a \in late
    /\ late' = late \ {a}
    /\ job' = Admitted(a)
    /\ UNCHANGED <<tomb, mgmt, node, serial, ob, sw, counts>>

\* The job creates the adapter's row for the name, or finds a leftover.
JobBuilds(a) ==
    LET n == NameOf(a)
    IN  /\ job[a].st = "running" /\ job[a].node = 0
        /\ IF node[n] = NoRow
           THEN serial' = serial + 1 /\ node' = [node EXCEPT ![n] = [id |-> serial + 1, owner |-> NoRow, by |-> a]]
           ELSE serial' = serial /\ node' = [node EXCEPT ![n].by = a]
        /\ job' = [job EXCEPT ![a].node = node'[n].id]
        /\ UNCHANGED <<tomb, mgmt, late, ob, sw, counts>>

\* A failed job may or may not say which row it left behind.
JobEnds(a) ==
    /\ job[a].st = "running"
    /\ \/ job[a].node # 0 /\ job' = [job EXCEPT ![a].st = "ok"]
       \/ job' = [job EXCEPT ![a].st = "bad"]
       \/ job' = [job EXCEPT ![a] = [st |-> "bad", node |-> 0]]
    /\ UNCHANGED <<tomb, mgmt, node, late, serial, ob, sw, counts>>

----------------------------------------------------------------------------
(***************************************************************************)
(* Evidence.  The first terminal evidence wins, by compare-and-set.        *)
(***************************************************************************)
MarkTerminal(a, st, id, known) ==
    IF tomb[a].state # "open" THEN tomb
    ELSE [tomb EXCEPT ![a] = [tomb[a] EXCEPT !.state = "terminal", !.verdict = st, !.node = id, !.job = @ \/ known]]

\* The adapter's callback may come at any time after the job ended, again
\* and again, or never.  Its UPDATE waits for a locked row.
Callback(a) ==
    /\ a \in Open \ Held
    /\ job[a].st \in {"ok", "bad"}
    /\ tomb' = MarkTerminal(a, job[a].st, job[a].node, TRUE)
    /\ UNCHANGED <<mgmt, adapter, ob, sw, counts>>

Sweeping(s, pc) == sw' = [sw EXCEPT ![s].run = [NothingSwept EXCEPT !.pc = pc, !.att = sw[s].run.att]]
Kept(s) == IF s \in FleetSweepers THEN sw[s].inv ELSE NoInventory
EndSweep(s) == sw' = [sw EXCEPT ![s] = [run |-> NothingSwept, inv |-> Kept(s)]]

\* Past six hours the request of the claim that made the attempt is not on
\* its way any more; a request that reuses the open claim may be.  A sweep
\* that comes earlier leaves no trace, so every visit is taken to be late.
OldEnough(a) ==
    /\ "age" \in Events
    /\ a \notin late
    /\ ~\E o \in Operators : ob[o].att = a /\ ob[o].new

\* A sweep that runs beside another one counts as a fault.
Starts(s) ==
    IF s \in Racers /\ sw[s].run.pc = "idle"
    THEN faults < MaxFaults /\ faults' = faults + 1
    ELSE UNCHANGED faults

\* Only the evidence of a job that ended names its row.
Named(a) == IF job[a].st = "running" THEN 0 ELSE job[a].node

\* _sweep_one reads the state and polls the adapter without a lock; the age
\* matters of an unknown attempt only.
Poll(s, a) ==
    /\ sw[s].run.pc = "idle"
    /\ a \in Open
    /\ sw' = [sw EXCEPT ![s] =
          [run |-> [pc |-> "polled", att |-> a, st |-> job[a].st,
                    node |-> Named(a),
                    old |-> job[a].st = "absent" /\ OldEnough(a)],
           inv |-> Kept(s)]]
    /\ Starts(s)
    /\ UNCHANGED <<tomb, mgmt, adapter, ob, moves>>

\* A verdict that is still open is ignored when the locked row has moved on.
RecordPoll(s) ==
    LET r == sw[s].run
        a == r.att
    IN  /\ r.pc = "polled"
        /\ r.st # "absent"
        /\ a \notin Held
        /\ \/ /\ tomb[a].state # "open"
              /\ Sweeping(s, "marked")
              /\ UNCHANGED tomb
           \/ /\ tomb[a].state = "open" /\ r.st = "running"
              /\ tomb' = [tomb EXCEPT ![a].job = TRUE]
              /\ EndSweep(s)
           \/ /\ tomb[a].state = "open" /\ r.st # "running"
              /\ tomb' = MarkTerminal(a, r.st, r.node, TRUE)
              /\ Sweeping(s, "marked")
        /\ UNCHANGED <<mgmt, adapter, ob, counts>>

\* The adapter answered 404: an attempt past its age is failed by a bare
\* compare-and-set, a younger one waits.
AgeOut(s) ==
    LET a == sw[s].run.att
    IN  /\ sw[s].run.pc = "polled"
        /\ sw[s].run.st = "absent"
        /\ \/ ~sw[s].run.old /\ EndSweep(s) /\ UNCHANGED tomb
           \/ /\ sw[s].run.old
              /\ a \notin Held
              /\ tomb' = [MarkTerminal(a, "bad", 0, FALSE) EXCEPT
                             ![a].aged = @ \/ tomb[a].state = "open"]
              /\ Sweeping(s, "marked")
        /\ UNCHANGED <<mgmt, adapter, ob, counts>>

----------------------------------------------------------------------------
(***************************************************************************)
(* Completion, behind the tombstone fence and the device's intent lock.    *)
(***************************************************************************)
Tracks(d, a) == Row(d) /\ d = tomb[a].device /\ mgmt[d].name = NameOf(a)
\* variant of Applies: the row's job is not compared
AppliesToAnyJob(a) == Tracks(tomb[a].device, a)
\* adapter_job_id and onboard_job_id are blank (0) until an answer or a receipt names the job: an
\* attempt without one matches a row that Quick Manage made.
JobOf(a) == IF tomb[a].job THEN a ELSE 0
Applies(a) == LET d == tomb[a].device IN Tracks(d, a) /\ mgmt[d].job = JobOf(a)
SameNode(a) == Tracks(tomb[a].device, a)
PartialMatch(a) == \E d \in Devices : Row(d) /\ (d = tomb[a].device \/ mgmt[d].name = NameOf(a))
\* variant of AnotherOwns: an older attempt stands in the way too
AnyOtherOwns(a) ==
    \E x \in Born \ {a} : NameOf(x) = NameOf(a) /\ tomb[x].state # "closed"
AnotherOwns(a) ==
    \E x \in Born \ {a} : /\ NameOf(x) = NameOf(a)
                          /\ tomb[x].state # "closed"
                          /\ tomb[x].state = "open" \/ x > a

\* variant of Evidenced: the row copies the adapter's word
EvidencedVerbatim(a) == [mgmt EXCEPT ![tomb[a].device].status = tomb[a].verdict]
Evidenced(a) ==
    LET d == tomb[a].device
    IN  [mgmt EXCEPT ![d].status = IF tomb[a].verdict = "ok" THEN "" ELSE "provision_failed"]

Complete(s, a) ==
    LET close == [tomb EXCEPT ![a].state = "closed"]
    IN  /\ \/ sw[s].run.pc = "idle"
           \/ sw[s].run.pc = "marked" /\ sw[s].run.att = a
        /\ a \in Born \ Held
        /\ tomb[a].state = "terminal"
        /\ ~IntentHeld(tomb[a].device)
        /\ \/ Applies(a) /\ mgmt' = Evidenced(a) /\ tomb' = close /\ EndSweep(s)
           \/ ~Applies(a) /\ SameNode(a) /\ tomb' = close /\ EndSweep(s) /\ UNCHANGED mgmt
           \/ ~SameNode(a) /\ PartialMatch(a) /\ EndSweep(s) /\ UNCHANGED <<tomb, mgmt>>
           \/ ~PartialMatch(a) /\ AnotherOwns(a) /\ EndSweep(s) /\ UNCHANGED <<tomb, mgmt>>
           \/ /\ ~PartialMatch(a) /\ ~AnotherOwns(a)
              /\ sw' = [sw EXCEPT ![s] =
                          [run |-> [pc |-> "looking", att |-> a, st |-> "absent",
                                   node |-> tomb[a].node, old |-> FALSE],
                           inv |-> Kept(s)]]
              /\ UNCHANGED <<tomb, mgmt>>
        /\ Starts(s)
        /\ UNCHANGED <<adapter, ob, moves>>

\* variant of Ours: a row without an owner is not ours
OursIfLinked(row, a) == row # NoRow /\ row.owner = tomb[a].device
Ours(row, a) == row # NoRow /\ row.owner \in {NoRow, tomb[a].device}

\* _recover_adapter_device_id, when no evidence named the row: the inventory
\* is read once and kept for the rest of a fleet sweep.
Lookup(s) ==
    LET a == sw[s].run.att
        nodes == IF sw[s].inv.read THEN sw[s].inv.nodes ELSE node
        row == nodes[NameOf(a)]
        known == sw[s].run.node # 0
    IN  /\ sw[s].run.pc = "looking"
        /\ sw' = [sw EXCEPT ![s] =
                     [run |-> [sw[s].run EXCEPT !.pc = "deleting",
                                                !.node = IF known THEN @ ELSE IF Ours(row, a) THEN row.id ELSE 0],
                      inv |-> IF known \/ s \notin FleetSweepers THEN sw[s].inv
                              ELSE [read |-> TRUE, nodes |-> nodes]]]
        /\ UNCHANGED <<tomb, mgmt, adapter, ob, counts>>

Without(id) == [n \in Names |-> IF node[n] # NoRow /\ node[n].id = id THEN NoRow ELSE node[n]]

\* delete_provisioned_device, then offboarded.  404 is success; another
\* failure stays retryable; a death in between repeats the delete.
Offboard(s) ==
    LET a == sw[s].run.att
        id == sw[s].run.node
    IN  /\ sw[s].run.pc = "deleting"
        /\ \/ /\ node' = IF id = 0 THEN node ELSE Without(id)
              /\ tomb' = [tomb EXCEPT ![a] = [@ EXCEPT !.state = "offboarded", !.node = id]]
              /\ Sweeping(s, "closing")
              /\ UNCHANGED faults
           \/ /\ id # 0
              /\ Fails("crash")
              /\ node' = Without(id)
              /\ EndSweep(s)
              /\ UNCHANGED tomb
        /\ UNCHANGED <<mgmt, job, late, serial, ob, moves>>

\* After the commit, or by a later sweep that finds the close was lost.
CloseOffboarded(s, a) ==
    /\ \/ sw[s].run.pc = "idle"
       \/ sw[s].run.pc \in {"closing", "marked"} /\ sw[s].run.att = a
    /\ a \in Born \ Held
    /\ tomb[a].state = "offboarded"
    /\ tomb' = [tomb EXCEPT ![a].state = "closed"]
    /\ EndSweep(s)
    /\ Starts(s)
    /\ UNCHANGED <<mgmt, adapter, ob, moves>>

\* Another sweep was faster.
FindClosed(s) ==
    /\ sw[s].run.pc \in {"marked", "closing"}
    /\ tomb[sw[s].run.att].state = "closed"
    /\ EndSweep(s)
    /\ UNCHANGED <<tomb, mgmt, adapter, ob, counts>>

\* A sweep dies, or an adapter call fails and what it held is rolled back or
\* stays retryable; a fleet sweep comes to its end and forgets its inventory.
Abandon(s) ==
    /\ \/ Fails("crash") /\ sw[s].run.pc # "idle"
       \/ Fails("outage") /\ sw[s].run.pc \in {"looking", "deleting"}
       \/ /\ s \in FleetSweepers /\ sw[s].run.pc = "idle" /\ sw[s].inv.read
          /\ UNCHANGED faults
    /\ sw' = [sw EXCEPT ![s] = [run |-> NothingSwept, inv |-> NoInventory]]
    /\ UNCHANGED <<tomb, mgmt, adapter, ob, moves>>

----------------------------------------------------------------------------
(***************************************************************************)
(* What else touches a management row: Quick Manage, the link that follows *)
(* a committed save of a ready row, and the row's deletion.                *)
(***************************************************************************)
ManageExisting(d, n) ==
    /\ moves < MaxMoves
    /\ ~Taken(d, n)
    /\ ~IntentHeld(d)
    /\ mgmt' = [mgmt EXCEPT ![d] = [name |-> n, job |-> 0, status |-> "", node |-> 0]]
    /\ moves' = moves + 1
    /\ UNCHANGED <<tomb, adapter, ob, sw, faults>>

\* onboard_device adopts a row without an owner, refuses another device's.
LinkRow(d) ==
    LET n == mgmt[d].name
    IN  /\ Row(d) /\ mgmt[d].status = "" /\ mgmt[d].node = 0
        /\ ~IntentHeld(d)
        /\ node[n] # NoRow => node[n].owner \in {NoRow, d}
        /\ serial' = IF node[n] = NoRow THEN serial + 1 ELSE serial
        /\ node' = [node EXCEPT ![n] = [id |-> IF @ = NoRow THEN serial' ELSE @.id, owner |-> d, by |-> 0]]
        /\ mgmt' = [mgmt EXCEPT ![d].node = node'[n].id]
        /\ UNCHANGED <<tomb, job, late, ob, sw, counts>>

\* The offboard of a deleted row is best effort.
Unmanage(d) ==
    /\ "unmanage" \in Events /\ moves < MaxMoves
    /\ moves' = moves + 1
    /\ Row(d)
    /\ ~IntentHeld(d)
    /\ mgmt' = [mgmt EXCEPT ![d] = NoRow]
    /\ node' \in {node} \union (IF mgmt[d].node = 0 THEN {} ELSE {Without(mgmt[d].node)})
    /\ UNCHANGED <<tomb, job, late, serial, ob, sw, faults>>

----------------------------------------------------------------------------
OnboardStep(o) ==
    \/ \E d \in Devices, b \in Bodies : ClaimAttempt(o, d, b)
    \/ SubmitClaim(o)
    \/ Post(o)
    \/ AdmitAttempt(o)
    \/ OperatorDies(o)

SweepStep(s) ==
    \/ \E a \in Attempts : Poll(s, a) \/ Complete(s, a) \/ CloseOffboarded(s, a)
    \/ RecordPoll(s)
    \/ AgeOut(s)
    \/ Lookup(s)
    \/ Offboard(s)
    \/ FindClosed(s)
    \/ Abandon(s)

Next ==
    \/ \E o \in Operators : OnboardStep(o)
    \/ \E s \in Sweepers : SweepStep(s)
    \/ \E a \in Attempts : LateRequestLands(a) \/ JobBuilds(a) \/ JobEnds(a) \/ Callback(a)
    \/ \E d \in Devices : LinkRow(d) \/ Unmanage(d) \/ \E n \in Names : ManageExisting(d, n)

Spec == Init /\ [][Next]_vars

(***************************************************************************)
(* Fairness.  The cadence sweep visits every attempt that is not closed in *)
(* turn (updated_at rotates, also past a failure) and time passes between  *)
(* the visits, so the work on each attempt goes on; the adapter ends its   *)
(* jobs; a request worker finishes or dies.                                *)
(***************************************************************************)
Work(a) == \E s \in Sweepers :
    \/ Poll(s, a)
    \/ Complete(s, a)
    \/ CloseOffboarded(s, a)
    \/ sw[s].run.att = a /\ (RecordPoll(s) \/ AgeOut(s) \/ Lookup(s) \/ Offboard(s) \/ FindClosed(s))

Fairness ==
    /\ \A a \in Attempts :
          /\ SF_vars(Work(a))
          /\ WF_vars(JobBuilds(a) \/ JobEnds(a) \/ LateRequestLands(a))
    /\ \A o \in Operators : WF_vars(SubmitClaim(o) \/ Post(o) \/ AdmitAttempt(o))

FairSpec == Spec /\ Fairness

----------------------------------------------------------------------------
TypeOK ==
    /\ tomb \in [Attempts -> Tombstones]
    /\ mgmt \in [Devices -> ManagementRows \union {NoRow}]
    /\ job \in [Attempts -> Receipts]
    /\ node \in [Names -> Nodes \union {NoRow}]
    /\ late \subseteq Attempts
    /\ ob \in [Operators -> Requests]
    /\ sw \in [Sweepers -> [run : Runs, inv : Inventories]]
    /\ moves \in 0..MaxMoves
    /\ serial \in Ids
    /\ faults \in 0..MaxFaults

(***************************************************************************)
(* A management row that waits for its provision job is tracked by an      *)
(* attempt the sweep still works on and that carries the row's job, so the *)
(* row cannot wait for ever and _fail_untracked_provisioning is a backstop *)
(* nothing in this protocol needs (advance_provisioning).                  *)
(***************************************************************************)
ProvisioningRowIsTracked ==
    \A d \in Devices : Row(d) /\ mgmt[d].status = "provisioning" =>
        LET a == mgmt[d].job
        IN  /\ a \in Born
            /\ tomb[a].state \in {"open", "terminal"}
            /\ Applies(a)

(***************************************************************************)
(* The evidence a row carries is its own (_apply_terminal_evidence,        *)
(* mark_provision_terminal).  A row that was admitted for a job is ready   *)
(* only if the adapter finished that very job, and failed only by the      *)
(* closed attempt of that job: evidence of another attempt, of an earlier  *)
(* row of the device or of a poll gone stale does nothing to it.  A row    *)
(* without a job is failed by no verdict of the adapter, but blank job ids *)
(* match: an attempt of the same device and name that aged out before any  *)
(* job was known fails it.                                                 *)
(***************************************************************************)
FailedBy(d, a) ==
    /\ tomb[a].device = d /\ NameOf(a) = mgmt[d].name
    /\ tomb[a].state = "closed" /\ tomb[a].verdict = "bad" /\ mgmt[d].job = JobOf(a)
    /\ IF tomb[a].job THEN job[a].st = "bad" \/ tomb[a].aged ELSE tomb[a].aged
EvidenceFitsTheRow ==
    \A d \in Devices : Row(d) =>
        /\ mgmt[d].job # 0 /\ mgmt[d].status = "" =>
              job[mgmt[d].job].st = "ok" /\ tomb[mgmt[d].job].state = "closed"
        /\ mgmt[d].status = "provision_failed" => \E a \in Born : FailedBy(d, a)

(***************************************************************************)
(* The sweep never deletes an adapter row that a management row of the     *)
(* same NetBox device may be about to link, nor one that an attempt still  *)
(* being made has built: Quick Manage and a re-onboard are kept out by the *)
(* two locks, at every step between the check and the delete.              *)
(***************************************************************************)
SweepSparesTheOwner ==
    [][\A s \in Sweepers, n \in Names :
          sw[s].run.pc = "deleting" /\ sw'[s].run.pc # "deleting" /\ node[n] # node'[n] =>
              /\ ~\E d \in Devices : Row(d) /\ mgmt[d].name = n /\ d = tomb[sw[s].run.att].device
              /\ ~\E x \in Open : NameOf(x) = n]_vars

(***************************************************************************)
(* What an attempt leaves at the adapter when it is offboarded on the      *)
(* adapter's own verdict (_recover_adapter_device_id, "no match means it   *)
(* is already absent").  No unowned row of its making stands, unless the   *)
(* evidence named no row and the fleet sweep looked into an inventory that *)
(* it had read for an earlier attempt, before this row was built: that row *)
(* is taken for absent and stays.                                          *)
(***************************************************************************)
Leftover(a, n) == node[n] # NoRow /\ node[n].by = a /\ node[n].owner \in {NoRow, tomb[a].device}
Unseen(s, n) == sw[s].inv.read /\ (sw[s].inv.nodes[n] = NoRow \/ sw[s].inv.nodes[n].id # node[n].id)
OffboardLeavesNothing ==
    [][\A a \in Attempts :
          tomb[a].state = "terminal" /\ tomb'[a].state = "offboarded" /\ ~tomb[a].aged =>
              \A n \in Names : Leftover(a, n)' =>
                  /\ tomb[a].node = 0
                  /\ \E s \in Sweepers : sw[s].run.att = a /\ sw[s].run.pc = "deleting" /\ Unseen(s, n)]_vars

(***************************************************************************)
(* Once operators stop asking, every attempt is retired, or a management   *)
(* row of another identity stands in its way for the operator to resolve.  *)
(***************************************************************************)
Blocked(a) == a \in Born /\ PartialMatch(a) /\ ~SameNode(a)
Quiet == \A o \in Operators : ob[o].pc = "idle"
EveryAttemptCloses ==
    <>[]Quiet => \A a \in Attempts : []<>(tomb[a].state \in {"unborn", "closed"} \/ Blocked(a))
=============================================================================
