-------------------------- MODULE ProvisioningProofs --------------------------
(***************************************************************************)
(* Proofs about Provisioning, for any number of devices, operators,        *)
(* sweepers and attempts: types, the two locks, what a management row may  *)
(* be told by an attempt, what a sweep may delete and what it leaves.      *)
(***************************************************************************)
EXTENDS Provisioning, FiniteSetTheorems, WellFoundedInduction, TLAPS

-----------------------------------------------------------------------------
(* The inductive invariant                                                 *)

\* whatever names an attempt names one that was claimed; they are claimed in order
BornInv ==
    /\ \A a \in Born : tomb[a].device \in Devices
    /\ \A a \in Attempts : job[a].st # "absent" => a \in Born
    /\ late \subseteq Born
    /\ \A o \in Operators : ob[o].pc # "idle" => ob[o].att \in Born
    /\ \A s \in Sweepers : sw[s].run.pc # "idle" => sw[s].run.att \in Born
    /\ \E k \in 0..MaxAttempts : Born = 1..k

\* who holds which row lock, and what stays true while he does
LockInv ==
    /\ \A o \in Posting : tomb[ob[o].att].state = "open"
    /\ \A o, p \in Posting : ob[o].att = ob[p].att => o = p
    /\ \A s, t \in Offboarding : sw[s].run.att = sw[t].run.att => s = t
    /\ \A s \in Offboarding :
          LET a == sw[s].run.att IN
          /\ tomb[a].state = "terminal"
          /\ ~Row(tomb[a].device)
          /\ \A x \in Open : NameOf(x) # NameOf(a)

\* a poll and a verdict say of the job what the adapter still says
EvidenceInv ==
    /\ \A s \in Sweepers :
          sw[s].run.pc = "polled" /\ sw[s].run.st = "ok" => job[sw[s].run.att].st = "ok"
    /\ \A a \in Born : tomb[a].verdict = "ok" => job[a].st = "ok"

\* an adapter device id is the id of one name's row, in every place that records it
IsOf(id, n) ==
    /\ id <= serial
    /\ \A m \in Names : node[m] # NoRow /\ node[m].id = id => m = n
NodeInv ==
    /\ \A n \in Names : node[n] # NoRow => node[n].id # 0 /\ IsOf(node[n].id, n)
    /\ \A a \in Born : tomb[a].node # 0 => IsOf(tomb[a].node, NameOf(a))
    /\ \A a \in Attempts : job[a].node # 0 => a \in Born /\ IsOf(job[a].node, NameOf(a))
    /\ \A s \in Sweepers :
          /\ sw[s].run.node # 0 => sw[s].run.att \in Born /\ IsOf(sw[s].run.node, NameOf(sw[s].run.att))
          /\ \A n \in Names : sw[s].inv.nodes[n] # NoRow => IsOf(sw[s].inv.nodes[n].id, n)

\* a management row that names an attempt is the row of that attempt's device
RowInv ==
    \A d \in Devices : Row(d) /\ mgmt[d].job # 0 =>
        mgmt[d].job \in Born /\ tomb[mgmt[d].job].device = d

\* the part of EvidenceFitsTheRow that no history of the verdicts is needed for
ReadyRowWasProvisioned ==
    \A d \in Devices : Row(d) /\ mgmt[d].job # 0 /\ mgmt[d].status = "" =>
        job[mgmt[d].job].st = "ok" /\ tomb[mgmt[d].job].state = "closed"

ProvisioningInv ==
    TypeOK /\ BornInv /\ LockInv /\ EvidenceInv /\ NodeInv /\ RowInv
    /\ ProvisioningRowIsTracked /\ ReadyRowWasProvisioned
-----------------------------------------------------------------------------
(* Helpers: attempts, tombstones, adapter rows                             *)

LEMMA Bounds == MaxAttempts \in Nat /\ MaxMoves \in Nat /\ MaxFaults \in Nat
BY BoundsAssumption

LEMMA FailsTyped ==
    ASSUME TypeOK, NEW event, Fails(event)
    PROVE  faults' \in 0..MaxFaults
BY Bounds DEF Fails, TypeOK

LEMMA BornTyped ==
    ASSUME TypeOK, BornInv, NEW a \in Born
    PROVE  a \in Attempts /\ tomb[a] \in Tombstones /\ tomb[a].device \in Devices /\ NameOf(a) \in Names
BY NodeNameAssumption DEF TypeOK, BornInv, Born, NameOf

\* The oldest of some attempts is one of them.
LEMMA OldestIsOne ==
    ASSUME NEW S \in SUBSET Attempts, S # {}
    PROVE  Oldest(S) \in S
<1>1. S \subseteq Nat
  BY BoundsAssumption DEF Attempts
<1>2. PICK x \in S : \A y \in S : ~(<<y, x>> \in OpToRel(<, Nat))
  BY <1>1, WFMin, NatLessThanWellFounded
<1>3. \A y \in S : ~(y < x)
  BY <1>1, <1>2 DEF OpToRel
<1>4. \A y \in S : x <= y
  BY <1>1, <1>3
<1>5. QED
  BY <1>4 DEF Oldest

\* The number of the next attempt is not taken, and follows the last one.
LEMMA NextNumber ==
    ASSUME BornInv
    PROVE  /\ Cardinality(Born) + 1 \notin Born
           /\ Born \union {Cardinality(Born) + 1} = 1..(Cardinality(Born) + 1)
           /\ Cardinality(Born) \in Nat
<1>1. PICK k \in 0..MaxAttempts : Born = 1..k
  BY DEF BornInv
<1>2. k \in Nat
  BY <1>1, BoundsAssumption
<1>3. Cardinality(Born) = k
  BY <1>1, <1>2, FS_Interval
<1>4. QED
  BY <1>1, <1>2, <1>3

\* a tombstone stays or moves on: its fence opens no door that was shut, and a verdict is
\* only written with the end of an open attempt
Goes(a) ==
    /\ tomb'[a].device = tomb[a].device
    /\ tomb[a].job => tomb'[a].job
    /\ \/ tomb'[a].state = tomb[a].state /\ tomb'[a].verdict = tomb[a].verdict
       \/ /\ tomb[a].state = "open" /\ ~tomb[a].job /\ tomb'[a].state = "closed"
          /\ tomb'[a].verdict = tomb[a].verdict
       \/ /\ tomb[a].state = "open" /\ tomb'[a].state = "terminal"
          /\ tomb'[a].verdict = "ok" => job[a].st = "ok"
       \/ /\ tomb[a].state = "terminal" /\ tomb'[a].state \in {"offboarded", "closed"}
          /\ tomb'[a].verdict = tomb[a].verdict
       \/ /\ tomb[a].state = "offboarded" /\ tomb'[a].state = "closed"
          /\ tomb'[a].verdict = tomb[a].verdict
    /\ tomb'[a].node # 0 => tomb'[a].node \in {tomb[a].node, job[a].node} \/ IsOf(tomb'[a].node, NameOf(a))
Moves(a) ==
    /\ tomb' = [tomb EXCEPT ![a] = tomb'[a]] /\ tomb'[a] \in Tombstones
    /\ Goes(a)

LEMMA MovesTyped ==
    ASSUME TypeOK, BornInv, NEW a \in Born, Moves(a)
    PROVE  /\ tomb' \in [Attempts -> Tombstones]
           /\ Born' = Born /\ Open' \subseteq Open
           /\ \A x \in Attempts : tomb'[x].device = tomb[x].device /\ NameOf(x)' = NameOf(x)
           /\ \A x \in Attempts \ {a} : tomb'[x] = tomb[x]
<1>1. a \in Attempts /\ tomb \in [Attempts -> Tombstones]
  BY BornTyped DEF TypeOK
<1>2. /\ tomb' \in [Attempts -> Tombstones]
      /\ \A x \in Attempts \ {a} : tomb'[x] = tomb[x]
      /\ \A x \in Attempts : tomb'[x].device = tomb[x].device
  BY <1>1 DEF Moves, Goes
<1>3. tomb'[a].state # "unborn" /\ (tomb'[a].state = "open" => tomb[a].state = "open")
  BY DEF Moves, Goes, Born
<1>4. QED
  BY <1>2, <1>3 DEF Born, Open, NameOf

LEMMA StillMoves ==
    ASSUME TypeOK, NEW a \in Attempts, UNCHANGED tomb
    PROVE  Moves(a)
BY DEF TypeOK, Moves, Goes

LEMMA RejectedMoves ==
    ASSUME TypeOK, NEW a \in Attempts, ReconcileRejected(a)
    PROVE  Moves(a)
<1>1. tomb \in [Attempts -> Tombstones] /\ tomb[a] \in Tombstones
  BY DEF TypeOK
<1>2. CASE UNCHANGED tomb
  BY <1>2, StillMoves
<1>3. CASE tomb' = [tomb EXCEPT ![a].state = "closed"] /\ tomb[a].state = "open" /\ ~tomb[a].job
  BY <1>1, <1>3 DEF Moves, Goes, Tombstones
<1>4. CASE tomb' = [tomb EXCEPT ![a].job = @ \/ tomb[a].state = "open"]
  BY <1>1, <1>4 DEF Moves, Goes, Tombstones
<1>5. QED
  BY <1>2, <1>3, <1>4 DEF ReconcileRejected, CloseRejected

LEMMA MarkedMoves ==
    ASSUME TypeOK, NEW a \in Attempts, NEW st \in {"ok", "bad"}, NEW id \in Ids, NEW known \in BOOLEAN,
           st = "ok" => job[a].st = "ok", id # 0 => id = job[a].node \/ IsOf(id, NameOf(a)),
           tomb' = MarkTerminal(a, st, id, known)
    PROVE  Moves(a) /\ (UNCHANGED tomb \/ tomb'[a].state = "terminal")
<1>1. tomb \in [Attempts -> Tombstones] /\ tomb[a] \in Tombstones
  BY DEF TypeOK
<1>2. CASE UNCHANGED tomb
  BY <1>2, StillMoves
<1>3. CASE tomb[a].state = "open"
  <2>. DEFINE r == [tomb[a] EXCEPT !.state = "terminal", !.verdict = st, !.node = id, !.job = @ \/ known]
  <2>1. tomb' = [tomb EXCEPT ![a] = r]
    BY <1>3 DEF MarkTerminal
  <2>2. /\ r \in Tombstones /\ r.device = tomb[a].device /\ (tomb[a].job => r.job)
        /\ r.state = "terminal" /\ r.verdict = st /\ r.node = id
    BY <1>1 DEF Tombstones
  <2>. HIDE DEF r
  <2>3. tomb'[a] = r
    BY <1>1, <2>1
  <2>4. QED
    BY <1>3, <2>1, <2>2, <2>3 DEF Moves, Goes
<1>4. QED
  BY <1>2, <1>3 DEF MarkTerminal

\* the adapter's rows keep their ids, or one of them gets a fresh one
NodesMove ==
    /\ serial' \in Nat /\ serial' >= serial
    /\ \A n \in Names : node'[n] # NoRow =>
          \/ node[n] # NoRow /\ node'[n].id = node[n].id
          \/ /\ node'[n].id = serial + 1 /\ serial' = serial + 1
             /\ \A m \in Names \ {n} : node'[m] = node[m]

\* what IsOf says after the step
WillBeOf(id, n) ==
    /\ id <= serial'
    /\ \A m \in Names : node'[m] # NoRow /\ node'[m].id = id => m = n

LEMMA IsOfStays ==
    ASSUME TypeOK, NodesMove, NEW id \in Nat, NEW n, IsOf(id, n)
    PROVE  WillBeOf(id, n)
<1>1. serial \in Nat
  BY DEF TypeOK, Ids
<1>2. QED
  BY <1>1 DEF IsOf, WillBeOf, NodesMove

LEMMA NodesStay ==
    ASSUME TypeOK, UNCHANGED <<node, serial>>
    PROVE  NodesMove
BY DEF TypeOK, NodesMove, Ids

LEMMA WithoutMoves ==
    ASSUME TypeOK, NEW id, node' = Without(id), UNCHANGED serial
    PROVE  NodesMove /\ node' \in [Names -> Nodes \union {NoRow}]
BY DEF TypeOK, Without, NodesMove, Ids

-----------------------------------------------------------------------------
(* Types                                                                   *)

LEMMA BornStays ==
    ASSUME TypeOK, BornInv, NEW a \in Born, Moves(a),
           \A x \in Attempts : job'[x].st # "absent" => job[x].st # "absent" \/ x \in Born,
           late' \subseteq Born,
           \A o \in Operators : ob'[o].pc # "idle" => ob'[o].att \in Born,
           \A s \in Sweepers : sw'[s].run.pc # "idle" => sw'[s].run.att \in Born
    PROVE  BornInv'
BY MovesTyped DEF BornInv, Born

LEMMA ClaimTyped ==
    ASSUME TypeOK, BornInv, NEW o \in Operators, NEW d \in Devices, NEW b \in Bodies, ClaimAttempt(o, d, b)
    PROVE  TypeOK' /\ BornInv'
<1>. DEFINE active == SameIdentity(d, NodeName[d]) \intersect Open
            new == Cardinality(Born) + 1
            fresh == [Unborn EXCEPT !.device = d, !.body = b, !.state = "open"]
<1>1. UNCHANGED <<mgmt, adapter, sw, counts>>
  BY DEF ClaimAttempt
<1>2. \/ /\ active # {}
         /\ ob' = [ob EXCEPT ![o] = [pc |-> "claimed", att |-> Oldest(active), new |-> FALSE]]
         /\ UNCHANGED tomb
      \/ /\ new \in Attempts
         /\ tomb' = [tomb EXCEPT ![new] = fresh]
         /\ ob' = [ob EXCEPT ![o] = [pc |-> "claimed", att |-> new, new |-> TRUE]]
  BY DEF ClaimAttempt
<1>3. CASE /\ active # {}
           /\ ob' = [ob EXCEPT ![o] = [pc |-> "claimed", att |-> Oldest(active), new |-> FALSE]]
           /\ UNCHANGED tomb
  <2>1. active \subseteq Born /\ Born \subseteq Attempts
    BY DEF Open, Born
  <2>. HIDE DEF active
  <2>2. Oldest(active) \in Born /\ Oldest(active) \in Attempts
    BY <1>3, <2>1, OldestIsOne
  <2>3. Oldest(active) \in 0..MaxAttempts
    BY <2>2, Bounds DEF Attempts
  <2>4. QED
    BY <1>1, <1>3, <2>2, <2>3 DEF adapter, counts, TypeOK, BornInv, Born, Requests
<1>4. CASE /\ new \in Attempts
           /\ tomb' = [tomb EXCEPT ![new] = fresh]
           /\ ob' = [ob EXCEPT ![o] = [pc |-> "claimed", att |-> new, new |-> TRUE]]
  <2>1. fresh \in Tombstones /\ fresh.device = d /\ fresh.state = "open"
    BY DEF Unborn, Tombstones, Ids
  <2>2. new \notin Born /\ Born \union {new} = 1..new /\ new \in 0..MaxAttempts
    BY <1>4, NextNumber, BoundsAssumption DEF Attempts
  <2>. HIDE DEF new, fresh
  <2>3. Born' = Born \union {new} /\ \A x \in Attempts \ {new} : tomb'[x] = tomb[x]
    BY <1>4, <2>1 DEF TypeOK, Born
  <2>4. TypeOK'
    BY <1>1, <1>4, <2>1, <2>2 DEF adapter, counts, TypeOK, Requests
  <2>5. BornInv'
    <3>1. \A x \in Born' : tomb'[x].device \in Devices
      BY <1>4, <2>1, <2>3 DEF TypeOK, BornInv, Born
    <3>2. \A p \in Operators : ob'[p].pc # "idle" => ob'[p].att \in Born'
      BY <1>4, <2>3 DEF TypeOK, BornInv, Requests
    <3>3. QED
      BY <1>1, <2>2, <2>3, <3>1, <3>2 DEF adapter, BornInv
  <2>6. QED
    BY <2>4, <2>5
<1>5. QED
  BY <1>2, <1>3, <1>4

LEMMA StepTyped ==
    ASSUME TypeOK, NEW o \in Operators, NEW pc \in {"posting", "answered"}, Step(o, pc)
    PROVE  /\ ob' \in [Operators -> Requests]
           /\ \A p \in Operators : ob'[p].att = ob[p].att /\ (p # o => ob'[p] = ob[p])
<1>1. ob \in [Operators -> Requests]
  BY DEF TypeOK
<1>. DEFINE r == [ob[o] EXCEPT !.pc = pc]
<1>2. r \in Requests
      /\ r.att = ob[o].att
  BY <1>1 DEF Requests
<1>3. ob' = [ob EXCEPT ![o] = r]
  BY DEF Step
<1>. HIDE DEF r
<1>4. QED
  BY <1>1, <1>2, <1>3

LEMMA AdmittedTyped ==
    ASSUME TypeOK, NEW a \in Attempts, job' = Admitted(a)
    PROVE  /\ job' \in [Attempts -> Receipts]
           /\ \A x \in Attempts : job'[x].node = job[x].node
           /\ \A x \in Attempts : job'[x].st # "absent" => job[x].st # "absent" \/ x = a
           /\ \A x \in Attempts : job[x].st # "absent" => job'[x] = job[x]
<1>1. job \in [Attempts -> Receipts]
  BY DEF TypeOK
<1>. DEFINE r == [job[a] EXCEPT !.st = IF job[a].st = "absent" THEN "running" ELSE job[a].st]
<1>2. r \in Receipts /\ r.node = job[a].node /\ (job[a].st # "absent" => r = job[a])
  BY <1>1 DEF Receipts
<1>3. job' = [job EXCEPT ![a] = r]
  BY DEF Admitted
<1>. HIDE DEF r
<1>4. QED
  BY <1>1, <1>2, <1>3

LEMMA OnboardTyped ==
    ASSUME TypeOK, BornInv, NEW o \in Operators,
           SubmitClaim(o) \/ Post(o) \/ AdmitAttempt(o) \/ OperatorDies(o)
    PROVE  TypeOK' /\ BornInv' /\ ob[o].att \in Born /\ Moves(ob[o].att)
<1>. DEFINE a == ob[o].att
<1>1. ob[o].pc # "idle" /\ a \in Born /\ a \in Attempts
  BY BornTyped DEF SubmitClaim, Post, AdmitAttempt, OperatorDies, BornInv
<1>2. tomb[a] \in Tombstones /\ tomb[a].device \in Devices /\ NameOf(a) \in Names /\ a \in 0..MaxAttempts
  BY <1>1, BornTyped, BoundsAssumption DEF Attempts
<1>3. ob' \in [Operators -> Requests]
      /\ \A p \in Operators : ob'[p].pc # "idle" => ob[p].pc # "idle" /\ ob'[p].att = ob[p].att
  <2>1. Step(o, "posting") \/ Step(o, "answered") \/ Return(o)
    BY DEF SubmitClaim, Post, AdmitAttempt, OperatorDies
  <2>2. NobodyPosts \in Requests
    BY Bounds DEF NobodyPosts, Requests
  <2>3. NobodyPosts.pc = "idle"
    BY DEF NobodyPosts
  <2>4. CASE Return(o)
    BY <2>2, <2>3, <2>4 DEF TypeOK, Return
  <2>5. CASE Step(o, "posting") \/ Step(o, "answered")
    BY <1>1, <2>5, StepTyped
  <2>6. QED
    BY <2>1, <2>4, <2>5
<1>4. CASE SubmitClaim(o)
  <2>1. Moves(a)
    BY <1>1, <1>4, StillMoves, RejectedMoves DEF SubmitClaim
  <2>2. UNCHANGED <<mgmt, adapter, sw, counts>>
    BY <1>4 DEF SubmitClaim
  <2>3. QED
    BY <1>1, <1>3, <2>1, <2>2, MovesTyped, BornStays DEF adapter, counts, TypeOK, BornInv
<1>5. CASE Post(o)
  <2>1. Moves(a)
    BY <1>1, <1>5, StillMoves, RejectedMoves DEF Post
  <2>2. UNCHANGED <<mgmt, node, serial, sw, moves>>
    BY <1>5 DEF Post
  <2>3. job' \in [Attempts -> Receipts] /\ \A x \in Attempts : job'[x].st # "absent" => job[x].st # "absent" \/ x = a
    BY <1>1, <1>5, AdmittedTyped DEF Post, TypeOK
  <2>4. late' \subseteq late \union {a} /\ faults' \in 0..MaxFaults
    BY <1>5, FailsTyped DEF Post, TypeOK
  <2>5. BornInv'
    BY <1>1, <1>3, <2>1, <2>2, <2>3, <2>4, BornStays DEF BornInv
  <2>6. late' \subseteq Attempts
    BY <1>1, <2>4 DEF TypeOK
  <2>7. TypeOK'
    BY <1>1, <1>3, <2>1, <2>2, <2>3, <2>4, <2>6, MovesTyped DEF TypeOK
  <2>8. QED
    BY <1>1, <2>1, <2>5, <2>7
<1>6. CASE AdmitAttempt(o)
  <2>1. tomb' = [tomb EXCEPT ![a].job = @ \/ tomb[a].state = "open"] \/ UNCHANGED tomb
    BY <1>6 DEF AdmitAttempt
  <2>2. Moves(a)
    <3>1. CASE UNCHANGED tomb
      BY <1>1, <3>1, StillMoves
    <3>2. CASE tomb' = [tomb EXCEPT ![a].job = @ \/ tomb[a].state = "open"]
      BY <1>1, <1>2, <3>2 DEF Moves, Goes, Tombstones, TypeOK
    <3>3. QED
      BY <2>1, <3>1, <3>2
  <2>3. UNCHANGED <<adapter, sw, moves>>
    BY <1>6 DEF AdmitAttempt
  <2>4. mgmt' \in [Devices -> ManagementRows \union {NoRow}] /\ faults' \in 0..MaxFaults
    <3>1. [name |-> NameOf(a), job |-> a, status |-> "provisioning", node |-> 0] \in ManagementRows
      BY <1>2 DEF ManagementRows, Ids
    <3>2. QED
      BY <1>2, <1>6, <3>1, FailsTyped DEF AdmitAttempt, TypeOK
  <2>5. QED
    BY <1>1, <1>3, <2>2, <2>3, <2>4, MovesTyped, BornStays DEF adapter, TypeOK, BornInv
<1>7. CASE OperatorDies(o)
  <2>1. Moves(a) /\ UNCHANGED <<mgmt, adapter, sw, counts>>
    BY <1>1, <1>7, StillMoves DEF OperatorDies
  <2>2. QED
    BY <1>1, <1>3, <2>1, MovesTyped, BornStays DEF adapter, counts, TypeOK, BornInv
<1>8. QED
  BY <1>4, <1>5, <1>6, <1>7

\* The adapter builds the row of a name, or takes over the one it finds.
LEMMA JobBuildsMoves ==
    ASSUME TypeOK, BornInv, NEW a \in Attempts, JobBuilds(a)
    PROVE  /\ NodesMove /\ node' \in [Names -> Nodes \union {NoRow}]
           /\ a \in Born /\ NameOf(a) \in Names
           /\ node'[NameOf(a)] # NoRow /\ job'[a].node = node'[NameOf(a)].id /\ job'[a].node \in Nat
           /\ job' = [job EXCEPT ![a].node = job'[a].node]
           /\ node[NameOf(a)] # NoRow => job'[a].node = node[NameOf(a)].id
           /\ node[NameOf(a)] = NoRow => job'[a].node = serial'
<1>. DEFINE n == NameOf(a)
<1>1. a \in Born /\ n \in Names
  BY BornTyped DEF JobBuilds, BornInv
<1>2. /\ node \in [Names -> Nodes \union {NoRow}] /\ serial \in Nat /\ job \in [Attempts -> Receipts]
      /\ a \in 0..MaxAttempts
  BY Bounds DEF TypeOK, Ids, Attempts
<1>3. /\ \/ /\ node[n] = NoRow /\ serial' = serial + 1
            /\ node' = [node EXCEPT ![n] = [id |-> serial + 1, owner |-> NoRow, by |-> a]]
         \/ /\ node[n] # NoRow /\ serial' = serial /\ node' = [node EXCEPT ![n].by = a]
      /\ job' = [job EXCEPT ![a].node = node'[n].id]
  BY DEF JobBuilds
<1>4. CASE /\ node[n] = NoRow /\ serial' = serial + 1
           /\ node' = [node EXCEPT ![n] = [id |-> serial + 1, owner |-> NoRow, by |-> a]]
  <2>. DEFINE r == [id |-> serial + 1, owner |-> NoRow, by |-> a]
  <2>1. r \in Nodes /\ r # NoRow /\ r.id = serial + 1
    BY <1>2, NoRowAssumption DEF Nodes, Ids
  <2>2. node' = [node EXCEPT ![n] = r]
    BY <1>4
  <2>. HIDE DEF r
  <2>3. /\ node' \in [Names -> Nodes \union {NoRow}] /\ node'[n] = r
        /\ \A m \in Names \ {n} : node'[m] = node[m]
    BY <1>1, <1>2, <2>1, <2>2
  <2>4. NodesMove
    BY <1>2, <1>4, <2>1, <2>3 DEF NodesMove
  <2>5. job'[a].node = node'[n].id /\ job' = [job EXCEPT ![a].node = job'[a].node]
    BY <1>2, <1>3
  <2>. HIDE DEF n
  <2>6. QED
    BY <1>1, <1>2, <1>4, <2>1, <2>3, <2>4, <2>5 DEF n
<1>5. CASE node[n] # NoRow /\ serial' = serial /\ node' = [node EXCEPT ![n].by = a]
  <2>. DEFINE r == [node[n] EXCEPT !.by = a]
  <2>1. r \in Nodes /\ r # NoRow /\ r.id = node[n].id /\ r.id \in Nat
    BY <1>1, <1>2, <1>5, NoRowAssumption DEF Nodes, Ids
  <2>2. node' = [node EXCEPT ![n] = r]
    BY <1>5
  <2>. HIDE DEF r
  <2>3. /\ node' \in [Names -> Nodes \union {NoRow}] /\ node'[n] = r
        /\ \A m \in Names \ {n} : node'[m] = node[m]
    BY <1>1, <1>2, <2>1, <2>2
  <2>4. NodesMove
    BY <1>2, <1>5, <2>1, <2>3 DEF NodesMove
  <2>5. job'[a].node = node'[n].id /\ job' = [job EXCEPT ![a].node = job'[a].node]
    BY <1>2, <1>3
  <2>. HIDE DEF n
  <2>6. QED
    BY <1>1, <1>2, <1>5, <2>1, <2>3, <2>4, <2>5 DEF n
<1>6. QED
  BY <1>3, <1>4, <1>5

LEMMA JobEndsTyped ==
    ASSUME TypeOK, NEW a \in Attempts, JobEnds(a)
    PROVE  /\ job' \in [Attempts -> Receipts] /\ job[a].st = "running"
           /\ \A x \in Attempts \ {a} : job'[x] = job[x]
           /\ job'[a].node \in {0, job[a].node}
<1>1. job \in [Attempts -> Receipts] /\ 0 \in Ids
  BY DEF TypeOK, Ids
<1>. DEFINE r == job'[a]
<1>2. job' = [job EXCEPT ![a] = r] /\ r \in Receipts /\ r.node \in {0, job[a].node}
  <2>1. CASE job' = [job EXCEPT ![a].st = "ok"] \/ job' = [job EXCEPT ![a].st = "bad"]
    BY <1>1, <2>1 DEF Receipts
  <2>2. CASE job' = [job EXCEPT ![a] = [st |-> "bad", node |-> 0]]
    BY <1>1, <2>2 DEF Receipts
  <2>3. QED
    BY <2>1, <2>2 DEF JobEnds
<1>. HIDE DEF r
<1>3. QED
  BY <1>1, <1>2 DEF r, JobEnds

LEMMA ServedTyped ==
    ASSUME ProvisioningInv, NEW a \in Attempts,
           LateRequestLands(a) \/ JobBuilds(a) \/ JobEnds(a) \/ Callback(a)
    PROVE  TypeOK' /\ BornInv' /\ a \in Born /\ Moves(a) /\ NodesMove
<1>0. TypeOK /\ BornInv /\ NodeInv
  BY DEF ProvisioningInv
<1>1. CASE LateRequestLands(a)
  <2>1. a \in Born /\ Moves(a) /\ UNCHANGED <<tomb, mgmt, node, serial, ob, sw, counts>>
    BY <1>0, <1>1, StillMoves DEF LateRequestLands, BornInv
  <2>2. /\ job' \in [Attempts -> Receipts] /\ late' \subseteq late
        /\ \A x \in Attempts : job'[x].st # "absent" => job[x].st # "absent" \/ x = a
    BY <1>0, <1>1, AdmittedTyped DEF LateRequestLands
  <2>3. TypeOK'
    BY <1>0, <2>1, <2>2 DEF TypeOK, counts
  <2>4. QED
    BY <1>0, <2>1, <2>2, <2>3, BornStays, NodesStay DEF BornInv
<1>2. CASE JobBuilds(a)
  <2>1. Moves(a) /\ UNCHANGED <<tomb, mgmt, late, ob, sw, counts>>
    BY <1>0, <1>2, StillMoves DEF JobBuilds
  <2>2. /\ NodesMove /\ node' \in [Names -> Nodes \union {NoRow}] /\ a \in Born
        /\ job' = [job EXCEPT ![a].node = job'[a].node] /\ job'[a].node \in Nat
    BY <1>0, <1>2, JobBuildsMoves
  <2>3. /\ job' \in [Attempts -> Receipts]
        /\ \A x \in Attempts : job'[x].st = job[x].st
    <3>1. PICK id \in Nat : job' = [job EXCEPT ![a].node = id]
      BY <2>2
    <3>2. job \in [Attempts -> Receipts]
      BY <1>0 DEF TypeOK
    <3>3. QED
      BY <3>1, <3>2 DEF Receipts, Ids
  <2>4. TypeOK'
    BY <1>0, <2>1, <2>2, <2>3 DEF TypeOK, counts, NodesMove, Ids
  <2>5. QED
    BY <1>0, <2>1, <2>2, <2>3, <2>4, BornStays DEF BornInv
<1>3. CASE JobEnds(a)
  <2>1. Moves(a) /\ UNCHANGED <<tomb, mgmt, node, late, serial, ob, sw, counts>>
    BY <1>0, <1>3, StillMoves DEF JobEnds
  <2>2. /\ job' \in [Attempts -> Receipts] /\ job[a].st = "running"
        /\ \A x \in Attempts \ {a} : job'[x] = job[x]
    BY <1>0, <1>3, JobEndsTyped
  <2>3. TypeOK' /\ a \in Born
    BY <1>0, <2>1, <2>2 DEF TypeOK, counts, BornInv
  <2>4. QED
    BY <1>0, <2>1, <2>2, <2>3, BornStays, NodesStay DEF BornInv
<1>4. CASE Callback(a)
  <2>1. a \in Born /\ UNCHANGED <<mgmt, adapter, ob, sw, counts>>
    BY <1>4 DEF Callback, Open
  <2>2. job[a].st \in {"ok", "bad"} /\ job[a].node \in Ids
    BY <1>0, <1>4 DEF Callback, TypeOK, Receipts
  <2>3. Moves(a)
    BY <1>0, <1>4, <2>2, MarkedMoves DEF Callback
  <2>4. TypeOK'
    BY <1>0, <2>1, <2>3, MovesTyped DEF TypeOK, counts, adapter
  <2>5. QED
    BY <1>0, <2>1, <2>3, <2>4, BornStays, NodesStay DEF BornInv, adapter
<1>5. QED
  BY <1>1, <1>2, <1>3, <1>4

LEMMA SweepTyped ==
    ASSUME TypeOK, NEW s \in Sweepers, NEW r \in Runs, NEW i \in Inventories,
           sw' = [sw EXCEPT ![s] = [run |-> r, inv |-> i]]
    PROVE  /\ sw' \in [Sweepers -> [run : Runs, inv : Inventories]]
           /\ sw'[s].run = r /\ sw'[s].inv = i
           /\ \A t \in Sweepers \ {s} : sw'[t] = sw[t]
BY DEF TypeOK

LEMMA RunsTyped ==
    ASSUME TypeOK, NEW s \in Sweepers
    PROVE  /\ sw[s].run \in Runs /\ sw[s].inv \in Inventories /\ Kept(s) \in Inventories
           /\ NothingSwept \in Runs /\ NoInventory \in Inventories
           /\ NothingSwept.pc = "idle" /\ NothingSwept.node = 0
           /\ \A n \in Names : NoInventory.nodes[n] = NoRow
<1>1. sw[s].run \in Runs /\ sw[s].inv \in Inventories
  BY DEF TypeOK
<1>2. NothingSwept \in Runs /\ NothingSwept.pc = "idle" /\ NothingSwept.node = 0
  BY Bounds DEF NothingSwept, Runs, Ids
<1>3. NoInventory \in Inventories /\ \A n \in Names : NoInventory.nodes[n] = NoRow
  BY DEF NoInventory, Inventories
<1>4. QED
  BY <1>1, <1>2, <1>3 DEF Kept

\* A sweep ends, or goes on to its next step with nothing but its attempt.
LEMMA SweepGoesOn ==
    ASSUME TypeOK, NEW s \in Sweepers, EndSweep(s) \/ \E pc \in {"marked", "closing"} : Sweeping(s, pc)
    PROVE  /\ sw' \in [Sweepers -> [run : Runs, inv : Inventories]]
           /\ \A t \in Sweepers \ {s} : sw'[t] = sw[t]
           /\ sw'[s].run.node = 0
           /\ \/ sw'[s].run.pc = "idle" /\ sw'[s].inv \in {sw[s].inv, NoInventory}
              \/ /\ sw'[s].run.pc \in {"marked", "closing"} /\ sw'[s].run.att = sw[s].run.att
                 /\ sw'[s].inv = sw[s].inv
<1>1. CASE EndSweep(s)
  <2>1. Kept(s) \in {sw[s].inv, NoInventory}
    BY DEF Kept
  <2>2. QED
    BY <1>1, <2>1, SweepTyped, RunsTyped DEF EndSweep
<1>2. ASSUME NEW pc \in {"marked", "closing"}, Sweeping(s, pc)
      PROVE  /\ sw' \in [Sweepers -> [run : Runs, inv : Inventories]]
             /\ \A t \in Sweepers \ {s} : sw'[t] = sw[t]
             /\ sw'[s].run.node = 0
             /\ sw'[s].run.pc = pc /\ sw'[s].run.att = sw[s].run.att
             /\ sw'[s].inv = sw[s].inv
  <2>. DEFINE r == [NothingSwept EXCEPT !.pc = pc, !.att = sw[s].run.att]
  <2>1. r \in Runs /\ r.pc = pc /\ r.att = sw[s].run.att /\ r.node = 0
    BY RunsTyped DEF Runs, NothingSwept
  <2>2. sw' = [sw EXCEPT ![s].run = r]
    BY <1>2 DEF Sweeping
  <2>. HIDE DEF r
  <2>3. QED
    BY <2>1, <2>2 DEF TypeOK
<1>3. QED
  BY <1>1, <1>2

\* A sweep that touches one tombstone, with no lock kept when it is done.
Records(s, a) ==
    \/ a = sw[s].run.att /\ (RecordPoll(s) \/ AgeOut(s) \/ FindClosed(s))
    \/ CloseOffboarded(s, a)
    \/ Complete(s, a) /\ sw'[s].run.pc # "looking"

LEMMA StartsTyped ==
    ASSUME TypeOK, NEW s, Starts(s)
    PROVE  faults' \in 0..MaxFaults
BY Bounds DEF Starts, TypeOK

LEMMA CompleteMoves ==
    ASSUME ProvisioningInv, NEW s \in Sweepers, NEW a \in Attempts, Complete(s, a)
    PROVE  /\ a \in Born /\ a \notin Held /\ Moves(a) /\ tomb[a].state = "terminal" /\ ~IntentHeld(tomb[a].device)
           /\ UNCHANGED <<adapter, ob, moves>> /\ faults' \in 0..MaxFaults
           /\ \/ /\ EndSweep(s)
                 /\ UNCHANGED mgmt \/ (Applies(a) /\ mgmt' = Evidenced(a) /\ tomb'[a].state = "closed")
                 /\ Applies(a) => mgmt' = Evidenced(a) /\ tomb'[a].state = "closed"
              \/ /\ UNCHANGED <<tomb, mgmt>> /\ ~PartialMatch(a) /\ ~AnotherOwns(a)
                 /\ sw' = [sw EXCEPT ![s] =
                          [run |-> [pc |-> "looking", att |-> a, st |-> "absent",
                                   node |-> tomb[a].node, old |-> FALSE],
                           inv |-> Kept(s)]]
<1>0. TypeOK
  BY DEF ProvisioningInv
<1>1. /\ a \in Born /\ a \notin Held /\ tomb[a].state = "terminal" /\ ~IntentHeld(tomb[a].device)
      /\ UNCHANGED <<adapter, ob, moves>> /\ Starts(s)
  BY DEF Complete
<1>2. faults' \in 0..MaxFaults
  BY <1>0, <1>1, StartsTyped
<1>3. ASSUME tomb' = [tomb EXCEPT ![a].state = "closed"]
      PROVE  Moves(a) /\ tomb'[a].state = "closed"
  BY SMTT(20), <1>0, <1>1, <1>3 DEF TypeOK, Moves, Goes, Tombstones
<1>4. CASE Applies(a) /\ mgmt' = Evidenced(a) /\ tomb' = [tomb EXCEPT ![a].state = "closed"] /\ EndSweep(s)
  BY <1>1, <1>2, <1>3, <1>4
<1>5. CASE ~Applies(a) /\ tomb' = [tomb EXCEPT ![a].state = "closed"] /\ EndSweep(s) /\ UNCHANGED mgmt
  BY <1>1, <1>2, <1>3, <1>5
<1>6. CASE ~SameNode(a) /\ EndSweep(s) /\ UNCHANGED <<tomb, mgmt>>
  BY <1>0, <1>1, <1>2, <1>6, StillMoves DEF SameNode, Applies
<1>7. CASE ~PartialMatch(a) /\ EndSweep(s) /\ UNCHANGED <<tomb, mgmt>>
  <2>1. ~Applies(a)
    BY <1>0, <1>1, <1>7, BornTyped DEF PartialMatch, Applies, Tracks, ProvisioningInv
  <2>2. QED
    BY <1>0, <1>1, <1>2, <1>7, <2>1, StillMoves
<1>8. CASE /\ ~PartialMatch(a) /\ ~AnotherOwns(a)
           /\ sw' = [sw EXCEPT ![s] =
                          [run |-> [pc |-> "looking", att |-> a, st |-> "absent",
                                   node |-> tomb[a].node, old |-> FALSE],
                           inv |-> Kept(s)]]
           /\ UNCHANGED <<tomb, mgmt>>
  BY <1>0, <1>1, <1>2, <1>8, StillMoves
<1>9. QED
  BY <1>4, <1>5, <1>6, <1>7, <1>8 DEF Complete

LEMMA EvidencedTyped ==
    ASSUME TypeOK, BornInv, NEW a \in Born, Applies(a), mgmt' = Evidenced(a)
    PROVE  /\ mgmt' \in [Devices -> ManagementRows \union {NoRow}]
           /\ \A d \in Devices \ {tomb[a].device} : mgmt'[d] = mgmt[d]
           /\ LET d == tomb[a].device IN
              /\ d \in Devices /\ mgmt[d].job = JobOf(a)
              /\ mgmt'[d].name = mgmt[d].name /\ mgmt'[d].job = mgmt[d].job
              /\ mgmt'[d].status = (IF tomb[a].verdict = "ok" THEN "" ELSE "provision_failed")
<1>. DEFINE d == tomb[a].device
            st == IF tomb[a].verdict = "ok" THEN "" ELSE "provision_failed"
<1>1. d \in Devices /\ mgmt[d] # NoRow /\ mgmt[d].job = JobOf(a) /\ mgmt \in [Devices -> ManagementRows \union {NoRow}]
  BY BornTyped DEF Applies, Tracks, Row, TypeOK
<1>2. mgmt' = [mgmt EXCEPT ![d].status = st] /\ st \in {"", "provision_failed"}
  BY DEF Evidenced
<1>. HIDE DEF st
<1>3. mgmt[d] \in ManagementRows
  BY <1>1
<1>4. [mgmt[d] EXCEPT !.status = st] \in ManagementRows
  BY <1>2, <1>3 DEF ManagementRows
<1>5. /\ mgmt' = [mgmt EXCEPT ![d] = [mgmt[d] EXCEPT !.status = st]]
  BY <1>2
<1>6. mgmt'[d].status = st /\ mgmt'[d].job = mgmt[d].job /\ mgmt'[d].name = mgmt[d].name
  BY <1>1, <1>3, <1>5 DEF ManagementRows
<1>7. QED
  BY <1>1, <1>4, <1>5, <1>6 DEF st

LEMMA RecordsMoves ==
    ASSUME ProvisioningInv, NEW s \in Sweepers, NEW a \in Attempts, Records(s, a)
    PROVE  /\ a \in Born /\ Moves(a) /\ UNCHANGED <<adapter, ob, moves>>
           /\ UNCHANGED tomb \/ a \notin Held
           /\ \/ EndSweep(s)
              \/ a = sw[s].run.att /\ \E pc \in {"marked", "closing"} : Sweeping(s, pc)
           /\ UNCHANGED mgmt \/ Complete(s, a)
           /\ sw[s].run.pc \notin {"looking", "deleting"}
           /\ faults' \in 0..MaxFaults
<1>0. TypeOK /\ BornInv /\ EvidenceInv /\ NodeInv
  BY DEF ProvisioningInv
<1>1. CASE a = sw[s].run.att /\ RecordPoll(s)
  <2>1. sw[s].run.pc = "polled" /\ a \in Born
    BY <1>0, <1>1 DEF RecordPoll, BornInv
  <2>2. /\ sw[s].run \in Runs /\ (sw[s].run.st = "ok" => job[a].st = "ok")
        /\ sw[s].run.node # 0 => IsOf(sw[s].run.node, NameOf(a))
    BY <1>0, <1>1, <2>1, RunsTyped DEF EvidenceInv, NodeInv
  <2>3. UNCHANGED <<mgmt, adapter, ob, counts>> /\ a \notin Held
    BY <1>1 DEF RecordPoll
  <2>4. \/ UNCHANGED tomb /\ Sweeping(s, "marked")
        \/ tomb' = [tomb EXCEPT ![a].job = TRUE] /\ EndSweep(s)
        \/ /\ tomb' = MarkTerminal(a, sw[s].run.st, sw[s].run.node, TRUE) /\ Sweeping(s, "marked")
           /\ sw[s].run.st \in {"ok", "bad"}
    BY <1>1, <2>2 DEF RecordPoll, Runs
  <2>5. Moves(a)
    <3>1. CASE UNCHANGED tomb
      BY <1>0, <3>1, StillMoves
    <3>2. CASE tomb' = [tomb EXCEPT ![a].job = TRUE]
      BY ZenonT(40), <1>0, <3>2 DEF Moves, Goes, TypeOK, Tombstones
    <3>3. CASE /\ tomb' = MarkTerminal(a, sw[s].run.st, sw[s].run.node, TRUE)
               /\ sw[s].run.st \in {"ok", "bad"}
      <4>1. sw[s].run.node \in Ids
        BY <2>2 DEF Runs
      <4>2. QED
        BY <1>0, <2>2, <3>3, <4>1, MarkedMoves
    <3>4. QED
      BY <2>4, <3>1, <3>2, <3>3
  <2>6. QED
    BY <1>0, <1>1, <2>1, <2>3, <2>4, <2>5 DEF counts, TypeOK
<1>2. CASE a = sw[s].run.att /\ AgeOut(s)
  <2>1. sw[s].run.pc = "polled" /\ a \in Born /\ UNCHANGED <<mgmt, adapter, ob, counts>>
    BY <1>0, <1>2 DEF AgeOut, BornInv
  <2>2. \/ EndSweep(s) /\ UNCHANGED tomb
        \/ /\ a \notin Held /\ Sweeping(s, "marked")
           /\ tomb' = [MarkTerminal(a, "bad", 0, FALSE) EXCEPT ![a].aged = @ \/ tomb[a].state = "open"]
    BY <1>2 DEF AgeOut
  <2>3. ASSUME tomb' = [MarkTerminal(a, "bad", 0, FALSE) EXCEPT ![a].aged = @ \/ tomb[a].state = "open"]
        PROVE  Moves(a)
    <3>. DEFINE r == IF tomb[a].state # "open" THEN tomb[a]
                     ELSE [tomb[a] EXCEPT !.state = "terminal", !.verdict = "bad", !.node = 0]
                q == [r EXCEPT !.aged = r.aged \/ tomb[a].state = "open"]
    <3>1. tomb \in [Attempts -> Tombstones] /\ tomb[a] \in Tombstones /\ 0 \in Ids
      BY <1>0 DEF TypeOK, Ids
    <3>2. tomb' = [tomb EXCEPT ![a] = q]
      <4>1. MarkTerminal(a, "bad", 0, FALSE) = [tomb EXCEPT ![a] = r]
        <5>1. CASE tomb[a].state # "open"
          BY <3>1, <5>1 DEF MarkTerminal
        <5>2. CASE tomb[a].state = "open"
          <6>1. (tomb[a].job \/ FALSE) = tomb[a].job
            BY <3>1 DEF Tombstones
          <6>2. [tomb[a] EXCEPT !.state = "terminal", !.verdict = "bad", !.node = 0, !.job = tomb[a].job] = r
            BY <3>1, <5>2 DEF Tombstones
          <6>3. QED
            BY <5>2, <6>1, <6>2 DEF MarkTerminal
        <5>3. QED
          BY <5>1, <5>2
      <4>. HIDE DEF r
      <4>2. QED
        BY <2>3, <3>1, <4>1
    <3>3. q \in Tombstones /\ q.device = tomb[a].device /\ q.job = tomb[a].job
          /\ \/ q.state = tomb[a].state /\ q.verdict = tomb[a].verdict /\ q.node = tomb[a].node
             \/ tomb[a].state = "open" /\ q.state = "terminal" /\ q.verdict = "bad" /\ q.node = 0
      BY <3>1 DEF Tombstones
    <3>. HIDE DEF q
    <3>4. tomb'[a] = q
      BY <3>1, <3>2
    <3>5. QED
      BY <3>2, <3>3, <3>4 DEF Moves, Goes
  <2>4. QED
    BY <1>0, <1>2, <2>1, <2>2, <2>3, StillMoves DEF counts, TypeOK
<1>3. CASE a = sw[s].run.att /\ FindClosed(s)
  <2>1. sw[s].run.pc \in {"marked", "closing"} /\ EndSweep(s) /\ UNCHANGED <<tomb, mgmt, adapter, ob, counts>>
    BY <1>3 DEF FindClosed
  <2>2. a \in Born
    BY <1>0, <1>3, <2>1 DEF BornInv
  <2>3. QED
    BY <1>0, <2>1, <2>2, StillMoves DEF counts, TypeOK
<1>4. CASE CloseOffboarded(s, a)
  <2>1. /\ a \in Born /\ a \notin Held /\ EndSweep(s) /\ UNCHANGED <<mgmt, adapter, ob, moves>>
        /\ faults' \in 0..MaxFaults /\ sw[s].run.pc \notin {"looking", "deleting"}
    BY <1>0, <1>4, StartsTyped DEF CloseOffboarded
  <2>2. Moves(a)
    <3>1. tomb[a].state = "offboarded" /\ tomb' = [tomb EXCEPT ![a].state = "closed"]
      BY <1>4 DEF CloseOffboarded
    <3>2. tomb \in [Attempts -> Tombstones]
      BY <1>0 DEF TypeOK
    <3>3. QED
      BY <3>1, <3>2 DEF Moves, Goes, Tombstones
  <2>3. QED
    BY <2>1, <2>2
<1>5. CASE Complete(s, a) /\ sw'[s].run.pc # "looking"
  <2>1. sw[s].run.pc \notin {"looking", "deleting"}
    BY <1>5 DEF Complete
  <2>2. EndSweep(s)
    <3>1. ASSUME sw' = [sw EXCEPT ![s] =
                          [run |-> [pc |-> "looking", att |-> a, st |-> "absent",
                                   node |-> tomb[a].node, old |-> FALSE],
                           inv |-> Kept(s)]]
          PROVE  FALSE
      BY <1>0, <1>5, <3>1 DEF TypeOK
    <3>2. QED
      BY <1>5, <3>1, CompleteMoves
  <2>3. QED
    BY <1>5, <2>1, <2>2, CompleteMoves
<1>6. QED
  BY <1>1, <1>2, <1>3, <1>4, <1>5 DEF Records

\* A poll, a lookup and the start of an offboard leave the tombstones alone.
LEMMA PollMoves ==
    ASSUME ProvisioningInv, NEW s \in Sweepers, NEW a \in Attempts, Poll(s, a)
    PROVE  /\ a \in Born /\ UNCHANGED <<tomb, mgmt, adapter, ob, moves>> /\ faults' \in 0..MaxFaults
           /\ sw' \in [Sweepers -> [run : Runs, inv : Inventories]]
           /\ \A t \in Sweepers \ {s} : sw'[t] = sw[t]
           /\ sw[s].run.pc = "idle" /\ sw'[s].run.pc = "polled" /\ sw'[s].run.att = a
           /\ sw'[s].run.st = job[a].st /\ sw'[s].run.node = Named(a)
           /\ sw'[s].inv \in {sw[s].inv, NoInventory}
<1>0. TypeOK
  BY DEF ProvisioningInv
<1>. DEFINE r == [pc |-> "polled", att |-> a, st |-> job[a].st, node |-> Named(a),
                  old |-> job[a].st = "absent" /\ OldEnough(a)]
<1>1. /\ a \in Born /\ UNCHANGED <<tomb, mgmt, adapter, ob, moves>> /\ sw[s].run.pc = "idle" /\ Starts(s)
      /\ sw' = [sw EXCEPT ![s] = [run |-> r, inv |-> Kept(s)]]
  BY DEF Poll, Open
<1>2. r \in Runs
  <2>1. Named(a) \in Ids /\ job[a].st \in {"absent", "running", "ok", "bad"}
    BY <1>0, Bounds DEF TypeOK, Receipts, Named, Ids
  <2>2. (job[a].st = "absent" /\ OldEnough(a)) \in BOOLEAN
    BY DEF OldEnough
  <2>3. QED
    BY <2>1, <2>2, Bounds DEF Runs, Attempts
<1>3. Kept(s) \in Inventories /\ Kept(s) \in {sw[s].inv, NoInventory}
  BY <1>0, RunsTyped DEF Kept
<1>4. r.pc = "polled" /\ r.att = a /\ r.st = job[a].st /\ r.node = Named(a)
  OBVIOUS
<1>. HIDE DEF r
<1>5. QED
  BY <1>0, <1>1, <1>2, <1>3, <1>4, SweepTyped, StartsTyped

LEMMA LooksMoves ==
    ASSUME ProvisioningInv, NEW s \in Sweepers, NEW a \in Attempts, Complete(s, a),
           sw'[s].run.pc = "looking"
    PROVE  /\ a \in Born /\ a \notin Held /\ tomb[a].state = "terminal"
           /\ ~PartialMatch(a) /\ ~AnotherOwns(a)
           /\ UNCHANGED <<tomb, mgmt, adapter, ob, moves>> /\ faults' \in 0..MaxFaults
           /\ sw' \in [Sweepers -> [run : Runs, inv : Inventories]]
           /\ \A t \in Sweepers \ {s} : sw'[t] = sw[t]
           /\ sw[s].run.pc \in {"idle", "marked"}
           /\ sw'[s].run.att = a /\ sw'[s].run.node = tomb[a].node
           /\ sw'[s].inv \in {sw[s].inv, NoInventory}
<1>0. TypeOK
  BY DEF ProvisioningInv
<1>. DEFINE r == [pc |-> "looking", att |-> a, st |-> "absent", node |-> tomb[a].node, old |-> FALSE]
<1>1. /\ a \in Born /\ a \notin Held /\ tomb[a].state = "terminal"
      /\ UNCHANGED <<adapter, ob, moves>> /\ faults' \in 0..MaxFaults
  BY CompleteMoves
<1>2. sw[s].run.pc \in {"idle", "marked"}
  BY DEF Complete
<1>3. ~EndSweep(s)
  BY <1>0, SweepGoesOn
<1>4. /\ UNCHANGED <<tomb, mgmt>> /\ ~PartialMatch(a) /\ ~AnotherOwns(a)
      /\ sw' = [sw EXCEPT ![s] = [run |-> r, inv |-> Kept(s)]]
  BY <1>3, CompleteMoves
<1>5. r \in Runs
  BY <1>0, Bounds DEF TypeOK, Tombstones, Runs, Attempts
<1>6. Kept(s) \in Inventories /\ Kept(s) \in {sw[s].inv, NoInventory}
  BY <1>0, RunsTyped DEF Kept
<1>7. r.att = a /\ r.node = tomb[a].node
  OBVIOUS
<1>. HIDE DEF r
<1>8. QED
  BY <1>0, <1>1, <1>2, <1>4, <1>5, <1>6, <1>7, SweepTyped

LEMMA LookupMoves ==
    ASSUME ProvisioningInv, NEW s \in Sweepers, Lookup(s)
    PROVE  /\ UNCHANGED <<tomb, mgmt, adapter, ob, counts>>
           /\ sw' \in [Sweepers -> [run : Runs, inv : Inventories]]
           /\ \A t \in Sweepers \ {s} : sw'[t] = sw[t]
           /\ sw[s].run.pc = "looking" /\ sw'[s].run.pc = "deleting"
           /\ sw'[s].run.att = sw[s].run.att
           /\ sw'[s].run.node # 0 => IsOf(sw'[s].run.node, NameOf(sw[s].run.att))
           /\ \A n \in Names : sw'[s].inv.nodes[n] # NoRow => IsOf(sw'[s].inv.nodes[n].id, n)
<1>0. TypeOK /\ BornInv /\ NodeInv
  BY DEF ProvisioningInv
<1>. DEFINE a == sw[s].run.att
            nodes == IF sw[s].inv.read THEN sw[s].inv.nodes ELSE node
            row == nodes[NameOf(a)]
            known == sw[s].run.node # 0
            id == IF known THEN sw[s].run.node ELSE IF Ours(row, a) THEN row.id ELSE 0
            r == [sw[s].run EXCEPT !.pc = "deleting", !.node = id]
            i == IF known \/ s \notin FleetSweepers THEN sw[s].inv ELSE [read |-> TRUE, nodes |-> nodes]
<1>1. /\ UNCHANGED <<tomb, mgmt, adapter, ob, counts>> /\ sw[s].run.pc = "looking"
      /\ sw' = [sw EXCEPT ![s] = [run |-> r, inv |-> i]]
  BY DEF Lookup
<1>2. a \in Born /\ NameOf(a) \in Names
  BY <1>0, <1>1, BornTyped DEF BornInv
<1>3. /\ sw[s].run \in Runs /\ sw[s].inv \in Inventories
      /\ node \in [Names -> Nodes \union {NoRow}]
  BY <1>0, RunsTyped DEF TypeOK
<1>4. /\ nodes \in [Names -> Nodes \union {NoRow}]
      /\ \A n \in Names : nodes[n] # NoRow => IsOf(nodes[n].id, n)
  BY <1>0, <1>3 DEF Inventories, NodeInv
<1>5. i \in Inventories /\ \A n \in Names : i.nodes[n] # NoRow => IsOf(i.nodes[n].id, n)
  <2>1. [read |-> TRUE, nodes |-> nodes] \in Inventories
    BY <1>4 DEF Inventories
  <2>. HIDE DEF nodes
  <2>2. QED
    BY <1>0, <1>3, <1>4, <2>1 DEF NodeInv
<1>. HIDE DEF nodes
<1>6. id \in Ids /\ (id # 0 => IsOf(id, NameOf(a)))
  <2>1. row # NoRow => row.id \in Ids /\ IsOf(row.id, NameOf(a))
    BY <1>2, <1>4 DEF Nodes
  <2>2. known => sw[s].run.node \in Ids /\ IsOf(sw[s].run.node, NameOf(a))
    BY <1>0, <1>3 DEF Runs, NodeInv
  <2>3. 0 \in Ids
    BY DEF Ids
  <2>. HIDE DEF row
  <2>4. QED
    BY <2>1, <2>2, <2>3 DEF Ours
<1>. HIDE DEF id, i
<1>7. r \in Runs /\ r.pc = "deleting" /\ r.att = a /\ r.node = id
  BY <1>3, <1>6 DEF Runs
<1>. HIDE DEF r
<1>8. QED
  BY <1>0, <1>1, <1>5, <1>6, <1>7, SweepTyped

-----------------------------------------------------------------------------
(* What one step leaves of the invariant                                   *)

\* the tombstones stay or move on, and none is born
TombstonesGo ==
    /\ tomb' \in [Attempts -> Tombstones]
    /\ Born' = Born /\ Open' \subseteq Open
    /\ \A x \in Attempts : Goes(x) /\ NameOf(x)' = NameOf(x)

LEMMA TombstonesMove ==
    ASSUME TypeOK, BornInv, UNCHANGED tomb \/ \E a \in Born : Moves(a)
    PROVE  TombstonesGo
<1>1. \A x \in Attempts : tomb'[x] = tomb[x] => Goes(x)
  BY DEF Goes
<1>2. CASE UNCHANGED tomb
  BY <1>1, <1>2 DEF TypeOK, TombstonesGo, Born, Open, NameOf
<1>3. ASSUME NEW a \in Born, Moves(a)
      PROVE  TombstonesGo
  <2>1. Goes(a)
    BY <1>3 DEF Moves
  <2>2. QED
    BY <1>1, <1>3, <2>1, MovesTyped DEF TombstonesGo
<1>4. QED
  BY <1>2, <1>3

\* no lock is taken, and what a lock guards is left to its holder
HoldersStay ==
    /\ Posting' \subseteq Posting /\ \A o \in Posting' : ob'[o].att = ob[o].att /\ tomb'[ob[o].att].state = "open"
    /\ Offboarding' \subseteq Offboarding
    /\ \A s \in Offboarding' : sw'[s].run.att = sw[s].run.att /\ tomb'[sw[s].run.att].state = "terminal"
    /\ \A d \in Devices : mgmt'[d] # NoRow => Row(d) \/ ~IntentHeld(d)

LEMMA LocksStay ==
    ASSUME ProvisioningInv, TombstonesGo, HoldersStay
    PROVE  LockInv'
<1>0. TypeOK /\ BornInv /\ LockInv
  BY DEF ProvisioningInv
<1>1. ASSUME NEW s \in Offboarding'
      PROVE  /\ tomb'[sw'[s].run.att].state = "terminal"
             /\ mgmt'[tomb'[sw'[s].run.att].device] = NoRow
             /\ \A x \in Open' : NodeName[tomb'[x].device] # NodeName[tomb'[sw'[s].run.att].device]
  <2>1. s \in Offboarding /\ sw'[s].run.att = sw[s].run.att /\ tomb'[sw[s].run.att].state = "terminal"
    BY <1>1 DEF HoldersStay
  <2>2. sw[s].run.att \in Born /\ sw[s].run.att \in Attempts /\ tomb[sw[s].run.att].device \in Devices
    BY <1>0, <2>1, BornTyped DEF BornInv, Offboarding
  <2>3. /\ ~Row(tomb[sw[s].run.att].device) /\ IntentHeld(tomb[sw[s].run.att].device)
        /\ \A x \in Open : NodeName[tomb[x].device] # NodeName[tomb[sw[s].run.att].device]
    BY <1>0, <2>1 DEF LockInv, IntentHeld, NameOf
  <2>4. /\ tomb'[sw[s].run.att].device = tomb[sw[s].run.att].device
        /\ Open' \subseteq Open /\ \A x \in Open : tomb'[x].device = tomb[x].device
    BY <2>2 DEF TombstonesGo, Goes, Open, Born
  <2>5. mgmt'[tomb[sw[s].run.att].device] = NoRow
    BY <2>2, <2>3 DEF HoldersStay
  <2>6. QED
    BY <2>1, <2>3, <2>4, <2>5
<1>2. \A s, t \in Offboarding' : sw'[s].run.att = sw'[t].run.att => s = t
  BY <1>0 DEF LockInv, HoldersStay
<1>3. \A o \in Posting' : tomb'[ob'[o].att].state = "open"
  BY DEF HoldersStay
<1>4. \A o, p \in Posting' : ob'[o].att = ob'[p].att => o = p
  BY <1>0 DEF LockInv, HoldersStay
<1>5. QED
  BY <1>1, <1>2, <1>3, <1>4 DEF LockInv, Row, NameOf


\* what the adapter said of a job that ended well, it goes on saying
JobsStay == \A x \in Attempts : job[x].st = "ok" => job'[x].st = "ok"

LEMMA EvidenceStays ==
    ASSUME ProvisioningInv, TombstonesGo, JobsStay,
           \A s \in Sweepers : sw'[s].run.pc = "polled" /\ sw'[s].run.st = "ok" =>
               job[sw'[s].run.att].st = "ok" /\ sw'[s].run.att \in Attempts
    PROVE  EvidenceInv'
<1>1. EvidenceInv
  BY DEF ProvisioningInv
<1>2. ASSUME NEW a \in Born', tomb'[a].verdict = "ok"
      PROVE  job'[a].st = "ok"
  <2>1. a \in Born /\ a \in Attempts
    BY <1>2 DEF TombstonesGo, Born
  <2>2. job[a].st = "ok"
    BY <1>1, <1>2, <2>1 DEF TombstonesGo, Goes, EvidenceInv
  <2>3. QED
    BY <2>1, <2>2 DEF JobsStay
<1>3. QED
  BY <1>2 DEF EvidenceInv, JobsStay

LEMMA NodesKeep ==
    ASSUME ProvisioningInv, TombstonesGo, NodesMove,
           job' \in [Attempts -> Receipts],
           \A x \in Attempts : job'[x].node # 0 =>
               job'[x].node = job[x].node \/ (x \in Born /\ WillBeOf(job'[x].node, NameOf(x))),
           sw' \in [Sweepers -> [run : Runs, inv : Inventories]],
           \A s \in Sweepers :
               /\ sw'[s].run.node # 0 =>
                     sw'[s].run.att \in Born /\ IsOf(sw'[s].run.node, NameOf(sw'[s].run.att))
               /\ \A n \in Names : sw'[s].inv.nodes[n] # NoRow => IsOf(sw'[s].inv.nodes[n].id, n)
    PROVE  NodeInv'
<1>0. TypeOK /\ NodeInv
  BY DEF ProvisioningInv
<1>1. ASSUME NEW n \in Names, node'[n] # NoRow
      PROVE  node'[n].id # 0 /\ WillBeOf(node'[n].id, n)
  <2>1. CASE node[n] # NoRow /\ node'[n].id = node[n].id
    <3>1. node[n].id \in Nat /\ node[n].id # 0 /\ IsOf(node[n].id, n)
      BY <1>0, <2>1 DEF TypeOK, Nodes, Ids, NodeInv
    <3>2. QED
      BY <1>0, <2>1, <3>1, IsOfStays
  <2>2. CASE /\ node'[n].id = serial + 1 /\ serial' = serial + 1
             /\ \A m \in Names \ {n} : node'[m] = node[m]
    <3>1. serial \in Nat /\ \A m \in Names : node[m] # NoRow => node[m].id <= serial
      BY <1>0 DEF TypeOK, Ids, NodeInv, IsOf
    <3>2. \A m \in Names \ {n} : node'[m] # NoRow => node'[m].id # serial + 1
      <4>1. \A m \in Names \ {n} : node'[m] # NoRow => node'[m].id \in Nat /\ node'[m].id <= serial
        BY <1>0, <2>2, <3>1 DEF TypeOK, Nodes, Ids
      <4>2. QED
        BY <3>1, <4>1
    <3>3. QED
      BY <2>2, <3>1, <3>2 DEF WillBeOf
  <2>3. QED
    BY <1>1, <2>1, <2>2 DEF NodesMove
<1>2. ASSUME NEW a \in Born
      PROVE  /\ a \in Attempts /\ job[a].node \in Nat /\ tomb[a].node \in Nat
             /\ job[a].node # 0 => WillBeOf(job[a].node, NameOf(a))
             /\ tomb[a].node # 0 => WillBeOf(tomb[a].node, NameOf(a))
  <2>1. a \in Attempts /\ job[a].node \in Nat /\ tomb[a].node \in Nat
    BY <1>0 DEF TypeOK, Tombstones, Receipts, Ids, Born
  <2>2. QED
    BY <1>0, <2>1, IsOfStays DEF NodeInv, Born
<1>3. ASSUME NEW a \in Born, tomb'[a].node # 0
      PROVE  WillBeOf(tomb'[a].node, NameOf(a))
  <2>1. tomb'[a].node \in Nat
    BY <1>2 DEF TombstonesGo, Tombstones, Ids
  <2>2. tomb'[a].node \in {tomb[a].node, job[a].node} \/ IsOf(tomb'[a].node, NameOf(a))
    BY <1>2, <1>3 DEF TombstonesGo, Goes
  <2>3. QED
    BY <1>0, <1>2, <1>3, <2>1, <2>2, IsOfStays
<1>4. ASSUME NEW s \in Sweepers
      PROVE  /\ sw'[s].run.node # 0 => WillBeOf(sw'[s].run.node, NameOf(sw'[s].run.att))
             /\ \A n \in Names : sw'[s].inv.nodes[n] # NoRow => WillBeOf(sw'[s].inv.nodes[n].id, n)
  <2>1. /\ sw'[s].run.node \in Nat
        /\ \A n \in Names : sw'[s].inv.nodes[n] # NoRow => sw'[s].inv.nodes[n].id \in Nat
    BY DEF Runs, Inventories, Nodes, Ids
  <2>2. QED
    BY <1>0, <2>1, IsOfStays
<1>5. \A x \in Attempts : NodeName[tomb'[x].device] = NameOf(x)
  BY DEF TombstonesGo, Goes, NameOf
<1>6. QED
  <2>1. \A n \in Names : node'[n] # NoRow =>
            /\ node'[n].id # 0 /\ node'[n].id <= serial'
            /\ \A m \in Names : node'[m] # NoRow /\ node'[m].id = node'[n].id => m = n
    BY <1>1 DEF WillBeOf
  <2>2. \A a \in Born' : tomb'[a].node # 0 =>
            /\ tomb'[a].node <= serial'
            /\ \A m \in Names : node'[m] # NoRow /\ node'[m].id = tomb'[a].node => m = NodeName[tomb'[a].device]
    BY <1>2, <1>3, <1>5 DEF TombstonesGo, WillBeOf
  <2>3. \A a \in Attempts : job'[a].node # 0 =>
            /\ a \in Born' /\ job'[a].node <= serial'
            /\ \A m \in Names : node'[m] # NoRow /\ node'[m].id = job'[a].node => m = NodeName[tomb'[a].device]
    BY <1>0, <1>2, <1>5 DEF TombstonesGo, WillBeOf, NodeInv
  <2>4. \A s \in Sweepers :
            /\ sw'[s].run.node # 0 =>
                  /\ sw'[s].run.att \in Born' /\ sw'[s].run.node <= serial'
                  /\ \A m \in Names : node'[m] # NoRow /\ node'[m].id = sw'[s].run.node
                        => m = NodeName[tomb'[sw'[s].run.att].device]
            /\ \A n \in Names : sw'[s].inv.nodes[n] # NoRow =>
                  /\ sw'[s].inv.nodes[n].id <= serial'
                  /\ \A m \in Names : node'[m] # NoRow /\ node'[m].id = sw'[s].inv.nodes[n].id => m = n
    BY <1>2, <1>4, <1>5 DEF TombstonesGo, WillBeOf
  <2>5. QED
    BY <2>1, <2>2, <2>3, <2>4 DEF NodeInv, IsOf, NameOf


\* no management row is made, but one that waits for no job; none is told anything
RowsStay ==
    \A d \in Devices : mgmt'[d] # NoRow =>
        \/ mgmt'[d].job = 0 /\ mgmt'[d].status # "provisioning"
        \/ Row(d) /\ \A f \in {"name", "job", "status"} : mgmt'[d][f] = mgmt[d][f]

\* what a row may say after the step, spelled out
RowIsRight(d) ==
    mgmt'[d] # NoRow =>
        /\ mgmt'[d].job # 0 => mgmt'[d].job \in Born' /\ tomb'[mgmt'[d].job].device = d
        /\ mgmt'[d].status = "provisioning" =>
              /\ mgmt'[d].job \in Born' /\ tomb'[mgmt'[d].job].state \in {"open", "terminal"}
              /\ tomb'[mgmt'[d].job].device = d /\ tomb'[mgmt'[d].job].job
              /\ mgmt'[d].name = NodeName[d] /\ mgmt'[d].job # 0
        /\ mgmt'[d].job # 0 /\ mgmt'[d].status = "" =>
              job'[mgmt'[d].job].st = "ok" /\ tomb'[mgmt'[d].job].state = "closed"

LEMMA RowStays ==
    ASSUME ProvisioningInv, TombstonesGo, JobsStay, NEW d \in Devices,
           Row(d), mgmt'[d].name = mgmt[d].name, mgmt'[d].job = mgmt[d].job, mgmt'[d].status = mgmt[d].status,
           mgmt[d].status = "provisioning" /\ tomb[mgmt[d].job].state = "terminal" =>
               tomb'[mgmt[d].job].state = "terminal"
    PROVE  RowIsRight(d)
<1>. DEFINE a == mgmt[d].job
<1>0. /\ TypeOK /\ RowInv /\ ProvisioningRowIsTracked /\ ReadyRowWasProvisioned
      /\ Born \subseteq Attempts /\ Born' = Born
  BY DEF ProvisioningInv, Born, TombstonesGo
<1>1. ASSUME a # 0
      PROVE  a \in Born' /\ tomb'[a].device = d
  BY <1>0, <1>1 DEF RowInv, TombstonesGo, Goes
<1>2. ASSUME mgmt[d].status = "provisioning"
      PROVE  /\ a \in Born /\ tomb'[a].state \in {"open", "terminal"} /\ tomb'[a].job
             /\ mgmt[d].name = NodeName[d] /\ a # 0
  <2>1. a \in Born /\ tomb[a].state \in {"open", "terminal"} /\ Applies(a)
    BY <1>0, <1>2 DEF ProvisioningRowIsTracked
  <2>2. a # 0
    BY <1>0, <2>1, BoundsAssumption DEF Attempts
  <2>3. tomb[a].device = d /\ tomb[a].job
    BY <1>0, <2>1, <2>2 DEF RowInv, Applies, JobOf
  <2>4. mgmt[d].name = NodeName[d]
    BY <2>1, <2>3 DEF Applies, Tracks, NameOf
  <2>5. Goes(a)
    BY <1>0, <2>1 DEF TombstonesGo
  <2>6. tomb'[a].state \in {"open", "terminal"} /\ tomb'[a].job
    BY <1>2, <2>1, <2>3, <2>5 DEF Goes
  <2>7. QED
    BY <2>1, <2>2, <2>4, <2>6
<1>3. ASSUME a # 0, mgmt[d].status = ""
      PROVE  job'[a].st = "ok" /\ tomb'[a].state = "closed"
  <2>1. a \in Born /\ a \in Attempts /\ job[a].st = "ok" /\ tomb[a].state = "closed"
    BY <1>0, <1>3 DEF RowInv, ReadyRowWasProvisioned
  <2>2. QED
    BY <2>1 DEF JobsStay, TombstonesGo, Goes
<1>4. QED
  BY <1>0, <1>1, <1>2, <1>3 DEF RowIsRight

LEMMA RowsAreRight ==
    ASSUME \A d \in Devices : RowIsRight(d)
    PROVE  RowInv' /\ ProvisioningRowIsTracked' /\ ReadyRowWasProvisioned'
<1>1. RowInv' /\ ReadyRowWasProvisioned'
  BY DEF RowIsRight, RowInv, ReadyRowWasProvisioned, Row
<1>2. ASSUME NEW d \in Devices, mgmt'[d] # NoRow, mgmt'[d].status = "provisioning"
      PROVE  /\ mgmt'[d].job \in Born'
             /\ tomb'[mgmt'[d].job].state \in {"open", "terminal"}
             /\ tomb'[mgmt'[d].job].device = d /\ tomb'[mgmt'[d].job].job
             /\ mgmt'[d].name = NodeName[tomb'[mgmt'[d].job].device]
  <2>1. RowIsRight(d)
    OBVIOUS
  <2>2. tomb'[mgmt'[d].job].device = d /\ mgmt'[d].name = NodeName[d]
    BY <1>2, <2>1 DEF RowIsRight
  <2>3. QED
    BY <1>2, <2>1, <2>2 DEF RowIsRight
<1>3. QED
  BY <1>1, <1>2 DEF ProvisioningRowIsTracked, Row, Applies, JobOf, Tracks, NameOf

LEMMA RowsKeep ==
    ASSUME ProvisioningInv, TombstonesGo, JobsStay, RowsStay,
           \A d \in Devices : Row(d) /\ mgmt[d].status = "provisioning" /\ tomb[mgmt[d].job].state = "terminal" =>
               tomb'[mgmt[d].job].state = "terminal"
    PROVE  RowInv' /\ ProvisioningRowIsTracked' /\ ReadyRowWasProvisioned'
<1>1. ASSUME NEW d \in Devices
      PROVE  RowIsRight(d)
  <2>1. CASE mgmt'[d] = NoRow
    BY <2>1 DEF RowIsRight
  <2>2. CASE mgmt'[d].job = 0 /\ mgmt'[d].status # "provisioning"
    BY <2>2 DEF RowIsRight
  <2>3. CASE Row(d) /\ \A f \in {"name", "job", "status"} : mgmt'[d][f] = mgmt[d][f]
    BY <2>3, RowStays
  <2>4. QED
    BY <2>1, <2>2, <2>3 DEF RowsStay
<1>2. QED
  BY <1>1, RowsAreRight


-----------------------------------------------------------------------------
(* The steps                                                               *)

\* Whoever works behind a lock holds the attempt he works on.
LEMMA HoldersHold ==
    ASSUME TypeOK, BornInv
    PROVE  /\ \A s \in Offboarding : sw[s].run.att \in Held
           /\ \A o \in Posting : ob[o].att \in Held
<1>1. ASSUME NEW s \in Offboarding
      PROVE  sw[s].run.att \in Held
  <2>. DEFINE all == {sw[t].run.att : t \in Offboarding}
  <2>1. sw[s].run.att \in all
    OBVIOUS
  <2>. HIDE DEF all
  <2>2. all \subseteq Held
    BY DEF Held, all
  <2>3. QED
    BY <2>1, <2>2
<1>2. ASSUME NEW o \in Posting
      PROVE  ob[o].att \in Held
  <2>1. ob[o].att \in Born
    BY DEF BornInv, Posting
  <2>2. ob[o].att \in HeldBy(o)
    BY <2>1 DEF HeldBy, SameIdentity
  <2>3. HeldBy(o) \in {HeldBy(p) : p \in Posting}
    OBVIOUS
  <2>. DEFINE all == {HeldBy(p) : p \in Posting}
  <2>4. ob[o].att \in UNION all
    BY <2>2, <2>3
  <2>5. QED
    BY <2>4 DEF Held
<1>3. QED
  BY <1>1, <1>2

\* A claim that finds an open attempt leaves everything but the worker alone.
LEMMA ClaimKeeps ==
    ASSUME ProvisioningInv, NEW o \in Operators, NEW d \in Devices, NEW b \in Bodies, ClaimAttempt(o, d, b)
    PROVE  ProvisioningInv'
<1>. DEFINE new == Cardinality(Born) + 1
            fresh == [Unborn EXCEPT !.device = d, !.body = b, !.state = "open"]
<1>0. /\ TypeOK /\ BornInv /\ LockInv /\ EvidenceInv /\ NodeInv /\ RowInv
      /\ ProvisioningRowIsTracked /\ ReadyRowWasProvisioned
  BY DEF ProvisioningInv
<1>1. /\ UNCHANGED <<mgmt, adapter, sw, counts>> /\ ob[o].pc = "idle"
      /\ SameIdentity(d, NodeName[d]) \intersect Held = {}
  BY DEF ClaimAttempt
<1>2. TypeOK' /\ BornInv'
  BY <1>0, ClaimTyped
<1>3. PICK att, isnew : ob' = [ob EXCEPT ![o] = [pc |-> "claimed", att |-> att, new |-> isnew]]
  BY DEF ClaimAttempt
<1>4. Posting' \subseteq Posting /\ \A p \in Posting' : ob'[p] = ob[p]
  BY <1>0, <1>3 DEF Posting, TypeOK
<1>5. CASE UNCHANGED tomb
  <2>1. TombstonesGo
    BY <1>0, <1>5, TombstonesMove
  <2>2. HoldersStay
    BY <1>0, <1>1, <1>4, <1>5 DEF HoldersStay, Offboarding, LockInv, Row
  <2>3. LockInv'
    BY <2>1, <2>2, LocksStay
  <2>4. EvidenceInv' /\ NodeInv'
    BY <1>0, <1>1, <1>5 DEF EvidenceInv, NodeInv, IsOf, Born, NameOf, adapter
  <2>5. RowInv' /\ ProvisioningRowIsTracked' /\ ReadyRowWasProvisioned'
    BY <1>0, <1>1, <1>5 DEF RowInv, ProvisioningRowIsTracked, ReadyRowWasProvisioned, Row, Born, Applies,
       JobOf, Tracks, NameOf, adapter
  <2>6. QED
    BY <1>2, <2>3, <2>4, <2>5 DEF ProvisioningInv
<1>6. CASE new \in Attempts /\ tomb' = [tomb EXCEPT ![new] = fresh]
  <2>1. /\ fresh.device = d /\ fresh.state = "open" /\ fresh.verdict = "none" /\ fresh.node = 0
    BY DEF Unborn
  <2>2. new \notin Born
    BY <1>0, NextNumber
  <2>. HIDE DEF new, fresh
  <2>3. /\ Born' = Born \union {new} /\ \A x \in Born : x \in Attempts /\ tomb'[x] = tomb[x]
        /\ tomb'[new] = fresh
    BY <1>0, <1>6, <2>1, <2>2 DEF TypeOK, Born
  <2>4. LockInv'
    <3>1. /\ \A p \in Posting' : ob[p].att \in Born
          /\ \A s \in Offboarding : sw[s].run.att \in Born /\ sw[s].run.att \in Held
      <4>1. \A p \in Posting' : ob[p].att \in Born
        BY <1>0, <1>4 DEF BornInv, Posting
      <4>2. \A s \in Offboarding : sw[s].run.att \in Born
        BY <1>0 DEF BornInv, Offboarding
      <4>3. \A s \in Offboarding : sw[s].run.att \in Held
        BY <1>0, HoldersHold
      <4>4. QED
        BY <4>1, <4>2, <4>3
    <3>2. /\ \A p \in Posting' : tomb'[ob'[p].att].state = "open"
          /\ \A p, q \in Posting' : ob'[p].att = ob'[q].att => p = q
      BY <1>0, <1>4, <2>3, <3>1 DEF LockInv
    <3>3. ASSUME NEW s \in Offboarding
          PROVE  LET a == sw[s].run.att IN
                 /\ tomb'[a].state = "terminal"
                 /\ ~Row(tomb'[a].device)
                 /\ \A x \in Open' : NodeName[tomb'[x].device] # NodeName[tomb'[a].device]
      <4>. DEFINE a == sw[s].run.att
      <4>1. a \in Born /\ a \in Held /\ tomb'[a] = tomb[a]
        BY <2>3, <3>1
      <4>2. NameOf(a) # NodeName[d]
        BY <1>1, <4>1 DEF SameIdentity
      <4>3. /\ tomb[a].state = "terminal" /\ ~Row(tomb[a].device)
            /\ \A x \in Open : NameOf(x) # NameOf(a)
        BY <1>0 DEF LockInv
      <4>4. Open' \subseteq Open \union {new} /\ \A x \in Open : tomb'[x] = tomb[x]
        BY <2>3 DEF Open
      <4>5. QED
        BY <2>1, <2>3, <4>1, <4>2, <4>3, <4>4 DEF NameOf
    <3>4. QED
      BY <1>0, <1>1, <3>2, <3>3 DEF LockInv, Offboarding, Row, NameOf
  <2>5. EvidenceInv'
    BY <1>0, <1>1, <2>1, <2>3 DEF EvidenceInv, adapter
  <2>6. NodeInv'
    BY <1>0, <1>1, <2>1, <2>3 DEF NodeInv, IsOf, NameOf, adapter
  <2>7. ASSUME NEW e \in Devices, mgmt[e] # NoRow, mgmt[e].job # 0
        PROVE  mgmt[e].job \in Born /\ mgmt[e].job \in Born' /\ tomb'[mgmt[e].job] = tomb[mgmt[e].job]
    BY <1>0, <2>3, <2>7 DEF RowInv, Row
  <2>8. RowInv' /\ ReadyRowWasProvisioned'
    BY <1>0, <1>1, <2>7 DEF RowInv, ReadyRowWasProvisioned, Row, adapter
  <2>9. ProvisioningRowIsTracked'
    BY <1>0, <1>1, <2>3 DEF ProvisioningRowIsTracked, Row, Applies, JobOf, Tracks, NameOf
  <2>10. QED
    BY <1>2, <2>4, <2>5, <2>6, <2>8, <2>9 DEF ProvisioningInv
<1>7. QED
  BY <1>5, <1>6 DEF ClaimAttempt


\* The row locks and the rows across a step of the request worker.
LEMMA OnboardKeeps ==
    ASSUME ProvisioningInv, NEW o \in Operators,
           SubmitClaim(o) \/ Post(o) \/ AdmitAttempt(o) \/ OperatorDies(o)
    PROVE  ProvisioningInv'
<1>. DEFINE a == ob[o].att
<1>0. /\ TypeOK /\ BornInv /\ LockInv /\ EvidenceInv /\ NodeInv /\ RowInv
      /\ ProvisioningRowIsTracked /\ ReadyRowWasProvisioned
  BY DEF ProvisioningInv
<1>1. TypeOK' /\ BornInv' /\ a \in Born /\ Moves(a)
  BY <1>0, OnboardTyped
<1>2. TombstonesGo /\ \A x \in Attempts \ {a} : tomb'[x] = tomb[x]
  BY <1>0, <1>1, TombstonesMove, MovesTyped
<1>3. /\ a \in Attempts /\ tomb[a].device \in Devices /\ NameOf(a) \in Names
      /\ tomb \in [Attempts -> Tombstones] /\ ob \in [Operators -> Requests]
  BY <1>0, <1>1, BornTyped DEF TypeOK
<1>4. /\ UNCHANGED <<node, serial, sw>>
      /\ \/ UNCHANGED mgmt
         \/ /\ AdmitAttempt(o) /\ ~Row(tomb[a].device)
            /\ mgmt' = [mgmt EXCEPT ![tomb[a].device] =
                  [name |-> NameOf(a), job |-> a, status |-> "provisioning", node |-> 0]]
            /\ tomb' = [tomb EXCEPT ![a].job = @ \/ tomb[a].state = "open"]
      /\ UNCHANGED job \/ job' = Admitted(a)
  BY DEF SubmitClaim, Post, AdmitAttempt, OperatorDies, adapter, counts
<1>5. /\ \A x \in Attempts : job'[x].node = job[x].node
      /\ \A x \in Attempts : job[x].st # "absent" => job'[x] = job[x]
  BY <1>0, <1>3, <1>4, AdmittedTyped
<1>6. LockInv'
  <2>1. ASSUME NEW s \in Offboarding
        PROVE  tomb[sw[s].run.att].state = "terminal" /\ sw[s].run.att \in Attempts /\ sw[s].run.att \in Held
    BY <1>0, HoldersHold, BornTyped DEF LockInv, BornInv, Offboarding
  <2>2. ASSUME NEW p \in Posting
        PROVE  tomb[ob[p].att].state = "open" /\ ob[p].att \in Attempts /\ ob[p].att \in Held
    BY <1>0, HoldersHold, BornTyped DEF LockInv, BornInv, Posting
  <2>3. \A d \in Devices : mgmt'[d] # NoRow => Row(d) \/ ~IntentHeld(d)
    <3>1. AdmitAttempt(o) => ~IntentHeld(tomb[a].device)
      BY DEF AdmitAttempt
    <3>2. mgmt \in [Devices -> ManagementRows \union {NoRow}]
      BY <1>0 DEF TypeOK
    <3>3. QED
      BY <1>3, <1>4, <3>1, <3>2 DEF Row
  <2>4. Offboarding' = Offboarding
    BY <1>4 DEF Offboarding
  <2>5. CASE SubmitClaim(o) /\ Step(o, "posting")
    <3>1. UNCHANGED <<tomb, mgmt, sw>> /\ tomb[a].state = "open"
      <4>1. ~Return(o)
        BY <1>3, <2>5, StepTyped, <1>0 DEF Step, Return, NobodyPosts, Requests
      <4>2. UNCHANGED mgmt
        BY <2>5 DEF SubmitClaim
      <4>3. QED
        BY <1>4, <2>5, <4>1, <4>2 DEF SubmitClaim
    <3>2. a \notin Held
      BY <1>1, <2>5 DEF SubmitClaim, SameIdentity
    <3>3. Posting' = Posting \union {o} /\ \A p \in Operators : ob'[p].att = ob[p].att
      BY <1>3, <2>5, StepTyped, <1>0 DEF Posting, Step
    <3>4. /\ \A p \in Posting' : tomb'[ob'[p].att].state = "open"
          /\ \A p, q \in Posting' : ob'[p].att = ob'[q].att => p = q
      BY <1>0, <2>2, <3>1, <3>2, <3>3 DEF LockInv, Posting
    <3>5. QED
      BY <1>0, <2>4, <3>1, <3>4 DEF LockInv, Row, Open, Born, NameOf
  <2>6. CASE Return(o) \/ (Post(o) /\ Step(o, "answered"))
    <3>1. Posting' \subseteq Posting /\ \A p \in Posting' : ob'[p].att = ob[p].att
      BY <1>0, <1>3, <2>6, StepTyped DEF Posting, Post, Step, Return, NobodyPosts
    <3>2. \A p \in Posting' : tomb'[ob[p].att].state = "open"
      <4>1. CASE UNCHANGED tomb \/ tomb'[a].state = tomb[a].state
        BY <1>2, <2>2, <3>1, <4>1
      <4>2. CASE Return(o) /\ o \in Posting
        <5>1. \A p \in Posting' : p # o
          BY <1>3, <4>2 DEF Posting, Return, NobodyPosts
        <5>2. \A p \in Posting' : ob[p].att # a
          BY <1>0, <3>1, <4>2, <5>1 DEF LockInv
        <5>3. QED
          BY <1>2, <2>2, <3>1, <5>2
      <4>3. CASE SubmitClaim(o)
        <5>1. a \notin Held
          BY <1>1, <4>3 DEF SubmitClaim, SameIdentity
        <5>2. QED
          BY <1>2, <2>2, <3>1, <5>1
      <4>4. QED
        BY <2>6, <4>1, <4>2, <4>3 DEF Post, AdmitAttempt, OperatorDies, Posting
    <3>3. \A s \in Offboarding : tomb'[sw[s].run.att].state = "terminal"
      <4>1. CASE UNCHANGED tomb
        BY <2>1, <4>1
      <4>2. CASE SubmitClaim(o)
        <5>1. a \notin Held
          BY <1>1, <4>2 DEF SubmitClaim, SameIdentity
        <5>2. QED
          BY <1>2, <2>1, <5>1
      <4>3. CASE o \in Posting
        BY <1>2, <2>1, <2>2, <4>3
      <4>4. QED
        BY <4>1, <4>2, <4>3 DEF Post, AdmitAttempt, OperatorDies, Posting
    <3>4. HoldersStay
      BY <1>4, <2>3, <2>4, <3>1, <3>2, <3>3 DEF HoldersStay
    <3>5. QED
      BY <1>2, <3>4, LocksStay
  <2>7. QED
    BY <2>5, <2>6 DEF SubmitClaim, Post, AdmitAttempt, OperatorDies
<1>7. EvidenceInv' /\ JobsStay
  <2>1. JobsStay
    BY <1>5 DEF JobsStay
  <2>2. \A s \in Sweepers : sw'[s].run.pc = "polled" /\ sw'[s].run.st = "ok" =>
            job[sw'[s].run.att].st = "ok" /\ sw'[s].run.att \in Attempts
    BY <1>0, <1>4, BornTyped DEF EvidenceInv, BornInv
  <2>3. QED
    BY <1>2, <2>1, <2>2, EvidenceStays
<1>8. NodeInv'
  <2>1. NodesMove
    BY <1>0, <1>4, NodesStay
  <2>2. QED
    BY <1>0, <1>1, <1>2, <1>4, <1>5, <2>1, NodesKeep DEF NodeInv, TypeOK
<1>9. RowInv' /\ ProvisioningRowIsTracked' /\ ReadyRowWasProvisioned'
  <2>1. \A x \in Attempts : tomb[x].state = "terminal" => tomb'[x].state = "terminal"
    <3>1. tomb[a].state = "terminal" => tomb'[a].state = "terminal"
      <4>1. tomb' = CloseRejected(a) \/ tomb' = [tomb EXCEPT ![a].job = @ \/ tomb[a].state = "open"] \/ UNCHANGED tomb
        BY DEF SubmitClaim, Post, AdmitAttempt, OperatorDies, ReconcileRejected
      <4>2. CASE tomb' = [tomb EXCEPT ![a].job = @ \/ tomb[a].state = "open"]
        BY <1>3, <4>2 DEF Tombstones
      <4>3. CASE tomb' = CloseRejected(a)
        BY <1>3, <4>3 DEF CloseRejected
      <4>4. QED
        BY <4>1, <4>2, <4>3
    <3>2. QED
      BY <1>2, <3>1
  <2>2. \A d \in Devices : Row(d) /\ mgmt[d].status = "provisioning" /\ tomb[mgmt[d].job].state = "terminal" =>
            tomb'[mgmt[d].job].state = "terminal"
    BY <1>0, <2>1 DEF ProvisioningRowIsTracked, Born
  <2>3. CASE UNCHANGED mgmt
    <3>1. RowsStay
      BY <2>3 DEF RowsStay, Row
    <3>2. QED
      BY <1>2, <1>7, <2>2, <3>1, RowsKeep
  <2>4. CASE /\ AdmitAttempt(o) /\ ~Row(tomb[a].device)
             /\ mgmt' = [mgmt EXCEPT ![tomb[a].device] =
                   [name |-> NameOf(a), job |-> a, status |-> "provisioning", node |-> 0]]
             /\ tomb' = [tomb EXCEPT ![a].job = @ \/ tomb[a].state = "open"]
    <3>1. tomb[a].state = "open" /\ o \in Posting
      BY <1>0, <2>4 DEF AdmitAttempt, LockInv, Posting
    <3>2. tomb'[a].job /\ tomb'[a].state = "open" /\ tomb'[a].device = tomb[a].device /\ a \in Born' /\ a # 0
      <4>1. a \in Born' /\ a # 0 /\ tomb'[a].device = tomb[a].device
        BY <1>1, <1>2, <1>3, Bounds DEF TombstonesGo, Goes, Attempts
      <4>2. tomb'[a] = [tomb[a] EXCEPT !.job = tomb[a].job \/ tomb[a].state = "open"]
        BY <1>3, <2>4
      <4>3. QED
        BY <1>3, <3>1, <4>1, <4>2 DEF Tombstones
    <3>3. mgmt \in [Devices -> ManagementRows \union {NoRow}]
      BY <1>0 DEF TypeOK
    <3>4. ASSUME NEW d \in Devices
          PROVE  RowIsRight(d)
      <4>1. CASE d = tomb[a].device
        BY <1>3, <2>4, <3>2, <3>3, <4>1 DEF RowIsRight, NameOf
      <4>2. CASE d # tomb[a].device
        <5>1. mgmt'[d] = mgmt[d]
          BY <1>3, <2>4, <3>3, <4>2
        <5>2. QED
          BY <1>2, <1>7, <2>2, <5>1, RowStays DEF RowIsRight, Row
      <4>3. QED
        BY <4>1, <4>2
    <3>5. QED
      BY <3>4, RowsAreRight
  <2>5. QED
    BY <1>4, <2>3, <2>4
<1>10. QED
  BY <1>1, <1>6, <1>7, <1>8, <1>9 DEF ProvisioningInv


\* The adapter admits, builds and ends jobs, and calls back past no lock.
LEMMA ServedKeeps ==
    ASSUME ProvisioningInv, NEW a \in Attempts,
           LateRequestLands(a) \/ JobBuilds(a) \/ JobEnds(a) \/ Callback(a)
    PROVE  ProvisioningInv'
<1>0. /\ TypeOK /\ BornInv /\ LockInv /\ EvidenceInv /\ NodeInv /\ RowInv
      /\ ProvisioningRowIsTracked /\ ReadyRowWasProvisioned
  BY DEF ProvisioningInv
<1>1. TypeOK' /\ BornInv' /\ a \in Born /\ Moves(a) /\ NodesMove
  BY ServedTyped
<1>2. TombstonesGo /\ \A x \in Attempts \ {a} : tomb'[x] = tomb[x]
  BY <1>0, <1>1, TombstonesMove, MovesTyped
<1>3. /\ UNCHANGED <<mgmt, ob, sw>>
      /\ UNCHANGED tomb \/ (a \notin Held /\ tomb[a].state = "open" /\ tomb'[a].state = "terminal")
  <2>1. CASE Callback(a)
    <3>1. a \notin Held /\ tomb[a].state = "open" /\ UNCHANGED <<mgmt, ob, sw>>
      BY <2>1 DEF Callback, Open
    <3>2. UNCHANGED tomb \/ tomb'[a].state = "terminal"
      <4>1. job[a].st \in {"ok", "bad"} /\ job[a].node \in Ids /\ tomb' = MarkTerminal(a, job[a].st, job[a].node, TRUE)
        BY <1>0, <2>1 DEF Callback, TypeOK, Receipts
      <4>2. QED
        BY <1>0, <4>1, MarkedMoves
    <3>3. QED
      BY <3>1, <3>2
  <2>2. QED
    BY <2>1 DEF LateRequestLands, JobBuilds, JobEnds, counts
<1>4. /\ JobsStay
      /\ \A x \in Attempts : job'[x].node # 0 =>
            job'[x].node = job[x].node \/ (x \in Born /\ WillBeOf(job'[x].node, NameOf(x)))
  <2>1. CASE LateRequestLands(a)
    BY <1>0, <2>1, AdmittedTyped DEF LateRequestLands, JobsStay
  <2>2. CASE JobBuilds(a)
    <3>1. /\ node' \in [Names -> Nodes \union {NoRow}] /\ NameOf(a) \in Names
          /\ node'[NameOf(a)] # NoRow /\ job'[a].node = node'[NameOf(a)].id /\ job'[a].node \in Nat
          /\ job' = [job EXCEPT ![a].node = job'[a].node]
          /\ node[NameOf(a)] # NoRow => job'[a].node = node[NameOf(a)].id
          /\ node[NameOf(a)] = NoRow => job'[a].node = serial'
      BY <1>0, <2>2, JobBuildsMoves
    <3>2. PICK id \in Nat : job' = [job EXCEPT ![a].node = id] /\ id = job'[a].node
      BY <3>1
    <3>3. job \in [Attempts -> Receipts]
      BY <1>0 DEF TypeOK
    <3>4. \A x \in Attempts : job'[x].st = job[x].st /\ (x # a => job'[x] = job[x])
      BY <3>2, <3>3 DEF Receipts
    <3>5. WillBeOf(job'[a].node, NameOf(a))
      <4>1. CASE node[NameOf(a)] # NoRow
        <5>1. IsOf(job'[a].node, NameOf(a))
          BY <1>0, <3>1, <4>1 DEF NodeInv
        <5>2. QED
          BY <1>0, <1>1, <3>1, <5>1, IsOfStays
      <4>2. CASE node[NameOf(a)] = NoRow
        <5>1. serial' = serial + 1 /\ \A m \in Names \ {NameOf(a)} : node'[m] = node[m]
          BY <1>0, <2>2, <3>1, <4>2 DEF JobBuilds, TypeOK
        <5>2. serial \in Nat /\ \A m \in Names : node[m] # NoRow => node[m].id \in Nat /\ node[m].id <= serial
          BY <1>0 DEF TypeOK, Ids, Nodes, NodeInv, IsOf
        <5>3. job'[a].node = serial + 1
          BY <3>1, <4>2, <5>1
        <5>4. \A m \in Names \ {NameOf(a)} : node'[m] # NoRow => node'[m].id # serial + 1
          <6>1. \A m \in Names \ {NameOf(a)} : node'[m] # NoRow => node'[m].id \in Nat /\ node'[m].id <= serial
            BY <5>1, <5>2
          <6>2. QED
            BY <5>2, <6>1
        <5>5. QED
          BY <5>1, <5>2, <5>3, <5>4 DEF WillBeOf
      <4>3. QED
        BY <4>1, <4>2
    <3>6. QED
      BY <1>1, <3>4, <3>5 DEF JobsStay
  <2>3. CASE JobEnds(a)
    BY <1>0, <2>3, JobEndsTyped DEF JobsStay
  <2>4. CASE Callback(a)
    BY <2>4 DEF Callback, adapter, JobsStay
  <2>5. QED
    BY <2>1, <2>2, <2>3, <2>4
<1>5. LockInv'
  <2>1. \A s \in Offboarding : sw[s].run.att \in Attempts /\ sw[s].run.att \in Held /\ tomb[sw[s].run.att].state = "terminal"
    BY <1>0, HoldersHold, BornTyped DEF LockInv, BornInv, Offboarding
  <2>2. \A o \in Posting : ob[o].att \in Attempts /\ ob[o].att \in Held /\ tomb[ob[o].att].state = "open"
    BY <1>0, HoldersHold, BornTyped DEF LockInv, BornInv, Posting
  <2>3. HoldersStay
    BY <1>2, <1>3, <2>1, <2>2 DEF HoldersStay, Posting, Offboarding, Row
  <2>4. QED
    BY <1>2, <2>3, LocksStay
<1>6. EvidenceInv'
  <2>1. \A s \in Sweepers : sw'[s].run.pc = "polled" /\ sw'[s].run.st = "ok" =>
            job[sw'[s].run.att].st = "ok" /\ sw'[s].run.att \in Attempts
    BY <1>0, <1>3, BornTyped DEF EvidenceInv, BornInv
  <2>2. QED
    BY <1>2, <1>4, <2>1, EvidenceStays
<1>7. NodeInv'
  BY <1>0, <1>1, <1>2, <1>3, <1>4, NodesKeep DEF NodeInv, TypeOK
<1>8. RowInv' /\ ProvisioningRowIsTracked' /\ ReadyRowWasProvisioned'
  <2>1. \A d \in Devices : Row(d) /\ mgmt[d].status = "provisioning" /\ tomb[mgmt[d].job].state = "terminal" =>
            tomb'[mgmt[d].job].state = "terminal"
    BY <1>0, <1>2, <1>3 DEF ProvisioningRowIsTracked, Born
  <2>2. RowsStay
    BY <1>3 DEF RowsStay, Row
  <2>3. QED
    BY <1>2, <1>4, <2>1, <2>2, RowsKeep
<1>9. QED
  BY <1>1, <1>5, <1>6, <1>7, <1>8 DEF ProvisioningInv


\* what every step of a sweep has in common
SweepGoes(s) ==
    /\ UNCHANGED tomb \/ \E a \in Born : Moves(a)
    /\ UNCHANGED <<job, late, serial, ob, moves>> /\ faults' \in 0..MaxFaults
    /\ mgmt' \in [Devices -> ManagementRows \union {NoRow}]
    /\ NodesMove /\ node' \in [Names -> Nodes \union {NoRow}]
    /\ sw' \in [Sweepers -> [run : Runs, inv : Inventories]]
    /\ \A t \in Sweepers \ {s} : sw'[t] = sw[t]
    /\ sw'[s].run.pc # "idle" => sw'[s].run.att \in Born
    /\ sw'[s].run.pc = "polled" /\ sw'[s].run.st = "ok" => job[sw'[s].run.att].st = "ok"
    /\ sw'[s].run.node # 0 =>
          sw'[s].run.att \in Born /\ IsOf(sw'[s].run.node, NameOf(sw'[s].run.att))
    /\ \A n \in Names : sw'[s].inv.nodes[n] # NoRow => IsOf(sw'[s].inv.nodes[n].id, n)

LEMMA SweepKeeps ==
    ASSUME ProvisioningInv, NEW s \in Sweepers, SweepGoes(s)
    PROVE  TypeOK' /\ BornInv' /\ TombstonesGo /\ JobsStay /\ EvidenceInv' /\ NodeInv'
<1>0. TypeOK /\ BornInv /\ EvidenceInv /\ NodeInv
  BY DEF ProvisioningInv
<1>1. TombstonesGo
  BY <1>0, TombstonesMove DEF SweepGoes
<1>2. TypeOK'
  BY <1>0, <1>1 DEF SweepGoes, TypeOK, TombstonesGo
<1>3. BornInv'
  <2>1. \A a \in Born : tomb'[a].device \in Devices
    BY <1>0, <1>1 DEF BornInv, TombstonesGo, Goes, Born
  <2>2. \A t \in Sweepers : sw'[t].run.pc # "idle" => sw'[t].run.att \in Born
    BY <1>0 DEF SweepGoes, BornInv
  <2>3. QED
    BY <1>0, <1>1, <2>1, <2>2 DEF SweepGoes, BornInv, TombstonesGo
<1>4. JobsStay
  BY DEF SweepGoes, JobsStay
<1>5. EvidenceInv'
  <2>1. \A t \in Sweepers : sw'[t].run.pc = "polled" /\ sw'[t].run.st = "ok" =>
            job[sw'[t].run.att].st = "ok" /\ sw'[t].run.att \in Attempts
    <3>1. Born \subseteq Attempts
      BY DEF Born
    <3>2. QED
      BY <1>0, <3>1 DEF SweepGoes, EvidenceInv, BornInv
  <2>2. QED
    BY <1>1, <1>4, <2>1, EvidenceStays
<1>6. NodeInv'
  <2>1. \A t \in Sweepers :
            /\ sw'[t].run.node # 0 => sw'[t].run.att \in Born /\ IsOf(sw'[t].run.node, NameOf(sw'[t].run.att))
            /\ \A n \in Names : sw'[t].inv.nodes[n] # NoRow => IsOf(sw'[t].inv.nodes[n].id, n)
    BY <1>0 DEF SweepGoes, NodeInv
  <2>2. job' \in [Attempts -> Receipts] /\ \A x \in Attempts : job'[x].node = job[x].node
    BY <1>0 DEF SweepGoes, TypeOK
  <2>3. QED
    BY <1>1, <2>1, <2>2, NodesKeep DEF SweepGoes
<1>7. QED
  BY <1>1, <1>2, <1>3, <1>4, <1>5, <1>6

\* A sweep's record of an attempt nobody has locked.
LEMMA RecordsKeep ==
    ASSUME ProvisioningInv, NEW s \in Sweepers, NEW a \in Attempts, Records(s, a)
    PROVE  ProvisioningInv'
<1>0. /\ TypeOK /\ BornInv /\ LockInv /\ EvidenceInv /\ NodeInv /\ RowInv
      /\ ProvisioningRowIsTracked /\ ReadyRowWasProvisioned
  BY DEF ProvisioningInv
<1>1. /\ a \in Born /\ Moves(a) /\ UNCHANGED <<adapter, ob, moves>> /\ faults' \in 0..MaxFaults
      /\ UNCHANGED tomb \/ a \notin Held
      /\ \/ EndSweep(s)
         \/ a = sw[s].run.att /\ \E pc \in {"marked", "closing"} : Sweeping(s, pc)
      /\ UNCHANGED mgmt \/ Complete(s, a)
      /\ sw[s].run.pc \notin {"looking", "deleting"}
  BY RecordsMoves
<1>2. /\ sw' \in [Sweepers -> [run : Runs, inv : Inventories]]
      /\ \A t \in Sweepers \ {s} : sw'[t] = sw[t]
      /\ sw'[s].run.node = 0 /\ sw'[s].run.pc \in {"idle", "marked", "closing"}
      /\ sw'[s].run.pc # "idle" => sw'[s].run.att \in Born
      /\ sw'[s].inv \in {sw[s].inv, NoInventory}
  <2>1. CASE EndSweep(s)
    <3>1. sw'[s].run = NothingSwept
      BY <1>0, <2>1 DEF EndSweep, TypeOK
    <3>2. QED
      BY <1>0, <2>1, <3>1, SweepGoesOn, RunsTyped
  <2>2. CASE a = sw[s].run.att /\ \E pc \in {"marked", "closing"} : Sweeping(s, pc)
    <3>1. sw'[s].run.pc # "idle" => sw'[s].run.att = a
      BY <1>0, <2>2, SweepGoesOn
    <3>2. QED
      BY <1>0, <1>1, <2>2, <3>1, SweepGoesOn
  <2>3. QED
    BY <1>1, <2>1, <2>2
<1>3. UNCHANGED mgmt \/ (Applies(a) /\ mgmt' = Evidenced(a) /\ tomb[a].state = "terminal" /\ tomb'[a].state = "closed")
  <2>1. CASE Complete(s, a)
    BY <2>1, CompleteMoves
  <2>2. QED
    BY <1>1, <2>1
<1>4. SweepGoes(s)
  <2>1. mgmt' \in [Devices -> ManagementRows \union {NoRow}]
    BY <1>0, <1>1, <1>3, EvidencedTyped DEF TypeOK
  <2>2. NodesMove /\ node' \in [Names -> Nodes \union {NoRow}] /\ UNCHANGED <<job, late, serial>>
    BY <1>0, <1>1, NodesStay DEF adapter, TypeOK
  <2>3. \A n \in Names : sw'[s].inv.nodes[n] # NoRow => IsOf(sw'[s].inv.nodes[n].id, n)
    BY <1>0, <1>2, RunsTyped DEF NodeInv
  <2>4. QED
    BY <1>1, <1>2, <2>1, <2>2, <2>3 DEF SweepGoes
<1>5. TypeOK' /\ BornInv' /\ TombstonesGo /\ JobsStay /\ EvidenceInv' /\ NodeInv'
  BY <1>4, SweepKeeps
<1>6. \A x \in Attempts \ {a} : tomb'[x] = tomb[x]
  BY <1>0, <1>1, MovesTyped
<1>7. LockInv'
  <2>1. \A t \in Offboarding : sw[t].run.att \in Attempts /\ sw[t].run.att \in Held /\ tomb[sw[t].run.att].state = "terminal"
    BY <1>0, HoldersHold, BornTyped DEF LockInv, BornInv, Offboarding
  <2>2. \A o \in Posting : ob[o].att \in Attempts /\ ob[o].att \in Held /\ tomb[ob[o].att].state = "open"
    BY <1>0, HoldersHold, BornTyped DEF LockInv, BornInv, Posting
  <2>3. Posting' = Posting /\ Offboarding' = Offboarding /\ \A t \in Offboarding : sw'[t] = sw[t]
    BY <1>1, <1>2 DEF Posting, Offboarding
  <2>4. \A d \in Devices : mgmt'[d] # NoRow => Row(d)
    <3>1. CASE Applies(a) /\ mgmt' = Evidenced(a)
      <4>1. Row(tomb[a].device) /\ \A d \in Devices \ {tomb[a].device} : mgmt'[d] = mgmt[d]
        BY <1>0, <1>1, <3>1, EvidencedTyped DEF Applies, Tracks
      <4>2. QED
        BY <4>1 DEF Row
    <3>2. QED
      BY <1>3, <3>1 DEF Row
  <2>5. HoldersStay
    BY <1>1, <1>6, <2>1, <2>2, <2>3, <2>4 DEF HoldersStay
  <2>6. QED
    BY <1>5, <2>5, LocksStay
<1>8. RowInv' /\ ProvisioningRowIsTracked' /\ ReadyRowWasProvisioned'
  <2>1. ASSUME NEW d \in Devices, Row(d), mgmt[d].status = "provisioning", tomb[mgmt[d].job].state = "terminal"
        PROVE  \/ tomb'[mgmt[d].job].state = "terminal"
               \/ Applies(a) /\ mgmt' = Evidenced(a) /\ d = tomb[a].device
    <3>1. mgmt[d].job \in Born /\ mgmt[d].job # 0 /\ Applies(mgmt[d].job) /\ tomb[mgmt[d].job].device = d
      <4>1. mgmt[d].job \in Born /\ Applies(mgmt[d].job)
        BY <1>0, <2>1 DEF ProvisioningRowIsTracked
      <4>2. mgmt[d].job # 0
        BY <4>1, Bounds DEF Born, Attempts
      <4>3. QED
        BY <1>0, <2>1, <4>1, <4>2 DEF RowInv
    <3>2. CASE mgmt[d].job # a
      BY <1>6, <2>1, <3>1, <3>2 DEF Born
    <3>3. CASE mgmt[d].job = a
      <4>1. CASE Complete(s, a)
        BY <2>1, <3>1, <3>3, <4>1, <1>1, <1>2, CompleteMoves
      <4>2. CASE RecordPoll(s) /\ a = sw[s].run.att
        BY <2>1, <3>3, <4>2 DEF RecordPoll
      <4>3. CASE AgeOut(s) /\ a = sw[s].run.att
        <5>1. \/ UNCHANGED tomb
              \/ tomb' = [tomb EXCEPT ![a].aged = @ \/ tomb[a].state = "open"]
          BY <2>1, <3>3, <4>3 DEF AgeOut, MarkTerminal
        <5>2. QED
          BY <1>0, <2>1, <3>3, <5>1 DEF TypeOK, Tombstones
      <4>4. CASE CloseOffboarded(s, a)
        BY <2>1, <3>3, <4>4 DEF CloseOffboarded
      <4>5. CASE FindClosed(s) /\ a = sw[s].run.att
        BY <2>1, <3>3, <4>5 DEF FindClosed
      <4>6. QED
        BY <4>1, <4>2, <4>3, <4>4, <4>5 DEF Records
    <3>4. QED
      BY <3>2, <3>3
  <2>2. CASE UNCHANGED mgmt
    <3>1. RowsStay
      BY <2>2 DEF RowsStay, Row
    <3>2. \A d \in Devices : Row(d) /\ mgmt[d].status = "provisioning" /\ tomb[mgmt[d].job].state = "terminal" =>
              tomb'[mgmt[d].job].state = "terminal"
      <4>1. ASSUME Applies(a), mgmt' = Evidenced(a), NEW d \in Devices, d = tomb[a].device, mgmt[d].status = "provisioning"
            PROVE  FALSE
        BY <1>0, <1>1, <2>2, <4>1, EvidencedTyped
      <4>2. QED
        BY <2>1, <4>1
    <3>3. QED
      BY <1>5, <3>1, <3>2, RowsKeep
  <2>3. CASE Applies(a) /\ mgmt' = Evidenced(a) /\ tomb[a].state = "terminal" /\ tomb'[a].state = "closed"
    <3>1. /\ mgmt' \in [Devices -> ManagementRows \union {NoRow}]
          /\ \A d \in Devices \ {tomb[a].device} : mgmt'[d] = mgmt[d]
          /\ tomb[a].device \in Devices /\ mgmt'[tomb[a].device].job \in {0, a}
          /\ mgmt'[tomb[a].device].status = (IF tomb[a].verdict = "ok" THEN "" ELSE "provision_failed")
      BY <1>0, <1>1, <2>3, EvidencedTyped DEF JobOf
    <3>2. ASSUME NEW d \in Devices
          PROVE  RowIsRight(d)
      <4>1. CASE d = tomb[a].device
        <5>1. a \in Born' /\ tomb'[a].device = d
          BY <1>1, <1>5, <4>1 DEF TombstonesGo, Goes
        <5>2. tomb[a].verdict = "ok" => job'[a].st = "ok"
          BY <1>0, <1>1, <1>5 DEF EvidenceInv, JobsStay
        <5>3. QED
          BY <2>3, <3>1, <4>1, <5>1, <5>2 DEF RowIsRight
      <4>2. CASE d # tomb[a].device
        <5>1. mgmt'[d] = mgmt[d]
          BY <3>1, <4>2
        <5>2. CASE Row(d)
          BY <1>5, <2>1, <4>2, <5>1, <5>2, RowStays
        <5>3. QED
          BY <5>1, <5>2 DEF RowIsRight, Row
      <4>3. QED
        BY <4>1, <4>2
    <3>3. QED
      BY <3>2, RowsAreRight
  <2>4. QED
    BY <1>3, <2>2, <2>3
<1>9. QED
  BY <1>5, <1>7, <1>8 DEF ProvisioningInv


\* Past the row a delete removes, the adapter's rows stay; the attempt records what it removed.
LEMMA OffboardMoves ==
    ASSUME ProvisioningInv, NEW s \in Sweepers, Offboard(s)
    PROVE  /\ SweepGoes(s) /\ UNCHANGED mgmt /\ sw[s].run.pc = "deleting"
           /\ sw'[s].run.pc \in {"idle", "closing"}
           /\ UNCHANGED tomb \/ Moves(sw[s].run.att)
           /\ UNCHANGED node \/ (sw[s].run.node # 0 /\ node' = Without(sw[s].run.node))
<1>. DEFINE a == sw[s].run.att
            id == sw[s].run.node
<1>0. TypeOK /\ BornInv /\ NodeInv
  BY DEF ProvisioningInv
<1>1. sw[s].run.pc = "deleting" /\ UNCHANGED <<mgmt, job, late, serial, ob, moves>>
  BY DEF Offboard
<1>2. /\ a \in Born /\ a \in Attempts /\ id \in Ids /\ (id # 0 => IsOf(id, NameOf(a)))
      /\ tomb \in [Attempts -> Tombstones] /\ tomb[a].state = "terminal"
  BY <1>0, <1>1, BornTyped, RunsTyped DEF BornInv, NodeInv, Runs, TypeOK, ProvisioningInv, LockInv, Offboarding
<1>3. faults' \in 0..MaxFaults
  BY <1>0, FailsTyped DEF Offboard, TypeOK
<1>4. UNCHANGED node \/ (id # 0 /\ node' = Without(id))
  BY DEF Offboard
<1>5. NodesMove /\ node' \in [Names -> Nodes \union {NoRow}]
  BY <1>0, <1>1, <1>4, NodesStay, WithoutMoves DEF TypeOK
<1>6. UNCHANGED tomb \/ Moves(a)
  <2>. DEFINE r == [tomb[a] EXCEPT !.state = "offboarded", !.node = id]
  <2>1. CASE tomb' = [tomb EXCEPT ![a] = r]
    <3>1. /\ r \in Tombstones /\ r.state = "offboarded" /\ r.node = id
          /\ r.device = tomb[a].device /\ r.job = tomb[a].job /\ r.verdict = tomb[a].verdict
      BY ZenonT(40), <1>2 DEF Tombstones
    <3>. HIDE DEF r
    <3>2. tomb'[a] = r
      BY <1>2, <2>1
    <3>3. QED
      BY <1>2, <2>1, <3>1, <3>2 DEF Moves, Goes
  <2>2. QED
    BY <2>1 DEF Offboard
<1>7. /\ sw' \in [Sweepers -> [run : Runs, inv : Inventories]]
      /\ \A t \in Sweepers \ {s} : sw'[t] = sw[t]
      /\ sw'[s].run.node = 0 /\ sw'[s].run.pc \in {"idle", "closing"}
      /\ sw'[s].run.pc # "idle" => sw'[s].run.att = a
      /\ sw'[s].inv \in {sw[s].inv, NoInventory}
  <2>1. CASE EndSweep(s)
    <3>1. sw'[s].run = NothingSwept
      BY <1>0, <2>1 DEF EndSweep, TypeOK
    <3>2. QED
      BY <1>0, <2>1, <3>1, SweepGoesOn, RunsTyped
  <2>2. CASE Sweeping(s, "closing")
    <3>1. sw'[s].run.pc = "closing"
      BY <1>0, <2>2 DEF Sweeping, NothingSwept, TypeOK
    <3>2. QED
      BY <1>0, <2>2, <3>1, SweepGoesOn
  <2>3. QED
    BY <2>1, <2>2 DEF Offboard
<1>8. \A n \in Names : sw'[s].inv.nodes[n] # NoRow => IsOf(sw'[s].inv.nodes[n].id, n)
  BY <1>0, <1>7, RunsTyped DEF NodeInv
<1>9. SweepGoes(s)
  BY <1>0, <1>1, <1>2, <1>3, <1>5, <1>6, <1>7, <1>8 DEF SweepGoes, TypeOK
<1>10. QED
  BY <1>1, <1>4, <1>6, <1>7, <1>9

\* a sweep that dies or gives up, which forgets what it held
LEMMA AbandonMoves ==
    ASSUME ProvisioningInv, NEW s \in Sweepers, Abandon(s)
    PROVE  SweepGoes(s) /\ UNCHANGED <<tomb, mgmt, node>> /\ sw'[s].run.pc = "idle"
<1>0. TypeOK /\ NodeInv
  BY DEF ProvisioningInv
<1>1. /\ UNCHANGED <<tomb, mgmt, adapter, ob, moves>>
      /\ sw' = [sw EXCEPT ![s] = [run |-> NothingSwept, inv |-> NoInventory]]
  BY DEF Abandon
<1>2. faults' \in 0..MaxFaults
  BY <1>0, FailsTyped DEF Abandon, TypeOK
<1>3. /\ sw' \in [Sweepers -> [run : Runs, inv : Inventories]]
      /\ \A t \in Sweepers \ {s} : sw'[t] = sw[t]
      /\ sw'[s].run.node = 0 /\ sw'[s].run.pc = "idle"
      /\ \A n \in Names : sw'[s].inv.nodes[n] = NoRow
  BY <1>0, <1>1, SweepTyped, RunsTyped
<1>4. NodesMove
  BY <1>0, <1>1, NodesStay DEF adapter
<1>5. QED
  BY <1>0, <1>1, <1>2, <1>3, <1>4 DEF SweepGoes, adapter, TypeOK

\* A step that tells no row anything and closes no attempt a row waits for.
LEMMA QuietSweepRows ==
    ASSUME ProvisioningInv, NEW s \in Sweepers, SweepGoes(s), UNCHANGED mgmt,
           UNCHANGED tomb \/ (s \in Offboarding /\ Moves(sw[s].run.att))
    PROVE  RowInv' /\ ProvisioningRowIsTracked' /\ ReadyRowWasProvisioned'
<1>0. TypeOK /\ BornInv /\ LockInv /\ RowInv /\ ProvisioningRowIsTracked
  BY DEF ProvisioningInv
<1>1. TombstonesGo /\ JobsStay
  BY SweepKeeps
<1>2. RowsStay
  BY DEF RowsStay, Row
<1>3. ASSUME NEW d \in Devices, Row(d), mgmt[d].status = "provisioning"
      PROVE  tomb'[mgmt[d].job] = tomb[mgmt[d].job]
  <2>1. mgmt[d].job \in Born
    BY <1>0, <1>3 DEF ProvisioningRowIsTracked
  <2>2. mgmt[d].job # 0 /\ mgmt[d].job \in Attempts
    BY <2>1, Bounds DEF Born, Attempts
  <2>3. tomb[mgmt[d].job].device = d
    BY <1>0, <1>3, <2>2 DEF RowInv
  <2>4. CASE s \in Offboarding /\ Moves(sw[s].run.att)
    <3>1. sw[s].run.att \in Born /\ ~Row(tomb[sw[s].run.att].device)
      BY <1>0, <2>4 DEF BornInv, LockInv, Offboarding
    <3>2. mgmt[d].job # sw[s].run.att
      BY <1>3, <2>3, <3>1
    <3>3. QED
      BY <1>0, <2>2, <2>4, <3>1, <3>2, MovesTyped
  <2>5. QED
    BY <2>4
<1>4. QED
  BY <1>1, <1>2, <1>3, RowsKeep

LEMMA OffboardKeeps ==
    ASSUME ProvisioningInv, NEW s \in Sweepers, Offboard(s) \/ Abandon(s)
    PROVE  ProvisioningInv'
<1>0. TypeOK /\ BornInv /\ LockInv
  BY DEF ProvisioningInv
<1>1. /\ SweepGoes(s) /\ UNCHANGED mgmt /\ sw'[s].run.pc \in {"idle", "closing"}
      /\ UNCHANGED tomb \/ (s \in Offboarding /\ Moves(sw[s].run.att))
  BY OffboardMoves, AbandonMoves DEF Offboarding
<1>2. TypeOK' /\ BornInv' /\ TombstonesGo /\ JobsStay /\ EvidenceInv' /\ NodeInv'
  BY <1>1, SweepKeeps
<1>3. LockInv'
  <2>1. UNCHANGED ob /\ \A t \in Sweepers \ {s} : sw'[t] = sw[t]
    BY <1>1 DEF SweepGoes
  <2>2. /\ Posting' = Posting /\ Offboarding' \subseteq Offboarding \ {s}
        /\ \A t \in Offboarding' : sw'[t] = sw[t]
    BY <1>1, <2>1 DEF Posting, Offboarding
  <2>3. \A t \in Offboarding : tomb[sw[t].run.att].state = "terminal" /\ sw[t].run.att \in Attempts
    BY <1>0, BornTyped DEF LockInv, BornInv, Offboarding
  <2>4. \A o \in Posting : tomb[ob[o].att].state = "open" /\ ob[o].att \in Attempts
    BY <1>0, BornTyped DEF LockInv, BornInv, Posting
  <2>5. CASE UNCHANGED tomb
    <3>1. HoldersStay
      BY <1>1, <2>1, <2>2, <2>3, <2>4, <2>5 DEF HoldersStay, Row
    <3>2. QED
      BY <1>2, <3>1, LocksStay
  <2>6. CASE s \in Offboarding /\ Moves(sw[s].run.att)
    <3>1. sw[s].run.att \in Born
      BY <1>0, <2>6 DEF BornInv, Offboarding
    <3>2. \A x \in Attempts \ {sw[s].run.att} : tomb'[x] = tomb[x]
      BY <1>0, <2>6, <3>1, MovesTyped
    <3>3. \A t \in Offboarding \ {s} : sw[t].run.att # sw[s].run.att
      BY <1>0, <2>6 DEF LockInv
    <3>4. \A o \in Posting : ob[o].att # sw[s].run.att
      BY <2>3, <2>4, <2>6
    <3>5. HoldersStay
      BY <1>1, <2>1, <2>2, <2>3, <2>4, <3>2, <3>3, <3>4 DEF HoldersStay, Row
    <3>6. QED
      BY <1>2, <3>5, LocksStay
  <2>7. QED
    BY <1>1, <2>5, <2>6
<1>4. RowInv' /\ ProvisioningRowIsTracked' /\ ReadyRowWasProvisioned'
  BY <1>1, QuietSweepRows
<1>5. QED
  BY <1>2, <1>3, <1>4 DEF ProvisioningInv


\* The start of an offboard takes two locks that nobody holds, over nothing of the owner's.
LEMMA LooksKeep ==
    ASSUME ProvisioningInv, NEW s \in Sweepers, NEW a \in Attempts, Complete(s, a), sw'[s].run.pc = "looking"
    PROVE  ProvisioningInv'
<1>0. TypeOK /\ BornInv /\ LockInv /\ NodeInv
  BY DEF ProvisioningInv
<1>1. /\ a \in Born /\ a \notin Held /\ tomb[a].state = "terminal"
      /\ ~PartialMatch(a) /\ ~AnotherOwns(a)
      /\ UNCHANGED <<tomb, mgmt, adapter, ob, moves>> /\ faults' \in 0..MaxFaults
      /\ sw' \in [Sweepers -> [run : Runs, inv : Inventories]]
      /\ \A t \in Sweepers \ {s} : sw'[t] = sw[t]
      /\ sw'[s].run.att = a /\ sw'[s].run.node = tomb[a].node
      /\ sw'[s].inv \in {sw[s].inv, NoInventory}
  BY LooksMoves
<1>2. SweepGoes(s)
  <2>1. \A n \in Names : sw'[s].inv.nodes[n] # NoRow => IsOf(sw'[s].inv.nodes[n].id, n)
    BY <1>0, <1>1, RunsTyped DEF NodeInv
  <2>2. NodesMove
    BY <1>0, <1>1, NodesStay DEF adapter
  <2>3. sw'[s].run.node # 0 => IsOf(sw'[s].run.node, NameOf(sw'[s].run.att))
    BY <1>0, <1>1 DEF NodeInv
  <2>4. QED
    BY <1>0, <1>1, <2>1, <2>2, <2>3 DEF SweepGoes, adapter, TypeOK
<1>3. TypeOK' /\ BornInv' /\ TombstonesGo /\ JobsStay /\ EvidenceInv' /\ NodeInv'
  BY <1>2, SweepKeeps
<1>4. LockInv'
  <2>1. Posting' = Posting /\ Offboarding' = Offboarding \union {s}
    BY <1>1 DEF Posting, Offboarding
  <2>2. \A t \in Offboarding : sw[t].run.att # a
    BY <1>0, <1>1, HoldersHold
  <2>3. tomb[a].device \in Devices /\ ~Row(tomb[a].device)
    BY <1>0, <1>1, BornTyped DEF PartialMatch
  <2>4. \A x \in Open : NameOf(x) # NameOf(a)
    BY <1>1 DEF AnotherOwns, Open
  <2>5. \A t \in Offboarding : t # s => sw'[t].run.att = sw[t].run.att
    BY <1>1 DEF Offboarding
  <2>6. \A t, u \in Offboarding' : sw'[t].run.att = sw'[u].run.att => t = u
    BY <1>0, <1>1, <2>1, <2>2, <2>5 DEF LockInv
  <2>7. \A t \in Offboarding' : LET x == sw'[t].run.att IN
            /\ tomb[x].state = "terminal" /\ ~Row(tomb[x].device)
            /\ \A y \in Open : NameOf(y) # NameOf(x)
    BY <1>0, <1>1, <2>1, <2>3, <2>4, <2>5 DEF LockInv
  <2>8. QED
    BY SMTT(20), <1>0, <1>1, <2>1, <2>6, <2>7 DEF LockInv, Row, Open, Born, NameOf
<1>5. RowInv' /\ ProvisioningRowIsTracked' /\ ReadyRowWasProvisioned'
  BY <1>1, <1>2, QuietSweepRows
<1>6. QED
  BY <1>3, <1>4, <1>5 DEF ProvisioningInv

\* What a sweep reads without taking a lock.
LEMMA ReadsKeep ==
    ASSUME ProvisioningInv, NEW s \in Sweepers, Lookup(s) \/ \E a \in Attempts : Poll(s, a)
    PROVE  ProvisioningInv'
<1>0. TypeOK /\ BornInv /\ LockInv /\ NodeInv
  BY DEF ProvisioningInv
<1>1. /\ SweepGoes(s) /\ UNCHANGED <<tomb, mgmt, ob>>
      /\ \/ sw[s].run.pc = "looking" /\ sw'[s].run.pc = "deleting" /\ sw'[s].run.att = sw[s].run.att
         \/ sw[s].run.pc = "idle" /\ sw'[s].run.pc = "polled"
  <2>1. ASSUME NEW a \in Attempts, Poll(s, a)
        PROVE  SweepGoes(s) /\ UNCHANGED <<tomb, mgmt, ob>> /\ sw[s].run.pc = "idle" /\ sw'[s].run.pc = "polled"
    <3>1. /\ a \in Born /\ UNCHANGED <<tomb, mgmt, adapter, ob, moves>> /\ faults' \in 0..MaxFaults
          /\ sw' \in [Sweepers -> [run : Runs, inv : Inventories]]
          /\ \A t \in Sweepers \ {s} : sw'[t] = sw[t]
          /\ sw[s].run.pc = "idle" /\ sw'[s].run.pc = "polled" /\ sw'[s].run.att = a
          /\ sw'[s].run.st = job[a].st /\ sw'[s].run.node = Named(a)
          /\ sw'[s].inv \in {sw[s].inv, NoInventory}
      BY <2>1, PollMoves
    <3>2. \A n \in Names : sw'[s].inv.nodes[n] # NoRow => IsOf(sw'[s].inv.nodes[n].id, n)
      BY <1>0, <3>1, RunsTyped DEF NodeInv
    <3>3. sw'[s].run.node # 0 => IsOf(sw'[s].run.node, NameOf(sw'[s].run.att))
      BY <1>0, <3>1 DEF NodeInv, Named
    <3>4. NodesMove
      BY <1>0, <3>1, NodesStay DEF adapter
    <3>5. QED
      BY <1>0, <3>1, <3>2, <3>3, <3>4 DEF SweepGoes, adapter, TypeOK
  <2>2. CASE Lookup(s)
    <3>1. /\ UNCHANGED <<tomb, mgmt, adapter, ob, counts>>
          /\ sw' \in [Sweepers -> [run : Runs, inv : Inventories]]
          /\ \A t \in Sweepers \ {s} : sw'[t] = sw[t]
          /\ sw[s].run.pc = "looking" /\ sw'[s].run.pc = "deleting"
          /\ sw'[s].run.att = sw[s].run.att
          /\ sw'[s].run.node # 0 => IsOf(sw'[s].run.node, NameOf(sw[s].run.att))
          /\ \A n \in Names : sw'[s].inv.nodes[n] # NoRow => IsOf(sw'[s].inv.nodes[n].id, n)
      BY <2>2, LookupMoves
    <3>2. sw[s].run.att \in Born
      BY <1>0, <3>1 DEF BornInv
    <3>3. NodesMove
      BY <1>0, <3>1, NodesStay DEF adapter
    <3>4. QED
      BY <1>0, <3>1, <3>2, <3>3 DEF SweepGoes, adapter, counts, TypeOK
  <2>3. QED
    BY <2>1, <2>2
<1>2. TypeOK' /\ BornInv' /\ TombstonesGo /\ JobsStay /\ EvidenceInv' /\ NodeInv'
  BY <1>1, SweepKeeps
<1>3. LockInv'
  <2>1. /\ Posting' = Posting /\ Offboarding' = Offboarding
        /\ \A t \in Offboarding : sw'[t].run.att = sw[t].run.att
    BY <1>1 DEF SweepGoes, Posting, Offboarding
  <2>2. HoldersStay
    BY <1>0, <1>1, <2>1 DEF HoldersStay, LockInv, Row
  <2>3. QED
    BY <1>2, <2>2, LocksStay
<1>4. RowInv' /\ ProvisioningRowIsTracked' /\ ReadyRowWasProvisioned'
  BY <1>1, QuietSweepRows
<1>5. QED
  BY <1>2, <1>3, <1>4 DEF ProvisioningInv

LEMMA SweepStepKeeps ==
    ASSUME ProvisioningInv, NEW s \in Sweepers, SweepStep(s)
    PROVE  ProvisioningInv'
<1>1. ASSUME NEW a \in Attempts, Complete(s, a)
      PROVE  ProvisioningInv'
  BY <1>1, RecordsKeep, LooksKeep DEF Records
<1>2. ASSUME NEW a \in Attempts, CloseOffboarded(s, a)
      PROVE  ProvisioningInv'
  BY <1>2, RecordsKeep DEF Records
<1>3. CASE RecordPoll(s) \/ AgeOut(s) \/ FindClosed(s)
  <2>1. sw[s].run.att \in Attempts
    BY <1>3, BornTyped DEF RecordPoll, AgeOut, FindClosed, ProvisioningInv, BornInv
  <2>2. QED
    BY <1>3, <2>1, RecordsKeep DEF Records
<1>4. QED
  BY <1>1, <1>2, <1>3, ReadsKeep, OffboardKeeps DEF SweepStep


\* A link takes over the adapter's row of the name, or makes it.
LEMMA LinkMoves ==
    ASSUME ProvisioningInv, NEW d \in Devices, LinkRow(d)
    PROVE  /\ mgmt' \in [Devices -> ManagementRows \union {NoRow}]
           /\ NodesMove /\ node' \in [Names -> Nodes \union {NoRow}]
           /\ Row(d) /\ \A e \in Devices \ {d} : mgmt'[e] = mgmt[e]
           /\ mgmt'[d].name = mgmt[d].name /\ mgmt'[d].job = mgmt[d].job /\ mgmt'[d].status = mgmt[d].status
<1>. DEFINE n == mgmt[d].name
            id == IF node[n] = NoRow THEN serial' ELSE node[n].id
            r == [id |-> id, owner |-> d, by |-> 0]
<1>1. /\ mgmt \in [Devices -> ManagementRows \union {NoRow}] /\ node \in [Names -> Nodes \union {NoRow}]
      /\ serial \in Nat /\ mgmt[d] # NoRow
  BY DEF ProvisioningInv, TypeOK, Ids, LinkRow, Row
<1>2. mgmt[d] \in ManagementRows /\ n \in Names
  BY <1>1 DEF ManagementRows
<1>3. /\ serial' = IF node[n] = NoRow THEN serial + 1 ELSE serial
      /\ node' = [node EXCEPT ![n] = r]
      /\ mgmt' = [mgmt EXCEPT ![d].node = node'[n].id]
  BY <1>1, <1>2 DEF LinkRow
<1>4. id \in Nat /\ serial' \in Nat /\ serial' >= serial
      /\ \/ node[n] # NoRow /\ id = node[n].id
         \/ serial' = serial + 1 /\ id = serial + 1
  BY <1>1, <1>2, <1>3 DEF Nodes, Ids
<1>. HIDE DEF id
<1>5. r \in Nodes /\ r # NoRow /\ r.id = id
  BY <1>4, NoRowAssumption, Bounds DEF Nodes, Ids
<1>. HIDE DEF r
<1>6. /\ node' \in [Names -> Nodes \union {NoRow}] /\ node'[n] = r
      /\ \A m \in Names \ {n} : node'[m] = node[m]
  BY <1>1, <1>2, <1>3, <1>5
<1>7. NodesMove
  BY <1>4, <1>5, <1>6 DEF NodesMove
<1>8. mgmt' = [mgmt EXCEPT ![d] = [mgmt[d] EXCEPT !.node = id]]
  BY <1>3, <1>5, <1>6
<1>9. [mgmt[d] EXCEPT !.node = id] \in ManagementRows
  BY <1>2, <1>4 DEF ManagementRows, Ids
<1>10. QED
  BY <1>1, <1>2, <1>6, <1>7, <1>8, <1>9 DEF Row, ManagementRows

LEMMA RowStepKeeps ==
    ASSUME ProvisioningInv, NEW d \in Devices,
           LinkRow(d) \/ Unmanage(d) \/ \E n \in Names : ManageExisting(d, n)
    PROVE  ProvisioningInv'
<1>0. /\ TypeOK /\ BornInv /\ LockInv /\ EvidenceInv /\ NodeInv /\ RowInv
      /\ ProvisioningRowIsTracked /\ ReadyRowWasProvisioned
  BY DEF ProvisioningInv
<1>1. UNCHANGED <<tomb, job, late, ob, sw, faults>>
  BY DEF LinkRow, Unmanage, ManageExisting, adapter, counts
<1>2. /\ mgmt' \in [Devices -> ManagementRows \union {NoRow}] /\ moves' \in 0..MaxMoves
      /\ NodesMove /\ node' \in [Names -> Nodes \union {NoRow}]
      /\ RowsStay
      /\ \A e \in Devices : mgmt'[e] # NoRow => Row(e) \/ ~IntentHeld(e)
  <2>0. mgmt \in [Devices -> ManagementRows \union {NoRow}] /\ moves \in 0..MaxMoves /\ MaxMoves \in Nat
    BY <1>0, Bounds DEF TypeOK
  <2>1. CASE LinkRow(d)
    <3>1. moves' = moves
      BY <2>1 DEF LinkRow, counts
    <3>2. /\ mgmt' \in [Devices -> ManagementRows \union {NoRow}]
          /\ NodesMove /\ node' \in [Names -> Nodes \union {NoRow}]
          /\ Row(d) /\ \A e \in Devices \ {d} : mgmt'[e] = mgmt[e]
          /\ mgmt'[d].name = mgmt[d].name /\ mgmt'[d].job = mgmt[d].job /\ mgmt'[d].status = mgmt[d].status
      BY <2>1, LinkMoves
    <3>3. RowsStay
      BY <3>2 DEF RowsStay, Row
    <3>4. QED
      BY <2>0, <3>1, <3>2, <3>3 DEF Row
  <2>2. CASE Unmanage(d)
    <3>1. /\ mgmt' = [mgmt EXCEPT ![d] = NoRow] /\ moves' = moves + 1 /\ moves < MaxMoves
          /\ UNCHANGED serial /\ (UNCHANGED node \/ node' = Without(mgmt[d].node))
      BY <2>2 DEF Unmanage
    <3>2. NodesMove /\ node' \in [Names -> Nodes \union {NoRow}]
      BY <1>0, <3>1, NodesStay, WithoutMoves DEF TypeOK
    <3>3. \A e \in Devices : mgmt'[e] # NoRow => mgmt'[e] = mgmt[e]
      BY <2>0, <3>1
    <3>4. RowsStay
      BY <3>3 DEF RowsStay, Row
    <3>5. QED
      BY <2>0, <3>1, <3>2, <3>3, <3>4 DEF Row
  <2>3. ASSUME NEW n \in Names, ManageExisting(d, n)
        PROVE  /\ mgmt' \in [Devices -> ManagementRows \union {NoRow}] /\ moves' \in 0..MaxMoves
               /\ NodesMove /\ node' \in [Names -> Nodes \union {NoRow}]
               /\ RowsStay
               /\ \A e \in Devices : mgmt'[e] # NoRow => Row(e) \/ ~IntentHeld(e)
    <3>. DEFINE r == [name |-> n, job |-> 0, status |-> "", node |-> 0]
    <3>1. /\ mgmt' = [mgmt EXCEPT ![d] = r]
          /\ moves' = moves + 1 /\ moves < MaxMoves /\ ~IntentHeld(d) /\ UNCHANGED <<node, serial>>
      BY <2>3 DEF ManageExisting, adapter
    <3>2. r \in ManagementRows /\ r.job = 0 /\ r.status = ""
      BY Bounds DEF ManagementRows, Ids
    <3>. HIDE DEF r
    <3>3. NodesMove /\ node' \in [Names -> Nodes \union {NoRow}]
      BY <1>0, <3>1, NodesStay DEF TypeOK
    <3>4. mgmt'[d] = r /\ \A e \in Devices \ {d} : mgmt'[e] = mgmt[e]
      BY <2>0, <3>1
    <3>5. RowsStay
      BY <3>2, <3>4 DEF RowsStay, Row
    <3>6. \A e \in Devices : mgmt'[e] # NoRow => Row(e) \/ ~IntentHeld(e)
      BY <3>1, <3>4 DEF Row
    <3>7. moves' \in 0..MaxMoves
      BY <2>0, <3>1
    <3>8. mgmt' \in [Devices -> ManagementRows \union {NoRow}]
      BY <2>0, <3>1, <3>2
    <3>9. QED
      BY <3>3, <3>5, <3>6, <3>7, <3>8
  <2>4. QED
    BY <2>1, <2>2, <2>3
<1>3. TombstonesGo /\ JobsStay
  BY <1>0, <1>1, TombstonesMove DEF JobsStay
<1>4. TypeOK'
  BY <1>0, <1>1, <1>2 DEF TypeOK, NodesMove, Ids
<1>5. BornInv'
  BY <1>0, <1>1 DEF BornInv, Born
<1>6. LockInv'
  <2>1. HoldersStay
    BY <1>0, <1>1, <1>2 DEF HoldersStay, LockInv, Posting, Offboarding
  <2>2. QED
    BY <1>3, <2>1, LocksStay
<1>7. EvidenceInv'
  BY <1>0, <1>1 DEF EvidenceInv, Born
<1>8. NodeInv'
  BY <1>0, <1>1, <1>2, <1>3, NodesKeep DEF NodeInv, TypeOK
<1>9. RowInv' /\ ProvisioningRowIsTracked' /\ ReadyRowWasProvisioned'
  BY <1>1, <1>2, <1>3, RowsKeep
<1>10. QED
  BY <1>4, <1>5, <1>6, <1>7, <1>8, <1>9 DEF ProvisioningInv

-----------------------------------------------------------------------------
(* The theorems                                                            *)

LEMMA ProvisioningBegins == Init => ProvisioningInv
<1>1. SUFFICES ASSUME Init PROVE ProvisioningInv
  OBVIOUS
<1>2. /\ \A a \in Attempts : tomb[a] = Unborn /\ job[a] = [st |-> "absent", node |-> 0]
      /\ \A d \in Devices : mgmt[d] = NoRow
      /\ \A n \in Names : node[n] = NoRow
      /\ \A o \in Operators : ob[o] = NobodyPosts
      /\ \A s \in Sweepers : sw[s].run = NothingSwept /\ sw[s].inv = NoInventory
  <2>1. tomb = [a \in Attempts |-> Unborn] /\ job = [a \in Attempts |-> [st |-> "absent", node |-> 0]]
    BY <1>1 DEF Init
  <2>2. mgmt = [d \in Devices |-> NoRow] /\ node = [n \in Names |-> NoRow] /\ ob = [o \in Operators |-> NobodyPosts]
    BY <1>1 DEF Init
  <2>3. sw = [s \in Sweepers |-> [run |-> NothingSwept, inv |-> NoInventory]]
    BY <1>1 DEF Init
  <2>4. QED
    BY <2>1, <2>2, <2>3
<1>3. TypeOK
  <2>1. Unborn \in Tombstones /\ [st |-> "absent", node |-> 0] \in Receipts
    BY DEF Unborn, Tombstones, Receipts, Ids
  <2>2. NobodyPosts \in Requests /\ NothingSwept \in Runs /\ NoInventory \in Inventories
    BY Bounds DEF NobodyPosts, Requests, NothingSwept, Runs, NoInventory, Inventories, Ids
  <2>3. /\ tomb \in [Attempts -> Tombstones] /\ mgmt \in [Devices -> ManagementRows \union {NoRow}]
        /\ job \in [Attempts -> Receipts] /\ node \in [Names -> Nodes \union {NoRow}]
    BY <1>1, <2>1 DEF Init
  <2>4. ob \in [Operators -> Requests] /\ sw \in [Sweepers -> [run : Runs, inv : Inventories]]
    BY <1>1, <2>2 DEF Init
  <2>5. late \subseteq Attempts /\ moves \in 0..MaxMoves /\ serial \in Ids /\ faults \in 0..MaxFaults
    BY <1>1, Bounds DEF Init, Ids
  <2>6. QED
    BY <2>3, <2>4, <2>5 DEF TypeOK
<1>4. Born = {}
  BY <1>2 DEF Born, Unborn
<1>5. BornInv
  <2>1. {} = 1..0 /\ 0 \in 0..MaxAttempts
    BY Bounds
  <2>2. QED
    BY <1>1, <1>2, <1>4, <2>1 DEF Init, BornInv, NobodyPosts, NothingSwept
<1>6. Posting = {} /\ Offboarding = {}
  BY <1>2 DEF Posting, Offboarding, NobodyPosts, NothingSwept
<1>7. LockInv /\ EvidenceInv /\ NodeInv
  BY <1>2, <1>4, <1>6 DEF LockInv, EvidenceInv, NodeInv, NothingSwept, NoInventory
<1>8. RowInv /\ ProvisioningRowIsTracked /\ ReadyRowWasProvisioned
  BY <1>2 DEF RowInv, ProvisioningRowIsTracked, ReadyRowWasProvisioned, Row
<1>9. QED
  BY <1>3, <1>5, <1>7, <1>8 DEF ProvisioningInv

\* The invariant holds of every instance: any devices, workers, sweeps and attempts.
THEOREM ProvisioningInvariant == Spec => []ProvisioningInv
<1>1. ProvisioningInv /\ [Next]_vars => ProvisioningInv'
  <2>1. SUFFICES ASSUME ProvisioningInv, [Next]_vars PROVE ProvisioningInv'
    OBVIOUS
  <2>2. ASSUME NEW o \in Operators, OnboardStep(o)
        PROVE  ProvisioningInv'
    BY <2>1, <2>2, ClaimKeeps, OnboardKeeps DEF OnboardStep
  <2>3. CASE \E s \in Sweepers : SweepStep(s)
    BY <2>1, <2>3, SweepStepKeeps
  <2>4. CASE \E a \in Attempts : LateRequestLands(a) \/ JobBuilds(a) \/ JobEnds(a) \/ Callback(a)
    BY <2>1, <2>4, ServedKeeps
  <2>5. CASE \E d \in Devices : LinkRow(d) \/ Unmanage(d) \/ \E n \in Names : ManageExisting(d, n)
    BY <2>1, <2>5, RowStepKeeps
  <2>6. CASE UNCHANGED vars
    <3>1. UNCHANGED <<tomb, mgmt, job, node, late, ob, sw, moves, serial, faults>>
      BY <2>6 DEF vars
    <3>2. TypeOK' /\ BornInv'
      BY <2>1, <3>1 DEF ProvisioningInv, TypeOK, BornInv, Born
    <3>3. LockInv'
      BY <2>1, <3>1 DEF ProvisioningInv, LockInv, Posting, Offboarding, Row, Open, Born, NameOf
    <3>4. EvidenceInv' /\ NodeInv'
      BY <2>1, <3>1 DEF ProvisioningInv, EvidenceInv, NodeInv, IsOf, Born, NameOf
    <3>5. RowInv' /\ ProvisioningRowIsTracked' /\ ReadyRowWasProvisioned'
      BY <2>1, <3>1 DEF ProvisioningInv, RowInv, ProvisioningRowIsTracked, ReadyRowWasProvisioned, Row, Born,
         Applies, JobOf, Tracks, NameOf
    <3>6. QED
      BY <3>2, <3>3, <3>4, <3>5 DEF ProvisioningInv
  <2>7. QED
    BY <2>1, <2>2, <2>3, <2>4, <2>5, <2>6 DEF Next
<1>2. QED
  BY <1>1, ProvisioningBegins, PTL DEF Spec

\* Every variable keeps its type (the tombstones, the management rows, the adapter's receipts).
THEOREM ProvisioningTypes == Spec => []TypeOK
<1>1. ProvisioningInv => TypeOK
  BY DEF ProvisioningInv
<1>2. QED
  BY <1>1, ProvisioningInvariant, PTL

\* A row that waits for its job has an attempt that will tell it (advance_provisioning).
THEOREM WaitingRowsAreTracked == Spec => []ProvisioningRowIsTracked
<1>1. ProvisioningInv => ProvisioningRowIsTracked
  BY DEF ProvisioningInv
<1>2. QED
  BY <1>1, ProvisioningInvariant, PTL


\* A sweep works on its own state, and leaves a delete only by its end or by giving up.
LEMMA SweepsAlone ==
    ASSUME ProvisioningInv, NEW t \in Sweepers, SweepStep(t)
    PROVE  /\ \A s \in Sweepers \ {t} : sw'[s] = sw[s]
           /\ sw[t].run.pc = "deleting" => Offboard(t) \/ Abandon(t)
<1>0. TypeOK
  BY DEF ProvisioningInv
<1>1. sw[t].run.pc = "deleting" => Offboard(t) \/ Abandon(t)
  BY DEF SweepStep, Poll, Complete, CloseOffboarded, RecordPoll, AgeOut, Lookup, FindClosed
<1>2. \E v : sw' = [sw EXCEPT ![t] = v]
  <2>1. EndSweep(t) => \E v : sw' = [sw EXCEPT ![t] = v]
    BY DEF EndSweep
  <2>2. ASSUME NEW pc, Sweeping(t, pc)
        PROVE  \E v : sw' = [sw EXCEPT ![t] = v]
    BY <2>2 DEF Sweeping
  <2>3. Abandon(t) \/ Lookup(t) => \E v : sw' = [sw EXCEPT ![t] = v]
    BY DEF Abandon, Lookup
  <2>4. ASSUME NEW a \in Attempts, Poll(t, a) \/ Complete(t, a)
        PROVE  \E v : sw' = [sw EXCEPT ![t] = v]
    BY <2>1, <2>4 DEF Poll, Complete
  <2>5. QED
    BY <2>1, <2>2, <2>3, <2>4 DEF SweepStep, CloseOffboarded, RecordPoll, AgeOut, Offboard, FindClosed
<1>3. QED
  BY <1>0, <1>1, <1>2 DEF TypeOK

\* What a delete removes is the row of the attempt's own name, and neither the device's
\* management row nor an attempt still being made has a claim on it (_complete_orphaned).
THEOREM SweepsSpareTheOwner == Spec => SweepSparesTheOwner
<1>. DEFINE Spares ==
        \A s \in Sweepers, n \in Names :
          sw[s].run.pc = "deleting" /\ sw'[s].run.pc # "deleting" /\ node[n] # node'[n] =>
              /\ ~\E d \in Devices : Row(d) /\ mgmt[d].name = n /\ d = tomb[sw[s].run.att].device
              /\ ~\E x \in Open : NameOf(x) = n
<1>1. ProvisioningInv /\ [Next]_vars => [Spares]_vars
  <2>1. SUFFICES ASSUME ProvisioningInv, Next, NEW s \in Sweepers, NEW n \in Names,
                        sw[s].run.pc = "deleting", sw'[s].run.pc # "deleting", node[n] # node'[n]
                 PROVE  /\ ~\E d \in Devices : Row(d) /\ mgmt[d].name = n /\ d = tomb[sw[s].run.att].device
                        /\ ~\E x \in Open : NameOf(x) = n
    OBVIOUS
  <2>2. PICK t \in Sweepers : SweepStep(t)
    <3>1. sw' # sw
      BY <2>1
    <3>2. QED
      BY <2>1, <3>1 DEF Next, OnboardStep, ClaimAttempt, SubmitClaim, Post, AdmitAttempt, OperatorDies,
         LateRequestLands, JobBuilds, JobEnds, Callback, LinkRow, Unmanage, ManageExisting
  <2>3. Offboard(s)
    <3>1. t = s
      BY <2>1, <2>2, SweepsAlone
    <3>2. ~Abandon(s)
      BY <2>1 DEF Abandon, adapter
    <3>3. QED
      BY <2>1, <2>2, <3>1, <3>2, SweepsAlone
  <2>4. sw[s].run.node # 0 /\ node' = Without(sw[s].run.node)
    BY <2>1, <2>3, OffboardMoves
  <2>5. node[n] # NoRow /\ node[n].id = sw[s].run.node
    BY <2>1, <2>4 DEF Without
  <2>6. n = NameOf(sw[s].run.att)
    BY <2>1, <2>4, <2>5 DEF ProvisioningInv, NodeInv, IsOf
  <2>7. ~Row(tomb[sw[s].run.att].device) /\ \A x \in Open : NameOf(x) # NameOf(sw[s].run.att)
    BY <2>1 DEF ProvisioningInv, LockInv, Offboarding
  <2>8. QED
    BY <2>6, <2>7
<1>2. QED
  BY <1>1, ProvisioningInvariant, PTL DEF Spec, SweepSparesTheOwner

-----------------------------------------------------------------------------
(* What an offboard leaves behind                                          *)

Final(a) == job[a].st \in {"ok", "bad"}

\* the maker of an adapter row is an attempt of that name, and its receipt names no other row
MadeInv ==
    \A n \in Names : node[n] # NoRow /\ node[n].by # 0 =>
        /\ node[n].by \in Born /\ NameOf(node[n].by) = n
        /\ job[node[n].by].node \in {0, node[n].id}

\* what ended an attempt that was not aged out is the adapter's last word on it
VerdictInv ==
    \A a \in Born : tomb[a].state = "terminal" /\ ~tomb[a].aged =>
        Final(a) /\ tomb[a].node = job[a].node

\* a verdict comes with the end of an attempt, and a failure is the job's or of age
Failure(a) == IF tomb[a].job THEN job[a].st = "bad" \/ tomb[a].aged ELSE tomb[a].aged
JudgedInv ==
    \A a \in Born :
        /\ tomb[a].state = "open" => tomb[a].verdict = "none"
        /\ tomb[a].state = "terminal" => tomb[a].verdict # "none"
        /\ tomb[a].verdict = "bad" => Failure(a)

\* a row that still stands may have found an owner since the inventory was read, and lost none
InventoryInv ==
    \A s \in Sweepers, n \in Names :
        LET row == sw[s].inv.nodes[n]
        IN  sw[s].inv.read /\ row # NoRow /\ node[n] # NoRow /\ row.id = node[n].id =>
                row.owner \in {NoRow, node[n].owner}

\* what a sweep knows of its attempt: the receipt it polled, the row the evidence named, and in
\* the end the row the attempt may have left behind, unless its inventory is older than the row
SweepKnows(s) ==
    LET r == sw[s].run
    IN  /\ r.pc = "polled" /\ r.st \in {"ok", "bad"} =>
              job[r.att].st = r.st /\ job[r.att].node = r.node
        /\ r.pc = "looking" => r.node = tomb[r.att].node
        /\ r.pc = "deleting" /\ ~tomb[r.att].aged =>
              \A n \in Names : Leftover(r.att, n) =>
                  node[n].id = r.node \/ (tomb[r.att].node = 0 /\ Unseen(s, n))

MakerInv == MadeInv /\ VerdictInv /\ JudgedInv /\ InventoryInv /\ \A s \in Sweepers : SweepKnows(s)

\* what a verdict says was so when it was given, and is not said again
Judges(a) ==
    /\ tomb[a].state = "unborn" =>
          tomb'[a].state = "unborn" \/ (tomb'[a].state = "open" /\ tomb'[a].verdict = "none")
    /\ tomb[a].state = "open" =>
          \/ tomb'[a].state \in {"open", "closed"} /\ tomb'[a].verdict = tomb[a].verdict
          \/ /\ tomb'[a].state = "terminal" /\ tomb'[a].verdict \in {"ok", "bad"}
             /\ tomb'[a].verdict = "bad" => tomb'[a].aged \/ (tomb'[a].job /\ job[a].st = "bad")
    /\ tomb[a].state \in {"terminal", "offboarded", "closed"} =>
          /\ tomb'[a].state \in {tomb[a].state, "offboarded", "closed"}
          /\ tomb[a].state = "closed" => tomb'[a].state = "closed"
          /\ tomb'[a].job = tomb[a].job /\ tomb'[a].verdict = tomb[a].verdict /\ tomb'[a].aged = tomb[a].aged

\* an attempt ends by the adapter's word or by its age, and is offboarded by a sweep only
Ends(a) ==
    /\ Judges(a)
    /\ tomb[a].state # "unborn" => tomb'[a].state # "unborn" /\ tomb'[a].device = tomb[a].device
    /\ tomb'[a].state = "terminal" =>
          IF tomb[a].state = "terminal"
          THEN tomb'[a].node = tomb[a].node /\ tomb'[a].aged = tomb[a].aged
          ELSE tomb'[a].aged \/ (Final(a) /\ tomb'[a].node = job[a].node)
    /\ tomb'[a].state = "offboarded" =>
          tomb[a].state = "offboarded" \/ \E s \in Sweepers : Offboard(s) /\ sw[s].run.att = a

LEMMA StillEnds ==
    ASSUME TypeOK, NEW a \in Attempts, tomb'[a] = tomb[a]
    PROVE  Ends(a)
BY DEF Ends, Judges, TypeOK, Tombstones

\* A step that closes a tombstone or notes its job ends nothing.
LEMMA NotesEndNothing ==
    ASSUME TypeOK, NEW x \in Attempts,
           \/ UNCHANGED tomb
           \/ tomb[x].state # "unborn" /\ tomb' = [tomb EXCEPT ![x].state = "closed"]
           \/ /\ tomb[x].state = "open"
              /\ \E j \in BOOLEAN : tomb' = [tomb EXCEPT ![x].job = j]
    PROVE  \A a \in Attempts : Ends(a)
<1>1. tomb \in [Attempts -> Tombstones]
  BY DEF TypeOK
<1>2. ASSUME NEW a \in Attempts
      PROVE  /\ tomb'[a].device = tomb[a].device /\ tomb'[a].node = tomb[a].node
             /\ tomb'[a].aged = tomb[a].aged /\ tomb'[a].verdict = tomb[a].verdict
             /\ tomb'[a].state = tomb[a].state \/ (tomb'[a].state = "closed" /\ tomb[a].state # "unborn")
             /\ tomb'[a].job = tomb[a].job \/ tomb[a].state = "open"
  BY <1>1 DEF Tombstones
<1>3. \A a \in Attempts : tomb[a].state \in {"unborn", "open", "terminal", "offboarded", "closed"}
  BY <1>1 DEF Tombstones
<1>4. QED
  BY <1>2, <1>3 DEF Ends, Judges

\* Nor does the answer that names an open attempt's job.
LEMMA NamedEndsNothing ==
    ASSUME TypeOK, NEW x \in Attempts, tomb' = [tomb EXCEPT ![x].job = @ \/ tomb[x].state = "open"]
    PROVE  \A a \in Attempts : Ends(a)
<1>1. tomb \in [Attempts -> Tombstones] /\ (tomb[x].job \/ tomb[x].state = "open") \in BOOLEAN
  BY DEF TypeOK, Tombstones
<1>2. CASE tomb[x].state = "open"
  BY <1>1, <1>2, NotesEndNothing
<1>3. CASE tomb[x].state # "open"
  <2>1. \A a \in Attempts : tomb'[a] = tomb[a]
    BY <1>1, <1>3 DEF Tombstones
  <2>2. QED
    BY <2>1, StillEnds
<1>4. QED
  BY <1>2, <1>3

\* Nor does the repair of a rejected claim.
LEMMA RejectionsEndNothing ==
    ASSUME TypeOK, NEW x \in Attempts, ReconcileRejected(x)
    PROVE  \A a \in Attempts : Ends(a)
<1>1. \/ UNCHANGED tomb
      \/ tomb[x].state = "open" /\ tomb' = [tomb EXCEPT ![x].state = "closed"]
      \/ tomb' = [tomb EXCEPT ![x].job = @ \/ tomb[x].state = "open"]
  BY DEF ReconcileRejected, CloseRejected
<1>2. QED
  BY <1>1, NotesEndNothing, NamedEndsNothing

\* An attempt past its age ends as aged.
LEMMA AgeEnds ==
    ASSUME TypeOK, NEW x \in Attempts,
           tomb' = [MarkTerminal(x, "bad", 0, FALSE) EXCEPT ![x].aged = @ \/ tomb[x].state = "open"]
    PROVE  \A a \in Attempts : Ends(a)
<1>1. tomb \in [Attempts -> Tombstones]
  BY DEF TypeOK
<1>2. CASE tomb[x].state # "open"
  <2>1. tomb' = [tomb EXCEPT ![x].aged = @ \/ tomb[x].state = "open"]
    BY <1>2 DEF MarkTerminal
  <2>2. (tomb[x].aged \/ tomb[x].state = "open") = tomb[x].aged
    BY <1>1, <1>2 DEF Tombstones
  <2>3. tomb' = [tomb EXCEPT ![x].aged = tomb[x].aged]
    BY <2>1, <2>2
  <2>4. tomb' = tomb
    BY <1>1, <2>3 DEF Tombstones
  <2>5. QED
    BY <2>4, NotesEndNothing
<1>3. CASE tomb[x].state = "open"
  <2>. DEFINE r == [tomb[x] EXCEPT !.state = "terminal", !.verdict = "bad", !.node = 0, !.job = @ \/ FALSE]
              q == [r EXCEPT !.aged = @ \/ tomb[x].state = "open"]
  <2>1. tomb' = [[tomb EXCEPT ![x] = r] EXCEPT ![x].aged = @ \/ tomb[x].state = "open"]
    BY <1>3 DEF MarkTerminal
  <2>2. q.device = tomb[x].device /\ q.state = "terminal" /\ q.aged /\ q.verdict = "bad"
    BY <1>1, <1>3 DEF Tombstones
  <2>3. tomb' = [tomb EXCEPT ![x] = q]
    BY <1>1, <2>1
  <2>. HIDE DEF r, q
  <2>4. tomb'[x] = q /\ \A a \in Attempts \ {x} : tomb'[a] = tomb[a]
    BY <1>1, <2>3
  <2>5. Ends(x)
    BY <1>3, <2>2, <2>4 DEF Ends, Judges
  <2>6. \A a \in Attempts \ {x} : Ends(a)
    BY <2>4, StillEnds
  <2>7. QED
    BY <2>5, <2>6
<1>4. QED
  BY <1>2, <1>3

\* The adapter's word ends an attempt.
LEMMA WordEnds ==
    ASSUME TypeOK, NEW x \in Attempts, NEW st \in {"ok", "bad"}, NEW id,
           tomb' = MarkTerminal(x, st, id, TRUE),
           tomb[x].state = "open" => job[x].st = st /\ id = job[x].node
    PROVE  \A a \in Attempts : Ends(a)
<1>1. tomb \in [Attempts -> Tombstones]
  BY DEF TypeOK
<1>2. CASE tomb[x].state # "open"
  BY <1>2, NotesEndNothing DEF MarkTerminal
<1>3. CASE tomb[x].state = "open"
  <2>. DEFINE r == [tomb[x] EXCEPT !.state = "terminal", !.verdict = st, !.node = id, !.job = @ \/ TRUE]
  <2>1. tomb' = [tomb EXCEPT ![x] = r]
    BY <1>3 DEF MarkTerminal
  <2>2. r.device = tomb[x].device /\ r.state = "terminal" /\ r.node = id /\ r.verdict = st /\ r.job
    BY <1>1 DEF Tombstones
  <2>. HIDE DEF r
  <2>3. tomb'[x] = r /\ \A a \in Attempts \ {x} : tomb'[a] = tomb[a]
    BY <1>1, <2>1
  <2>4. Ends(x)
    BY <1>3, <2>2, <2>3 DEF Ends, Judges, Final
  <2>5. \A a \in Attempts \ {x} : Ends(a)
    BY <2>3, StillEnds
  <2>6. QED
    BY <2>4, <2>5
<1>4. QED
  BY <1>2, <1>3

\* An operator's step ends no attempt.
LEMMA OnboardEndsNothing ==
    ASSUME ProvisioningInv, NEW o \in Operators, OnboardStep(o)
    PROVE  \A a \in Attempts : Ends(a)
<1>0. TypeOK /\ BornInv /\ tomb \in [Attempts -> Tombstones]
  BY DEF ProvisioningInv, TypeOK
<1>1. CASE UNCHANGED tomb
  <2>1. \A a \in Attempts : tomb'[a] = tomb[a]
    BY <1>1
  <2>2. QED
    BY <1>0, <2>1, StillEnds
<1>2. ASSUME NEW d \in Devices, NEW b \in Bodies, ClaimAttempt(o, d, b), tomb' # tomb
      PROVE  \A a \in Attempts : Ends(a)
  <2>. DEFINE new == Cardinality(Born) + 1
              r == [Unborn EXCEPT !.device = d, !.body = b, !.state = "open"]
  <2>1. new \in Attempts /\ tomb' = [tomb EXCEPT ![new] = r]
    BY <1>2 DEF ClaimAttempt
  <2>2. r.state = "open" /\ r.verdict = "none"
    BY DEF Unborn
  <2>3. new \notin Born
    BY <1>0, NextNumber
  <2>. HIDE DEF r, new
  <2>4. tomb[new].state = "unborn"
    BY <2>1, <2>3 DEF Born
  <2>5. /\ tomb'[new].state = "open" /\ tomb'[new].verdict = "none"
        /\ \A a \in Attempts \ {new} : tomb'[a] = tomb[a]
    BY <1>0, <2>1, <2>2
  <2>6. Ends(new)
    BY <2>4, <2>5 DEF Ends, Judges
  <2>7. QED
    BY <1>0, <2>5, <2>6, StillEnds
<1>3. ASSUME tomb' # tomb, SubmitClaim(o) \/ Post(o) \/ AdmitAttempt(o)
      PROVE  \A a \in Attempts : Ends(a)
  <2>. DEFINE x == ob[o].att
  <2>1. x \in Attempts
    BY <1>0, <1>3, BornTyped DEF SubmitClaim, Post, AdmitAttempt, BornInv
  <2>2. CASE ReconcileRejected(x)
    BY <1>0, <2>1, <2>2, RejectionsEndNothing
  <2>3. CASE tomb' = [tomb EXCEPT ![x].job = @ \/ tomb[x].state = "open"]
    BY <1>0, <2>1, <2>3, NamedEndsNothing
  <2>4. SubmitClaim(o) \/ Post(o) => ReconcileRejected(x)
    BY <1>3 DEF SubmitClaim, Post
  <2>5. AdmitAttempt(o) => tomb' = [tomb EXCEPT ![x].job = @ \/ tomb[x].state = "open"]
    BY <1>3 DEF AdmitAttempt
  <2>6. QED
    BY <1>3, <2>2, <2>3, <2>4, <2>5
<1>4. OperatorDies(o) => UNCHANGED tomb
  BY DEF OperatorDies
<1>5. QED
  BY <1>1, <1>2, <1>3, <1>4 DEF OnboardStep

\* A sweep ends an attempt by the receipt it polled or by its age, and offboards its own only.
LEMMA SweepsEnd ==
    ASSUME ProvisioningInv, MakerInv, NEW s \in Sweepers, SweepStep(s)
    PROVE  \A a \in Attempts : Ends(a)
<1>0. TypeOK /\ BornInv /\ tomb \in [Attempts -> Tombstones]
  BY DEF ProvisioningInv, TypeOK
<1>1. ASSUME sw[s].run.pc # "idle"
      PROVE  sw[s].run.att \in Attempts
  BY <1>0, <1>1, BornTyped DEF BornInv
<1>2. CASE UNCHANGED tomb
  <2>1. \A a \in Attempts : tomb'[a] = tomb[a]
    BY <1>2
  <2>2. QED
    BY <1>0, <2>1, StillEnds
<1>3. ASSUME NEW a \in Attempts, tomb' # tomb, Complete(s, a) \/ CloseOffboarded(s, a)
      PROVE  \A x \in Attempts : Ends(x)
  <2>1. tomb' = [tomb EXCEPT ![a].state = "closed"] /\ tomb[a].state # "unborn"
    BY <1>3 DEF Complete, CloseOffboarded
  <2>2. QED
    BY <1>0, <2>1, NotesEndNothing
<1>4. CASE RecordPoll(s)
  <2>. DEFINE r == sw[s].run
              a == r.att
  <2>1. r.pc = "polled" /\ a \in Attempts
    BY <1>1, <1>4 DEF RecordPoll
  <2>2. \/ UNCHANGED tomb
        \/ tomb[a].state = "open" /\ tomb' = [tomb EXCEPT ![a].job = TRUE]
        \/ r.st \in {"ok", "bad"} /\ tomb' = MarkTerminal(a, r.st, r.node, TRUE)
    <3>1. r.st \in {"absent", "running", "ok", "bad"}
      BY <1>0 DEF TypeOK, Runs
    <3>2. QED
      BY <1>4, <3>1 DEF RecordPoll
  <2>3. CASE r.st \in {"ok", "bad"} /\ tomb' = MarkTerminal(a, r.st, r.node, TRUE)
    <3>1. job[a].st = r.st /\ r.node = job[a].node
      BY <2>1, <2>3 DEF MakerInv, SweepKnows
    <3>2. QED
      BY <1>0, <2>1, <2>3, <3>1, WordEnds
  <2>4. QED
    BY <1>0, <2>1, <2>2, <2>3, NotesEndNothing
<1>5. CASE AgeOut(s)
  <2>. DEFINE a == sw[s].run.att
  <2>1. a \in Attempts
    BY <1>1, <1>5 DEF AgeOut
  <2>2. CASE UNCHANGED tomb
    BY <1>2, <2>2
  <2>3. CASE tomb' = [MarkTerminal(a, "bad", 0, FALSE) EXCEPT ![a].aged = @ \/ tomb[a].state = "open"]
    BY <1>0, <2>1, <2>3, AgeEnds
  <2>4. QED
    BY <1>5, <2>2, <2>3 DEF AgeOut
<1>6. CASE Offboard(s)
  <2>. DEFINE a == sw[s].run.att
              id == sw[s].run.node
  <2>1. sw[s].run.pc = "deleting" /\ a \in Attempts
    BY <1>1, <1>6 DEF Offboard
  <2>2. CASE UNCHANGED tomb
    BY <1>2, <2>2
  <2>3. CASE tomb' = [tomb EXCEPT ![a] = [@ EXCEPT !.state = "offboarded", !.node = id]]
    <3>1. /\ tomb'[a].state = "offboarded" /\ tomb'[a].device = tomb[a].device
          /\ tomb'[a].job = tomb[a].job /\ tomb'[a].verdict = tomb[a].verdict /\ tomb'[a].aged = tomb[a].aged
          /\ \A x \in Attempts \ {a} : tomb'[x] = tomb[x]
      BY <1>0, <2>1, <2>3 DEF Tombstones
    <3>2. tomb[a].state = "terminal"
      BY <2>1 DEF ProvisioningInv, LockInv, Offboarding
    <3>3. Ends(a)
      BY <1>6, <3>1, <3>2 DEF Ends, Judges
    <3>4. QED
      BY <1>0, <3>1, <3>3, StillEnds
  <2>4. QED
    BY <1>6, <2>2, <2>3 DEF Offboard
<1>7. ASSUME NEW a \in Attempts, Poll(s, a)
      PROVE  UNCHANGED tomb
  BY <1>7 DEF Poll
<1>8. Lookup(s) \/ FindClosed(s) \/ Abandon(s) => UNCHANGED tomb
  BY DEF Lookup, FindClosed, Abandon
<1>9. QED
  BY <1>2, <1>3, <1>4, <1>5, <1>6, <1>7, <1>8 DEF SweepStep

\* Every attempt's end is one of these.
LEMMA EveryEnd ==
    ASSUME ProvisioningInv, MakerInv, Next
    PROVE  \A a \in Attempts : Ends(a)
<1>0. TypeOK
  BY DEF ProvisioningInv
<1>1. CASE UNCHANGED tomb
  <2>1. \A a \in Attempts : tomb'[a] = tomb[a]
    BY <1>1
  <2>2. QED
    BY <1>0, <2>1, StillEnds
<1>2. ASSUME NEW x \in Attempts, Callback(x)
      PROVE  \A a \in Attempts : Ends(a)
  BY <1>0, <1>2, WordEnds DEF Callback
<1>3. ASSUME NEW a \in Attempts, LateRequestLands(a) \/ JobBuilds(a) \/ JobEnds(a)
      PROVE  UNCHANGED tomb
  BY <1>3 DEF LateRequestLands, JobBuilds, JobEnds
<1>4. ASSUME NEW d \in Devices, LinkRow(d) \/ Unmanage(d) \/ \E n \in Names : ManageExisting(d, n)
      PROVE  UNCHANGED tomb
  <2>1. LinkRow(d) => UNCHANGED tomb
    BY DEF LinkRow
  <2>2. Unmanage(d) => UNCHANGED tomb
    BY DEF Unmanage
  <2>3. ASSUME NEW n \in Names
        PROVE  ManageExisting(d, n) => UNCHANGED tomb
    BY DEF ManageExisting
  <2>4. QED
    BY <1>4, <2>1, <2>2, <2>3
<1>5. QED
  BY <1>1, <1>2, <1>3, <1>4, OnboardEndsNothing, SweepsEnd DEF Next

\* what a step does to the adapter's rows and receipts: a receipt that is final stays, a row is of
\* the job that just built it or as it was, and while it stands it loses no owner
OwnerStays(n) ==
    node'[n] # NoRow =>
        \/ node[n] # NoRow /\ node'[n].id = node[n].id /\ node[n].owner \in {NoRow, node'[n].owner}
        \/ node'[n].id > serial
Built(a) == node'[NameOf(a)] # NoRow /\ node'[NameOf(a)].by = a /\ job'[a].node = node'[NameOf(a)].id
AdapterGoes ==
    /\ \A a \in Attempts : Final(a) => job'[a] = job[a]
    /\ \A a \in Attempts : job'[a].node \in {0, job[a].node} \/ (a \in Born /\ ~Final(a) /\ Built(a))
    /\ \A n \in Names : node'[n] # NoRow /\ node'[n].by # 0 =>
          \/ node'[n] = node[n]
          \/ \E a \in Born : ~Final(a) /\ NameOf(a) = n /\ Built(a)
    /\ \A n \in Names : OwnerStays(n)

LEMMA AdmissionGoes ==
    ASSUME TypeOK, NEW a \in Attempts, UNCHANGED job \/ job' = Admitted(a), UNCHANGED node
    PROVE  AdapterGoes
<1>1. job \in [Attempts -> Receipts]
  BY DEF TypeOK
<1>2. ASSUME NEW x \in Attempts
      PROVE  job'[x].node = job[x].node /\ (Final(x) => job'[x] = job[x])
  <2>1. CASE UNCHANGED job
    BY <2>1
  <2>2. CASE job' = Admitted(a)
    BY <1>1, <2>2 DEF Admitted, Final, Receipts
  <2>3. QED
    BY <2>1, <2>2
<1>3. QED
  BY <1>2 DEF AdapterGoes, OwnerStays

LEMMA RemovalGoes ==
    ASSUME TypeOK, UNCHANGED job,
           \A n \in Names : node'[n] \in {NoRow, node[n]} \/ (node'[n].by = 0 /\ OwnerStays(n))
    PROVE  AdapterGoes
BY DEF AdapterGoes, OwnerStays

LEMMA BuildGoes ==
    ASSUME ProvisioningInv, NEW a \in Attempts, JobBuilds(a)
    PROVE  AdapterGoes
<1>0. /\ TypeOK /\ BornInv
      /\ job \in [Attempts -> Receipts] /\ node \in [Names -> Nodes \union {NoRow}] /\ serial \in Nat
  BY DEF ProvisioningInv, TypeOK, Ids
<1>1. a \in Born /\ job[a].st = "running"
  BY <1>0 DEF JobBuilds, BornInv
<1>2. NameOf(a) \in Names /\ a \in 0..MaxAttempts
  BY <1>0, <1>1, BornTyped, Bounds DEF Attempts
<1>. DEFINE n == NameOf(a)
            r == IF node[n] = NoRow THEN [id |-> serial + 1, owner |-> NoRow, by |-> a]
                                    ELSE [node[n] EXCEPT !.by = a]
<1>3. node' = [node EXCEPT ![n] = r]
  BY <1>0, <1>2 DEF JobBuilds
<1>4. r \in Nodes /\ r.by = a
  BY <1>0, <1>2, Bounds DEF Nodes, Ids
<1>5. r # NoRow
  BY <1>4, NoRowAssumption
<1>. HIDE DEF r
<1>6. node'[n] = r /\ \A m \in Names \ {n} : node'[m] = node[m]
  BY <1>0, <1>2, <1>3
<1>7. job' = [job EXCEPT ![a].node = r.id]
  BY <1>6 DEF JobBuilds
<1>8. job'[a].node = r.id /\ \A x \in Attempts \ {a} : job'[x] = job[x]
  BY <1>0, <1>7 DEF Receipts
<1>9. Built(a) /\ ~Final(a)
  BY <1>1, <1>4, <1>5, <1>6, <1>8 DEF Built, Final
<1>10. \A x \in Attempts : Final(x) => job'[x] = job[x]
  BY <1>8, <1>9
<1>11. \A x \in Attempts : job'[x].node \in {0, job[x].node} \/ (x \in Born /\ ~Final(x) /\ Built(x))
  BY <1>1, <1>8, <1>9
<1>12. \A m \in Names : node'[m] = node[m] \/ \E x \in Born : ~Final(x) /\ NameOf(x) = m /\ Built(x)
  BY <1>1, <1>6, <1>9
<1>13. OwnerStays(n)
  <2>1. CASE node[n] = NoRow
    BY <1>0, <1>6, <2>1 DEF OwnerStays, r
  <2>2. CASE node[n] # NoRow
    <3>1. r.id = node[n].id /\ r.owner = node[n].owner
      BY <1>0, <1>2, <2>2 DEF r, Nodes
    <3>2. QED
      BY <1>6, <2>2, <3>1 DEF OwnerStays
  <2>3. QED
    BY <2>1, <2>2
<1>14. \A m \in Names : OwnerStays(m)
  <2>1. \A m \in Names \ {n} : OwnerStays(m)
    BY <1>6 DEF OwnerStays
  <2>2. QED
    BY <1>13, <2>1
<1>15. QED
  BY <1>10, <1>11, <1>12, <1>14 DEF AdapterGoes

LEMMA EndGoes ==
    ASSUME TypeOK, NEW a \in Attempts, JobEnds(a)
    PROVE  AdapterGoes
<1>1. job \in [Attempts -> Receipts] /\ UNCHANGED node
  BY DEF TypeOK, JobEnds
<1>2. job[a].st = "running"
  BY DEF JobEnds
<1>3. \/ job' = [job EXCEPT ![a].st = "ok"]
      \/ job' = [job EXCEPT ![a].st = "bad"]
      \/ job' = [job EXCEPT ![a] = [st |-> "bad", node |-> 0]]
  BY DEF JobEnds
<1>4. ASSUME NEW x \in Attempts
      PROVE  job'[x].node \in {0, job[x].node} /\ (Final(x) => job'[x] = job[x])
  BY <1>1, <1>2, <1>3 DEF Final, Receipts
<1>5. QED
  BY <1>1, <1>4 DEF AdapterGoes, OwnerStays

LEMMA LinkGoes ==
    ASSUME TypeOK, NEW d \in Devices, LinkRow(d)
    PROVE  AdapterGoes
<1>1. /\ mgmt \in [Devices -> ManagementRows \union {NoRow}] /\ mgmt[d] # NoRow
      /\ node \in [Names -> Nodes \union {NoRow}] /\ UNCHANGED job
  BY DEF TypeOK, LinkRow, Row, counts
<1>. DEFINE n == mgmt[d].name
            r == [id |-> IF node[n] = NoRow THEN serial' ELSE node[n].id, owner |-> d, by |-> 0]
<1>2. n \in Names
  BY <1>1 DEF ManagementRows
<1>3. node' = [node EXCEPT ![n] = r]
  BY <1>1, <1>2 DEF LinkRow
<1>4. /\ r.by = 0
      /\ \/ r.id > serial
         \/ node[n] # NoRow /\ r.id = node[n].id /\ node[n].owner \in {NoRow, r.owner}
  <2>1. node[n] = NoRow => serial' = serial + 1 /\ serial \in Nat
    BY DEF LinkRow, TypeOK, Ids
  <2>2. node[n] # NoRow => node[n].owner \in {NoRow, d}
    BY DEF LinkRow
  <2>3. QED
    BY <2>1, <2>2
<1>. HIDE DEF r
<1>5. node'[n] = r /\ \A m \in Names \ {n} : node'[m] = node[m]
  BY <1>1, <1>2, <1>3
<1>6. node'[n].by = 0 /\ OwnerStays(n)
  BY <1>4, <1>5 DEF OwnerStays
<1>7. QED
  BY <1>1, <1>5, <1>6, RemovalGoes

\* Every step leaves the adapter like this.
LEMMA AdapterMoves ==
    ASSUME ProvisioningInv, Next
    PROVE  AdapterGoes
<1>0. TypeOK /\ BornInv /\ node \in [Names -> Nodes \union {NoRow}]
  BY DEF ProvisioningInv, TypeOK
<1>1. CASE UNCHANGED <<job, node>>
  BY <1>1 DEF AdapterGoes, OwnerStays
<1>2. ASSUME NEW id
      PROVE  node' = Without(id) => \A n \in Names : node'[n] \in {NoRow, node[n]}
  BY DEF Without
<1>3. ASSUME NEW o \in Operators, OnboardStep(o)
      PROVE  AdapterGoes
  <2>1. Post(o) => UNCHANGED node /\ (UNCHANGED job \/ job' = Admitted(ob[o].att)) /\ ob[o].pc = "posting"
    BY DEF Post
  <2>2. Post(o) => AdapterGoes
    BY <1>0, <2>1, AdmissionGoes, BornTyped DEF BornInv
  <2>3. ASSUME NEW d \in Devices, NEW b \in Bodies
        PROVE  ClaimAttempt(o, d, b) => UNCHANGED <<job, node>>
    BY DEF ClaimAttempt, adapter
  <2>4. SubmitClaim(o) \/ AdmitAttempt(o) \/ OperatorDies(o) => UNCHANGED <<job, node>>
    BY DEF SubmitClaim, AdmitAttempt, OperatorDies, adapter
  <2>5. QED
    BY <1>1, <1>3, <2>2, <2>3, <2>4 DEF OnboardStep
<1>4. ASSUME NEW s \in Sweepers, SweepStep(s)
      PROVE  AdapterGoes
  <2>1. Offboard(s) => UNCHANGED job /\ (UNCHANGED node \/ node' = Without(sw[s].run.node))
    BY DEF Offboard
  <2>2. Offboard(s) => AdapterGoes
    BY <1>0, <1>2, <2>1, RemovalGoes
  <2>3. ASSUME NEW a \in Attempts
        PROVE  Poll(s, a) \/ Complete(s, a) \/ CloseOffboarded(s, a) => UNCHANGED <<job, node>>
    BY DEF Poll, Complete, CloseOffboarded, adapter
  <2>4. RecordPoll(s) \/ AgeOut(s) \/ Lookup(s) \/ FindClosed(s) \/ Abandon(s) => UNCHANGED <<job, node>>
    BY DEF RecordPoll, AgeOut, Lookup, FindClosed, Abandon, adapter
  <2>5. QED
    BY <1>1, <1>4, <2>2, <2>3, <2>4 DEF SweepStep
<1>5. ASSUME NEW a \in Attempts, LateRequestLands(a) \/ JobBuilds(a) \/ JobEnds(a) \/ Callback(a)
      PROVE  AdapterGoes
  <2>1. LateRequestLands(a) => AdapterGoes
    BY <1>0, AdmissionGoes DEF LateRequestLands
  <2>2. Callback(a) => UNCHANGED <<job, node>>
    BY DEF Callback, adapter
  <2>3. QED
    BY <1>0, <1>1, <1>5, <2>1, <2>2, BuildGoes, EndGoes
<1>6. ASSUME NEW d \in Devices, LinkRow(d) \/ Unmanage(d) \/ \E n \in Names : ManageExisting(d, n)
      PROVE  AdapterGoes
  <2>1. Unmanage(d) => UNCHANGED job /\ (UNCHANGED node \/ node' = Without(mgmt[d].node))
    BY DEF Unmanage
  <2>2. Unmanage(d) => AdapterGoes
    BY <1>0, <1>2, <2>1, RemovalGoes
  <2>3. ASSUME NEW n \in Names
        PROVE  ManageExisting(d, n) => UNCHANGED <<job, node>>
    BY DEF ManageExisting, adapter
  <2>4. QED
    BY <1>0, <1>1, <1>6, <2>2, <2>3, LinkGoes
<1>7. QED
  BY <1>3, <1>4, <1>5, <1>6 DEF Next

\* what a sweep learns in a step: of its attempt, and of the adapter's rows
Learns(s) ==
    LET r == sw'[s].run
    IN  \/ sw'[s] = sw[s]
        \/ r.pc \in {"idle", "marked", "closing"}
        \/ /\ r.pc = "polled" /\ UNCHANGED job
           /\ r.st = job[r.att].st /\ r.node = Named(r.att)
        \/ r.pc = "looking" /\ UNCHANGED tomb /\ r.node = tomb[r.att].node
        \/ Lookup(s)
LearnsRows(s) ==
    \/ sw'[s].inv = sw[s].inv
    \/ ~sw'[s].inv.read
    \/ sw'[s].inv.nodes = node /\ UNCHANGED node
    \/ sw'[s].inv.nodes = sw[s].inv.nodes /\ sw[s].inv.read

LEMMA SweepsLearn ==
    ASSUME ProvisioningInv, Next, NEW s \in Sweepers
    PROVE  Learns(s) /\ LearnsRows(s)
<1>0. sw \in [Sweepers -> [run : Runs, inv : Inventories]]
  BY DEF ProvisioningInv, TypeOK
<1>1. CASE sw'[s] = sw[s]
  BY <1>1 DEF Learns, LearnsRows
<1>2. CASE sw'[s] # sw[s]
  <2>1. PICK t \in Sweepers : SweepStep(t)
    <3>1. sw' # sw
      BY <1>2
    <3>2. QED
      BY <3>1 DEF Next, OnboardStep, ClaimAttempt, SubmitClaim, Post, AdmitAttempt, OperatorDies,
         LateRequestLands, JobBuilds, JobEnds, Callback, LinkRow, Unmanage, ManageExisting
  <2>2. SweepStep(s)
    BY <1>2, <2>1, SweepsAlone
  <2>3. NothingSwept.pc = "idle" /\ ~NoInventory.read /\ Kept(s) \in {sw[s].inv, NoInventory}
    BY DEF NothingSwept, NoInventory, Kept
  <2>4. ASSUME EndSweep(s)
        PROVE  Learns(s) /\ LearnsRows(s)
    <3>1. sw'[s].run = NothingSwept /\ sw'[s].inv = Kept(s)
      BY <1>0, <2>4 DEF EndSweep
    <3>2. QED
      BY <2>3, <3>1 DEF Learns, LearnsRows
  <2>5. ASSUME NEW pc \in {"marked", "closing"}, Sweeping(s, pc)
        PROVE  Learns(s) /\ LearnsRows(s)
    <3>1. sw'[s].run.pc = pc /\ sw'[s].inv = sw[s].inv
      BY <1>0, <2>5 DEF Sweeping, NothingSwept
    <3>2. QED
      BY <3>1 DEF Learns, LearnsRows
  <2>6. ASSUME NEW a \in Attempts, Poll(s, a)
        PROVE  Learns(s) /\ LearnsRows(s)
    <3>1. /\ sw'[s].run = [pc |-> "polled", att |-> a, st |-> job[a].st, node |-> Named(a),
                           old |-> job[a].st = "absent" /\ OldEnough(a)]
          /\ sw'[s].inv = Kept(s) /\ UNCHANGED job
      BY <1>0, <2>6 DEF Poll, adapter
    <3>2. QED
      BY <2>3, <3>1 DEF Learns, LearnsRows
  <2>7. ASSUME NEW a \in Attempts, Complete(s, a)
        PROVE  Learns(s) /\ LearnsRows(s)
    <3>1. CASE EndSweep(s)
      BY <2>4, <3>1
    <3>2. CASE ~EndSweep(s)
      <4>1. /\ sw' = [sw EXCEPT ![s] = [run |-> [pc |-> "looking", att |-> a, st |-> "absent",
                                                 node |-> tomb[a].node, old |-> FALSE],
                                        inv |-> Kept(s)]]
            /\ UNCHANGED tomb
        BY <2>7, <3>2 DEF Complete
      <4>2. /\ sw'[s].run = [pc |-> "looking", att |-> a, st |-> "absent", node |-> tomb[a].node, old |-> FALSE]
            /\ sw'[s].inv = Kept(s)
        BY <1>0, <4>1
      <4>3. QED
        BY <2>3, <4>1, <4>2 DEF Learns, LearnsRows
    <3>3. QED
      BY <3>1, <3>2
  <2>8. ASSUME Abandon(s)
        PROVE  Learns(s) /\ LearnsRows(s)
    <3>1. sw'[s] = [run |-> NothingSwept, inv |-> NoInventory]
      BY <1>0, <2>8 DEF Abandon
    <3>2. QED
      BY <2>3, <3>1 DEF Learns, LearnsRows
  <2>9. ASSUME Lookup(s)
        PROVE  Learns(s) /\ LearnsRows(s)
    <3>. DEFINE nodes == IF sw[s].inv.read THEN sw[s].inv.nodes ELSE node
    <3>1. UNCHANGED node /\ sw'[s].inv \in {sw[s].inv, [read |-> TRUE, nodes |-> nodes]}
      BY <1>0, <2>9 DEF Lookup, adapter
    <3>2. QED
      BY <2>9, <3>1 DEF Learns, LearnsRows
  <2>10. ASSUME NEW a \in Attempts
         PROVE  CloseOffboarded(s, a) => EndSweep(s)
    BY DEF CloseOffboarded
  <2>11. RecordPoll(s) \/ AgeOut(s) \/ Offboard(s) \/ FindClosed(s) =>
            EndSweep(s) \/ Sweeping(s, "marked") \/ Sweeping(s, "closing")
    BY DEF RecordPoll, AgeOut, Offboard, FindClosed
  <2>12. QED
    BY <2>2, <2>4, <2>5, <2>6, <2>7, <2>8, <2>9, <2>10, <2>11 DEF SweepStep
<1>3. QED
  BY <1>1, <1>2

\* An attempt that was claimed stays one, of its device and name.
LEMMA BornStand ==
    ASSUME ProvisioningInv, \A a \in Attempts : Ends(a), NEW a \in Born
    PROVE  a \in Attempts /\ a \in Born' /\ tomb'[a].device = tomb[a].device /\ NameOf(a)' = NameOf(a)
BY DEF Born, Ends, NameOf

LEMMA MadeKeeps ==
    ASSUME ProvisioningInv, MadeInv, AdapterGoes, \A a \in Attempts : Ends(a)
    PROVE  MadeInv'
<1>1. SUFFICES ASSUME NEW n \in Names, node'[n] # NoRow, node'[n].by # 0
               PROVE  /\ node'[n].by \in Born' /\ NodeName[tomb'[node'[n].by].device] = n
                      /\ job'[node'[n].by].node \in {0, node'[n].id}
  BY DEF MadeInv, NameOf
<1>2. ASSUME NEW a \in Born, NameOf(a) = n, Built(a)
      PROVE  /\ node'[n].by \in Born' /\ NodeName[tomb'[node'[n].by].device] = n
             /\ job'[node'[n].by].node \in {0, node'[n].id}
  <2>1. node'[n].by = a /\ job'[a].node = node'[n].id
    BY <1>2 DEF Built
  <2>2. a \in Born' /\ NodeName[tomb'[a].device] = n
    BY <1>2, BornStand DEF NameOf
  <2>3. QED
    BY <2>1, <2>2
<1>3. CASE node'[n] = node[n]
  <2>. DEFINE b == node[n].by
  <2>1. b \in Born /\ NameOf(b) = n /\ job[b].node \in {0, node[n].id} /\ b \in Attempts
    BY <1>1, <1>3 DEF MadeInv, Born
  <2>2. CASE job'[b].node \in {0, job[b].node}
    <3>1. b \in Born' /\ NodeName[tomb'[b].device] = n
      BY <2>1, BornStand DEF NameOf
    <3>2. QED
      BY <1>3, <2>1, <2>2, <3>1
  <2>3. CASE Built(b)
    BY <1>2, <2>1, <2>3
  <2>4. QED
    BY <2>1, <2>2, <2>3 DEF AdapterGoes
<1>4. QED
  BY <1>1, <1>2, <1>3 DEF AdapterGoes

LEMMA VerdictKeeps ==
    ASSUME ProvisioningInv, VerdictInv, AdapterGoes, \A a \in Attempts : Ends(a)
    PROVE  VerdictInv'
<1>1. SUFFICES ASSUME NEW a \in Born', tomb'[a].state = "terminal", ~tomb'[a].aged
               PROVE  job'[a].st \in {"ok", "bad"} /\ tomb'[a].node = job'[a].node
  BY DEF VerdictInv, Final
<1>2. a \in Attempts /\ Ends(a)
  BY DEF Born
<1>3. Final(a) /\ tomb'[a].node = job[a].node
  <2>1. CASE tomb[a].state = "terminal"
    <3>1. a \in Born
      BY <1>2, <2>1 DEF Born
    <3>2. QED
      BY <1>1, <1>2, <2>1, <3>1 DEF Ends, VerdictInv
  <2>2. CASE tomb[a].state # "terminal"
    BY <1>1, <1>2, <2>2 DEF Ends
  <2>3. QED
    BY <2>1, <2>2
<1>4. job'[a] = job[a]
  BY <1>2, <1>3 DEF AdapterGoes
<1>5. QED
  BY <1>3, <1>4 DEF Final

\* A verdict is given once, by the adapter's word on the job or by age.
LEMMA JudgedKeeps ==
    ASSUME ProvisioningInv, JudgedInv, AdapterGoes, \A a \in Attempts : Ends(a)
    PROVE  JudgedInv'
<1>1. SUFFICES ASSUME NEW a \in Born'
               PROVE  /\ tomb'[a].state = "open" => tomb'[a].verdict = "none"
                      /\ tomb'[a].state = "terminal" => tomb'[a].verdict # "none"
                      /\ tomb'[a].verdict = "bad" =>
                            IF tomb'[a].job THEN job'[a].st = "bad" \/ tomb'[a].aged ELSE tomb'[a].aged
  BY DEF JudgedInv, Failure
<1>2. a \in Attempts /\ Judges(a) /\ tomb'[a].state # "unborn"
  BY DEF Born, Ends
<1>3. tomb[a].state \in {"unborn", "open", "terminal", "offboarded", "closed"}
  BY <1>2 DEF ProvisioningInv, TypeOK, Tombstones
<1>4. job[a].st = "bad" => job'[a].st = "bad"
  BY <1>2 DEF AdapterGoes, Final
<1>5. CASE tomb[a].state = "unborn"
  BY <1>2, <1>5 DEF Judges
<1>6. ASSUME tomb[a].state # "unborn"
      PROVE  /\ tomb[a].state = "open" => tomb[a].verdict = "none"
             /\ tomb[a].state = "terminal" => tomb[a].verdict # "none"
             /\ tomb[a].verdict = "bad" => Failure(a)
  BY <1>2, <1>6 DEF JudgedInv, Born
<1>7. CASE tomb[a].state = "open"
  BY <1>2, <1>4, <1>6, <1>7 DEF Judges
<1>8. CASE tomb[a].state \in {"terminal", "offboarded", "closed"}
  BY <1>2, <1>4, <1>6, <1>8 DEF Judges, Failure
<1>9. QED
  BY <1>3, <1>5, <1>7, <1>8

\* An inventory grows old, but what it says of a row that still stands stays possible.
LEMMA InventoryKeeps ==
    ASSUME ProvisioningInv, InventoryInv, AdapterGoes, \A s \in Sweepers : LearnsRows(s)
    PROVE  InventoryInv'
<1>1. SUFFICES ASSUME NEW s \in Sweepers, NEW n \in Names, sw'[s].inv.read, sw'[s].inv.nodes[n] # NoRow,
                      node'[n] # NoRow, sw'[s].inv.nodes[n].id = node'[n].id
               PROVE  sw'[s].inv.nodes[n].owner \in {NoRow, node'[n].owner}
  BY DEF InventoryInv
<1>2. CASE sw'[s].inv.nodes = node /\ UNCHANGED node
  BY <1>2
<1>3. CASE sw'[s].inv.nodes = sw[s].inv.nodes /\ sw[s].inv.read
  <2>1. IsOf(sw[s].inv.nodes[n].id, n) /\ sw[s].inv.nodes[n].id \in Nat /\ serial \in Nat
    <3>1. sw[s].inv.nodes[n] \in Nodes /\ serial \in Nat
      BY <1>1, <1>3 DEF ProvisioningInv, TypeOK, Inventories, Ids
    <3>2. QED
      BY <1>1, <1>3, <3>1 DEF ProvisioningInv, NodeInv, Nodes, Ids
  <2>2. ~(node'[n].id > serial)
    BY <1>1, <1>3, <2>1 DEF IsOf
  <2>3. node[n] # NoRow /\ node'[n].id = node[n].id /\ node[n].owner \in {NoRow, node'[n].owner}
    BY <1>1, <2>2 DEF AdapterGoes, OwnerStays
  <2>4. sw[s].inv.nodes[n].owner \in {NoRow, node[n].owner}
    BY <1>1, <1>3, <2>3 DEF InventoryInv
  <2>5. QED
    BY <1>3, <2>3, <2>4
<1>4. QED
  BY <1>1, <1>2, <1>3 DEF LearnsRows

\* What a sweep knows stays true while it holds the attempt's lock.
LEMMA KnownStays ==
    ASSUME ProvisioningInv, ProvisioningInv', MakerInv, AdapterGoes, \A a \in Attempts : Ends(a),
           NEW s \in Sweepers, sw'[s] = sw[s]
    PROVE  SweepKnows(s)'
<1>. DEFINE r == sw[s].run
            a == r.att
<1>1. SweepKnows(s)
  BY DEF MakerInv
<1>2. ASSUME r.pc # "idle"
      PROVE  a \in Born /\ a \in Attempts /\ a # 0
  BY <1>2, Bounds DEF ProvisioningInv, BornInv, Born, Attempts
<1>3. ASSUME r.pc = "polled", r.st \in {"ok", "bad"}
      PROVE  job'[a].st = r.st /\ job'[a].node = r.node
  <2>1. job[a].st = r.st /\ job[a].node = r.node /\ a \in Attempts
    BY <1>1, <1>2, <1>3 DEF SweepKnows
  <2>2. job'[a] = job[a]
    BY <1>3, <2>1 DEF AdapterGoes, Final
  <2>3. QED
    BY <2>1, <2>2
<1>4. ASSUME r.pc \in {"looking", "deleting"}
      PROVE  /\ tomb[a].state = "terminal" /\ tomb'[a].node = tomb[a].node
             /\ tomb'[a].aged = tomb[a].aged /\ tomb'[a].device = tomb[a].device
  <2>1. tomb[a].state = "terminal" /\ tomb'[a].state = "terminal"
    BY <1>4 DEF ProvisioningInv, LockInv, Offboarding
  <2>2. QED
    BY <1>2, <1>4, <2>1 DEF Ends
<1>5. ASSUME r.pc = "deleting", ~tomb'[a].aged, NEW n \in Names,
             node'[n] # NoRow, node'[n].by = a, node'[n].owner \in {NoRow, tomb'[a].device}
      PROVE  \/ node'[n].id = r.node
             \/ /\ tomb'[a].node = 0 /\ sw[s].inv.read
                /\ sw[s].inv.nodes[n] = NoRow \/ sw[s].inv.nodes[n].id # node'[n].id
  <2>1. Final(a)
    BY <1>2, <1>4, <1>5 DEF MakerInv, VerdictInv
  <2>2. node'[n] = node[n]
    BY <1>2, <1>5, <2>1 DEF AdapterGoes, Built
  <2>3. Leftover(a, n)
    BY <1>4, <1>5, <2>2 DEF Leftover
  <2>4. QED
    BY <1>1, <1>4, <1>5, <2>2, <2>3 DEF SweepKnows, Unseen
<1>6. QED
  BY <1>1, <1>3, <1>4, <1>5 DEF SweepKnows, Leftover, Unseen

\* The lookup finds the row an attempt left behind, by the evidence or by its name, or in a kept
\* inventory that is older than the row it does not.
LEMMA LookupFinds ==
    ASSUME ProvisioningInv, MakerInv, NEW s \in Sweepers, Lookup(s)
    PROVE  SweepKnows(s)'
<1>. DEFINE a == sw[s].run.att
            nodes == IF sw[s].inv.read THEN sw[s].inv.nodes ELSE node
            row == nodes[NameOf(a)]
            known == sw[s].run.node # 0
            id == IF known THEN sw[s].run.node ELSE IF Ours(row, a) THEN row.id ELSE 0
            inv == IF known \/ s \notin FleetSweepers THEN sw[s].inv ELSE [read |-> TRUE, nodes |-> nodes]
<1>0. sw \in [Sweepers -> [run : Runs, inv : Inventories]]
  BY DEF ProvisioningInv, TypeOK
<1>1. sw[s].run.pc = "looking" /\ sw[s].run.node = tomb[a].node
  BY DEF Lookup, MakerInv, SweepKnows
<1>2. /\ sw'[s].run.pc = "deleting" /\ sw'[s].run.att = a /\ sw'[s].run.node = id /\ sw'[s].inv = inv
      /\ UNCHANGED <<tomb, job, node>>
  <2>. DEFINE pc == "deleting"
  <2>1. sw' = [sw EXCEPT ![s] = [run |-> [sw[s].run EXCEPT !.pc = pc, !.node = id], inv |-> inv]]
    BY DEF Lookup
  <2>. HIDE DEF id, inv
  <2>2. sw'[s].run = [sw[s].run EXCEPT !.pc = pc, !.node = id] /\ sw'[s].inv = inv
    BY <1>0, <2>1
  <2>3. UNCHANGED <<tomb, job, node>>
    BY DEF Lookup, adapter
  <2>4. QED
    BY <1>0, <2>2, <2>3 DEF Runs
<1>3. a \in Born /\ tomb[a].state = "terminal" /\ a # 0
  BY <1>1, Bounds DEF ProvisioningInv, BornInv, LockInv, Offboarding, Born, Attempts
<1>4. ASSUME ~tomb[a].aged, NEW n \in Names, Leftover(a, n)
      PROVE  \/ node[n].id = id
             \/ tomb[a].node = 0 /\ inv.read /\ (inv.nodes[n] = NoRow \/ inv.nodes[n].id # node[n].id)
  <2>1. tomb[a].node = job[a].node
    BY <1>3, <1>4 DEF MakerInv, VerdictInv
  <2>2. NameOf(a) = n /\ job[a].node \in {0, node[n].id}
    BY <1>3, <1>4 DEF MakerInv, MadeInv, Leftover
  <2>3. CASE known
    BY <1>1, <2>1, <2>2, <2>3
  <2>4. CASE ~known /\ ~sw[s].inv.read
    BY <1>4, <2>2, <2>4 DEF Ours, Leftover
  <2>5. CASE ~known /\ sw[s].inv.read
    <3>1. tomb[a].node = 0 /\ nodes = sw[s].inv.nodes /\ inv.read /\ inv.nodes = sw[s].inv.nodes
      BY <1>1, <2>5
    <3>2. CASE inv.nodes[n] = NoRow \/ inv.nodes[n].id # node[n].id
      BY <3>1, <3>2
    <3>3. CASE inv.nodes[n] # NoRow /\ inv.nodes[n].id = node[n].id
      <4>1. sw[s].inv.nodes[n].owner \in {NoRow, node[n].owner}
        BY <1>4, <2>5, <3>1, <3>3 DEF MakerInv, InventoryInv, Leftover
      <4>2. Ours(row, a) /\ row.id = node[n].id
        BY <1>4, <2>2, <3>1, <3>3, <4>1 DEF Ours, Leftover
      <4>3. QED
        BY <2>5, <4>2
    <3>4. QED
      BY <3>2, <3>3
  <2>6. QED
    BY <2>3, <2>4, <2>5
<1>. HIDE DEF id, inv
<1>5. QED
  BY <1>2, <1>4 DEF SweepKnows, Leftover, Unseen

\* Every step leaves each sweep with what it knows.
LEMMA MakersKeep ==
    ASSUME ProvisioningInv, ProvisioningInv', MakerInv, Next
    PROVE  MakerInv'
<1>1. AdapterGoes /\ \A a \in Attempts : Ends(a)
  BY AdapterMoves, EveryEnd
<1>2. ASSUME NEW s \in Sweepers
      PROVE  SweepKnows(s)'
  <2>. DEFINE r == sw'[s].run
  <2>1. Learns(s)
    BY SweepsLearn
  <2>2. CASE sw'[s] = sw[s]
    BY <1>1, <2>2, KnownStays
  <2>3. CASE r.pc \in {"idle", "marked", "closing"}
    BY <2>3 DEF SweepKnows
  <2>4. CASE /\ r.pc = "polled" /\ UNCHANGED job
             /\ r.st = job[r.att].st /\ r.node = Named(r.att)
    BY <2>4 DEF SweepKnows, Named
  <2>5. CASE r.pc = "looking" /\ UNCHANGED tomb /\ r.node = tomb[r.att].node
    BY <2>5 DEF SweepKnows
  <2>6. CASE Lookup(s)
    BY <2>6, LookupFinds
  <2>7. QED
    BY <2>1, <2>2, <2>3, <2>4, <2>5, <2>6 DEF Learns
<1>3. MadeInv' /\ VerdictInv' /\ JudgedInv' /\ InventoryInv'
  BY <1>1, MadeKeeps, VerdictKeeps, JudgedKeeps, InventoryKeeps, SweepsLearn DEF MakerInv
<1>4. QED
  BY <1>2, <1>3 DEF MakerInv

\* What an adapter row's maker, an attempt's verdict, a kept inventory and a sweep say of each other.
THEOREM MakersAreKnown == Spec => []MakerInv
<1>1. Init => MakerInv
  BY Bounds DEF Init, MakerInv, MadeInv, VerdictInv, JudgedInv, InventoryInv, SweepKnows, Born, Unborn,
     NothingSwept, NoInventory
<1>2. ProvisioningInv /\ ProvisioningInv' /\ MakerInv /\ [Next]_vars => MakerInv'
  <2>1. ASSUME UNCHANGED vars, MakerInv
        PROVE  MakerInv'
    <3>1. MadeInv' /\ VerdictInv' /\ JudgedInv' /\ InventoryInv'
      BY <2>1 DEF vars, MakerInv, MadeInv, VerdictInv, JudgedInv, InventoryInv, Failure, Born, Final, NameOf
    <3>2. \A s \in Sweepers : SweepKnows(s)'
      BY <2>1 DEF vars, MakerInv, SweepKnows, Leftover, Unseen
    <3>3. QED
      BY <3>1, <3>2 DEF MakerInv
  <2>2. QED
    BY <2>1, MakersKeep
<1>3. QED
  BY <1>1, <1>2, ProvisioningInvariant, PTL DEF Spec

\* An attempt that is offboarded on the adapter's verdict leaves no unowned row of its making,
\* whatever linked, built or removed rows meanwhile (_recover_adapter_device_id); unless the evidence
\* named no row and the fleet sweep's kept inventory is older than the row.
THEOREM OffboardsLeaveNothing == Spec => OffboardLeavesNothing
<1>. DEFINE Empty ==
        \A a \in Attempts :
          tomb[a].state = "terminal" /\ tomb'[a].state = "offboarded" /\ ~tomb[a].aged =>
              \A n \in Names : Leftover(a, n)' =>
                  /\ tomb[a].node = 0
                  /\ \E s \in Sweepers : sw[s].run.att = a /\ sw[s].run.pc = "deleting" /\ Unseen(s, n)
<1>1. ProvisioningInv /\ MakerInv /\ [Next]_vars => [Empty]_vars
  <2>1. SUFFICES ASSUME ProvisioningInv, MakerInv, Next, NEW a \in Attempts, NEW n \in Names,
                        tomb[a].state = "terminal", tomb'[a].state = "offboarded", ~tomb[a].aged,
                        node'[n] # NoRow, node'[n].by = a, node'[n].owner \in {NoRow, tomb'[a].device}
                 PROVE  /\ tomb[a].node = 0
                        /\ \E s \in Sweepers : /\ sw[s].run.att = a /\ sw[s].run.pc = "deleting"
                                               /\ Unseen(s, n)
    BY DEF Leftover
  <2>2. PICK s \in Sweepers : Offboard(s) /\ sw[s].run.att = a
    BY <2>1, EveryEnd DEF Ends
  <2>. DEFINE id == sw[s].run.node
  <2>3. sw[s].run.pc = "deleting" /\ node' = IF id = 0 THEN node ELSE Without(id)
    BY <2>1, <2>2 DEF Offboard
  <2>4. node'[n] = node[n] /\ (id = 0 \/ node[n].id # id)
    BY <2>1, <2>3 DEF Without
  <2>5. node[n].id # 0
    BY <2>1, <2>4 DEF ProvisioningInv, NodeInv
  <2>6. tomb'[a].device = tomb[a].device
    BY <2>1, EveryEnd DEF Ends
  <2>7. Leftover(a, n)
    BY <2>1, <2>4, <2>6 DEF Leftover
  <2>8. tomb[a].node = 0 /\ Unseen(s, n)
    BY <2>1, <2>2, <2>3, <2>4, <2>5, <2>7 DEF MakerInv, SweepKnows
  <2>9. QED
    BY <2>2, <2>3, <2>8
<1>2. QED
  BY <1>1, ProvisioningInvariant, MakersAreKnown, PTL DEF Spec, OffboardLeavesNothing
-----------------------------------------------------------------------------
(* Whose failure a management row carries                                  *)

FailedInv ==
    \A d \in Devices : Row(d) /\ mgmt[d].status = "provision_failed" => \E a \in Born : FailedBy(d, a)

\* a row fails by the evidence that is applied to it, and otherwise stays what it was
StaysRow(d) ==
    /\ Row(d) /\ mgmt'[d].name = mgmt[d].name /\ mgmt'[d].job = mgmt[d].job
    /\ mgmt'[d].status = mgmt[d].status
IsTold(d, a) ==
    /\ Applies(a) /\ d = tomb[a].device /\ tomb[a].state = "terminal" /\ tomb'[a].state = "closed"
    /\ tomb[a].verdict # "ok"
    /\ mgmt'[d].name = mgmt[d].name /\ mgmt'[d].job = mgmt[d].job
RowTold(d) ==
    mgmt'[d] # NoRow =>
        mgmt'[d].status # "provision_failed" \/ StaysRow(d) \/ \E a \in Born : IsTold(d, a)

LEMMA CompletionTells ==
    ASSUME ProvisioningInv, NEW s \in Sweepers, NEW a \in Attempts, Complete(s, a), NEW d \in Devices
    PROVE  RowTold(d)
<1>0. TypeOK /\ BornInv
  BY DEF ProvisioningInv
<1>1. /\ a \in Born /\ tomb[a].state = "terminal"
      /\ UNCHANGED mgmt \/ (Applies(a) /\ mgmt' = Evidenced(a) /\ tomb'[a].state = "closed")
  BY CompleteMoves
<1>2. CASE UNCHANGED mgmt
  BY <1>2 DEF RowTold, StaysRow, Row
<1>3. CASE Applies(a) /\ mgmt' = Evidenced(a) /\ tomb'[a].state = "closed"
  <2>1. CASE d # tomb[a].device
    BY <1>0, <1>1, <1>3, <2>1, EvidencedTyped DEF RowTold, StaysRow, Row
  <2>2. CASE d = tomb[a].device
    <3>1. /\ mgmt'[d].name = mgmt[d].name /\ mgmt'[d].job = mgmt[d].job
          /\ mgmt'[d].status = (IF tomb[a].verdict = "ok" THEN "" ELSE "provision_failed")
      BY <1>0, <1>1, <1>3, <2>2, EvidencedTyped
    <3>2. CASE tomb[a].verdict = "ok"
      BY <3>1, <3>2 DEF RowTold
    <3>3. CASE tomb[a].verdict # "ok"
      BY <1>1, <1>3, <2>2, <3>1, <3>3 DEF RowTold, IsTold
    <3>4. QED
      BY <3>2, <3>3
  <2>3. QED
    BY <2>1, <2>2
<1>4. QED
  BY <1>1, <1>2, <1>3

LEMMA OnboardTells ==
    ASSUME ProvisioningInv, NEW o \in Operators, OnboardStep(o), NEW d \in Devices
    PROVE  RowTold(d)
<1>0. mgmt \in [Devices -> ManagementRows \union {NoRow}]
  BY DEF ProvisioningInv, TypeOK
<1>1. CASE UNCHANGED mgmt
  BY <1>1 DEF RowTold, StaysRow, Row
<1>2. CASE AdmitAttempt(o)
  <2>. DEFINE a == ob[o].att
              e == tomb[a].device
              r == [name |-> NameOf(a), job |-> a, status |-> "provisioning", node |-> 0]
  <2>1. UNCHANGED mgmt \/ mgmt' = [mgmt EXCEPT ![e] = r]
    BY <1>2 DEF AdmitAttempt
  <2>2. r.status # "provision_failed"
    OBVIOUS
  <2>. HIDE DEF r, e
  <2>3. CASE mgmt' = [mgmt EXCEPT ![e] = r]
    <3>1. mgmt'[d] = IF d = e THEN r ELSE mgmt[d]
      BY <1>0, <2>3
    <3>2. QED
      BY <2>2, <3>1 DEF RowTold, StaysRow, Row
  <2>4. QED
    BY <1>1, <2>1, <2>3
<1>3. ASSUME NEW e \in Devices, NEW b \in Bodies, ClaimAttempt(o, e, b)
      PROVE  UNCHANGED mgmt
  BY <1>3 DEF ClaimAttempt
<1>4. SubmitClaim(o) \/ Post(o) \/ OperatorDies(o) => UNCHANGED mgmt
  BY DEF SubmitClaim, Post, OperatorDies
<1>5. QED
  BY <1>1, <1>2, <1>3, <1>4 DEF OnboardStep

LEMMA RowsTold ==
    ASSUME ProvisioningInv, Next, NEW d \in Devices
    PROVE  RowTold(d)
<1>0. mgmt \in [Devices -> ManagementRows \union {NoRow}]
  BY DEF ProvisioningInv, TypeOK
<1>1. CASE UNCHANGED mgmt
  BY <1>1 DEF RowTold, StaysRow, Row
<1>2. ASSUME NEW s \in Sweepers, SweepStep(s)
      PROVE  RowTold(d)
  <2>1. ASSUME NEW a \in Attempts, Poll(s, a) \/ CloseOffboarded(s, a)
        PROVE  UNCHANGED mgmt
    BY <2>1 DEF Poll, CloseOffboarded
  <2>2. RecordPoll(s) \/ AgeOut(s) \/ Lookup(s) \/ Offboard(s) \/ FindClosed(s) \/ Abandon(s) => UNCHANGED mgmt
    BY DEF RecordPoll, AgeOut, Lookup, Offboard, FindClosed, Abandon
  <2>3. QED
    BY <1>1, <1>2, <2>1, <2>2, CompletionTells DEF SweepStep
<1>3. ASSUME NEW a \in Attempts, LateRequestLands(a) \/ JobBuilds(a) \/ JobEnds(a) \/ Callback(a)
      PROVE  UNCHANGED mgmt
  BY <1>3 DEF LateRequestLands, JobBuilds, JobEnds, Callback
<1>4. ASSUME NEW e \in Devices, LinkRow(e)
      PROVE  RowTold(d)
  <2>1. /\ Row(e) /\ \A f \in Devices \ {e} : mgmt'[f] = mgmt[f]
        /\ mgmt'[e].name = mgmt[e].name /\ mgmt'[e].job = mgmt[e].job /\ mgmt'[e].status = mgmt[e].status
    BY <1>4, LinkMoves
  <2>2. QED
    BY <2>1 DEF RowTold, StaysRow, Row
<1>5. ASSUME NEW e \in Devices, Unmanage(e)
      PROVE  RowTold(d)
  <2>1. mgmt' = [mgmt EXCEPT ![e] = NoRow]
    BY <1>5 DEF Unmanage
  <2>2. QED
    BY <1>0, <2>1 DEF RowTold, StaysRow, Row
<1>6. ASSUME NEW e \in Devices, NEW n \in Names, ManageExisting(e, n)
      PROVE  RowTold(d)
  <2>. DEFINE r == [name |-> n, job |-> 0, status |-> "", node |-> 0]
  <2>1. mgmt' = [mgmt EXCEPT ![e] = r]
    BY <1>6 DEF ManageExisting
  <2>2. r.status # "provision_failed"
    OBVIOUS
  <2>. HIDE DEF r
  <2>3. mgmt'[d] = IF d = e THEN r ELSE mgmt[d]
    BY <1>0, <2>1
  <2>4. QED
    BY <2>2, <2>3 DEF RowTold, StaysRow, Row
<1>7. QED
  BY <1>1, <1>2, <1>3, <1>4, <1>5, <1>6, OnboardTells DEF Next

\* An attempt that is closed speaks on, and one that is applied was failed by its job or its age.
LEMMA FailuresKeep ==
    ASSUME ProvisioningInv, MakerInv, FailedInv, Next
    PROVE  FailedInv'
<1>1. SUFFICES ASSUME NEW d \in Devices, mgmt'[d] # NoRow, mgmt'[d].status = "provision_failed"
               PROVE  \E a \in Born' :
                         /\ tomb'[a].device = d /\ NodeName[tomb'[a].device] = mgmt'[d].name
                         /\ tomb'[a].state = "closed" /\ tomb'[a].verdict = "bad"
                         /\ mgmt'[d].job = (IF tomb'[a].job THEN a ELSE 0)
                         /\ IF tomb'[a].job THEN job'[a].st = "bad" \/ tomb'[a].aged ELSE tomb'[a].aged
  BY DEF FailedInv, FailedBy, Row, NameOf, JobOf
<1>2. AdapterGoes /\ \A a \in Attempts : Ends(a)
  BY AdapterMoves, EveryEnd
<1>3. ASSUME NEW a \in Born, tomb[a].state \in {"terminal", "closed"}, tomb'[a].state = "closed",
             tomb[a].verdict = "bad", tomb[a].device = d, NameOf(a) = mgmt'[d].name, mgmt'[d].job = JobOf(a),
             Failure(a)
      PROVE  /\ a \in Born' /\ tomb'[a].device = d /\ NodeName[tomb'[a].device] = mgmt'[d].name
             /\ tomb'[a].state = "closed" /\ tomb'[a].verdict = "bad"
             /\ mgmt'[d].job = (IF tomb'[a].job THEN a ELSE 0)
             /\ IF tomb'[a].job THEN job'[a].st = "bad" \/ tomb'[a].aged ELSE tomb'[a].aged
  <2>1. a \in Attempts /\ a \in Born' /\ tomb'[a].device = tomb[a].device
    BY <1>2, BornStand
  <2>2. tomb'[a].job = tomb[a].job /\ tomb'[a].verdict = tomb[a].verdict /\ tomb'[a].aged = tomb[a].aged
    BY <1>2, <1>3, <2>1 DEF Ends, Judges
  <2>3. job[a].st = "bad" => job'[a].st = "bad"
    BY <1>2, <2>1 DEF AdapterGoes, Final
  <2>4. QED
    BY <1>3, <2>1, <2>2, <2>3 DEF Failure, JobOf, NameOf
<1>4. CASE StaysRow(d)
  <2>1. PICK a \in Born : FailedBy(d, a)
    BY <1>1, <1>4 DEF StaysRow, FailedInv
  <2>2. a \in Attempts /\ tomb'[a].state = "closed"
    BY <1>2, <2>1 DEF FailedBy, Ends, Judges, Born
  <2>3. QED
    BY <1>3, <1>4, <2>1, <2>2 DEF FailedBy, Failure, StaysRow
<1>5. ASSUME NEW a \in Born, IsTold(d, a)
      PROVE  /\ tomb[a].state = "terminal" /\ tomb'[a].state = "closed"
             /\ tomb[a].verdict = "bad" /\ tomb[a].device = d /\ NameOf(a) = mgmt'[d].name
             /\ mgmt'[d].job = JobOf(a) /\ Failure(a)
  <2>1. tomb[a].verdict \in {"none", "ok", "bad"}
    BY DEF ProvisioningInv, TypeOK, Tombstones, Born
  <2>2. tomb[a].verdict = "bad" /\ Failure(a)
    BY <1>5, <2>1 DEF IsTold, MakerInv, JudgedInv
  <2>3. QED
    BY <1>5, <2>2 DEF IsTold, Applies, Tracks
<1>6. QED
  BY <1>1, <1>3, <1>4, <1>5, RowsTold DEF RowTold

\* The evidence a management row carries is its own: it is ready by the job it was admitted for, and
\* failed by a closed attempt of its device, name and job, or of no job as it has none
\* (_apply_terminal_evidence, mark_provision_terminal).
THEOREM EvidenceIsItsOwn == Spec => []EvidenceFitsTheRow
<1>1. Init => FailedInv
  BY DEF Init, FailedInv, Row
<1>2. ProvisioningInv /\ MakerInv /\ FailedInv /\ [Next]_vars => FailedInv'
  <2>1. ASSUME UNCHANGED vars, FailedInv
        PROVE  FailedInv'
    BY <2>1 DEF vars, FailedInv, FailedBy, JobOf, NameOf, Row, Born, adapter
  <2>2. QED
    BY <2>1, FailuresKeep
<1>3. ProvisioningInv /\ FailedInv => EvidenceFitsTheRow
  BY DEF ProvisioningInv, ReadyRowWasProvisioned, FailedInv, EvidenceFitsTheRow
<1>4. QED
  BY <1>1, <1>2, <1>3, ProvisioningInvariant, MakersAreKnown, PTL DEF Spec
=============================================================================
