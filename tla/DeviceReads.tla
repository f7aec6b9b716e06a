---------------------------- MODULE DeviceReads ----------------------------
(***************************************************************************)
(* How the documents of the adapter reach the overlays of one device.      *)
(*                                                                         *)
(* The adapter reads a device family by family.  Every family document     *)
(* names the attempt that read it, the store incarnation that numbered the *)
(* attempt and the source epoch of the NSO device behind the mapping.      *)
(* read_gate.py admits a document in one short transaction, and runs the   *)
(* reconciler's body in a second one that requires the admission to be     *)
(* still the current one; the device tab observes the same documents       *)
(* without publishing them.  lifecycle_fence.py keeps a body that was      *)
(* planned from an unlocked overlay from undoing what an operator or a     *)
(* settlement wrote meanwhile, and summary.py decides from the rows        *)
(* whether a category may be shown without a warning chip.                 *)
(*                                                                         *)
(* Workers hold documents as long as they like, so documents arrive late,  *)
(* twice and out of order, across rebuilds of the adapter's store, rekeys  *)
(* of the source and relinks of the device; a worker that dies is one that *)
(* takes no further step.  An attempt number stands for the payload        *)
(* revision as well: each authoritative attempt has its own.               *)
(***************************************************************************)
EXTENDS Integers, Sequences

CONSTANTS NFamilies,    \* the read families of the device, in their sorted order
          Workers,      \* reconcile workers
          Born,         \* Born[i] is the birth time of store incarnation i
          Reports,      \* what a document says of the overlay's value
          None,         \* no row, no document, no answer
          Scenarios,    \* bound: which kinds of events may happen together
          MaxSource,    \* bound: source epochs
          MaxFetches,   \* bound: documents handed out
          MaxEvents     \* bound: adapter and operator events

ASSUME FamiliesAssumption == NFamilies \in Nat \ {0}
ASSUME BornAssumption == Born \in Seq(Nat \ {0}) /\ Len(Born) > 0
Kinds == {"owner", "tab", "refresh", "source", "rebuild", "legacy", "rekey", "relink"}
ASSUME ScenariosAssumption == Scenarios \subseteq SUBSET Kinds
ASSUME BoundsAssumption == MaxSource \in Nat \ {0} /\ MaxFetches \in Nat /\ MaxEvents \in Nat

VARIABLES
  adapter,    \* the store, its source epoch and the last read of each family
  mgmt,       \* NSODeviceManagement: link, adopted pair and reset markers
  rows,       \* NSOFamilyReadState of each family
  worker,     \* each reconcile worker: its document, decision and plan
  tab,        \* the documents the device tab fetched and not yet observed
  owner,      \* the overlay row of OwnerFamily with its settlement fence
  apply,      \* the captured Apply of the overlay row
  rekey,      \* the source epoch a rekey call answered, or the call's phase
  mirror,     \* history: the document each family's overlays were written from
  blanked,    \* history: families reset since their last observation
  noticed,    \* history: incarnations the device has taken notice of
  scenario,   \* bound: the kinds of events of this behaviour
  fetches,    \* bound: documents handed out so far
  events      \* bound: events so far

gateVars == <<mgmt, rows, blanked, noticed>>
bounds == <<scenario, fetches, events>>
vars == <<adapter, mgmt, rows, worker, tab, owner, apply, rekey, mirror,
          blanked, noticed, bounds>>

Families == 1..NFamilies
OwnerFamily == 1        \* the family whose overlay row is modelled
Incarnations == 1..Len(Born)
BornOf(i) == IF i = 0 THEN 0 ELSE Born[i]
Statuses == {"imported", "changed", "conflict", "error",
             "accepted", "deploying", "in_sync", "apply_failed"}
OwnedStates == {"accepted", "deploying", "in_sync", "apply_failed"}

Reads == {r \in [att : Nat, auth : BOOLEAN, report : Reports \cup {"match"}] : r.auth => r.att > 0}
Identities == [link : Nat, inc : 0..Len(Born), source : 0..MaxSource, att : Nat]
Identity(link, inc, source, att) == [link |-> link, inc |-> inc, source |-> source, att |-> att]
Nothing == Identity(0, 0, 0, 0)

(***************************************************************************)
(* The adapter.  last[f].att = 0 is a family not read since the store or   *)
(* the source changed; source 0 is an adapter that reports no epoch.       *)
(***************************************************************************)
Unread == [att |-> 0, auth |-> FALSE, report |-> "match"]

Adapters ==
  [inc : Incarnations, source : 0..MaxSource, legacy : BOOLEAN, attempts : Nat, last : [Families -> Reads]]

Document(f) ==
  LET r == adapter.last[f] IN
  [family |-> f, link |-> mgmt.link, legacy |-> adapter.legacy, inc |-> adapter.inc,
   source |-> adapter.source, att |-> r.att, auth |-> r.auth, report |-> r.report]

Documents ==
  {d \in [family : Families, link : Nat \ {0}, legacy : BOOLEAN, inc : Incarnations,
          source : 0..MaxSource, att : Nat, auth : BOOLEAN, report : Reports \cup {"match"}] :
     d.auth => d.att > 0}
Payload(d) == Identity(d.link, d.inc, d.source, d.att)

(***************************************************************************)
(* NSOFamilyReadState                                                      *)
(***************************************************************************)
ReadStates ==
  [seen : BOOLEAN, att : Nat, auth : BOOLEAN, inc : 0..Len(Born),
   admitted : Identities, applied : Identities, appliedSeq : Nat, seq : Nat]
ASSUME NoneAssumption == None \notin ReadStates \cup {<<s>> : s \in 0..MaxSource}
BlankRow == [seen |-> FALSE, att |-> 0, auth |-> FALSE, inc |-> 0,
             admitted |-> Nothing, applied |-> Nothing, appliedSeq |-> 0, seq |-> 0]

LockedRow(rs, f) == IF rs[f] = None THEN [rs EXCEPT ![f] = BlankRow] ELSE rs
Reset(rs) ==
  [f \in Families |-> IF rs[f] = None THEN None ELSE [BlankRow EXCEPT !.seq = rs[f].seq + 1]]
Kept(rs) == {f \in Families : rs[f] # None}
AllSeen(rs) == \A f \in Kept(rs) : rs[f].seen

Managements ==
  [link : Nat \ {0}, inc : 0..Len(Born), pend : 0..Len(Born), conflict : Nat,
   source : 0..MaxSource, pendSource : 0..MaxSource, aware : BOOLEAN, rekey : BOOLEAN]

\* The gate works on the management row and the family rows under one lock.
Device == [mgmt |-> mgmt, rows |-> rows, blanked |-> blanked]
Become(g) == mgmt' = g.mgmt /\ rows' = g.rows /\ blanked' = g.blanked
Blank(g) == [g EXCEPT !.rows = Reset(g.rows), !.blanked = @ \cup Kept(g.rows)]

Regresses(g, d) == d.att < g.rows[d.family].att

AdvanceObserved(g, d) ==
  LET row == [g.rows[d.family] EXCEPT !.seen = TRUE, !.att = d.att, !.auth = d.auth, !.inc = d.inc]
  IN IF Regresses(g, d) THEN g
     ELSE [g EXCEPT !.rows[d.family] = row, !.blanked = @ \ {d.family}]

\* _maybe_clear_reset_marker and _maybe_clear_source_marker
ClearReset(g) ==
  IF g.mgmt.pend # 0 /\ g.mgmt.pend = g.mgmt.inc /\ AllSeen(g.rows)
  THEN [g EXCEPT !.mgmt.pend = 0, !.mgmt.conflict = 0] ELSE g
ClearSource(g) ==
  IF g.mgmt.pendSource # 0 /\ g.mgmt.pendSource = g.mgmt.source /\ AllSeen(g.rows)
  THEN [g EXCEPT !.mgmt.pendSource = 0] ELSE g

(***************************************************************************)
(* Store incarnations                                                      *)
(***************************************************************************)
SameBirth(i, j) == j # 0 /\ i # j /\ Born[i] = Born[j]

\* variant of Register: the tie is not pinned
RegisterLatest(m, i) == [m EXCEPT !.pend = IF Born[i] >= BornOf(@) THEN i ELSE @]
Register(m, i) ==
  IF SameBirth(i, m.inc) \/ SameBirth(i, m.pend)
  THEN [m EXCEPT !.conflict = IF Born[i] > @ THEN Born[i] ELSE @,
                 !.pend = IF Born[i] >= BornOf(@) THEN i ELSE @]
  ELSE [m EXCEPT !.pend = IF Born[i] > BornOf(@) THEN i ELSE @]

Adoptable(m, i) == Born[i] > BornOf(m.inc) /\ Born[i] > m.conflict /\ ~SameBirth(i, m.pend)

\* A refused incarnation is a durable conflict when it ties with a known one.
Ambiguous(m, i) == SameBirth(i, m.inc) \/ Born[i] = m.conflict \/ SameBirth(i, m.pend)

\* variant of Adopt: the marker it reaches is cleared at once
AdoptAndClear(g, i) ==
  [Blank(g) EXCEPT !.mgmt.inc = i, !.mgmt.source = 0, !.mgmt.pendSource = 0,
                   !.mgmt.pend = IF Born[i] >= BornOf(@) THEN 0 ELSE @]
Adopt(g, i) ==
  LET b == Blank(g)
      reached == Born[i] > BornOf(g.mgmt.pend) \/ i = g.mgmt.pend
  IN [b EXCEPT !.mgmt.inc = i, !.mgmt.source = 0, !.mgmt.pendSource = 0,
               !.mgmt.pend = IF ~reached THEN @ ELSE IF Kept(g.rows) # {} THEN i ELSE 0,
               !.mgmt.conflict = IF reached /\ Kept(g.rows) = {} THEN 0 ELSE @]

(***************************************************************************)
(* Source epochs                                                           *)
(***************************************************************************)
SourceRefused(m, s) ==
  IF s = 0 THEN m.aware ELSE s < m.pendSource \/ s < m.source

\* variant of AdoptSource: the rows are left to their next read
AdoptSourceInPlace(g, s) ==
  IF s = 0 THEN g ELSE [g EXCEPT !.mgmt.source = s, !.mgmt.aware = TRUE]
AdoptSource(g, s) ==
  IF s = 0 THEN g
  ELSE LET b == IF g.mgmt.source = s THEN g
                ELSE [Blank(g) EXCEPT !.mgmt.pendSource = IF Kept(g.rows) # {} THEN s ELSE 0]
       IN [b EXCEPT !.mgmt.source = s, !.mgmt.aware = TRUE]

(***************************************************************************)
(* The gate of one document, in the order of _gate_and_record              *)
(***************************************************************************)
Linked(d) == d.link = mgmt.link /\ ~mgmt.rekey
Opened(d) == [Device EXCEPT !.rows = LockedRow(rows, d.family)]
StoreRefused(d) == d.inc # mgmt.inc /\ ~Adoptable(mgmt, d.inc)
AfterStore(d) == IF d.inc = mgmt.inc THEN Opened(d) ELSE Adopt(Opened(d), d.inc)
AfterSource(d) == AdoptSource(AfterStore(d), d.source)
Stale(d) == d.att < AfterSource(d).rows[d.family].admitted.att
InOrder(d) == Linked(d) /\ ~d.legacy /\ ~StoreRefused(d) /\ ~SourceRefused(AfterStore(d).mgmt, d.source)

Admit(g, d) ==
  LET o == AdvanceObserved(g, d)
      row == [o.rows[d.family] EXCEPT !.admitted = Payload(d), !.seq = @ + 1]
  IN [o EXCEPT !.rows[d.family] = row]

Idle == [pc |-> "idle", doc |-> None, seq |-> 0, from |-> None, plan |-> None, token |-> None]
Done(w) == worker' = [worker EXCEPT ![w] = Idle]
Notice(d) == noticed' = noticed \cup {d.inc}
GateLeaves == UNCHANGED <<adapter, tab, owner, apply, rekey, mirror, bounds>>

\* The link or the rekey fence refuses the document, or a legacy document
\* comes to a device that knows source epochs.
GateSkips(w) ==
  LET d == worker[w].doc IN
  /\ worker[w].pc = "gate"
  /\ IF Linked(d) THEN d.legacy /\ mgmt.aware /\ Become(Opened(d))
                  ELSE UNCHANGED <<mgmt, rows, blanked>>
  /\ Done(w)
  /\ UNCHANGED noticed
  /\ GateLeaves

\* A legacy document has no order: it wipes the row's observation and
\* admission, and the history of the family begins anew.
GateRunsLegacy(w) ==
  LET d == worker[w].doc
      row == LockedRow(rows, d.family)[d.family]
  IN
  /\ worker[w].pc = "gate" /\ Linked(d) /\ d.legacy /\ ~mgmt.aware
  /\ rows' = [rows EXCEPT ![d.family] =
       [BlankRow EXCEPT !.seq = row.seq + 1, !.applied = row.applied, !.appliedSeq = row.appliedSeq]]
  /\ worker' = [worker EXCEPT ![w].pc = "plan", ![w].seq = row.seq + 1]
  /\ mirror' = [mirror EXCEPT ![d.family] = Nothing]
  /\ UNCHANGED <<mgmt, blanked, noticed, adapter, tab, owner, apply, rekey, bounds>>

GateRefusesStore(w) ==
  LET d == worker[w].doc IN
  /\ worker[w].pc = "gate" /\ Linked(d) /\ ~d.legacy /\ StoreRefused(d)
  /\ Become([Opened(d) EXCEPT !.mgmt = IF Ambiguous(mgmt, d.inc) THEN Register(mgmt, d.inc) ELSE mgmt])
  /\ Done(w)
  /\ Notice(d)
  /\ GateLeaves

\* An adoption that came before the refusal is committed.
GateRefusesSource(w) ==
  LET d == worker[w].doc IN
  /\ worker[w].pc = "gate" /\ Linked(d) /\ ~d.legacy /\ ~StoreRefused(d)
  /\ SourceRefused(AfterStore(d).mgmt, d.source)
  /\ Become(AfterStore(d))
  /\ Done(w)
  /\ Notice(d)
  /\ GateLeaves

GateSkipsStale(w) ==
  LET d == worker[w].doc IN
  /\ worker[w].pc = "gate" /\ InOrder(d) /\ Stale(d)
  /\ Become(AfterSource(d))
  /\ Done(w)
  /\ Notice(d)
  /\ GateLeaves

GateAdmits(w) ==
  LET d == worker[w].doc
      g == Admit(AfterSource(d), d)
  IN
  /\ worker[w].pc = "gate" /\ InOrder(d) /\ ~Stale(d) /\ d.auth
  /\ Become(ClearSource(ClearReset(g)))
  /\ worker' = [worker EXCEPT ![w].pc = "plan", ![w].seq = g.rows[d.family].seq]
  /\ Notice(d)
  /\ GateLeaves

GateObserves(w) ==
  LET d == worker[w].doc
      g == AfterSource(d)
  IN
  /\ worker[w].pc = "gate" /\ InOrder(d) /\ ~Stale(d) /\ ~d.auth
  /\ Become(IF Regresses(g, d) THEN g ELSE ClearSource(ClearReset(AdvanceObserved(g, d))))
  /\ Done(w)
  /\ Notice(d)
  /\ GateLeaves

(***************************************************************************)
(* observe_aggregate: the device tab                                       *)
(***************************************************************************)
\* _observe_source_epoch: what a document's epoch makes of the management row.
RatchetSource(m, s) ==
  IF s = 0 THEN m
  ELSE [m EXCEPT !.aware = TRUE,
                 !.pendSource = IF s > m.source /\ s > @ THEN s ELSE @]
SourceCurrent(m, s) == IF s = 0 THEN ~m.aware ELSE s = m.source

\* The rows stay, but no body admitted before the newer epoch may publish.
FenceRows(rs) == [f \in Families |-> IF rs[f] = None THEN None ELSE [rs[f] EXCEPT !.seq = @ + 1]]

ObserveOne(g, d) ==
  LET m == RatchetSource(g.mgmt, d.source)
      o == [g EXCEPT !.mgmt = m, !.rows = IF m # g.mgmt /\ ~g.fenced THEN FenceRows(g.rows) ELSE g.rows,
                     !.fenced = @ \/ m # g.mgmt]
  IN IF d.legacy THEN g
     ELSE IF ~SourceCurrent(m, d.source) \/ (d.inc # m.inc /\ Born[d.inc] < BornOf(m.inc)) THEN o
     ELSE IF d.inc # m.inc THEN [o EXCEPT !.mgmt = Register(m, d.inc)]
     ELSE LET k == [o EXCEPT !.rows = LockedRow(o.rows, d.family)]
          IN [AdvanceObserved(k, d) EXCEPT !.wrote = @ \/ ~Regresses(k, d)]

Observed(docs) ==
  LET g[n \in 0..NFamilies] ==
        IF n = 0 THEN [mgmt |-> mgmt, rows |-> rows, blanked |-> blanked, fenced |-> FALSE, wrote |-> FALSE]
        ELSE ObserveOne(g[n - 1], docs[n])
  IN g[NFamilies]

TabFetches ==
  /\ "tab" \in scenario /\ tab = None /\ fetches < MaxFetches
  /\ fetches' = fetches + 1
  /\ tab' = [f \in Families |-> Document(f)]
  /\ UNCHANGED <<gateVars, adapter, worker, owner, apply, rekey, mirror, scenario, events>>

TabObserves ==
  /\ tab # None
  /\ tab' = None
  /\ IF Linked(tab[OwnerFamily]) /\ mgmt.inc # 0
     THEN LET g == Observed(tab) IN
          /\ Become(IF g.wrote THEN ClearSource(ClearReset(g)) ELSE g)
          /\ noticed' = noticed \cup ({g.mgmt.inc, g.mgmt.pend} \ {0})
     ELSE UNCHANGED gateVars
  /\ UNCHANGED <<adapter, worker, owner, apply, rekey, mirror, bounds>>

(***************************************************************************)
(* The overlay row and its fence                                           *)
(***************************************************************************)
\* variant of OnReconcile: the adapter's word is not translated
OnReconcileVerbatim(status, report) == IF status \in OwnedStates THEN status ELSE report
\* status_machine.on_reconcile for a value overlay whose in-flight rows are
\* settled by the result of their Apply (settles_deploying=False).
OnReconcile(status, report) ==
  CASE report = "absent" -> IF status \in {"accepted", "deploying", "apply_failed", "changed"}
                            THEN status ELSE "changed"
    [] report # "absent" /\ status \in {"apply_failed", "deploying"} -> status
    [] report # "absent" /\ status \in {"accepted", "in_sync"} ->
         IF report = "match" THEN "in_sync" ELSE "accepted"
    [] OTHER -> CASE report = "match" -> "imported"
                  [] report = "differ" -> "changed"
                  [] OTHER -> "conflict"

\* mapping_epoch and bookkeeping_revision of the owner's fence
MappingEpoch == <<mgmt.link, IF mgmt.pend # 0 THEN mgmt.pend ELSE mgmt.inc, mgmt.source>>
Token == <<MappingEpoch, owner.rev>>

Decision(w) == IF worker[w].doc.legacy THEN Nothing ELSE Payload(worker[w].doc)

\* variant of PublicationMatches: only the mapping is compared
MappingMatches(w) == mgmt.link = worker[w].doc.link /\ mgmt.source = Decision(w).source /\ ~mgmt.rekey
\* _locked_publication_matches and, without the locks, _publication_identity_current
PublicationMatches(w) ==
  LET row == rows[worker[w].doc.family] IN
  /\ mgmt.link = worker[w].doc.link /\ mgmt.source = Decision(w).source /\ ~mgmt.rekey
  /\ row.seq = worker[w].seq /\ row.admitted = Decision(w)

\* what pre_body, the token and the plan leave in a worker's hands
Tokens == (Nat \X (0..Len(Born)) \X (0..MaxSource)) \X Nat
Busy == [pc : {"gate", "plan", "token", "publish", "mark"}, doc : Documents, seq : Nat,
         from : Statuses \cup {None}, plan : Statuses \cup {None}, token : Tokens \cup {None}]

\* variant of Protected: a fresh token is enough
ProtectedByToken(w) == worker[w].token # Token
\* protected_read_fields: may a read not write the row's bookkeeping?
NewObservation(w) == ~worker[w].doc.legacy /\ owner.watermark # Decision(w)
Protected(w) ==
  \/ worker[w].token # Token
  \/ owner.attempt /\ ~(owner.status = "in_sync" /\ NewObservation(w))
  \/ owner.status \in {"accepted", "deploying", "apply_failed"}

Leaves == UNCHANGED <<adapter, tab, apply, rekey, blanked, noticed, bounds>>

Fetch(w) ==
  /\ worker[w].pc = "idle" /\ fetches < MaxFetches
  /\ fetches' = fetches + 1
  /\ \E f \in Families : worker' = [worker EXCEPT ![w] = [Idle EXCEPT !.pc = "gate", !.doc = Document(f)]]
  /\ UNCHANGED <<gateVars, adapter, tab, owner, apply, rekey, mirror, scenario, events>>

\* pre_body reads the overlay without a lock and plans its next status.
Plan(w) ==
  LET d == worker[w].doc IN
  /\ worker[w].pc = "plan"
  /\ IF PublicationMatches(w)
     THEN worker' = [worker EXCEPT
            ![w].pc = IF d.family = OwnerFamily THEN "token" ELSE "publish",
            ![w].from = IF d.family = OwnerFamily THEN owner.status ELSE None,
            ![w].plan = IF d.family = OwnerFamily THEN OnReconcile(owner.status, d.report) ELSE None]
     ELSE Done(w)
  /\ UNCHANGED <<mgmt, rows, owner, mirror>>
  /\ Leaves

\* capture_read_tokens comes after the plan has read the row.
CaptureToken(w) ==
  /\ worker[w].pc = "token"
  /\ worker' = [worker EXCEPT ![w].pc = "publish", ![w].token = Token]
  /\ UNCHANGED <<mgmt, rows, owner, mirror>>
  /\ Leaves

\* A frozen plan is stale when the row it was made from has changed, unless
\* the change is protected or is what the plan wanted.
PlanIsStale(w) ==
  /\ worker[w].doc.family = OwnerFamily /\ ~Protected(w)
  /\ owner.status \notin {worker[w].from, worker[w].plan}

\* The body's transaction: overlay, applied identity and watermark at once.
WriteOwner(w) ==
  LET status == IF Protected(w) THEN owner.status ELSE worker[w].plan
      watermark == IF worker[w].doc.legacy THEN owner.watermark ELSE Decision(w)
  IN [owner EXCEPT !.status = status, !.watermark = watermark,
        !.rev = IF status # owner.status \/ watermark # owner.watermark THEN @ + 1 ELSE @]

Publish(w) ==
  LET d == worker[w].doc IN
  /\ worker[w].pc = "publish"
  /\ PublicationMatches(w) /\ ~PlanIsStale(w)
  /\ rows' = [rows EXCEPT ![d.family].applied = Decision(w), ![d.family].appliedSeq = worker[w].seq]
  /\ owner' = IF d.family = OwnerFamily THEN WriteOwner(w) ELSE owner
  /\ mirror' = [mirror EXCEPT ![d.family] = Decision(w)]
  /\ Done(w)
  /\ UNCHANGED mgmt
  /\ Leaves

Superseded(w) ==
  /\ worker[w].pc = "publish"
  /\ ~PublicationMatches(w) \/ PlanIsStale(w)
  /\ Done(w)
  /\ UNCHANGED <<mgmt, rows, owner, mirror>>
  /\ Leaves

\* The body raises: its transaction is rolled back, and a later one marks the
\* unowned rows of the scope while the admission is still the current one.
BodyFails(w) ==
  /\ worker[w].pc = "publish"
  /\ worker' = [worker EXCEPT ![w] = IF PublicationMatches(w) THEN [@ EXCEPT !.pc = "mark"] ELSE Idle]
  /\ UNCHANGED <<mgmt, rows, owner, mirror>>
  /\ Leaves

MarkError(w) ==
  /\ worker[w].pc = "mark"
  /\ owner' = IF /\ PublicationMatches(w) /\ worker[w].doc.family = OwnerFamily
                 /\ owner.status \notin OwnedStates \cup {"error"}
              THEN [owner EXCEPT !.status = "error", !.rev = @ + 1] ELSE owner
  /\ Done(w)
  /\ UNCHANGED <<mgmt, rows, mirror>>
  /\ Leaves

(***************************************************************************)
(* What else writes the overlay row: the operator and the Apply.  The      *)
(* certified revision is the claim a settlement last confirmed.            *)
(***************************************************************************)
Event(kind) == kind \in scenario /\ events < MaxEvents /\ events' = events + 1 /\ UNCHANGED scenario
OwnerLeaves == UNCHANGED <<gateVars, adapter, worker, tab, rekey, mirror, fetches>>

Owners ==
  [status : Statuses, rev : Nat, claim : Nat, attempt : BOOLEAN, watermark : Identities, certified : Int]

\* finish_locked_owners: a successor forgets the attempt that spoke for the row.
Successor(status) ==
  [owner EXCEPT !.status = status, !.rev = @ + 1, !.claim = @ + 1, !.attempt = FALSE]

Accept ==
  /\ Event("owner") /\ owner.status \in {"imported", "changed", "conflict", "apply_failed"}
  /\ owner' = Successor("accepted")
  /\ UNCHANGED apply /\ OwnerLeaves

Edit ==
  /\ Event("owner")
  /\ owner' = Successor("accepted")
  /\ UNCHANGED apply /\ OwnerLeaves

Release ==
  /\ Event("owner") /\ owner.status \in {"accepted", "in_sync", "apply_failed"}
  /\ owner' = Successor("imported")
  /\ UNCHANGED apply /\ OwnerLeaves

\* The capture marks the row and keeps the identity its families stand for.
ApplyStarts ==
  /\ Event("owner") /\ apply = None /\ owner.status \in {"accepted", "apply_failed"}
  /\ owner' = [owner EXCEPT !.status = "deploying", !.rev = @ + 1, !.attempt = TRUE]
  /\ apply' = [claim |-> owner.claim, prior |-> owner.status,
               watermark |-> IF rows[OwnerFamily] = None THEN Nothing ELSE rows[OwnerFamily].applied]
  /\ OwnerLeaves

\* The owner's outcome is a success, a refusal or unavailable, which restores
\* the status from before; an outcome of a replaced claim is superseded.
ApplySettles ==
  /\ apply # None
  /\ owner' \in IF apply.claim # owner.claim THEN {owner}
               ELSE {[owner EXCEPT !.status = s, !.rev = @ + 1, !.attempt = TRUE,
                                   !.watermark = apply.watermark,
                                   !.certified = IF s = "in_sync" THEN apply.claim ELSE @] :
                        s \in {"in_sync", "apply_failed", apply.prior}}
  /\ apply' = None
  /\ UNCHANGED <<scenario, events>> /\ OwnerLeaves

(***************************************************************************)
(* The adapter                                                             *)
(***************************************************************************)
AdapterLeaves == UNCHANGED <<gateVars, worker, tab, owner, apply, mirror, fetches>>

\* A new store, source or mapping has read every family already, or none.
Restarts(a) ==
  {[a EXCEPT !.last = [f \in Families |-> Unread]],
   [a EXCEPT !.attempts = @ + 1,
             !.last = [f \in Families |-> [att |-> a.attempts + 1, auth |-> TRUE, report |-> "match"]]]}

\* The adapter reads a family again.  Attempts number the store's reads.
Refresh(f) ==
  /\ Event("refresh")
  /\ \E auth \in BOOLEAN, report \in Reports :
       /\ (auth /\ f = OwnerFamily) \/ report = "match"
       /\ adapter' = [adapter EXCEPT !.attempts = @ + 1,
            !.last[f] = [att |-> adapter.attempts + 1, auth |-> auth, report |-> report]]
  /\ UNCHANGED rekey /\ AdapterLeaves

\* Somebody else rekeys the source, or the adapter learns to number sources.
SourceMoves ==
  /\ Event("source") /\ adapter.source < MaxSource
  /\ adapter' \in Restarts([adapter EXCEPT !.source = @ + 1])
  /\ UNCHANGED rekey /\ AdapterLeaves

\* A rebuilt or restored store numbers attempts and sources afresh.
Rebuild ==
  /\ Event("rebuild")
  /\ \E i \in Incarnations \ {adapter.inc}, s \in {0, 1} :
       /\ (s = 0) = (adapter.source = 0)
       /\ adapter' \in Restarts([adapter EXCEPT !.inc = i, !.attempts = 0, !.source = s])
  /\ UNCHANGED rekey /\ AdapterLeaves

\* An adapter from before the read-state protocol, or its replacement.
Downgrade ==
  /\ Event("legacy")
  /\ adapter' = [adapter EXCEPT !.legacy = ~@]
  /\ UNCHANGED rekey /\ AdapterLeaves

(***************************************************************************)
(* Source rekey and relink                                                 *)
(***************************************************************************)
Fenced == <<0>>    \* otherwise the call's answer: the new source epoch
RekeyLeaves == UNCHANGED <<worker, tab, owner, apply, noticed, fetches>>

\* _prepare_source_fence: the save that renames the source fences it.
RekeyMarks ==
  /\ Event("rekey") /\ rekey = None /\ ~mgmt.rekey
  /\ mgmt' = [mgmt EXCEPT !.rekey = TRUE]
  /\ UNCHANGED <<adapter, rows, blanked, rekey, mirror>> /\ RekeyLeaves

\* _sync_source_change, first transaction: _invalidate_source_admissions.  What
\* the families were written from is the renamed source's no more.
RekeyFences ==
  /\ mgmt.rekey /\ rekey = None
  /\ Become(Blank(Device))
  /\ mirror' = [f \in Families |-> Nothing]
  /\ rekey' = Fenced
  /\ UNCHANGED <<adapter, scenario, events>> /\ RekeyLeaves

\* patch_device: the adapter answers with the epoch of the new source.
RekeyCalls ==
  /\ rekey = Fenced /\ adapter.source < MaxSource
  /\ adapter' \in Restarts([adapter EXCEPT !.source = @ + 1])
  /\ rekey' = <<adapter.source + 1>>
  /\ UNCHANGED <<mgmt, rows, blanked, mirror, scenario, events>> /\ RekeyLeaves

\* The call fails, its answer is lost or the process dies; the device stays
\* fenced until the link repair runs the whole exchange again.
RekeyFails ==
  /\ Event("rekey") /\ rekey # None
  /\ rekey' = None
  /\ UNCHANGED <<adapter, mgmt, rows, blanked, mirror>> /\ RekeyLeaves

\* second transaction
RekeyEnds ==
  /\ rekey # None /\ rekey # Fenced
  /\ mgmt' = [mgmt EXCEPT !.rekey = FALSE, !.source = rekey[1], !.aware = TRUE,
                          !.pendSource = IF Kept(rows) # {} THEN rekey[1] ELSE 0]
  /\ rekey' = None
  /\ UNCHANGED <<adapter, rows, blanked, mirror, scenario, events>> /\ RekeyLeaves

\* _onboard_into_adapter: a new mapping, with its own source numbering.  Its
\* rows are blanked without a marker: they show no chip until observed.
Relink ==
  /\ Event("relink") /\ ~mgmt.rekey
  /\ \E s \in 0..MaxSource :
       /\ (s = 0) = (adapter.source = 0)
       /\ adapter' \in Restarts([adapter EXCEPT !.source = s])
       /\ mgmt' = [mgmt EXCEPT !.link = @ + 1, !.source = s, !.aware = s # 0]
  /\ rows' = Reset(rows)
  /\ UNCHANGED <<blanked, rekey, mirror>> /\ RekeyLeaves

(***************************************************************************)
(* A device that was settled on its first store, or one never read.        *)
(***************************************************************************)
Init ==
  \E settled \in BOOLEAN, source \in {0, 1}, owned \in BOOLEAN :
    LET first == Identity(1, 1, source, 1) IN
    /\ owned => settled
    /\ adapter = [inc |-> 1, source |-> source, legacy |-> FALSE, attempts |-> 1,
                  last |-> [f \in Families |-> [att |-> 1, auth |-> TRUE, report |-> "match"]]]
    /\ mgmt = [link |-> 1, inc |-> IF settled THEN 1 ELSE 0, pend |-> 0, conflict |-> 0,
               source |-> IF settled THEN source ELSE 0, pendSource |-> 0,
               aware |-> settled /\ source # 0, rekey |-> FALSE]
    /\ rows = [f \in Families |-> IF settled
                 THEN [seen |-> TRUE, att |-> 1, auth |-> TRUE, inc |-> 1, admitted |-> first,
                       applied |-> first, appliedSeq |-> 1, seq |-> 1]
                 ELSE None]
    /\ mirror = [f \in Families |-> IF settled THEN first ELSE Nothing]
    /\ owner = [status |-> IF owned THEN "in_sync" ELSE "imported", rev |-> 0, claim |-> 0,
                attempt |-> owned, watermark |-> IF settled THEN first ELSE Nothing,
                certified |-> IF owned THEN 0 ELSE -1]
    /\ worker = [w \in Workers |-> Idle]
    /\ tab = None /\ apply = None /\ rekey = None
    /\ blanked = {} /\ noticed = IF settled THEN {1} ELSE {}
    /\ scenario \in Scenarios /\ fetches = 0 /\ events = 0
    \* bound: an adapter that numbers no sources, and a device never read, only where it tells
    /\ source = 0 => "source" \in scenario
    /\ "owner" \in scenario => settled

GateStep(w) ==
  \/ GateSkips(w) \/ GateRunsLegacy(w) \/ GateRefusesStore(w) \/ GateRefusesSource(w)
  \/ GateSkipsStale(w) \/ GateAdmits(w) \/ GateObserves(w)
BodyStep(w) ==
  \/ Plan(w) \/ CaptureToken(w) \/ Publish(w) \/ Superseded(w) \/ BodyFails(w) \/ MarkError(w)
AdapterStep == (\E f \in Families : Refresh(f)) \/ SourceMoves \/ Rebuild \/ Downgrade
OwnerStep == Accept \/ Edit \/ Release \/ ApplyStarts \/ ApplySettles
LinkStep == RekeyMarks \/ RekeyFences \/ RekeyCalls \/ RekeyFails \/ RekeyEnds \/ Relink

Next ==
  \/ \E w \in Workers : Fetch(w) \/ GateStep(w) \/ BodyStep(w)
  \/ TabFetches \/ TabObserves
  \/ AdapterStep \/ OwnerStep \/ LinkStep

Spec == Init /\ [][Next]_vars

(***************************************************************************)
(* Properties                                                              *)
(***************************************************************************)
\* The shape of every row, document and plan.
TypeOK ==
  /\ adapter \in Adapters
  /\ mgmt \in Managements
  /\ rows \in [Families -> ReadStates \cup {None}]
  /\ worker \in [Workers -> {Idle} \cup Busy]
  /\ tab \in [Families -> Documents] \cup {None}
  /\ owner \in Owners
  /\ apply \in [claim : Nat, prior : {"accepted", "apply_failed"}, watermark : Identities] \cup {None}
  /\ rekey \in {None, Fenced} \cup {<<s>> : s \in 1..MaxSource}
  /\ mirror \in [Families -> Identities] /\ blanked \subseteq Families /\ noticed \subseteq Incarnations
  /\ scenario \subseteq Kinds /\ {fetches, events} \subseteq Nat

\* category_read_chip and _family_read_display for a category of one family
ResetPending == mgmt.rekey \/ mgmt.pend # 0 \/ mgmt.pendSource # 0
NoWarning(f) ==
  LET row == rows[f] IN
  /\ ~ResetPending
  /\ \/ row = None /\ mgmt.inc = 0
     \/ /\ row # None
        /\ \/ ~row.seen
           \/ mgmt.inc # 0 /\ row.inc # mgmt.inc
           \/ row.auth /\ row.appliedSeq = row.seq /\ row.att <= row.applied.att

\* A family whose read state a rebuilt store or a new source wiped, and which
\* nobody has observed since, carries a warning whatever its old overlays say.
BlankRowsAreMarked == blanked # {} => ResetPending

\* A category shown without a warning over a read was written, by a body that
\* ran to its end, from the very read its row reports: of the current link, the
\* adopted store and the adopted source.  No chip is shown either where no read
\* speaks for the category: its overlays were never written, or a legacy
\* document without an order began them anew (both Nothing), or they are still
\* those of an earlier link, for a relink blanks the rows without a marker.
UnwarnedIsCurrent ==
  \A f \in Families : NoWarning(f) =>
     IF rows[f] # None /\ rows[f].seen
     THEN mirror[f] = Identity(mgmt.link, mgmt.inc, mgmt.source, rows[f].att)
     ELSE mirror[f] = Nothing \/ mirror[f].link < mgmt.link

\* Under one link, store and source the overlays of a family never go back to
\* an older read, however late a document is admitted or a body runs.  A rekey
\* through this plugin begins a new history.
OverlaysNeverGoBack ==
  [][\A f \in Families :
       LET was == mirror[f] is == mirror'[f] IN
       was # Nothing /\ is # Nothing /\ was.link = is.link /\ was.inc = is.inc /\ was.source = is.source
         => is.att >= was.att]_vars

\* Of two stores born at the same time neither is adopted once both were seen,
\* as long as no younger store was: the markers remember the youngest only.
AmbiguousStoreIsNotAdopted ==
  [][mgmt'.inc # mgmt.inc =>
       \A i \in noticed : i # mgmt'.inc /\ Born[i] = Born[mgmt'.inc] =>
         \E j \in noticed : Born[j] > Born[i]]_vars

\* A row is in_sync only for the claim that a settlement confirmed: no read,
\* however it was planned, turns a pending, failed or released row in sync.
InSyncWasSettled == owner.status = "in_sync" => owner.certified = owner.claim
=============================================================================
