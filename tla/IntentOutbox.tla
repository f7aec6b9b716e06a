---------------------------- MODULE IntentOutbox ----------------------------
(***************************************************************************)
(* The durable intent outbox of one (device, delivery scope) key: what     *)
(* outbox.py appends in an operator's transaction, what drain.py claims,   *)
(* sends, settles or gives back, and the adapter's receipt at the far end. *)
(*                                                                         *)
(* Operators write overlays and append rows; workers (the on-commit drain, *)
(* the tick, a forced push) claim every unconsumed row as one numbered     *)
(* operation and deliver it.  Everything a claim or an outcome does runs   *)
(* under the key's state-row lock, so each is one action; the HTTP call    *)
(* holds no lock and is split into Transmit, an adapter step and an        *)
(* outcome, with crashes, timeouts and lease expiry in between.            *)
(***************************************************************************)
EXTENDS Integers, FiniteSets

CONSTANTS
    Routes,      \* the objects a scope's full-replace body may name
    Workers,     \* processes that may drain the key
    PerObject,   \* marking mode: TRUE for static_route, FALSE for query-flag scopes
    Modes,       \* request modes that callers ask for
    Forces,      \* the values callers give to "force"
    BadGens,     \* contents the body validators refuse
    Events,      \* the faults and operator commands this instance explores
    MaxGen,      \* bound on content generations
    MaxEntries,  \* bound on outbox rows ever appended
    MaxSeq,      \* bound on push sequences ever allocated
    MaxEpoch,    \* bound on adapter mapping changes
    MaxSource    \* bound on adapter source-epoch changes

RequestModes == {"normal", "store_only", "backfill"}
AllEvents == {"crash", "expire", "degrade", "malform", "unlink", "remap", "rebuild",
              "offboard", "bypass", "compact", "shut", "accept_over_pending"}

ASSUME RoutesAssumption == IsFiniteSet(Routes)
ASSUME ModesAssumption ==
    /\ PerObject \in BOOLEAN
    /\ Modes \subseteq RequestModes
    /\ Forces \subseteq BOOLEAN
    /\ Events \subseteq AllEvents
ASSUME BoundsAssumption ==
    /\ BadGens \subseteq Nat \ {0}
    /\ MaxGen \in Nat /\ MaxEntries \in Nat /\ MaxSeq \in Nat
    /\ MaxEpoch \in Nat /\ MaxSource \in Nat

VARIABLES
    intent,    \* the rendered content of each route, 0 when it is not owned
    removal,   \* history: why a route is not owned ("deleted", "released", "none")
    lastGen,   \* the last content generation handed out
    entries,   \* NSOIntentOutboxEntry rows
    nextId,    \* the next row's primary key
    state,     \* the NSOIntentOutboxState row
    lastSeq,   \* the push sequence last allocated
    mgmt,      \* what the NSODeviceManagement row says of the adapter
    wk,        \* one record per worker
    net,       \* requests on the wire, including those nobody waits for any more
    far        \* the adapter: its receipt, its store and the state of its fence

vars == <<intent, removal, lastGen, entries, nextId, state, lastSeq, mgmt, wk, net, far>>
ownerVars == <<intent, removal, lastGen>>
rowVars == <<entries, nextId>>

-----------------------------------------------------------------------------
(* Rows, claims and identities                                             *)

Gens == 0 .. MaxGen
Content == [Routes -> Gens]
Nothing == [r \in Routes |-> 0]
Reasons == {"none", "deleted", "released"}
Ops == {"none", "delete", "revoke"}
NoOps == [r \in Routes |-> "none"]

EntryType == [id : Nat, kind : {"ordinary", "repair"}, ops : [Routes -> Ops],
              all : BOOLEAN, any : BOOLEAN, by : Nat]

ClaimType == [seq : Nat, body : Content, dels : SUBSET Routes, mode : RequestModes,
              mark : BOOLEAN, any : BOOLEAN, device : Nat, inc : Nat, source : Nat,
              why : [Routes -> Reasons]]

NoClaim == [seq |-> 0, body |-> Nothing, dels |-> {}, mode |-> "normal",
            mark |-> FALSE, any |-> FALSE, device |-> 0, inc |-> 0, source |-> 0,
            why |-> [r \in Routes |-> "none"]]

\* variant of Identity: blind to the mapping epoch
EpochBlindIdentity(c) == [body |-> c.body, dels |-> c.dels, mode |-> c.mode, mark |-> c.mark,
                          device |-> 1, inc |-> 0]
\* request_identity: body, mode, authority, mark and the mapping epoch
Identity(c) == [body |-> c.body, dels |-> c.dels, mode |-> c.mode, mark |-> c.mark,
                device |-> c.device, inc |-> c.inc]
IdentityType == [body : Content, dels : SUBSET Routes, mode : RequestModes,
                 mark : BOOLEAN, device : Nat, inc : Nat]
NoIdentity == Identity(NoClaim)

\* wire_digest: the bytes sent, which carry neither the mode nor the mark
Digest(c) == [body |-> c.body, dels |-> c.dels]

Idle == [pc |-> "idle", claim |-> NoClaim, code |-> "none", out |-> {}]
Codes == {"none", "ok", "inexact", "refused", "fence_shut", "validation_error"}
WorkerType == [pc : {"idle", "claimed", "sent", "answered"}, claim : ClaimType,
               code : Codes, out : SUBSET Routes]

BlankStore == [seq |-> 0, digest |-> Digest(NoClaim), code |-> "ok", out |-> {},
               held |-> Nothing, shut |-> FALSE, lost |-> {}, taken |-> {}, astray |-> FALSE]
FarType == [seq : Nat, digest : [body : Content, dels : SUBSET Routes], code : Codes,
            out : SUBSET Routes, held : Content, shut : BOOLEAN,
            lost : SUBSET (Routes \X Nat), taken : SUBSET Routes, astray : BOOLEAN]

StateType == [claim : ClaimType, leased : BOOLEAN, queued : SUBSET Routes,
              revoked : SUBSET Routes, lastOk : IdentityType, withheld : BOOLEAN,
              degraded : SUBSET Nat]
MgmtType == [link : {"linked", "unlinked", "offboarded"}, device : Nat, inc : Nat,
             source : Nat, trusted : BOOLEAN, adopting : BOOLEAN]

TypeOK ==
    /\ intent \in Content
    /\ removal \in [Routes -> Reasons]
    /\ lastGen \in Gens
    /\ entries \subseteq EntryType
    /\ nextId \in Nat
    /\ state \in StateType
    /\ lastSeq \in Nat
    /\ mgmt \in MgmtType
    /\ wk \in [Workers -> WorkerType]
    /\ net \subseteq [w : Workers, claim : ClaimType]
    /\ far \in FarType

Init ==
    /\ intent = Nothing
    /\ removal = [r \in Routes |-> "none"]
    /\ lastGen = 0
    /\ entries = {}
    /\ nextId = 1
    /\ state = [claim |-> NoClaim, leased |-> FALSE, queued |-> {}, revoked |-> {},
                lastOk |-> NoIdentity, withheld |-> FALSE, degraded |-> {}]
    /\ lastSeq = 0
    /\ mgmt = [link |-> "linked", device |-> 1, inc |-> 0, source |-> 0,
               trusted |-> TRUE, adopting |-> FALSE]
    /\ wk = [w \in Workers |-> Idle]
    /\ net = {}
    /\ far \in {[BlankStore EXCEPT !.shut = s] : s \in {FALSE, PerObject /\ "shut" \in Events}}

-----------------------------------------------------------------------------
(* The authority algebra: the rows of a set, read in id order              *)

Unconsumed == {e \in entries : e.by = 0}
Ordinary(E) == {e \in E : e.kind = "ordinary"}

\* the last transition that E records for r is a deletion, or a re-ownership
Deletes(E, r) == \E e \in E : e.ops[r] = "delete" /\ \A f \in E : f.id > e.id => f.ops[r] # "revoke"
Revokes(E, r) == \E e \in E : e.ops[r] = "revoke" /\ \A f \in E : f.id > e.id => f.ops[r] # "delete"

\* variant of FoldQueued: a re-ownership does not withdraw what an earlier fold queued
StickyQueued(E, held, queued) == {r \in Routes : Deletes(E, r) /\ r \notin held} \cup queued
\* fold_transitions: deletion authority after E, given the ids a live claim holds
FoldQueued(E, held, queued) ==
    {r \in Routes : Deletes(E, r) /\ r \notin held}
        \cup {r \in queued : \A e \in E : e.ops[r] # "revoke"}
FoldRevoked(E, held, revoked) ==
    {r \in revoked : \A e \in E : e.ops[r] # "delete"} \cup {r \in held : Revokes(E, r)}

\* variant of MarkAll: one deletion marks the whole contribution
MarkIfAny(E) == \E e \in Ordinary(E) : e.all
\* _contribution_marks: AND and OR over the ordinary contributors
MarkAll(E) == Ordinary(E) # {} /\ \A e \in Ordinary(E) : e.all
MarkAny(E) == \E e \in Ordinary(E) : e.any

WorkPending == state.claim.seq # 0 \/ state.queued # {} \/ Unconsumed # {}
Bad(body) == \E r \in Routes : body[r] \in BadGens

-----------------------------------------------------------------------------
(* Operator transactions: an overlay write and its row, or neither         *)

Append(kind, ops, mark) ==
    /\ nextId <= MaxEntries
    /\ entries' = entries \cup {[id |-> nextId, kind |-> kind, ops |-> ops,
                                 all |-> mark, any |-> mark, by |-> 0]}
    /\ nextId' = nextId + 1

\* the overlay handlers append nothing while the row names no adapter device
Contribute(ops, mark) ==
    IF mgmt.link = "linked" THEN Append("ordinary", ops, mark) ELSE UNCHANGED rowVars

\* a per-object item carries a fresh generation; elsewhere content may repeat
NewContent(r) == IF PerObject THEN {lastGen + 1} \cap Gens ELSE (1 .. MaxGen) \ {intent[r]}

Write(r, g, why) ==
    /\ intent' = [intent EXCEPT ![r] = g]
    /\ removal' = [removal EXCEPT ![r] = why]
    /\ lastGen' = IF g > lastGen THEN g ELSE lastGen
    /\ UNCHANGED <<state, lastSeq, mgmt, wk, net, far>>

\* deletion authority over r that some home still holds
Pending(r) ==
    r \in state.queued \cup state.claim.dels \/ Deletes(Ordinary(entries), r)

\* an operator accepts a route, or edits one that is owned.  An accept records no
\* transition, so accepting a route whose deletion is pending is an event of its own.
AcceptOrEdit(r) ==
    /\ mgmt.link # "offboarded"
    /\ intent[r] = 0 /\ Pending(r) => "accept_over_pending" \in Events
    /\ \E g \in NewContent(r) : Write(r, g, "none")
    /\ Contribute(NoOps, FALSE)

\* the ownership planner re-owns a retired manifest and records the revocation
Reown(r) ==
    /\ PerObject /\ mgmt.link = "linked" /\ intent[r] = 0
    /\ \E g \in NewContent(r) : Write(r, g, "none")
    /\ Append("ordinary", [NoOps EXCEPT ![r] = "revoke"], FALSE)

\* a deletion: recorded per route, or by the mark of the whole contribution.
\* A retracted manifest's static-route row is unmarked, an operator's is marked.
Delete(r) ==
    /\ mgmt.link # "offboarded" /\ intent[r] # 0
    /\ Write(r, 0, IF mgmt.link = "linked" THEN "deleted" ELSE "released")
    /\ \E mark \in IF PerObject THEN BOOLEAN ELSE {TRUE} :
          Contribute(IF PerObject THEN [NoOps EXCEPT ![r] = "delete"] ELSE NoOps, mark)

\* an un-own: the overlay stops being owned and the device keeps its object
Release(r) ==
    /\ mgmt.link # "offboarded" /\ intent[r] # 0
    /\ Write(r, 0, "released")
    /\ Contribute(NoOps, FALSE)

\* a write that bypassed the exact writer: no row, and the fingerprint differs
Bypass(r) ==
    /\ "bypass" \in Events /\ mgmt.link # "offboarded" /\ intent[r] # 0 /\ ~PerObject
    /\ \E g \in NewContent(r) :
          /\ intent' = [intent EXCEPT ![r] = g]
          /\ lastGen' = IF g > lastGen THEN g ELSE lastGen
    /\ mgmt' = [mgmt EXCEPT !.trusted = FALSE]
    /\ UNCHANGED <<removal, rowVars, state, lastSeq, wk, net, far>>

\* the renderer audit repairs an untrusted baseline: every rendered static route is
\* re-armed with a fresh generation, and a repair row makes the key drain
Audit ==
    /\ mgmt.link = "linked" /\ ~mgmt.trusted
    /\ IF PerObject /\ intent # Nothing
       THEN /\ lastGen < MaxGen
            /\ intent' = [r \in Routes |-> IF intent[r] = 0 THEN 0 ELSE lastGen + 1]
            /\ lastGen' = lastGen + 1
       ELSE UNCHANGED <<intent, lastGen>>
    /\ Append("repair", NoOps, FALSE)
    /\ mgmt' = [mgmt EXCEPT !.trusted = TRUE]
    /\ UNCHANGED <<removal, state, lastSeq, wk, net, far>>

-----------------------------------------------------------------------------
(* Compaction: contiguous unconsumed rows of one kind that name no held id *)

\* variant of Compactable: rows that name a held route are merged too
AlwaysCompactable(e) == e \in entries
Compactable(e) == \A r \in state.claim.dels : e.ops[r] = "none"
SameSpan(e, f) ==
    \A g \in Unconsumed :
        (e.id <= g.id /\ g.id <= f.id) \/ (f.id <= g.id /\ g.id <= e.id)
            => Compactable(g) /\ g.kind = e.kind
Span(e) == {f \in Unconsumed : SameSpan(e, f)}
LastOp(E, r) == IF Deletes(E, r) THEN "delete" ELSE IF Revokes(E, r) THEN "revoke" ELSE "none"

\* variant of Merged: the survivor keeps its own transitions
KeepsOwnOps(e) == [e EXCEPT !.all = MarkAll(Span(e)), !.any = MarkAny(Span(e))]
\* the highest row of a span survives with the span's reduced transitions and marks
Merged(e) ==
    IF Compactable(e)
    THEN [e EXCEPT !.ops = [r \in Routes |-> LastOp(Span(e), r)],
                   !.all = MarkAll(Span(e)), !.any = MarkAny(Span(e))]
    ELSE e
Survives(e) == \A f \in Unconsumed : f.id > e.id => ~SameSpan(e, f)

Compact ==
    /\ "compact" \in Events
    /\ \E e \in Unconsumed : ~Survives(e)
    /\ entries' = {e \in entries : e.by # 0} \cup {Merged(e) : e \in {f \in Unconsumed : Survives(f)}}
    /\ UNCHANGED <<ownerVars, nextId, state, lastSeq, mgmt, wk, net, far>>

-----------------------------------------------------------------------------
(* The claim                                                               *)

\* variant of GiveBack: the rows stay consumed
LeavesRows(E) == E
\* _abandon_locked: rows return to unconsumed and authority to the queue
GiveBack(E) == {IF e.by = state.claim.seq THEN [e EXCEPT !.by = 0] ELSE e : e \in E}
Rehomed == [state EXCEPT !.queued = @ \cup (state.claim.dels \ state.revoked),
                         !.claim = NoClaim, !.leased = FALSE]

\* history: the live claim is abandoned although its own adapter has applied it, or a
\* request or a sender still carries it there; no abandon asks
MayLand(W) ==
    /\ state.claim.device = mgmt.device /\ state.claim.inc = mgmt.inc
    /\ \/ far.seq = state.claim.seq
       \/ \E m \in net : m.claim.seq = state.claim.seq
       \/ \E v \in W : wk[v].claim.seq = state.claim.seq
GoesAstray(W) == far' = [far EXCEPT !.astray = @ \/ MayLand(W)]

\* what _claim_locked refuses before it looks at the operation itself
Claimable(w, mode, force) ==
    /\ wk[w].pc = "idle"
    /\ ~state.leased
    /\ force \/ WorkPending
    /\ state.withheld => mode = "backfill"
    /\ mgmt.link = "linked"

\* variant of AskedModes: nothing substitutes the backfill for a withheld send
CallersModes == Modes
\* the modes a drain may ask for: its caller's, or the backfill a shut fence forces
AskedModes == Modes \cup (IF state.withheld THEN {"backfill"} ELSE {})

\* request identity and capture still match the mapping and the source epoch
Current(c) == c.device = mgmt.device /\ c.inc = mgmt.inc /\ c.source = mgmt.source

Holds(w, c) == wk' = [wk EXCEPT ![w] = [Idle EXCEPT !.pc = "claimed", !.claim = c]]

\* variant of Takeover: the replay renders the body again under the old sequence
RerenderingTakeover(w) ==
    /\ state.claim.seq # 0
    /\ Current(state.claim)
    /\ state' = [state EXCEPT !.leased = TRUE, !.claim.body = intent]
    /\ Holds(w, [state.claim EXCEPT !.body = intent])
    /\ UNCHANGED <<ownerVars, rowVars, lastSeq, mgmt, net, far>>

\* _takeover: replay the unacknowledged operation, same sequence and body
Takeover(w) ==
    /\ state.claim.seq # 0
    /\ Current(state.claim)
    /\ state' = [state EXCEPT !.leased = TRUE]
    /\ Holds(w, state.claim)
    /\ UNCHANGED <<ownerVars, rowVars, lastSeq, mgmt, net, far>>

\* _takeover of an operation whose mapping or source epoch is gone
TakeoverAbandon(w) ==
    /\ state.claim.seq # 0
    /\ ~Current(state.claim)
    /\ entries' = GiveBack(entries)
    /\ state' = Rehomed
    /\ GoesAstray(Workers)
    /\ UNCHANGED <<ownerVars, nextId, lastSeq, mgmt, wk, net>>

NewClaim(mode, dels, mark, any) ==
    [seq |-> lastSeq + 1, body |-> intent, dels |-> dels, mode |-> mode, mark |-> mark,
     any |-> any, device |-> mgmt.device, inc |-> mgmt.inc, source |-> mgmt.source,
     why |-> removal]

\* the operation that _form folds and renders in one snapshot
Folded ==
    NewClaim("normal", FoldQueued(Ordinary(Unconsumed), state.claim.dels, state.queued),
             MarkAll(Unconsumed), MarkAny(Unconsumed))
FoldedRevoked == FoldRevoked(Ordinary(Unconsumed), state.claim.dels, state.revoked)

\* nothing is owed and the acknowledged baseline is this very request
Unchanged(c, force) == ~force /\ c.dels = {} /\ Identity(c) = state.lastOk

Form(w, force) ==
    /\ state.claim.seq = 0 /\ lastSeq < MaxSeq
    /\ ~Unchanged(Folded, force)
    /\ lastSeq' = lastSeq + 1
    /\ entries' = {IF e.by = 0 THEN [e EXCEPT !.by = lastSeq + 1] ELSE e : e \in entries}
    /\ state' = [state EXCEPT !.claim = Folded, !.leased = TRUE, !.queued = {},
                              !.revoked = FoldedRevoked]
    /\ Holds(w, Folded)
    /\ UNCHANGED <<ownerVars, nextId, mgmt, net, far>>

\* the unchanged claim: its rows are retired and nothing is sent
Drop(force) ==
    /\ state.claim.seq = 0
    /\ Unchanged(Folded, force)
    /\ entries' = entries \ Unconsumed
    /\ state' = [state EXCEPT !.queued = {}, !.revoked = FoldedRevoked]
    /\ UNCHANGED <<ownerVars, nextId, lastSeq, mgmt, wk, net, far>>

\* a local validator refused the body; an authority-free batch is retired
CaptureRefused(force) ==
    /\ state.claim.seq = 0
    /\ ~Unchanged(Folded, force) /\ Bad(intent)
    /\ ~Folded.any /\ Folded.dels = {}
    /\ entries' = entries \ Unconsumed
    /\ UNCHANGED <<ownerVars, nextId, state, lastSeq, mgmt, wk, net, far>>

\* the snapshot alone, in a mode that consumes nothing
TakeSnapshot(w, mode) ==
    LET c == NewClaim(mode, {}, FALSE, FALSE) IN
    /\ state.claim.seq = 0 /\ lastSeq < MaxSeq
    /\ lastSeq' = lastSeq + 1
    /\ state' = [state EXCEPT !.claim = c, !.leased = TRUE]
    /\ Holds(w, c)
    /\ UNCHANGED <<ownerVars, rowVars, mgmt, net, far>>

\* store-only refuses pending authority, whether folded or only marked
FormStoreOnly(w) ==
    /\ Folded.dels = {}
    /\ Folded.any => \E e \in Ordinary(Unconsumed) : e.ops # NoOps
    /\ TakeSnapshot(w, "store_only")

FormBackfill(w) == TakeSnapshot(w, "backfill")

ClaimKey(w, mode, force) ==
    /\ Claimable(w, mode, force)
    /\ \/ Takeover(w)
       \/ TakeoverAbandon(w)
       \/ mode = "normal" /\ Form(w, force)
       \/ mode = "normal" /\ Drop(force)
       \/ mode = "normal" /\ CaptureRefused(force)
       \/ mode = "store_only" /\ FormStoreOnly(w)
       \/ mode = "backfill" /\ FormBackfill(w)

-----------------------------------------------------------------------------
(* The send                                                                *)

\* variant of Free: a worker that keeps the code of its last answer
KeepsCode(w) == wk' = [wk EXCEPT ![w] = [pc |-> "idle", claim |-> NoClaim, code |-> wk[w].code]]
Free(w) == wk' = [wk EXCEPT ![w] = Idle]

\* variant of RevocationHit: only revocations that a claim has folded are seen
FoldedRevocationHit(c) == c.dels \cap state.revoked # {}
\* the pre-send scan: a committed re-ownership of an id this claim deletes
Withdrawn(E) == {r \in Routes : \E e \in E : e.ops[r] = "revoke"}
RevocationHit(c) == c.dels \cap (state.revoked \cup Withdrawn(Unconsumed)) # {}

\* the device is no longer managed: the operation keeps everything, lease included
Park(w) ==
    /\ wk[w].pc = "claimed" /\ mgmt.link # "linked"
    /\ Free(w)
    /\ UNCHANGED <<ownerVars, rowVars, state, lastSeq, mgmt, net, far>>

AbandonBeforeSend(w) ==
    /\ wk[w].pc = "claimed" /\ mgmt.link = "linked"
    /\ RevocationHit(wk[w].claim)
    /\ state.claim.seq = wk[w].claim.seq
    /\ entries' = GiveBack(entries)
    /\ state' = Rehomed
    /\ GoesAstray(Workers \ {w})
    /\ Free(w)
    /\ UNCHANGED <<ownerVars, nextId, lastSeq, mgmt, net>>

\* nothing re-checks here that the sequence is still the key's live claim
Transmit(w) ==
    /\ wk[w].pc = "claimed" /\ mgmt.link = "linked"
    /\ ~RevocationHit(wk[w].claim)
    /\ net' = net \cup {[w |-> w, claim |-> wk[w].claim]}
    /\ wk' = [wk EXCEPT ![w].pc = "sent"]
    /\ UNCHANGED <<ownerVars, rowVars, state, lastSeq, mgmt, far>>

-----------------------------------------------------------------------------
(* The adapter (external): one receipt per endpoint, then the store        *)

\* the answer reaches its sender only while that sender still waits for it
Answer(m, code, out) ==
    /\ net' = net \ {m}
    /\ wk' = IF wk[m.w].pc = "sent" /\ wk[m.w].claim = m.claim
             THEN [wk EXCEPT ![m.w].pc = "answered", ![m.w].code = code, ![m.w].out = out]
             ELSE wk
    /\ UNCHANGED <<ownerVars, rowVars, state, lastSeq, mgmt>>

Here(m) == m.claim.device = mgmt.device
Fresh(m) == Here(m) /\ m.claim.seq > far.seq
Fenced(c) == PerObject /\ c.mode = "normal" /\ c.dels # {} /\ far.shut

\* a request addressed to a device id the plugin has since left behind
AnswerElsewhere(m) == ~Here(m) /\ Answer(m, "ok", {}) /\ UNCHANGED far

AnswerReceipt(m) ==
    /\ Here(m) /\ m.claim.seq <= far.seq
    /\ IF m.claim.seq = far.seq /\ Digest(m.claim) = far.digest
       THEN Answer(m, far.code, far.out)
       ELSE Answer(m, "refused", {})
    /\ UNCHANGED far

AnswerFenceShut(m) ==
    /\ Fresh(m) /\ ~Bad(m.claim.body) /\ Fenced(m.claim)
    /\ Answer(m, "fence_shut", {})
    /\ UNCHANGED far

AnswerInvalid(m) ==
    /\ Fresh(m) /\ Bad(m.claim.body)
    /\ Answer(m, "validation_error", {})
    /\ UNCHANGED far

Dropped(c) == {r \in Routes : far.held[r] # 0 /\ c.body[r] = 0}
\* what a full replace takes off the device, and what it merely stops owning
Retracted(c) == IF c.mode # "normal" THEN {}
                ELSE IF PerObject THEN Dropped(c) \cap c.dels
                ELSE IF c.mark THEN Dropped(c) ELSE {}

\* "out" names the ids answered as degraded (normal) or removed uncorrelated (backfill)
OutOf(c) ==
    IF c.mode = "normal" /\ PerObject /\ "degrade" \in Events
    THEN SUBSET (Dropped(c) \cap c.dels)
    ELSE IF c.mode = "backfill" /\ far.shut THEN SUBSET Dropped(c)
    ELSE {{}}

\* the store after c, the objects it stopped holding without retracting them, the receipt
Stored(c, out) ==
    IF c.mode = "backfill" THEN [r \in Routes |-> IF r \in out THEN 0 ELSE far.held[r]] ELSE c.body
Detached(c, out) ==
    {r \in Routes : far.held[r] # 0 /\ Stored(c, out)[r] = 0} \ (Retracted(c) \ out)
Accepted(c, code, out) ==
    [seq |-> c.seq, digest |-> Digest(c), code |-> code, out |-> out,
     held |-> Stored(c, out),
     shut |-> far.shut /\ c.mode # "backfill",
     lost |-> {p \in far.lost : c.mode = "backfill" \/ c.body[p[1]] = 0}
                \cup {<<r, c.seq>> : r \in {x \in Detached(c, out) : c.why[x] = "deleted"}},
     taken |-> {r \in far.taken : c.body[r] = 0}
                \cup {r \in Retracted(c) \ out : c.why[r] = "released"},
     astray |-> far.astray]

Apply(m) ==
    /\ Fresh(m) /\ ~Bad(m.claim.body) /\ ~Fenced(m.claim)
    /\ \E out \in OutOf(m.claim),
          code \in {"ok"} \cup (IF "malform" \in Events THEN {"inexact"} ELSE {}) :
          /\ Answer(m, code, out)
          /\ far' = Accepted(m.claim, code, out)

AdapterHandles(m) ==
    \/ AnswerElsewhere(m)
    \/ AnswerReceipt(m)
    \/ AnswerFenceShut(m)
    \/ AnswerInvalid(m)
    \/ Apply(m)

-----------------------------------------------------------------------------
(* The outcome, under the state-row lock and a compare-and-set on push_seq *)

\* variant of Answered: no compare-and-set
AnsweredWithoutCas(w, code) == wk[w].pc = "answered" /\ wk[w].code = code
Answered(w, code) ==
    /\ wk[w].pc = "answered" /\ wk[w].code = code
    /\ state.claim.seq = wk[w].claim.seq

\* every deletion the key still owes outside the claim, for the attribution rule
PendingDeletions(c) == FoldQueued(Ordinary(Unconsumed), c.dels, state.queued)

\* variant of Degrades: only what the answer itself names
DegradesByAnswer(c, out) == c.mode # "backfill" /\ out # {}
\* what a successful answer degrades: a mark the fold downgraded, ids the adapter
\* detached, or a removal that a pending deletion accounts for
Degrades(c, out) ==
    \/ ~PerObject /\ c.any /\ ~c.mark
    \/ IF c.mode = "backfill" THEN out \cap PendingDeletions(c) # {} ELSE out # {}

\* _commit_acknowledged_claim: the key's row once c was answered with "out"
Acknowledged(c, out) ==
    [claim |-> NoClaim, leased |-> FALSE, queued |-> state.queued,
     revoked |-> state.revoked \ c.dels, lastOk |-> Identity(c),
     withheld |-> state.withheld /\ c.mode # "backfill",
     degraded |-> state.degraded \cup (IF Degrades(c, out) THEN {c.seq} ELSE {})]

\* variant of Settle: the rows that arrived in flight are retired as well
SettleRetiresAll(w) ==
    LET c == wk[w].claim IN
    /\ Answered(w, "ok")
    /\ entries' = {}
    /\ state' = [state EXCEPT !.claim = NoClaim, !.leased = FALSE, !.lastOk = Identity(c)]
    /\ Free(w)
    /\ UNCHANGED <<ownerVars, nextId, lastSeq, mgmt, net, far>>

Settle(w) ==
    LET c == wk[w].claim IN
    /\ Answered(w, "ok")
    /\ entries' = {e \in entries : e.by # c.seq}
    /\ state' = Acknowledged(c, wk[w].out)
    /\ far' = [far EXCEPT !.astray = @ /\ c.mode = "backfill"]
    /\ Free(w)
    /\ UNCHANGED <<ownerVars, nextId, lastSeq, mgmt, net>>

\* the lease is released and the operation is kept for replay: an inexact
\* acknowledgement, an adapter error, a timeout, or a deadline spent before transport
RecordFailure(w) ==
    /\ wk[w].pc \in {"claimed", "sent"} \/ (wk[w].pc = "answered" /\ wk[w].code \in {"inexact", "refused"})
    /\ state.claim.seq = wk[w].claim.seq
    /\ state' = [state EXCEPT !.leased = FALSE]
    /\ Free(w)
    /\ UNCHANGED <<ownerVars, rowVars, lastSeq, mgmt, net, far>>

\* a rejection proven to have had no effect withholds the key's ordinary sends
Withhold(w) ==
    /\ Answered(w, "fence_shut")
    /\ entries' = GiveBack(entries)
    /\ state' = [Rehomed EXCEPT !.withheld = TRUE]
    /\ Free(w)
    /\ UNCHANGED <<ownerVars, nextId, lastSeq, mgmt, net, far>>

\* a body refused at the boundary: abandoned, and retired unless it carries authority
Dissolve(w) ==
    LET c == wk[w].claim IN
    /\ Answered(w, "validation_error")
    /\ entries' = IF ~c.any /\ c.dels = {} THEN {e \in entries : e.by # c.seq} ELSE GiveBack(entries)
    /\ state' = Rehomed
    /\ Free(w)
    /\ UNCHANGED <<ownerVars, nextId, lastSeq, mgmt, net, far>>

\* the key moved on: whatever this sender learnt is discarded
Superseded(w) ==
    /\ wk[w].pc # "idle" /\ state.claim.seq # wk[w].claim.seq
    /\ Free(w)
    /\ UNCHANGED <<ownerVars, rowVars, state, lastSeq, mgmt, net, far>>

Outcome(w) ==
    Settle(w) \/ RecordFailure(w) \/ Withhold(w) \/ Dissolve(w) \/ Superseded(w)

-----------------------------------------------------------------------------
(* Faults, operator commands and what the adapter link does meanwhile      *)

Crash(w) ==
    /\ "crash" \in Events /\ wk[w].pc # "idle"
    /\ Free(w)
    /\ UNCHANGED <<ownerVars, rowVars, state, lastSeq, mgmt, net, far>>

\* LEASE runs out: any worker may take the operation over
LeaseExpires ==
    /\ state.leased
    /\ "expire" \in Events \/ \A w \in Workers : wk[w].pc = "idle"
    /\ state' = [state EXCEPT !.leased = FALSE]
    /\ UNCHANGED <<ownerVars, rowVars, lastSeq, mgmt, wk, net, far>>

\* acknowledge_degraded_deletions: the one thing that clears the records
AcknowledgeDegraded ==
    /\ state.degraded # {}
    /\ state' = [state EXCEPT !.degraded = {}]
    /\ far' = [far EXCEPT !.lost = {p \in @ : p[2] \notin state.degraded}]
    /\ UNCHANGED <<ownerVars, rowVars, lastSeq, mgmt, wk, net>>

\* link repair drops a pointer that belongs to somebody else's device
Unlink ==
    /\ "unlink" \in Events /\ mgmt.link = "linked"
    /\ mgmt' = [mgmt EXCEPT !.link = "unlinked", !.trusted = FALSE]
    /\ UNCHANGED <<ownerVars, rowVars, state, lastSeq, wk, net, far>>

\* a repaired, re-created or newly onboarded link names another adapter device
Link ==
    /\ "remap" \in Events \/ mgmt.link # "linked"
    /\ mgmt.device + mgmt.inc <= MaxEpoch
    /\ mgmt' = [mgmt EXCEPT !.link = "linked", !.device = @ + 1,
                            !.trusted = @ /\ mgmt.link = "offboarded"]
    /\ far' = BlankStore
    /\ UNCHANGED <<ownerVars, rowVars, state, lastSeq, wk, net>>

\* the adapter's store is rebuilt under the same device id and a read observes it.
\* The connections of the old process are gone; a sender that has claimed is not.
Rebuild ==
    /\ "rebuild" \in Events /\ mgmt.link = "linked"
    /\ mgmt.device + mgmt.inc <= MaxEpoch
    /\ mgmt' = [mgmt EXCEPT !.inc = @ + 1, !.adopting = TRUE]
    /\ far' = BlankStore
    /\ net' = {}
    /\ UNCHANGED <<ownerVars, rowVars, state, lastSeq, wk>>

\* a gated read publication adopts the observed incarnation
AdoptIncarnation ==
    /\ mgmt.adopting
    /\ mgmt' = [mgmt EXCEPT !.adopting = FALSE, !.trusted = FALSE]
    /\ UNCHANGED <<ownerVars, rowVars, state, lastSeq, wk, net, far>>

AdoptSourceEpoch ==
    /\ mgmt.source < MaxSource /\ mgmt.link = "linked"
    /\ mgmt' = [mgmt EXCEPT !.source = @ + 1]
    /\ UNCHANGED <<ownerVars, rowVars, state, lastSeq, wk, net, far>>

\* offboarding deletes the management row and its overlays, keeps deletion authority
Offboard ==
    /\ "offboard" \in Events /\ mgmt.link # "offboarded"
    /\ intent' = Nothing
    /\ removal' = [r \in Routes |-> "none"]
    /\ entries' = GiveBack(entries)
    /\ state' = [Rehomed EXCEPT !.degraded = {}, !.lastOk = NoIdentity]
    /\ mgmt' = [mgmt EXCEPT !.link = "offboarded", !.adopting = FALSE]
    /\ far' = BlankStore
    /\ UNCHANGED <<lastGen, nextId, lastSeq, wk, net>>

-----------------------------------------------------------------------------
Operator == \E r \in Routes :
    AcceptOrEdit(r) \/ Reown(r) \/ Delete(r) \/ Release(r) \/ Bypass(r)
Draining(w) ==
    \/ \E mode \in AskedModes, force \in Forces : ClaimKey(w, mode, force)
    \/ Park(w) \/ AbandonBeforeSend(w) \/ Transmit(w) \/ Outcome(w)
Adapter == \E m \in net : AdapterHandles(m)
Environment ==
    \/ \E w \in Workers : Crash(w)
    \/ LeaseExpires \/ AcknowledgeDegraded \/ Unlink \/ Link
    \/ Rebuild \/ AdoptIncarnation \/ AdoptSourceEpoch \/ Offboard

Next ==
    \/ Operator
    \/ Audit
    \/ Compact
    \/ \E w \in Workers : Draining(w)
    \/ Adapter
    \/ Environment

Spec == Init /\ [][Next]_vars

\* What the scheduling gives: the tick claims every pending key, a lease runs out, a
\* worker reaches some outcome within its deadline.  A send, an answer to the request a
\* sender waits for and the outcome of an answer may fail any number of times, not forever.
Answers(w) == \E m \in net : m.w = w /\ wk[w].pc = "sent" /\ wk[w].claim = m.claim /\ AdapterHandles(m)
Concludes(w) == Settle(w) \/ Withhold(w) \/ Dissolve(w) \/ AbandonBeforeSend(w)
Fairness ==
    /\ WF_vars(\E w \in Workers, mode \in AskedModes : ClaimKey(w, mode, FALSE))
    /\ WF_vars(LeaseExpires)
    /\ \A w \in Workers :
          /\ WF_vars(Outcome(w))
          /\ SF_vars(Transmit(w)) /\ SF_vars(Answers(w)) /\ SF_vars(Concludes(w))
FairSpec == Spec /\ Fairness

-----------------------------------------------------------------------------
(* What the outbox promises                                                *)

\* nothing is owed, nobody is working and the audit has nothing left to repair
Quiet ==
    /\ mgmt.link = "linked" /\ mgmt.trusted /\ ~mgmt.adopting
    /\ ~WorkPending
    /\ \A w \in Workers : wk[w].pc = "idle"

\* The outbox implements the promise of Delivery: every write of the intent leaves a debt,
\* no late, replayed or abandoned request changes the store of a key that owes nothing, and
\* a key comes to owe nothing only with the intent in the store (claim, settle, compact).
\* An operation that was abandoned after it left is a debt until a later one is settled.
Promise == INSTANCE Delivery
           WITH Empty <- Nothing, wanted <- intent, held <- far.held,
                owed <- ~Quiet \/ Bad(intent) \/ far.astray
DeliveryIsKept == Promise!Spec

\* No deletion the operator authorised degrades to a detach behind his back: once the
\* key is quiet, a request that detached an object whose deletion stands has a durable
\* degraded-deletion record (_commit_acknowledged_claim, _degradations).
NoSilentDetach ==
    Quiet => \A p \in far.lost : removal[p[1]] = "deleted" => p[2] \in state.degraded

\* An answer that says an object was detached is recorded as degraded if the operator's
\* deletion of it stands when the answer is settled, whichever home its authority is in
\* by then: the queue, the claim or a row that came later (_degradations).
DetachIsRecorded ==
    [][\A w \in Workers : LET c == wk[w].claim IN
          (Answered(w, "ok") /\ wk'[w].pc = "idle" /\ state'.claim.seq = 0)
          => \A p \in far.lost : p[2] = c.seq /\ removal[p[1]] = "deleted" =>
                c.seq \in state'.degraded]_vars

\* An object that was un-owned is never retracted from the device, whatever it was
\* folded, replayed or compacted with (_schedule_intent_push).
UnownedIsNeverRetracted == far.taken = {}

\* While the store still holds a deleted route, authority for it survives somewhere: in
\* the queue, in the live claim or in a row (fold_transitions, _abandon_locked, compact).
DeletionAuthorityIsKept ==
    PerObject =>
        \A r \in Routes : removal[r] = "deleted" /\ far.held[r] # 0 => Pending(r)

\* A consumed row names the live claim: no row is stranded under a sequence that no
\* outcome can retire or return (_consume, _abandon_locked, _commit_acknowledged_claim).
ConsumedRowsNameTheLiveClaim == \A e \in entries : e.by # 0 => e.by = state.claim.seq

\* A sequence names one operation for ever: the live claim holds the youngest one, and
\* whatever a worker, a request or the receipt says under it is what the claim says.  This
\* is what makes LiveClaimIsNeverRefused inductive (allocate_push_seq, _takeover).
OneOperationPerSequence ==
    /\ state.claim.seq \in {0, lastSeq}
    /\ far.seq <= lastSeq
    /\ \A w \in Workers : wk[w].claim.seq <= lastSeq
    /\ \A m \in net : m.claim.seq <= lastSeq
    /\ state.claim.seq # 0 =>
          /\ \A w \in Workers : wk[w].claim.seq = state.claim.seq => wk[w].claim = state.claim
          /\ \A m \in net : m.claim.seq = state.claim.seq => m.claim = state.claim
          /\ far.seq = state.claim.seq => far.digest = Digest(state.claim)

\* The adapter can never answer the live claim with "stale" or "sequence reuse": no
\* younger operation overtook it and its number never named another body.
LiveClaimIsNeverRefused ==
    state.claim.seq # 0 =>
        /\ far.seq <= state.claim.seq
        /\ far.seq = state.claim.seq => far.digest = Digest(state.claim)

\* A row that an operation consumed leaves the outbox only once the adapter accepted that
\* very operation, or refused its body (settle's compare-and-set, _dissolve).
RetiredOnlyWhenAccepted ==
    [][\A e \in entries :
          e.by # 0 /\ (\A f \in entries' : f.id # e.id) =>
              \/ far.seq = e.by
              \/ Bad(state.claim.body)
              \/ state.claim.device # mgmt.device \/ state.claim.inc # mgmt.inc]_vars

\* A re-ownership committed before the pre-send scan stops the send: no request leaves
\* with authority over a route that is owned again by then (revocation_hit).
ReownershipStopsTheSend ==
    [][\A m \in net' \ net : \A r \in m.claim.dels : intent[r] = 0]_vars

\* Compaction changes no answer a later fold or scan gives: the authority, the folded and
\* the raw revocations of held ids and both marks are what they were (_compact_locked).
CompactionKeepsTheFold ==
    [][Compact =>
          LET E == Ordinary(Unconsumed)
              F == Ordinary({e \in entries' : e.by = 0})
          IN /\ FoldQueued(E, state.claim.dels, state.queued)
                  = FoldQueued(F, state.claim.dels, state.queued)
             /\ FoldRevoked(E, state.claim.dels, {}) = FoldRevoked(F, state.claim.dels, {})
             /\ Withdrawn(E) \cap state.claim.dels = Withdrawn(F) \cap state.claim.dels
             /\ MarkAll(E) = MarkAll(F)
             /\ MarkAny(E) = MarkAny(F)]_vars

=============================================================================
