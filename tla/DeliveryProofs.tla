--------------------------- MODULE DeliveryProofs ---------------------------
(***************************************************************************)
(* IntentOutbox implements Delivery, for every value of the constants: the *)
(* inductive invariant behind DeliveryIsKept and RetiredOnlyWhenAccepted,  *)
(* and the refinement step.                                                *)
(*                                                                         *)
(* The steps of the outbox are first sorted into a few kinds by what they  *)
(* do to the key's state row, to the copies of claims in flight and to the *)
(* store; each part of the invariant is then proved for each kind.         *)
(***************************************************************************)
EXTENDS IntentOutboxProofs, WellFoundedInduction

-----------------------------------------------------------------------------
(* The inductive invariant                                                 *)

Live == state.claim.seq # 0

\* every claim that a worker or a request still carries
Copies == {wk[w].claim : w \in Workers} \cup {m.claim : m \in net}

OnMapping(c) == c.device = mgmt.device /\ c.inc = mgmt.inc
Before(c, d) == c.device <= d.device /\ c.inc <= d.inc

\* the state row without a claim, the rows' keys, and what offboarding leaves
ClaimInv ==
    /\ ~Live => state.claim = NoClaim
    /\ state.revoked = {}
    /\ \A e \in entries : e.id < nextId
    /\ mgmt.link = "offboarded" => ~Live /\ intent = Nothing /\ state.lastOk = NoIdentity
    /\ Live /\ state.claim.mode # "normal" =>
          state.claim.dels = {} /\ \A e \in entries : e.by = 0

\* a worker at work works under a number
HolderInv == \A w \in Workers : wk[w].pc # "idle" => wk[w].claim.seq # 0

\* mappings only grow: nothing on record is younger than the row or than the live claim
MappingInv ==
    /\ mgmt.device >= 1
    /\ Before(state.lastOk, mgmt) /\ Before(state.claim, mgmt)
    /\ \A c \in Copies : Before(c, mgmt) /\ (Live => Before(c, state.claim))
    /\ Live => Before(state.lastOk, state.claim)
    /\ far.shut => mgmt.inc = 0

\* what an answer proves about the claim it answers
AnswerInv ==
    /\ far.code \in {"ok", "inexact"}
    /\ \A w \in Workers : wk[w].pc = "answered" =>
          LET c == wk[w].claim IN
          /\ wk[w].code = "validation_error" => Bad(c.body)
          /\ wk[w].code = "fence_shut" => PerObject /\ c.mode = "normal" /\ c.dels # {}
          /\ Live /\ c.seq = state.claim.seq /\ OnMapping(c) =>
                /\ wk[w].code = "ok" => far.seq = c.seq
                /\ wk[w].code = "fence_shut" /\ ~far.astray => far.shut /\ far.seq # c.seq

\* the live claim, once applied, is what the store holds
AppliedInv ==
    Live /\ far.seq = state.claim.seq =>
        /\ ~Bad(state.claim.body)
        /\ state.claim.mode # "backfill" => far.held = state.claim.body

\* the row speaks for the store: linked, trusted, no observation being adopted
Sound == mgmt.link = "linked" /\ mgmt.trusted /\ ~mgmt.adopting
\* and nothing is owed that a claim in flight does not carry already
Paid ==
    /\ Sound
    /\ entries = {} /\ state.queued = {} /\ state.claim.dels = {}
    /\ ~Bad(intent) /\ ~far.astray

\* the adapter will refuse this copy of an operation, whenever it arrives
Harmless(c) == c.seq <= far.seq \/ Bad(c.body) \/ Fenced(c)
Stray(c) == c \in Copies /\ c.device = mgmt.device /\ ~(Live /\ c.seq = state.claim.seq)

\* an operation that ended and whose copies are still about can change the store no more
StrayInv ==
    ~far.astray /\ mgmt.link # "offboarded" =>
        \A c \in Copies : Stray(c) /\ (c.inc = mgmt.inc \/ OnMapping(state.lastOk) \/ Paid)
            => Harmless(c)

\* the acknowledged baseline is what the store holds, until a younger claim is applied
BaselineInv ==
    ~far.astray /\ OnMapping(state.lastOk) /\ state.lastOk.mode = "normal"
        /\ (Live => far.seq # state.claim.seq)
    => far.held = state.lastOk.body

\* the live claim's body is the intent unless a later row says otherwise
BodyInv ==
    Live /\ Sound /\ Unconsumed = {} => OnMapping(state.claim) /\ state.claim.body = intent

PaidInv == Paid => far.held = intent

DeliveryInv ==
    ClaimInv /\ HolderInv /\ MappingInv /\ AnswerInv /\ AppliedInv /\ StrayInv /\ BaselineInv /\ BodyInv
    /\ PaidInv

OutboxInv == TypeOK /\ ConsumedRowsNameTheLiveClaim /\ OneOperationPerSequence /\ DeliveryInv

-----------------------------------------------------------------------------
(* The kinds of steps                                                      *)

Carried(S) ==
    /\ \A c \in Copies' : c \in Copies \/ c \in S
    /\ \A w \in Workers : wk'[w].pc = "answered" => wk'[w] = wk[w]
SameStore == far'.seq = far.seq /\ far'.code = far.code /\ far'.held = far.held /\ far'.shut = far.shut

\* an operator, the audit or a compaction: rows and contents
Rewriting ==
    /\ UNCHANGED <<state, lastSeq, wk, net, far>>
    /\ mgmt'.link = mgmt.link /\ mgmt'.device = mgmt.device /\ mgmt'.inc = mgmt.inc
    /\ mgmt'.adopting = mgmt.adopting
    /\ mgmt'.trusted => mgmt.trusted \/ Unconsumed' # {}
    /\ mgmt.link = "offboarded" => intent' = intent
    /\ intent' = intent \/ ~Sound' \/ Unconsumed' # {}
    /\ Unconsumed # {} => Unconsumed' # {}
    /\ \A e \in entries : e.by # 0 => e \in entries'
    /\ \A e \in entries' : e.by # 0 => e \in entries
    /\ \A e \in entries' : e.id < nextId'

\* a claim is formed or a snapshot taken: one new operation under a fresh sequence
Forming(c) ==
    /\ ~Live /\ mgmt.link = "linked"
    /\ c.seq = lastSeq + 1 /\ c.body = intent /\ OnMapping(c)
    /\ state'.claim = c /\ state'.lastOk = state.lastOk /\ state'.revoked = {}
    /\ UNCHANGED <<ownerVars, nextId, mgmt, net, far>>
    /\ Carried({c})
    /\ \A e \in entries' : \E f \in entries : e.id = f.id
    /\ c.mode # "normal" => c.dels = {} /\ entries' = entries
    /\ entries' = {} /\ state'.queued = {} /\ c.dels = {} => entries = {} /\ state.queued = {}

\* a claim is handed on, sent, parked or dropped by its sender; the key keeps everything
Sending ==
    /\ UNCHANGED <<ownerVars, rowVars, lastSeq, mgmt>>
    /\ state'.claim = state.claim /\ state'.lastOk = state.lastOk
    /\ state'.queued = state.queued /\ state'.revoked = state.revoked
    /\ SameStore /\ far'.astray = far.astray
    /\ Carried({NoClaim, state.claim})

\* the live claim is given back, and its copies either are harmless or make the key owe
Abandoning ==
    /\ UNCHANGED <<ownerVars, nextId, lastSeq, mgmt, net>>
    /\ Live
    /\ state'.claim = NoClaim /\ state'.lastOk = state.lastOk /\ state'.revoked = state.revoked
    /\ state'.queued = state.queued \cup state.claim.dels
    /\ SameStore /\ (far.astray => far'.astray)
    /\ Carried({NoClaim})
    /\ \A e \in entries' : \E f \in entries : e.id = f.id
    /\ ~far'.astray /\ OnMapping(state.claim) =>
          /\ far.seq # state.claim.seq
          /\ \A c \in Copies' : c.seq = state.claim.seq => Harmless(c)
    /\ entries' = {} /\ state.claim.dels = {} =>
          entries = {} \/ (Unconsumed = {} /\ Bad(state.claim.body))
    /\ Bad(state.claim.body) \/ \A e \in entries : \E f \in entries' : f.id = e.id

\* the live claim was answered exactly
Settling ==
    /\ UNCHANGED <<ownerVars, nextId, lastSeq, mgmt, net>>
    /\ Live
    /\ OnMapping(state.claim) => far.seq = state.claim.seq
    /\ state'.claim = NoClaim /\ state'.lastOk = Identity(state.claim)
    /\ state'.queued = state.queued /\ state'.revoked = {}
    /\ SameStore /\ far'.astray = (far.astray /\ state.claim.mode = "backfill")
    /\ Carried({NoClaim})
    /\ entries' = {e \in entries : e.by # state.claim.seq}

\* rows are retired without a request: nothing changed, or a body that may not be sent
Retiring ==
    /\ UNCHANGED <<ownerVars, nextId, lastSeq, mgmt, wk, net, far>>
    /\ ~Live
    /\ state'.claim = state.claim /\ state'.lastOk = state.lastOk /\ state'.revoked = {}
    /\ entries' = entries \ Unconsumed
    /\ \/ Bad(intent)
       \/ OnMapping(state.lastOk) /\ state.lastOk.mode = "normal" /\ state.lastOk.body = intent

\* what the answer that has just reached w says of the request w sent
Learns(w) ==
    LET c == wk'[w].claim IN
    /\ wk'[w].code = "ok" => c.device # mgmt.device \/ far'.seq = c.seq
    /\ wk'[w].code = "validation_error" => Bad(c.body)
    /\ wk'[w].code = "fence_shut" =>
          PerObject /\ c.mode = "normal" /\ c.dels # {} /\ far'.shut /\ far'.seq # c.seq
Told == \A w \in Workers : wk'[w] = wk[w] \/ Learns(w)

\* the adapter answers without touching its store
Answering ==
    /\ UNCHANGED <<ownerVars, rowVars, state, lastSeq, mgmt, far>>
    /\ \A c \in Copies' : c \in Copies
    /\ Told

\* the adapter applies a copy
Applying(c) ==
    /\ UNCHANGED <<ownerVars, rowVars, state, lastSeq, mgmt>>
    /\ \A d \in Copies' : d \in Copies
    /\ Told
    /\ c \in Copies /\ c.device = mgmt.device /\ ~Harmless(c)
    /\ far'.seq = c.seq /\ far'.code \in {"ok", "inexact"} /\ far'.astray = far.astray
    /\ far'.shut = (far.shut /\ c.mode # "backfill")
    /\ c.mode # "backfill" => far'.held = c.body
    /\ c.body = far.held => far'.held = far.held

\* the management row changes, but not the mapping it names
Noting ==
    /\ UNCHANGED <<ownerVars, rowVars, state, lastSeq, wk, net, far>>
    /\ mgmt'.device = mgmt.device /\ mgmt'.inc = mgmt.inc
    /\ mgmt'.link = "offboarded" <=> mgmt.link = "offboarded"
    /\ Sound' => Sound

\* the mapping moves on to a blank store
Relinking ==
    /\ UNCHANGED <<ownerVars, rowVars, state, lastSeq>>
    /\ far' = BlankStore
    /\ \A c \in Copies' : c \in Copies
    /\ \A w \in Workers : wk'[w] = wk[w]
    /\ mgmt'.link = "linked"
    /\ \/ mgmt'.device = mgmt.device + 1 /\ mgmt'.inc = mgmt.inc
       \/ mgmt'.device = mgmt.device /\ mgmt'.inc = mgmt.inc + 1 /\ ~Sound'
    /\ Sound' => mgmt.link = "offboarded"

Offboarding ==
    /\ UNCHANGED <<nextId, lastSeq, wk, net>>
    /\ far' = BlankStore
    /\ mgmt'.link = "offboarded" /\ mgmt'.device = mgmt.device /\ mgmt'.inc = mgmt.inc
    /\ intent' = Nothing
    /\ state'.claim = NoClaim /\ state'.lastOk = NoIdentity /\ state'.revoked = state.revoked
    /\ \A e \in entries' : \E f \in entries : e.id = f.id
    /\ \A e \in entries : \E f \in entries' : f.id = e.id

-----------------------------------------------------------------------------
(* Every step is of one of these kinds                                     *)

LEMMA CarriedAfter ==
    ASSUME TypeOK, NEW w \in Workers, NEW c, net' \subseteq net
    PROVE  /\ wk' = wk => Carried({})
           /\ Free(w) => Carried({NoClaim})
           /\ Holds(w, c) => Carried({c})
<1>1. wk \in [Workers -> WorkerType]
  BY DEF TypeOK
<1>2. \A m \in net' : m.claim \in Copies
  BY DEF Copies
<1>3. \A v \in Workers : wk[v].claim \in Copies
  BY DEF Copies
<1>4. CASE wk' = wk
  BY <1>2, <1>3, <1>4 DEF Carried, Copies
<1>5. ASSUME Free(w)
      PROVE  Carried({NoClaim})
  <2>1. \A v \in Workers : wk'[v] = IF v = w THEN Idle ELSE wk[v]
    BY <1>1, <1>5 DEF Free
  <2>2. Idle.pc = "idle" /\ Idle.claim = NoClaim
    BY DEF Idle
  <2>3. QED
    BY <1>2, <1>3, <2>1, <2>2 DEF Carried, Copies
<1>6. ASSUME Holds(w, c)
      PROVE  Carried({c})
  <2>. DEFINE h == [Idle EXCEPT !.pc = "claimed", !.claim = c]
  <2>1. \A v \in Workers : wk'[v] = IF v = w THEN h ELSE wk[v]
    BY <1>1, <1>6 DEF Holds
  <2>2. h.pc = "claimed" /\ h.claim = c
    BY DEF Idle
  <2>3. QED
    BY <1>2, <1>3, <2>1, <2>2 DEF Carried, Copies
<1>7. QED
  BY <1>4, <1>5, <1>6

\* Among the rows of a set whose keys are bounded there is a highest one.
LEMMA HighestRow ==
    ASSUME NEW E \in SUBSET EntryType, E # {}, NEW n \in Nat, \A e \in E : e.id < n
    PROVE  \E e \in E : \A f \in E : f.id <= e.id
<1>. DEFINE T == {n - e.id : e \in E}
<1>1. \A e \in E : e.id \in Nat
  BY DEF EntryType
<1>2. T \subseteq Nat /\ T # {}
  BY <1>1
<1>3. PICK x \in T : \A y \in T : ~(<<y, x>> \in OpToRel(<, Nat))
  BY <1>2, WFMin, NatLessThanWellFounded
<1>4. \A y \in T : ~(y < x)
  BY <1>2, <1>3 DEF OpToRel
<1>5. PICK e \in E : x = n - e.id
  OBVIOUS
<1>6. ASSUME NEW f \in E
      PROVE  f.id <= e.id
  <2>1. ~(n - f.id < n - e.id)
    BY <1>4, <1>5
  <2>2. QED
    BY <1>1, <2>1
<1>7. QED
  BY <1>6

\* A compaction that finds unconsumed rows leaves one.
LEMMA CompactLeavesARow ==
    ASSUME TypeOK, ClaimInv, Compact, Unconsumed # {}
    PROVE  Unconsumed' # {}
<1>1. Unconsumed \in SUBSET EntryType /\ nextId \in Nat /\ \A e \in Unconsumed : e.id < nextId
  BY DEF TypeOK, ClaimInv, Unconsumed
<1>2. PICK e \in Unconsumed : \A f \in Unconsumed : f.id <= e.id
  BY <1>1, HighestRow
<1>3. Survives(e)
  BY <1>1, <1>2 DEF Survives, EntryType
<1>4. Merged(e) \in entries' /\ Merged(e).by = 0
  BY <1>1, <1>2, <1>3 DEF Compact, Merged, Unconsumed, EntryType
<1>5. QED
  BY <1>4 DEF Unconsumed

LEMMA RewritingKind ==
    ASSUME OutboxInv, Operator \/ Audit \/ Compact
    PROVE  Rewriting
<1>. USE DEF OutboxInv, DeliveryInv, ClaimInv
<1>1. entries \subseteq EntryType /\ nextId \in Nat /\ mgmt \in MgmtType
  BY DEF TypeOK
<1>2. ASSUME NEW kind, NEW ops, NEW mark, Append(kind, ops, mark)
      PROVE  /\ Unconsumed' # {} /\ entries \subseteq entries'
             /\ \A e \in entries' : e.by # 0 => e \in entries
             /\ \A e \in entries' : e.id < nextId'
  <2>. DEFINE row == [id |-> nextId, kind |-> kind, ops |-> ops, all |-> mark, any |-> mark, by |-> 0]
  <2>1. entries' = entries \cup {row} /\ nextId' = nextId + 1 /\ row.by = 0 /\ row.id = nextId
    BY <1>2 DEF Append
  <2>2. \A e \in entries : e.id \in Nat
    BY <1>1 DEF EntryType
  <2>. HIDE DEF row
  <2>3. row \in entries' /\ entries \subseteq entries' /\ \A e \in entries' : e \in entries \/ e = row
    BY <2>1
  <2>4. Unconsumed' # {}
    BY <2>1, <2>3 DEF Unconsumed
  <2>5. nextId' = nextId + 1
    BY <1>2 DEF Append
  <2>6. \A e \in entries' : e.id < nextId'
    BY <1>1, <2>1, <2>2, <2>3, <2>5
  <2>7. QED
    BY <2>1, <2>3, <2>4, <2>6
<1>3. ASSUME NEW ops, NEW mark, Contribute(ops, mark)
      PROVE  /\ mgmt.link = "linked" => Unconsumed' # {}
             /\ Unconsumed # {} => Unconsumed' # {}
             /\ entries \subseteq entries'
             /\ \A e \in entries' : e.by # 0 => e \in entries
             /\ \A e \in entries' : e.id < nextId'
  BY <1>2, <1>3 DEF Contribute, rowVars, Unconsumed
<1>4. CASE Operator
  <2>1. PICK r \in Routes : AcceptOrEdit(r) \/ Reown(r) \/ Delete(r) \/ Release(r) \/ Bypass(r)
    BY <1>4 DEF Operator
  <2>2. CASE AcceptOrEdit(r) \/ Delete(r) \/ Release(r)
    <3>1. /\ UNCHANGED <<state, lastSeq, mgmt, wk, net, far>> /\ mgmt.link # "offboarded"
          /\ \E ops, mark : Contribute(ops, mark)
      BY <2>2 DEF AcceptOrEdit, Delete, Release, Write
    <3>2. QED
      BY <1>3, <3>1 DEF Rewriting, Sound
  <2>3. CASE Reown(r)
    <3>1. UNCHANGED <<state, lastSeq, mgmt, wk, net, far>> /\ mgmt.link = "linked"
      BY <2>3 DEF Reown, Write
    <3>2. \E ops, mark : Append("ordinary", ops, mark)
      BY <2>3 DEF Reown
    <3>3. QED
      BY <1>2, <3>1, <3>2 DEF Rewriting
  <2>4. CASE Bypass(r)
    <3>1. UNCHANGED <<state, lastSeq, wk, net, far, entries, nextId>> /\ mgmt.link # "offboarded"
      BY <2>4 DEF Bypass, rowVars
    <3>2. mgmt' = [mgmt EXCEPT !.trusted = FALSE]
      BY <2>4 DEF Bypass
    <3>3. /\ mgmt'.link = mgmt.link /\ mgmt'.device = mgmt.device /\ mgmt'.inc = mgmt.inc
          /\ mgmt'.adopting = mgmt.adopting /\ ~mgmt'.trusted
      BY <1>1, <3>2 DEF MgmtType
    <3>4. QED
      BY <3>1, <3>3 DEF Rewriting, Sound, Unconsumed
  <2>5. QED
    BY <2>1, <2>2, <2>3, <2>4
<1>5. CASE Audit
  <2>1. UNCHANGED <<state, lastSeq, wk, net, far>> /\ mgmt.link = "linked"
    BY <1>5 DEF Audit
  <2>2. Append("repair", NoOps, FALSE)
    BY <1>5 DEF Audit
  <2>3. /\ mgmt'.link = mgmt.link /\ mgmt'.device = mgmt.device /\ mgmt'.inc = mgmt.inc
        /\ mgmt'.adopting = mgmt.adopting
    BY <1>1, <1>5 DEF Audit, MgmtType
  <2>4. QED
    BY <1>2, <2>1, <2>2, <2>3 DEF Rewriting
<1>6. CASE Compact
  <2>1. UNCHANGED <<intent, state, lastSeq, mgmt, wk, net, far, nextId>>
    BY <1>6 DEF Compact, ownerVars
  <2>2. Unconsumed # {} => Unconsumed' # {}
    BY <1>6, CompactLeavesARow
  <2>3. \A e \in Unconsumed : Merged(e).by = 0 /\ Merged(e).id = e.id
    BY <1>1 DEF Merged, Unconsumed, EntryType
  <2>4. /\ \A e \in entries : e.by # 0 => e \in entries'
        /\ \A e \in entries' : e.by # 0 => e \in entries
        /\ \A e \in entries' : e.id < nextId'
    BY <1>6, <2>1, <2>3 DEF Compact, Unconsumed
  <2>5. QED
    BY <2>1, <2>2, <2>4 DEF Rewriting
<1>7. QED
  BY <1>4, <1>5, <1>6

LEMMA FormingKind ==
    ASSUME OutboxInv, mgmt.link = "linked", NEW w \in Workers,
           (\E force : Form(w, force)) \/ (\E mode \in RequestModes \ {"normal"} : TakeSnapshot(w, mode))
    PROVE  \E c \in ClaimType : Forming(c)
<1>. USE DEF OutboxInv, DeliveryInv, ClaimInv
<1>1. state \in StateType /\ entries \subseteq EntryType
  BY DEF TypeOK
<1>2. ASSUME NEW mode, NEW dels, NEW mark, NEW any
      PROVE  LET c == NewClaim(mode, dels, mark, any) IN
             c.seq = lastSeq + 1 /\ c.body = intent /\ OnMapping(c) /\ c.mode = mode /\ c.dels = dels
  BY DEF NewClaim, OnMapping
<1>3. ASSUME NEW force, Form(w, force)
      PROVE  \E c \in ClaimType : Forming(c)
  <2>1. ~Live /\ state.claim.dels = {} /\ state.revoked = {}
    BY <1>3 DEF Form, Live, NoClaim
  <2>2. /\ Folded.seq = lastSeq + 1 /\ Folded.body = intent /\ OnMapping(Folded)
        /\ Folded.mode = "normal"
        /\ Folded.dels = FoldQueued(Ordinary(Unconsumed), {}, state.queued)
    BY <1>2, <2>1 DEF Folded
  <2>3. FoldedRevoked = {}
    BY <2>1 DEF FoldedRevoked, FoldRevoked
  <2>4. state'.claim = Folded /\ state'.lastOk = state.lastOk /\ state'.revoked = {}
    BY <1>1, <1>3, <2>3 DEF Form, StateType
  <2>5. Carried({Folded})
    BY <1>3, CarriedAfter DEF Form
  <2>6. /\ \A e \in entries' : \E f \in entries : e.id = f.id
        /\ entries' = {} => entries = {}
    <3>. DEFINE taken(e) == IF e.by = 0 THEN [e EXCEPT !.by = lastSeq + 1] ELSE e
    <3>1. entries' = {taken(e) : e \in entries}
      BY <1>3 DEF Form
    <3>2. \A e \in entries : taken(e).id = e.id
      BY <1>1 DEF EntryType
    <3>. HIDE DEF taken
    <3>3. QED
      BY <3>1, <3>2
  <2>7. entries = {} /\ Folded.dels = {} => state.queued = {}
    <3>1. state.queued \subseteq Routes
      BY <1>1 DEF StateType
    <3>2. entries = {} => Folded.dels = {r \in state.queued : TRUE}
      BY <2>2, <3>1 DEF FoldQueued, Ordinary, Unconsumed, Deletes
    <3>3. QED
      BY <3>2
  <2>8. Forming(Folded)
    BY <1>3, <2>1, <2>2, <2>4, <2>5, <2>6, <2>7 DEF Forming, Form
  <2>9. QED
    BY <2>8, FoldedTyped
<1>4. ASSUME NEW mode \in RequestModes \ {"normal"}, TakeSnapshot(w, mode)
      PROVE  \E c \in ClaimType : Forming(c)
  <2>. DEFINE c == NewClaim(mode, {}, FALSE, FALSE)
  <2>1. ~Live /\ state.revoked = {}
    BY <1>4 DEF TakeSnapshot, Live
  <2>2. /\ state'.claim = c /\ state'.lastOk = state.lastOk /\ state'.revoked = {}
        /\ state'.queued = state.queued
    BY <1>1, <1>4, <2>1 DEF TakeSnapshot, StateType
  <2>3. Carried({c})
    BY <1>4, CarriedAfter DEF TakeSnapshot
  <2>4. c.seq = lastSeq + 1 /\ c.body = intent /\ OnMapping(c) /\ c.dels = {}
    BY DEF NewClaim, OnMapping
  <2>5. UNCHANGED <<ownerVars, rowVars, mgmt, net, far>>
    BY <1>4 DEF TakeSnapshot
  <2>6. Forming(c)
    BY <2>1, <2>2, <2>3, <2>4, <2>5 DEF Forming, rowVars
  <2>7. QED
    BY <2>6, NewClaimTyped
<1>5. QED
  BY <1>3, <1>4

LEMMA SendingKind ==
    ASSUME OutboxInv,
           \/ \E w \in Workers : Takeover(w) \/ Park(w) \/ Transmit(w) \/ RecordFailure(w)
                                \/ Superseded(w) \/ Crash(w)
           \/ LeaseExpires \/ AcknowledgeDegraded
    PROVE  Sending
<1>. USE DEF ownerVars, rowVars
<1>1. state \in StateType /\ far \in FarType /\ wk \in [Workers -> WorkerType]
  BY DEF OutboxInv, TypeOK
<1>2. \A v \in Workers : wk[v].claim \in Copies
  BY DEF Copies
<1>3. CASE LeaseExpires
  BY <1>1, <1>3 DEF LeaseExpires, StateType, Sending, SameStore, Carried, Copies
<1>4. CASE AcknowledgeDegraded
  <2>1. UNCHANGED <<ownerVars, rowVars, lastSeq, mgmt, wk, net>>
    BY <1>4 DEF AcknowledgeDegraded
  <2>2. SameStore /\ far'.astray = far.astray
    BY <1>1, <1>4 DEF AcknowledgeDegraded, SameStore, FarType
  <2>3. /\ state'.claim = state.claim /\ state'.lastOk = state.lastOk
        /\ state'.queued = state.queued /\ state'.revoked = state.revoked
    BY <1>1, <1>4 DEF AcknowledgeDegraded, StateType
  <2>4. QED
    BY <2>1, <2>2, <2>3 DEF Sending, Carried, Copies
<1>5. ASSUME NEW w \in Workers,
             Takeover(w) \/ Park(w) \/ RecordFailure(w) \/ Superseded(w) \/ Crash(w)
      PROVE  Sending
  <2>1. UNCHANGED <<ownerVars, rowVars, lastSeq, mgmt, net, far>>
    BY <1>5 DEF Takeover, Park, RecordFailure, Superseded, Crash
  <2>2. /\ state'.claim = state.claim /\ state'.lastOk = state.lastOk
        /\ state'.queued = state.queued /\ state'.revoked = state.revoked
    BY <1>1, <1>5 DEF Takeover, Park, RecordFailure, Superseded, Crash, StateType
  <2>3. Free(w) \/ Holds(w, state.claim)
    BY <1>5 DEF Takeover, Park, RecordFailure, Superseded, Crash
  <2>4. Carried({NoClaim}) \/ Carried({state.claim})
    BY <2>1, <2>3, CarriedAfter DEF OutboxInv
  <2>5. Carried({NoClaim, state.claim})
    BY <2>4 DEF Carried
  <2>6. QED
    BY <2>1, <2>2, <2>5 DEF Sending, SameStore
<1>6. ASSUME NEW w \in Workers, Transmit(w)
      PROVE  Sending
  <2>1. UNCHANGED <<ownerVars, rowVars, state, lastSeq, mgmt, far>>
    BY <1>6 DEF Transmit
  <2>2. \A v \in Workers : /\ wk'[v].claim = wk[v].claim
                           /\ wk'[v].pc = "answered" => wk'[v] = wk[v]
    BY <1>1, <1>6 DEF Transmit, WorkerType
  <2>3. \A m \in net' : m \in net \/ m.claim = wk[w].claim
    BY <1>6 DEF Transmit
  <2>4. Carried({})
    <3>1. \A m \in net : m.claim \in Copies
      BY DEF Copies
    <3>2. \A m \in net' : m.claim \in Copies
      BY <1>2, <2>3, <3>1
    <3>3. \A c \in Copies' : (\E v \in Workers : c = wk'[v].claim) \/ (\E m \in net' : c = m.claim)
      BY DEF Copies
    <3>4. \A v \in Workers : wk'[v].claim \in Copies
      BY <1>2, <2>2
    <3>5. \A c \in Copies' : c \in Copies
      BY <3>2, <3>3, <3>4
    <3>6. QED
      BY <2>2, <3>5 DEF Carried
  <2>5. QED
    BY <2>1, <2>4 DEF Sending, SameStore, Carried
<1>7. QED
  BY <1>3, <1>4, <1>5, <1>6

\* What an answered worker knows of the live claim is the live claim.
LEMMA AnsweredIsLive ==
    ASSUME OutboxInv, NEW w \in Workers, state.claim.seq = wk[w].claim.seq
    PROVE  Live => wk[w].claim = state.claim
BY DEF OutboxInv, OneOperationPerSequence, Live

\* Giving rows back keeps their keys and loses none.
LEMMA GivenBack ==
    ASSUME TypeOK
    PROVE  /\ \A e \in GiveBack(entries) : \E f \in entries : e.id = f.id
           /\ \A e \in entries : \E f \in GiveBack(entries) : f.id = e.id
           /\ GiveBack(entries) = {} => entries = {}
<1>. DEFINE back(e) == IF e.by = state.claim.seq THEN [e EXCEPT !.by = 0] ELSE e
<1>1. GiveBack(entries) = {back(e) : e \in entries}
  BY DEF GiveBack
<1>2. \A e \in entries : back(e).id = e.id
  BY DEF TypeOK, EntryType
<1>. HIDE DEF back
<1>3. QED
  BY <1>1, <1>2

LEMMA RehomedState ==
    ASSUME TypeOK, state.revoked = {}
    PROVE  /\ Rehomed.claim = NoClaim /\ Rehomed.lastOk = state.lastOk
           /\ Rehomed.revoked = state.revoked /\ Rehomed.queued = state.queued \cup state.claim.dels
           /\ [Rehomed EXCEPT !.withheld = TRUE].claim = NoClaim
           /\ [Rehomed EXCEPT !.withheld = TRUE].lastOk = state.lastOk
           /\ [Rehomed EXCEPT !.withheld = TRUE].revoked = state.revoked
           /\ [Rehomed EXCEPT !.withheld = TRUE].queued = state.queued \cup state.claim.dels
<1>1. state \in StateType
  BY DEF TypeOK
<1>2. state.claim.dels \ {} = state.claim.dels
  OBVIOUS
<1>3. QED
  BY <1>1, <1>2 DEF Rehomed, StateType

LEMMA AbandoningKind ==
    ASSUME OutboxInv,
           \E w \in Workers : \/ TakeoverAbandon(w) \/ AbandonBeforeSend(w)
                              \/ Withhold(w) \/ Dissolve(w)
    PROVE  Abandoning
<1>. USE DEF ownerVars
<1>1. /\ TypeOK /\ ClaimInv /\ HolderInv /\ AnswerInv /\ AppliedInv /\ ConsumedRowsNameTheLiveClaim
      /\ OneOperationPerSequence
  BY DEF OutboxInv, DeliveryInv
<1>2. far \in FarType /\ state.revoked = {} /\ (~Live => state.claim = NoClaim)
  BY <1>1 DEF TypeOK, ClaimInv
<1>3. ASSUME NEW W \in SUBSET Workers, GoesAstray(W), net' = net, Live,
             \A v \in Workers : wk'[v].claim \in {wk[v].claim, NoClaim},
             \A v \in Workers \ W : wk'[v].claim = NoClaim
      PROVE  /\ SameStore /\ (far.astray => far'.astray)
             /\ ~far'.astray /\ OnMapping(state.claim) =>
                  /\ far.seq # state.claim.seq
                  /\ \A c \in Copies' : c.seq = state.claim.seq => Harmless(c)
  <2>1. SameStore
    BY <1>1, <1>3, HistoryTyped DEF SameStore
  <2>2. MayLand(W) \in BOOLEAN /\ far.astray \in BOOLEAN
    BY <1>2 DEF MayLand, FarType
  <2>3. far'.astray = (far.astray \/ MayLand(W))
    BY <1>2, <1>3 DEF GoesAstray, FarType
  <2>4. ASSUME ~MayLand(W), OnMapping(state.claim), NEW c \in Copies', c.seq = state.claim.seq
        PROVE  FALSE
    <3>1. /\ \A m \in net : m.claim.seq # state.claim.seq
          /\ \A v \in W : wk[v].claim.seq # state.claim.seq
      BY <2>4 DEF MayLand, OnMapping
    <3>2. NoClaim.seq # state.claim.seq
      BY <1>3 DEF NoClaim, Live
    <3>3. \A v \in Workers : wk'[v].claim.seq # state.claim.seq
      BY <1>3, <3>1, <3>2
    <3>4. QED
      BY <1>3, <2>4, <3>1, <3>3 DEF Copies
  <2>5. QED
    BY <2>1, <2>2, <2>3, <2>4 DEF MayLand, OnMapping
<1>4. ASSUME NEW w \in Workers, TakeoverAbandon(w)
      PROVE  Abandoning
  <2>1. UNCHANGED <<ownerVars, nextId, lastSeq, mgmt, wk, net>> /\ Live /\ GoesAstray(Workers)
    BY <1>4 DEF TakeoverAbandon, Live
  <2>2. state' = Rehomed /\ entries' = GiveBack(entries)
    BY <1>4 DEF TakeoverAbandon
  <2>3. Carried({NoClaim})
    BY <2>1, <1>1, CarriedAfter DEF Carried
  <2>4. QED
    BY <1>1, <1>2, <1>3, <2>1, <2>2, <2>3, GivenBack, RehomedState DEF Abandoning
<1>5. ASSUME NEW w \in Workers, AbandonBeforeSend(w)
      PROVE  Abandoning
  <2>1. /\ UNCHANGED <<ownerVars, nextId, lastSeq, mgmt, net>> /\ Free(w)
        /\ GoesAstray(Workers \ {w})
    BY <1>5 DEF AbandonBeforeSend
  <2>2. state' = Rehomed /\ entries' = GiveBack(entries)
    BY <1>5 DEF AbandonBeforeSend
  <2>3. Live
    BY <1>1, <1>5 DEF AbandonBeforeSend, HolderInv, Live
  <2>4. Carried({NoClaim})
    BY <2>1, <1>1, CarriedAfter
  <2>5. /\ \A v \in Workers : wk'[v].claim \in {wk[v].claim, NoClaim}
        /\ wk'[w].claim = NoClaim
    BY <1>1, <2>1 DEF Free, TypeOK, Idle
  <2>6. QED
    BY <1>1, <1>2, <1>3, <2>1, <2>2, <2>3, <2>4, <2>5, GivenBack, RehomedState DEF Abandoning
<1>6. ASSUME NEW w \in Workers, wk[w].pc = "answered", state.claim.seq = wk[w].claim.seq
      PROVE  Live /\ wk[w].claim = state.claim
  BY <1>1, <1>6, AnsweredIsLive DEF HolderInv, Live
<1>7. ASSUME NEW w \in Workers, Withhold(w)
      PROVE  Abandoning
  <2>1. /\ UNCHANGED <<ownerVars, nextId, lastSeq, mgmt, net, far>> /\ Free(w)
        /\ Answered(w, "fence_shut") /\ state' = [Rehomed EXCEPT !.withheld = TRUE]
        /\ entries' = GiveBack(entries)
    BY <1>7 DEF Withhold
  <2>2. Live /\ wk[w].claim = state.claim
    BY <1>6, <2>1 DEF Answered
  <2>3. /\ PerObject /\ state.claim.mode = "normal" /\ state.claim.dels # {}
        /\ OnMapping(state.claim) /\ ~far.astray => far.shut /\ far.seq # state.claim.seq
    BY <1>1, <2>1, <2>2 DEF Answered, AnswerInv
  <2>4. Carried({NoClaim})
    BY <1>1, <2>1, CarriedAfter
  <2>5. \A c \in Copies' : c = NoClaim \/ (c.seq = state.claim.seq => c = state.claim)
    <3>1. \A c \in Copies : c.seq = state.claim.seq => c = state.claim
      BY <1>1, <2>2 DEF OneOperationPerSequence, Copies, Live
    <3>2. QED
      BY <2>4, <3>1 DEF Carried
  <2>6. NoClaim.seq # state.claim.seq
    BY <2>2 DEF NoClaim, Live
  <2>7. far.shut => Fenced(state.claim)
    BY <2>3 DEF Fenced
  <2>8. far'.astray = far.astray /\ SameStore
    BY <2>1 DEF SameStore
  <2>9. QED
    BY <1>1, <1>2, <2>1, <2>2, <2>3, <2>4, <2>5, <2>6, <2>7, <2>8, GivenBack, RehomedState
    DEF Abandoning, Harmless
<1>8. ASSUME NEW w \in Workers, Dissolve(w)
      PROVE  Abandoning
  <2>1. /\ UNCHANGED <<ownerVars, nextId, lastSeq, mgmt, net, far>> /\ Free(w)
        /\ Answered(w, "validation_error") /\ state' = Rehomed
        /\ entries' = GiveBack(entries) \/ entries' = {e \in entries : e.by # wk[w].claim.seq}
    BY <1>8 DEF Dissolve
  <2>2. Live /\ wk[w].claim = state.claim
    BY <1>6, <2>1 DEF Answered
  <2>3. Bad(state.claim.body)
    BY <1>1, <2>1, <2>2 DEF Answered, AnswerInv
  <2>4. far.seq # state.claim.seq
    BY <1>1, <2>2, <2>3 DEF AppliedInv
  <2>5. Carried({NoClaim})
    BY <1>1, <2>1, CarriedAfter
  <2>6. \A c \in Copies' : c = NoClaim \/ (c.seq = state.claim.seq => c = state.claim)
    <3>1. \A c \in Copies : c.seq = state.claim.seq => c = state.claim
      BY <1>1, <2>2 DEF OneOperationPerSequence, Copies, Live
    <3>2. QED
      BY <2>5, <3>1 DEF Carried
  <2>7. NoClaim.seq # state.claim.seq
    BY <2>2 DEF NoClaim, Live
  <2>8. entries' = {} => entries = {} \/ Unconsumed = {}
    <3>1. \A e \in Unconsumed : e.by # state.claim.seq
      BY <2>2 DEF Unconsumed, Live
    <3>2. QED
      BY <1>1, <2>1, <2>2, <3>1, GivenBack DEF Unconsumed
  <2>9. \A e \in entries' : \E f \in entries : e.id = f.id
    BY <1>1, <2>1, GivenBack
  <2>10. far'.astray = far.astray /\ SameStore
    BY <2>1 DEF SameStore
  <2>11. QED
    BY <1>1, <1>2, <2>1, <2>2, <2>3, <2>4, <2>5, <2>6, <2>7, <2>8, <2>9, <2>10, RehomedState
    DEF Abandoning, Harmless
<1>9. QED
  BY <1>4, <1>5, <1>7, <1>8

LEMMA SettlingKind ==
    ASSUME OutboxInv, NEW w \in Workers, Settle(w)
    PROVE  Settling
<1>1. TypeOK /\ ClaimInv /\ HolderInv /\ AnswerInv
  BY DEF OutboxInv, DeliveryInv
<1>2. Answered(w, "ok")
  BY DEF Settle
<1>3. Live /\ wk[w].claim = state.claim
  BY <1>1, <1>2, AnsweredIsLive DEF Answered, HolderInv, Live
<1>4. OnMapping(state.claim) => far.seq = state.claim.seq
  BY <1>1, <1>2, <1>3 DEF Answered, AnswerInv
<1>5. /\ state'.claim = NoClaim /\ state'.lastOk = Identity(state.claim)
      /\ state'.queued = state.queued /\ state'.revoked = {}
  BY <1>1, <1>3 DEF Settle, Acknowledged, ClaimInv
<1>6. SameStore /\ far'.astray = (far.astray /\ state.claim.mode = "backfill")
  <2>1. far' = [far EXCEPT !.astray = @ /\ (state.claim.mode = "backfill")]
    BY <1>3 DEF Settle
  <2>2. (state.claim.mode = "backfill") \in BOOLEAN /\ far \in FarType
    BY <1>1 DEF TypeOK
  <2>3. QED
    BY <2>1, <2>2 DEF FarType, SameStore
<1>7. Carried({NoClaim})
  BY <1>1, CarriedAfter DEF Settle
<1>8. QED
  BY <1>3, <1>4, <1>5, <1>6, <1>7 DEF Settling, Settle

LEMMA RetiringKind ==
    ASSUME OutboxInv, NEW force, Drop(force) \/ CaptureRefused(force)
    PROVE  Retiring
<1>1. TypeOK /\ ClaimInv /\ state \in StateType
  BY DEF OutboxInv, DeliveryInv, TypeOK
<1>2. ~Live /\ state.claim.dels = {} /\ state.revoked = {}
  BY <1>1 DEF Drop, CaptureRefused, ClaimInv, Live, NoClaim
<1>3. FoldedRevoked = {}
  BY <1>2 DEF FoldedRevoked, FoldRevoked
<1>4. CASE Drop(force)
  <2>1. Identity(Folded) = state.lastOk
    BY <1>4 DEF Drop, Unchanged
  <2>2. OnMapping(state.lastOk) /\ state.lastOk.mode = "normal" /\ state.lastOk.body = intent
    BY <2>1 DEF Identity, Folded, NewClaim, OnMapping
  <2>3. state'.claim = state.claim /\ state'.lastOk = state.lastOk /\ state'.revoked = {}
    BY <1>1, <1>3, <1>4 DEF Drop, StateType
  <2>4. QED
    BY <1>2, <1>4, <2>2, <2>3 DEF Drop, Retiring
<1>5. CASE CaptureRefused(force)
  BY <1>2, <1>5 DEF CaptureRefused, Retiring
<1>6. QED
  BY <1>4, <1>5

\* An adapter step hands its answer to the sender that waits for it, or to nobody.
LEMMA AnswerCarries ==
    ASSUME TypeOK, NEW m \in net, NEW code, NEW out, Answer(m, code, out)
    PROVE  /\ UNCHANGED <<ownerVars, rowVars, state, lastSeq, mgmt>>
           /\ \A c \in Copies' : c \in Copies
           /\ \A v \in Workers : wk'[v].claim = wk[v].claim /\ (wk'[v].pc = "idle" <=> wk[v].pc = "idle")
           /\ \A v \in Workers : \/ wk'[v] = wk[v]
                                 \/ wk'[v].claim = m.claim /\ wk'[v].code = code
<1>1. wk \in [Workers -> WorkerType] /\ m.w \in Workers
  BY DEF TypeOK
<1>2. ASSUME NEW v \in Workers
      PROVE  /\ wk'[v].claim = wk[v].claim
             /\ wk'[v].pc = "idle" <=> wk[v].pc = "idle"
             /\ \/ wk'[v] = wk[v]
                \/ wk'[v].claim = m.claim /\ wk'[v].code = code
  <2>1. wk[v] \in WorkerType
    BY <1>1
  <2>2. CASE wk' = wk
    BY <2>2
  <2>3. CASE /\ wk[m.w].pc = "sent" /\ wk[m.w].claim = m.claim
             /\ wk' = [wk EXCEPT ![m.w].pc = "answered", ![m.w].code = code, ![m.w].out = out]
    BY <1>1, <2>1, <2>3 DEF WorkerType
  <2>4. QED
    BY <2>2, <2>3 DEF Answer
<1>3. \A c \in Copies' : (\E v \in Workers : c = wk'[v].claim) \/ (\E n \in net' : c = n.claim)
  BY DEF Copies
<1>4. \A n \in net' : n.claim \in Copies
  BY DEF Answer, Copies
<1>5. \A v \in Workers : wk[v].claim \in Copies
  BY DEF Copies
<1>6. \A v \in Workers : wk'[v].claim \in Copies
  BY <1>2, <1>5
<1>7. \A c \in Copies' : c \in Copies
  BY <1>3, <1>4, <1>6
<1>8. QED
  BY <1>2, <1>7 DEF Answer

\* What an applied request makes of the store.
LEMMA AppliedStore ==
    ASSUME TypeOK, NEW c \in ClaimType, NEW code \in {"ok", "inexact"}, NEW out \in OutOf(c),
           far' = Accepted(c, code, out)
    PROVE  /\ far'.seq = c.seq /\ far'.code = code /\ far'.astray = far.astray
           /\ far'.shut = (far.shut /\ c.mode # "backfill")
           /\ c.mode # "backfill" => far'.held = c.body
           /\ c.body = far.held => far'.held = far.held
<1>1. far'.held = Stored(c, out)
  BY DEF Accepted
<1>2. c.mode # "backfill" => far'.held = c.body
  BY <1>1 DEF Stored
<1>3. ASSUME c.mode = "backfill", c.body = far.held
      PROVE  far'.held = far.held
  <2>1. Dropped(c) = {}
    BY <1>3 DEF Dropped
  <2>2. out = {}
    BY <1>3, <2>1 DEF OutOf
  <2>3. far.held \in [Routes -> Gens]
    BY DEF TypeOK, FarType, Content
  <2>4. QED
    BY <1>1, <1>3, <2>2, <2>3 DEF Stored
<1>4. QED
  BY <1>2, <1>3 DEF Accepted

LEMMA ServingKind ==
    ASSUME OutboxInv, Adapter
    PROVE  Answering \/ \E c \in ClaimType : Applying(c)
<1>1. TypeOK /\ AnswerInv
  BY DEF OutboxInv, DeliveryInv
<1>2. PICK m \in net : AdapterHandles(m)
  BY DEF Adapter
<1>3. m.claim \in ClaimType /\ m.claim \in Copies /\ m.claim.seq \in Nat /\ far.seq \in Nat
  BY <1>1 DEF TypeOK, Copies, ClaimType, FarType
<1>4. CASE AnswerElsewhere(m) \/ AnswerReceipt(m) \/ AnswerFenceShut(m) \/ AnswerInvalid(m)
  <2>1. PICK code, out : /\ Answer(m, code, out) /\ UNCHANGED far
                         /\ code = "ok" => m.claim.device # mgmt.device \/ m.claim.seq = far.seq
                         /\ code = "validation_error" => Bad(m.claim.body)
                         /\ code = "fence_shut" => Fenced(m.claim) /\ far.seq # m.claim.seq
    <3>1. CASE AnswerElsewhere(m)
      BY <3>1 DEF AnswerElsewhere, Here
    <3>2. CASE AnswerReceipt(m)
      BY <1>1, <3>2 DEF AnswerReceipt, AnswerInv
    <3>3. CASE AnswerFenceShut(m)
      BY <1>3, <3>3 DEF AnswerFenceShut, Fresh
    <3>4. CASE AnswerInvalid(m)
      BY <3>4 DEF AnswerInvalid
    <3>5. QED
      BY <1>4, <3>1, <3>2, <3>3, <3>4
  <2>2. Told
    BY <1>1, <2>1, AnswerCarries DEF Told, Learns, Fenced
  <2>3. QED
    BY <1>1, <2>1, <2>2, AnswerCarries DEF Answering
<1>5. CASE Apply(m)
  <2>1. PICK out \in OutOf(m.claim), code \in {"ok", "inexact"} :
          Answer(m, code, out) /\ far' = Accepted(m.claim, code, out)
    BY <1>5 DEF Apply
  <2>2. m.claim.device = mgmt.device /\ ~Harmless(m.claim)
    BY <1>3, <1>5 DEF Apply, Fresh, Here, Harmless
  <2>3. far'.seq = m.claim.seq
    BY <1>1, <1>3, <2>1, AppliedStore
  <2>4. Told
    BY <1>1, <2>1, <2>3, AnswerCarries DEF Told, Learns
  <2>5. Applying(m.claim)
    BY <1>1, <1>3, <2>1, <2>2, <2>4, AnswerCarries, AppliedStore DEF Applying
  <2>6. QED
    BY <1>3, <2>5
<1>6. QED
  BY <1>2, <1>4, <1>5 DEF AdapterHandles

LEMMA NotingKind ==
    ASSUME OutboxInv, Unlink \/ AdoptIncarnation \/ AdoptSourceEpoch
    PROVE  Noting
<1>1. TypeOK /\ ClaimInv /\ mgmt \in MgmtType
  BY DEF OutboxInv, DeliveryInv, TypeOK
<1>2. UNCHANGED <<ownerVars, rowVars, state, lastSeq, wk, net, far>>
  BY DEF Unlink, AdoptIncarnation, AdoptSourceEpoch
<1>3. mgmt'.device = mgmt.device /\ mgmt'.inc = mgmt.inc /\ (Sound' => Sound)
  BY <1>1 DEF Unlink, AdoptIncarnation, AdoptSourceEpoch, MgmtType, Sound
<1>4. mgmt'.link = "offboarded" <=> mgmt.link = "offboarded"
  BY <1>1 DEF Unlink, AdoptIncarnation, AdoptSourceEpoch, MgmtType, ClaimInv
<1>5. QED
  BY <1>2, <1>3, <1>4 DEF Noting

LEMMA RelinkingKind ==
    ASSUME OutboxInv, Link \/ Rebuild
    PROVE  Relinking
<1>1. TypeOK /\ mgmt \in MgmtType
  BY DEF OutboxInv, TypeOK
<1>2. UNCHANGED <<ownerVars, rowVars, state, lastSeq, wk>> /\ net' \subseteq net /\ far' = BlankStore
  BY DEF Link, Rebuild
<1>3. \A c \in Copies' : c \in Copies
  BY <1>2 DEF Copies
<1>4. CASE Link
  <2>1. /\ mgmt'.link = "linked" /\ mgmt'.device = mgmt.device + 1 /\ mgmt'.inc = mgmt.inc
        /\ mgmt'.trusted => mgmt.link = "offboarded"
    BY <1>1, <1>4 DEF Link, MgmtType
  <2>2. QED
    BY <1>2, <1>3, <2>1 DEF Relinking, Sound
<1>5. CASE Rebuild
  <2>1. /\ mgmt'.link = "linked" /\ mgmt'.device = mgmt.device /\ mgmt'.inc = mgmt.inc + 1
        /\ mgmt'.adopting
    BY <1>1, <1>5 DEF Rebuild, MgmtType
  <2>2. QED
    BY <1>2, <1>3, <2>1 DEF Relinking, Sound
<1>6. QED
  BY <1>4, <1>5

LEMMA OffboardingKind ==
    ASSUME OutboxInv, Offboard
    PROVE  Offboarding
<1>1. TypeOK /\ mgmt \in MgmtType /\ state.revoked = {}
  BY DEF OutboxInv, DeliveryInv, ClaimInv, TypeOK
<1>2. mgmt'.link = "offboarded" /\ mgmt'.device = mgmt.device /\ mgmt'.inc = mgmt.inc
  BY <1>1 DEF Offboard, MgmtType
<1>3. state'.claim = NoClaim /\ state'.lastOk = NoIdentity /\ state'.revoked = state.revoked
  BY <1>1, RehomedState DEF Offboard, Rehomed, TypeOK, StateType
<1>4. QED
  BY <1>1, <1>2, <1>3, GivenBack DEF Offboard, Offboarding

Kinds ==
    \/ Rewriting \/ Sending \/ Abandoning \/ Settling \/ Retiring \/ Answering
    \/ \E c \in ClaimType : Forming(c) \/ Applying(c)
    \/ Noting \/ Relinking \/ Offboarding

LEMMA EveryStepIsOfAKind ==
    ASSUME OutboxInv, [Next]_vars
    PROVE  Kinds
<1>1. ASSUME NEW w \in Workers, NEW mode \in AskedModes, NEW force \in Forces, ClaimKey(w, mode, force)
      PROVE  Kinds
  <2>1. mgmt.link = "linked" /\ mode \in RequestModes
    BY <1>1, ModesAssumption DEF ClaimKey, Claimable, AskedModes, RequestModes
  <2>2. CASE Takeover(w)
    BY <2>2, SendingKind DEF Kinds
  <2>3. CASE TakeoverAbandon(w)
    BY <2>3, AbandoningKind DEF Kinds
  <2>4. CASE Form(w, force) \/ FormStoreOnly(w) \/ FormBackfill(w)
    <3>1. \/ \E f : Form(w, f)
          \/ \E m \in RequestModes \ {"normal"} : TakeSnapshot(w, m)
      BY <2>4 DEF FormStoreOnly, FormBackfill, RequestModes
    <3>2. \E c \in ClaimType : Forming(c)
      BY <2>1, <3>1, FormingKind
    <3>3. QED
      BY <3>2 DEF Kinds
  <2>5. CASE Drop(force) \/ CaptureRefused(force)
    BY <2>5, RetiringKind DEF Kinds
  <2>6. QED
    BY <1>1, <2>2, <2>3, <2>4, <2>5 DEF ClaimKey
<1>2. ASSUME NEW w \in Workers, Draining(w)
      PROVE  Kinds
  BY <1>1, <1>2, SendingKind, AbandoningKind, SettlingKind DEF Draining, Outcome, Kinds
<1>3. CASE Environment
  BY <1>3, SendingKind, NotingKind, RelinkingKind, OffboardingKind DEF Environment, Kinds
<1>4. CASE UNCHANGED vars
  <2>1. Answering
    BY <1>4 DEF vars, ownerVars, rowVars, Answering, Copies, Told
  <2>2. QED
    BY <2>1 DEF Kinds
<1>5. QED
  BY <1>2, <1>3, <1>4, RewritingKind, ServingKind DEF Next, Kinds

-----------------------------------------------------------------------------
(* Each part of the invariant is kept by each kind of step                 *)

LEMMA Typed ==
    ASSUME TypeOK
    PROVE  /\ state \in StateType /\ mgmt \in MgmtType /\ far \in FarType
           /\ Copies \subseteq ClaimType /\ state.claim \in ClaimType /\ NoClaim \in ClaimType
           /\ state.claim.seq \in Nat /\ lastSeq \in Nat /\ far.seq \in Nat
           /\ mgmt.device \in Nat /\ mgmt.inc \in Nat
           /\ state.lastOk.device \in Nat /\ state.lastOk.inc \in Nat
           /\ \A c \in ClaimType : c.seq \in Nat /\ c.device \in Nat /\ c.inc \in Nat
           /\ NoClaim.seq = 0 /\ NoClaim.device = 0 /\ NoClaim.inc = 0 /\ NoClaim.dels = {}
<1>1. state \in StateType /\ mgmt \in MgmtType /\ far \in FarType /\ lastSeq \in Nat
  BY DEF TypeOK
<1>2. Copies \subseteq ClaimType
  BY DEF TypeOK, Copies, WorkerType
<1>3. \A c \in ClaimType : c.seq \in Nat /\ c.device \in Nat /\ c.inc \in Nat
  BY DEF ClaimType
<1>4. NoClaim.seq = 0 /\ NoClaim.device = 0 /\ NoClaim.inc = 0 /\ NoClaim.dels = {}
  BY DEF NoClaim
<1>5. state.claim \in ClaimType /\ state.lastOk.device \in Nat /\ state.lastOk.inc \in Nat
  BY <1>1 DEF StateType, IdentityType
<1>6. far.seq \in Nat /\ mgmt.device \in Nat /\ mgmt.inc \in Nat
  BY <1>1 DEF FarType, MgmtType
<1>7. QED
  BY <1>1, <1>2, <1>3, <1>4, <1>5, <1>6, NoClaimTyped

LEMMA ClaimStep ==
    ASSUME OutboxInv, Kinds
    PROVE  ClaimInv'
<1>1. TypeOK /\ ClaimInv /\ ConsumedRowsNameTheLiveClaim
  BY DEF OutboxInv, DeliveryInv
<1>. USE DEF ClaimInv, Live
<1>2. lastSeq \in Nat /\ NoClaim.seq = 0
  BY <1>1, Typed
<1>3. CASE Rewriting
  BY <1>1, <1>3 DEF Rewriting
<1>4. ASSUME NEW c \in ClaimType, Forming(c)
      PROVE  ClaimInv'
  <2>1. \A e \in entries : e.by = 0
    BY <1>1, <1>4 DEF Forming, ConsumedRowsNameTheLiveClaim
  <2>2. QED
    BY <1>1, <1>2, <1>4, <2>1 DEF Forming
<1>5. CASE Sending
  BY <1>1, <1>5 DEF Sending, ownerVars, rowVars
<1>6. CASE Abandoning \/ Settling
  BY <1>1, <1>2, <1>6 DEF Abandoning, Settling, ownerVars
<1>7. CASE Retiring
  BY <1>1, <1>7 DEF Retiring, ownerVars
<1>8. CASE Answering \/ \E c \in ClaimType : Applying(c)
  BY <1>1, <1>8 DEF Answering, Applying, ownerVars, rowVars
<1>9. CASE Noting
  BY <1>1, <1>9 DEF Noting, ownerVars, rowVars
<1>10. CASE Relinking
  BY <1>1, <1>10 DEF Relinking, ownerVars, rowVars
<1>11. CASE Offboarding
  BY <1>1, <1>2, <1>11 DEF Offboarding
<1>12. QED
  BY <1>3, <1>4, <1>5, <1>6, <1>7, <1>8, <1>9, <1>10, <1>11 DEF Kinds

LEMMA MappingStep ==
    ASSUME OutboxInv, Kinds
    PROVE  MappingInv'
<1>1. TypeOK /\ ClaimInv /\ MappingInv
  BY DEF OutboxInv, DeliveryInv
<1>. USE DEF MappingInv, Live, Before
<1>2. CASE Rewriting
  BY <1>1, <1>2 DEF Rewriting, Copies
<1>3. ASSUME NEW c \in ClaimType, Forming(c)
      PROVE  MappingInv'
  BY <1>1, <1>3, Typed DEF Forming, Carried, OnMapping
<1>4. CASE Sending
  BY <1>1, <1>4, Typed DEF Sending, Carried, SameStore
<1>5. CASE Abandoning
  BY <1>1, <1>5, Typed DEF Abandoning, Carried, SameStore
<1>6. CASE Settling
  BY <1>1, <1>6, Typed DEF Settling, Carried, SameStore, Identity
<1>7. CASE Retiring
  BY <1>1, <1>7 DEF Retiring, Copies
<1>8. CASE Answering \/ \E c \in ClaimType : Applying(c)
  BY <1>1, <1>8 DEF Answering, Applying
<1>9. CASE Noting
  BY <1>1, <1>9 DEF Noting, Copies
<1>10. CASE Relinking
  BY <1>1, <1>10, Typed DEF Relinking, BlankStore
<1>11. CASE Offboarding
  BY <1>1, <1>11, Typed DEF Offboarding, BlankStore, Copies, NoIdentity, Identity
<1>12. QED
  BY <1>2, <1>3, <1>4, <1>5, <1>6, <1>7, <1>8, <1>9, <1>10, <1>11 DEF Kinds

LEMMA AppliedStep ==
    ASSUME OutboxInv, Kinds
    PROVE  AppliedInv'
<1>1. TypeOK /\ ClaimInv /\ AppliedInv /\ OneOperationPerSequence
  BY DEF OutboxInv, DeliveryInv
<1>. USE DEF AppliedInv, Live
<1>2. CASE Rewriting
  BY <1>1, <1>2 DEF Rewriting
<1>3. ASSUME NEW c \in ClaimType, Forming(c)
      PROVE  AppliedInv'
  BY <1>1, <1>3, Typed DEF Forming, OneOperationPerSequence
<1>4. CASE Sending
  BY <1>1, <1>4 DEF Sending, SameStore
<1>5. CASE Abandoning \/ Settling \/ Offboarding
  BY <1>5, <1>1, Typed DEF Abandoning, Settling, Offboarding
<1>6. CASE Retiring
  BY <1>1, <1>6 DEF Retiring
<1>7. CASE Answering
  BY <1>1, <1>7 DEF Answering
<1>8. ASSUME NEW c \in ClaimType, Applying(c)
      PROVE  AppliedInv'
  <2>1. Live /\ c.seq = state.claim.seq => c = state.claim
    BY <1>1, <1>8 DEF Applying, Copies, OneOperationPerSequence
  <2>2. ~Bad(c.body)
    BY <1>8 DEF Applying, Harmless
  <2>3. QED
    BY <1>1, <1>8, <2>1, <2>2 DEF Applying
<1>9. CASE Noting
  BY <1>1, <1>9 DEF Noting
<1>10. CASE Relinking
  BY <1>1, <1>10, Typed DEF Relinking, BlankStore
<1>11. QED
  BY <1>2, <1>3, <1>4, <1>5, <1>6, <1>7, <1>8, <1>9, <1>10 DEF Kinds

LEMMA BodyStep ==
    ASSUME OutboxInv, Kinds
    PROVE  BodyInv'
<1>1. TypeOK /\ ClaimInv /\ BodyInv
  BY DEF OutboxInv, DeliveryInv
<1>. USE DEF BodyInv, Live, OnMapping, Sound
<1>2. CASE Rewriting
  BY <1>1, <1>2 DEF Rewriting
<1>3. ASSUME NEW c \in ClaimType, Forming(c)
      PROVE  BodyInv'
  BY <1>1, <1>3 DEF Forming, ownerVars
<1>4. CASE Sending
  BY <1>1, <1>4 DEF Sending, ownerVars, rowVars, Unconsumed
<1>5. CASE Abandoning \/ Settling \/ Offboarding
  BY <1>5, <1>1, Typed DEF Abandoning, Settling, Offboarding
<1>6. CASE Retiring
  BY <1>1, <1>6 DEF Retiring
<1>7. CASE Answering \/ \E c \in ClaimType : Applying(c)
  BY <1>1, <1>7 DEF Answering, Applying, ownerVars, rowVars, Unconsumed
<1>8. CASE Noting
  BY <1>1, <1>8 DEF Noting, ownerVars, rowVars, Unconsumed
<1>9. CASE Relinking
  BY <1>1, <1>9 DEF Relinking, ClaimInv
<1>10. QED
  BY <1>2, <1>3, <1>4, <1>5, <1>6, <1>7, <1>8, <1>9 DEF Kinds

LEMMA HolderStep ==
    ASSUME OutboxInv, [Next]_vars
    PROVE  HolderInv'
<1>1. TypeOK /\ HolderInv
  BY DEF OutboxInv, DeliveryInv
<1>2. wk \in [Workers -> WorkerType] /\ lastSeq \in Nat
  BY <1>1 DEF TypeOK
<1>. USE DEF HolderInv
<1>3. ASSUME NEW w \in Workers, Free(w)
      PROVE  HolderInv'
  BY <1>1, <1>2, <1>3 DEF Free, Idle
<1>4. ASSUME NEW w \in Workers, NEW c, c.seq # 0, Holds(w, c)
      PROVE  HolderInv'
  <2>. DEFINE h == [Idle EXCEPT !.pc = "claimed", !.claim = c]
  <2>1. \A v \in Workers : wk'[v] = IF v = w THEN h ELSE wk[v]
    BY <1>2, <1>4 DEF Holds
  <2>2. h.claim = c
    BY DEF Idle
  <2>. HIDE DEF h
  <2>3. QED
    BY <1>1, <1>4, <2>1, <2>2
<1>5. ASSUME NEW w \in Workers, NEW mode \in RequestModes, NEW force, ClaimKey(w, mode, force)
      PROVE  HolderInv'
  <2>1. NewClaim("normal", {}, FALSE, FALSE).seq # 0 /\ Folded.seq # 0
    BY <1>2 DEF NewClaim, Folded
  <2>2. ASSUME NEW m, TakeSnapshot(w, m)
        PROVE  \E c : c.seq # 0 /\ Holds(w, c)
    <3>1. NewClaim(m, {}, FALSE, FALSE).seq # 0
      BY <1>2 DEF NewClaim
    <3>2. QED
      BY <2>2, <3>1 DEF TakeSnapshot
  <2>3. \/ wk' = wk
        \/ \E c : c.seq # 0 /\ Holds(w, c)
    BY <1>5, <2>1, <2>2
    DEF ClaimKey, Takeover, TakeoverAbandon, Form, Drop, CaptureRefused, FormStoreOnly, FormBackfill
  <2>4. QED
    BY <1>1, <1>4, <2>3
<1>6. ASSUME NEW w \in Workers, Draining(w)
      PROVE  HolderInv'
  <2>1. CASE \E mode \in AskedModes, force \in Forces : ClaimKey(w, mode, force)
    BY <1>5, <2>1, ModesAssumption DEF AskedModes, RequestModes
  <2>2. CASE Transmit(w)
    <3>1. wk' = [wk EXCEPT ![w].pc = "sent"] /\ wk[w].pc = "claimed"
      BY <2>2 DEF Transmit
    <3>2. QED
      BY <1>1, <1>2, <3>1 DEF WorkerType
  <2>3. CASE Park(w) \/ AbandonBeforeSend(w) \/ Outcome(w)
    BY <1>3, <2>3
    DEF Park, AbandonBeforeSend, Outcome, Settle, RecordFailure, Withhold, Dissolve, Superseded
  <2>4. QED
    BY <1>6, <2>1, <2>2, <2>3 DEF Draining
<1>7. CASE Adapter
  <2>1. PICK m \in net : AdapterHandles(m)
    BY <1>7 DEF Adapter
  <2>2. \E code, out : Answer(m, code, out)
    BY <2>1 DEF AdapterHandles, AnswerElsewhere, AnswerReceipt, AnswerFenceShut, AnswerInvalid, Apply
  <2>3. \A v \in Workers : wk'[v].claim = wk[v].claim /\ (wk'[v].pc = "idle" <=> wk[v].pc = "idle")
    BY <1>1, <2>2, AnswerCarries
  <2>4. QED
    BY <1>1, <2>3
<1>8. CASE Operator \/ Audit \/ Compact \/ UNCHANGED vars
  <2>1. wk' = wk
    BY <1>8
    DEF Operator, AcceptOrEdit, Reown, Delete, Release, Bypass, Write, Audit, Compact, vars
  <2>2. QED
    BY <1>1, <2>1
<1>9. CASE Environment
  <2>1. wk' = wk \/ \E w \in Workers : Free(w)
    BY <1>9
    DEF Environment, Crash, LeaseExpires, AcknowledgeDegraded, Unlink, Link, Rebuild,
        AdoptIncarnation, AdoptSourceEpoch, Offboard
  <2>2. QED
    BY <1>1, <1>3, <2>1
<1>10. QED
  BY <1>6, <1>7, <1>8, <1>9 DEF Next

\* An answer that has reached its sender stays true while the claim it answers is live.
LEMMA AnswerStep ==
    ASSUME OutboxInv, Kinds
    PROVE  AnswerInv'
<1>1. TypeOK /\ ClaimInv /\ AnswerInv /\ MappingInv /\ StrayInv /\ OneOperationPerSequence
  BY DEF OutboxInv, DeliveryInv
<1>. USE DEF AnswerInv, Live, OnMapping
<1>2. CASE Rewriting
  BY <1>1, <1>2 DEF Rewriting
<1>3. ASSUME NEW c \in ClaimType, Forming(c)
      PROVE  AnswerInv'
  BY <1>1, <1>3, Typed DEF Forming, Carried, OneOperationPerSequence
<1>4. CASE Sending
  BY <1>1, <1>4 DEF Sending, SameStore, Carried
<1>5. CASE Abandoning \/ Settling
  BY <1>1, <1>5, Typed DEF Abandoning, Settling, SameStore, Carried
<1>6. CASE Retiring
  BY <1>1, <1>6 DEF Retiring
<1>7. CASE Answering
  BY <1>1, <1>7 DEF Answering, Told, Learns
<1>8. ASSUME NEW d \in ClaimType, Applying(d)
      PROVE  AnswerInv'
  <2>1. d.seq > far.seq /\ d.seq <= lastSeq /\ d.inc <= mgmt.inc
    BY <1>1, <1>8, Typed DEF Applying, Harmless, Copies, OneOperationPerSequence, MappingInv, Before
  <2>2. SUFFICES ASSUME NEW w \in Workers, wk'[w] = wk[w], wk[w].pc = "answered",
                        Live, wk[w].claim.seq = state.claim.seq, OnMapping(wk[w].claim)
                 PROVE  /\ wk[w].code = "ok" => far'.seq = wk[w].claim.seq
                        /\ wk[w].code = "fence_shut" /\ ~far'.astray =>
                              far'.shut /\ far'.seq # wk[w].claim.seq
    BY <1>1, <1>8 DEF Applying, Told, Learns
  <2>3. wk[w].claim = state.claim /\ state.claim.seq = lastSeq
    BY <1>1, <2>2 DEF OneOperationPerSequence
  <2>4. wk[w].code # "ok"
    BY <1>1, <2>1, <2>2, <2>3, Typed
  <2>5. ASSUME wk[w].code = "fence_shut", ~far.astray
        PROVE  far'.shut /\ far'.seq # wk[w].claim.seq
    <3>1. far.shut /\ mgmt.inc = 0 /\ Fenced(state.claim)
      BY <1>1, <2>2, <2>3, <2>5 DEF MappingInv, Fenced
    <3>2. d.seq # state.claim.seq
      <4>1. d.seq = state.claim.seq => d = state.claim
        BY <1>1, <1>8, <2>2 DEF Applying, Copies, OneOperationPerSequence
      <4>2. QED
        BY <1>8, <3>1, <4>1 DEF Applying, Harmless
    <3>3. d.inc = mgmt.inc
      BY <1>1, <2>1, <3>1, Typed
    <3>4. Harmless(d)
      BY <1>1, <1>8, <2>2, <2>5, <3>2, <3>3 DEF StrayInv, Stray, Applying, ClaimInv
    <3>5. QED
      BY <1>8, <3>4 DEF Applying
  <2>6. QED
    BY <1>8, <2>4, <2>5 DEF Applying
<1>9. CASE Noting
  BY <1>1, <1>9 DEF Noting
<1>10. CASE Relinking
  <2>1. \A w \in Workers : Before(wk[w].claim, mgmt) /\ wk[w].claim \in ClaimType
    BY <1>1, Typed DEF MappingInv, Copies
  <2>2. \A w \in Workers : ~OnMapping(wk[w].claim)'
    BY <1>1, <1>10, <2>1, Typed DEF Relinking, Before
  <2>3. QED
    BY <1>1, <1>10, <2>2 DEF Relinking, BlankStore
<1>11. CASE Offboarding
  BY <1>1, <1>11, Typed DEF Offboarding, BlankStore
<1>12. QED
  BY <1>2, <1>3, <1>4, <1>5, <1>6, <1>7, <1>8, <1>9, <1>10, <1>11 DEF Kinds

\* A key that is paid after an operator's step was paid before it, and for the same intent.
LEMMA RewritingPays ==
    ASSUME Rewriting, Paid'
    PROVE  Paid /\ intent' = intent
<1>1. Sound' /\ Unconsumed' = {} /\ entries' = {}
  BY DEF Paid, Unconsumed
<1>2. Unconsumed = {} /\ Sound /\ intent' = intent
  BY <1>1 DEF Rewriting, Sound
<1>3. entries = {}
  BY <1>1, <1>2 DEF Rewriting, Unconsumed
<1>4. QED
  BY <1>2, <1>3 DEF Rewriting, Paid, Bad

\* So was a key that is paid after a claim was formed, or given back.
LEMMA FormingPays ==
    ASSUME ClaimInv, NEW c, Forming(c), Paid'
    PROVE  Paid
BY DEF ClaimInv, Forming, Paid, Sound, Bad, ownerVars, NoClaim

LEMMA AbandoningPays ==
    ASSUME TypeOK, BodyInv, Abandoning, Paid'
    PROVE  Paid /\ OnMapping(state.claim)
<1>1. entries' = {} /\ state.queued = {} /\ state.claim.dels = {} /\ Live
  BY DEF Paid, Abandoning
<1>2. Sound /\ ~Bad(intent) /\ far.astray = FALSE
  BY DEF Paid, Sound, Bad, Abandoning, ownerVars, TypeOK, FarType
<1>3. Unconsumed = {}
  BY <1>1 DEF Abandoning, Unconsumed
<1>4. OnMapping(state.claim) /\ state.claim.body = intent
  BY <1>1, <1>2, <1>3 DEF BodyInv
<1>5. entries = {}
  BY <1>1, <1>2, <1>4 DEF Abandoning
<1>6. QED
  BY <1>1, <1>2, <1>4, <1>5 DEF Paid

\* A claim whose settlement pays the key carried the intent, to the store in place.
LEMMA SettlingPays ==
    ASSUME BodyInv, Settling, Paid'
    PROVE  /\ OnMapping(state.claim) /\ state.claim.body = intent
           /\ Sound /\ Unconsumed = {} /\ state.queued = {}
<1>1. entries' = {} /\ state.queued = {} /\ Live /\ Sound
  BY DEF Paid, Sound, Settling
<1>2. Unconsumed = {}
  BY <1>1 DEF Settling, Unconsumed, Live
<1>3. QED
  BY <1>1, <1>2 DEF BodyInv

LEMMA RetiringPays ==
    ASSUME Retiring, Paid'
    PROVE  OnMapping(state.lastOk) /\ state.lastOk.mode = "normal" /\ state.lastOk.body = intent
BY DEF Retiring, Paid, Bad, ownerVars

LEMMA StrayStep ==
    ASSUME OutboxInv, Kinds
    PROVE  StrayInv'
<1>1. /\ TypeOK /\ ClaimInv /\ MappingInv /\ StrayInv /\ BodyInv
      /\ OneOperationPerSequence
  BY DEF OutboxInv, DeliveryInv
<1>2. SUFFICES ASSUME ~far'.astray, mgmt'.link # "offboarded", NEW c \in Copies', Stray(c)',
                      (c.inc = mgmt.inc)' \/ OnMapping(state.lastOk)' \/ Paid'
               PROVE  Harmless(c)'
  BY DEF StrayInv
<1>. USE DEF Live, OnMapping, Stray
<1>3. CASE Rewriting
  BY <1>1, <1>2, <1>3, RewritingPays DEF Rewriting, StrayInv, Copies, Harmless, Fenced
<1>4. ASSUME NEW x \in ClaimType, Forming(x)
      PROVE  Harmless(c)'
  <2>1. x.seq # 0 /\ c \in Copies
    BY <1>1, <1>2, <1>4, Typed DEF Forming, Carried
  <2>2. Stray(c)
    BY <1>2, <1>4, <2>1 DEF Forming
  <2>3. Harmless(c)
    BY <1>1, <1>2, <1>4, <2>1, <2>2, FormingPays DEF Forming, StrayInv
  <2>4. QED
    BY <1>4, <2>3 DEF Forming, Harmless, Fenced
<1>5. CASE Sending
  <2>1. c = NoClaim \/ Stray(c)
    BY <1>1, <1>2, <1>5 DEF Sending, Carried, ClaimInv
  <2>2. Paid' => Paid
    BY <1>5 DEF Sending, Paid, Sound, Bad, ownerVars, rowVars
  <2>3. Harmless(c)
    BY <1>1, <1>2, <1>5, <2>1, <2>2, Typed DEF Sending, StrayInv, Harmless
  <2>4. QED
    BY <1>5, <2>3 DEF Sending, SameStore, Harmless, Fenced
<1>6. CASE Abandoning
  <2>1. c = NoClaim \/ c \in Copies
    BY <1>2, <1>6 DEF Abandoning, Carried
  <2>2. CASE c = NoClaim
    BY <1>1, <1>6, <2>2, Typed DEF Abandoning, SameStore, Harmless
  <2>3. CASE c \in Copies /\ c.seq # state.claim.seq
    <3>1. Harmless(c)
      BY <1>1, <1>2, <1>6, <2>3, AbandoningPays DEF Abandoning, StrayInv
    <3>2. QED
      BY <1>6, <3>1 DEF Abandoning, SameStore, Harmless, Fenced
  <2>4. CASE c \in Copies /\ c.seq = state.claim.seq
    <3>1. c = state.claim
      BY <1>1, <1>6, <2>4 DEF Abandoning, OneOperationPerSequence, Copies
    <3>2. OnMapping(state.lastOk) => OnMapping(state.claim)
      BY <1>1, <1>6, Typed DEF Abandoning, MappingInv, Before
    <3>3. OnMapping(state.claim)
      BY <1>1, <1>2, <1>6, <3>1, <3>2, AbandoningPays DEF Abandoning
    <3>4. Harmless(c)
      BY <1>2, <1>6, <2>4, <3>3 DEF Abandoning
    <3>5. QED
      BY <1>6, <3>4 DEF Abandoning, SameStore, Harmless, Fenced
  <2>5. QED
    BY <2>1, <2>2, <2>3, <2>4
<1>7. CASE Settling
  <2>1. c = NoClaim \/ c \in Copies
    BY <1>2, <1>7 DEF Settling, Carried
  <2>2. c.seq <= lastSeq
    BY <1>1, <2>1, Typed DEF Copies, OneOperationPerSequence
  <2>3. (c.inc = mgmt.inc)' /\ c \in Copies => OnMapping(state.claim)
    BY <1>1, <1>2, <1>7, Typed DEF Settling, MappingInv, Before
  <2>4. c = NoClaim \/ OnMapping(state.claim)
    BY <1>1, <1>2, <1>7, <2>1, <2>3, SettlingPays DEF Settling, Identity
  <2>5. c.seq <= far.seq
    BY <1>1, <1>7, <2>2, <2>4, Typed DEF Settling, OneOperationPerSequence
  <2>6. QED
    BY <1>7, <2>5 DEF Settling, SameStore, Harmless
<1>8. CASE Retiring
  BY <1>1, <1>2, <1>8, RetiringPays DEF Retiring, StrayInv, Copies, Harmless, Fenced
<1>9. CASE Answering
  BY <1>1, <1>2, <1>9 DEF Answering, StrayInv, Harmless, Fenced, Paid, Sound, Bad, ownerVars, rowVars
<1>10. ASSUME NEW d \in ClaimType, Applying(d)
       PROVE  Harmless(c)'
  <2>1. Paid' => Paid
    BY <1>10 DEF Applying, Paid, Sound, Bad, ownerVars, rowVars
  <2>2. Harmless(c) /\ c \in Copies
    BY <1>1, <1>2, <1>10, <2>1 DEF Applying, StrayInv
  <2>3. d.seq > far.seq /\ far'.seq = d.seq /\ d \in Copies
    BY <1>1, <1>10, Typed DEF Applying, Harmless
  <2>4. CASE c.seq <= far.seq \/ Bad(c.body)
    BY <1>1, <1>2, <2>2, <2>3, <2>4, Typed DEF Harmless, Bad
  <2>5. CASE Fenced(c) /\ far'.shut
    BY <2>5 DEF Harmless, Fenced
  <2>6. CASE Fenced(c) /\ ~far'.shut
    <3>1. far.shut /\ mgmt.inc = 0
      BY <1>1, <2>6 DEF Fenced, MappingInv
    <3>2. d.inc = mgmt.inc
      BY <1>1, <2>3, <3>1, Typed DEF MappingInv, Before
    <3>3. Live /\ d.seq = state.claim.seq
      BY <1>1, <1>2, <1>10, <2>3, <3>2 DEF Applying, StrayInv
    <3>4. c.seq <= far'.seq
      BY <1>1, <2>2, <2>3, <3>3, Typed DEF OneOperationPerSequence, Copies
    <3>5. QED
      BY <3>4 DEF Harmless
  <2>7. QED
    BY <2>2, <2>4, <2>5, <2>6 DEF Harmless
<1>11. CASE Noting
  <2>1. Paid' => Paid
    BY <1>11 DEF Noting, Paid, Bad, ownerVars, rowVars
  <2>2. QED
    BY <1>1, <1>2, <1>11, <2>1 DEF Noting, StrayInv, Copies, Harmless, Fenced
<1>12. CASE Relinking
  <2>1. c.device <= mgmt.device /\ c.inc <= mgmt.inc /\ c \in ClaimType
    BY <1>1, <1>2, <1>12, Typed DEF Relinking, MappingInv, Before
  <2>2. QED
    BY <1>1, <1>2, <1>12, <2>1, Typed DEF Relinking, MappingInv, Before, Paid
<1>13. CASE Offboarding
  BY <1>2, <1>13 DEF Offboarding
<1>14. QED
  BY <1>3, <1>4, <1>5, <1>6, <1>7, <1>8, <1>9, <1>10, <1>11, <1>12, <1>13 DEF Kinds

LEMMA BaselineStep ==
    ASSUME OutboxInv, Kinds
    PROVE  BaselineInv'
<1>1. /\ TypeOK /\ ClaimInv /\ MappingInv /\ AppliedInv /\ StrayInv /\ BaselineInv
      /\ OneOperationPerSequence
  BY DEF OutboxInv, DeliveryInv
<1>. USE DEF BaselineInv, Live, OnMapping
<1>2. CASE Rewriting
  BY <1>1, <1>2 DEF Rewriting
<1>3. ASSUME NEW c \in ClaimType, Forming(c)
      PROVE  BaselineInv'
  BY <1>1, <1>3 DEF Forming
<1>4. CASE Sending
  BY <1>1, <1>4 DEF Sending, SameStore
<1>5. CASE Abandoning
  <2>1. OnMapping(state.lastOk) => OnMapping(state.claim)
    BY <1>1, <1>5, Typed DEF Abandoning, MappingInv, Before
  <2>2. QED
    BY <1>1, <1>5, <2>1, Typed DEF Abandoning, SameStore
<1>6. CASE Settling
  BY <1>1, <1>6 DEF Settling, SameStore, Identity, AppliedInv
<1>7. CASE Retiring
  BY <1>1, <1>7 DEF Retiring
<1>8. CASE Answering
  BY <1>1, <1>8 DEF Answering
<1>9. ASSUME NEW d \in ClaimType, Applying(d)
      PROVE  BaselineInv'
  <2>1. SUFFICES ASSUME ~far.astray, OnMapping(state.lastOk), Live => d.seq # state.claim.seq
                 PROVE  FALSE
    BY <1>9 DEF Applying
  <2>2. Stray(d) /\ d \in Copies
    BY <1>9, <2>1 DEF Applying, Stray
  <2>3. mgmt.link # "offboarded"
    BY <1>1, <2>1, Typed DEF ClaimInv, MappingInv, NoIdentity, Identity
  <2>4. Harmless(d)
    BY <1>1, <2>1, <2>2, <2>3 DEF StrayInv
  <2>5. QED
    BY <1>9, <2>4 DEF Applying
<1>10. CASE Noting
  BY <1>1, <1>10 DEF Noting
<1>11. CASE Relinking
  BY <1>1, <1>11, Typed DEF Relinking, MappingInv, Before
<1>12. CASE Offboarding
  BY <1>1, <1>12, Typed DEF Offboarding, NoIdentity, Identity, MappingInv
<1>13. QED
  BY <1>2, <1>3, <1>4, <1>5, <1>6, <1>7, <1>8, <1>9, <1>10, <1>11, <1>12 DEF Kinds

\* No request changes the store of a key that is paid.
LEMMA ApplyingToPaid ==
    ASSUME OutboxInv, NEW d, Applying(d), Paid
    PROVE  far'.held = far.held
<1>1. /\ TypeOK /\ ClaimInv /\ BodyInv /\ PaidInv /\ StrayInv /\ OneOperationPerSequence
  BY DEF OutboxInv, DeliveryInv
<1>2. Sound /\ Unconsumed = {} /\ far.held = intent /\ ~far.astray
  BY <1>1 DEF Paid, PaidInv, Unconsumed
<1>3. ~Stray(d)
  BY <1>1, <1>2 DEF StrayInv, Applying, Sound
<1>4. Live /\ d = state.claim
  BY <1>1, <1>3 DEF Applying, Stray, OneOperationPerSequence, Copies, Live
<1>5. d.body = intent
  BY <1>1, <1>2, <1>4 DEF BodyInv
<1>6. QED
  BY <1>2, <1>5 DEF Applying

LEMMA PaidStep ==
    ASSUME OutboxInv, Kinds
    PROVE  PaidInv'
<1>1. /\ TypeOK /\ ClaimInv /\ AppliedInv /\ BaselineInv /\ BodyInv /\ PaidInv
  BY DEF OutboxInv, DeliveryInv
<1>2. SUFFICES ASSUME Paid'
               PROVE  far'.held = intent'
  BY DEF PaidInv
<1>3. CASE Rewriting
  BY <1>1, <1>2, <1>3, RewritingPays DEF PaidInv, Rewriting
<1>4. ASSUME NEW c \in ClaimType, Forming(c)
      PROVE  far'.held = intent'
  BY <1>1, <1>2, <1>4, FormingPays DEF PaidInv, Forming, ownerVars
<1>5. CASE Sending
  <2>1. Paid
    BY <1>2, <1>5 DEF Sending, Paid, Sound, Bad, ownerVars, rowVars
  <2>2. QED
    BY <1>1, <1>5, <2>1 DEF PaidInv, Sending, SameStore, ownerVars
<1>6. CASE Abandoning
  BY <1>1, <1>2, <1>6, AbandoningPays DEF PaidInv, Abandoning, SameStore, ownerVars
<1>7. CASE Settling
  <2>1. /\ OnMapping(state.claim) /\ state.claim.body = intent
        /\ Sound /\ Unconsumed = {} /\ state.queued = {}
    BY <1>1, <1>2, <1>7, SettlingPays
  <2>2. CASE state.claim.mode # "backfill"
    BY <1>1, <1>7, <2>1, <2>2 DEF Settling, SameStore, AppliedInv, ownerVars
  <2>3. CASE state.claim.mode = "backfill"
    <3>1. entries = {} /\ state.claim.dels = {}
      BY <1>1, <1>7, <2>1, <2>3 DEF Settling, ClaimInv, Unconsumed
    <3>2. ~far.astray /\ ~Bad(intent)
      BY <1>1, <1>2, <1>7, <2>3 DEF Settling, Paid, Bad, ownerVars, TypeOK, FarType
    <3>3. Paid
      BY <2>1, <3>1, <3>2 DEF Paid
    <3>4. QED
      BY <1>1, <1>7, <3>3 DEF PaidInv, Settling, SameStore, ownerVars
  <2>4. QED
    BY <2>2, <2>3
<1>8. CASE Retiring
  <2>1. OnMapping(state.lastOk) /\ state.lastOk.mode = "normal" /\ state.lastOk.body = intent
    BY <1>2, <1>8, RetiringPays
  <2>2. ~far.astray /\ ~Live
    BY <1>2, <1>8 DEF Retiring, Paid
  <2>3. QED
    BY <1>1, <1>8, <2>1, <2>2 DEF BaselineInv, Retiring, ownerVars
<1>9. ASSUME Answering \/ \E c \in ClaimType : Applying(c)
      PROVE  far'.held = intent'
  <2>1. Paid /\ intent' = intent
    BY <1>2, <1>9 DEF Answering, Applying, Paid, Sound, Bad, ownerVars, rowVars
  <2>2. far'.held = far.held
    BY <1>9, <2>1, ApplyingToPaid DEF Answering
  <2>3. QED
    BY <1>1, <2>1, <2>2 DEF PaidInv
<1>10. CASE Noting
  BY <1>1, <1>2, <1>10 DEF PaidInv, Paid, Bad, Noting, ownerVars, rowVars
<1>11. CASE Relinking
  BY <1>1, <1>2, <1>11 DEF Paid, Relinking, ClaimInv, BlankStore, ownerVars
<1>12. CASE Offboarding
  BY <1>2, <1>12 DEF Paid, Sound, Offboarding
<1>13. QED
  BY <1>3, <1>4, <1>5, <1>6, <1>7, <1>8, <1>9, <1>10, <1>11, <1>12 DEF Kinds

-----------------------------------------------------------------------------
(* The theorems                                                            *)

LEMMA DeliveryStep ==
    ASSUME OutboxInv, [Next]_vars
    PROVE  DeliveryInv'
BY EveryStepIsOfAKind, ClaimStep, HolderStep, MappingStep, AnswerStep, AppliedStep, StrayStep,
   BaselineStep, BodyStep, PaidStep DEF DeliveryInv

LEMMA DeliveryBegins == Init => DeliveryInv
<1>. SUFFICES ASSUME Init PROVE DeliveryInv
  OBVIOUS
<1>1. /\ far.seq = 0 /\ far.code = "ok" /\ far.held = Nothing
  BY DEF Init, BlankStore
<1>2. \A c \in Copies : c = NoClaim
  BY DEF Init, Copies, Idle
<1>3. /\ ~Live /\ state.claim = NoClaim /\ state.lastOk = NoIdentity /\ state.revoked = {}
      /\ mgmt.device = 1 /\ mgmt.inc = 0 /\ mgmt.link = "linked"
  BY DEF Init, NoClaim, Live
<1>4. \A w \in Workers : wk[w].pc = "idle"
  BY DEF Init, Idle
<1>5. NoClaim.device = 0 /\ NoClaim.inc = 0 /\ NoClaim.seq = 0 /\ NoIdentity.device = 0 /\ NoIdentity.inc = 0
  BY DEF NoClaim, NoIdentity, Identity
<1>6. ClaimInv /\ HolderInv
  BY <1>3, <1>4 DEF Init, ClaimInv, HolderInv
<1>7. MappingInv /\ AnswerInv /\ AppliedInv
  BY <1>1, <1>2, <1>3, <1>4, <1>5 DEF MappingInv, AnswerInv, AppliedInv, Before
<1>8. StrayInv
  BY <1>1, <1>2, <1>5 DEF StrayInv, Harmless
<1>9. BaselineInv /\ BodyInv
  BY <1>3, <1>5 DEF BaselineInv, BodyInv, OnMapping
<1>10. PaidInv
  BY <1>1 DEF PaidInv, Init
<1>11. QED
  BY <1>6, <1>7, <1>8, <1>9, <1>10 DEF DeliveryInv

\* Whatever crashes, expires, is delivered late, is abandoned or is re-mapped: an operation
\* that ended can change the store no more, and a key that owes nothing has its intent there.
THEOREM DeliveryInvariant == Spec => []OutboxInv
<1>1. Init => DeliveryInv
  BY DeliveryBegins
<1>2. TypeOK /\ ConsumedRowsNameTheLiveClaim /\ OneOperationPerSequence /\ DeliveryInv /\ [Next]_vars
        => DeliveryInv'
  BY DeliveryStep DEF OutboxInv
<1>3. TypeOK /\ ConsumedRowsNameTheLiveClaim /\ OneOperationPerSequence /\ DeliveryInv => OutboxInv
  BY DEF OutboxInv
<1>4. QED
  BY <1>1, <1>2, <1>3, TypeInvariant, RowsAreNeverStranded, SequencesNameOneOperation, PTL DEF Spec

\* A key that owes nothing is paid.
LEMMA QuietIsPaid ==
    ASSUME OutboxInv, Quiet, ~Bad(intent), ~far.astray
    PROVE  Paid
<1>1. ClaimInv /\ ConsumedRowsNameTheLiveClaim
  BY DEF OutboxInv, DeliveryInv
<1>2. Sound /\ ~Live /\ state.queued = {} /\ Unconsumed = {}
  BY DEF Quiet, Sound, WorkPending, Live
<1>3. entries = {} /\ state.claim.dels = {}
  BY <1>1, <1>2 DEF ConsumedRowsNameTheLiveClaim, Unconsumed, ClaimInv, Live, NoClaim
<1>4. QED
  BY <1>2, <1>3 DEF Paid

\* What a step may do to the two things the promise relates.
LEMMA PromiseStep ==
    ASSUME OutboxInv, Kinds
    PROVE  /\ Paid => far'.held = far.held \/ far'.held = Nothing
           /\ intent' = intent \/ far'.held = far.held \/ far'.held = Nothing
           /\ Paid' => intent' = intent
<1>1. CASE Rewriting
  BY <1>1, RewritingPays DEF Rewriting
<1>2. CASE Sending \/ Abandoning \/ Settling
  BY <1>2 DEF Sending, Abandoning, Settling, SameStore, ownerVars
<1>3. CASE Retiring \/ Answering \/ Noting \/ \E c \in ClaimType : Forming(c)
  BY <1>3 DEF Retiring, Answering, Noting, Forming, ownerVars
<1>4. ASSUME NEW c \in ClaimType, Applying(c)
      PROVE  intent' = intent /\ (Paid => far'.held = far.held)
  BY <1>4, ApplyingToPaid DEF Applying, ownerVars
<1>5. CASE Relinking
  BY <1>5 DEF Relinking, BlankStore, ownerVars
<1>6. CASE Offboarding
  BY <1>6 DEF Offboarding, BlankStore, Paid, Sound
<1>7. QED
  BY <1>1, <1>2, <1>3, <1>4, <1>5, <1>6 DEF Kinds

\* The outbox implements the promise: every write of the intent leaves a debt, no late,
\* replayed or abandoned request changes the store of a key that owes nothing, and a key
\* comes to owe nothing only with the intent in the store.
THEOREM OutboxDelivers == Spec => DeliveryIsKept
<1>. DEFINE debt == ~Quiet \/ Bad(intent) \/ far.astray
            FreeIsPaid == ~debt => Paid
<1>1. Init => Promise!Init
  <2>1. SUFFICES ASSUME Init PROVE Promise!Init
    OBVIOUS
  <2>2. intent = Nothing /\ far.held = Nothing /\ far.astray = FALSE
    BY <2>1 DEF Init, BlankStore
  <2>3. Quiet
    BY <2>1 DEF Init, Quiet, WorkPending, NoClaim, Unconsumed, Idle
  <2>4. ~Bad(intent)
    BY <2>2, BoundsAssumption DEF Bad, Nothing
  <2>5. QED
    BY <2>2, <2>3, <2>4 DEF Promise!Init
<1>2. OutboxInv => FreeIsPaid
  BY QuietIsPaid
<1>3. OutboxInv /\ OutboxInv' /\ FreeIsPaid /\ FreeIsPaid' /\ [Next]_vars => [Promise!Next]_Promise!vars
  <2>1. SUFFICES ASSUME OutboxInv, OutboxInv', FreeIsPaid, FreeIsPaid', [Next]_vars
                 PROVE  [Promise!Next]_Promise!vars
    OBVIOUS
  <2>2. ~debt => Paid
    BY <2>1
  <2>3. ~debt' => Paid'
    BY <2>1
  <2>4. Paid => far.held = intent
    BY <2>1 DEF OutboxInv, DeliveryInv, PaidInv
  <2>5. Paid' => far'.held = intent'
    BY <2>1 DEF OutboxInv, DeliveryInv, PaidInv
  <2>6. /\ Paid => far'.held = far.held \/ far'.held = Nothing
        /\ intent' = intent \/ far'.held = far.held \/ far'.held = Nothing
        /\ Paid' => intent' = intent
    BY <2>1, EveryStepIsOfAKind, PromiseStep
  <2>7. far.astray \in BOOLEAN /\ far'.astray \in BOOLEAN
    BY <2>1 DEF OutboxInv, TypeOK, FarType
  <2>8. CASE debt'
    <3>1. far'.held = far.held \/ far'.held = Nothing \/ (debt /\ intent' = intent)
      BY <2>2, <2>6
    <3>2. QED
      BY <2>8, <3>1 DEF Promise!Next, Promise!Ask, Promise!Carry, Promise!Replace
  <2>9. CASE ~debt'
    <3>1. intent' = intent /\ far'.held = intent'
      BY <2>3, <2>5, <2>6, <2>9
    <3>2. ~debt => far.held = intent
      BY <2>2, <2>4
    <3>3. QED
      BY <2>9, <3>1, <3>2 DEF Promise!Next, Promise!Pay, Promise!vars
  <2>10. QED
    BY <2>8, <2>9
<1>4. QED
  BY <1>1, <1>2, <1>3, DeliveryInvariant, PTL DEF Spec, DeliveryIsKept, Promise!Spec

\* A consumed row leaves the outbox only with the adapter's acceptance of its operation, or
\* with the refusal of its body: no crash, replay, lease expiry or late answer loses it.
THEOREM RowsLeaveOnlyWhenAccepted == Spec => RetiredOnlyWhenAccepted
<1>. DEFINE A == \A e \in entries :
                    e.by # 0 /\ (\A f \in entries' : f.id # e.id) =>
                       \/ far.seq = e.by
                       \/ Bad(state.claim.body)
                       \/ state.claim.device # mgmt.device \/ state.claim.inc # mgmt.inc
<1>1. OutboxInv /\ [Next]_vars => A
  <2>1. SUFFICES ASSUME OutboxInv, [Next]_vars, NEW e \in entries, e.by # 0,
                        \A f \in entries' : f.id # e.id
                 PROVE  far.seq = e.by \/ Bad(state.claim.body) \/ ~OnMapping(state.claim)
    BY DEF OnMapping
  <2>2. Live /\ e.by = state.claim.seq
    BY <2>1 DEF OutboxInv, ConsumedRowsNameTheLiveClaim, Live
  <2>3. Kinds
    BY <2>1, EveryStepIsOfAKind
  <2>4. CASE Abandoning \/ Offboarding
    BY <2>1, <2>4 DEF Abandoning, Offboarding
  <2>5. CASE Settling
    BY <2>2, <2>5 DEF Settling
  <2>6. CASE Retiring \/ \E c \in ClaimType : Forming(c)
    BY <2>2, <2>6 DEF Retiring, Forming
  <2>7. CASE \/ Rewriting \/ Sending \/ Answering \/ Noting \/ Relinking
             \/ \E c \in ClaimType : Applying(c)
    <3>1. e \in entries'
      BY <2>1, <2>7 DEF Rewriting, Sending, Answering, Noting, Relinking, Applying, rowVars
    <3>2. QED
      BY <2>1, <3>1
  <2>8. QED
    BY <2>3, <2>4, <2>5, <2>6, <2>7 DEF Kinds
<1>2. QED
  BY <1>1, DeliveryInvariant, PTL DEF Spec, RetiredOnlyWhenAccepted

=============================================================================
