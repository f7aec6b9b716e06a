------------------------- MODULE IntentOutboxProofs -------------------------
(***************************************************************************)
(* Theorems about IntentOutbox, for every set of routes and workers, both  *)
(* marking modes and every value of the bounds.                            *)
(***************************************************************************)
EXTENDS IntentOutbox, TLAPS

USE DEF RequestModes

-----------------------------------------------------------------------------
(* What the operators on rows, claims and identities return                *)

\* The blank claim is a claim, and a claim's identity and digest have their types.
LEMMA NoClaimTyped == NoClaim \in ClaimType
BY BoundsAssumption DEF NoClaim, ClaimType, Nothing, Content, Gens, Reasons

LEMMA IdentityTyped ==
    ASSUME NEW c \in ClaimType
    PROVE  Identity(c) \in IdentityType /\ Digest(c) \in [body : Content, dels : SUBSET Routes]
BY DEF ClaimType, Identity, IdentityType, Digest

LEMMA IdleTyped == Idle \in WorkerType
BY NoClaimTyped DEF Idle, WorkerType, Codes

LEMMA BlankStoreTyped == BlankStore \in FarType
<1>1. Digest(NoClaim) \in [body : Content, dels : SUBSET Routes]
  BY NoClaimTyped, IdentityTyped
<1>2. QED
  BY <1>1, BoundsAssumption DEF BlankStore, FarType, Codes, Nothing, Content, Gens

\* A claim formed from the key's own state is a claim (_form, _form_store_only, _form_backfill).
LEMMA NewClaimTyped ==
    ASSUME TypeOK, NEW mode \in RequestModes, NEW dels \in SUBSET Routes,
           NEW mark \in BOOLEAN, NEW any \in BOOLEAN
    PROVE  NewClaim(mode, dels, mark, any) \in ClaimType
BY DEF TypeOK, NewClaim, ClaimType, MgmtType

LEMMA FoldedTyped ==
    ASSUME TypeOK
    PROVE  Folded \in ClaimType /\ FoldedRevoked \in SUBSET Routes
<1>1. state.queued \in SUBSET Routes /\ state.revoked \in SUBSET Routes /\ state.claim.dels \in SUBSET Routes
  BY DEF TypeOK, StateType, ClaimType
<1>2. FoldQueued(Ordinary(Unconsumed), state.claim.dels, state.queued) \in SUBSET Routes
  BY <1>1 DEF FoldQueued
<1>3. MarkAll(Unconsumed) \in BOOLEAN /\ MarkAny(Unconsumed) \in BOOLEAN
  BY DEF MarkAll, MarkAny
<1>4. Folded \in ClaimType
  BY <1>2, <1>3, NewClaimTyped DEF Folded
<1>5. QED
  BY <1>1, <1>4 DEF FoldedRevoked, FoldRevoked

\* Giving a claim back leaves rows rows and the state row a state row (_abandon_locked).
LEMMA AbandonTyped ==
    ASSUME TypeOK
    PROVE  GiveBack(entries) \subseteq EntryType /\ Rehomed \in StateType
<1>1. GiveBack(entries) \subseteq EntryType
  BY DEF TypeOK, GiveBack, EntryType
<1>2. Rehomed \in StateType
  BY NoClaimTyped DEF TypeOK, Rehomed, StateType, ClaimType
<1>3. QED
  BY <1>1, <1>2

\* An abandon and a settlement touch only the history of the store.
LEMMA HistoryTyped ==
    ASSUME TypeOK, NEW W, GoesAstray(W) \/ \E b \in BOOLEAN : far' = [far EXCEPT !.astray = @ /\ b]
    PROVE  /\ far' \in FarType
           /\ far'.seq = far.seq /\ far'.digest = far.digest /\ far'.held = far.held
           /\ far'.code = far.code /\ far'.shut = far.shut
<1>1. far \in FarType
  BY DEF TypeOK
<1>2. MayLand(W) \in BOOLEAN
  BY DEF MayLand
<1>3. PICK b \in BOOLEAN : far' = [far EXCEPT !.astray = b]
  <2>1. far.astray \in BOOLEAN
    BY <1>1 DEF FarType
  <2>2. (far.astray \/ MayLand(W)) \in BOOLEAN /\ \A b \in BOOLEAN : (far.astray /\ b) \in BOOLEAN
    OBVIOUS
  <2>3. QED
    BY <2>2 DEF GoesAstray
<1>4. QED
  BY <1>1, <1>3 DEF FarType

LEMMA WorkersTyped ==
    ASSUME TypeOK, NEW w \in Workers
    PROVE  /\ wk[w] \in WorkerType /\ wk[w].claim \in ClaimType /\ wk[w].out \in SUBSET Routes
           /\ Free(w) => wk' \in [Workers -> WorkerType]
           /\ \A c \in ClaimType : Holds(w, c) => wk' \in [Workers -> WorkerType]
<1>1. wk[w] \in WorkerType /\ wk[w].claim \in ClaimType /\ wk[w].out \in SUBSET Routes
  BY DEF TypeOK, WorkerType
<1>2. Free(w) => wk' \in [Workers -> WorkerType]
  BY IdleTyped DEF TypeOK, Free
<1>3. ASSUME NEW c \in ClaimType, Holds(w, c)
      PROVE  wk' \in [Workers -> WorkerType]
  <2>1. [Idle EXCEPT !.pc = "claimed", !.claim = c] \in WorkerType
    BY IdleTyped DEF WorkerType
  <2>2. QED
    BY <1>3, <2>1 DEF TypeOK, Holds
<1>4. QED
  BY <1>1, <1>2, <1>3

\* A merged row is a row (_compact_locked).
LEMMA MergedTyped ==
    ASSUME NEW e \in EntryType
    PROVE  Merged(e) \in EntryType
<1>1. [r \in Routes |-> LastOp(Span(e), r)] \in [Routes -> Ops]
  BY DEF LastOp, Ops
<1>2. MarkAll(Span(e)) \in BOOLEAN /\ MarkAny(Span(e)) \in BOOLEAN
  BY DEF MarkAll, MarkAny
<1>3. QED
  BY <1>1, <1>2 DEF Merged, EntryType

-----------------------------------------------------------------------------
(* Type correctness, one lemma per group of actions                        *)

\* An appended row is a row, whichever transaction appends it (outbox.enqueue).
LEMMA AppendTyped ==
    ASSUME TypeOK, NEW kind \in {"ordinary", "repair"}, NEW ops \in [Routes -> Ops],
           NEW mark \in BOOLEAN
    PROVE  Append(kind, ops, mark) => entries' \subseteq EntryType /\ nextId' \in Nat
BY DEF TypeOK, Append, EntryType

LEMMA OperatorTyped ==
    ASSUME TypeOK, Operator
    PROVE  TypeOK'
<1>. USE DEF TypeOK
<1>1. 0 \in Gens
  BY BoundsAssumption DEF Gens
<1>2. ASSUME NEW ops \in [Routes -> Ops], NEW mark \in BOOLEAN, Contribute(ops, mark)
      PROVE  entries' \subseteq EntryType /\ nextId' \in Nat
  BY AppendTyped, <1>2 DEF Contribute, rowVars
<1>3. ASSUME NEW r \in Routes, NEW g \in Gens, NEW why \in Reasons, Write(r, g, why),
             entries' \subseteq EntryType, nextId' \in Nat
      PROVE  TypeOK'
  BY <1>3 DEF Write, Content
<1>4. NoOps \in [Routes -> Ops]
  BY DEF NoOps, Ops
<1>5. \A r \in Routes : NewContent(r) \subseteq Gens
  BY BoundsAssumption DEF NewContent, Gens
<1>6. PICK r \in Routes : AcceptOrEdit(r) \/ Reown(r) \/ Delete(r) \/ Release(r) \/ Bypass(r)
  BY DEF Operator
<1>7. CASE AcceptOrEdit(r)
  BY <1>2, <1>3, <1>4, <1>5, <1>7 DEF AcceptOrEdit, Reasons
<1>8. CASE Reown(r)
  BY AppendTyped, <1>3, <1>4, <1>5, <1>8 DEF Reown, Reasons, Ops
<1>9. CASE Delete(r)
  <2>1. PICK mark \in BOOLEAN :
          Contribute(IF PerObject THEN [NoOps EXCEPT ![r] = "delete"] ELSE NoOps, mark)
    BY <1>9 DEF Delete
  <2>2. (IF PerObject THEN [NoOps EXCEPT ![r] = "delete"] ELSE NoOps) \in [Routes -> Ops]
    BY <1>4 DEF Ops
  <2>3. entries' \subseteq EntryType /\ nextId' \in Nat
    BY <1>2, <2>1, <2>2
  <2>4. PICK why \in Reasons : Write(r, 0, why)
    BY <1>9 DEF Delete, Reasons
  <2>5. QED
    BY <1>1, <1>3, <2>3, <2>4
<1>10. CASE Release(r)
  <2>1. entries' \subseteq EntryType /\ nextId' \in Nat
    BY <1>2, <1>4, <1>10 DEF Release
  <2>2. Write(r, 0, "released") /\ "released" \in Reasons
    BY <1>10 DEF Release, Reasons
  <2>3. QED
    BY <1>1, <1>3, <2>1, <2>2
<1>11. CASE Bypass(r)
  BY <1>5, <1>11 DEF Bypass, Content, rowVars, MgmtType
<1>12. QED
  BY <1>6, <1>7, <1>8, <1>9, <1>10, <1>11

LEMMA AuditAndCompactTyped ==
    ASSUME TypeOK, Audit \/ Compact
    PROVE  TypeOK'
<1>. USE DEF TypeOK
<1>1. CASE Audit
  <2>1. entries' \subseteq EntryType /\ nextId' \in Nat
    <3>1. Append("repair", NoOps, FALSE) /\ NoOps \in [Routes -> Ops]
      BY <1>1 DEF Audit, NoOps, Ops
    <3>2. QED
      BY <3>1, AppendTyped
  <2>2. intent' \in Content /\ lastGen' \in Gens
    BY <1>1, BoundsAssumption DEF Audit, Content, Gens
  <2>3. mgmt' \in MgmtType
    BY <1>1 DEF Audit, MgmtType
  <2>4. QED
    BY <1>1, <2>1, <2>2, <2>3 DEF Audit
<1>2. CASE Compact
  <2>1. \A e \in Unconsumed : Merged(e) \in EntryType
    BY MergedTyped DEF Unconsumed
  <2>2. entries' \subseteq EntryType
    BY <1>2, <2>1 DEF Compact, Unconsumed
  <2>3. QED
    BY <1>2, <2>2 DEF Compact, ownerVars
<1>3. QED
  BY <1>1, <1>2

\* A claim attempt, whatever it decides (_claim_locked).
LEMMA ClaimTyped ==
    ASSUME TypeOK, NEW w \in Workers, NEW mode \in RequestModes, NEW force \in BOOLEAN,
           ClaimKey(w, mode, force)
    PROVE  TypeOK'
<1>. USE DEF TypeOK
<1>1. Folded \in ClaimType /\ FoldedRevoked \in SUBSET Routes
  BY FoldedTyped
<1>2. CASE Takeover(w)
  <2>1. state.claim \in ClaimType
    BY DEF StateType
  <2>2. wk' \in [Workers -> WorkerType]
    BY <1>2, <2>1, WorkersTyped DEF Takeover
  <2>3. state' \in StateType
    BY <1>2 DEF Takeover, StateType
  <2>4. QED
    BY <1>2, <2>2, <2>3 DEF Takeover, ownerVars, rowVars
<1>3. CASE TakeoverAbandon(w)
  BY <1>3, AbandonTyped, HistoryTyped DEF TakeoverAbandon, ownerVars
<1>4. CASE Form(w, force)
  <2>1. entries' \subseteq EntryType
    BY <1>4 DEF Form, EntryType
  <2>2. wk' \in [Workers -> WorkerType]
    BY <1>1, <1>4, WorkersTyped DEF Form
  <2>3. state' \in StateType
    BY <1>1, <1>4 DEF Form, StateType
  <2>4. QED
    BY <1>4, <2>1, <2>2, <2>3 DEF Form, ownerVars
<1>5. CASE Drop(force)
  <2>1. state' \in StateType
    BY <1>1, <1>5 DEF Drop, StateType
  <2>2. QED
    BY <1>5, <2>1 DEF Drop, ownerVars
<1>6. CASE CaptureRefused(force)
  BY <1>6 DEF CaptureRefused, ownerVars
<1>7. ASSUME TakeSnapshot(w, mode)
      PROVE  TypeOK'
  <2>1. NewClaim(mode, {}, FALSE, FALSE) \in ClaimType
    BY NewClaimTyped
  <2>2. wk' \in [Workers -> WorkerType]
    BY <1>7, <2>1, WorkersTyped DEF TakeSnapshot
  <2>3. state' \in StateType
    BY <1>7, <2>1 DEF TakeSnapshot, StateType
  <2>4. QED
    BY <1>7, <2>2, <2>3 DEF TakeSnapshot, ownerVars, rowVars
<1>8. CASE mode = "store_only" /\ FormStoreOnly(w)
  BY <1>7, <1>8 DEF FormStoreOnly
<1>9. CASE mode = "backfill" /\ FormBackfill(w)
  BY <1>7, <1>9 DEF FormBackfill
<1>10. QED
  BY <1>2, <1>3, <1>4, <1>5, <1>6, <1>8, <1>9 DEF ClaimKey

\* A send and its outcomes (send_claim, settle, record_failure, _withhold, _dissolve).
LEMMA SendTyped ==
    ASSUME TypeOK, NEW w \in Workers, Park(w) \/ AbandonBeforeSend(w) \/ Transmit(w) \/ Outcome(w)
    PROVE  TypeOK'
<1>. USE DEF TypeOK, ownerVars, rowVars
<1>1. CASE Park(w)
  BY <1>1, WorkersTyped DEF Park
<1>2. CASE AbandonBeforeSend(w)
  BY <1>2, AbandonTyped, HistoryTyped, WorkersTyped DEF AbandonBeforeSend
<1>3. CASE Transmit(w)
  <2>1. net' \subseteq [w : Workers, claim : ClaimType]
    BY <1>3, WorkersTyped DEF Transmit
  <2>2. wk' \in [Workers -> WorkerType]
    BY <1>3, WorkersTyped DEF Transmit, WorkerType
  <2>3. QED
    BY <1>3, <2>1, <2>2 DEF Transmit
<1>4. CASE Settle(w)
  <2>1. Identity(wk[w].claim) \in IdentityType /\ wk[w].claim.seq \in Nat
    BY WorkersTyped, IdentityTyped DEF ClaimType
  <2>2. state' \in StateType
    BY <1>4, <2>1, NoClaimTyped DEF Settle, Acknowledged, StateType
  <2>3. entries' \subseteq EntryType
    BY <1>4 DEF Settle, Acknowledged
  <2>4. far' \in FarType
    BY <1>4, HistoryTyped DEF Settle
  <2>5. QED
    BY <1>4, <2>2, <2>3, <2>4, WorkersTyped DEF Settle, Acknowledged
<1>5. CASE RecordFailure(w)
  <2>1. state' \in StateType
    BY <1>5 DEF RecordFailure, StateType
  <2>2. QED
    BY <1>5, <2>1, WorkersTyped DEF RecordFailure
<1>6. CASE Withhold(w)
  <2>1. state' \in StateType
    BY <1>6, AbandonTyped DEF Withhold, StateType
  <2>2. QED
    BY <1>6, <2>1, AbandonTyped, WorkersTyped DEF Withhold
<1>7. CASE Dissolve(w)
  <2>1. entries' \subseteq EntryType
    BY <1>7, AbandonTyped DEF Dissolve
  <2>2. QED
    BY <1>7, <2>1, AbandonTyped, WorkersTyped DEF Dissolve
<1>8. CASE Superseded(w)
  BY <1>8, WorkersTyped DEF Superseded
<1>9. QED
  BY <1>1, <1>2, <1>3, <1>4, <1>5, <1>6, <1>7, <1>8 DEF Outcome

\* The receipt and store that an accepted request leaves (the adapter's side).
LEMMA AcceptedTyped ==
    ASSUME TypeOK, NEW c \in ClaimType, NEW code \in Codes, NEW out \in SUBSET Routes
    PROVE  Accepted(c, code, out) \in FarType
<1>1. Digest(c) \in [body : Content, dels : SUBSET Routes] /\ c.seq \in Nat /\ c.body \in Content
  BY IdentityTyped DEF ClaimType
<1>2. far.held \in Content /\ far.lost \in SUBSET (Routes \X Nat) /\ far.shut \in BOOLEAN
  BY DEF TypeOK, FarType
<1>3. Stored(c, out) \in Content
  BY <1>1, <1>2, BoundsAssumption DEF Stored, Content, Gens
<1>4. Retracted(c) \in SUBSET Routes /\ Detached(c, out) \in SUBSET Routes
  BY DEF Retracted, Dropped, Detached
<1>5. {<<r, c.seq>> : r \in {x \in Detached(c, out) : c.why[x] = "deleted"}} \in SUBSET (Routes \X Nat)
  BY <1>1, <1>4
<1>6. QED
  BY <1>1, <1>2, <1>3, <1>4, <1>5 DEF Accepted, FarType, TypeOK

\* An adapter step, whatever it answers.
LEMMA AdapterTyped ==
    ASSUME TypeOK, Adapter
    PROVE  TypeOK'
<1>. USE DEF TypeOK, ownerVars, rowVars
<1>1. PICK m \in net : AdapterHandles(m)
  BY DEF Adapter
<1>2. m \in [w : Workers, claim : ClaimType] /\ m.w \in Workers
  OBVIOUS
<1>3. ASSUME NEW code \in Codes, NEW out \in SUBSET Routes, Answer(m, code, out), far' \in FarType
      PROVE  TypeOK'
  <2>1. wk' \in [Workers -> WorkerType]
    BY <1>2, <1>3 DEF Answer, WorkerType
  <2>2. net' \subseteq [w : Workers, claim : ClaimType]
    BY <1>3 DEF Answer
  <2>3. QED
    BY <1>3, <2>1, <2>2 DEF Answer
<1>4. far.code \in Codes /\ far.out \in SUBSET Routes
  BY DEF FarType
<1>5. CASE AnswerElsewhere(m)
  BY <1>3, <1>5 DEF AnswerElsewhere, Codes
<1>6. CASE AnswerReceipt(m)
  BY <1>3, <1>4, <1>6 DEF AnswerReceipt, Codes
<1>7. CASE AnswerFenceShut(m)
  BY <1>3, <1>7 DEF AnswerFenceShut, Codes
<1>8. CASE AnswerInvalid(m)
  BY <1>3, <1>8 DEF AnswerInvalid, Codes
<1>9. CASE Apply(m)
  <2>1. PICK out \in OutOf(m.claim), code \in {"ok", "inexact"} :
          Answer(m, code, out) /\ far' = Accepted(m.claim, code, out)
    BY <1>9 DEF Apply
  <2>2. out \in SUBSET Routes
    BY DEF OutOf, Dropped
  <2>3. Accepted(m.claim, code, out) \in FarType
    BY <1>2, <2>2, AcceptedTyped DEF Codes
  <2>4. QED
    BY <1>3, <2>1, <2>2, <2>3 DEF Codes
<1>10. QED
  BY <1>1, <1>5, <1>6, <1>7, <1>8, <1>9 DEF AdapterHandles

\* Faults, operator commands and link repair.
LEMMA EnvironmentTyped ==
    ASSUME TypeOK, Environment
    PROVE  TypeOK'
<1>. USE DEF TypeOK, ownerVars, rowVars
<1>1. ASSUME NEW w \in Workers, Crash(w)
      PROVE  TypeOK'
  BY <1>1, WorkersTyped DEF Crash
<1>2. CASE LeaseExpires
  <2>1. state' \in StateType
    BY <1>2 DEF LeaseExpires, StateType
  <2>2. QED
    BY <1>2, <2>1 DEF LeaseExpires
<1>3. CASE AcknowledgeDegraded
  <2>1. state' \in StateType
    BY <1>3 DEF AcknowledgeDegraded, StateType
  <2>2. {p \in far.lost : p[2] \notin state.degraded} \in SUBSET (Routes \X Nat)
    BY DEF FarType
  <2>3. far' \in FarType
    BY <1>3, <2>2 DEF AcknowledgeDegraded, FarType
  <2>4. QED
    BY <1>3, <2>1, <2>3 DEF AcknowledgeDegraded
<1>4. CASE Unlink
  BY <1>4 DEF Unlink, MgmtType
<1>5. CASE Link
  <2>1. mgmt.device + 1 \in Nat
    BY DEF MgmtType
  <2>2. mgmt' \in MgmtType
    BY <1>5, <2>1, Zenon DEF Link, MgmtType
  <2>3. far' \in FarType /\ net' \subseteq [w : Workers, claim : ClaimType]
    BY <1>5, BlankStoreTyped DEF Link
  <2>4. QED
    BY <1>5, <2>2, <2>3 DEF Link
<1>6. CASE Rebuild
  <2>1. mgmt.inc + 1 \in Nat
    BY DEF MgmtType
  <2>2. mgmt' \in MgmtType
    BY <1>6, <2>1, Zenon DEF Rebuild, MgmtType
  <2>3. far' \in FarType /\ net' \subseteq [w : Workers, claim : ClaimType]
    BY <1>6, BlankStoreTyped DEF Rebuild
  <2>4. QED
    BY <1>6, <2>2, <2>3 DEF Rebuild
<1>7. CASE AdoptIncarnation
  BY <1>7 DEF AdoptIncarnation, MgmtType
<1>8. CASE AdoptSourceEpoch
  BY <1>8 DEF AdoptSourceEpoch, MgmtType
<1>9. CASE Offboard
  <2>1. intent' \in Content /\ removal' \in [Routes -> Reasons]
    BY <1>9, BoundsAssumption DEF Offboard, Nothing, Content, Gens, Reasons
  <2>2. state' \in StateType
    BY <1>9, AbandonTyped, NoClaimTyped, IdentityTyped DEF Offboard, NoIdentity, StateType
  <2>3. mgmt' \in MgmtType
    BY <1>9 DEF Offboard, MgmtType
  <2>4. QED
    BY <1>9, <2>1, <2>2, <2>3, AbandonTyped, BlankStoreTyped DEF Offboard
<1>10. QED
  BY <1>1, <1>2, <1>3, <1>4, <1>5, <1>6, <1>7, <1>8, <1>9 DEF Environment

\* The modes and forces that a drain is called with are request modes and booleans.
LEMMA DrainingTyped ==
    ASSUME TypeOK, NEW w \in Workers, Draining(w)
    PROVE  TypeOK'
<1>1. AskedModes \subseteq RequestModes /\ Forces \subseteq BOOLEAN
  BY ModesAssumption DEF AskedModes
<1>2. CASE \E mode \in AskedModes, force \in Forces : ClaimKey(w, mode, force)
  BY <1>1, <1>2, ClaimTyped
<1>3. QED
  BY <1>2, SendTyped DEF Draining

LEMMA InitTyped == Init => TypeOK
<1>1. NoIdentity \in IdentityType
  BY NoClaimTyped, IdentityTyped DEF NoIdentity
<1>2. \A s \in BOOLEAN : [BlankStore EXCEPT !.shut = s] \in FarType
  BY BlankStoreTyped DEF FarType
<1>3. SUFFICES ASSUME Init PROVE TypeOK
  OBVIOUS
<1>4. intent \in Content /\ removal \in [Routes -> Reasons] /\ lastGen \in Gens
  BY <1>3, BoundsAssumption DEF Init, Nothing, Content, Gens, Reasons
<1>5. state \in StateType
  BY <1>1, <1>3, NoClaimTyped DEF Init, StateType
<1>6. mgmt \in MgmtType
  BY <1>3 DEF Init, MgmtType
<1>7. far \in FarType
  BY <1>2, <1>3, ModesAssumption DEF Init
<1>8. QED
  BY <1>3, <1>4, <1>5, <1>6, <1>7, IdleTyped DEF Init, TypeOK

\* Every step keeps the types.
LEMMA TypeStep ==
    ASSUME TypeOK, [Next]_vars
    PROVE  TypeOK'
<1>1. CASE UNCHANGED vars
  BY <1>1 DEF TypeOK, vars
<1>2. QED
  BY <1>1, OperatorTyped, AuditAndCompactTyped, DrainingTyped, AdapterTyped, EnvironmentTyped DEF Next

\* Every reachable state is well typed: rows are rows, the state row holds a claim or the
\* blank claim, and no worker, request or receipt carries anything else.
THEOREM TypeInvariant == Spec => []TypeOK
<1>1. TypeOK /\ [Next]_vars => TypeOK'
  BY TypeStep
<1>2. QED
  BY <1>1, InitTyped, PTL DEF Spec

-----------------------------------------------------------------------------
(* Rows are never stranded                                                 *)

\* The step: whatever clears the claim retires or returns the rows it consumed.
LEMMA RowsStep ==
    ASSUME TypeOK, ConsumedRowsNameTheLiveClaim, [Next]_vars
    PROVE  ConsumedRowsNameTheLiveClaim'
<1>. USE DEF ConsumedRowsNameTheLiveClaim
<1>1. entries \subseteq EntryType /\ lastSeq \in Nat /\ NoClaim.seq = 0
  BY DEF TypeOK, NoClaim
<1>2. ASSUME NEW kind, NEW ops, NEW mark, Append(kind, ops, mark), UNCHANGED state
      PROVE  ConsumedRowsNameTheLiveClaim'
  BY <1>2 DEF Append
<1>3. ASSUME NEW ops, NEW mark, Contribute(ops, mark), UNCHANGED state
      PROVE  ConsumedRowsNameTheLiveClaim'
  BY <1>2, <1>3 DEF Contribute, rowVars
<1>4. \A e \in GiveBack(entries) : e.by = 0
  BY <1>1 DEF GiveBack, EntryType
<1>5. CASE Operator
  BY <1>2, <1>3, <1>5 DEF Operator, AcceptOrEdit, Reown, Delete, Release, Bypass, Write, rowVars
<1>6. CASE Audit
  BY <1>2, <1>6 DEF Audit
<1>7. CASE Compact
  <2>1. \A e \in Unconsumed : Merged(e).by = 0
    BY <1>1 DEF Unconsumed, Merged, EntryType
  <2>2. QED
    BY <1>7, <2>1 DEF Compact
<1>8. ASSUME NEW w \in Workers, NEW mode, NEW force, ClaimKey(w, mode, force)
      PROVE  ConsumedRowsNameTheLiveClaim'
  <2>1. CASE Takeover(w)
    BY <2>1 DEF Takeover, rowVars, TypeOK, StateType
  <2>2. CASE TakeoverAbandon(w)
    BY <1>4, <2>2 DEF TakeoverAbandon
  <2>3. CASE Form(w, force)
    <3>1. \A e \in entries' : e.by = lastSeq + 1
      BY <1>1, <2>3 DEF Form, EntryType
    <3>2. state'.claim.seq = lastSeq + 1
      BY <2>3 DEF Form, Folded, NewClaim, TypeOK, StateType
    <3>3. QED
      BY <3>1, <3>2
  <2>4. CASE Drop(force) \/ CaptureRefused(force)
    BY <2>4 DEF Drop, CaptureRefused
  <2>5. CASE \E m \in RequestModes : TakeSnapshot(w, m)
    BY <2>5 DEF TakeSnapshot, rowVars
  <2>6. QED
    BY <1>8, <2>1, <2>2, <2>3, <2>4, <2>5 DEF ClaimKey, FormStoreOnly, FormBackfill
<1>9. ASSUME NEW w \in Workers, Park(w) \/ AbandonBeforeSend(w) \/ Transmit(w) \/ Outcome(w)
      PROVE  ConsumedRowsNameTheLiveClaim'
  <2>1. CASE Park(w) \/ Transmit(w) \/ Superseded(w)
    BY <2>1 DEF Park, Transmit, Superseded, rowVars
  <2>2. CASE AbandonBeforeSend(w) \/ Withhold(w)
    BY <1>4, <2>2 DEF AbandonBeforeSend, Withhold
  <2>3. CASE Settle(w)
    BY <2>3 DEF Settle, Acknowledged, Answered
  <2>4. CASE Dissolve(w)
    BY <1>4, <2>4 DEF Dissolve, Answered
  <2>5. CASE RecordFailure(w)
    BY <2>5 DEF RecordFailure, rowVars, TypeOK, StateType
  <2>6. QED
    BY <1>9, <2>1, <2>2, <2>3, <2>4, <2>5 DEF Outcome
<1>10. CASE Adapter
  BY ZenonT(40), <1>10 DEF Adapter, AdapterHandles, AnswerElsewhere, AnswerReceipt, AnswerFenceShut, AnswerInvalid,
     Apply, Answer, rowVars
<1>11. CASE Environment
  <2>1. CASE Offboard
    BY <1>4, <2>1 DEF Offboard
  <2>2. CASE LeaseExpires \/ AcknowledgeDegraded
    BY <2>2 DEF LeaseExpires, AcknowledgeDegraded, rowVars, TypeOK, StateType
  <2>3. QED
    BY <1>11, <2>1, <2>2 DEF Environment, Crash, Unlink, Link, Rebuild, AdoptIncarnation,
       AdoptSourceEpoch, rowVars
<1>12. CASE UNCHANGED vars
  BY <1>12 DEF vars
<1>13. QED
  BY <1>5, <1>6, <1>7, <1>8, <1>9, <1>10, <1>11, <1>12 DEF Next, Draining

\* No row is stranded under a sequence that no outcome can retire or return.
THEOREM RowsAreNeverStranded == Spec => []ConsumedRowsNameTheLiveClaim
<1>1. Init => ConsumedRowsNameTheLiveClaim
  BY DEF Init, ConsumedRowsNameTheLiveClaim
<1>2. TypeOK /\ ConsumedRowsNameTheLiveClaim /\ [Next]_vars => ConsumedRowsNameTheLiveClaim'
  BY RowsStep
<1>3. QED
  BY <1>1, <1>2, TypeInvariant, PTL DEF Spec

-----------------------------------------------------------------------------
(* The live claim is never stale and its sequence never names another body *)

\* An abandon leaves no live claim, so nothing is left to disagree with.
LEMMA NoLiveClaim ==
    ASSUME TypeOK, OneOperationPerSequence, state'.claim.seq = 0, lastSeq' = lastSeq,
           far'.seq \in {0, far.seq}, net' \subseteq net,
           \A w \in Workers : wk'[w].claim \in {wk[w].claim, NoClaim}
    PROVE  OneOperationPerSequence'
<1>1. lastSeq \in Nat /\ NoClaim.seq = 0
  BY DEF TypeOK, NoClaim
<1>2. QED
  BY <1>1 DEF OneOperationPerSequence

\* Steps that keep the claim and the sequence, and bring no claim that was not there.
LEMMA SameLiveClaim ==
    ASSUME TypeOK, OneOperationPerSequence, state'.claim = state.claim, lastSeq' = lastSeq,
           far' = far \/ far'.seq = 0 \/ (far'.seq = far.seq /\ far'.digest = far.digest),
           net' \subseteq net,
           \A w \in Workers : wk'[w].claim \in {wk[w].claim, NoClaim, state.claim}
    PROVE  OneOperationPerSequence'
<1>1. lastSeq \in Nat /\ NoClaim.seq = 0
  BY DEF TypeOK, NoClaim
<1>2. QED
  BY <1>1 DEF OneOperationPerSequence, Digest

\* A new claim takes a sequence younger than everything on record.
LEMMA NewLiveClaim ==
    ASSUME TypeOK, OneOperationPerSequence, NEW w \in Workers, NEW c, c.seq = lastSeq + 1,
           state'.claim = c, lastSeq' = lastSeq + 1, far' = far, net' = net,
           \A v \in Workers : wk'[v].claim \in {wk[v].claim, c}
    PROVE  OneOperationPerSequence'
<1>1. lastSeq \in Nat /\ far.seq \in Nat /\ \A v \in Workers : wk[v].claim.seq \in Nat
  BY DEF TypeOK, FarType, WorkerType, ClaimType
<1>2. \A m \in net : m.claim.seq \in Nat
  BY DEF TypeOK, ClaimType
<1>3. QED
  BY <1>1, <1>2 DEF OneOperationPerSequence

\* What Free and Holds leave of a worker.
LEMMA WorkersAfter ==
    ASSUME TypeOK, NEW w \in Workers, NEW c
    PROVE  /\ Free(w) => \A v \in Workers : wk'[v].claim \in {wk[v].claim, NoClaim}
           /\ Holds(w, c) => \A v \in Workers : wk'[v].claim \in {wk[v].claim, c}
<1>1. wk \in [Workers -> WorkerType] /\ Idle.claim = NoClaim
  BY DEF TypeOK, Idle
<1>2. ASSUME Free(w), NEW v \in Workers
      PROVE  wk'[v].claim \in {wk[v].claim, NoClaim}
  BY <1>1, <1>2 DEF Free
<1>3. ASSUME Holds(w, c), NEW v \in Workers
      PROVE  wk'[v].claim \in {wk[v].claim, c}
  <2>1. [Idle EXCEPT !.pc = "claimed", !.claim = c].claim = c
    BY DEF Idle
  <2>2. wk'[v] = IF v = w THEN [Idle EXCEPT !.pc = "claimed", !.claim = c] ELSE wk[v]
    BY <1>1, <1>3 DEF Holds
  <2>3. QED
    BY <2>1, <2>2
<1>4. QED
  BY <1>2, <1>3

LEMMA SequenceStep ==
    ASSUME TypeOK, OneOperationPerSequence, [Next]_vars
    PROVE  OneOperationPerSequence'
<1>. USE DEF ownerVars, rowVars
<1>1. Rehomed.claim.seq = 0 /\ NoClaim.seq = 0
  BY DEF Rehomed, NoClaim, TypeOK, StateType
<1>2. CASE Operator \/ Audit \/ Compact
  <2>1. state' = state /\ lastSeq' = lastSeq /\ far' = far /\ net' = net /\ wk' = wk
    BY <1>2 DEF Operator, AcceptOrEdit, Reown, Delete, Release, Bypass, Write, Audit, Compact
  <2>2. QED
    BY <2>1, SameLiveClaim
<1>3. ASSUME NEW w \in Workers, NEW mode, NEW force, ClaimKey(w, mode, force)
      PROVE  OneOperationPerSequence'
  <2>1. CASE Takeover(w)
    <3>1. state'.claim = state.claim
      BY <2>1 DEF Takeover, TypeOK, StateType
    <3>2. QED
      BY <2>1, <3>1, SameLiveClaim, WorkersAfter DEF Takeover
  <2>2. CASE TakeoverAbandon(w)
    BY <1>1, <2>2, HistoryTyped, NoLiveClaim DEF TakeoverAbandon
  <2>3. CASE Form(w, force)
    <3>1. state'.claim = Folded /\ Folded.seq = lastSeq + 1
      BY <2>3 DEF Form, Folded, NewClaim, TypeOK, StateType
    <3>2. QED
      BY <2>3, <3>1, NewLiveClaim, WorkersAfter DEF Form
  <2>4. CASE Drop(force)
    <3>1. state'.claim = state.claim
      BY <2>4 DEF Drop, TypeOK, StateType
    <3>2. QED
      BY <2>4, <3>1, SameLiveClaim DEF Drop
  <2>5. CASE CaptureRefused(force)
    BY <2>5, SameLiveClaim DEF CaptureRefused
  <2>6. ASSUME NEW m, TakeSnapshot(w, m)
        PROVE  OneOperationPerSequence'
    <3>1. state'.claim = NewClaim(m, {}, FALSE, FALSE)
      BY <2>6 DEF TakeSnapshot, TypeOK, StateType
    <3>2. NewClaim(m, {}, FALSE, FALSE).seq = lastSeq + 1
      BY DEF NewClaim
    <3>3. QED
      BY <2>6, <3>1, <3>2, NewLiveClaim, WorkersAfter DEF TakeSnapshot
  <2>7. QED
    BY <1>3, <2>1, <2>2, <2>3, <2>4, <2>5, <2>6 DEF ClaimKey, FormStoreOnly, FormBackfill
<1>4. ASSUME NEW w \in Workers, Park(w) \/ AbandonBeforeSend(w) \/ Transmit(w) \/ Outcome(w)
      PROVE  OneOperationPerSequence'
  <2>1. CASE Park(w) \/ Superseded(w)
    BY <2>1, SameLiveClaim, WorkersAfter DEF Park, Superseded
  <2>2. CASE AbandonBeforeSend(w) \/ Dissolve(w)
    BY <1>1, <2>2, HistoryTyped, NoLiveClaim, WorkersAfter DEF AbandonBeforeSend, Dissolve
  <2>3. CASE Withhold(w)
    <3>1. state'.claim.seq = 0
      BY <1>1, <2>3 DEF Withhold, Rehomed, TypeOK, StateType
    <3>2. QED
      BY <2>3, <3>1, NoLiveClaim, WorkersAfter DEF Withhold
  <2>4. CASE Settle(w)
    BY <1>1, <2>4, HistoryTyped, NoLiveClaim, WorkersAfter DEF Settle, Acknowledged
  <2>5. CASE RecordFailure(w)
    <3>1. state'.claim = state.claim
      BY <2>5 DEF RecordFailure, TypeOK, StateType
    <3>2. QED
      BY <2>5, <3>1, SameLiveClaim, WorkersAfter DEF RecordFailure
  <2>6. CASE Transmit(w)
    <3>1. \A v \in Workers : wk'[v].claim = wk[v].claim
      BY <2>6 DEF Transmit, TypeOK, WorkerType
    <3>2. \A m \in net' : m \in net \/ m.claim = wk[w].claim
      BY <2>6 DEF Transmit
    <3>3. QED
      BY <2>6, <3>1, <3>2 DEF Transmit, OneOperationPerSequence, Digest
  <2>7. QED
    BY <1>4, <2>1, <2>2, <2>3, <2>4, <2>5, <2>6 DEF Outcome
<1>5. CASE Adapter
  <2>1. PICK m \in net : AdapterHandles(m)
    BY <1>5 DEF Adapter
  <2>2. /\ net' \subseteq net /\ state' = state /\ lastSeq' = lastSeq
        /\ \A v \in Workers : wk'[v].claim = wk[v].claim
    <3>1. ASSUME NEW code, NEW out, Answer(m, code, out)
          PROVE  /\ net' \subseteq net /\ state' = state /\ lastSeq' = lastSeq
                 /\ \A v \in Workers : wk'[v].claim = wk[v].claim
      <4>1. wk \in [Workers -> WorkerType] /\ m.w \in Workers
        BY DEF TypeOK
      <4>2. \A v \in Workers : wk'[v].claim = wk[v].claim
        BY <3>1, <4>1 DEF Answer, WorkerType
      <4>3. QED
        BY <3>1, <4>2 DEF Answer
    <3>2. QED
      BY <2>1, <3>1 DEF AdapterHandles, AnswerElsewhere, AnswerReceipt, AnswerFenceShut,
         AnswerInvalid, Apply
  <2>3. far' = far \/ (far'.seq = m.claim.seq /\ far'.digest = Digest(m.claim))
    BY <2>1 DEF AdapterHandles, AnswerElsewhere, AnswerReceipt, AnswerFenceShut, AnswerInvalid,
       Apply, Accepted
  <2>4. CASE far' = far
    BY <2>2, <2>4, SameLiveClaim
  <2>5. CASE far'.seq = m.claim.seq /\ far'.digest = Digest(m.claim)
    <3>1. state'.claim.seq # 0 /\ far'.seq = state'.claim.seq => m.claim = state'.claim
      BY <2>2, <2>5 DEF OneOperationPerSequence
    <3>2. far'.seq <= lastSeq'
      BY <2>2, <2>5 DEF OneOperationPerSequence
    <3>3. Digest(state'.claim) = Digest(state.claim)
      BY <2>2
    <3>4. QED
      BY <2>2, <2>5, <3>1, <3>2, <3>3 DEF OneOperationPerSequence
  <2>6. QED
    BY <2>3, <2>4, <2>5
<1>6. CASE Environment
  <2>1. ASSUME NEW w \in Workers, Crash(w)
        PROVE  OneOperationPerSequence'
    BY <2>1, SameLiveClaim, WorkersAfter DEF Crash
  <2>2. CASE LeaseExpires \/ AcknowledgeDegraded
    <3>1. state'.claim = state.claim
      BY <2>2 DEF LeaseExpires, AcknowledgeDegraded, TypeOK, StateType
    <3>2. far'.seq = far.seq /\ far'.digest = far.digest
      BY <2>2 DEF LeaseExpires, AcknowledgeDegraded, TypeOK, FarType
    <3>3. QED
      BY <2>2, <3>1, <3>2, SameLiveClaim DEF LeaseExpires, AcknowledgeDegraded
  <2>3. CASE Unlink \/ AdoptIncarnation \/ AdoptSourceEpoch
    BY <2>3, SameLiveClaim DEF Unlink, AdoptIncarnation, AdoptSourceEpoch
  <2>4. CASE Link \/ Rebuild
    <3>1. far'.seq = 0 /\ net' \subseteq net
      BY <2>4 DEF Link, Rebuild, BlankStore
    <3>2. QED
      BY <2>4, <3>1, SameLiveClaim DEF Link, Rebuild
  <2>5. CASE Offboard
    <3>1. state'.claim.seq = 0 /\ far'.seq = 0
      BY <1>1, <2>5 DEF Offboard, Rehomed, BlankStore, TypeOK, StateType
    <3>2. QED
      BY <2>5, <3>1, NoLiveClaim DEF Offboard
  <2>6. QED
    BY <1>6, <2>1, <2>2, <2>3, <2>4, <2>5 DEF Environment
<1>7. CASE UNCHANGED vars
  BY <1>7, SameLiveClaim DEF vars
<1>8. QED
  BY <1>2, <1>3, <1>4, <1>5, <1>6, <1>7 DEF Next, Draining

LEMMA InitSequences == Init => OneOperationPerSequence
<1>1. Init => far.seq = 0
  BY DEF Init, BlankStore
<1>2. QED
  BY <1>1 DEF Init, OneOperationPerSequence, NoClaim, Idle

\* A sequence names one operation for ever, whatever crashes, expires or is delivered late.
THEOREM SequencesNameOneOperation == Spec => []OneOperationPerSequence
<1>1. TypeOK /\ OneOperationPerSequence /\ [Next]_vars => OneOperationPerSequence'
  BY SequenceStep
<1>2. QED
  BY <1>1, InitSequences, TypeInvariant, PTL DEF Spec

\* The adapter's receipt protocol never refuses the key's live operation, so a replay
\* always either applies it or reads its own receipt.
THEOREM LiveClaimIsAlwaysAnswerable == Spec => []LiveClaimIsNeverRefused
<1>1. TypeOK /\ OneOperationPerSequence => LiveClaimIsNeverRefused
  BY DEF TypeOK, OneOperationPerSequence, LiveClaimIsNeverRefused
<1>2. QED
  BY <1>1, TypeInvariant, SequencesNameOneOperation, PTL
=============================================================================
