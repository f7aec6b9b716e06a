------------------------ MODULE OutboxRestoreProofs -------------------------
(***************************************************************************)
(* Theorems about OutboxRestore, for every instance of the outbox, every   *)
(* batch and every widest gap, and for a backup taken at any time.         *)
(***************************************************************************)
EXTENDS OutboxRestore, IntentOutboxProofs

-----------------------------------------------------------------------------
(* The inductive invariant                                                 *)

\* Everything that is said under c's number, by the key, its workers, its requests or
\* the receipt, is said of c.
Means(c, q, st, ws, ns, fa) ==
    /\ c.seq <= q
    /\ st.claim.seq = c.seq => st.claim = c
    /\ \A w \in Workers : ws[w].claim.seq = c.seq => ws[w].claim = c
    /\ \A m \in ns : m.claim.seq = c.seq => m.claim = c
    /\ fa.seq = c.seq => fa.digest = Digest(c)

Backups == [intent : Content, removal : [Routes -> Reasons], entries : SUBSET EntryType, nextId : Nat,
            state : StateType, lastSeq : Nat, mgmt : MgmtType]

\* the backup's claim keeps its meaning while the live key goes on
SavedInv ==
    phase = "saved" =>
        /\ saved \in Backups
        /\ saved.lastSeq <= lastSeq
        /\ saved.state.claim.seq \in {0, saved.lastSeq}
        /\ saved.state.claim.seq # 0 => Means(saved.state.claim, lastSeq, state, wk, net, far)

\* While the command works nothing else does; a claim that the walk has left behind was
\* overtaken, and a receipt under its number is its own.
ResolveInv ==
    phase \in {"walk", "resolve"} =>
        /\ \A w \in Workers : wk[w].claim.seq = 0
        /\ net = {}
        /\ state.claim.seq <= lastSeq
        /\ state.claim.seq \notin {0, lastSeq} => far.seq > state.claim.seq
        /\ state.claim.seq # 0 /\ far.seq = state.claim.seq => far.digest = Digest(state.claim)
        /\ phase = "resolve" => far.seq <= lastSeq

RestoreInv ==
    /\ TypeOK /\ phase \in Phases
    /\ Working => OneOperationPerSequence
    /\ SavedInv /\ ResolveInv /\ RestoreResolves

-----------------------------------------------------------------------------
(* What a step of the outbox does to numbers, claims and the receipt       *)

\* Numbers grow; no claim is held, sent or recorded that was not there, but for a new one
\* under a new number.
Moves ==
    /\ lastSeq' >= lastSeq
    /\ state'.claim \in {state.claim, NoClaim} \/ state'.claim.seq > lastSeq
    /\ \A w \in Workers : wk'[w].claim \in {wk[w].claim, NoClaim, state'.claim}
    /\ \A m \in net' : m \in net \/ \E w \in Workers : m.claim = wk[w].claim
    /\ \/ far'.seq = far.seq /\ far'.digest = far.digest
       \/ far'.seq = 0
       \/ \E m \in net : far'.seq = m.claim.seq /\ far'.digest = Digest(m.claim)

LEMMA StillMoves ==
    ASSUME lastSeq \in Nat, state'.claim \in {state.claim, NoClaim}, lastSeq' = lastSeq, net' \subseteq net,
           \A w \in Workers : wk'[w].claim \in {wk[w].claim, NoClaim, state'.claim},
           \/ far'.seq = far.seq /\ far'.digest = far.digest
           \/ far'.seq = 0
    PROVE  Moves
BY DEF Moves

LEMMA NextMoves ==
    ASSUME TypeOK, [Next]_vars
    PROVE  Moves
<1>. USE DEF ownerVars, rowVars
<1>1. lastSeq \in Nat /\ state \in StateType /\ far \in FarType /\ wk \in [Workers -> WorkerType]
  BY DEF TypeOK
<1>2. Rehomed.claim = NoClaim
  BY <1>1 DEF Rehomed, StateType
<1>3. CASE Operator \/ Audit \/ Compact
  <2>1. state' = state /\ lastSeq' = lastSeq /\ far' = far /\ net' = net /\ wk' = wk
    BY <1>3 DEF Operator, AcceptOrEdit, Reown, Delete, Release, Bypass, Write, Audit, Compact
  <2>2. QED
    BY <1>1, <2>1, StillMoves
<1>4. ASSUME NEW w \in Workers, NEW mode, NEW force, ClaimKey(w, mode, force)
      PROVE  Moves
  <2>1. CASE Takeover(w)
    <3>1. state'.claim = state.claim
      BY <1>1, <2>1 DEF Takeover, StateType
    <3>2. QED
      BY <1>1, <2>1, <3>1, StillMoves, WorkersAfter DEF Takeover
  <2>2. CASE TakeoverAbandon(w)
    BY <1>1, <1>2, <2>2, HistoryTyped, StillMoves DEF TakeoverAbandon
  <2>3. ASSUME NEW c, c.seq = lastSeq + 1, state'.claim = c, lastSeq' = lastSeq + 1, Holds(w, c),
               UNCHANGED <<net, far>>
        PROVE  Moves
    BY <1>1, <2>3, WorkersAfter DEF Moves
  <2>4. CASE Form(w, force)
    <3>1. state'.claim = Folded /\ Folded.seq = lastSeq + 1
      BY <1>1, <2>4 DEF Form, Folded, NewClaim, StateType
    <3>2. QED
      BY <2>3, <2>4, <3>1 DEF Form
  <2>5. CASE Drop(force)
    <3>1. state'.claim = state.claim
      BY <1>1, <2>5 DEF Drop, StateType
    <3>2. QED
      BY <1>1, <2>5, <3>1, StillMoves DEF Drop
  <2>6. CASE CaptureRefused(force)
    BY <1>1, <2>6, StillMoves DEF CaptureRefused
  <2>7. ASSUME NEW m, TakeSnapshot(w, m)
        PROVE  Moves
    <3>1. state'.claim = NewClaim(m, {}, FALSE, FALSE)
      BY <1>1, <2>7 DEF TakeSnapshot, StateType
    <3>2. NewClaim(m, {}, FALSE, FALSE).seq = lastSeq + 1
      BY DEF NewClaim
    <3>3. QED
      BY <2>3, <2>7, <3>1, <3>2 DEF TakeSnapshot
  <2>8. QED
    BY <1>4, <2>1, <2>2, <2>4, <2>5, <2>6, <2>7 DEF ClaimKey, FormStoreOnly, FormBackfill
<1>5. ASSUME NEW w \in Workers, Park(w) \/ AbandonBeforeSend(w) \/ Transmit(w) \/ Outcome(w)
      PROVE  Moves
  <2>1. CASE Park(w) \/ Superseded(w)
    BY <1>1, <2>1, StillMoves, WorkersAfter DEF Park, Superseded
  <2>2. CASE AbandonBeforeSend(w) \/ Dissolve(w)
    BY <1>1, <1>2, <2>2, HistoryTyped, StillMoves, WorkersAfter DEF AbandonBeforeSend, Dissolve
  <2>3. CASE Withhold(w)
    <3>1. state'.claim = NoClaim
      BY <1>1, <2>3 DEF Withhold, Rehomed, StateType
    <3>2. QED
      BY <1>1, <2>3, <3>1, StillMoves, WorkersAfter DEF Withhold
  <2>4. CASE Settle(w)
    BY <1>1, <2>4, HistoryTyped, StillMoves, WorkersAfter DEF Settle, Acknowledged
  <2>5. CASE RecordFailure(w)
    <3>1. state'.claim = state.claim
      BY <1>1, <2>5 DEF RecordFailure, StateType
    <3>2. QED
      BY <1>1, <2>5, <3>1, StillMoves, WorkersAfter DEF RecordFailure
  <2>6. CASE Transmit(w)
    <3>1. \A v \in Workers : wk'[v].claim = wk[v].claim
      BY <1>1, <2>6 DEF Transmit, WorkerType
    <3>2. \A m \in net' : m \in net \/ m.claim = wk[w].claim
      BY <2>6 DEF Transmit
    <3>3. QED
      BY <1>1, <2>6, <3>1, <3>2 DEF Transmit, Moves
  <2>7. QED
    BY <1>5, <2>1, <2>2, <2>3, <2>4, <2>5, <2>6 DEF Outcome
<1>6. CASE Adapter
  <2>1. PICK m \in net : AdapterHandles(m)
    BY <1>6 DEF Adapter
  <2>2. /\ net' \subseteq net /\ state' = state /\ lastSeq' = lastSeq
        /\ \A v \in Workers : wk'[v].claim = wk[v].claim
    <3>1. ASSUME NEW code, NEW out, Answer(m, code, out)
          PROVE  /\ net' \subseteq net /\ state' = state /\ lastSeq' = lastSeq
                 /\ \A v \in Workers : wk'[v].claim = wk[v].claim
      <4>1. m.w \in Workers
        BY DEF TypeOK
      <4>2. \A v \in Workers : wk'[v].claim = wk[v].claim
        BY <1>1, <3>1, <4>1 DEF Answer, WorkerType
      <4>3. QED
        BY <3>1, <4>2 DEF Answer
    <3>2. QED
      BY <2>1, <3>1 DEF AdapterHandles, AnswerElsewhere, AnswerReceipt, AnswerFenceShut, AnswerInvalid, Apply
  <2>3. far' = far \/ (far'.seq = m.claim.seq /\ far'.digest = Digest(m.claim))
    BY <2>1 DEF AdapterHandles, AnswerElsewhere, AnswerReceipt, AnswerFenceShut, AnswerInvalid, Apply, Accepted
  <2>4. QED
    BY <1>1, <2>2, <2>3 DEF Moves
<1>7. CASE Environment
  <2>1. ASSUME NEW w \in Workers, Crash(w)
        PROVE  Moves
    BY <1>1, <2>1, StillMoves, WorkersAfter DEF Crash
  <2>2. CASE LeaseExpires \/ AcknowledgeDegraded
    <3>1. state'.claim = state.claim
      BY <1>1, <2>2 DEF LeaseExpires, AcknowledgeDegraded, StateType
    <3>2. far'.seq = far.seq /\ far'.digest = far.digest
      BY <1>1, <2>2 DEF LeaseExpires, AcknowledgeDegraded, FarType
    <3>3. QED
      BY <1>1, <2>2, <3>1, <3>2, StillMoves DEF LeaseExpires, AcknowledgeDegraded
  <2>3. CASE Unlink \/ AdoptIncarnation \/ AdoptSourceEpoch
    BY <1>1, <2>3, StillMoves DEF Unlink, AdoptIncarnation, AdoptSourceEpoch
  <2>4. CASE Link \/ Rebuild
    <3>1. far'.seq = 0 /\ net' \subseteq net
      BY <2>4 DEF Link, Rebuild, BlankStore
    <3>2. QED
      BY <1>1, <2>4, <3>1, StillMoves DEF Link, Rebuild
  <2>5. CASE Offboard
    <3>1. state'.claim = NoClaim /\ far'.seq = 0
      BY <1>1, <2>5 DEF Offboard, Rehomed, BlankStore, StateType
    <3>2. QED
      BY <1>1, <2>5, <3>1, StillMoves DEF Offboard
  <2>6. QED
    BY <1>7, <2>1, <2>2, <2>3, <2>4, <2>5 DEF Environment
<1>8. CASE UNCHANGED vars
  BY <1>1, <1>8, StillMoves DEF vars
<1>9. QED
  BY <1>3, <1>4, <1>5, <1>6, <1>7, <1>8 DEF Next, Draining

\* A number that was ever handed out keeps its meaning.
LEMMA MeaningStays ==
    ASSUME TypeOK, TypeOK', Moves, NEW c \in ClaimType, c.seq # 0, Means(c, lastSeq, state, wk, net, far)
    PROVE  Means(c, lastSeq', state', wk', net', far')
<1>1. c.seq \in Nat /\ lastSeq \in Nat /\ lastSeq' \in Nat /\ state'.claim.seq \in Nat /\ NoClaim.seq = 0
  BY DEF TypeOK, StateType, ClaimType, NoClaim
<1>2. c.seq <= lastSeq /\ c.seq <= lastSeq'
  BY <1>1 DEF Means, Moves
<1>3. state'.claim.seq = c.seq => state'.claim = c
  BY <1>1, <1>2 DEF Means, Moves
<1>4. \A w \in Workers : wk'[w].claim.seq = c.seq => wk'[w].claim = c
  BY <1>1, <1>3 DEF Means, Moves
<1>5. \A m \in net' : m.claim.seq = c.seq => m.claim = c
  BY DEF Means, Moves
<1>6. far'.seq = c.seq => far'.digest = Digest(c)
  <2>1. ASSUME NEW m \in net, far'.seq = m.claim.seq, far'.digest = Digest(m.claim), far'.seq = c.seq
        PROVE  far'.digest = Digest(c)
    <3>1. m.claim = c
      BY <2>1 DEF Means
    <3>2. QED
      BY <2>1, <3>1
  <2>2. QED
    BY <2>1 DEF Means, Moves
<1>7. QED
  BY <1>2, <1>3, <1>4, <1>5, <1>6 DEF Means

-----------------------------------------------------------------------------
(* One lemma per step                                                      *)

\* With the gate open the outbox goes on as ever, and the backup keeps its meaning.
LEMMA OutboxKeeps ==
    ASSUME RestoreInv, Working, [Next]_vars, UNCHANGED <<phase, saved, issued>>
    PROVE  RestoreInv'
<1>1. TypeOK /\ TypeOK' /\ OneOperationPerSequence /\ OneOperationPerSequence'
  BY TypeStep, SequenceStep DEF RestoreInv
<1>2. Moves
  BY <1>1, NextMoves
<1>3. phase \in {"live", "saved", "resumed"} /\ Working' /\ phase' \in Phases
  BY DEF Working, RestoreInv
<1>4. SavedInv'
  <2>1. CASE phase = "saved"
    <3>1. /\ saved \in Backups /\ saved.lastSeq <= lastSeq /\ saved.state.claim.seq \in {0, saved.lastSeq}
          /\ saved.state.claim.seq # 0 => Means(saved.state.claim, lastSeq, state, wk, net, far)
      BY <2>1 DEF RestoreInv, SavedInv
    <3>2. saved.state.claim \in ClaimType /\ saved.lastSeq \in Nat /\ lastSeq \in Nat /\ lastSeq' \in Nat
      BY <1>1, <3>1 DEF Backups, StateType, TypeOK
    <3>3. saved.lastSeq <= lastSeq'
      BY <1>2, <3>1, <3>2 DEF Moves
    <3>4. saved.state.claim.seq # 0 => Means(saved.state.claim, lastSeq', state', wk', net', far')
      BY <1>1, <1>2, <3>1, <3>2, MeaningStays
    <3>5. QED
      BY <2>1, <3>1, <3>3, <3>4 DEF SavedInv, Means
  <2>2. QED
    BY <1>3, <2>1 DEF SavedInv
<1>5. ResolveInv'
  BY <1>3 DEF ResolveInv
<1>6. RestoreResolves'
  BY <1>1, <1>3 DEF RestoreResolves, OneOperationPerSequence, LiveClaimIsNeverRefused, TypeOK
<1>7. QED
  BY <1>1, <1>3, <1>4, <1>5, <1>6 DEF RestoreInv

LEMMA TakeBackupKeeps ==
    ASSUME RestoreInv, TakeBackup
    PROVE  RestoreInv'
<1>1. UNCHANGED vars /\ phase = "live" /\ phase' = "saved" /\ saved' = Database
  BY DEF TakeBackup
<1>2. TypeOK' /\ OneOperationPerSequence /\ OneOperationPerSequence' /\ TypeOK
  BY <1>1, TypeStep, SequenceStep DEF RestoreInv, Working
<1>3. saved' \in Backups /\ saved'.lastSeq = lastSeq /\ saved'.state = state
  BY <1>1, <1>2 DEF Database, Backups, TypeOK
<1>4. state.claim.seq # 0 => Means(state.claim, lastSeq, state, wk, net, far)
  BY <1>2 DEF OneOperationPerSequence, Means, TypeOK
<1>5. SavedInv'
  <2>1. lastSeq \in Nat /\ lastSeq' = lastSeq /\ state' = state /\ wk' = wk /\ net' = net /\ far' = far
    BY <1>1, <1>2 DEF TypeOK, vars
  <2>2. state.claim.seq \in {0, lastSeq}
    BY <1>2 DEF OneOperationPerSequence
  <2>3. QED
    BY <1>3, <1>4, <2>1, <2>2 DEF SavedInv, Means
<1>6. RestoreResolves'
  BY <1>1, <1>2 DEF RestoreResolves, OneOperationPerSequence, LiveClaimIsNeverRefused, TypeOK
<1>7. QED
  BY <1>1, <1>2, <1>5, <1>6 DEF RestoreInv, ResolveInv, Phases

\* The old database comes back beside an adapter that may have gone far ahead.
LEMMA RewindKeeps ==
    ASSUME RestoreInv, Rewind
    PROVE  RestoreInv'
<1>1. /\ TypeOK /\ saved \in Backups /\ saved.lastSeq <= lastSeq /\ saved.state.claim.seq \in {0, saved.lastSeq}
      /\ saved.state.claim.seq # 0 => Means(saved.state.claim, lastSeq, state, wk, net, far)
  BY DEF RestoreInv, SavedInv, Rewind
<1>2. /\ intent' = saved.intent /\ removal' = saved.removal /\ entries' = saved.entries
      /\ nextId' = saved.nextId /\ state' = saved.state /\ lastSeq' = saved.lastSeq
      /\ wk' = [w \in Workers |-> Idle] /\ net' = {} /\ phase' = "walk"
      /\ lastGen' = lastGen /\ mgmt' = mgmt /\ far' = far
  BY DEF Rewind
<1>3. TypeOK'
  BY <1>1, <1>2, IdleTyped DEF TypeOK, Backups
<1>4. \A w \in Workers : wk'[w].claim.seq = 0
  BY <1>2 DEF Idle, NoClaim
<1>5. ResolveInv'
  <2>1. saved.lastSeq \in Nat
    BY <1>1 DEF Backups
  <2>2. state'.claim.seq \in {0, lastSeq'} /\ state'.claim.seq <= lastSeq'
    BY <1>1, <1>2, <2>1
  <2>3. state'.claim.seq # 0 /\ far'.seq = state'.claim.seq => far'.digest = Digest(state'.claim)
    BY <1>1, <1>2 DEF Means
  <2>4. QED
    BY <1>2, <1>4, <2>2, <2>3 DEF ResolveInv, Digest
<1>6. QED
  BY <1>2, <1>3, <1>5 DEF RestoreInv, SavedInv, RestoreResolves, Working, Phases

\* What every step of the walk needs: the types, the gate and what it knows of the receipt.
LEMMA Walking ==
    ASSUME RestoreInv
    PROVE  /\ TypeOK /\ lastSeq \in Nat /\ far.seq \in Nat /\ state.claim.seq \in Nat
           /\ state \in StateType /\ state.claim \in ClaimType /\ Batch \in Nat \ {0} /\ MaxGap \in Nat
           /\ phase \in {"walk", "resolve"} =>
                /\ \A w \in Workers : wk[w].claim.seq = 0
                /\ net = {}
                /\ state.claim.seq <= lastSeq
                /\ state.claim.seq \notin {0, lastSeq} => far.seq > state.claim.seq
                /\ state.claim.seq # 0 /\ far.seq = state.claim.seq => far.digest = Digest(state.claim)
                /\ phase = "resolve" => far.seq <= lastSeq
BY RestoreAssumption DEF RestoreInv, ResolveInv, TypeOK, StateType, ClaimType, FarType

LEMMA WalkKeeps ==
    ASSUME RestoreInv, Walk \/ WatermarkIsPassed
    PROVE  RestoreInv'
<1>1. /\ UNCHANGED <<ownerVars, rowVars, state, mgmt, wk, net, far, saved, issued>>
      /\ phase = "walk" /\ phase' \in {"walk", "resolve"}
  BY DEF Walk, WatermarkIsPassed, vars, ownerVars, rowVars
<1>2. lastSeq' \in Nat /\ lastSeq' >= lastSeq
  BY Walking DEF Walk, WatermarkIsPassed, Step, Gap, vars
<1>3. phase' = "resolve" => far.seq <= lastSeq'
  BY Walking DEF Walk, WatermarkIsPassed, Step, Gap, vars
<1>4. lastSeq' # lastSeq => far.seq > lastSeq
  BY Walking DEF Walk, WatermarkIsPassed, Gap, vars
<1>5. TypeOK'
  BY <1>1, <1>2, Walking DEF TypeOK, ownerVars, rowVars
<1>6. ResolveInv'
  <2>1. state' = state /\ wk' = wk /\ net' = net /\ far' = far
    BY <1>1
  <2>2. state.claim.seq <= lastSeq'
    BY <1>1, <1>2, Walking
  <2>3. state.claim.seq \notin {0, lastSeq'} => far.seq > state.claim.seq
    BY <1>1, <1>2, <1>4, Walking
  <2>4. QED
    BY <1>1, <1>3, <2>1, <2>2, <2>3, Walking DEF ResolveInv, Digest
<1>7. QED
  BY <1>1, <1>5, <1>6 DEF RestoreInv, SavedInv, RestoreResolves, Working, Phases

\* The gate opens over a key whose claim is the youngest of its numbers, or none.
LEMMA ResumesKeeps ==
    ASSUME RestoreInv, Resumes, state' \in StateType, entries' \subseteq EntryType,
           state'.claim.seq = 0 \/ (state'.claim = state.claim /\ state.claim.seq = lastSeq)
    PROVE  RestoreInv'
<1>1. /\ UNCHANGED <<ownerVars, nextId, lastSeq, mgmt, wk, net, far, saved>>
      /\ phase = "resolve" /\ phase' = "resumed" /\ issued' = lastSeq
  BY DEF Resumes, Resolves
<1>2. TypeOK'
  BY <1>1, Walking DEF TypeOK, ownerVars
<1>3. OneOperationPerSequence'
  <2>1. lastSeq' = lastSeq /\ wk' = wk /\ net' = {} /\ far' = far /\ far.seq <= lastSeq
    BY <1>1, Walking
  <2>2. \A w \in Workers : wk[w].claim.seq = 0
    BY <1>1, Walking
  <2>3. state'.claim.seq # 0 /\ far.seq = state'.claim.seq => far.digest = Digest(state'.claim)
    BY <1>1, Walking
  <2>4. QED
    BY <2>1, <2>2, <2>3, Walking DEF OneOperationPerSequence, Digest
<1>4. RestoreResolves'
  BY <1>1, <1>2, <1>3 DEF RestoreResolves, OneOperationPerSequence, LiveClaimIsNeverRefused, TypeOK
<1>5. QED
  BY <1>1, <1>2, <1>3, <1>4 DEF RestoreInv, SavedInv, ResolveInv, Phases

LEMMA ResolveKeeps ==
    ASSUME RestoreInv, NothingToResolve \/ Replay \/ Rebase \/ SettleFromReceipt
    PROVE  RestoreInv'
<1>1. Resumes /\ phase = "resolve"
  BY DEF NothingToResolve, Replay, Rebase, SettleFromReceipt, Resumes, Resolves
<1>2. entries \subseteq EntryType /\ NoClaim.seq = 0
  BY Walking DEF TypeOK, NoClaim
<1>3. CASE NothingToResolve
  BY <1>1, <1>2, <1>3, Walking, ResumesKeeps DEF NothingToResolve
<1>4. CASE Replay
  <2>1. state' \in StateType /\ state'.claim = state.claim /\ entries' = entries
    BY <1>4, Walking DEF Replay, StateType
  <2>2. state.claim.seq = lastSeq
    BY <1>1, <1>4, Walking DEF Replay
  <2>3. QED
    BY <1>1, <1>2, <2>1, <2>2, ResumesKeeps
<1>5. CASE Rebase
  <2>1. state' \in StateType /\ entries' \subseteq EntryType
    BY <1>5, Walking, AbandonTyped DEF Rebase
  <2>2. state'.claim = NoClaim
    BY <1>5, Walking DEF Rebase, Rehomed, StateType
  <2>3. QED
    BY <1>1, <1>2, <2>1, <2>2, ResumesKeeps
<1>6. CASE SettleFromReceipt
  <2>1. Identity(state.claim) \in IdentityType
    BY Walking, IdentityTyped
  <2>2. state' \in StateType /\ state'.claim = NoClaim
    BY <1>6, <2>1, Walking, NoClaimTyped DEF SettleFromReceipt, Acknowledged, StateType
  <2>3. entries' \subseteq EntryType
    BY <1>2, <1>6 DEF SettleFromReceipt
  <2>4. QED
    BY <1>1, <1>2, <2>2, <2>3, ResumesKeeps
<1>7. QED
  BY <1>3, <1>4, <1>5, <1>6

\* The command gives up only for a reason it can name: never over another body.
LEMMA FailClosedKeeps ==
    ASSUME RestoreInv, FailClosed
    PROVE  RestoreInv'
<1>1. UNCHANGED vars /\ phase' = "failed" /\ phase \in {"walk", "resolve"}
  BY DEF FailClosed
<1>2. Gap > MaxGap \/ (state.claim.seq # 0 /\ (mgmt.link # "linked" \/ far.code # "ok"))
  BY <1>1, Walking DEF FailClosed, Met
<1>3. TypeOK'
  BY <1>1, TypeStep, Walking
<1>4. RestoreResolves'
  BY <1>1, <1>2 DEF RestoreResolves, Working, Gap, vars
<1>5. QED
  BY <1>1, <1>3, <1>4 DEF RestoreInv, SavedInv, ResolveInv, Working, Phases

-----------------------------------------------------------------------------
(* The theorems                                                            *)

LEMMA InitRestores == RestoreInit => RestoreInv
<1>1. SUFFICES ASSUME RestoreInit PROVE RestoreInv
  OBVIOUS
<1>2. TypeOK /\ OneOperationPerSequence /\ phase = "live"
  BY <1>1, InitTyped, InitSequences DEF RestoreInit
<1>3. RestoreResolves
  BY <1>2 DEF RestoreResolves, OneOperationPerSequence, LiveClaimIsNeverRefused, TypeOK
<1>4. QED
  BY <1>2, <1>3 DEF RestoreInv, SavedInv, ResolveInv, Phases

LEMMA StepRestores ==
    ASSUME RestoreInv, [RestoreNext]_rvars
    PROVE  RestoreInv'
<1>1. CASE TakeBackup \/ Rewind
  BY <1>1, TakeBackupKeeps, RewindKeeps
<1>2. CASE Command
  BY <1>2, WalkKeeps, ResolveKeeps, FailClosedKeeps DEF Command
<1>3. CASE Working /\ Next /\ UNCHANGED <<phase, saved, issued>>
  BY <1>3, OutboxKeeps
<1>4. CASE UNCHANGED rvars
  <2>1. UNCHANGED vars /\ UNCHANGED <<phase, saved, issued>>
    BY <1>4 DEF rvars
  <2>2. CASE Working
    BY <2>1, <2>2, OutboxKeeps
  <2>3. CASE ~Working
    <3>1. TypeOK'
      BY <2>1, TypeStep, Walking
    <3>2. QED
      BY <2>1, <2>3, <3>1 DEF RestoreInv, Working, SavedInv, ResolveInv, RestoreResolves, Gap, Phases, Digest, vars
  <2>4. QED
    BY <2>2, <2>3
<1>5. QED
  BY <1>1, <1>2, <1>3, <1>4 DEF RestoreNext

\* Beside an adapter that never went back, a restored key is typed, its numbers keep their
\* meaning and the command knows which receipt is its claim's own.
THEOREM RestoreInvariant == RestoreSpec => []RestoreInv
<1>1. RestoreInv /\ [RestoreNext]_rvars => RestoreInv'
  BY StepRestores
<1>2. QED
  BY <1>1, InitRestores, PTL DEF RestoreSpec

\* Once the gate is open again no number is handed out twice and the claim can be answered;
\* the command fails closed only for a gap, a missing device or an inexact answer.
THEOREM RestoresResolve == RestoreSpec => []RestoreResolves
<1>1. RestoreInv => RestoreResolves
  BY DEF RestoreInv
<1>2. QED
  BY <1>1, RestoreInvariant, PTL
=============================================================================
