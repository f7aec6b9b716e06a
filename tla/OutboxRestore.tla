---------------------------- MODULE OutboxRestore ----------------------------
(***************************************************************************)
(* A plugin-only restore: the plugin's database comes back from a backup,  *)
(* sequence included, beside an adapter that never went back.  The command *)
(* nso_intent_restore closes the gate, walks the sequence past the         *)
(* adapter's watermark, resolves the restored claim against the adapter's  *)
(* receipt and opens the gate again (or fails closed).                     *)
(*                                                                         *)
(* One key, so the adapter's global watermark is its receipt.  The backup  *)
(* is loaded while NetBox is stopped (no worker, no request on the wire),  *)
(* once, and under the mapping it was taken with.                          *)
(***************************************************************************)
EXTENDS IntentOutbox

CONSTANTS
    Batch,       \* PUSH_SEQ_ADVANCE_BATCH: values one step of the walk burns
    MaxGap       \* MAX_RESTORE_GAP: the widest gap the command will walk

ASSUME RestoreAssumption == Batch \in Nat \ {0} /\ MaxGap \in Nat

VARIABLES
    phase,       \* where the backup and the command stand
    saved,       \* the database in the backup
    issued       \* the sequence when the command opened the gate again

rvars == <<vars, phase, saved, issued>>

Phases == {"live", "saved", "walk", "resolve", "resumed", "failed"}
Working == phase \in {"live", "saved", "resumed"}

Database == [intent |-> intent, removal |-> removal, entries |-> entries, nextId |-> nextId,
             state |-> state, lastSeq |-> lastSeq, mgmt |-> mgmt]
NoBackup == [lastSeq |-> 0]

RestoreInit == Init /\ phase = "live" /\ saved = NoBackup /\ issued = 0

-----------------------------------------------------------------------------
(* The backup and its return                                               *)

TakeBackup ==
    /\ phase = "live"
    /\ phase' = "saved" /\ saved' = Database
    /\ UNCHANGED <<vars, issued>>

Rewind ==
    /\ phase = "saved" /\ saved.mgmt = mgmt
    /\ intent' = saved.intent /\ removal' = saved.removal
    /\ entries' = saved.entries /\ nextId' = saved.nextId
    /\ state' = saved.state /\ lastSeq' = saved.lastSeq
    /\ wk' = [w \in Workers |-> Idle] /\ net' = {}
    /\ phase' = "walk" /\ saved' = NoBackup
    /\ UNCHANGED <<lastGen, mgmt, far, issued>>

-----------------------------------------------------------------------------
(* nso_intent_restore                                                      *)

Gap == far.seq - lastSeq

\* variant of Step: the walk stops one short of the watermark
StepShort == IF Gap - 1 < Batch THEN Gap - 1 ELSE Batch
\* advance_push_seq: burn at most a batch, never past the watermark
Step == IF Gap < Batch THEN Gap ELSE Batch

Walk ==
    /\ phase = "walk" /\ 0 < Gap /\ Gap <= MaxGap
    /\ lastSeq' = lastSeq + Step
    /\ phase' = IF Gap <= Batch THEN "resolve" ELSE "walk"
    /\ UNCHANGED <<ownerVars, rowVars, state, mgmt, wk, net, far, saved, issued>>

WatermarkIsPassed ==
    /\ phase = "walk" /\ Gap <= 0
    /\ phase' = "resolve"
    /\ UNCHANGED <<vars, saved, issued>>

Resolves(next) == phase = "resolve" /\ phase' = next /\ UNCHANGED <<ownerVars, nextId, lastSeq, mgmt, wk, net, far, saved>>
Resumes == Resolves("resumed") /\ issued' = lastSeq

\* the receipt is younger than the restored claim: another operation overtook it
Outlived == state.claim.seq # 0 /\ far.seq > state.claim.seq

\* the receipt is the restored claim's own, stored answer included
Met ==
    /\ far.seq = state.claim.seq /\ far.digest = Digest(state.claim) /\ far.code = "ok"
    /\ mgmt.link = "linked"

NothingToResolve ==
    /\ state.claim.seq = 0
    /\ Resumes /\ UNCHANGED <<entries, state>>

\* the adapter never accepted it: the lease is released and the replay carries it
Replay ==
    /\ state.claim.seq # 0 /\ far.seq < state.claim.seq /\ mgmt.link = "linked"
    /\ Resumes
    /\ state' = [state EXCEPT !.leased = FALSE]
    /\ UNCHANGED entries

Rebase ==
    /\ Outlived /\ mgmt.link = "linked"
    /\ Resumes
    /\ entries' = GiveBack(entries)
    /\ state' = Rehomed

SettleFromReceipt ==
    /\ state.claim.seq # 0 /\ Met
    /\ Resumes
    /\ entries' = {e \in entries : e.by # state.claim.seq}
    /\ state' = Acknowledged(state.claim, far.out)

\* the gap is too wide, or the claim has no adapter device, another body or no exact answer
FailClosed ==
    /\ \/ phase = "walk" /\ Gap > MaxGap
       \/ /\ phase = "resolve" /\ state.claim.seq # 0
          /\ mgmt.link # "linked" \/ (far.seq = state.claim.seq /\ ~Met)
    /\ phase' = "failed"
    /\ UNCHANGED <<vars, saved, issued>>

Command ==
    \/ Walk \/ WatermarkIsPassed
    \/ NothingToResolve \/ Replay \/ Rebase \/ SettleFromReceipt \/ FailClosed

RestoreNext ==
    \/ TakeBackup \/ Rewind
    \/ Command
    \/ Working /\ Next /\ UNCHANGED <<phase, saved, issued>>

RestoreSpec == RestoreInit /\ [][RestoreNext]_rvars

\* The command runs to its end; with the gate open the drains run as they always do.
GateOpen(A) == Working /\ A /\ UNCHANGED <<phase, saved, issued>>
RestoreFairness ==
    /\ WF_rvars(Command)
    /\ WF_rvars(GateOpen(\E w \in Workers, mode \in AskedModes : ClaimKey(w, mode, FALSE)))
    /\ WF_rvars(GateOpen(LeaseExpires))
    /\ \A w \in Workers :
          /\ WF_rvars(GateOpen(Outcome(w)))
          /\ SF_rvars(GateOpen(Transmit(w))) /\ SF_rvars(GateOpen(Answers(w)))
          /\ SF_rvars(GateOpen(Concludes(w)))
FairRestoreSpec == RestoreSpec /\ RestoreFairness

-----------------------------------------------------------------------------
(* What the restore promises                                               *)

\* Once the gate is open again no number is handed out twice and the restored claim can
\* still be answered; the command fails closed only on a gap it may not walk, a claim
\* without an adapter device or an answer that was not exact, never on a receipt for
\* another body (advance_push_seq, resolve_restored_claim).
RestoreResolves ==
    /\ Working => LiveClaimIsNeverRefused /\ far.seq <= lastSeq
    /\ phase = "failed" =>
          \/ Gap > MaxGap
          \/ state.claim.seq # 0 /\ (mgmt.link # "linked" \/ far.code # "ok")

\* Once the operators stop, everything the database owes is delivered and, unless nothing
\* was sent since a restore, what they own is in the adapter's store for good: crashes,
\* timeouts, lost answers, revocations, a shut fence and a rewound database only delay it
\* (drain_candidates, _takeover, _withheld_mode, nso_intent_restore).
EventuallyDelivered ==
    <>[](\/ phase = "failed"
         \/ ~WorkPending /\ (far.held = intent \/ (phase = "resumed" /\ far.seq <= issued)))
=============================================================================
