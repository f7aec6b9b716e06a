# The intent plane of netbox-nso-plugin, in TLA+

netbox-nso-plugin keeps network intent in NetBox and delivers it to an
nso-adapter over REST.  An operator's edit writes an *overlay* row and, in the
same transaction, a row of the *intent outbox*; workers fold the pending rows of
one (device, scope) key into a numbered, full-replace request; the adapter keeps
one receipt per key and applies each sequence at most once.  Around this core sit
a fleet-wide gate, the life cycle of provisioned devices, a gate for observed
state, and a settlement feed that turns the adapter's outcomes into overlay
status.  This directory models that machinery in TLA+, checks it with TLC and
proves part of it with TLAPS.

Run a check with `tlc -config <name>.cfg <module>.tla` and the proofs with
`tlapm <module>.tla`.  `PROJECT.json` lists the components, the runs, one mutant
per checked property, the source lines of the definitions, the hazards and the
theorems.

## 1. Inventory

Paths are relative to `src/netbox_nso_plugin/`.

| Component | State | Operations | What must hold | Modelled by |
|---|---|---|---|---|
| Outbox (`outbox.py`) | `NSOIntentOutboxEntry` rows, one DB sequence | append in the operator's transaction, fold, reduce, advance the sequence | no contribution and no deletion authority is lost; a re-ownership withdraws authority | `IntentOutbox`, `OutboxRestore` (the walk) |
| Drain (`drain.py`, `delivery.py`) | `NSOIntentOutboxState` per key | claim, replay, send, settle, fail, abandon, withhold, dissolve, compact, offboard reset, restore | one operation per sequence; nothing owed is retired unsent; nothing is detached silently; pending work is delivered | `IntentOutbox`, `OutboxRestore`; promise: `Delivery` |
| Renderer audit (`renderer_audit.py`, `intent_state.py`, `renderer_writer.py`) | trusted fingerprints, generations | repair an untrusted baseline, permit exact writes | a bypassed write is noticed and sent | `IntentOutbox` (`Bypass`, `Audit`) |
| Link repair (`sync_cache.py`) | adapter ids on `NSODeviceManagement` | repair, drop, delete a link | a request for an old mapping never counts for the new one; no link starves | `IntentOutbox` (`Unlink`, `Link`) |
| Read gate (`read_gate.py`) | adopted and pending incarnation, source epoch, per-family read state | admit, adopt, reset, clear markers, observe, publish | nothing from an older read is applied; a reset family is marked; an ambiguous store is not adopted | `DeviceReads` |
| Owner fences (`lifecycle_fence.py`) | `NSOOverlaySettlementFence` | read tokens, accept, settle, observe | a stale read never overwrites bookkeeping | `DeviceReads` |
| Status machine (`status_machine.py`) | status of an overlay | reconcile, edit, apply, settle, release | an overlay is in sync only for a claim that a settlement confirmed | `DeviceReads` |
| Ownership planner (`ownership_planner.py`) | manifests | retract, re-own | a deletion carries its authority, a re-ownership revokes it | `IntentOutbox` (what it appends) |
| Deployment gate (`deployment.py`) | an advisory lock, one control row | quiesce, resume, operation, lock_mutation | no operation runs under a committed gate; nobody else's gate is released | `DeploymentGate`; promise: `FleetGate` |
| Provisioning (`provision_lifecycle.py`, `onboarding.py`) | `NSOProvisionTombstone`, management rows | claim, submit, poll, callback, sweep, offboard, close, Quick Manage | first terminal evidence wins; a live device is never offboarded; every attempt closes | `Provisioning` |
| Settlement (`settlement.py`, `apply_settlement.py`, `outcome_settlement.py`, `settlement_*.py`) | the device cursor, executions, diagnostics, issues | consume carriers, stall, publish, acknowledge, resolve | in order, exactly once, never success without proof, no silent stop | `Settlement` |
| Restore (`restore.py`, `nso_intent_restore`) | a rewound database and sequence | advance, rebase, replay, settle, fail closed | no sequence is handed out twice; the restored claim can go on | `OutboxRestore` |
| Switching preparation (`switching_preparation.py`) | retained root deletions | prepare, authorize, apply | a root deletion survives until it is authorized | not yet |
| Reconcilers, projections, views, API, authorization | per-family overlays | parse, compare, present | data transformation without a protocol of its own | not modelled |

### How the parts interact

- An operator's transaction writes an overlay, bumps the key's revision and
  appends a row.  On commit it schedules a drain; a system job drains every
  pending key each minute.
- A claim locks the key's state row, the management row and then the outbox rows;
  every outcome locks the state row again and compares the sequence.  No lock is
  held across the HTTP call.
- The adapter's incarnation and source epoch reach `NSODeviceManagement` through
  the read gate; the claim's identity carries the mapping epoch, so a change turns
  the next takeover into an abandon.
- Deletion authority has three homes: unconsumed rows, `queued_deletions` and the
  live claim.  Fold, abandon, compaction and settle move it among them.
- Every intent mutation and every drain first takes the deployment gate's shared
  lock; activation and restore take the exclusive one.

## 2. Plan

| Order | Module | Content | State |
|---|---|---|---|
| 1 | `IntentOutbox` (+ `MC`, `Proofs`), `OutboxAuthorityProofs` | one key end to end: rows, claim, send, adapter, outcomes, epochs | done |
| 2 | `DeploymentGate` (+ `MC`, `Proofs`) | advisory lock, waiters, control row, commands | done |
| 3 | `Delivery`, `DeliveryProofs`, `FleetGate` | abstract promises, implemented by 1 and 2 | done |
| 4 | `Provisioning` (+ `MC`, `Proofs`) | attempts of one NSO identity, sweeps, callbacks, orphan offboard | done |
| 5 | `Settlement` (+ `MC`, `Proofs`) | the cursor, carriers, issues and acknowledgements | done |
| 6 | `DeviceReads` (+ `MC`, `Proofs`) | gate, markers, publication, read tokens and the overlay's status | done |
| 7 | `OutboxRestore` (+ `MC`, `Proofs`) | a plugin-only restore of one key | done |
| 8 | deletion lineages | transitions with lineages: fold and reduce against a reference definition | not written |
| 9 | switching preparation, link rotation | retained deletions; the rotation of link repair | not written |

Every property the runs check is a theorem too (section 9), but for the four of liveness.

## 3. `IntentOutbox`

One (device, scope) key, its operators, its workers and the adapter.

| Variable | Code |
|---|---|
| `intent`, `lastGen` | the owned rows the scope renders; a static route's generation (`intent_generation.allocate`) |
| `removal` | history: why a route is not owned (deleted, or released without retracting it) |
| `entries`, `nextId` | `NSOIntentOutboxEntry`: kind, transitions reduced to the last one per route, `mark_and`, `mark_any`, `consumed_by_push_seq` |
| `state` | `NSOIntentOutboxState`: the claim (`push_seq` is `claim.seq`, 0 for none), the lease (`claimed_at`), `queued_deletions`, `revoked_ids`, `last_success_identity`, `fence_withheld_since`, `degraded_deletions` |
| `lastSeq` | the database sequence behind `allocate_push_seq` |
| `mgmt` | `NSODeviceManagement`: link, adapter device id, incarnation, source epoch; whether the renderer baseline is trusted |
| `wk` | a process between `claim` and its outcome |
| `net` | requests on the wire, those whose sender gave up included |
| `far` | the adapter: receipt (sequence, digest, answer), store, fence, and two history sets |

Everything a claim or an outcome does runs in one transaction under the state-row
lock (`_lock_state`), so it is one action.  The HTTP call is not: `Transmit`, an
adapter action and an outcome are separate, and the worker may crash, time out or
lose its lease in between.

- *Operators*: `AcceptOrEdit`, `Reown`, `Delete`, `Release`, `Bypass`; `Audit` is
  the renderer audit's repair.  An accept records no transition and `Reown` does.
  An accept of a route whose deletion is still pending is behind the event
  `accept_over_pending`, because it falsifies the documentation (section 10).
- *Claim*: `ClaimKey` with the paths of `_claim_locked`: replay (`Takeover`),
  abandon of a stale operation (`TakeoverAbandon`), `Form`, the unchanged claim
  (`Drop`), a locally refused body (`CaptureRefused`), `FormStoreOnly` and
  `FormBackfill`.
- *Send*: `Park`, `AbandonBeforeSend`, `Transmit`.
- *Outcome*: `Settle`, `RecordFailure`, `Withhold`, `Dissolve`, `Superseded`.
- *Environment*: `Crash`, `LeaseExpires`, `AcknowledgeDegraded`, `Unlink`, `Link`,
  `Rebuild`, `AdoptIncarnation`, `AdoptSourceEpoch`, `Offboard`.

The adapter is external: its actions state the contract that `drain.py`,
`delivery.py` and the tests' receipt double rely on.  A receipt answers the same
sequence and bytes with the stored answer and refuses anything else that is not
younger; a full replace retracts what it drops with authority and detaches what it
drops without; a shut fence rejects a deletion without effect until a backfill
opens it.

### Abstractions and why they are sound for the properties

- A route's content is its generation.  Per-object scopes never repeat one; a
  query-flag scope may return to an earlier content, which is what the unchanged
  claim is about.
- A row's list of transitions is kept as the last operation per route, which is what
  `reduce_transitions` keeps; lineage triples are left out.
- Attempt counters, error texts and timestamps are left out.  A refusal that only
  changes them (authority pending, a failed capture of an authority-bearing batch)
  is a stutter.
- `revocation_hit` and the `abandon` that follows it are two transactions in the
  code.  They are one action here: the abandon is a compare-and-set on the sequence,
  and `Superseded` is what it does when it loses.
- `_withheld_mode` reads the state without its lock.  The stale answer is a mode that
  does not fit the key; `outbox_two_workers` asks for both modes at any time.
- `far.lost`, `far.taken` and `far.astray` are history: which detached objects were
  deleted, which retracted objects had been released, and whether an operation was given
  up that had been, or could still be, applied (`GoesAstray`; a settlement ends it).

### Runs

| Run | Instance | Question |
|---|---|---|
| `outbox_revoke` | 2 routes, per-object, 4 rows, compaction, a source-epoch change | do deletions, un-owns, re-ownerships and compaction fold to the right authority, and is the promise kept past an abandoned operation? |
| `outbox_two_workers` | 2 workers, crashes, robbed leases, backfills and a shut fence | does any late request or outcome do harm, and is every reported detach recorded? |
| `outbox_links` | mapping moved, rebuilt, offboarded; forced and store-only pushes, refused bodies, inexact and degraded answers | does an old mapping's operation count for the new one? |
| `outbox_query` | 2 routes, one mark per contribution, contents that repeat, bypassed writes, compaction, a dropped link | is an un-own ever retracted, a deletion ever lost? |
| `outbox_restore` | the module `OutboxRestore`, fair scheduling, crash, fence | is everything delivered once operators stop, a restore included (section 5)? |

`CHECK_DEADLOCK FALSE` everywhere: a quiet key whose bounds are used up stops.
Routes are interchangeable, so the safety runs use them as a symmetry set; the
liveness run does not.

What the properties say, in the order of the hazards they answer:

- `DeliveryIsKept`: the refinement of `Delivery` (section 4), the outbox's whole
  promise.
- `NoSilentDetach`: once the key is quiet, every object detached although its deletion
  stands has a durable record.  It is checked for the query-flag scope.
- `DetachIsRecorded`: a settlement records a detach its answer reports when the
  operator's deletion stands at that moment, wherever its authority is by then.  The
  per-object scope promises no more than this: with a backfill in flight, a route that
  is re-owned and deleted again only after the settlement was detached while it was
  owned, and its second deletion finds nothing to remove (`_pending_deletions` counts a
  revoked deletion as none).
- `UnownedIsNeverRetracted`: an un-owned object stays on the device; one run per
  marking mode, since the two reach it by different algebra.
- `DeletionAuthorityIsKept`: while the store holds a deleted route, some home holds
  its authority.
- `ConsumedRowsNameTheLiveClaim`, `OneOperationPerSequence`, `RetiredOnlyWhenAccepted`:
  the compare-and-set protocol.
- `ReownershipStopsTheSend`, `CompactionKeepsTheFold`: what leaves, and what compaction
  may rewrite.

### Bounds

Content 0 stands for "not owned", so `BoundsAssumption` keeps it out of the refused
contents (`BadGens`).  `MaxGen`, `MaxEntries`, `MaxSeq`, `MaxEpoch` and `MaxSource` cap contents, rows,
sequences, mapping changes and source-epoch changes.  Three rows and three
sequences are what the interesting histories need: a first delivery, a second
operation that is lost or refused, and a third that meets what the second left
behind; deletion and re-ownership of an acknowledged route need four rows, which
`outbox_revoke` has.  `outbox_query` has two sequences: a batch is
delivered and the next one folds what the first left.  One route is enough where the
property is about one operation's life or one route's history; two are needed where
contributions of different routes fold together.  One mapping change is enough to make an operation
stale.  A mutant of the code breaks every property under the very bounds of its run.

Events that a run leaves out, and why:

- `degrade` (the adapter answers an authorised deletion with a detach) is only in
  `outbox_links`.  `send_claim` scans for revocations whether or not the claim is a
  replay, so an applied operation may be abandoned and its degraded answer with it;
  `NoSilentDetach` is checked without the event.
- `expire` (a lease that runs out while its holder lives) is only in
  `outbox_two_workers`.  A robbed sender may transmit after a re-ownership, so
  `ReownershipStopsTheSend` is checked without it; `drain.py` excludes it by
  `LEASE` (10 minutes) over `SEND_DEADLINE` (2 minutes).
- `crash` is in `outbox_two_workers` and `outbox_restore`; in the other runs a lease
  whose holder fell idle without an outcome cannot arise.  A worker that takes no
  further step is a behaviour of every run, so what a crash adds there is the takeover.
- the two workers of `outbox_two_workers` are interchangeable and nothing but safety is
  checked there, so the run takes them as a symmetry set.

### Fairness

`FairSpec` assumes what the scheduling gives.  The tick claims every pending key
(weak fairness of a non-forced claim in the modes a drain may choose); leases run
out; a worker reaches some outcome within its deadline.  A send, the answer to a
request its sender waits for and the conclusion of an answer may fail any number of
times but not for ever (strong fairness).  Nothing makes operators act.  Inexact
acknowledgements are not in that run: the adapter's receipt would repeat one for
ever, and the code has no way out but an operator.

## 4. What the outbox and the gate promise: `Delivery` and `FleetGate`

`Delivery` is the outbox without rows, sequences, workers or receipts: the owned intent,
the store and whether something is owed.  A write leaves a debt at once; a request lands
only while there is one; the debt is paid only when the store *is* the intent; a store
that is replaced starts empty and in debt.  `IntentOutbox` implements it under

| `Delivery` | `IntentOutbox` |
|---|---|
| `wanted` | `intent` |
| `held` | `far.held` |
| `owed` | not `Quiet` (rows, queued authority or a claim pending, a worker busy, the baseline untrusted, an incarnation or a link to be adopted), or the rendered intent is one that validation refuses, or an operation that may land was given up and nothing settled since (`far.astray`, section 10) |

so `DeliveryIsKept` says more than "quiet means delivered": no late, replayed or abandoned
request changes the store of a key that owes nothing, and no write can be quiet.  Paying
is one step of a worker that has to be right about everything that happened before:
retired rows, unchanged claims, abandons, rebuilt stores.

`FleetGate` is the deployment gate without locks, commands or rows: sessions are admitted
while the gate is open, and it closes over an idle fleet only.  `DeploymentGate` implements
it with `closed` the presence of the control row and `admitted` the sessions inside an
operation or a mutation.  TLC checks both refinements; TLAPS proves both (section 9).

## 5. `OutboxRestore`

`IntentOutbox` with a backup and the command `nso_intent_restore`.  `TakeBackup` remembers
the database; `Rewind` brings it back, sequence included, while the adapter (`far`) stays.
`Walk` burns sequence values in batches towards the adapter's watermark
(`advance_push_seq`); then one step resolves the restored claim against the key's receipt,
one action per verdict of `resolve_restored_claim`: `NothingToResolve`, `Replay`, `Rebase`,
`SettleFromReceipt`, `FailClosed`.

- `RestoreResolves`: with the gate open again no number the adapter has seen can be handed
  out and the restored claim can be answered.  The command fails closed only over a gap
  beyond `MAX_RESTORE_GAP`, a claim without an adapter device, or an answer that was not
  exact; that a receipt under the claim's number could be another body's, which the code
  also refuses, never happens.
- `EventuallyDelivered`: under fairness, once operators stop nothing stays owed and the
  store holds the intent.  The exception the property names is the code's: a restored
  database whose last operation was later overtaken owes nothing, so the adapter keeps
  the newer content until the next write of that key.

Bounds and assumptions: NetBox is stopped when the backup is loaded (workers idle, no
request on the wire), it happens once, and the mapping is the one of the backup.  The
global watermark is at least the key's receipt; with one key it is the receipt.  A batch
of 2 and a widest gap of 3 make the walk take one step, several, or fail.  The route-id
walk and `clear_acknowledged_lineage` touch state that `IntentOutbox` abstracts.  Nothing else
allocates sequence values while the command walks (the gate is closed); that `advance_push_seq`
would also tolerate an allocation beside it, being made of `nextval` alone, is not exercised.  Fairness
is that of section 3 while the gate is open, and the command runs to its end.

## 6. `DeploymentGate`

The switch that keeps intent work and a code deployment apart: one advisory-lock key
and one control row.  Sources: `deployment.py`, `deployment_probe.py` 33-68 and the
three management commands.

| Variable | Code |
|---|---|
| `control` | `NSOIntentDeploymentControl`: `quiesced_at` (`at`, 0 when there is no row), `paired_activation`, whether `verification_attempt` is set (`probe`) |
| `clock` | the clock `quiesced_at` is stamped from, one tick per gate |
| `holder`, `waiting` | the exclusive advisory lock and its queue in `pg_locks` |
| `ses[s]` | where a session stands in `operation()` or `lock_mutation()`, its nested operations and the shared locks it holds |
| `cmd[c]` | where an invocation stands, what it came to do under the lock (`task`), the gate it created and the gate it verifies |

`shares` is kept beside `ops` so that a forgotten or doubled unlock is a different
state.  Every lock attempt, every test and every commit is a step: a session tries
for its share, then looks for a waiting activation, then reads the row; a command
queues, is granted, commits, unlocks.  `lock_mutation` also looks for a waiting
activation before its try.  A shared try fails behind a queued exclusive request
unless the session has a share already, as PostgreSQL grants them.

| Command | Path |
|---|---|
| `--prepare [--paired-activation]` | `Start`, lock, `Quiesce`, `Unlock`, then `PreparePasses` or `PrepareFails`; a failure comes back to the lock to release an ordinary gate of its own |
| `nso_intent_restore`, `nso_renderer_baseline_cutover` | the same (program `restore`), released on success instead |
| `--abort`, `--verify` | `Start` reads the mark without the lock: `Resume...` or `BeginVerification` for an ordinary gate, else as `--resume` |
| `--resume` | `TryGate`, then `AuditPasses` or `AuditFails` |
| imports, accepts, store preparation | `TryGate`, `MaintenanceEnds` (program `maintenance`) |
| `--start-probe`, `--register-probe` | `TryGate`, `RegisterProbe`, `MaintenanceEnds` (program `probe`) |
| `--revoke-probe`, the probe job | `PermitEnds` |

Abstractions: the wait for old clients, the blockers, the evidence of a paired
verification and the verification push are outcomes that may go either way; one probe
attempt exists; an import with a permit outstanding fails at its try.  A session's
refusal that changes nothing is no step.

| Run | Instance | Shows |
|---|---|---|
| `gate` | 2 sessions nesting to depth 2, 3 commands of any kind, timeouts and deaths | `FleetGateIsKept` (the refinement of `FleetGate`), `VerificationCoversTheGate`, `PairedGateNeedsItsVerification`, `NobodyElsesGateIsReleased`: three commands are one that owns a gate, one that replaces it and one that acts on what it read earlier |
| `gate_liveness` | 2 sessions, 2 commands, no faults | `ActivationGetsIn` |

Each command runs once, so gates are as many as commands.  Symmetry permutes sessions
and commands in `gate` only.

Fairness (`FairSpec`): a session carries on with an attempt it began and ends its
mutations (weak); it leaves an operation in the end although it may enter nested ones
that are refused (strong: the code makes finitely many calls); a command carries on
(weak); PostgreSQL serves its queue in order (strong on `Grant`).  Nobody is made to
begin anything.

## 7. `Provisioning` and `Settlement`

### `Provisioning`

Tombstones (`tomb`), management rows (`mgmt`), the adapter's jobs and device rows (`job`,
`node`), onboarding requests (`ob`) and sweeps (`sw`).  Every transaction is an action; the
POST, the unlocked poll and the offboard's two adapter calls are split, with the row locks
the code keeps across them (`Held`, `IntentHeld`).

| Code | Actions |
|---|---|
| `onboard_candidate`: claim, submission, admission, rejection | `ClaimAttempt`, `SubmitClaim`, `Post`, `AdmitAttempt`, `CloseRejected`, `ReconcileRejected`, `OperatorDies` |
| the adapter | `LateRequestLands`, `JobBuilds`, `JobEnds` |
| `ProvisionCompleteView` | `Callback` |
| `sweep_provision_tombstones` | `Poll`, `RecordPoll`, `AgeOut`, `Complete`, `Lookup`, `Offboard`, `CloseOffboarded`, `FindClosed`, `Abandon` |
| Quick Manage, the link after a row's save, unmanage | `ManageExisting`, `LinkRow`, `Unmanage` |

| Run | Instance | Shows |
|---|---|---|
| `provisioning` | 2 devices of one NSO name, 2 attempts, an operator, a fleet sweep with one inventory and a sweep that races it, requests lost, late, refused, denied, one outage, age-out | `ProvisioningRowIsTracked`, `EvidenceFitsTheRow`, `SweepSparesTheOwner`, `OffboardLeavesNothing` |
| `provisioning_liveness` | 1 device, 2 attempts, a fleet sweep with one inventory, crash, outage, age-out | `EveryAttemptCloses` unless another identity's row blocks it |

A racing sweep and every fault draw on one budget (`MaxFaults` = 1); Quick Manage and
unmanage on another (`MaxMoves`).  Two attempts are what yielding, re-onboarding and
partial matches need.  Fairness: the cadence sweep visits attempts in rotation, so the
work on each goes on (strong: a visit may find nothing to do), the adapter ends its jobs
and a request worker finishes.

- `EvidenceFitsTheRow`: a row is completed or failed by its own evidence.  `Applies` compares
  the job ids as the code does, blank ones included, so the property also says which failure a
  row without a job may carry (`FailedBy`): that of an attempt of its device and name that aged
  out before any job was known.
- `OffboardLeavesNothing` speaks of attempts with a verdict: an aged-out attempt may still be
  in flight.  The fleet sweep keeps the inventory it read for its first attempt, as the cadence
  job does, and the property names the one case in which that loses a row (`Unseen`, section 10).
- `SweepSparesTheOwner` speaks of the attempt's own device: a sweep with a kept inventory may
  delete a row that a Quick Manage of another device linked meanwhile.

### `Settlement`

One device's feed (`jobs` per adapter device and store), the management row's cursor, stall
and diagnostic (`row`), the executions (`exec`), the issue revisions (`issues`) and one
pass per worker, read by read and transaction by transaction.

| Code | Actions |
|---|---|
| `consume_static_route_settlements` | `Begin`, `ReadEvidence`, `LockPage`, `Prepare`, `Commit`, `Check`, `ClearResume`, `Diagnose` |
| `publish_stall_issue`, `retire_open_issues` | `Publish`, `Record`, and the retirement inside every cursor write |
| `acknowledge` | `Acknowledge` |
| the adapter and the mapping | `JobLands`, `ItemFlips`, `RowFlips`, `Rebuild`, `Remap`; `Abort` is a dead worker |

| Run | Instance | Shows |
|---|---|---|
| `settlement` | 2 passes, an operator, 2 jobs (one from before the ledger), a rebuild or a source re-key, one change of evidence | `OpenIssueIsTheDiagnostic`, `ReleasedStallIsNotShown`, `ResolvedIsSettled`, `DecidedOnce` |
| `settlement_feed` | 1 pass, 2 jobs, 2 mapping changes or one and a rebuild, one death, pages of 1 | `CursorPassesOnlyDecided`, `EveryHeadIsDecidedOrShown` |

A job is readable or not, in the feed and in the generation listing, and may surface in the
listing late; that is what the stalls distinguish.  `Remap` always moves the mapping epoch and shares its bound with `Rebuild` (`MaxMoves`);
superseded revisions are dropped; an apply job carries one generation.  A stall of a store that
was rebuilt since is not looked up in the new store's feed, whose jobs are other jobs.  Local-reference
refusals of an acknowledgement, admissions without a carrier, truncated listings and
backlogs beyond one listing are left out.  Fairness: the sweep keeps selecting a candidate
and a started job runs on; `EveryHeadIsDecidedOrShown` is a recurrence because a repair
may make a shown head decidable again.

## 8. `DeviceReads`

How a family document becomes overlay state.  `adapter` holds what can be read, `worker` a
document with its decision and plan, `tab` what the device page fetched, `mgmt` and `rows`
what the gate works on, `owner` and `apply` one overlay row with its fence and its captured
Apply.  `mirror`, `blanked` and `noticed` are history; the fence of a re-key through this
plugin begins `mirror` anew, since what was written is then no longer of this device's source.

| Code | Actions |
|---|---|
| `_gate_and_record`, branch by branch | `GateSkips`, `GateRunsLegacy`, `GateRefusesStore`, `GateRefusesSource`, `GateSkipsStale`, `GateAdmits`, `GateObserves` |
| `gated_family_run` | `Fetch`, `Plan`, `CaptureToken`, `Publish`, `Superseded`, `BodyFails`, `MarkError` |
| `observe_aggregate` of the device page | `TabFetches`, `TabObserves` |
| status machine, Apply and its settlement | `Accept`, `Edit`, `Release`, `ApplyStarts`, `ApplySettles` |
| a re-key of the source, a relink | `RekeyMarks`, `RekeyFences`, `RekeyCalls`, `RekeyFails`, `RekeyEnds`, `Relink` |
| the adapter | `Refresh`, `SourceMoves`, `Rebuild`, `Downgrade` |

| Run | Instance | Shows |
|---|---|---|
| `reads` | 2 families, 2 workers, 3 stores of which two share a birth time, 3 documents, 2 events | `BlankRowsAreMarked`, `UnwarnedIsCurrent`, `InSyncWasSettled`, `OverlaysNeverGoBack`, `AmbiguousStoreIsNotAdopted` |

`NoWarning` is the absence of a chip as `category_read_chip` decides it, for a row that no read
speaks for as well.  `UnwarnedIsCurrent` says what such a category may still show: overlays that
were never written, that a document without an order began anew, or that are of an earlier
link; over a read it shows exactly the current one.

The kinds of events of one behaviour come in the pairs of `MCScenarios` (an owner's edits
with refreshes, a rebuild or a moved source with the device page, a re-key with somebody
else's or with a rebuild, a relink with an old adapter); all of them at once is out of TLC's
reach, and the proofs of section 9 do not need the pairs.  Overlay events start from a device
that has been read, and an adapter without source epochs is explored where sources move.  A dead worker is one that takes no further step, so nothing
is assumed of when a document arrives.  An attempt number stands for the payload revision.
Left out: documents without an attempt or a birth mark, `publish_applied=False`, plans
whose content changes under the same revision, the re-key of a device the adapter does not
know and a second concurrent re-key.

## 9. Proofs

Theorems about six parts of the system and two refinements, each from the named assumptions
of its module and for every value of the constants; where a theorem asks for more, it says so
in its statement and the paragraph here says why.  The runs check the same properties on small
instances, and the inductive invariants were checked by TLC before they were proved.

`IntentOutboxProofs`:

- `TypeInvariant`: `Spec => []TypeOK`, one lemma per group of actions.
- `RowsAreNeverStranded`: `Spec => []ConsumedRowsNameTheLiveClaim`.  Inductive with
  `TypeOK`: only `Form` writes a sequence into a row, and only when no claim lives.
- `SequencesNameOneOperation`: `Spec => []OneOperationPerSequence`, the strengthening
  that makes the next one inductive: the live claim holds the youngest sequence, and
  every worker, request and receipt under it says what the claim says.
- `LiveClaimIsAlwaysAnswerable`: `Spec => []LiveClaimIsNeverRefused`, its corollary.

They rest on the assumptions `RoutesAssumption`, `ModesAssumption` and
`BoundsAssumption` of the module, which type its constants.

`DeliveryProofs`, on top of them:

- `DeliveryInvariant`: `Spec => []OutboxInv`.  What has to be true for a worker to pay a
  debt without asking: which requests may still land, what an answer in a worker's hands
  proves, what the last acknowledged identity says of the store (`BaselineStep`), and that
  an un-quiet key is the only one whose store can still change.
- `OutboxDelivers`: `Spec => DeliveryIsKept`, the refinement of `Delivery`.  Steps are
  sorted into kinds by what they do to the debt (writing, forming, answering, applying,
  settling, retiring, abandoning, straying, offboarding, rewriting the mapping), one lemma per
  kind; `PaidStep` carries "what owes nothing is delivered" and `PromiseStep` maps each
  kind to a step of `Delivery` or a stutter.
- `RowsLeaveOnlyWhenAccepted`: `Spec => RetiredOnlyWhenAccepted`.

The attempt to prove the refinement found the hole of section 10 that `far.astray` marks:
without it the invariant is not inductive, and TLC confirms the behaviour with two routes.

`OutboxAuthorityProofs`, on top of that, is about deletions and un-owns: where the authority
for a deletion is, and what an operation may do to a route that is owned or was released.

- `CompactionIsExact`: `Spec => CompactionKeepsTheFold`.  `LastOp(E, r)` is the operation that
  the youngest row of `E` naming `r` records; a fold, a deletion's authority and a withdrawal are
  functions of it (`Rows`), and compaction changes none of the three.
- `OutboxHistoryAgrees`: `Spec => []HistoryInv`.  `RowInv` (keys are unique, a claim consumes
  every row there is) and what the last word of rows and claim says of a route's history.
- `AuthorityIsTracked`: `Spec => []TrackInv`.  A deletion that stands waits in a row or the
  queue, is in the live claim, which does not render the route, or is used up: `Gone(r, n)` says
  that the store lacks `r` and no operation up to the number `n` brings it there
  (`AuthorityInv`).  A claim of an older mapping meets a blank store (`BlankInv`); what the live
  claim finds in the store of a deletion that stood when it was formed is authorised by it, or
  is what a backfill may remove (`ReachInv`); a detach under a live claim is one that its
  settlement records (`LostInv`, `OutInv`), and is on record afterwards (`RecordInv`).
- `AuthorityIsKept`: `Spec => []DeletionAuthorityIsKept`; `NoDetachIsSilent`:
  `Spec => []NoSilentDetach` where no object is named; `DetachmentsAreRecorded`:
  `Spec => DetachIsRecorded`.
- `StandingRoutesAreNotDeleted`: `Spec => [](StandsInv /\ DelsInv)`.  A row, the queue or a claim
  names an owned route only under a re-ownership that waits, and no operation that may still
  reach the store deletes what it renders or what was released when it was formed.
- `UnownedIsKept`: `Spec => []UnownedIsNeverRetracted`, per object from `DelsInv`; where no object
  is named, from `MarkInv`: a marked operation finds nothing that was un-owned before it.
- `NothingOwnedIsSentForDeletion`: `Spec => ReownershipStopsTheSend`, with `AtWorkInv`: the one
  worker at work has the live claim, so the scan of the key's rows speaks for what it sends.

Each step is shown to be of one of a dozen kinds, by what it does to the rows, the queue, the
claim, the operations on their way and the store; the invariants are kept kind by kind.  The
hypotheses are events and bounds under which these properties are true of the code, and every
run that checks one of them satisfies its theorem's:

| Hypothesis | Of | Why |
|---|---|---|
| `Tracked`: no store is rebuilt under a key | `AuthorityIsTracked` and its three corollaries | a sender whose lease ran out may write an older claim into the blank store, which then holds a route whose authority was used up |
| `Tracked`: no source moves, where no object is named | the same | a source move abandons a claim that the adapter may have applied (`far.astray`, section 10) |
| `Unfaulted`: no body is refused, no accept over a pending deletion | `StandingRoutesAreNotDeleted`, `UnownedIsKept`, `NothingOwnedIsSentForDeletion` | section 10 |
| no offboard, and `Tracked`, where no object is named | `UnownedIsKept` | a mark does not say whose deletion it carries |
| no lease expires, no offboard | `NothingOwnedIsSentForDeletion` | a sender may hold a claim that is no longer the key's, for which the scan does not speak |

`OutboxRestoreProofs`, on top of `IntentOutboxProofs`, for a backup taken at any time, any
batch and any widest gap:

- `RestoreInvariant`: `RestoreSpec => []RestoreInv`.  `SavedInv`: everything that is said under
  the number of the backup's claim, by the key, a worker, a request or the receipt, is said of
  that claim, however far the live key goes on after the backup.  `ResolveInv`: while the
  command works nothing else does, a claim that the walk has left behind was overtaken, and a
  receipt under its number is its own.
- `RestoresResolve`: `RestoreSpec => []RestoreResolves`.

A backup may be old, so "a sequence names one operation" is needed of numbers that no claim
holds any more.  `NextMoves` gives it: no step of the outbox holds, sends or records a claim
that was not there, but for a new one under a new number.  These proofs rest on
`RestoreAssumption` and the assumptions of `IntentOutbox`.

`ProvisioningProofs`, for any devices, names, operators, sweeps, attempts and faults:

- `ProvisioningInvariant`: `Spec => []ProvisioningInv`.  `BornInv`: whatever names an
  attempt names one that was claimed, and numbers follow the order of the claims.
  `LockInv`: no attempt has two holders; a submission's attempt stays open; over the whole
  of an offboard its attempt stays terminal, its device has no management row and no open
  attempt has its name.  `EvidenceInv`: a poll and a verdict say of the job what the adapter
  still says.  `NodeInv`: an adapter id is one name's, in rows, receipts, tombstones, sweeps
  and inventories alike.  `RowInv`: a row's job is an attempt of the row's device.
- `ProvisioningTypes`, `WaitingRowsAreTracked`, `EvidenceIsItsOwn`: the run's three
  invariants.  `WaitingRowsAreTracked` needs `LockInv`: an offboard that could meet a waiting row
  would strand it.  `EvidenceIsItsOwn` adds `FailedInv`, that a failed row has the closed attempt that
  failed it: `RowsTold` shows that what tells a row something is the evidence of an attempt
  it fits, `FailuresKeep` that nothing takes that evidence away.
- `SweepsSpareTheOwner`: `Spec => SweepSparesTheOwner`, from `LockInv` and `NodeInv`.
- `MakersAreKnown`: `Spec => []MakerInv`, and `OffboardsLeaveNothing`:
  `Spec => OffboardLeavesNothing`.  `MadeInv`: the maker of an adapter row is an attempt of its
  name whose receipt names no other row.  `VerdictInv`: what ended an attempt that was not aged
  out is the adapter's last word on it.  `SweepKnows`: from the lookup to the delete, while the
  attempt's lock is held, an unowned row of the attempt's making is the one the sweep has in hand.
  Both speak of fleet sweeps with their kept inventory too.  `InventoryInv`: a row that still stands
  may have found an owner since the inventory was read and has lost none, so what the inventory
  shows suffices; a row it does not show is `Unseen`, and only an attempt whose evidence named no
  row can leave it behind (section 10).

`Goes` says how one tombstone may move, and every step other than a claim is shown to be a
move of at most one of them (`TombstonesMove`); `LocksStay`, `EvidenceStays`, `NodesKeep` and
`RowsKeep` say what a step must observe to keep each part.  They rest on
`NodeNameAssumption`, `BoundsAssumption` and `NoRowAssumption`.

`SettlementProofs`, for any passes, devices, jobs, stores, page size and bounds:

- `SettlementInvariant`: `Spec => []SettlementInv`.  `WalkOK`: a walking pass stands where
  its fence says, and while the store it read is the adapter's, each carrier in its hands is
  the next job of that feed with the kind the feed gives it.  `CommitOK`: between `Prepare`
  and `Commit` a carrier prepared as released is released by an acknowledged issue, and one
  that was not can only have been acknowledged since at the price of the fence.  `AckInv`: an
  acknowledged execution has its issue.  `StallOK`: a revision on its way to `Record` is of
  the stall and fence it was decided for.  `CursorInv`: the cursor is never of a younger store
  than the adapter's.
- `CursorNeverSkipsAJob`: `Spec => []CursorPassesOnlyDecided`.
- `DispositionsAreFinal`: `Spec => DecidedOnce`.
- `OfferIsTheDiagnostic`: `Spec => []OpenIssueIsTheDiagnostic`; `SettlementTypes` is
  `Spec => []TypeOK`.

The argument turns on fences that never come back.  `Ahead` orders them (mapping epoch,
then the cursor's store and device, then its sequence) and every step leaves the row's fence
equal or ahead, although the device may be mapped away and back and the store rebuilt.  So a
commit whose fence still matches knows that nobody acknowledged its carrier since it was
prepared.  The proofs rest on `SettlementAssumption`, `NoneAssumption` and
`LandingsAssumption`.

A second part of that module is about what passes, stalls, revisions and acknowledgements know of each
other:

- `IssuesInvariant`: `Spec => []IssueInv`.  `OfferInv`: a revision on offer was published
  under the cursor that stands, is of the next job of its feed or of one behind the cursor, and
  names the kind that the feed and every pass that carries the job give it; nobody else has
  acknowledged its next job.  `ReleaseInv`: an acknowledged revision took its fence, or decided
  the execution it saw.  `DiagInv`: a stall shown knows of everything acknowledged under its
  fence (`StallSound`), except of a generation that surfaced since.  `IssueOK` says the same of
  what a pass has in its hands: a read of its own store, no job beyond a short page, a history
  behind its cursor that is certified, a stall and a revision that are still true.
- `ResolvedIssuesAreSettled`: `Spec => []ResolvedIsSettled`.
- `ReleasedStallsStayHidden`: `Spec => []ReleasedStallIsNotShown`.

The argument: a stall can only come back by a pass that began before the acknowledgement.
Acknowledging the next job takes the fence, so what such a pass found is of a fence that never
comes back; acknowledging a job behind the cursor decides its execution, so no listing stalls
on it again, unless nothing was listed when the operator looked.  That exception is the
consequent of the property.

`DeviceReadsProofs`, for any families, workers, stores with any birth times, reports and
bounds, and for any mixture of events:

- `ReadsInvariant`: `Spec => []ReadsInv`.  `GateInv` speaks of each family: its admission is
  of the current link, store and source (`RowOK`), and its overlays were written from that
  admission, or from something of the same epoch that is no newer, or from an epoch that the
  management row has passed (`MirrorOK`); a wiped family is marked (`BlankInv`).  `NoticeInv`
  speaks of the markers: a store that was noticed is not adoptable, or is the pending one, or
  is older than that.  `RekeyInv`: between the two transactions of a re-key nothing is
  admitted.  `PlanOK`: a plan stands for a row that exists and wants "in sync" only of a row
  that was accepted or in sync when it was read.
- `ReadsTypes`, `BlankRowsCarryAMark`, `UnwarnedMeansCurrent`, `InSyncMeansSettled`: the four
  invariants of the run `reads`.  `UnwarnedMeansCurrent` needs `SeenInv` beside `ReadsInv`: a row
  that a read speaks for is of the adopted store, and one that none speaks for is wiped and still
  marked, or its overlays are of an earlier link, or it has none.
- `OverlaysKeepUp`, `TiedStoresAreRefused`: its two action properties.

Each operator of the gate has a lemma (what a reset, an adoption, a source epoch, an
admission, a ratchet and the clearing of a marker keep), and each branch of `_gate_and_record`
is shown to be a composition of them.  `EpochPasses` is the core of the argument: an adopted
store is younger and an adopted source is later, so whatever was written before has been
passed for good.  The device page folds its documents with a recursive function; `Least`, the
least-number principle, gives both that the function exists (`ObservedExists`) and that what
holds of one document holds of all of them (`ObservedKeeps`).  The proofs rest on
`FamiliesAssumption`, `BornAssumption`, `ScenariosAssumption`, `BoundsAssumption` and
`NoneAssumption`, which says that "no row" is neither a row nor a source epoch.

Two attempts failed first, and TLC confirmed each on wider bounds; the properties say so since
(section 10): ties are remembered for the youngest pending store only, and a re-key records
the number of its new source without the store that numbered it.

`DeploymentGateProofs` proves for any number of sessions, commands and nested
operations, and for any programs and faults:

- `TypeInvariant`: `Spec => []TypeOK`.
- `GateStopsWork`: `Spec => []NoWorkUnderTheGate`.  The property alone is not
  inductive: a session in the middle of an attempt will work unless its share keeps
  `Quiesce` out.  `IInv` adds that every operation and every attempt past its try has
  its share (`SharesAreKept`), that a command in a place that needs the lock is the
  one that has it (`HolderIsAtWork`) and that the exclusive lock excludes every share
  (`LockExcludes`).
- `GateImplementsFleetGate`: `Spec => FleetGateIsKept`, the refinement of `FleetGate`.
  `GateStopsWork` gives the idle fleet that `Close` asks for, `OneSessionMoves` that a step
  admits or dismisses one session.
- `VerificationIsCovered`: `Spec => []VerificationCoversTheGate`, from
  `PushKnowsItsGate`: only the holder of the lock changes the row a verification read.
- `PairedGateIsKept`: `Spec => PairedGateNeedsItsVerification`, an action property;
  `WhoChangesTheGate` lists the steps that touch the row.
- `OthersGatesAreKept`: `Spec => NobodyElsesGateIsReleased`, an action property; `ErrandsFit`
  adds that what a command does under the lock is what it was started for.

Two lemmas carry the induction: `SessionStepKeeps` and `CommandStepKeeps` say what a
step has to observe to keep `IInv`, and each action is shown to observe it.  They rest
on `ProgramsAssumption` and `NoCommandAssumption`.

Only model-checked:

- liveness (`ActivationGetsIn`, `EveryAttemptCloses`, `EveryHeadIsDecidedOrShown`,
  `EventuallyDelivered`), which is out of the prover's reach, as are `ENABLED` and induction
  over data beyond a least counterexample of a named property.

Every run satisfies the hypotheses of the theorems about the properties it checks.

## 10. Where the code does less than its words

Met while modelling; each is kept out of the runs by the named restriction.

- An accept over a pending deletion records no re-ownership (`views.py` 6756), although
  `revoke_transition` is said to withdraw pending authority: the next body owns the route
  and carries authority to delete it (event `accept_over_pending`).
- `send_claim` abandons on a revocation hit whether or not the claim is a replay (`drain.py`
  922), although `abandon` is "legal only before the send or on a proven-no-effect response"
  (`drain.py` 1334) and the gate's command says of a takeover replay "it may be sent already,
  so release it and never abandon it" (`nso_intent_deployment_gate.py` 377).  A source-epoch
  change abandons an applied claim the same way.  If the adapter has applied the operation,
  or applies it later, an edit back to the acknowledged content is dropped as unchanged
  (`drain.py` 604) while the adapter holds the other body, until the next write.  `far.astray`
  marks such a key and `Delivery` counts it as in debt until a settlement.
- A refused body retires an un-own's row (`drain.py` 1746); the next deletion, alone in its
  contribution, is marked and retracts the un-owned object (`BadGens` is empty in
  `outbox_query`).
- A failing restore reports a closed gate without reading it (`nso_intent_restore.py` 24).
  One that joined a preparation's gate loses it when the preparation releases what it
  created.
- A relink leaves `reset_pending_source_epoch` alone: a pending epoch above the new
  adapter's makes every later read stale, and one below it is never cleared.  Rows blanked
  by the relink carry no marker of their own and show no chip, so overlays of the old link
  stand without a warning until a read of the new one (`summary.py` 330-333).  Nor is there a
  chip for a row that a document without an order wiped, or for a family without a row on a device
  that never adopted a store (374-381).  `UnwarnedIsCurrent` excepts these by name.
- Of two stores with one birth mark neither is to be adopted, but the markers keep the youngest
  pending store and the highest collision only (`read_gate.py` 590).  Once a younger store has
  been noticed, an older one that ties with another noticed store is adopted when its document
  comes (`AmbiguousStoreIsNotAdopted` excepts that case; it takes four stores).
- A re-key stores the answered source epoch without the store that numbered it (`signals.py`
  740).  If the store was rebuilt before the call and no read has told the plugin, the row names
  the old store with the new store's number, and a late document that the old store handed out
  under the same number, of the source before the re-key, is admitted until a read of the new
  store arrives.  `OverlaysNeverGoBack` therefore begins a new history at the re-key.
- A document of an old adapter wipes the admission, so an older document that a worker still
  holds may be admitted after it.
- "No match means it is already absent" (`provision_lifecycle.py` 381), but a fleet sweep looks
  every attempt up in the inventory it read for the first one (`provision_lifecycle.py` 354).  A
  job that builds its row after that read and fails without naming it is looked up in the old
  inventory: no match, the attempt is closed as offboarded, and its row stays at the adapter.
  `OffboardLeavesNothing` excepts exactly that case (`Unseen`), in the run and in the theorem.
- The terminal evidence of an attempt goes to the row whose job it is, but two blank job ids
  are equal (`provision_lifecycle.py` 267-272; both default to "" in `models.py` 654 and 3257).
  An attempt that aged out before a job was known therefore fails a row that Quick Manage
  made meanwhile for the same device and name (`_apply_terminal_evidence`, 416-442), although the
  row waits for no provisioning.  `FailedBy` names that case.
- `_fail_untracked_provisioning` is unreachable by `ProvisioningRowIsTracked`, a backstop.
- Nothing in the database makes (NSO instance, device name) unique, and Quick Manage tests it
  before it writes.

## 11. Not modelled

The reconcilers, projections, differences, views, forms and serializers parse, compare and
present inside one transaction; the refusal protocol is a generated validator; authorization
decides one request; the adapter client is I/O whose failures are outcomes of the sends.
Together they are most of the implementation's lines, which is why the map covers the
protocol modules densely and the package thinly.

Of the protocols: lineage triples (`outbox.py` 199) and `clear_acknowledged_lineage`; the
manifest life cycle of the ownership planner beyond what it appends; the permits and lock
ranks of the exact writer; the rotation of link repair; switching preparation; the join of a
certified outcome to every overlay's bookkeeping.  Keys are independent in the drain but for
the order in which a tick visits them (`drain_candidates`), which the fairness of the claim
stands for.
