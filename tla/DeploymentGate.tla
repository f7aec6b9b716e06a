--------------------------- MODULE DeploymentGate ---------------------------
(***************************************************************************)
(* The fleet-wide deployment gate (deployment.py): PostgreSQL advisory     *)
(* locks and one control row that keep intent work and a code deployment   *)
(* apart.  Sessions run guarded operations and intent mutations under      *)
(* shared locks they only try for; commands (nso_intent_deployment_gate,   *)
(* nso_intent_restore, nso_renderer_baseline_cutover) change the row under *)
(* the exclusive lock, which most of them wait for.                        *)
(*                                                                         *)
(* Each test, lock and commit of the code is a step of its own.  A failed  *)
(* try that changes nothing is no step.  "restore" stands for the cutover  *)
(* too: the two commands treat the gate alike.                             *)
(***************************************************************************)
EXTENDS Naturals, FiniteSets

CONSTANTS
    Sessions,   \* database sessions that run intent work
    Commands,   \* invocations of the management commands, each run once
    Programs,   \* what an invocation may be, a subset of AllPrograms
    Events,     \* {"timeout", "death"}: the faults that may strike
    MaxDepth,   \* bound: guarded operations nested in one session
    NoCommand   \* nobody holds the exclusive lock

AllPrograms == {"prepare", "prepare_paired", "restore", "verify", "abort",
                "resume", "maintenance", "probe"}

ASSUME ProgramsAssumption == Programs \subseteq AllPrograms
ASSUME MaxDepthAssumption == MaxDepth \in Nat \ {0}
ASSUME NoCommandAssumption == NoCommand \notin Commands

VARIABLES
    control,    \* the control row; at = 0 when there is none
    clock,      \* the latest quiesced_at handed out
    holder,     \* the command that holds the exclusive lock
    waiting,    \* commands queued for the exclusive lock
    ses,        \* each session's position, nested operations and shared locks
    cmd         \* each command's position and what it remembers

vars == <<control, clock, holder, waiting, ses, cmd>>
locks == <<holder, waiting>>
gate == <<control, clock>>

NoGate == [at |-> 0, paired |-> FALSE, probe |-> FALSE]

SessionPlaces == {"idle", "joining", "checking", "working",
                  "asking", "rejoining", "rechecking", "writing"}
CommandPlaces == {"ready", "asking", "waiting", "holding", "committed", "raised",
                  "waiting_out", "maintaining", "pushing", "trying", "auditing",
                  "done", "failed"}
Tasks == {"none", "quiesce", "release", "abort", "verify"}

Init ==
    /\ control = NoGate
    /\ clock = 0
    /\ holder = NoCommand
    /\ waiting = {}
    /\ ses = [s \in Sessions |-> [pc |-> "idle", ops |-> 0, shares |-> 0]]
    /\ cmd = [c \in Commands |-> [pc |-> "ready", prog |-> "abort", task |-> "none",
                                  created |-> 0, seen |-> 0]]

-----------------------------------------------------------------------------
(* The lock, as PostgreSQL grants it. *)

\* A shared try fails while the lock is held or asked for exclusively, unless
\* the session already has a share of it.
CanShare(s) == holder = NoCommand /\ (waiting = {} \/ ses[s].shares > 0)

Unshared == \A s \in Sessions : ses[s].shares = 0

\* An exclusive try that does not wait.
LockFree == holder = NoCommand /\ waiting = {} /\ Unshared

\* _exclusive_transition_pending
Pending == waiting # {}

\* Where a session stands once an attempt of its own is over.
Back(s) == IF ses[s].ops > 0 THEN "working" ELSE "idle"

SessionStep(s, place, ops, shares) ==
    /\ ses' = [ses EXCEPT ![s] = [pc |-> place, ops |-> ops, shares |-> shares]]
    /\ UNCHANGED <<gate, locks, cmd>>

-----------------------------------------------------------------------------
(* Sessions: operation(). *)

\* The shared try of a new or a nested operation.
EnterOperation(s) ==
    /\ ses[s].pc \in {"idle", "working"}
    /\ ses[s].ops < MaxDepth
    /\ CanShare(s)
    /\ SessionStep(s, "joining", ses[s].ops, ses[s].shares + 1)

\* The refusal of a pending transition keeps the share it took.
AfterJoinKeepsShare(s) ==
    /\ ses[s].pc = "joining"
    /\ SessionStep(s, IF Pending THEN Back(s) ELSE "checking", ses[s].ops, ses[s].shares)

\* A transition that queued behind the new share goes first.
AfterJoin(s) ==
    /\ ses[s].pc = "joining"
    /\ IF Pending
       THEN SessionStep(s, Back(s), ses[s].ops, ses[s].shares - 1)
       ELSE SessionStep(s, "checking", ses[s].ops, ses[s].shares)

\* The row is not read under the share.
CheckNothing(s) ==
    /\ ses[s].pc = "checking"
    /\ SessionStep(s, "working", ses[s].ops + 1, ses[s].shares)

\* The refusal unlocks, and the finally clause once more.
CheckUnlocksTwice(s) ==
    /\ ses[s].pc = "checking"
    /\ IF control.at # 0
       THEN SessionStep(s, Back(s), ses[s].ops, ses[s].shares - 2)
       ELSE SessionStep(s, "working", ses[s].ops + 1, ses[s].shares)

\* is_quiesced() is read under the share, and a refusal gives the share back.
CheckOperation(s) ==
    /\ ses[s].pc = "checking"
    /\ IF control.at # 0
       THEN SessionStep(s, Back(s), ses[s].ops, ses[s].shares - 1)
       ELSE SessionStep(s, "working", ses[s].ops + 1, ses[s].shares)

LeaveOperation(s) ==
    /\ ses[s].pc = "working"
    /\ SessionStep(s, IF ses[s].ops > 1 THEN "working" ELSE "idle",
                   ses[s].ops - 1, ses[s].shares - 1)

-----------------------------------------------------------------------------
(* Sessions: lock_mutation(), and the transaction that called it. *)

AskMutation(s) ==
    /\ ses[s].pc \in {"idle", "working"}
    /\ ~Pending
    /\ SessionStep(s, "asking", ses[s].ops, ses[s].shares)

TakeMutation(s) ==
    /\ ses[s].pc = "asking"
    /\ IF CanShare(s)
       THEN SessionStep(s, "rejoining", ses[s].ops, ses[s].shares + 1)
       ELSE SessionStep(s, Back(s), ses[s].ops, ses[s].shares)

RejoinMutation(s) ==
    /\ ses[s].pc = "rejoining"
    /\ IF Pending
       THEN SessionStep(s, Back(s), ses[s].ops, ses[s].shares - 1)
       ELSE SessionStep(s, "rechecking", ses[s].ops, ses[s].shares)

RecheckMutation(s) ==
    /\ ses[s].pc = "rechecking"
    /\ IF control.at # 0
       THEN SessionStep(s, Back(s), ses[s].ops, ses[s].shares - 1)
       ELSE SessionStep(s, "writing", ses[s].ops, ses[s].shares)

\* The transaction commits or rolls back, and its share with it.
EndMutation(s) ==
    /\ ses[s].pc = "writing"
    /\ SessionStep(s, Back(s), ses[s].ops, ses[s].shares - 1)

\* The session is lost: PostgreSQL drops its locks.
SessionDies(s) ==
    /\ "death" \in Events
    /\ ses[s].pc # "idle"
    /\ SessionStep(s, "idle", 0, 0)

-----------------------------------------------------------------------------
(* Commands: exclusive_transition(). *)

Goto(c, place) == cmd' = [cmd EXCEPT ![c].pc = place]

\* An invocation starts.  --abort and --verify read the paired mark without the
\* lock and pick the paired verification by it; --resume and the maintenance
\* actions try the lock at once.
Start(c, p) ==
    /\ cmd[c].pc = "ready"
    /\ LET paired == \/ p \in {"resume", "maintenance", "probe"}
                     \/ p \in {"abort", "verify"} /\ control.paired
           task == IF paired THEN "none"
                   ELSE IF p \in {"abort", "verify"} THEN p ELSE "quiesce"
       IN  cmd' = [cmd EXCEPT ![c].pc = IF paired THEN "trying" ELSE "asking",
                              ![c].prog = p, ![c].task = task]
    /\ UNCHANGED <<gate, locks, ses>>

\* pg_advisory_lock: granted at once, or queued.
Request(c) ==
    /\ cmd[c].pc = "asking"
    /\ IF LockFree
       THEN holder' = c /\ waiting' = waiting /\ Goto(c, "holding")
       ELSE holder' = holder /\ waiting' = waiting \union {c} /\ Goto(c, "waiting")
    /\ UNCHANGED <<gate, ses>>

Grant(c) ==
    /\ c \in waiting
    /\ holder = NoCommand
    /\ Unshared
    /\ holder' = c
    /\ waiting' = waiting \ {c}
    /\ Goto(c, "holding")
    /\ UNCHANGED <<gate, ses>>

\* lock_timeout: DeploymentTransitionTimeout ends the command.
TimesOut(c) ==
    /\ "timeout" \in Events
    /\ c \in waiting
    /\ waiting' = waiting \ {c}
    /\ Goto(c, "failed")
    /\ UNCHANGED <<gate, holder, ses>>

\* Where a command goes after it gives the lock back.
After(c) ==
    CASE cmd[c].pc = "raised" -> "failed"
      [] cmd[c].task = "quiesce" /\ cmd[c].prog = "restore" -> "maintaining"
      [] cmd[c].task = "quiesce" /\ cmd[c].prog # "restore" -> "waiting_out"
      [] cmd[c].task = "release" /\ cmd[c].prog # "restore" -> "failed"
      [] OTHER -> "done"

\* pg_advisory_unlock, once the transaction is over.
Unlock(c) ==
    /\ cmd[c].pc \in {"committed", "raised"}
    /\ holder' = NoCommand
    /\ Goto(c, After(c))
    /\ UNCHANGED <<gate, waiting, ses>>

-----------------------------------------------------------------------------
(* Commands: quiesce() and resume(), each one committed transaction. *)

Quiesce(c) ==
    /\ cmd[c].pc = "holding"
    /\ cmd[c].task = "quiesce"
    /\ LET new == control.at = 0
       IN  /\ clock' = IF new THEN clock + 1 ELSE clock
           /\ control' = [control EXCEPT !.at = IF new THEN clock + 1 ELSE @,
                                         !.paired = @ \/ cmd[c].prog = "prepare_paired"]
           /\ cmd' = [cmd EXCEPT ![c].pc = "committed",
                                 ![c].created = IF new THEN clock + 1 ELSE 0]
    /\ UNCHANGED <<locks, ses>>

\* The compare of the instance is dropped.
ForeignByMarkOnly(c) == cmd[c].task = "release" /\ control.paired

\* resume(created_at=...) leaves a replaced or promoted gate alone.
Foreign(c) ==
    cmd[c].task = "release" /\ (control.at # cmd[c].created \/ control.paired)

Resuming(c) == cmd[c].pc = "holding" /\ cmd[c].task \in {"release", "abort"}

ResumeNothing(c) ==
    /\ Resuming(c)
    /\ control.at = 0 \/ Foreign(c)
    /\ Goto(c, "committed")
    /\ UNCHANGED <<gate, locks, ses>>

\* Resume asks for no paired verification.
GuardedByPermitOnly == control.probe

\* DeploymentQuiesced: a probe permit, or a paired mark that nobody verified.
Guarded == control.probe \/ control.paired

ResumeRefused(c) ==
    /\ Resuming(c)
    /\ control.at # 0 /\ ~Foreign(c)
    /\ Guarded
    /\ Goto(c, "raised")
    /\ UNCHANGED <<gate, locks, ses>>

Resume(c) ==
    /\ Resuming(c)
    /\ control.at # 0 /\ ~Foreign(c)
    /\ ~Guarded
    /\ control' = NoGate
    /\ Goto(c, "committed")
    /\ UNCHANGED <<clock, locks, ses>>

-----------------------------------------------------------------------------
(* Commands: --prepare, restore and cutover between quiesce() and resume(). *)

\* A failure, a signal included, releases an ordinary gate of one's own.
ReleaseOwn(c, otherwise) ==
    cmd' = IF cmd[c].created # 0 /\ cmd[c].prog # "prepare_paired"
           THEN [cmd EXCEPT ![c].pc = "asking", ![c].task = "release"]
           ELSE [cmd EXCEPT ![c].pc = otherwise]

PreparePasses(c) ==
    /\ cmd[c].pc = "waiting_out"
    /\ Goto(c, "done")
    /\ UNCHANGED <<gate, locks, ses>>

\* gate_blockers() found something, or the wait was interrupted.
PrepareFails(c) ==
    /\ cmd[c].pc = "waiting_out"
    /\ ReleaseOwn(c, "failed")
    /\ UNCHANGED <<gate, locks, ses>>

RestorePasses(c) ==
    /\ cmd[c].pc = "maintaining"
    /\ ReleaseOwn(c, "done")
    /\ UNCHANGED <<gate, locks, ses>>

\* A restore or a cutover that fails leaves the gate to the operator.
RestoreFails(c) ==
    /\ cmd[c].pc = "maintaining"
    /\ Goto(c, "failed")
    /\ UNCHANGED <<gate, locks, ses>>

-----------------------------------------------------------------------------
(* Commands: --verify on an ordinary gate. *)

\* The lock is dropped between the recheck and the push.
BeginUnlocked(c) ==
    /\ cmd[c].pc = "holding"
    /\ cmd[c].task = "verify"
    /\ control.at # 0 /\ ~control.paired
    /\ cmd' = [cmd EXCEPT ![c].pc = "pushing", ![c].seen = control.at]
    /\ holder' = NoCommand
    /\ UNCHANGED <<gate, waiting, ses>>

\* The purpose is read again under the lock, which is kept through the push.
BeginVerification(c) ==
    /\ cmd[c].pc = "holding"
    /\ cmd[c].task = "verify"
    /\ control.at # 0 /\ ~control.paired
    /\ cmd' = [cmd EXCEPT ![c].pc = "pushing", ![c].seen = control.at]
    /\ UNCHANGED <<gate, locks, ses>>

\* No gate, a promoted gate, blockers, a refused push or a wrong receipt.
VerificationFails(c) ==
    /\ \/ cmd[c].pc = "holding" /\ cmd[c].task = "verify"
       \/ cmd[c].pc = "pushing"
    /\ Goto(c, "raised")
    /\ UNCHANGED <<gate, locks, ses>>

\* The nested resume(): the session has the lock already.
VerificationPasses(c) ==
    /\ cmd[c].pc = "pushing"
    /\ IF control.at = 0
       THEN UNCHANGED control /\ Goto(c, "committed")
       ELSE IF Guarded
            THEN UNCHANGED control /\ Goto(c, "raised")
            ELSE control' = NoGate /\ Goto(c, "committed")
    /\ UNCHANGED <<clock, locks, ses>>

-----------------------------------------------------------------------------
(* Commands: locked_gate() and maintenance_gate(), on a paired gate. *)

\* The commands of paired verification: --resume, --verify and --abort.
Audits(c) == cmd[c].pc = "auditing" /\ cmd[c].prog \notin {"maintenance", "probe"}

\* The exclusive try and the tests of the row.  A probe's own permit is no
\* obstacle to --start-probe and --register-probe (one attempt is modelled).
TryGate(c) ==
    /\ cmd[c].pc = "trying"
    /\ IF /\ LockFree
          /\ control.at # 0 /\ control.paired
          /\ ~control.probe \/ cmd[c].prog = "probe"
       THEN holder' = c /\ Goto(c, "auditing")
       ELSE holder' = holder /\ Goto(c, "failed")
    /\ UNCHANGED <<gate, waiting, ses>>

\* Paired verification passes: the delete commits and the locks go with it.
AuditPasses(c) ==
    /\ Audits(c)
    /\ control' = NoGate
    /\ holder' = NoCommand
    /\ Goto(c, "done")
    /\ UNCHANGED <<clock, waiting, ses>>

\* A contract, a probe, a stream or a blocker fails it; a failed probe command
\* takes its permit back.
AuditFails(c) ==
    /\ cmd[c].pc = "auditing"
    /\ control' = [control EXCEPT !.probe = @ /\ cmd[c].prog # "probe"]
    /\ holder' = NoCommand
    /\ Goto(c, "failed")
    /\ UNCHANGED <<clock, waiting, ses>>

\* The permit commits before the probe's Apply is triggered.
RegisterProbe(c) ==
    /\ cmd[c].pc = "auditing"
    /\ cmd[c].prog = "probe"
    /\ ~control.probe
    /\ control' = [control EXCEPT !.probe = TRUE]
    /\ UNCHANGED <<clock, locks, ses, cmd>>

\* Imports, accepts and store preparation leave the row alone.
MaintenanceEnds(c) ==
    /\ cmd[c].pc = "auditing"
    /\ \/ cmd[c].prog = "maintenance"
       \/ cmd[c].prog = "probe" /\ control.probe
    /\ holder' = NoCommand
    /\ Goto(c, "done")
    /\ UNCHANGED <<gate, waiting, ses>>

\* --revoke-probe, or the permitted probe ran: one transaction of locked_gate().
PermitEnds ==
    /\ LockFree
    /\ control.at # 0 /\ control.paired /\ control.probe
    /\ control' = [control EXCEPT !.probe = FALSE]
    /\ UNCHANGED <<clock, locks, ses, cmd>>

\* The process is killed: its locks go, its transaction rolls back, the row stays.
CommandDies(c) ==
    /\ "death" \in Events
    /\ cmd[c].pc \notin {"ready", "done", "failed"}
    /\ waiting' = waiting \ {c}
    /\ holder' = IF holder = c THEN NoCommand ELSE holder
    /\ Goto(c, "failed")
    /\ UNCHANGED <<gate, ses>>

-----------------------------------------------------------------------------

Works(s) ==
    \/ EnterOperation(s) \/ AfterJoin(s) \/ CheckOperation(s) \/ LeaveOperation(s)
    \/ AskMutation(s) \/ TakeMutation(s) \/ RejoinMutation(s) \/ RecheckMutation(s)
    \/ EndMutation(s)

Runs(c) ==
    \/ Request(c) \/ Grant(c) \/ Unlock(c)
    \/ Quiesce(c) \/ ResumeNothing(c) \/ ResumeRefused(c) \/ Resume(c)
    \/ PreparePasses(c) \/ PrepareFails(c) \/ RestorePasses(c) \/ RestoreFails(c)
    \/ BeginVerification(c) \/ VerificationFails(c) \/ VerificationPasses(c)
    \/ TryGate(c) \/ AuditPasses(c) \/ AuditFails(c)
    \/ RegisterProbe(c) \/ MaintenanceEnds(c)

Next ==
    \/ \E s \in Sessions : Works(s) \/ SessionDies(s)
    \/ \E c \in Commands : Runs(c) \/ TimesOut(c) \/ CommandDies(c)
    \/ \E c \in Commands, p \in Programs : Start(c, p)
    \/ PermitEnds

Spec == Init /\ [][Next]_vars

\* Every call of a session ends, and an operation begins only finitely many
\* nested ones before it ends; a command runs on; PostgreSQL serves its queue.
SessionFairness(s) ==
    /\ WF_vars(AfterJoin(s) \/ CheckOperation(s) \/ TakeMutation(s)
               \/ RejoinMutation(s) \/ RecheckMutation(s) \/ EndMutation(s))
    /\ SF_vars(LeaveOperation(s))

CommandFairness(c) == WF_vars(Runs(c)) /\ SF_vars(Grant(c))

FairSpec ==
    /\ Spec
    /\ \A s \in Sessions : SessionFairness(s)
    /\ \A c \in Commands : CommandFairness(c)

-----------------------------------------------------------------------------
(* Properties *)

\* The state has its type.
TypeOK ==
    /\ control \in [at : Nat, paired : BOOLEAN, probe : BOOLEAN]
    /\ clock \in Nat
    /\ holder \in Commands \union {NoCommand}
    /\ waiting \subseteq Commands
    /\ ses \in [Sessions -> [pc : SessionPlaces, ops : Nat, shares : Nat]]
    /\ cmd \in [Commands -> [pc : CommandPlaces, prog : AllPrograms, task : Tasks,
                             created : Nat, seen : Nat]]

\* A guarded operation or an intent mutation is under way.
Busy(s) == ses[s].ops > 0 \/ ses[s].pc = "writing"

\* While the control row exists no session is inside an operation or a mutation
\* it was admitted to: quiesce() waited for the earlier ones, and the row is read
\* under the share that a later one took (deployment.py 94-95, 115-116, 168).
NoWorkUnderTheGate == control.at # 0 => \A s \in Sessions : ~Busy(s)

\* The commands, the advisory lock and the control row implement the promise of
\* FleetGate: work is admitted by one session at a time and under an open gate,
\* and the row appears only once no session has admitted work (deployment.py
\* 63-134, 161-175).
Fleet == INSTANCE FleetGate
         WITH closed <- control.at # 0, admitted <- {s \in Sessions : Busy(s)}
FleetGateIsKept == Fleet!Spec

\* A paired gate leaves, or loses its mark, only by a paired verification and
\* with no probe permit outstanding, whatever an unlocked read of the mark told
\* the command that releases it (deployment.py 164, 192-195).
PairedGateNeedsItsVerification ==
    [][(control.at # 0 /\ control.paired
        /\ (control'.at # control.at \/ ~control'.paired))
       => /\ ~control.probe
          /\ \E c \in Commands : holder = c /\ Audits(c)]_vars

\* Of the releases that no operator asked for at that moment, a preparation's,
\* a restore's or a cutover's ends the gate instance it created, and a static
\* verification's the instance it pushed under (deployment.py 190, command 409).
NobodyElsesGateIsReleased ==
    [][(control.at # 0 /\ control'.at # control.at)
       => \A c \in Commands : holder = c =>
            CASE cmd[c].prog \in {"prepare", "prepare_paired", "restore"} ->
                    cmd[c].created = control.at
              [] cmd[c].pc = "pushing" -> cmd[c].seen = control.at
              [] OTHER -> TRUE]_vars

\* The verification push runs while the gate it was meant for stands, ordinary,
\* and the fleet is still (command 408-427).
VerificationCoversTheGate ==
    \A c \in Commands : cmd[c].pc = "pushing" =>
        /\ control.at = cmd[c].seen
        /\ ~control.paired
        /\ \A s \in Sessions : ~Busy(s)

\* Without timeouts and deaths a command that queued for the exclusive lock gets
\* it: new operations and mutations give way to it and no refusal keeps a share
\* (deployment.py 104-113, 118-120).
ActivationGetsIn == \A c \in Commands : c \in waiting ~> holder = c
=============================================================================
