------------------------ MODULE DeploymentGateProofs ------------------------
(***************************************************************************)
(* Theorems about DeploymentGate, for any number of sessions and commands, *)
(* any programs and faults and any depth of nested operations.             *)
(***************************************************************************)
EXTENDS DeploymentGate, TLAPS

-----------------------------------------------------------------------------
(* The inductive invariant *)

\* Places of a session that has a share beyond those of its operations.
Joined == {"joining", "checking", "rejoining", "rechecking", "writing"}

\* Places of a command that holds the exclusive lock.
Holding == {"holding", "committed", "raised", "pushing", "auditing"}

\* Every operation and every admitted attempt of a session has its share.
SharesAreKept ==
    \A s \in Sessions :
        ses[s].shares = ses[s].ops + IF ses[s].pc \in Joined THEN 1 ELSE 0

\* A command in a place that needs the lock is the one that has it.
HolderIsAtWork ==
    /\ \A c \in Commands : cmd[c].pc \in Holding => holder = c
    /\ \A c \in waiting : cmd[c].pc = "waiting"

\* The exclusive lock excludes every share.
LockExcludes == holder # NoCommand => Unshared

\* A verification still looks at the row it read.
PushKnowsItsGate ==
    \A c \in Commands :
        /\ cmd[c].pc = "pushing" => control.at = cmd[c].seen /\ ~control.paired
        /\ cmd[c].pc = "auditing" =>
                ~control.probe \/ cmd[c].prog \in {"maintenance", "probe"}

\* A session's operations fit the bound and it works only inside one.
WorkHasOperations ==
    \A s \in Sessions : ses[s].pc = "working" => ses[s].ops > 0

IInv == /\ TypeOK /\ SharesAreKept /\ HolderIsAtWork /\ LockExcludes
        /\ PushKnowsItsGate /\ WorkHasOperations /\ NoWorkUnderTheGate

-----------------------------------------------------------------------------
(* A session's step *)

\* A session's step keeps the invariant if it accounts for its share, takes one
\* only from a free lock, and starts work only when it sees no control row.
LEMMA SessionStepKeeps ==
    ASSUME IInv, NEW s \in Sessions, NEW place \in SessionPlaces,
           NEW ops \in Nat, NEW shares \in Nat,
           SessionStep(s, place, ops, shares),
           shares = ops + IF place \in Joined THEN 1 ELSE 0,
           place = "working" => ops > 0,
           holder = NoCommand \/ shares = 0 \/ shares <= ses[s].shares,
           control.at # 0 => (ops = 0 \/ ops <= ses[s].ops) /\ place # "writing"
    PROVE  IInv'
<1> USE DEF SessionStep, gate, locks
<1>1. ses' = [ses EXCEPT ![s] = [pc |-> place, ops |-> ops, shares |-> shares]]
      /\ UNCHANGED <<control, clock, holder, waiting, cmd>>
  OBVIOUS
<1>2. TypeOK'
  BY <1>1 DEF IInv, TypeOK
<1>3. \A t \in Sessions : ses'[t] = IF t = s THEN [pc |-> place, ops |-> ops, shares |-> shares]
                                   ELSE ses[t]
  BY <1>1 DEF IInv, TypeOK
<1>4. SharesAreKept'
  BY <1>3 DEF IInv, SharesAreKept
<1>5. HolderIsAtWork' /\ PushKnowsItsGate'
  BY <1>1 DEF IInv, HolderIsAtWork, PushKnowsItsGate
<1>6. LockExcludes'
  <2>1. SUFFICES ASSUME holder # NoCommand, NEW t \in Sessions PROVE ses'[t].shares = 0
    BY <1>1 DEF LockExcludes, Unshared
  <2>2. ses[t].shares = 0 /\ ses[s].shares = 0
    BY <2>1 DEF IInv, LockExcludes, Unshared
  <2> QED BY <1>3, <2>1, <2>2
<1>7. WorkHasOperations'
  BY <1>3 DEF IInv, WorkHasOperations
<1>8. NoWorkUnderTheGate'
  <2>1. SUFFICES ASSUME control.at # 0, NEW t \in Sessions PROVE ~Busy(t)'
    BY <1>1 DEF NoWorkUnderTheGate
  <2>2. ~Busy(t) /\ ~Busy(s)
    BY <2>1 DEF IInv, NoWorkUnderTheGate
  <2>3. CASE t = s
    BY <1>3, <2>1, <2>2, <2>3 DEF Busy, IInv, TypeOK
  <2>4. CASE t # s
    BY <1>3, <2>2, <2>4 DEF Busy
  <2> QED BY <2>3, <2>4
<1> QED BY <1>2, <1>4, <1>5, <1>6, <1>7, <1>8 DEF IInv

\* What the invariant says of one session.
LEMMA SessionFacts ==
    ASSUME IInv, NEW s \in Sessions
    PROVE  /\ ses[s].ops \in Nat /\ ses[s].shares \in Nat /\ ses[s].pc \in SessionPlaces
           /\ ses[s].shares = ses[s].ops + IF ses[s].pc \in Joined THEN 1 ELSE 0
           /\ ses[s].pc = "working" => ses[s].ops > 0
           /\ control.at # 0 => ses[s].ops = 0
           /\ Back(s) \in SessionPlaces /\ Back(s) \notin Joined
           /\ Back(s) = "working" => ses[s].ops > 0
BY DEF IInv, TypeOK, SharesAreKept, WorkHasOperations, NoWorkUnderTheGate, Busy, Back,
       SessionPlaces, Joined

\* Giving the last share back, a refusal or the end of a mutation, keeps it.
LEMMA GiveBackKeeps ==
    ASSUME IInv, NEW s \in Sessions, ses[s].pc \in Joined,
           SessionStep(s, Back(s), ses[s].ops, ses[s].shares - 1)
    PROVE  IInv'
<1> DEFINE o == ses[s].ops
           h == ses[s].shares
<1>1. /\ o \in Nat /\ h = o + 1
      /\ control.at # 0 => o = 0
      /\ Back(s) \in SessionPlaces /\ Back(s) \notin Joined
      /\ Back(s) = "working" => o > 0
  BY SessionFacts
<1>2. h - 1 \in Nat /\ h - 1 = o /\ h - 1 <= h
  BY <1>1
<1>3. Back(s) # "writing"
  BY <1>1 DEF Joined
<1> QED BY <1>1, <1>2, <1>3, SessionStepKeeps

\* Every step of a session keeps the invariant.
LEMMA SessionsKeep ==
    ASSUME IInv, NEW s \in Sessions, Works(s) \/ SessionDies(s)
    PROVE  IInv'
<1> DEFINE o == ses[s].ops
           h == ses[s].shares
<1>0. /\ o \in Nat /\ h \in Nat /\ ses[s].pc \in SessionPlaces
      /\ h = o + IF ses[s].pc \in Joined THEN 1 ELSE 0
      /\ ses[s].pc = "working" => o > 0
      /\ control.at # 0 => o = 0
      /\ Back(s) \in SessionPlaces /\ Back(s) \notin Joined
      /\ Back(s) = "working" => o > 0
  BY SessionFacts
<1>1. CASE EnterOperation(s)
  <2>1. /\ SessionStep(s, "joining", o, h + 1) /\ holder = NoCommand
        /\ ses[s].pc \notin Joined
    BY <1>1 DEF EnterOperation, CanShare, Joined
  <2>2. h + 1 \in Nat /\ h + 1 = o + 1 /\ "joining" \in Joined /\ "joining" \in SessionPlaces
    BY <1>0, <2>1 DEF Joined, SessionPlaces
  <2> QED BY <1>0, <2>1, <2>2, SessionStepKeeps
<1>2. CASE AfterJoin(s)
  <2>1. ses[s].pc = "joining" /\ ses[s].pc \in Joined
    BY <1>2 DEF AfterJoin, Joined
  <2>2. CASE Pending
    BY <1>2, <2>1, <2>2, GiveBackKeeps DEF AfterJoin
  <2>3. CASE ~Pending
    <3>1. SessionStep(s, "checking", o, h) /\ h = o + 1
      BY <1>0, <1>2, <2>1, <2>3 DEF AfterJoin
    <3>2. "checking" \in Joined /\ "checking" \in SessionPlaces
      BY DEF Joined, SessionPlaces
    <3> QED BY <1>0, <3>1, <3>2, SessionStepKeeps
  <2> QED BY <2>2, <2>3
<1>3. CASE CheckOperation(s)
  <2>1. ses[s].pc = "checking" /\ ses[s].pc \in Joined
    BY <1>3 DEF CheckOperation, Joined
  <2>2. CASE control.at # 0
    BY <1>3, <2>1, <2>2, GiveBackKeeps DEF CheckOperation
  <2>3. CASE control.at = 0
    <3>1. SessionStep(s, "working", o + 1, h) /\ h = o + 1 /\ o + 1 \in Nat /\ o + 1 > 0
      BY <1>0, <1>3, <2>1, <2>3 DEF CheckOperation
    <3>2. "working" \notin Joined /\ "working" \in SessionPlaces
      BY DEF Joined, SessionPlaces
    <3> QED BY <1>0, <2>3, <3>1, <3>2, SessionStepKeeps
  <2> QED BY <2>2, <2>3
<1>4. CASE LeaveOperation(s)
  <2> DEFINE place == IF o > 1 THEN "working" ELSE "idle"
  <2>1. SessionStep(s, place, o - 1, h - 1) /\ ses[s].pc = "working"
    BY <1>4 DEF LeaveOperation
  <2>2. o > 0 /\ h = o
    BY <1>0, <2>1 DEF Joined
  <2>3. /\ place \in SessionPlaces /\ place \notin Joined
        /\ place = "working" => o - 1 > 0
        /\ o - 1 \in Nat /\ h - 1 \in Nat /\ h - 1 = o - 1
        /\ control.at = 0 /\ h - 1 <= h
    BY <1>0, <2>2 DEF SessionPlaces, Joined
  <2> HIDE DEF place
  <2> QED BY <2>1, <2>3, SessionStepKeeps
<1>5. CASE AskMutation(s)
  <2>1. SessionStep(s, "asking", o, h) /\ h = o
    BY <1>0, <1>5 DEF AskMutation, Joined
  <2>2. "asking" \notin Joined /\ "asking" \in SessionPlaces
    BY DEF Joined, SessionPlaces
  <2> QED BY <1>0, <2>1, <2>2, SessionStepKeeps
<1>6. CASE TakeMutation(s)
  <2>1. h = o
    BY <1>0, <1>6 DEF TakeMutation, Joined
  <2>2. CASE CanShare(s)
    <3>1. SessionStep(s, "rejoining", o, h + 1) /\ holder = NoCommand
      BY <1>6, <2>2 DEF TakeMutation, CanShare
    <3>2. "rejoining" \in Joined /\ "rejoining" \in SessionPlaces /\ h + 1 \in Nat
      BY <1>0 DEF Joined, SessionPlaces
    <3> QED BY <1>0, <2>1, <3>1, <3>2, SessionStepKeeps
  <2>3. CASE ~CanShare(s)
    <3>1. SessionStep(s, Back(s), o, h) /\ Back(s) # "writing"
      BY <1>0, <1>6, <2>3 DEF TakeMutation, Joined
    <3> QED BY <1>0, <2>1, <3>1, SessionStepKeeps
  <2> QED BY <2>2, <2>3
<1>7. CASE RejoinMutation(s)
  <2>1. ses[s].pc = "rejoining" /\ ses[s].pc \in Joined
    BY <1>7 DEF RejoinMutation, Joined
  <2>2. CASE Pending
    BY <1>7, <2>1, <2>2, GiveBackKeeps DEF RejoinMutation
  <2>3. CASE ~Pending
    <3>1. SessionStep(s, "rechecking", o, h) /\ h = o + 1
      BY <1>0, <1>7, <2>1, <2>3 DEF RejoinMutation
    <3>2. "rechecking" \in Joined /\ "rechecking" \in SessionPlaces
      BY DEF Joined, SessionPlaces
    <3> QED BY <1>0, <3>1, <3>2, SessionStepKeeps
  <2> QED BY <2>2, <2>3
<1>8. CASE RecheckMutation(s)
  <2>1. ses[s].pc = "rechecking" /\ ses[s].pc \in Joined
    BY <1>8 DEF RecheckMutation, Joined
  <2>2. CASE control.at # 0
    BY <1>8, <2>1, <2>2, GiveBackKeeps DEF RecheckMutation
  <2>3. CASE control.at = 0
    <3>1. SessionStep(s, "writing", o, h) /\ h = o + 1
      BY <1>0, <1>8, <2>1, <2>3 DEF RecheckMutation
    <3>2. "writing" \in Joined /\ "writing" \in SessionPlaces
      BY DEF Joined, SessionPlaces
    <3> QED BY <1>0, <2>3, <3>1, <3>2, SessionStepKeeps
  <2> QED BY <2>2, <2>3
<1>9. CASE EndMutation(s)
  BY <1>9, GiveBackKeeps DEF EndMutation, Joined
<1>10. CASE SessionDies(s)
  <2>1. SessionStep(s, "idle", 0, 0)
    BY <1>10 DEF SessionDies
  <2>2. "idle" \notin Joined /\ "idle" \in SessionPlaces
    BY DEF Joined, SessionPlaces
  <2> QED BY <1>0, <2>1, <2>2, SessionStepKeeps
<1> QED BY <1>1, <1>2, <1>3, <1>4, <1>5, <1>6, <1>7, <1>8, <1>9, <1>10 DEF Works

-----------------------------------------------------------------------------
(* A command's step *)

CommandRecords == [pc : CommandPlaces, prog : AllPrograms, task : Tasks,
                   created : Nat, seen : Nat]

\* What the invariant says of one command.
LEMMA CommandFacts ==
    ASSUME IInv, NEW c \in Commands
    PROVE  /\ cmd[c] \in CommandRecords
           /\ cmd[c].pc \in Holding => holder = c
           /\ holder = c => Unshared
           /\ c \in waiting => cmd[c].pc = "waiting"
           /\ control \in [at : Nat, paired : BOOLEAN, probe : BOOLEAN]
           /\ clock \in Nat
BY NoCommandAssumption
   DEF IInv, TypeOK, HolderIsAtWork, LockExcludes, CommandRecords

\* A command's step keeps the invariant if it keeps its own record and nobody
\* else's, takes the lock only when it is free and unshared, and changes the
\* control row only with the lock.
LEMMA CommandStepKeeps ==
    ASSUME IInv, NEW c \in Commands, ses' = ses,
           cmd' = [cmd EXCEPT ![c] = cmd'[c]], cmd'[c] \in CommandRecords,
           control' \in [at : Nat, paired : BOOLEAN, probe : BOOLEAN], clock' \in Nat,
           control' = control \/ holder = c,
           \/ holder' = holder
           \/ holder' = NoCommand /\ holder = c
           \/ holder' = c /\ holder = NoCommand /\ Unshared,
           waiting' \in {waiting, waiting \union {c}, waiting \ {c}},
           c \in waiting' => cmd'[c].pc = "waiting",
           cmd'[c].pc \in Holding => holder' = c,
           cmd'[c].pc = "pushing" => control'.at = cmd'[c].seen /\ ~control'.paired,
           cmd'[c].pc = "auditing" =>
                ~control'.probe \/ cmd'[c].prog \in {"maintenance", "probe"}
    PROVE  IInv'
<1>1. \A d \in Commands : d # c => cmd'[d] = cmd[d]
  BY DEF IInv, TypeOK
<1>2. TypeOK'
  BY DEF IInv, TypeOK, CommandRecords
<1>3. SharesAreKept' /\ WorkHasOperations'
  BY DEF IInv, SharesAreKept, WorkHasOperations
<1>4. HolderIsAtWork'
  <2>1. ASSUME NEW d \in Commands, cmd'[d].pc \in Holding PROVE holder' = d
    <3>1. CASE d = c
      BY <2>1, <3>1
    <3>2. CASE d # c
      <4>1. holder = d
        BY <1>1, <2>1, <3>2 DEF IInv, HolderIsAtWork
      <4> QED BY <3>2, <4>1, NoCommandAssumption
    <3> QED BY <3>1, <3>2
  <2>2. ASSUME NEW d \in waiting' PROVE cmd'[d].pc = "waiting"
    BY <1>1, <2>2 DEF IInv, TypeOK, HolderIsAtWork
  <2> QED BY <2>1, <2>2 DEF HolderIsAtWork
<1>5. LockExcludes'
  BY DEF IInv, LockExcludes, Unshared
<1>6. PushKnowsItsGate'
  <2>1. SUFFICES ASSUME NEW d \in Commands, cmd'[d].pc \in {"pushing", "auditing"}
                 PROVE  /\ cmd'[d].pc = "pushing" => control'.at = cmd'[d].seen /\ ~control'.paired
                        /\ cmd'[d].pc = "auditing" =>
                             ~control'.probe \/ cmd'[d].prog \in {"maintenance", "probe"}
    BY DEF PushKnowsItsGate
  <2>2. CASE d = c
    BY <2>1, <2>2
  <2>3. CASE d # c
    <3>1. cmd'[d] = cmd[d] /\ holder = d
      BY <1>1, <2>1, <2>3 DEF IInv, HolderIsAtWork, Holding
    <3>2. control' = control
      BY <2>3, <3>1
    <3> QED BY <2>1, <3>1, <3>2 DEF IInv, PushKnowsItsGate
  <2> QED BY <2>2, <2>3
<1>7. NoWorkUnderTheGate'
  <2>1. CASE control' = control
    BY <2>1 DEF IInv, NoWorkUnderTheGate, Busy
  <2>2. CASE holder = c
    <3>1. Unshared
      BY <2>2, CommandFacts
    <3>2. ASSUME NEW s \in Sessions PROVE ~Busy(s)
      BY <3>1, SessionFacts DEF Unshared, Busy, Joined
    <3> QED BY <3>2 DEF NoWorkUnderTheGate, Busy
  <2> QED BY <2>1, <2>2
<1> QED BY <1>2, <1>3, <1>4, <1>5, <1>6, <1>7 DEF IInv

\* A command that only moves on, with the lock or without it.
LEMMA MoveKeeps ==
    ASSUME IInv, NEW c \in Commands, NEW place \in CommandPlaces \ {"waiting", "pushing", "auditing"},
           Goto(c, place), UNCHANGED <<gate, locks, ses>>,
           c \notin waiting, place \in Holding => holder = c
    PROVE  IInv'
<1>1. /\ cmd' = [cmd EXCEPT ![c] = cmd'[c]] /\ cmd'[c] \in CommandRecords
      /\ cmd'[c].pc = place
  BY CommandFacts DEF Goto, IInv, TypeOK, CommandRecords
<1>2. UNCHANGED <<control, clock, holder, waiting, ses>>
  BY DEF gate, locks
<1>3. control' \in [at : Nat, paired : BOOLEAN, probe : BOOLEAN] /\ clock' \in Nat
  BY <1>2, CommandFacts
<1> QED BY <1>1, <1>2, <1>3, CommandStepKeeps

\* Every step of a command keeps the invariant.
LEMMA CommandsKeep ==
    ASSUME IInv, NEW c \in Commands,
           Runs(c) \/ TimesOut(c) \/ CommandDies(c) \/ \E p \in Programs : Start(c, p)
    PROVE  IInv'
<1> USE DEF gate, locks, Goto
<1> DEFINE GateType == [at : Nat, paired : BOOLEAN, probe : BOOLEAN]
<1>0. /\ cmd[c] \in CommandRecords
      /\ cmd[c].pc \in Holding => holder = c
      /\ holder = c => Unshared
      /\ c \in waiting => cmd[c].pc = "waiting"
      /\ control \in GateType /\ clock \in Nat
      /\ cmd \in [Commands -> CommandRecords]
  BY CommandFacts DEF IInv, TypeOK, CommandRecords
<1>1. CASE \E p \in Programs : Start(c, p)
  <2>1. PICK p \in Programs : Start(c, p)
    BY <1>1
  <2>2. /\ cmd' = [cmd EXCEPT ![c] = cmd'[c]] /\ cmd'[c] \in CommandRecords
        /\ cmd'[c].pc \in {"asking", "trying"}
        /\ UNCHANGED <<control, clock, holder, waiting, ses>>
    BY ZenonT(40), <1>0, <2>1, ProgramsAssumption DEF Start, CommandRecords, CommandPlaces, Tasks
  <2>3. c \notin waiting
    BY <1>0, <2>1 DEF Start
  <2> QED BY <1>0, <2>2, <2>3, CommandStepKeeps DEF Holding
<1>2. CASE Request(c)
  <2>1. /\ cmd[c].pc = "asking" /\ c \notin waiting
        /\ UNCHANGED <<control, clock, ses>>
    BY <1>0, <1>2 DEF Request
  <2>2. CASE LockFree
    <3>1. holder' = c /\ waiting' = waiting /\ Goto(c, "holding")
      BY <1>2, <2>2 DEF Request
    <3>2. cmd' = [cmd EXCEPT ![c] = cmd'[c]] /\ cmd'[c] \in CommandRecords /\ cmd'[c].pc = "holding"
      BY <1>0, <3>1 DEF CommandRecords, CommandPlaces
    <3> QED BY <1>0, <2>1, <2>2, <3>1, <3>2, CommandStepKeeps DEF LockFree
  <2>3. CASE ~LockFree
    <3>1. holder' = holder /\ waiting' = waiting \union {c} /\ Goto(c, "waiting")
      BY <1>2, <2>3 DEF Request
    <3>2. cmd' = [cmd EXCEPT ![c] = cmd'[c]] /\ cmd'[c] \in CommandRecords /\ cmd'[c].pc = "waiting"
      BY <1>0, <3>1 DEF CommandRecords, CommandPlaces
    <3> QED BY <1>0, <2>1, <3>1, <3>2, CommandStepKeeps DEF Holding
  <2> QED BY <2>2, <2>3
<1>3. CASE Grant(c)
  <2>1. cmd' = [cmd EXCEPT ![c] = cmd'[c]] /\ cmd'[c] \in CommandRecords
    BY <1>0, <1>3 DEF Grant, CommandRecords, CommandPlaces, Tasks
  <2>2. /\ UNCHANGED <<control, clock, ses>>
        /\ holder' = c /\ holder = NoCommand /\ Unshared
        /\ waiting' = waiting \ {c} /\ cmd'[c].pc = "holding"
    BY <1>0, <1>3 DEF Grant, Holding
  <2> QED BY <1>0, <2>1, <2>2, CommandStepKeeps DEF Holding
<1>4. CASE TimesOut(c)
  <2>1. cmd' = [cmd EXCEPT ![c] = cmd'[c]] /\ cmd'[c] \in CommandRecords
    BY <1>0, <1>4 DEF TimesOut, CommandRecords, CommandPlaces, Tasks
  <2>2. /\ UNCHANGED <<control, clock, holder, ses>>
        /\ waiting' = waiting \ {c} /\ cmd'[c].pc = "failed"
    BY <1>0, <1>4 DEF TimesOut, Holding
  <2> QED BY <1>0, <2>1, <2>2, CommandStepKeeps DEF Holding
<1>5. CASE CommandDies(c)
  <2>1. cmd' = [cmd EXCEPT ![c] = cmd'[c]] /\ cmd'[c] \in CommandRecords
    BY <1>0, <1>5 DEF CommandDies, CommandRecords, CommandPlaces, Tasks
  <2>2. /\ UNCHANGED <<control, clock, ses>>
        /\ waiting' = waiting \ {c} /\ cmd'[c].pc = "failed"
    BY <1>0, <1>5 DEF CommandDies
  <2>3. \/ holder' = holder
        \/ holder' = NoCommand /\ holder = c
    BY <1>5 DEF CommandDies
  <2> QED BY <1>0, <2>1, <2>2, <2>3, CommandStepKeeps DEF Holding
<1>6. CASE Unlock(c)
  <2>1. cmd' = [cmd EXCEPT ![c] = cmd'[c]] /\ cmd'[c] \in CommandRecords
    BY <1>0, <1>6 DEF Unlock, After, CommandRecords, CommandPlaces, Tasks
  <2>2. /\ UNCHANGED <<control, clock, waiting, ses>>
        /\ c \notin waiting /\ cmd'[c].pc \in {"failed", "maintaining", "waiting_out", "done"}
        /\ holder' = NoCommand /\ holder = c
    BY <1>0, <1>6 DEF Unlock, After, Holding
  <2> QED BY <1>0, <2>1, <2>2, CommandStepKeeps DEF Holding
<1>7. CASE Quiesce(c)
  <2> DEFINE at == IF control.at = 0 THEN clock + 1 ELSE control.at
             paired == control.paired \/ cmd[c].prog = "prepare_paired"
             created == IF control.at = 0 THEN clock + 1 ELSE 0
  <2>1. at \in Nat /\ created \in Nat
    BY <1>0
  <2>2. paired \in BOOLEAN
    OBVIOUS
  <2>3. /\ UNCHANGED <<holder, waiting, ses>>
        /\ control' = [control EXCEPT !.at = at, !.paired = paired]
        /\ clock' = IF control.at = 0 THEN clock + 1 ELSE clock
        /\ cmd' = [cmd EXCEPT ![c].pc = "committed", ![c].created = created]
        /\ cmd[c].pc = "holding"
    BY <1>7 DEF Quiesce
  <2> HIDE DEF at, paired, created
  <2>4. control' \in GateType
    BY <1>0, <2>1, <2>2, <2>3
  <2>5. clock' \in Nat
    BY <1>0, <2>3
  <2>6. /\ cmd' = [cmd EXCEPT ![c] = cmd'[c]] /\ cmd'[c] \in CommandRecords
        /\ cmd'[c].pc = "committed"
    BY <1>0, <2>1, <2>3 DEF CommandRecords, CommandPlaces
  <2>7. holder = c /\ c \notin waiting
    BY <1>0, <2>3 DEF Holding
  <2> QED BY <1>0, <2>3, <2>4, <2>5, <2>6, <2>7, CommandStepKeeps
<1>8. CASE ResumeNothing(c)
  <2>1. /\ Goto(c, "committed") /\ c \notin waiting
        /\ UNCHANGED <<gate, locks, ses>> /\ holder = c
    BY <1>0, <1>8 DEF ResumeNothing, Resuming, Holding
  <2> QED BY <2>1, MoveKeeps DEF CommandPlaces, Holding
<1>9. CASE ResumeRefused(c)
  <2>1. /\ Goto(c, "raised") /\ c \notin waiting
        /\ UNCHANGED <<gate, locks, ses>> /\ holder = c
    BY <1>0, <1>9 DEF ResumeRefused, Resuming, Holding
  <2> QED BY <2>1, MoveKeeps DEF CommandPlaces, Holding
<1>10. CASE Resume(c)
  <2>1. cmd' = [cmd EXCEPT ![c] = cmd'[c]] /\ cmd'[c] \in CommandRecords
    BY <1>0, <1>10 DEF Resume, Resuming, NoGate, CommandRecords, CommandPlaces, Tasks
  <2>2. /\ control' \in GateType /\ UNCHANGED <<clock, waiting, ses>>
        /\ c \notin waiting /\ cmd'[c].pc = "committed"
        /\ holder' = holder /\ holder = c
    BY <1>0, <1>10 DEF Resume, Resuming, NoGate, Holding
  <2> QED BY <1>0, <2>1, <2>2, CommandStepKeeps DEF Holding
<1>11. CASE PreparePasses(c)
  <2>1. /\ Goto(c, "done") /\ c \notin waiting
        /\ UNCHANGED <<gate, locks, ses>>
    BY <1>0, <1>11 DEF PreparePasses, Holding
  <2> QED BY <2>1, MoveKeeps DEF CommandPlaces, Holding
<1>12. CASE PrepareFails(c)
  <2>1. cmd' = [cmd EXCEPT ![c] = cmd'[c]] /\ cmd'[c] \in CommandRecords
    BY <1>0, <1>12 DEF PrepareFails, ReleaseOwn, CommandRecords, CommandPlaces, Tasks
  <2>2. /\ UNCHANGED <<control, clock, holder, waiting, ses>>
        /\ c \notin waiting /\ cmd'[c].pc \in {"asking", "failed"}
    BY <1>0, <1>12 DEF PrepareFails, ReleaseOwn, Holding
  <2> QED BY <1>0, <2>1, <2>2, CommandStepKeeps DEF Holding
<1>13. CASE RestorePasses(c)
  <2>1. cmd' = [cmd EXCEPT ![c] = cmd'[c]] /\ cmd'[c] \in CommandRecords
    BY <1>0, <1>13 DEF RestorePasses, ReleaseOwn, CommandRecords, CommandPlaces, Tasks
  <2>2. /\ UNCHANGED <<control, clock, holder, waiting, ses>>
        /\ c \notin waiting /\ cmd'[c].pc \in {"asking", "done"}
    BY <1>0, <1>13 DEF RestorePasses, ReleaseOwn, Holding
  <2> QED BY <1>0, <2>1, <2>2, CommandStepKeeps DEF Holding
<1>14. CASE RestoreFails(c)
  <2>1. /\ Goto(c, "failed") /\ c \notin waiting
        /\ UNCHANGED <<gate, locks, ses>>
    BY <1>0, <1>14 DEF RestoreFails, Holding
  <2> QED BY <2>1, MoveKeeps DEF CommandPlaces, Holding
<1>15. CASE BeginVerification(c)
  <2>1. cmd' = [cmd EXCEPT ![c] = cmd'[c]] /\ cmd'[c] \in CommandRecords
    BY <1>0, <1>15 DEF BeginVerification, CommandRecords, CommandPlaces, Tasks
  <2>2. /\ UNCHANGED <<control, clock, holder, waiting, ses>>
        /\ c \notin waiting /\ cmd'[c].pc = "pushing" /\ holder = c
        /\ control.at = cmd'[c].seen /\ ~control.paired
    BY <1>0, <1>15 DEF BeginVerification, Holding
  <2> QED BY <1>0, <2>1, <2>2, CommandStepKeeps DEF Holding
<1>16. CASE VerificationFails(c)
  <2>1. /\ Goto(c, "raised") /\ c \notin waiting
        /\ UNCHANGED <<gate, locks, ses>> /\ holder = c
    BY <1>0, <1>16 DEF VerificationFails, Holding
  <2> QED BY <2>1, MoveKeeps DEF CommandPlaces, Holding
<1>17. CASE VerificationPasses(c)
  <2>1. cmd' = [cmd EXCEPT ![c] = cmd'[c]] /\ cmd'[c] \in CommandRecords
    BY <1>0, <1>17 DEF VerificationPasses, NoGate, CommandRecords, CommandPlaces, Tasks
  <2>2. /\ UNCHANGED <<clock, holder, waiting, ses>>
        /\ cmd[c].pc = "pushing" /\ c \notin waiting /\ holder = c
    BY <1>0, <1>17 DEF VerificationPasses, Holding
  <2>3. control' = control \/ control' = NoGate
    BY <1>17 DEF VerificationPasses
  <2>4. control' \in GateType
    <3>1. NoGate \in GateType
      BY DEF NoGate
    <3> QED BY <1>0, <2>3, <3>1
  <2>5. Goto(c, "committed") \/ Goto(c, "raised")
    BY <1>17 DEF VerificationPasses
  <2>6. cmd'[c].pc \in {"committed", "raised"}
    BY <1>0, <2>5 DEF CommandRecords
  <2> QED BY <1>0, <2>1, <2>2, <2>4, <2>6, CommandStepKeeps
<1>18. CASE TryGate(c)
  <2>1. /\ UNCHANGED <<control, clock, waiting, ses>>
        /\ cmd[c].pc = "trying" /\ c \notin waiting
    BY <1>0, <1>18 DEF TryGate
  <2>2. \/ /\ LockFree /\ holder' = c /\ Goto(c, "auditing")
           /\ ~control.probe \/ cmd[c].prog = "probe"
        \/ holder' = holder /\ Goto(c, "failed")
    BY <1>18 DEF TryGate
  <2>3. CASE /\ LockFree /\ holder' = c /\ Goto(c, "auditing")
             /\ ~control.probe \/ cmd[c].prog = "probe"
    <3>1. /\ cmd' = [cmd EXCEPT ![c] = cmd'[c]] /\ cmd'[c] \in CommandRecords
          /\ cmd'[c].pc = "auditing" /\ cmd'[c].prog = cmd[c].prog
      BY <1>0, <2>3 DEF CommandRecords, CommandPlaces
    <3> QED BY <1>0, <2>1, <2>3, <3>1, CommandStepKeeps DEF LockFree
  <2>4. CASE holder' = holder /\ Goto(c, "failed")
    <3>1. cmd' = [cmd EXCEPT ![c] = cmd'[c]] /\ cmd'[c] \in CommandRecords /\ cmd'[c].pc = "failed"
      BY <1>0, <2>4 DEF CommandRecords, CommandPlaces
    <3> QED BY <1>0, <2>1, <2>4, <3>1, CommandStepKeeps DEF Holding
  <2> QED BY <2>2, <2>3, <2>4
<1>19. CASE AuditPasses(c)
  <2>1. cmd' = [cmd EXCEPT ![c] = cmd'[c]] /\ cmd'[c] \in CommandRecords
    BY <1>0, <1>19 DEF AuditPasses, Audits, NoGate, CommandRecords, CommandPlaces, Tasks
  <2>2. /\ control' \in GateType /\ UNCHANGED <<clock, waiting, ses>>
        /\ c \notin waiting /\ cmd'[c].pc = "done"
        /\ holder' = NoCommand /\ holder = c
    BY <1>0, <1>19 DEF AuditPasses, Audits, NoGate, Holding
  <2> QED BY <1>0, <2>1, <2>2, CommandStepKeeps DEF Holding
<1>20. CASE AuditFails(c)
  <2>1. cmd' = [cmd EXCEPT ![c] = cmd'[c]] /\ cmd'[c] \in CommandRecords
    BY <1>0, <1>20 DEF AuditFails, CommandRecords, CommandPlaces, Tasks
  <2> DEFINE permit == control.probe /\ cmd[c].prog # "probe"
  <2>2. permit \in BOOLEAN
    OBVIOUS
  <2>3. /\ control' = [control EXCEPT !.probe = permit]
        /\ UNCHANGED <<clock, waiting, ses>> /\ holder' = NoCommand
        /\ cmd[c].pc = "auditing" /\ Goto(c, "failed")
    BY <1>20 DEF AuditFails
  <2> HIDE DEF permit
  <2>4. control' \in GateType
    BY <1>0, <2>2, <2>3
  <2>5. c \notin waiting /\ holder = c /\ cmd'[c].pc = "failed"
    BY <1>0, <2>3 DEF Holding, CommandRecords
  <2> QED BY <1>0, <2>1, <2>3, <2>4, <2>5, CommandStepKeeps DEF Holding
<1>21. CASE RegisterProbe(c)
  <2>1. /\ UNCHANGED <<clock, holder, waiting, ses, cmd>>
        /\ c \notin waiting /\ cmd[c].pc = "auditing" /\ cmd[c].prog = "probe" /\ holder = c
        /\ control' \in GateType
    BY <1>0, <1>21 DEF RegisterProbe, Holding
  <2>2. cmd' = [cmd EXCEPT ![c] = cmd'[c]] /\ cmd'[c] \in CommandRecords
    BY <1>0, <2>1
  <2> QED BY <1>0, <2>1, <2>2, CommandStepKeeps DEF Holding
<1>22. CASE MaintenanceEnds(c)
  <2>1. cmd' = [cmd EXCEPT ![c] = cmd'[c]] /\ cmd'[c] \in CommandRecords
    BY <1>0, <1>22 DEF MaintenanceEnds, CommandRecords, CommandPlaces, Tasks
  <2>2. /\ control' \in GateType /\ UNCHANGED <<clock, waiting, ses>>
        /\ c \notin waiting /\ cmd'[c].pc = "done"
        /\ holder' = NoCommand /\ holder = c
    BY <1>0, <1>22 DEF MaintenanceEnds, Holding
  <2> QED BY <1>0, <2>1, <2>2, CommandStepKeeps DEF Holding
<1> QED BY <1>1, <1>2, <1>3, <1>4, <1>5, <1>6, <1>7, <1>8, <1>9, <1>10, <1>11, <1>12, <1>13, <1>14, <1>15, <1>16, <1>17, <1>18, <1>19, <1>20, <1>21, <1>22 DEF Runs

\* The end of a permit touches neither the gate's instance nor its mark.
LEMMA PermitKeeps ==
    ASSUME IInv, PermitEnds
    PROVE  IInv'
<1>1. /\ UNCHANGED <<clock, holder, waiting, ses, cmd>>
      /\ control' = [control EXCEPT !.probe = FALSE]
  BY DEF PermitEnds, locks
<1>2. /\ control' \in [at : Nat, paired : BOOLEAN, probe : BOOLEAN]
      /\ control'.at = control.at /\ control'.paired = control.paired
      /\ control'.probe = FALSE
  BY <1>1 DEF IInv, TypeOK
<1>3. TypeOK'
  BY <1>1, <1>2 DEF IInv, TypeOK
<1> QED BY <1>1, <1>2, <1>3
        DEF IInv, SharesAreKept, HolderIsAtWork, LockExcludes, Unshared,
            PushKnowsItsGate, WorkHasOperations, NoWorkUnderTheGate, Busy

-----------------------------------------------------------------------------
(* The theorems *)

LEMMA InitEstablishes == Init => IInv
BY DEF Init, IInv, TypeOK, NoGate, SessionPlaces, CommandPlaces, AllPrograms, Tasks,
       SharesAreKept, HolderIsAtWork, LockExcludes, PushKnowsItsGate,
       WorkHasOperations, NoWorkUnderTheGate, Joined, Holding

LEMMA NextKeeps == IInv /\ [Next]_vars => IInv'
<1> SUFFICES ASSUME IInv, [Next]_vars PROVE IInv'
  OBVIOUS
<1>1. CASE \E s \in Sessions : Works(s) \/ SessionDies(s)
  BY <1>1, SessionsKeep
<1>2. CASE \E c \in Commands : Runs(c) \/ TimesOut(c) \/ CommandDies(c)
  BY <1>2, CommandsKeep
<1>3. CASE \E c \in Commands, p \in Programs : Start(c, p)
  BY <1>3, CommandsKeep
<1>4. CASE PermitEnds
  BY <1>4, PermitKeeps
<1>5. CASE UNCHANGED vars
  BY <1>5 DEF vars, IInv, TypeOK, SharesAreKept, HolderIsAtWork, LockExcludes, Unshared,
              PushKnowsItsGate, WorkHasOperations, NoWorkUnderTheGate, Busy
<1> QED BY <1>1, <1>2, <1>3, <1>4, <1>5 DEF Next

\* The invariant holds in every reachable state.
THEOREM Invariance == Spec => []IInv
BY InitEstablishes, NextKeeps, PTL DEF Spec

\* The state has its type in every reachable state.
THEOREM TypeInvariant == Spec => []TypeOK
<1>1. IInv => TypeOK
  BY DEF IInv
<1> QED BY <1>1, Invariance, PTL

\* However many sessions nest and mutate, however many commands come, time out
\* or are killed: while the control row exists no admitted work is under way.
THEOREM GateStopsWork == Spec => []NoWorkUnderTheGate
<1>1. IInv => NoWorkUnderTheGate
  BY DEF IInv
<1> QED BY <1>1, Invariance, PTL

\* A static verification pushes under the gate it read, ordinary still, with no
\* admitted work under way.
THEOREM VerificationIsCovered == Spec => []VerificationCoversTheGate
<1>1. IInv => VerificationCoversTheGate
  <2> SUFFICES ASSUME IInv, NEW c \in Commands, cmd[c].pc = "pushing"
               PROVE  /\ control.at = cmd[c].seen /\ ~control.paired
                      /\ \A s \in Sessions : ~Busy(s)
    BY DEF VerificationCoversTheGate
  <2>1. Unshared
    BY CommandFacts DEF Holding
  <2>2. ASSUME NEW s \in Sessions PROVE ~Busy(s)
    BY <2>1, SessionFacts DEF Unshared, Busy, Joined
  <2> QED BY <2>2 DEF IInv, PushKnowsItsGate
<1> QED BY <1>1, Invariance, PTL

\* The steps that touch the control row.
LEMMA WhoChangesTheGate ==
    ASSUME Next, control' # control
    PROVE  \/ PermitEnds
           \/ \E c \in Commands : \/ Quiesce(c) \/ Resume(c) \/ VerificationPasses(c)
                                  \/ AuditPasses(c) \/ AuditFails(c) \/ RegisterProbe(c)
<1> USE DEF gate
<1>1. ASSUME NEW s \in Sessions PROVE ~(Works(s) \/ SessionDies(s))
  BY DEF Works, SessionDies, EnterOperation, AfterJoin, CheckOperation, LeaveOperation,
         AskMutation, TakeMutation, RejoinMutation, RecheckMutation, EndMutation, SessionStep
<1>2. ASSUME NEW c \in Commands
      PROVE  ~(TimesOut(c) \/ CommandDies(c) \/ \E p \in Programs : Start(c, p))
  BY DEF TimesOut, CommandDies, Start
<1>3. ASSUME NEW c \in Commands, Runs(c)
      PROVE  \/ Quiesce(c) \/ Resume(c) \/ VerificationPasses(c)
             \/ AuditPasses(c) \/ AuditFails(c) \/ RegisterProbe(c)
  <2>1. ~(Request(c) \/ Grant(c) \/ Unlock(c) \/ ResumeNothing(c) \/ ResumeRefused(c))
    BY DEF Request, Grant, Unlock, ResumeNothing, ResumeRefused
  <2>2. ~(PreparePasses(c) \/ PrepareFails(c) \/ RestorePasses(c) \/ RestoreFails(c))
    BY DEF PreparePasses, PrepareFails, RestorePasses, RestoreFails
  <2>3. ~(BeginVerification(c) \/ VerificationFails(c) \/ TryGate(c) \/ MaintenanceEnds(c))
    BY DEF BeginVerification, VerificationFails, TryGate, MaintenanceEnds
  <2> QED BY <1>3, <2>1, <2>2, <2>3 DEF Runs
<1> QED BY <1>1, <1>2, <1>3 DEF Next

\* No interleaving of commands, whatever they read before they had the lock,
\* takes a paired gate away or its mark off it without paired verification.
THEOREM PairedGateIsKept == Spec => PairedGateNeedsItsVerification
<1> DEFINE Lost == /\ control.at # 0 /\ control.paired
                   /\ control'.at # control.at \/ ~control'.paired
           Verified == /\ ~control.probe
                       /\ \E c \in Commands : holder = c /\ Audits(c)
<1>1. ASSUME IInv, Next, Lost PROVE Verified
  <2>0. control \in [at : Nat, paired : BOOLEAN, probe : BOOLEAN]
    BY <1>1 DEF IInv, TypeOK
  <2>1. ~PermitEnds
    BY <1>1, <2>0 DEF PermitEnds
  <2>2. PICK c \in Commands : \/ Quiesce(c) \/ Resume(c) \/ VerificationPasses(c)
                              \/ AuditPasses(c) \/ AuditFails(c) \/ RegisterProbe(c)
    BY <1>1, <2>1, WhoChangesTheGate
  <2>3. ~Quiesce(c)
    BY <1>1, <2>0 DEF Quiesce
  <2>4. ~Resume(c)
    BY <1>1 DEF Resume, Guarded
  <2>5. ~VerificationPasses(c)
    BY <1>1 DEF VerificationPasses, IInv, PushKnowsItsGate
  <2>6. ~AuditFails(c) /\ ~RegisterProbe(c)
    BY <1>1, <2>0 DEF AuditFails, RegisterProbe
  <2>7. Audits(c)
    BY <2>2, <2>3, <2>4, <2>5, <2>6 DEF AuditPasses
  <2>8. holder = c
    BY <1>1, <2>7, CommandFacts DEF Audits, Holding
  <2>9. ~control.probe
    BY <1>1, <2>7 DEF IInv, PushKnowsItsGate, Audits
  <2> QED BY <2>7, <2>8, <2>9
<1>2. IInv /\ [Next]_vars => [Lost => Verified]_vars
  BY <1>1
<1> QED BY <1>2, Invariance, PTL DEF Spec, PairedGateNeedsItsVerification

-----------------------------------------------------------------------------
(* Whose gate a command ends *)

\* The commands that may create a gate, and end it on their own.
Creators == {"prepare", "prepare_paired", "restore"}

\* What a command does under the lock is what it was started for.
ErrandFits(c) ==
    /\ cmd[c].task \in {"abort", "verify"} => cmd[c].prog = cmd[c].task
    /\ cmd[c].pc = "pushing" => cmd[c].task = "verify"
    /\ cmd[c].pc \in {"trying", "auditing"} => cmd[c].prog \notin Creators

ErrandsFit == \A c \in Commands : ErrandFits(c)

\* A command that moves on, and may turn to releasing its own gate.
MovesOn(c) ==
    \E place \in CommandPlaces \ {"pushing", "trying", "auditing"},
       task \in {cmd[c].task, "release"} :
        cmd' = [cmd EXCEPT ![c].pc = place, ![c].task = task]

\* No step of a command changes its errand, but for its start and a release.
LEMMA CommandsMove ==
    ASSUME TypeOK, NEW c \in Commands, Runs(c) \/ TimesOut(c) \/ CommandDies(c)
    PROVE  \/ UNCHANGED cmd
           \/ MovesOn(c)
           \/ Quiesce(c)
           \/ BeginVerification(c)
           \/ TryGate(c)
<1>0. cmd \in [Commands -> CommandRecords]
  BY DEF TypeOK, CommandRecords
<1>1. ASSUME NEW place \in CommandPlaces \ {"pushing", "trying", "auditing"}, Goto(c, place)
      PROVE  MovesOn(c)
  <2>1. cmd' = [cmd EXCEPT ![c].pc = place, ![c].task = cmd[c].task]
    BY <1>0, <1>1 DEF Goto, CommandRecords
  <2> QED BY <1>1, <2>1 DEF MovesOn
<1>2. ASSUME NEW place \in {"failed", "done"}, ReleaseOwn(c, place)
      PROVE  MovesOn(c)
  <2>1. CASE cmd[c].created # 0 /\ cmd[c].prog # "prepare_paired"
    <3>1. cmd' = [cmd EXCEPT ![c].pc = "asking", ![c].task = "release"]
      BY <1>2, <2>1 DEF ReleaseOwn
    <3> QED BY <3>1 DEF MovesOn, CommandPlaces
  <2>2. CASE ~(cmd[c].created # 0 /\ cmd[c].prog # "prepare_paired")
    <3>1. Goto(c, place)
      BY <1>2, <2>2 DEF ReleaseOwn, Goto
    <3> QED BY <1>1, <3>1 DEF CommandPlaces
  <2> QED BY <2>1, <2>2
<1>3. CASE Request(c) \/ Grant(c) \/ TimesOut(c) \/ CommandDies(c)
  BY <1>1, <1>3 DEF Request, Grant, TimesOut, CommandDies, CommandPlaces
<1>4. CASE Unlock(c)
  <2>1. After(c) \in {"failed", "maintaining", "waiting_out", "done"}
    BY DEF After
  <2> QED BY <1>1, <1>4, <2>1 DEF Unlock, CommandPlaces
<1>5. CASE ResumeNothing(c) \/ ResumeRefused(c) \/ Resume(c)
  BY <1>1, <1>5 DEF ResumeNothing, ResumeRefused, Resume, CommandPlaces
<1>6. CASE PreparePasses(c) \/ PrepareFails(c) \/ RestorePasses(c) \/ RestoreFails(c)
  BY <1>1, <1>2, <1>6 DEF PreparePasses, PrepareFails, RestorePasses, RestoreFails, CommandPlaces
<1>7. CASE VerificationFails(c) \/ VerificationPasses(c)
  BY <1>1, <1>7 DEF VerificationFails, VerificationPasses, CommandPlaces
<1>8. CASE AuditPasses(c) \/ AuditFails(c) \/ MaintenanceEnds(c)
  BY <1>1, <1>8 DEF AuditPasses, AuditFails, MaintenanceEnds, CommandPlaces
<1>9. CASE RegisterProbe(c)
  BY <1>9 DEF RegisterProbe
<1> QED BY <1>3, <1>4, <1>5, <1>6, <1>7, <1>8, <1>9 DEF Runs

\* A command's step keeps its errand, whichever command's step it is.
LEMMA ErrandsKept ==
    ASSUME TypeOK, ErrandsFit, NEW c \in Commands,
           Runs(c) \/ TimesOut(c) \/ CommandDies(c) \/ \E p \in Programs : Start(c, p)
    PROVE  ErrandsFit'
<1>0. cmd \in [Commands -> CommandRecords]
  BY DEF TypeOK, CommandRecords
<1>1. SUFFICES /\ ErrandFits(c)'
               /\ \A d \in Commands \ {c} : cmd'[d] = cmd[d]
  BY DEF ErrandsFit, ErrandFits
<1>2. ErrandFits(c)
  BY DEF ErrandsFit
<1>3. CASE UNCHANGED cmd
  BY <1>2, <1>3 DEF ErrandFits
<1>4. CASE MovesOn(c)
  BY <1>0, <1>2, <1>4 DEF MovesOn, ErrandFits, CommandRecords
<1>5. CASE Quiesce(c)
  <2>1. PICK created \in {clock + 1, 0} :
             cmd' = [cmd EXCEPT ![c].pc = "committed", ![c].created = created]
    BY <1>5 DEF Quiesce
  <2> QED BY <1>0, <1>2, <2>1 DEF ErrandFits, CommandRecords
<1>6. CASE BeginVerification(c)
  BY <1>0, <1>2, <1>6 DEF BeginVerification, ErrandFits, CommandRecords
<1>7. CASE TryGate(c)
  <2>1. cmd[c].pc = "trying" /\ (Goto(c, "auditing") \/ Goto(c, "failed"))
    BY <1>7 DEF TryGate
  <2> QED BY <1>0, <1>2, <2>1 DEF Goto, ErrandFits, CommandRecords
<1>8. CASE \E p \in Programs : Start(c, p)
  <2>1. PICK p \in Programs : Start(c, p)
    BY <1>8
  <2>2. PICK place \in {"trying", "asking"}, task \in Tasks :
          /\ cmd' = [cmd EXCEPT ![c].pc = place, ![c].prog = p, ![c].task = task]
          /\ place = "trying" => p \notin Creators
          /\ task \in {"abort", "verify"} => p = task
    <3> DEFINE paired == \/ p \in {"resume", "maintenance", "probe"}
                         \/ p \in {"abort", "verify"} /\ control.paired
               t == IF paired THEN "none" ELSE IF p \in {"abort", "verify"} THEN p ELSE "quiesce"
               l == IF paired THEN "trying" ELSE "asking"
    <3>1. cmd' = [cmd EXCEPT ![c].pc = l, ![c].prog = p, ![c].task = t]
      BY <2>1 DEF Start
    <3>2. /\ l \in {"trying", "asking"} /\ t \in Tasks
          /\ l = "trying" => p \notin Creators
          /\ t \in {"abort", "verify"} => p = t
      BY DEF Tasks, Creators
    <3> HIDE DEF l, t
    <3> QED BY <3>1, <3>2
  <2>3. /\ cmd'[c].pc = place /\ cmd'[c].prog = p /\ cmd'[c].task = task
        /\ \A d \in Commands \ {c} : cmd'[d] = cmd[d]
    BY <1>0, <2>2 DEF CommandRecords
  <2> QED BY <2>2, <2>3 DEF ErrandFits
<1> QED BY <1>3, <1>4, <1>5, <1>6, <1>7, <1>8, CommandsMove

\* Every command stays on its errand.
LEMMA ErrandInvariance == Spec => []ErrandsFit
<1>1. Init => ErrandsFit
  BY DEF Init, ErrandsFit, ErrandFits
<1>2. TypeOK /\ ErrandsFit /\ [Next]_vars => ErrandsFit'
  <2> SUFFICES ASSUME TypeOK, ErrandsFit, [Next]_vars PROVE ErrandsFit'
    OBVIOUS
  <2>1. CASE \E s \in Sessions : Works(s) \/ SessionDies(s)
    <3>1. UNCHANGED cmd
      BY <2>1 DEF Works, SessionDies, EnterOperation, AfterJoin, CheckOperation, LeaveOperation,
             AskMutation, TakeMutation, RejoinMutation, RecheckMutation, EndMutation, SessionStep
    <3> QED BY <3>1 DEF ErrandsFit, ErrandFits
  <2>2. CASE \E c \in Commands : Runs(c) \/ TimesOut(c) \/ CommandDies(c)
    BY <2>2, ErrandsKept
  <2>3. CASE \E c \in Commands, p \in Programs : Start(c, p)
    BY <2>3, ErrandsKept
  <2>4. CASE PermitEnds \/ UNCHANGED vars
    BY <2>4 DEF PermitEnds, vars, ErrandsFit, ErrandFits
  <2> QED BY <2>1, <2>2, <2>3, <2>4 DEF Next
<1> QED BY <1>1, <1>2, TypeInvariant, PTL DEF Spec

\* However many commands come, time out or are killed between their steps, a
\* preparation, a restore or a cutover ends no gate instance but the one it
\* created, and a static verification none but the one it pushed under.
THEOREM OthersGatesAreKept == Spec => NobodyElsesGateIsReleased
<1> DEFINE Gone == control.at # 0 /\ control'.at # control.at
           Its(c) == CASE cmd[c].prog \in {"prepare", "prepare_paired", "restore"} ->
                             cmd[c].created = control.at
                       [] cmd[c].pc = "pushing" -> cmd[c].seen = control.at
                       [] OTHER -> TRUE
           Own == \A c \in Commands : holder = c => Its(c)
<1>1. ASSUME IInv, ErrandsFit, Next, Gone PROVE Own
  <2>0. control \in [at : Nat, paired : BOOLEAN, probe : BOOLEAN]
    BY <1>1 DEF IInv, TypeOK
  <2>1. ~PermitEnds
    BY <1>1, <2>0 DEF PermitEnds
  <2>2. PICK c \in Commands : \/ Quiesce(c) \/ Resume(c) \/ VerificationPasses(c)
                              \/ AuditPasses(c) \/ AuditFails(c) \/ RegisterProbe(c)
    BY <1>1, <2>1, WhoChangesTheGate
  <2>3. ~Quiesce(c) /\ ~AuditFails(c) /\ ~RegisterProbe(c)
    BY <1>1, <2>0 DEF Quiesce, AuditFails, RegisterProbe
  <2>4. ErrandFits(c) /\ (cmd[c].pc \in Holding => holder = c)
    BY <1>1, CommandFacts DEF ErrandsFit
  <2>5. SUFFICES cmd[c].pc \in Holding /\ Its(c)
    BY <2>4
  <2>6. CASE Resume(c)
    <3>1. /\ cmd[c].pc = "holding" /\ cmd[c].task \in {"release", "abort"}
          /\ ~Foreign(c)
      BY <2>6 DEF Resume, Resuming
    <3>2. cmd[c].prog \in {"prepare", "prepare_paired", "restore"} => cmd[c].created = control.at
      BY <2>4, <3>1 DEF Foreign, ErrandFits
    <3> QED BY <3>1, <3>2 DEF Holding
  <2>7. CASE VerificationPasses(c)
    <3>1. cmd[c].pc = "pushing" /\ cmd[c].prog = "verify"
      BY <2>4, <2>7 DEF VerificationPasses, ErrandFits
    <3>2. cmd[c].seen = control.at
      BY <1>1, <3>1 DEF IInv, PushKnowsItsGate
    <3> QED BY <3>1, <3>2 DEF Holding
  <2>8. CASE AuditPasses(c)
    BY <2>4, <2>8 DEF AuditPasses, Audits, ErrandFits, Creators, Holding
  <2> QED BY <2>2, <2>3, <2>6, <2>7, <2>8
<1>2. IInv /\ ErrandsFit /\ [Next]_vars => [Gone => Own]_vars
  BY <1>1
<1> QED BY <1>2, Invariance, ErrandInvariance, PTL DEF Spec, NobodyElsesGateIsReleased

-----------------------------------------------------------------------------
(* The refinement of FleetGate *)

\* A step is of one session, which leaves the row alone, or leaves all sessions alone.
LEMMA OneSessionMoves ==
    ASSUME [Next]_vars
    PROVE  \/ UNCHANGED ses
           \/ /\ UNCHANGED control
              /\ \E s \in Sessions : \E r : ses' = [ses EXCEPT ![s] = r]
<1> USE DEF gate
<1>1. ASSUME NEW s \in Sessions, Works(s) \/ SessionDies(s)
      PROVE  UNCHANGED control /\ \E r : ses' = [ses EXCEPT ![s] = r]
  BY <1>1 DEF Works, SessionDies, EnterOperation, AfterJoin, CheckOperation, LeaveOperation,
         AskMutation, TakeMutation, RejoinMutation, RecheckMutation, EndMutation, SessionStep
<1>2. ASSUME NEW c \in Commands, Runs(c)
      PROVE  UNCHANGED ses
  <2>1. Request(c) \/ Grant(c) \/ Unlock(c) \/ Quiesce(c) \/ ResumeNothing(c)
          \/ ResumeRefused(c) \/ Resume(c) => UNCHANGED ses
    BY DEF Request, Grant, Unlock, Quiesce, ResumeNothing, ResumeRefused, Resume
  <2>2. PreparePasses(c) \/ PrepareFails(c) \/ RestorePasses(c) \/ RestoreFails(c)
          => UNCHANGED ses
    BY DEF PreparePasses, PrepareFails, RestorePasses, RestoreFails
  <2>3. BeginVerification(c) \/ VerificationFails(c) \/ VerificationPasses(c)
          \/ TryGate(c) \/ AuditPasses(c) \/ AuditFails(c) \/ RegisterProbe(c)
          \/ MaintenanceEnds(c) => UNCHANGED ses
    BY DEF BeginVerification, VerificationFails, VerificationPasses, TryGate, AuditPasses,
           AuditFails, RegisterProbe, MaintenanceEnds
  <2> QED BY <1>2, <2>1, <2>2, <2>3 DEF Runs
<1>3. ASSUME \/ \E c \in Commands : TimesOut(c) \/ CommandDies(c)
             \/ \E c \in Commands, p \in Programs : Start(c, p)
             \/ PermitEnds
             \/ UNCHANGED vars
      PROVE  UNCHANGED ses
  BY <1>3 DEF TimesOut, CommandDies, Start, PermitEnds, vars
<1> QED BY <1>1, <1>2, <1>3 DEF Next

\* The gate implements FleetGate for any sessions, commands, programs and faults.
THEOREM GateImplementsFleetGate == Spec => FleetGateIsKept
<1> DEFINE closed == control.at # 0
           admitted == {s \in Sessions : Busy(s)}
<1>1. Init => Fleet!Init
  BY DEF Init, Fleet!Init, NoGate, Busy
<1>2. ASSUME IInv, IInv', [Next]_vars
      PROVE  [Fleet!Next]_<<closed, admitted>>
  <2>1. closed => admitted = {}
    BY <1>2 DEF IInv, NoWorkUnderTheGate
  <2>2. closed' => admitted' = {}
    BY <1>2 DEF IInv, NoWorkUnderTheGate
  <2>3. CASE UNCHANGED ses
    <3>1. admitted' = admitted
      BY <2>3 DEF Busy
    <3>2. CASE closed'
      BY <2>2, <3>1, <3>2 DEF Fleet!Next, Fleet!Close
    <3>3. CASE ~closed'
      BY <3>1, <3>3 DEF Fleet!Next, Fleet!Open
    <3> QED BY <3>2, <3>3
  <2>4. ASSUME UNCHANGED control, NEW s \in Sessions, NEW r, ses' = [ses EXCEPT ![s] = r]
        PROVE  [Fleet!Next]_<<closed, admitted>>
    <3>1. \A t \in Sessions \ {s} : Busy(t)' = Busy(t)
      BY <2>4 DEF Busy, IInv, TypeOK
    <3>2. closed' = closed
      BY <2>4
    <3>3. CASE Busy(s)'
      <4>1. admitted' = admitted \union {s}
        BY <3>1, <3>3, Zenon
      <4>2. ~closed
        BY <2>2, <3>2, <4>1
      <4> QED BY <3>2, <4>1, <4>2 DEF Fleet!Next, Fleet!Admit
    <3>4. CASE ~Busy(s)'
      <4>1. admitted' = admitted \ {s}
        BY <3>1, <3>4, Zenon
      <4> QED BY <3>2, <4>1 DEF Fleet!Next, Fleet!Leave
    <3> QED BY <3>3, <3>4
  <2> QED BY <1>2, <2>3, <2>4, OneSessionMoves
<1> QED BY <1>1, <1>2, Invariance, PTL DEF Spec, FleetGateIsKept, Fleet!Spec
=============================================================================
