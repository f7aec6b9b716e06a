------------------------------ MODULE Settlement ------------------------------
(***************************************************************************)
(* The settlement feed of one device: the cursor a pass walks over the     *)
(* adapter's ordered jobs, the executions it certifies, the diagnostic and *)
(* the issue it publishes when a job's evidence cannot be read, and the    *)
(* operator who acknowledges that issue as "outcome unknown".              *)
(*                                                                         *)
(* Passes (settlement.py) are the Workers: a callback, a reconcile and the *)
(* sweep may each run one.  A pass reads without a lock, then commits one  *)
(* carrier per transaction, and every transaction compares the fence (the  *)
(* mapping and the cursor) the pass last saw.  Evidence is whatever the    *)
(* adapter answers now: it may turn unreadable, be repaired, or surface    *)
(* late, and the adapter may be rebuilt or the device mapped elsewhere.    *)
(***************************************************************************)
EXTENDS Integers, Sequences, Functions, FiniteSetsExt

CONSTANTS
    Workers,        \* passes that may run at once
    Devices,        \* adapter device ids the row may be mapped to
    None,           \* no read, no diagnostic, no decision
    MaxJobs,        \* jobs that ever land, the history included
    MaxStores,      \* adapter stores: the first and its rebuilds
    MaxFlips,       \* changes of a job's evidence after it landed
    MaxMoves,       \* mapping changes and rebuilds together
    MaxFaults,      \* passes killed between two of their steps
    PageSize,       \* SETTLE_FEED_PAGE
    Landings,       \* the jobs that may land, as the adapter first serves them
    History         \* jobs the cursor had passed before executions were kept

ASSUME SettlementAssumption ==
    /\ {MaxJobs, MaxFlips, MaxMoves, MaxFaults, History} \subseteq Nat
    /\ {MaxStores, PageSize} \subseteq Nat \ {0}
    /\ History <= MaxJobs
    /\ Devices # {}
    /\ None \notin Devices \cup Workers

VARIABLES
    store,      \* the adapter's store incarnation
    jobs,       \* per device, its terminal jobs in settlement order
    row,        \* the management row
    exec,       \* the execution of each job's generation
    issues,     \* the published issue revisions and their state
    pass,       \* each worker's pass
    budget      \* what is left of jobs, flips, moves and faults

vars == <<store, jobs, row, exec, issues, pass, budget>>

-----------------------------------------------------------------------------
(* What the adapter serves: a job's item in the feed and the row its        *)
(* generation has in the listing, each readable ("good") or not ("bad");    *)
(* the row may surface after the job.  Only "apply" jobs carry a generation. *)

Kinds == {"apply", "other"}
Job == [kind : Kinds, item : {"good", "bad"}, row : {"none", "good", "bad"}]

Positions == 1..MaxJobs
Feeds == {s \in Seq(Job) : Len(s) <= MaxJobs}
Keys == [store : 1..MaxStores, dev : Devices, job : Positions]
Key(s, d, n) == [store |-> s, dev |-> d, job |-> n]

\* One execution's consumption state; "none" is no execution row.
ExecStates == {"none", "unconsumed", "consumed", "acknowledged"}
Decided == {"consumed", "acknowledged"}

\* What is stored, and what a pass carries from one of its steps to the next.
Cursors == [store : 1..MaxStores, dev : Devices, seq : 0..MaxJobs]
Fences == [dev : Devices, epoch : Nat, cur : Cursors]
Classes == {"invalid_evidence", "evidence_invariant"}
Exits == {"unidentified", "unordered", "ownership_unbounded", "resolved_obligation", "acknowledgeable"}
Stalls == [fence : Fences, job : Positions, store : 1..MaxStores, cls : Classes]
Diagnostics ==
    [fence : Fences, job : Positions, store : 1..MaxStores, cls : Classes, exit : Exits \cup {"none"}]
Rows == [dev : Devices, epoch : Nat, cur : Cursors, stall : 0..MaxJobs,
         diag : Diagnostics \cup {None}, resume : BOOLEAN]
Revisions ==
    [dev : Devices, store : 1..MaxStores, job : Positions, fence : Fences, cls : Classes,
     position : {"historical", "next_feed"}, seen : Job, head : 0..MaxJobs, held : ExecStates]
Reads == [store : 1..MaxStores, dev : Devices, epoch : Nat, after : 0..MaxJobs, jobs : Feeds]
Carriers == [job : Positions, kind : Kinds, items : SUBSET {"good", "bad"}, row : {"none", "good", "bad"}]
Walks == [pc : {"prepare", "commit", "check"}, resume : BOOLEAN, seen : SUBSET Revisions,
          read : Reads \cup {None}, feed : SUBSET Positions, fence : Fences, store : 1..MaxStores,
          cursor : 0..MaxJobs, reset : BOOLEAN, history : SUBSET Positions, todo : Seq(Carriers),
          alone : BOOLEAN, short : BOOLEAN, released : BOOLEAN]
Budgets == [jobs : 0..MaxJobs, flips : Nat, moves : Nat, faults : Nat]
Idle == [pc |-> "idle"]
Passes ==
    {Idle, [pc |-> "publish"]} \cup Walks
    \cup [pc : {"read"}, resume : BOOLEAN, fence : Fences, store : 1..MaxStores, seen : SUBSET Revisions]
    \cup [pc : {"page"}, resume : BOOLEAN, seen : SUBSET Revisions, read : Reads \cup {None}]
    \cup [pc : {"clear"}, fence : Fences, seen : SUBSET Revisions]
    \cup [pc : {"diagnose"}, fence : Fences, store : 1..MaxStores, seen : SUBSET Revisions, stall : Stalls]
    \cup [pc : {"record"}, stall : Stalls, exit : Exits, revision : Revisions \cup {None}]

\* No stall and no diagnostic is the absence of one.
ASSUME NoneAssumption == None \notin Stalls \cup Diagnostics
ASSUME LandingsAssumption == Landings \subseteq Job

FenceOf(r) == [dev |-> r.dev, epoch |-> r.epoch, cur |-> r.cur]
Fence == FenceOf(row)

\* The cursor counts only in the store and device it was written for.
SeqIn(cur, s, d) == IF cur.store = s /\ cur.dev = d THEN cur.seq ELSE 0

FeedPage(d, seq) ==
    LET last == Min({seq + PageSize, Len(jobs[d])})
    IN  [i \in 1..(last - seq) |-> seq + i]

AcknowledgedIssues == {k \in DOMAIN issues : issues[k] = "acknowledged"}

\* The feed jobs whose every obligation an acknowledged issue released.
AcknowledgedJobs(s) ==
    {k.job : k \in {j \in AcknowledgedIssues : j.dev = row.dev /\ j.store = s}}

\* The jobs an acknowledgement released after the pass took its snapshot.
ReleasedSince(seen) == {<<k.store, k.job>> : k \in AcknowledgedIssues \ seen}

-----------------------------------------------------------------------------
NewRow ==
    LET d == CHOOSE x \in Devices : TRUE
    IN  [dev |-> d, epoch |-> 0, cur |-> [store |-> 1, dev |-> d, seq |-> History],
         stall |-> 0, diag |-> None, resume |-> FALSE]

Init ==
    /\ store = 1
    /\ jobs = [d \in Devices |->
                  IF d = NewRow.dev
                  THEN [n \in 1..History |-> [kind |-> "apply", item |-> "good", row |-> "none"]]
                  ELSE <<>>]
    /\ row = NewRow
    /\ exec = [k \in Keys |-> "none"]
    /\ issues = <<>>
    /\ pass = [w \in Workers |-> Idle]
    /\ budget = [jobs |-> MaxJobs - History, flips |-> MaxFlips, moves |-> MaxMoves, faults |-> MaxFaults]

-----------------------------------------------------------------------------
(* The adapter and the operators around the feed.                          *)

\* A job of the mapped device becomes terminal and takes the next sequence.
JobLands(job) ==
    /\ budget.jobs > 0
    /\ jobs' = [jobs EXCEPT ![row.dev] = Append(@, job)]
    /\ budget' = [budget EXCEPT !.jobs = @ - 1]
    /\ UNCHANGED <<store, row, exec, issues, pass>>

\* A feed item stops being readable, or is repaired.
ItemFlips(n) ==
    /\ budget.flips > 0 /\ n \in DOMAIN jobs[row.dev]
    /\ jobs' = [jobs EXCEPT ![row.dev][n].item = IF @ = "good" THEN "bad" ELSE "good"]
    /\ budget' = [budget EXCEPT !.flips = @ - 1]
    /\ UNCHANGED <<store, row, exec, issues, pass>>

\* A generation's row surfaces in the listing, stops being readable, or is repaired.
RowFlips(n, now) ==
    /\ budget.flips > 0 /\ n \in DOMAIN jobs[row.dev]
    /\ jobs[row.dev][n].kind = "apply" /\ jobs[row.dev][n].row # now
    /\ jobs' = [jobs EXCEPT ![row.dev][n].row = now]
    /\ budget' = [budget EXCEPT !.flips = @ - 1]
    /\ UNCHANGED <<store, row, exec, issues, pass>>

\* The adapter is rebuilt: a new incarnation, and every feed restarts.
Rebuild ==
    /\ store < MaxStores /\ budget.moves > 0
    /\ store' = store + 1
    /\ jobs' = [d \in Devices |-> <<>>]
    /\ budget' = [budget EXCEPT !.moves = @ - 1]
    /\ UNCHANGED <<row, exec, issues, pass>>

\* The device is mapped to another adapter device, perhaps back to an earlier one, or its source
\* is rekeyed; either changes the mapping epoch.
Remap(d) ==
    /\ budget.moves > 0
    /\ row' = [row EXCEPT !.dev = d, !.epoch = @ + 1]
    /\ budget' = [budget EXCEPT !.moves = @ - 1]
    /\ UNCHANGED <<store, jobs, exec, issues, pass>>

-----------------------------------------------------------------------------
(* Issues: what a stall may be acknowledged as, and when it is retired.     *)

Stall(fence, n, s, cls) == [fence |-> fence, job |-> n, store |-> s, cls |-> cls]
Base(diag) == IF diag = None THEN None ELSE Stall(diag.fence, diag.job, diag.store, diag.cls)

\* The deployment head: the last job whose generation is listed.
DeploymentHead(d) == Max({0} \cup {n \in DOMAIN jobs[d] : jobs[d][n].row # "none"})

\* The exit of a stall: why it is not acknowledgeable, or that it is.
Exit(stall) ==
    LET n == stall.job
        at == SeqIn(stall.fence.cur, stall.store, row.dev)
        h == DeploymentHead(row.dev)
        j == jobs[row.dev][n]
    IN  IF Fence # stall.fence THEN "unidentified"
        ELSE IF store # stall.store \/ n \notin DOMAIN jobs[row.dev] \/ n > at + 1 THEN "unordered"
        ELSE IF \/ h # n /\ h # 0 /\ jobs[row.dev][h].row = "bad"
                \/ j.item = "good" /\ j.kind = "apply" /\ j.row = "none" THEN "ownership_unbounded"
        ELSE IF j.row # "none" /\ exec[Key(store, row.dev, n)] \in Decided THEN "resolved_obligation"
        ELSE "acknowledgeable"

\* One revision: the stall, its position, and every fact its digests cover.
Revision(stall) ==
    LET n == stall.job
        at == SeqIn(stall.fence.cur, stall.store, row.dev)
    IN  [dev |-> row.dev, store |-> stall.store, job |-> n, fence |-> stall.fence, cls |-> stall.cls,
         position |-> IF n <= at THEN "historical" ELSE "next_feed",
         seen |-> jobs[row.dev][n], head |-> DeploymentHead(row.dev), held |-> exec[Key(stall.store, row.dev, n)]]

OpenIssues == {k \in DOMAIN issues : issues[k] = "open"}

Current(k, r) ==
    /\ FenceOf(r) = k.fence /\ r.diag # None
    /\ <<r.diag.fence, r.diag.job, r.diag.store>> = <<k.fence, k.job, k.store>>

\* Mutant: the cursor alone counts, also for a job it had passed before.
ProgressedByCursor(k, r, ex) == r.cur.store = k.store /\ r.cur.dev = k.dev /\ r.cur.seq >= k.job

\* The work an open issue asked for is done: the cursor passed it, or all of it is certified.
Progressed(k, r, ex) ==
    \/ k.position = "next_feed" /\ r.cur.store = k.store /\ r.cur.dev = k.dev /\ r.cur.seq >= k.job
    \/ k.position = "historical" /\ (k.seen.row # "none" => ex[Key(k.store, k.dev, k.job)] = "consumed")

\* Close the open revisions whose diagnostic or fence is no longer current.  A superseded one
\* is dropped: publishing the same revision again reopens it, which is creating it.
Retired(r, ex) ==
    [k \in {j \in DOMAIN issues : issues[j] # "open" \/ Current(j, r) \/ Progressed(j, r, ex)} |->
        IF issues[k] = "open" /\ ~Current(k, r) THEN "resolved" ELSE issues[k]]

\* Write or clear the diagnostic of a row already locked; an unchanged rewrite keeps its exit.
WriteDiagnostic(r, stall, ex) ==
    /\ row' = [r EXCEPT !.diag =
                  IF Base(@) = stall THEN @
                  ELSE IF stall = None THEN None
                  ELSE [fence |-> stall.fence, job |-> stall.job, store |-> stall.store,
                        cls |-> stall.cls, exit |-> "none"]]
    /\ issues' = IF Base(r.diag) = stall THEN issues ELSE Retired(row', ex)

-----------------------------------------------------------------------------
(* One settlement pass.                                                    *)

\* The undecided apply jobs keep an overlay deploying, which is what the sweep selects.
Undecided == {n \in DOMAIN jobs[row.dev] :
                 /\ n > SeqIn(row.cur, store, row.dev)
                 /\ jobs[row.dev][n].kind = "apply"}
\* Mutant: the sweep does not select by the resume request.
OnlyUndecided == Undecided # {}
Candidate == row.resume \/ Undecided # {}

Begin(w) ==
    /\ pass[w].pc = "idle"
    /\ pass' = [pass EXCEPT ![w] =
                  [pc |-> "read", resume |-> row.resume, fence |-> Fence, store |-> store,
                   seen |-> AcknowledgedIssues]]
    /\ UNCHANGED <<store, jobs, row, exec, issues, budget>>

\* Feed, deployment evidence and listing, unlocked; no read when the store changed in between.
ReadEvidence(w) ==
    LET p == pass[w]
        after == SeqIn(p.fence.cur, store, p.fence.dev)
        read == [store |-> store, dev |-> row.dev, epoch |-> row.epoch, after |-> after, jobs |-> jobs[row.dev]]
    IN  /\ p.pc = "read"
        /\ IF <<row.dev, row.epoch>> # <<p.fence.dev, p.fence.epoch>>
           THEN pass' = [pass EXCEPT ![w] = Idle]
           ELSE \E r \in {read} \cup (IF store = p.store THEN {} ELSE {None}) :
                    pass' = [pass EXCEPT ![w] =
                        [pc |-> "page", resume |-> p.resume, seen |-> p.seen, read |-> r]]
        /\ UNCHANGED <<store, jobs, row, exec, issues, budget>>

\* Lock the row, read one page from its cursor, and order the work: certified history first.
LockPage(w) ==
    LET p == pass[w]
        reset == row.cur.store # store \/ row.cur.dev # row.dev
        cursor == SeqIn(row.cur, store, row.dev)
        page == FeedPage(row.dev, cursor)
        read == IF p.read # None /\ <<p.read.dev, p.read.epoch, p.read.store>> = <<row.dev, row.epoch, store>>
                THEN p.read ELSE None
        \* Jobs of the page join the feed of the read; the rest is candidate history.
        feed == IF read = None THEN {}
                ELSE {n \in DOMAIN read.jobs : n > read.after} \cup {page[i] : i \in DOMAIN page}
        history == IF read = None \/ reset THEN {}
                   ELSE {n \in DOMAIN read.jobs \ feed :
                           /\ read.jobs[n].row # "none" /\ n <= row.cur.seq
                           /\ exec[Key(store, row.dev, n)] = "consumed"}
        item(n) == IF read # None /\ n \in DOMAIN read.jobs /\ n > read.after
                   THEN <<read.jobs[n].item, jobs[row.dev][n].item>> ELSE <<jobs[row.dev][n].item>>
        listed(n) == IF read # None /\ n \in DOMAIN read.jobs THEN read.jobs[n].row ELSE "none"
        carrier(n) == [job |-> n, kind |-> jobs[row.dev][n].kind,
                       items |-> Range(item(n)), row |-> listed(n)]
    IN  /\ p.pc = "page"
        /\ pass' = [pass EXCEPT ![w] =
              [pc |-> "prepare", resume |-> p.resume, seen |-> p.seen, read |-> read, feed |-> feed,
               fence |-> Fence, store |-> store, cursor |-> cursor, reset |-> reset,
               history |-> history, todo |-> [i \in DOMAIN page |-> carrier(page[i])],
               alone |-> page = <<>>, short |-> Len(page) < PageSize, released |-> FALSE]]
        /\ UNCHANGED <<store, jobs, row, exec, issues, budget>>

\* The view of the read without what acknowledged issues released.
BadRows(p) ==
    {n \in DOMAIN p.read.jobs :
        p.read.jobs[n].row = "bad" /\ exec[Key(p.store, p.read.dev, n)] # "acknowledged"}
FeedOf(p) == (p.feed \cap DOMAIN p.read.jobs) \ AcknowledgedJobs(p.store)
BadItems(p) == {n \in FeedOf(p) : p.read.jobs[n].item = "bad"}
\* A listed generation needs its carrier in the feed or a certificate, a feed carrier its listed row.
Uncertified(p) ==
    {n \in DOMAIN p.read.jobs :
        \/ /\ n \notin FeedOf(p) /\ p.read.jobs[n].row = "good"
           /\ exec[Key(p.store, p.read.dev, n)] \notin Decided
        \/ n \in FeedOf(p) /\ p.read.jobs[n].kind = "apply" /\ p.read.jobs[n].row = "none"}

\* The first stall of a whole read: <<job, class>>, or None.
ReadStall(p) ==
    IF p.read = None THEN None
    ELSE IF BadItems(p) # {} THEN <<Min(BadItems(p)), "invalid_evidence">>
    ELSE IF BadRows(p) # {} THEN <<Min(BadRows(p)), "invalid_evidence">>
    ELSE IF Uncertified(p) # {} THEN <<Min(Uncertified(p)), "evidence_invariant">>
    ELSE None

\* The stall of one carrier: an unreadable item or row, or a job whose generation is not listed.
CarrierStall(p, item, released) ==
    IF released THEN None
    ELSE IF "bad" \in item.items \/ (p.read # None /\ item.row = "bad")
    THEN <<item.job, "invalid_evidence">>
    ELSE IF p.read # None /\ item.kind = "apply" /\ item.row = "none"
    THEN <<item.job, "evidence_invariant">>
    ELSE None

\* A missing generation leaves a diagnostic-only execution behind.
Placeholder(p, stall) ==
    exec' = IF stall # None /\ stall[2] = "evidence_invariant"
            THEN [exec EXCEPT ![Key(p.store, p.fence.dev, stall[1])] = IF @ = "none" THEN "unconsumed" ELSE @]
            ELSE exec

\* What the pass has left: its certified history in the feed's order, then the page.
Spent(p) == p.history = {} /\ p.todo = <<>>
Paged(p) == p.history = {} /\ p.todo # <<>>
Carrier(p) ==
    IF Paged(p) THEN Head(p.todo)
    ELSE LET n == Min(p.history)
         IN  [job |-> n, kind |-> "apply", items |-> {}, row |-> p.read.jobs[n].row]

ToDiagnose(p, stall) ==
    [pc |-> "diagnose", seen |-> p.seen, store |-> p.store, fence |-> p.fence,
     stall |-> Stall(p.fence, stall[1], p.store, stall[2])]

\* Unlocked: the fence must still be the one the last transaction left, the carrier readable.
Prepare(w) ==
    LET p == pass[w]
        item == Carrier(p)
        released == Paged(p) /\ item.job \in AcknowledgedJobs(p.store)
        stall == IF Spent(p) THEN ReadStall(p) ELSE CarrierStall(p, item, released)
    IN  /\ p.pc = "prepare"
        /\ IF Fence # p.fence
           THEN pass' = [pass EXCEPT ![w] = Idle] /\ UNCHANGED exec
           ELSE /\ pass' = [pass EXCEPT ![w] =
                      IF stall = None THEN [p EXCEPT !.pc = "commit", !.released = released]
                      ELSE ToDiagnose(p, stall)]
                /\ Placeholder(p, stall)
        /\ UNCHANGED <<store, jobs, row, issues, budget>>

\* Mutant: the walk passes any carrier.
SettleAnything(item, released, ex, k) == TRUE

\* A carrier advances the cursor when released, when it carries nothing, or when it is certified.
SettleJob(item, released, ex, k) == released \/ item.kind = "other" \/ ex[k] = "consumed"

\* Mutant: the transaction trusts the fence its unlocked reads saw.
FenceUnchecked(p) == TRUE
FenceHolds(p) == Fence = p.fence

\* Locked: one carrier's executions, the cursor, the stall and the diagnostic, all or nothing.
Commit(w) ==
    LET p == pass[w]
        item == Carrier(p)
        paged == Paged(p)
        k == Key(p.store, row.dev, item.job)
        ex == IF paged /\ ~p.released /\ p.read # None /\ item.kind = "apply"
              THEN [exec EXCEPT ![k] = "consumed"] ELSE exec
        passed == paged /\ SettleJob(item, p.released, ex, k)
        cursor == IF passed THEN item.job ELSE p.cursor
        stalled == paged /\ ~passed
        locked == [row EXCEPT !.cur = [store |-> p.store, dev |-> row.dev, seq |-> cursor],
                              !.stall = IF stalled THEN item.job ELSE IF passed \/ p.reset THEN 0 ELSE @]
        rest == IF paged THEN Tail(p.todo) ELSE p.todo
        left == IF paged \/ Spent(p) THEN {} ELSE p.history \ {item.job}
        over == rest = <<>> /\ left = {}
    IN  /\ p.pc = "commit"
        /\ IF ~FenceHolds(p)
           THEN pass' = [pass EXCEPT ![w] = Idle] /\ UNCHANGED <<row, exec, issues>>
           ELSE /\ exec' = ex
                /\ IF paged \/ p.alone THEN WriteDiagnostic(locked, None, ex) ELSE UNCHANGED <<row, issues>>
                /\ pass' = [pass EXCEPT ![w] =
                      IF stalled \/ (over /\ ~p.short) THEN Idle
                      ELSE [p EXCEPT !.pc = IF over THEN "check" ELSE "prepare", !.released = FALSE,
                                     !.history = left, !.todo = rest, !.cursor = cursor,
                                     !.fence = FenceOf(row')]]
        /\ UNCHANGED <<store, jobs, budget>>

\* A drained pass validates the whole read, then may clear the resume request it had seen.
Check(w) ==
    LET p == pass[w]
        stall == ReadStall(p)
    IN  /\ p.pc = "check"
        /\ IF p.read # None /\ Fence # p.fence
           THEN pass' = [pass EXCEPT ![w] = Idle] /\ UNCHANGED exec
           ELSE /\ pass' = [pass EXCEPT ![w] =
                      IF stall # None THEN ToDiagnose(p, stall)
                      ELSE IF p.resume /\ p.read # None
                           THEN [pc |-> "clear", fence |-> p.fence, seen |-> p.seen] ELSE Idle]
                /\ Placeholder(p, stall)
        /\ UNCHANGED <<store, jobs, row, issues, budget>>

\* Nothing was acknowledged since the pass began, so this pass walked all the request asked for.
MayClear(p) == row.resume /\ Fence = p.fence /\ ReleasedSince(p.seen) = {}

ClearResume(w) ==
    /\ pass[w].pc = "clear"
    /\ row' = IF MayClear(pass[w]) THEN [row EXCEPT !.resume = FALSE] ELSE row
    /\ pass' = [pass EXCEPT ![w] = Idle]
    /\ UNCHANGED <<store, jobs, exec, issues, budget>>

\* Mutant: only the fence guards the write; a historical acknowledgement keeps the fence.
RecordWhenFenced(p) == Fence = p.fence

\* A stall is written under the fence it was found with, never for a job released meanwhile.
MayRecord(p) == <<p.stall.store, p.stall.job>> \notin ReleasedSince(p.seen) /\ Fence = p.fence

Diagnose(w) ==
    LET p == pass[w]
    IN  /\ p.pc = "diagnose"
        /\ IF MayRecord(p) THEN WriteDiagnostic(row, p.stall, exec) ELSE UNCHANGED <<row, issues>>
        /\ pass' = [pass EXCEPT ![w] = [pc |-> "publish"]]
        /\ UNCHANGED <<store, jobs, exec, budget>>

\* Decide from unlocked reads what the recorded stall may be published as.
Publish(w) ==
    LET stall == Base(row.diag)
    IN  /\ pass[w].pc = "publish"
        /\ pass' = [pass EXCEPT ![w] =
              IF stall = None THEN Idle
              ELSE [pc |-> "record", stall |-> stall, exit |-> Exit(stall),
                    revision |-> IF Exit(stall) = "acknowledgeable" THEN Revision(stall) ELSE None]]
        /\ UNCHANGED <<store, jobs, row, exec, issues, budget>>

\* Mutant: the exit is written beside whatever diagnostic the fence still holds.
StillFenced(p) == Fence = p.stall.fence /\ row.diag # None
StillStalled(p) == Base(row.diag) = p.stall /\ Fence = p.stall.fence

\* Every other open revision is superseded; a closed revision of the same identity reopens.
Published(k) ==
    [j \in (DOMAIN issues \ OpenIssues) \cup {k} |->
        IF j \in AcknowledgedIssues \/ j # k THEN issues[j] ELSE "open"]

Record(w) ==
    LET p == pass[w]
    IN  /\ p.pc = "record"
        /\ row' = IF StillStalled(p) THEN [row EXCEPT !.diag.exit = p.exit] ELSE row
        /\ issues' = IF StillStalled(p) /\ p.revision # None THEN Published(p.revision) ELSE issues
        /\ pass' = [pass EXCEPT ![w] = Idle]
        /\ UNCHANGED <<store, jobs, exec, budget>>

\* The worker dies, or the adapter fails to answer: what was not committed is lost.
Abort(w) ==
    /\ pass[w].pc # "idle" /\ budget.faults > 0
    /\ pass' = [pass EXCEPT ![w] = Idle]
    /\ budget' = [budget EXCEPT !.faults = @ - 1]
    /\ UNCHANGED <<store, jobs, row, exec, issues>>

-----------------------------------------------------------------------------
(* The operator.                                                           *)

\* A revision is acknowledged only when a fresh decision under the locks gives the same revision.
StillDecided(k) ==
    LET stall == Stall(k.fence, k.job, k.store, k.cls)
    IN  Exit(stall) = "acknowledgeable" /\ Revision(stall) = k

\* Mutant: off by one.
CursorBeyond(k) == [store |-> k.store, dev |-> k.dev, seq |-> k.job + 1]
CursorAfter(k) == [store |-> k.store, dev |-> k.dev, seq |-> k.job]

\* The ledger, the cursor, the diagnostic and the resume request of one acknowledgement.
Acknowledge(k) ==
    LET x == Key(k.store, k.dev, k.job)
        cur == IF k.position = "next_feed" THEN CursorAfter(k) ELSE row.cur
    IN  /\ issues[k] = "open" /\ Fence = k.fence /\ StillDecided(k)
        /\ exec' = IF k.seen.row = "none" THEN exec ELSE [exec EXCEPT ![x] = "acknowledged"]
        /\ row' = [row EXCEPT !.resume = TRUE, !.cur = cur,
                              !.stall = IF k.position = "next_feed" THEN 0 ELSE @,
                              !.diag = IF Current(k, row) THEN None ELSE @]
        /\ issues' = [issues EXCEPT ![k] = "acknowledged"]
        /\ UNCHANGED <<store, jobs, pass, budget>>

Adapter ==
    \/ \E job \in Landings : JobLands(job)
    \/ \E n \in Positions : ItemFlips(n)
    \/ \E n \in Positions, now \in {"good", "bad"} : RowFlips(n, now)
    \/ Rebuild
    \/ \E d \in Devices : Remap(d)

Step(w) ==
    \/ ReadEvidence(w) \/ LockPage(w) \/ Prepare(w) \/ Commit(w)
    \/ Check(w) \/ ClearResume(w) \/ Diagnose(w) \/ Publish(w) \/ Record(w)

Next ==
    \/ Adapter
    \/ \E w \in Workers : Begin(w) \/ Step(w) \/ Abort(w)
    \/ \E k \in OpenIssues : Acknowledge(k)

Spec == Init /\ [][Next]_vars

\* The sweep keeps selecting a candidate, and a job that was started runs on.
FairSpec ==
    Spec /\ \A w \in Workers : WF_vars(Step(w)) /\ WF_vars(Candidate /\ Begin(w))

-----------------------------------------------------------------------------
(* Properties.                                                             *)

TypeOK ==
    /\ store \in 1..MaxStores
    /\ jobs \in [Devices -> Feeds]
    /\ row \in Rows
    /\ exec \in [Keys -> ExecStates]
    /\ DOMAIN issues \subseteq Revisions
    /\ \A k \in DOMAIN issues : issues[k] \in {"open", "resolved", "acknowledged"}
    /\ pass \in [Workers -> Passes]
    /\ budget \in Budgets
    /\ \A d \in Devices : Len(jobs[d]) + budget.jobs <= MaxJobs

\* Whatever passes, acknowledgements, rebuilds and mappings interleave, the cursor never stands
\* past a job of its store and device whose outcome was neither certified nor acknowledged.
CursorPassesOnlyDecided ==
    LET c == row.cur
        first == IF c.store = 1 /\ c.dev = NewRow.dev THEN History + 1 ELSE 1
    IN  c.store = store =>
          \A n \in first..c.seq :
            \/ jobs[c.dev][n].kind = "other"
            \/ exec[Key(c.store, c.dev, n)] \in Decided
            \/ \E k \in AcknowledgedIssues : <<k.store, k.dev, k.job>> = <<c.store, c.dev, n>>

\* A disposition is final: a pass that prepared a carrier before an operator acknowledged it does
\* not turn "outcome unknown" into success, and nothing takes a certificate back.
DecidedOnce == [][\A k \in Keys : exec[k] \in Decided => exec'[k] = exec[k]]_vars

\* An operator is offered at most one revision, and it is the stall the diagnostic names.
OpenIssueIsTheDiagnostic ==
    \A k \in OpenIssues :
        /\ OpenIssues = {k} /\ row.diag # None
        /\ <<row.diag.fence, row.diag.job, row.diag.store>> = <<k.fence, k.job, k.store>>

\* A pass that began before an acknowledgement does not bring back the stall it released.
ReleasedStallIsNotShown ==
    row.diag # None /\ row.diag.fence = Fence =>
        \A k \in AcknowledgedIssues :
            <<k.store, k.dev, k.job, k.fence>> = <<row.diag.store, row.dev, row.diag.job, Fence>> =>
                /\ k.seen.row = "none"
                /\ row.diag.store = store => jobs[row.dev][row.diag.job].row # "none"

\* A revision closed as "resolved" is settled: its job was certified or acknowledged, or carried
\* nothing to settle.
ResolvedIsSettled ==
    \A k \in DOMAIN issues : issues[k] = "resolved" =>
        \/ k.seen.kind = "other" \/ k.seen.row = "none"
        \/ exec[Key(k.store, k.dev, k.job)] \in Decided

\* The feed never stops silently: again and again every apply job of the current feed is passed
\* and no acknowledgement's follow-up pass is owed, or the diagnostic names what stops it with
\* the exit decided for it.
EveryHeadIsDecidedOrShown ==
    []<>(\/ Undecided = {} /\ ~row.resume
         \/ row.diag # None /\ row.diag.fence = Fence /\ row.diag.exit # "none")
=============================================================================
