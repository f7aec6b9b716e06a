--------------------------- MODULE SettlementProofs ---------------------------
(***************************************************************************)
(* Proofs about Settlement, for any number of passes, devices, jobs, stores *)
(* and pages: what a pass carries between its steps, that the cursor never  *)
(* stands past an undecided job, that a disposition is final, that an       *)
(* operator is offered the stall the diagnostic names, that an issue closed *)
(* as resolved is settled, and that no pass brings back a stall which an    *)
(* operator acknowledged under the fence that still holds.                  *)
(***************************************************************************)
EXTENDS Settlement, WellFoundedInduction, TLAPS

-----------------------------------------------------------------------------
(* The inductive invariant                                                 *)

\* Fences only move forward: a later mapping epoch, or the same mapping with the cursor of a
\* later store, of the mapped device where it was another's, or further on.
Ahead(f, g) ==
    \/ f.epoch > g.epoch
    \/ /\ f.epoch = g.epoch /\ f.dev = g.dev
       /\ \/ f.cur.store > g.cur.store
          \/ /\ f.cur.store = g.cur.store /\ f.cur.dev = f.dev
             /\ g.cur.dev = f.dev => f.cur.seq > g.cur.seq

\* the cursor's store is no younger than the adapter's, and the feed reaches the cursor
CursorInv ==
    /\ row.cur.store <= store
    /\ row.cur.store = store => row.cur.seq <= Len(jobs[row.cur.dev])

\* some acknowledged issue released this execution's job
IsReleased(x) ==
    \E k \in AcknowledgedIssues : k.store = x.store /\ k.dev = x.dev /\ k.job = x.job

\* an execution is acknowledged by an issue
AckInv == \A x \in Keys : exec[x] = "acknowledged" => IsReleased(x)

\* A walking pass stands where its fence says; what it carries of the page follows its cursor
\* and, while the store it read is the adapter's, says of each job what the adapter says.
WalkingPcs == {"prepare", "commit", "check"}
WalkOK(w) ==
    LET p == pass[w] IN
    p.pc \in WalkingPcs =>
        /\ p.fence.cur.store <= p.store /\ p.store <= store
        /\ p.cursor = SeqIn(p.fence.cur, p.store, p.fence.dev)
        /\ p.fence = Fence \/ Ahead(Fence, p.fence)
        /\ \A i \in DOMAIN p.todo :
              /\ p.todo[i].job = p.cursor + i
              /\ p.store = store => /\ p.todo[i].job \in DOMAIN jobs[p.fence.dev]
                                    /\ p.todo[i].kind = jobs[p.fence.dev][p.todo[i].job].kind

\* A carrier prepared as released is; one that was not and is acknowledged since lost its fence.
NextKey(p) == Key(p.store, p.fence.dev, Head(p.todo).job)
CommitOK(w) ==
    LET p == pass[w] IN
    p.pc = "commit" /\ Paged(p) =>
        IF p.released THEN IsReleased(NextKey(p))
        ELSE exec[NextKey(p)] = "acknowledged" => Ahead(Fence, p.fence)

\* a stall carries the fence it was found with, a revision the stall it was decided for
StallOK(w) ==
    LET p == pass[w] IN
    /\ p.pc = "diagnose" => p.stall.fence = p.fence
    /\ p.pc = "record" /\ p.revision # None =>
          p.revision.fence = p.stall.fence /\ p.revision.job = p.stall.job
            /\ p.revision.store = p.stall.store

PassOK(w) == WalkOK(w) /\ CommitOK(w) /\ StallOK(w)

SettlementInv ==
    /\ TypeOK /\ CursorInv /\ AckInv
    /\ \A w \in Workers : PassOK(w)
    /\ CursorPassesOnlyDecided /\ OpenIssueIsTheDiagnostic

-----------------------------------------------------------------------------
(* The operators the model is built from                                   *)

\* a set of naturals that is not empty has its least member
LEMMA MinIsMember ==
    ASSUME NEW S, S \subseteq Nat, S # {}
    PROVE  Min(S) \in S /\ \A y \in S : Min(S) <= y
<1>1. PICK x \in S : \A y \in S : ~(<<y, x>> \in OpToRel(<, Nat))
  BY WFMin, NatLessThanWellFounded
<1>2. \A y \in S : y \in Nat /\ ~(y < x)
  BY <1>1 DEF OpToRel
<1>3. x \in Nat /\ \A y \in S : x <= y
  BY <1>2
<1>4. QED
  BY <1>3 DEF Min

\* a bounded set of naturals that is not empty has its greatest member
LEMMA MaxIsMember ==
    ASSUME NEW n \in Nat, NEW S, S \subseteq 0..n, S # {}
    PROVE  Max(S) \in S
<1> DEFINE T == {n - s : s \in S}
<1>1. T \subseteq Nat /\ T # {}
  <2>1. \A s \in S : s \in Nat /\ n - s \in Nat
    OBVIOUS
  <2>2. QED
    BY <2>1
<1>2. PICK m \in T : \A y \in T : ~(<<y, m>> \in OpToRel(<, Nat))
  BY <1>1, WFMin, NatLessThanWellFounded
<1>3. PICK x \in S : m = n - x
  OBVIOUS
<1>4. \A y \in S : n - y \in T /\ n - y \in Nat
  OBVIOUS
<1>5. \A y \in S : ~(n - y < n - x)
  BY <1>1, <1>2, <1>3, <1>4 DEF OpToRel
<1>6. \A y \in S : x >= y
  BY <1>5
<1>7. QED
  BY <1>6 DEF Max

\* a page is the jobs that follow the cursor, without a gap
LEMMA PageFollowsTheCursor ==
    ASSUME NEW d \in Devices, NEW seq \in 0..MaxJobs, jobs[d] \in Feeds
    PROVE  \E m \in Nat :
             /\ FeedPage(d, seq) = [i \in 1..m |-> seq + i]
             /\ \A i \in 1..m : seq + i \in DOMAIN jobs[d] /\ seq + i \in Positions
<1> DEFINE n == Len(jobs[d])
           last == Min({seq + PageSize, n})
<1>1. n \in Nat /\ n <= MaxJobs /\ DOMAIN jobs[d] = 1..n /\ PageSize \in Nat
  BY SettlementAssumption DEF Feeds
<1>2. last \in {seq + PageSize, n} /\ last <= n
  <2>1. {seq + PageSize, n} \subseteq Nat /\ {seq + PageSize, n} # {}
    BY <1>1, SettlementAssumption
  <2>2. QED
    BY <2>1, MinIsMember
<1> HIDE DEF last
<1>3. FeedPage(d, seq) = [i \in 1..(last - seq) |-> seq + i]
  BY DEF FeedPage, last
<1>4. CASE last > seq
  <2>1. last - seq \in Nat /\ \A i \in 1..(last - seq) : seq + i \in 1..n
    BY <1>1, <1>2, <1>4
  <2>2. MaxJobs \in Nat
    BY SettlementAssumption
  <2>3. \A i \in 1..(last - seq) : seq + i \in DOMAIN jobs[d] /\ seq + i \in Positions
    BY <1>1, <2>1, <2>2 DEF Positions
  <2>4. QED
    BY <1>3, <2>1, <2>3
<1>5. CASE ~(last > seq)
  <2>1. 1..(last - seq) = 1..0
    BY <1>1, <1>2, <1>5
  <2>2. FeedPage(d, seq) = [i \in 1..0 |-> seq + i]
    BY <1>3, <2>1
  <2>3. \A i \in 1..0 : FALSE
    OBVIOUS
  <2>4. QED
    BY <2>2, <2>3
<1>6. QED
  BY <1>4, <1>5

\* how fences are ordered
LEMMA AheadIsStrict ==
    ASSUME NEW f \in Fences, NEW g \in Fences, Ahead(f, g)
    PROVE  f # g
BY DEF Ahead, Fences, Cursors

LEMMA AheadIsTransitive ==
    ASSUME NEW f \in Fences, NEW g \in Fences, NEW h \in Fences, Ahead(f, g), Ahead(g, h)
    PROVE  Ahead(f, h)
<1>1. /\ {f.epoch, g.epoch, h.epoch} \subseteq Nat
      /\ {f.cur.store, g.cur.store, h.cur.store} \subseteq Int
      /\ {f.cur.seq, g.cur.seq, h.cur.seq} \subseteq Int
  BY SettlementAssumption DEF Fences, Cursors
<1>2. QED
  BY <1>1 DEF Ahead

LEMMA FenceType ==
    ASSUME TypeOK
    PROVE  Fence \in Fences
BY DEF TypeOK, Rows, Fence, FenceOf, Fences

\* what a pass carries, by its place
LEMMA Shapes ==
    ASSUME TypeOK, NEW w \in Workers
    PROVE  /\ pass[w].pc \in WalkingPcs => pass[w] \in Walks
           /\ pass[w].pc = "read" =>
                pass[w] \in [pc : {"read"}, resume : BOOLEAN, fence : Fences,
                             store : 1..MaxStores, seen : SUBSET Revisions]
           /\ pass[w].pc = "page" =>
                pass[w] \in [pc : {"page"}, resume : BOOLEAN, seen : SUBSET Revisions,
                             read : Reads \cup {None}]
           /\ pass[w].pc = "clear" =>
                pass[w] \in [pc : {"clear"}, fence : Fences, seen : SUBSET Revisions]
           /\ pass[w].pc = "diagnose" =>
                pass[w] \in [pc : {"diagnose"}, fence : Fences, store : 1..MaxStores,
                             seen : SUBSET Revisions, stall : Stalls]
           /\ pass[w].pc = "record" =>
                pass[w] \in [pc : {"record"}, stall : Stalls, exit : Exits,
                             revision : Revisions \cup {None}]
<1>1. pass[w] \in Passes
  BY DEF TypeOK
<1>2. QED
  BY <1>1 DEF Passes, Walks, WalkingPcs, Idle

\* an idle pass, and a pass that only has to publish, owes nothing
LEMMA Idles == /\ Idle \in Passes /\ Idle.pc = "idle"
               /\ [pc |-> "publish"] \in Passes
BY DEF Idle, Passes

-----------------------------------------------------------------------------
(* What a step must observe to keep each part                              *)

\* the store is never an older one, and within a store feeds only grow
Grows ==
    /\ store' \in Int /\ store' >= store
    /\ store' = store =>
          \A d \in Devices :
             /\ Len(jobs'[d]) >= Len(jobs[d])
             /\ \A n \in DOMAIN jobs[d] : n \in DOMAIN jobs'[d] /\ jobs'[d][n].kind = jobs[d][n].kind

\* the fence stays or moves forward
Advances == Fence' = Fence \/ Ahead(Fence', Fence)

\* dispositions stay
DecisionsStay == \A x \in Keys : exec[x] \in Decided => exec'[x] = exec[x]

\* no execution becomes acknowledged but under the issue that releases it
AcknowledgesUnderAnIssue ==
    \A x \in Keys : exec'[x] = "acknowledged" => exec[x] = "acknowledged" \/ IsReleased(x)'

AcksStay == AcknowledgedIssues \subseteq AcknowledgedIssues'

\* nobody's carrier is acknowledged but by a step that takes its fence
FencesAreTaken(w) ==
    LET p == pass[w] IN
    p.pc = "commit" /\ Paged(p) /\ exec'[NextKey(p)] = "acknowledged" =>
        exec[NextKey(p)] = "acknowledged" \/ Ahead(Fence', p.fence)

LEMMA NextKeyIsAKey ==
    ASSUME TypeOK, NEW w \in Workers, pass[w].pc = "commit", Paged(pass[w])
    PROVE  NextKey(pass[w]) \in Keys
<1>1. pass[w] \in Walks
  BY Shapes DEF WalkingPcs
<1>2. Head(pass[w].todo) \in Carriers
  BY <1>1 DEF Walks, Paged
<1>3. QED
  BY <1>1, <1>2 DEF NextKey, Key, Keys, Walks, Fences, Carriers

\* a pass that does not move still stands where its fence says
LEMMA WalkKept ==
    ASSUME TypeOK, TypeOK', Grows, Advances, NEW w \in Workers, WalkOK(w), pass'[w] = pass[w]
    PROVE  WalkOK(w)'
<1> DEFINE p == pass[w]
<1>1. SUFFICES ASSUME p.pc \in WalkingPcs
               PROVE  /\ p.fence.cur.store <= p.store /\ p.store <= store'
                      /\ p.cursor = SeqIn(p.fence.cur, p.store, p.fence.dev)
                      /\ p.fence = Fence' \/ Ahead(Fence', p.fence)
                      /\ \A i \in DOMAIN p.todo :
                            /\ p.todo[i].job = p.cursor + i
                            /\ p.store = store' =>
                                 /\ p.todo[i].job \in DOMAIN jobs'[p.fence.dev]
                                 /\ p.todo[i].kind = jobs'[p.fence.dev][p.todo[i].job].kind
  BY DEF WalkOK
<1>2. p \in Walks /\ p.fence \in Fences /\ p.fence.dev \in Devices /\ p.store \in Int
  BY <1>1, Shapes DEF Walks, Fences
<1>3. Fence \in Fences /\ Fence' \in Fences
  BY DEF TypeOK, Rows, Fence, FenceOf, Fences
<1>4. p.fence.cur.store <= p.store /\ p.store <= store
      /\ p.cursor = SeqIn(p.fence.cur, p.store, p.fence.dev)
      /\ (p.fence = Fence \/ Ahead(Fence, p.fence))
  BY <1>1 DEF WalkOK
<1>5. store \in Int /\ store' \in Int /\ store' >= store
  BY DEF TypeOK, Grows
<1>6. p.store <= store' /\ (p.store = store' => store' = store)
  BY <1>2, <1>4, <1>5
<1>7. p.fence = Fence' \/ Ahead(Fence', p.fence)
  BY <1>2, <1>3, <1>4, AheadIsTransitive DEF Advances
<1>8. ASSUME NEW i \in DOMAIN p.todo
      PROVE  /\ p.todo[i].job = p.cursor + i
             /\ p.store = store' =>
                  /\ p.todo[i].job \in DOMAIN jobs'[p.fence.dev]
                  /\ p.todo[i].kind = jobs'[p.fence.dev][p.todo[i].job].kind
  <2>1. /\ p.todo[i].job = p.cursor + i
        /\ p.store = store =>
             /\ p.todo[i].job \in DOMAIN jobs[p.fence.dev]
             /\ p.todo[i].kind = jobs[p.fence.dev][p.todo[i].job].kind
    BY <1>1, <1>8 DEF WalkOK
  <2>2. QED
    BY <1>2, <1>6, <2>1 DEF Grows
<1>9. QED
  BY <1>4, <1>6, <1>7, <1>8

\* what released a job releases it for good
LEMMA ReleasesStay ==
    ASSUME AcksStay, NEW x, IsReleased(x)
    PROVE  \E k \in AcknowledgedIssues' : k.store = x.store /\ k.dev = x.dev /\ k.job = x.job
BY DEF AcksStay, IsReleased

\* a pass about to commit still knows what it may do
LEMMA CommitKept ==
    ASSUME TypeOK, TypeOK', Advances, AcksStay, NEW w \in Workers, WalkOK(w), CommitOK(w),
           FencesAreTaken(w), pass'[w] = pass[w]
    PROVE  CommitOK(w)'
<1> DEFINE p == pass[w]
           x == NextKey(p)
<1>1. SUFFICES ASSUME p.pc = "commit", Paged(p)
               PROVE  IF p.released
                      THEN \E k \in AcknowledgedIssues' : k.store = x.store /\ k.dev = x.dev /\ k.job = x.job
                      ELSE exec'[x] = "acknowledged" => Ahead(Fence', p.fence)
  BY DEF CommitOK, IsReleased, NextKey, Paged, Key
<1>2. CASE p.released
  <2>1. IsReleased(x)
    BY <1>1, <1>2 DEF CommitOK
  <2>2. QED
    BY <1>2, <2>1, ReleasesStay
<1>3. CASE ~p.released
  <2>1. SUFFICES ASSUME exec'[x] = "acknowledged"
                 PROVE  Ahead(Fence', p.fence)
    BY <1>3
  <2>2. CASE exec[x] = "acknowledged"
    <3>1. Ahead(Fence, p.fence)
      BY <1>1, <1>3, <2>2 DEF CommitOK
    <3>2. p \in Walks /\ p.fence \in Fences
      BY <1>1, Shapes DEF Walks, WalkingPcs
    <3>3. Fence \in Fences /\ Fence' \in Fences
      BY DEF TypeOK, Rows, Fence, FenceOf, Fences
    <3>4. QED
      BY <3>1, <3>2, <3>3, AheadIsTransitive DEF Advances
  <2>3. CASE exec[x] # "acknowledged"
    BY <1>1, <2>1, <2>3 DEF FencesAreTaken
  <2>4. QED
    BY <2>2, <2>3
<1>4. QED
  BY <1>2, <1>3

LEMMA StallKept ==
    ASSUME NEW w \in Workers, StallOK(w), pass'[w] = pass[w]
    PROVE  StallOK(w)'
BY DEF StallOK

\* acknowledged executions stay under their issues
LEMMA AckInvKept ==
    ASSUME AckInv, AcksStay, AcknowledgesUnderAnIssue
    PROVE  AckInv'
<1>1. ASSUME NEW x \in Keys, exec'[x] = "acknowledged"
      PROVE  IsReleased(x)'
  BY <1>1, ReleasesStay DEF AckInv, AcknowledgesUnderAnIssue, IsReleased
<1>2. QED
  BY <1>1 DEF AckInv

\* a cursor that stays goes on standing past decided jobs only
LEMMA CursorKept ==
    ASSUME TypeOK, TypeOK', CursorInv, CursorPassesOnlyDecided,
           Grows, DecisionsStay, AcksStay, row'.cur = row.cur
    PROVE  CursorInv' /\ CursorPassesOnlyDecided'
<1> DEFINE c == row.cur
           first == IF c.store = 1 /\ c.dev = NewRow.dev THEN History + 1 ELSE 1
<1>1. c \in Cursors /\ store \in Int /\ store' \in Int /\ store' >= store /\ c.store \in Int
  BY DEF TypeOK, Rows, Cursors, Grows
<1>2. c.store <= store /\ c.store <= store' /\ (c.store = store' => store' = store)
  BY <1>1 DEF CursorInv
<1>3. CursorInv'
  <2>1. SUFFICES ASSUME c.store = store' PROVE c.seq <= Len(jobs'[c.dev])
    BY <1>2 DEF CursorInv
  <2>2. c.seq <= Len(jobs[c.dev]) /\ Len(jobs'[c.dev]) >= Len(jobs[c.dev])
    BY <1>1, <1>2, <2>1 DEF CursorInv, Grows, Cursors
  <2>3. c.seq \in Int /\ Len(jobs[c.dev]) \in Int /\ Len(jobs'[c.dev]) \in Int
    BY <1>1 DEF TypeOK, Feeds, Cursors
  <2>4. QED
    BY <2>2, <2>3
<1>4. ASSUME c.store = store', NEW n \in first..c.seq
      PROVE  \/ jobs'[c.dev][n].kind = "other"
             \/ exec'[Key(c.store, c.dev, n)] \in Decided
             \/ \E k \in AcknowledgedIssues' : <<k.store, k.dev, k.job>> = <<c.store, c.dev, n>>
  <2>1. n \in Positions /\ Key(c.store, c.dev, n) \in Keys
    BY <1>1, SettlementAssumption DEF Cursors, Positions, Key, Keys
  <2>2. \/ jobs[c.dev][n].kind = "other"
        \/ exec[Key(c.store, c.dev, n)] \in Decided
        \/ \E k \in AcknowledgedIssues : <<k.store, k.dev, k.job>> = <<c.store, c.dev, n>>
    BY <1>2, <1>4 DEF CursorPassesOnlyDecided
  <2>3. n \in DOMAIN jobs[c.dev]
    <3>1. c.seq <= Len(jobs[c.dev]) /\ jobs[c.dev] \in Feeds
      BY <1>1, <1>2, <1>4 DEF CursorInv, TypeOK, Cursors
    <3>2. Len(jobs[c.dev]) \in Nat /\ DOMAIN jobs[c.dev] = 1..Len(jobs[c.dev])
      BY <3>1 DEF Feeds
    <3>3. QED
      BY <1>1, <2>1, <3>1, <3>2 DEF Cursors, Positions
  <2>4. jobs'[c.dev][n].kind = jobs[c.dev][n].kind
    BY <1>1, <1>2, <1>4, <2>3 DEF Grows, Cursors
  <2>5. QED
    BY <2>1, <2>2, <2>4 DEF DecisionsStay, AcksStay
<1>5. CursorPassesOnlyDecided'
  BY <1>4 DEF CursorPassesOnlyDecided
<1>6. QED
  BY <1>3, <1>5

\* a step that leaves the cursor where it is keeps everything but the pass it moves
LEMMA CalmStep ==
    ASSUME SettlementInv, TypeOK', Grows, Advances, DecisionsStay, AcknowledgesUnderAnIssue,
           AcksStay, row'.cur = row.cur, \A w \in Workers : FencesAreTaken(w)
    PROVE  /\ CursorInv' /\ AckInv' /\ CursorPassesOnlyDecided'
           /\ \A w \in Workers : pass'[w] = pass[w] => PassOK(w)'
<1>1. CursorInv' /\ CursorPassesOnlyDecided'
  BY CursorKept DEF SettlementInv
<1>2. AckInv'
  BY AckInvKept DEF SettlementInv
<1>3. ASSUME NEW w \in Workers, pass'[w] = pass[w]
      PROVE  PassOK(w)'
  <2>1. TypeOK /\ WalkOK(w) /\ CommitOK(w) /\ StallOK(w) /\ FencesAreTaken(w)
    BY DEF SettlementInv, PassOK
  <2>2. WalkOK(w)'
    BY <1>3, <2>1, WalkKept
  <2>3. CommitOK(w)'
    BY <1>3, <2>1, CommitKept
  <2>4. StallOK(w)'
    BY <1>3, <2>1, StallKept
  <2>5. QED
    BY <2>2, <2>3, <2>4 DEF PassOK
<1>4. QED
  BY <1>1, <1>2, <1>3

\* a step that acknowledges nothing takes nobody's carrier
LEMMA AcknowledgedWere ==
    ASSUME TypeOK, \A x \in Keys : exec'[x] = "acknowledged" => exec[x] = "acknowledged"
    PROVE  \A w \in Workers : FencesAreTaken(w)
<1>1. SUFFICES ASSUME NEW w \in Workers, pass[w].pc = "commit", Paged(pass[w]),
                      exec'[NextKey(pass[w])] = "acknowledged"
               PROVE  exec[NextKey(pass[w])] = "acknowledged"
  BY DEF FencesAreTaken
<1>2. NextKey(pass[w]) \in Keys
  BY <1>1, NextKeyIsAKey
<1>3. QED
  BY <1>1, <1>2

\* the same for a step that only moves a pass or writes what no fence covers
LEMMA StillStep ==
    ASSUME SettlementInv, TypeOK', store' = store, jobs' = jobs, Fence' = Fence,
           row'.cur = row.cur, AcksStay, DecisionsStay,
           \A x \in Keys : exec'[x] = "acknowledged" => exec[x] = "acknowledged"
    PROVE  /\ CursorInv' /\ AckInv' /\ CursorPassesOnlyDecided'
           /\ \A w \in Workers : pass'[w] = pass[w] => PassOK(w)'
<1>1. Grows
  BY DEF Grows, SettlementInv, TypeOK
<1>2. Advances
  BY DEF Advances
<1>3. AcknowledgesUnderAnIssue
  BY DEF AcknowledgesUnderAnIssue
<1>4. \A w \in Workers : FencesAreTaken(w)
  BY AcknowledgedWere DEF SettlementInv
<1>5. QED
  BY <1>1, <1>2, <1>3, <1>4, CalmStep

\* an issue stays the stall of the diagnostic while neither is written
LEMMA OfferKept ==
    ASSUME OpenIssueIsTheDiagnostic, issues' = issues, row'.diag = row.diag
    PROVE  OpenIssueIsTheDiagnostic'
BY DEF OpenIssueIsTheDiagnostic, OpenIssues

-----------------------------------------------------------------------------
(* The adapter's steps                                                     *)

\* what is left of a bound
LEMMA BudgetsAreSpent ==
    ASSUME NEW b \in Budgets
    PROVE  /\ b.jobs > 0 => [b EXCEPT !.jobs = b.jobs - 1] \in Budgets
           /\ b.flips > 0 => [b EXCEPT !.flips = b.flips - 1] \in Budgets
           /\ b.moves > 0 => [b EXCEPT !.moves = b.moves - 1] \in Budgets
           /\ b.faults > 0 => [b EXCEPT !.faults = b.faults - 1] \in Budgets
<1>1. b.jobs \in 0..MaxJobs /\ b.flips \in Nat /\ b.moves \in Nat /\ b.faults \in Nat /\ MaxJobs \in Nat
  BY SettlementAssumption DEF Budgets
<1>2. /\ b.jobs > 0 => b.jobs - 1 \in 0..MaxJobs
      /\ b.flips > 0 => b.flips - 1 \in Nat
      /\ b.moves > 0 => b.moves - 1 \in Nat
      /\ b.faults > 0 => b.faults - 1 \in Nat
  BY <1>1
<1>3. ASSUME NEW x \in 0..MaxJobs PROVE [b EXCEPT !.jobs = x] \in Budgets
  BY DEF Budgets
<1>4. ASSUME NEW x \in Nat
      PROVE  /\ [b EXCEPT !.flips = x] \in Budgets
             /\ [b EXCEPT !.moves = x] \in Budgets
             /\ [b EXCEPT !.faults = x] \in Budgets
  BY DEF Budgets
<1>5. QED
  BY <1>2, <1>3, <1>4

\* a step of the adapter or of the mapping writes no pass, execution or issue
LEMMA AdapterStepKeeps ==
    ASSUME SettlementInv, TypeOK', Grows, Advances, row'.cur = row.cur, row'.diag = row.diag,
           UNCHANGED <<exec, issues, pass>>
    PROVE  SettlementInv'
<1>1. DecisionsStay /\ AcknowledgesUnderAnIssue /\ AcksStay
  BY DEF DecisionsStay, AcknowledgesUnderAnIssue, AcksStay, AcknowledgedIssues
<1>2. \A w \in Workers : FencesAreTaken(w)
  BY DEF FencesAreTaken
<1>3. CursorInv' /\ AckInv' /\ CursorPassesOnlyDecided' /\ \A w \in Workers : PassOK(w)'
  BY <1>1, <1>2, CalmStep
<1>4. OpenIssueIsTheDiagnostic'
  BY OfferKept DEF SettlementInv
<1>5. QED
  BY <1>3, <1>4 DEF SettlementInv

\* a feed that changes keeps its length within the jobs that may land
LEMMA JobLandsKeeps ==
    ASSUME SettlementInv, NEW job \in Landings, JobLands(job)
    PROVE  SettlementInv'
<1>1. TypeOK /\ row.dev \in Devices /\ jobs[row.dev] \in Feeds /\ job \in Job
  BY LandingsAssumption DEF SettlementInv, TypeOK, Rows
<1> DEFINE f == Append(jobs[row.dev], job)
<1>2. /\ f \in Seq(Job) /\ Len(f) = Len(jobs[row.dev]) + 1 /\ DOMAIN f = 1..Len(f)
      /\ \A n \in DOMAIN jobs[row.dev] : n \in DOMAIN f /\ f[n] = jobs[row.dev][n]
  BY <1>1 DEF Feeds
<1>3. Len(jobs[row.dev]) + budget.jobs <= MaxJobs /\ budget.jobs > 0 /\ budget.jobs \in Int
      /\ Len(jobs[row.dev]) \in Nat /\ MaxJobs \in Nat
  BY SMTT(20), <1>1, SettlementAssumption DEF TypeOK, JobLands, Feeds, Budgets
<1>4. f \in Feeds
  BY <1>2, <1>3 DEF Feeds
<1> HIDE DEF f
<1>5. jobs' = [jobs EXCEPT ![row.dev] = f]
  BY DEF JobLands, f
<1>6. jobs' \in [Devices -> Feeds]
  BY <1>1, <1>4, <1>5 DEF TypeOK
<1>7. budget' \in Budgets
      /\ budget'.jobs = budget.jobs - 1
  <2>1. budget \in Budgets /\ budget.jobs > 0 /\ budget' = [budget EXCEPT !.jobs = budget.jobs - 1]
    BY <1>1 DEF TypeOK, JobLands
  <2>2. QED
    BY <2>1, BudgetsAreSpent DEF Budgets
<1>8. \A d \in Devices : Len(jobs'[d]) + budget'.jobs <= MaxJobs
  <2>1. ASSUME NEW d \in Devices
        PROVE  Len(jobs'[d]) + budget'.jobs <= MaxJobs
    <3>1. Len(jobs[d]) + budget.jobs <= MaxJobs /\ Len(jobs[d]) \in Nat
      BY <1>1 DEF TypeOK, Feeds
    <3>2. Len(jobs'[d]) = IF d = row.dev THEN Len(jobs[d]) + 1 ELSE Len(jobs[d])
      BY <1>1, <1>2, <1>5 DEF TypeOK
    <3>3. QED
      BY <1>3, <1>7, <3>1, <3>2
  <2>2. QED
    BY <2>1
<1>9. TypeOK'
  BY <1>1, <1>6, <1>7, <1>8 DEF TypeOK, JobLands
<1>10. Grows
  <2>1. ASSUME NEW d \in Devices
        PROVE  /\ Len(jobs'[d]) >= Len(jobs[d])
               /\ \A n \in DOMAIN jobs[d] : n \in DOMAIN jobs'[d] /\ jobs'[d][n].kind = jobs[d][n].kind
    <3>1. jobs'[d] = IF d = row.dev THEN f ELSE jobs[d]
      BY <1>1, <1>5 DEF TypeOK
    <3>2. Len(jobs[d]) \in Nat
      BY <1>1 DEF TypeOK, Feeds
    <3>3. QED
      BY <1>2, <3>1, <3>2
  <2>2. QED
    BY <1>1, <2>1 DEF Grows, JobLands, TypeOK
<1>11. Advances
  BY DEF Advances, Fence, JobLands
<1>12. QED
  BY <1>9, <1>10, <1>11, AdapterStepKeeps DEF JobLands

\* one job of the mapped device's feed is served differently, under its kind
LEMMA JobChangesKeeps ==
    ASSUME SettlementInv, NEW n \in Positions, n \in DOMAIN jobs[row.dev], budget.flips > 0,
           NEW j \in Job, j.kind = jobs[row.dev][n].kind,
           jobs' = [jobs EXCEPT ![row.dev][n] = j],
           budget' = [budget EXCEPT !.flips = @ - 1],
           UNCHANGED <<store, row, exec, issues, pass>>
    PROVE  SettlementInv'
<1>1. TypeOK /\ row.dev \in Devices /\ jobs[row.dev] \in Feeds
  BY DEF SettlementInv, TypeOK, Rows
<1> DEFINE f == [jobs[row.dev] EXCEPT ![n] = j]
<1>2. /\ f \in Seq(Job) /\ Len(f) = Len(jobs[row.dev]) /\ DOMAIN f = DOMAIN jobs[row.dev]
      /\ \A i \in DOMAIN jobs[row.dev] : f[i].kind = jobs[row.dev][i].kind
  BY <1>1 DEF Feeds
<1>3. f \in Feeds
  BY <1>1, <1>2 DEF Feeds
<1>4. jobs' = [jobs EXCEPT ![row.dev] = f]
  OBVIOUS
<1> HIDE DEF f
<1>5. \A d \in Devices : jobs'[d] = IF d = row.dev THEN f ELSE jobs[d]
  BY <1>1, <1>4 DEF TypeOK
<1>6. jobs' \in [Devices -> Feeds]
  BY <1>1, <1>3, <1>4 DEF TypeOK
<1>7. budget' \in Budgets
      /\ budget'.jobs = budget.jobs
  <2>1. budget \in Budgets /\ budget.flips > 0 /\ budget' = [budget EXCEPT !.flips = budget.flips - 1]
    BY <1>1 DEF TypeOK
  <2>2. QED
    BY <2>1, BudgetsAreSpent DEF Budgets
<1>8. \A d \in Devices : Len(jobs'[d]) = Len(jobs[d])
  BY <1>2, <1>5
<1>9. TypeOK'
  BY <1>1, <1>6, <1>7, <1>8 DEF TypeOK
<1>10. Grows
  <2>1. ASSUME NEW d \in Devices
        PROVE  /\ Len(jobs'[d]) >= Len(jobs[d])
               /\ \A i \in DOMAIN jobs[d] : i \in DOMAIN jobs'[d] /\ jobs'[d][i].kind = jobs[d][i].kind
    <3>1. Len(jobs[d]) \in Nat
      BY <1>1 DEF TypeOK, Feeds
    <3>2. QED
      BY <1>2, <1>5, <1>8, <3>1
  <2>2. QED
    BY <1>1, <2>1 DEF Grows, TypeOK
<1>11. Advances
  BY DEF Advances, Fence
<1>12. QED
  BY <1>9, <1>10, <1>11, AdapterStepKeeps

LEMMA ItemFlipsKeeps ==
    ASSUME SettlementInv, NEW n \in Positions, ItemFlips(n)
    PROVE  SettlementInv'
<1> DEFINE was == jobs[row.dev][n]
           j == [was EXCEPT !.item = IF was.item = "good" THEN "bad" ELSE "good"]
<1>1. TypeOK /\ row.dev \in Devices /\ jobs[row.dev] \in Seq(Job) /\ n \in DOMAIN jobs[row.dev]
  BY DEF SettlementInv, TypeOK, Rows, Feeds, ItemFlips
<1>2. was \in Job
  BY <1>1
<1>3. j \in Job /\ j.kind = was.kind
  BY <1>2 DEF Job
<1>4. jobs' = [jobs EXCEPT ![row.dev][n] = j]
  BY DEF ItemFlips
<1> HIDE DEF j
<1>5. QED
  BY <1>1, <1>3, <1>4, JobChangesKeeps DEF ItemFlips

LEMMA RowFlipsKeeps ==
    ASSUME SettlementInv, NEW n \in Positions, NEW now \in {"good", "bad"}, RowFlips(n, now)
    PROVE  SettlementInv'
<1> DEFINE was == jobs[row.dev][n]
           j == [was EXCEPT !.row = now]
<1>1. TypeOK /\ row.dev \in Devices /\ jobs[row.dev] \in Seq(Job) /\ n \in DOMAIN jobs[row.dev]
  BY DEF SettlementInv, TypeOK, Rows, Feeds, RowFlips
<1>2. was \in Job
  BY <1>1
<1>3. j \in Job /\ j.kind = was.kind
  BY <1>2 DEF Job
<1>4. jobs' = [jobs EXCEPT ![row.dev][n] = j]
  BY DEF RowFlips
<1> HIDE DEF j
<1>5. QED
  BY <1>1, <1>3, <1>4, JobChangesKeeps DEF RowFlips

\* a rebuilt store is another store: nothing of the old one is read in it
LEMMA RebuildKeeps ==
    ASSUME SettlementInv, Rebuild
    PROVE  SettlementInv'
<1>1. TypeOK /\ store \in Int /\ store' = store + 1 /\ jobs' = [d \in Devices |-> <<>>]
      /\ MaxJobs \in Nat /\ store' \in 1..MaxStores
  BY SettlementAssumption DEF SettlementInv, TypeOK, Rebuild
<1>2. <<>> \in Feeds /\ Len(<<>>) = 0
  BY <1>1 DEF Feeds
<1>3. TypeOK'
  <2>1. jobs' \in [Devices -> Feeds] /\ \A d \in Devices : Len(jobs'[d]) + budget.jobs <= MaxJobs
    BY <1>1, <1>2 DEF TypeOK, Budgets
  <2>2. budget \in Budgets /\ budget.moves > 0 /\ budget' = [budget EXCEPT !.moves = budget.moves - 1]
    BY <1>1 DEF TypeOK, Rebuild
  <2>3. budget' \in Budgets /\ budget'.jobs = budget.jobs
    BY <2>2, BudgetsAreSpent DEF Budgets
  <2>4. QED
    BY <1>1, <2>1, <2>3 DEF TypeOK, Rebuild
<1>4. Grows
  BY <1>1 DEF Grows
<1>5. Advances
  BY DEF Advances, Fence, Rebuild
<1>6. QED
  BY <1>3, <1>4, <1>5, AdapterStepKeeps DEF Rebuild

\* a remapped device has a later fence
LEMMA RemapKeeps ==
    ASSUME SettlementInv, NEW d \in Devices, Remap(d)
    PROVE  SettlementInv'
<1>1. TypeOK /\ row \in Rows /\ row.epoch \in Nat
  BY DEF SettlementInv, TypeOK, Rows
<1> DEFINE e == row.epoch + 1
<1>2. row' \in Rows /\ row'.epoch = row.epoch + 1 /\ row'.cur = row.cur /\ row'.diag = row.diag
  <2>1. row' = [row EXCEPT !.dev = d, !.epoch = e] /\ e \in Nat
    BY <1>1 DEF Remap
  <2> HIDE DEF e
  <2>2. row' \in Rows /\ row'.epoch = e /\ row'.cur = row.cur /\ row'.diag = row.diag
    BY <1>1, <2>1 DEF Rows
  <2>3. QED
    BY <2>2 DEF e
<1>3. budget' \in Budgets
      /\ budget'.jobs = budget.jobs
  <2>1. budget \in Budgets /\ budget.moves > 0 /\ budget' = [budget EXCEPT !.moves = budget.moves - 1]
    BY <1>1 DEF TypeOK, Remap
  <2>2. QED
    BY <2>1, BudgetsAreSpent DEF Budgets
<1>4. TypeOK'
  BY <1>1, <1>2, <1>3 DEF TypeOK, Remap
<1>5. Grows
  <2>1. \A x \in Devices : Len(jobs[x]) \in Nat
    BY <1>1 DEF TypeOK, Feeds
  <2>2. QED
    BY <1>1, <2>1 DEF Grows, TypeOK, Remap
<1>6. Advances
  BY <1>1, <1>2 DEF Advances, Ahead, Fence, FenceOf
<1>7. QED
  BY <1>2, <1>4, <1>5, <1>6, AdapterStepKeeps DEF Remap

-----------------------------------------------------------------------------
(* Steps of a pass that write nothing but the pass, and perhaps leave a     *)
(* diagnostic-only execution behind                                        *)

\* a missing generation's execution is neither certified nor acknowledged
LEMMA PlaceholderDecidesNothing ==
    ASSUME TypeOK, NEW p, NEW stall, Placeholder(p, stall)
    PROVE  /\ exec' \in [Keys -> ExecStates] /\ DecisionsStay
           /\ \A x \in Keys : exec'[x] = "acknowledged" => exec[x] = "acknowledged"
<1> DEFINE k == Key(p.store, p.fence.dev, stall[1])
           now == IF exec[k] = "none" THEN "unconsumed" ELSE exec[k]
<1>1. exec' = exec \/ exec' = [exec EXCEPT ![k] = now]
  BY DEF Placeholder
<1> HIDE DEF k
<1>2. exec \in [Keys -> ExecStates]
  BY DEF TypeOK
<1>3. CASE exec' = exec
  BY <1>2, <1>3 DEF DecisionsStay
<1>4. CASE exec' = [exec EXCEPT ![k] = now]
  <2>1. \A x \in Keys : exec'[x] = IF x = k THEN now ELSE exec[x]
    BY <1>2, <1>4
  <2>2. k \in Keys => now \in ExecStates
    BY <1>2 DEF ExecStates
  <2>3. exec' \in [Keys -> ExecStates]
    BY <1>2, <1>4, <2>2
  <2>4. QED
    BY <2>1, <2>3 DEF DecisionsStay, Decided
<1>5. QED
  BY <1>1, <1>3, <1>4

\* what a step of one pass must show when it writes nothing a fence covers
LEMMA PassStepKeeps ==
    ASSUME SettlementInv, NEW w \in Workers, NEW q \in Passes, pass' = [pass EXCEPT ![w] = q],
           UNCHANGED <<store, jobs>>, Fence' = Fence, row'.cur = row.cur, row' \in Rows,
           DOMAIN issues' \subseteq Revisions,
           \A k \in DOMAIN issues' : issues'[k] \in {"open", "resolved", "acknowledged"},
           OpenIssueIsTheDiagnostic', AcksStay, DecisionsStay, exec' \in [Keys -> ExecStates],
           \A x \in Keys : exec'[x] = "acknowledged" => exec[x] = "acknowledged",
           budget' \in Budgets, budget'.jobs = budget.jobs,
           pass'[w] = q => PassOK(w)'
    PROVE  SettlementInv'
<1>1. TypeOK
  BY DEF SettlementInv
<1>2. pass' \in [Workers -> Passes] /\ pass'[w] = q /\ \A v \in Workers \ {w} : pass'[v] = pass[v]
  BY <1>1 DEF TypeOK
<1>3. TypeOK'
  BY <1>1, <1>2 DEF TypeOK
<1>4. /\ CursorInv' /\ AckInv' /\ CursorPassesOnlyDecided'
      /\ \A v \in Workers : pass'[v] = pass[v] => PassOK(v)'
  BY <1>3, StillStep
<1>5. \A v \in Workers : PassOK(v)'
  BY <1>2, <1>4
<1>6. QED
  BY <1>3, <1>4, <1>5 DEF SettlementInv

\* a pass that is not walking owes nothing to its fence
LEMMA NotWalking ==
    ASSUME NEW w \in Workers, pass'[w].pc \notin WalkingPcs \cup {"diagnose", "record"}
    PROVE  PassOK(w)'
BY DEF PassOK, WalkOK, CommitOK, StallOK, WalkingPcs

\* a step that writes no more than the pass, and perhaps a diagnostic-only execution
LEMMA OwnStepKeeps ==
    ASSUME SettlementInv, NEW w \in Workers, NEW q \in Passes, pass' = [pass EXCEPT ![w] = q],
           UNCHANGED <<store, jobs, row, issues>>, DecisionsStay, exec' \in [Keys -> ExecStates],
           \A x \in Keys : exec'[x] = "acknowledged" => exec[x] = "acknowledged",
           budget' \in Budgets, budget'.jobs = budget.jobs,
           pass'[w] = q => PassOK(w)'
    PROVE  SettlementInv'
<1>1. /\ Fence' = Fence /\ row'.cur = row.cur /\ row' \in Rows /\ DOMAIN issues' \subseteq Revisions
      /\ \A k \in DOMAIN issues' : issues'[k] \in {"open", "resolved", "acknowledged"}
      /\ AcksStay
  BY DEF SettlementInv, TypeOK, Fence, AcksStay, AcknowledgedIssues
<1>2. OpenIssueIsTheDiagnostic'
  BY OfferKept DEF SettlementInv
<1>3. QED
  BY <1>1, <1>2, PassStepKeeps

\* executions and bounds that stay
LEMMA NothingDecided ==
    ASSUME SettlementInv, exec' = exec
    PROVE  /\ exec' \in [Keys -> ExecStates] /\ DecisionsStay
           /\ \A x \in Keys : exec'[x] = "acknowledged" => exec[x] = "acknowledged"
BY DEF SettlementInv, TypeOK, DecisionsStay

LEMMA BeginKeeps ==
    ASSUME SettlementInv, NEW w \in Workers, Begin(w)
    PROVE  SettlementInv'
<1> DEFINE q == [pc |-> "read", resume |-> row.resume, fence |-> Fence, store |-> store,
                 seen |-> AcknowledgedIssues]
<1>1. TypeOK
  BY DEF SettlementInv
<1>2. q \in Passes /\ q.pc = "read"
  <2>1. Fence \in Fences /\ row.resume \in BOOLEAN /\ store \in 1..MaxStores /\ AcknowledgedIssues \subseteq Revisions
    BY <1>1, FenceType DEF TypeOK, Rows, AcknowledgedIssues
  <2>2. QED
    BY <2>1 DEF Passes
<1>3. pass' = [pass EXCEPT ![w] = q] /\ budget' = budget
  BY DEF Begin
<1> HIDE DEF q
<1>4. pass'[w] = q => PassOK(w)'
  BY <1>2, NotWalking DEF WalkingPcs
<1>5. QED
  BY ZenonT(40), <1>1, <1>2, <1>3, <1>4, NothingDecided, OwnStepKeeps DEF Begin, TypeOK

LEMMA ReadEvidenceKeeps ==
    ASSUME SettlementInv, NEW w \in Workers, ReadEvidence(w)
    PROVE  SettlementInv'
<1> DEFINE p == pass[w]
           after == SeqIn(p.fence.cur, store, p.fence.dev)
           read == [store |-> store, dev |-> row.dev, epoch |-> row.epoch, after |-> after,
                    jobs |-> jobs[row.dev]]
<1>1. TypeOK
  BY DEF SettlementInv
<1>2. p \in [pc : {"read"}, resume : BOOLEAN, fence : Fences, store : 1..MaxStores,
             seen : SUBSET Revisions]
  BY <1>1, Shapes DEF ReadEvidence
<1>3. after \in 0..MaxJobs
  BY <1>2, SettlementAssumption DEF SeqIn, Fences, Cursors
<1> HIDE DEF after
<1>4. read \in Reads
  BY <1>1, <1>3 DEF Reads, TypeOK, Rows
<1> HIDE DEF read
<1>5. \E q \in Passes : q.pc \in {"idle", "page"} /\ pass' = [pass EXCEPT ![w] = q]
  <2>1. CASE <<row.dev, row.epoch>> # <<p.fence.dev, p.fence.epoch>>
    BY <2>1, Idles DEF ReadEvidence
  <2>2. CASE <<row.dev, row.epoch>> = <<p.fence.dev, p.fence.epoch>>
    <3>1. PICK r \in {read} \cup (IF store = p.store THEN {} ELSE {None}) :
             pass' = [pass EXCEPT ![w] = [pc |-> "page", resume |-> p.resume, seen |-> p.seen, read |-> r]]
      BY <2>2 DEF ReadEvidence, read, after
    <3>2. r \in Reads \cup {None}
      BY <1>4, <3>1
    <3>3. [pc |-> "page", resume |-> p.resume, seen |-> p.seen, read |-> r] \in Passes
      BY <1>2, <3>2 DEF Passes
    <3>4. QED
      BY <3>1, <3>3
  <2>3. QED
    BY <2>1, <2>2
<1>6. PICK q \in Passes : q.pc \in {"idle", "page"} /\ pass' = [pass EXCEPT ![w] = q]
  BY <1>5
<1>7. pass'[w] = q => PassOK(w)'
  BY <1>6, NotWalking DEF WalkingPcs
<1>8. QED
  BY <1>1, <1>6, <1>7, NothingDecided, OwnStepKeeps DEF ReadEvidence, TypeOK

\* a pass that locked its page walks from the row's own cursor
LEMMA LockPageKeeps ==
    ASSUME SettlementInv, NEW w \in Workers, LockPage(w)
    PROVE  SettlementInv'
<1> DEFINE p == pass[w]
           reset == row.cur.store # store \/ row.cur.dev # row.dev
           cursor == SeqIn(row.cur, store, row.dev)
           page == FeedPage(row.dev, cursor)
           read == IF p.read # None /\ <<p.read.dev, p.read.epoch, p.read.store>> = <<row.dev, row.epoch, store>>
                   THEN p.read ELSE None
           feed == IF read = None THEN {}
                   ELSE {n \in DOMAIN read.jobs : n > read.after} \cup {page[i] : i \in DOMAIN page}
           history == IF read = None \/ reset THEN {}
                      ELSE {n \in DOMAIN read.jobs \ feed :
                              /\ read.jobs[n].row # "none" /\ n <= row.cur.seq
                              /\ exec[Key(store, row.dev, n)] = "consumed"}
           item(n) == IF read # None /\ n \in DOMAIN read.jobs /\ n > read.after
                      THEN <<read.jobs[n].item, jobs[row.dev][n].item>> ELSE <<jobs[row.dev][n].item>>
           listed(n) == IF read # None /\ n \in DOMAIN read.jobs THEN read.jobs[n].row ELSE "none"
           carrier(n) == [job |-> n, kind |-> jobs[row.dev][n].kind,
                          items |-> Range(item(n)), row |-> listed(n)]
           todo == [i \in DOMAIN page |-> carrier(page[i])]
           short == Len(page) < PageSize
           alone == page = <<>>
           q == [pc |-> "prepare", resume |-> p.resume, seen |-> p.seen, read |-> read, feed |-> feed,
                 fence |-> Fence, store |-> store, cursor |-> cursor, reset |-> reset,
                 history |-> history, todo |-> todo,
                 alone |-> alone, short |-> short, released |-> FALSE]
<1>1. TypeOK /\ row \in Rows /\ store \in 1..MaxStores /\ store \in Int /\ Fence \in Fences
  BY FenceType DEF SettlementInv, TypeOK
<1>2. p \in [pc : {"page"}, resume : BOOLEAN, seen : SUBSET Revisions, read : Reads \cup {None}]
  BY <1>1, Shapes DEF LockPage
<1>3. pass' = [pass EXCEPT ![w] = q]
  BY DEF LockPage
<1>4. cursor \in 0..MaxJobs
  BY <1>1, SettlementAssumption DEF SeqIn, Rows, Cursors
<1>5. read \in Reads \cup {None}
  BY <1>2
<1>6. PICK m \in Nat : /\ page = [i \in 1..m |-> cursor + i]
                       /\ \A i \in 1..m : cursor + i \in DOMAIN jobs[row.dev] /\ cursor + i \in Positions
  <2>1. row.dev \in Devices /\ jobs[row.dev] \in Feeds
    BY <1>1 DEF TypeOK, Rows
  <2> HIDE DEF cursor
  <2>2. QED
    BY <1>4, <2>1, PageFollowsTheCursor
<1>7. jobs[row.dev] \in Seq(Job) /\ row.dev \in Devices
  BY <1>1 DEF TypeOK, Rows, Feeds
<1>8. read # None => read.jobs \in Seq(Job) /\ DOMAIN read.jobs \subseteq Positions
  <2>1. ASSUME read # None PROVE read.jobs \in Seq(Job) /\ DOMAIN read.jobs \subseteq Positions
    <3>1. read.jobs \in Seq(Job) /\ Len(read.jobs) <= MaxJobs
      BY <1>5, <2>1 DEF Reads, Feeds
    <3>2. MaxJobs \in Nat
      BY SettlementAssumption
    <3>3. QED
      BY <3>1, <3>2 DEF Positions
  <2>2. QED
    BY <2>1
<1>9. DOMAIN page = 1..m /\ Len(page) = m /\ \A i \in 1..m : page[i] = cursor + i
  BY <1>6
<1> HIDE DEF page, cursor, read
<1>10. \A n \in DOMAIN jobs[row.dev] : n \in Positions => carrier(n) \in Carriers
  <2>1. ASSUME NEW n \in DOMAIN jobs[row.dev], n \in Positions
        PROVE  carrier(n) \in Carriers
    <3>1. jobs[row.dev][n] \in Job
      BY <1>7, <2>1
    <3>2. ASSUME read # None, n \in DOMAIN read.jobs PROVE read.jobs[n] \in Job
      BY <1>8, <3>2
    <3>3. Range(item(n)) \subseteq {"good", "bad"}
      BY <3>1, <3>2 DEF Job, Range
    <3>4. listed(n) \in {"none", "good", "bad"}
      BY <3>2 DEF Job
    <3>5. jobs[row.dev][n].kind \in Kinds
      BY <3>1 DEF Job
    <3> HIDE DEF item, listed
    <3>6. QED
      BY <2>1, <3>3, <3>4, <3>5 DEF Carriers
  <2>2. QED
    BY <2>1
<1>11. \A n \in Nat : carrier(n).job = n /\ carrier(n).kind = jobs[row.dev][n].kind
  OBVIOUS
<1> HIDE DEF carrier
<1>12. /\ todo \in Seq(Carriers) /\ DOMAIN todo = 1..m
       /\ \A i \in 1..m : /\ todo[i].job = cursor + i
                          /\ cursor + i \in DOMAIN jobs[row.dev]
                          /\ todo[i].kind = jobs[row.dev][cursor + i].kind
  <2>1. todo = [i \in 1..m |-> carrier(cursor + i)]
    BY <1>9
  <2>2. \A i \in 1..m : carrier(cursor + i) \in Carriers
    BY <1>6, <1>10
  <2>3. \A i \in 1..m : cursor + i \in Nat
    BY <1>4
  <2> HIDE DEF todo
  <2>4. todo \in Seq(Carriers)
    BY <2>1, <2>2
  <2>5. QED
    BY <1>6, <1>11, <2>1, <2>3, <2>4
<1>13. feed \subseteq Positions
  BY <1>6, <1>8, <1>9
<1>14. history \subseteq Positions
  BY <1>8
<1>15. reset \in BOOLEAN /\ alone \in BOOLEAN /\ short \in BOOLEAN
  BY <1>9, SettlementAssumption
<1> HIDE DEF todo, feed, history, reset, alone, short
<1>16. q \in Walks
  BY <1>1, <1>2, <1>4, <1>5, <1>12, <1>13, <1>14, <1>15 DEF Walks
<1>17. q \in Passes
  BY <1>16 DEF Passes
<1>18. /\ q.pc = "prepare" /\ q.fence = Fence /\ q.store = store /\ q.cursor = cursor /\ q.todo = todo
  OBVIOUS
<1> HIDE DEF q
<1>19. ASSUME pass'[w] = q
       PROVE  PassOK(w)'
  <2>1. Fence' = Fence /\ store' = store /\ jobs' = jobs
    BY DEF LockPage, Fence
  <2>2. Fence.cur = row.cur /\ Fence.dev = row.dev /\ row.cur.store <= store
    BY DEF Fence, FenceOf, SettlementInv, CursorInv
  <2>3. WalkOK(w)'
    BY <1>1, <1>12, <1>18, <1>19, <2>1, <2>2 DEF WalkOK, cursor
  <2>4. CommitOK(w)' /\ StallOK(w)'
    BY <1>18, <1>19 DEF CommitOK, StallOK
  <2>5. QED
    BY <2>3, <2>4 DEF PassOK
<1>20. UNCHANGED <<store, jobs, row, exec, issues, budget>>
  BY DEF LockPage
<1>21. budget' \in Budgets /\ budget'.jobs = budget.jobs
  BY <1>1, <1>20 DEF TypeOK
<1>22. QED
  BY <1>3, <1>17, <1>19, <1>20, <1>21, NothingDecided, OwnStepKeeps

\* the deployment head is a job, or none
LEMMA HeadIsAJob ==
    ASSUME TypeOK, NEW d \in Devices
    PROVE  DeploymentHead(d) \in 0..MaxJobs
<1> DEFINE S == {0} \cup {n \in DOMAIN jobs[d] : jobs[d][n].row # "none"}
<1>1. S \subseteq 0..MaxJobs /\ S # {} /\ MaxJobs \in Nat
  BY SettlementAssumption DEF TypeOK, Feeds
<1> HIDE DEF S
<1>2. Max(S) \in S
  BY <1>1, MaxIsMember
<1>3. QED
  BY <1>1, <1>2 DEF DeploymentHead, S

\* the first stall of a whole read names a job and a class
LEMMA ReadStallIsAStall ==
    ASSUME NEW p \in Walks
    PROVE  \/ ReadStall(p) = None
           \/ \E n \in Positions, c \in Classes : ReadStall(p) = <<n, c>>
<1>1. CASE p.read = None
  BY <1>1 DEF ReadStall
<1>2. CASE p.read # None
  <2>1. p.read \in Reads
    BY <1>2 DEF Walks
  <2>2. DOMAIN p.read.jobs \subseteq Positions /\ Positions \subseteq Nat
    BY SMTT(20), <2>1, SettlementAssumption DEF Reads, Feeds, Positions
  <2>3. BadItems(p) \subseteq Positions /\ BadRows(p) \subseteq Positions /\ Uncertified(p) \subseteq Positions
    BY <2>2 DEF BadItems, BadRows, Uncertified, FeedOf
  <2>4. \A S \in SUBSET Positions : S # {} => Min(S) \in Positions
    BY <2>2, MinIsMember
  <2>5. "invalid_evidence" \in Classes /\ "evidence_invariant" \in Classes
    BY DEF Classes
  <2>6. CASE BadItems(p) # {}
    BY <1>2, <2>3, <2>4, <2>5, <2>6 DEF ReadStall
  <2>7. CASE BadItems(p) = {} /\ BadRows(p) # {}
    BY <1>2, <2>3, <2>4, <2>5, <2>7 DEF ReadStall
  <2>8. CASE BadItems(p) = {} /\ BadRows(p) = {} /\ Uncertified(p) # {}
    BY <1>2, <2>3, <2>4, <2>5, <2>8 DEF ReadStall
  <2>9. CASE BadItems(p) = {} /\ BadRows(p) = {} /\ Uncertified(p) = {}
    BY <1>2, <2>9 DEF ReadStall
  <2>10. QED
    BY <2>6, <2>7, <2>8, <2>9
<1>3. QED
  BY <1>1, <1>2

\* the next carrier of a pass that has one
LEMMA CarrierHasAJob ==
    ASSUME NEW p \in Walks, ~Spent(p)
    PROVE  /\ Carrier(p).job \in Positions
           /\ Paged(p) => Carrier(p) = Head(p.todo) /\ Carrier(p) \in Carriers /\ 1 \in DOMAIN p.todo
                          /\ Carrier(p) = p.todo[1]
<1>1. CASE Paged(p)
  <2>1. p.todo \in Seq(Carriers) /\ p.todo # <<>>
    BY <1>1 DEF Walks, Paged
  <2>2. Head(p.todo) \in Carriers /\ 1 \in DOMAIN p.todo /\ Head(p.todo) = p.todo[1]
    BY <2>1
  <2>3. QED
    BY <1>1, <2>2 DEF Carrier, Carriers
<1>2. CASE ~Paged(p)
  <2>1. p.history # {} /\ p.history \subseteq Positions
    BY <1>2 DEF Paged, Spent, Walks
  <2>2. Min(p.history) \in Positions
    BY <2>1, MinIsMember, SettlementAssumption DEF Positions
  <2>3. QED
    BY <1>2, <2>2 DEF Carrier
<1>3. QED
  BY <1>1, <1>2

LEMMA CarrierStallIsAStall ==
    ASSUME NEW p, NEW item, NEW released, item.job \in Positions
    PROVE  \/ CarrierStall(p, item, released) = None
           \/ \E n \in Positions, c \in Classes : CarrierStall(p, item, released) = <<n, c>>
BY DEF CarrierStall, Classes

\* a pass on its way to record a stall
LEMMA ToDiagnoseIsAPass ==
    ASSUME NEW p \in Walks, NEW n \in Positions, NEW c \in Classes, NEW stall, stall = <<n, c>>
    PROVE  /\ ToDiagnose(p, stall) \in Passes
           /\ ToDiagnose(p, stall).pc = "diagnose"
           /\ ToDiagnose(p, stall).stall.fence = ToDiagnose(p, stall).fence
<1>1. p.fence \in Fences /\ p.store \in 1..MaxStores /\ p.seen \in SUBSET Revisions
  BY DEF Walks
<1>2. Stall(p.fence, stall[1], p.store, stall[2]) \in Stalls
  BY <1>1 DEF Stall, Stalls
<1>3. QED
  BY <1>1, <1>2 DEF ToDiagnose, Passes, Stall
LEMMA DiagnosingPass ==
    ASSUME NEW w \in Workers, pass'[w].pc = "diagnose", pass'[w].stall.fence = pass'[w].fence
    PROVE  PassOK(w)'
BY DEF PassOK, WalkOK, CommitOK, StallOK, WalkingPcs

\* A carrier is prepared as released only if an issue released it, and a carrier that was not is
\* not acknowledged while its fence holds.
LEMMA PrepareKeeps ==
    ASSUME SettlementInv, NEW w \in Workers, Prepare(w)
    PROVE  SettlementInv' /\ DecisionsStay
<1> DEFINE p == pass[w]
           item == Carrier(p)
           released == Paged(p) /\ item.job \in AcknowledgedJobs(p.store)
           stall == IF Spent(p) THEN ReadStall(p) ELSE CarrierStall(p, item, released)
           ready == [p EXCEPT !.pc = "commit", !.released = released]
<1>1. TypeOK /\ WalkOK(w) /\ p.pc = "prepare" /\ AckInv
  BY DEF SettlementInv, PassOK, Prepare
<1>2. p \in Walks
  BY <1>1, Shapes DEF WalkingPcs
<1>3. UNCHANGED <<store, jobs, row, issues, budget>>
  BY DEF Prepare
<1>4. budget' \in Budgets /\ budget'.jobs = budget.jobs
  BY <1>1, <1>3 DEF TypeOK
<1>5. stall = None \/ \E n \in Positions, c \in Classes : stall = <<n, c>>
  BY <1>2, ReadStallIsAStall, CarrierHasAJob, CarrierStallIsAStall
<1>6. CASE Fence # p.fence
  <2>1. pass' = [pass EXCEPT ![w] = Idle] /\ exec' = exec
    BY <1>6 DEF Prepare
  <2>2. pass'[w] = Idle => PassOK(w)'
    BY Idles, NotWalking DEF WalkingPcs
  <2>3. QED
    BY <1>3, <1>4, <2>1, <2>2, Idles, NothingDecided, OwnStepKeeps
<1>7. CASE Fence = p.fence
  <2>1. Placeholder(p, stall)
    BY <1>7 DEF Prepare
  <2>2. /\ exec' \in [Keys -> ExecStates] /\ DecisionsStay
        /\ \A x \in Keys : exec'[x] = "acknowledged" => exec[x] = "acknowledged"
    BY <1>1, <2>1, PlaceholderDecidesNothing
  <2>3. CASE stall # None
    <3> DEFINE q == ToDiagnose(p, stall)
    <3>1. PICK n \in Positions, c \in Classes : stall = <<n, c>>
      BY <1>5, <2>3
    <3>2. pass' = [pass EXCEPT ![w] = q]
      BY <1>7, <2>3 DEF Prepare
    <3> HIDE DEF stall
    <3>3. q \in Passes /\ q.pc = "diagnose" /\ q.stall.fence = q.fence
      BY <1>2, <3>1, ToDiagnoseIsAPass
    <3> HIDE DEF q
    <3>4. pass'[w] = q => PassOK(w)'
      BY <3>3, DiagnosingPass
    <3>5. QED
      BY <1>3, <1>4, <2>2, <3>2, <3>3, <3>4, OwnStepKeeps
  <2>4. CASE stall = None
    <3>1. pass' = [pass EXCEPT ![w] = ready]
      BY <1>7, <2>4 DEF Prepare
    <3>2. released \in BOOLEAN
      OBVIOUS
    <3> HIDE DEF released
    <3>3. ready \in Walks
      BY <1>2, <3>2 DEF Walks
    <3>4. ready \in Passes
      BY <3>3 DEF Passes
    <3>5. /\ ready.pc = "commit" /\ ready.released = released /\ ready.todo = p.todo
          /\ ready.history = p.history /\ ready.store = p.store /\ ready.fence = p.fence
          /\ ready.cursor = p.cursor
      BY <1>2 DEF Walks
    <3> HIDE DEF ready
    <3>6. ASSUME pass'[w] = ready
          PROVE  PassOK(w)'
      <4>1. Fence' = Fence
        BY <1>3 DEF Fence
      <4>2. WalkOK(w)'
        BY <1>1, <1>3, <3>5, <3>6, <4>1 DEF WalkOK, WalkingPcs
      <4>3. ASSUME Paged(p)
            PROVE  IF released THEN IsReleased(NextKey(p))
                   ELSE exec[NextKey(p)] # "acknowledged"
        <5>1. item = Head(p.todo) /\ item \in Carriers
          BY <1>2, <4>3, CarrierHasAJob DEF Spent, Paged
        <5>2. NextKey(p) \in Keys /\ NextKey(p) = Key(p.store, row.dev, item.job)
          BY <1>2, <1>7, <5>1 DEF NextKey, Key, Keys, Walks, Fences, Carriers, Fence, FenceOf
        <5>3. released <=> IsReleased(NextKey(p))
          BY <4>3, <5>2 DEF released, AcknowledgedJobs, IsReleased, Key
        <5>4. QED
          BY <1>1, <5>2, <5>3 DEF AckInv
      <4>4. ASSUME Paged(p)
            PROVE  NextKey(p) \in Keys
        BY <1>2, <4>4, CarrierHasAJob DEF NextKey, Key, Keys, Walks, Fences, Carriers, Spent, Paged
      <4>5. CommitOK(w)'
        <5>1. Paged(ready) = Paged(p) /\ NextKey(ready) = NextKey(p)
          BY <3>5 DEF Paged, NextKey
        <5>2. SUFFICES ASSUME Paged(p)
                       PROVE  IF released THEN IsReleased(NextKey(p))'
                              ELSE exec'[NextKey(p)] = "acknowledged" => Ahead(Fence', p.fence)
          BY <3>5, <3>6, <5>1 DEF CommitOK, IsReleased
        <5>3. CASE released
          <6>1. IsReleased(NextKey(p)) /\ issues' = issues
            BY <1>3, <4>3, <5>2, <5>3
          <6>2. IsReleased(NextKey(p))'
            BY <3>5, <3>6, <6>1 DEF IsReleased, AcknowledgedIssues, NextKey, Key
          <6>3. QED
            BY <5>3, <6>2
        <5>4. CASE ~released
          <6>1. exec[NextKey(p)] # "acknowledged" /\ NextKey(p) \in Keys
            BY <4>3, <4>4, <5>2, <5>4
          <6>2. exec'[NextKey(p)] # "acknowledged"
            BY <2>2, <6>1
          <6>3. QED
            BY <5>4, <6>2
        <5>5. QED
          BY <5>3, <5>4
      <4>6. StallOK(w)'
        BY <3>5, <3>6 DEF StallOK
      <4>7. QED
        BY <4>2, <4>5, <4>6 DEF PassOK
    <3>7. QED
      BY <1>3, <1>4, <2>2, <3>1, <3>4, <3>6, OwnStepKeeps
  <2>5. QED
    BY <2>3, <2>4
<1>8. QED
  BY <1>6, <1>7

LEMMA CheckKeeps ==
    ASSUME SettlementInv, NEW w \in Workers, Check(w)
    PROVE  SettlementInv' /\ DecisionsStay
<1> DEFINE p == pass[w]
           stall == ReadStall(p)
           clear == [pc |-> "clear", fence |-> p.fence, seen |-> p.seen]
<1>1. TypeOK /\ p \in Walks
  <2>1. TypeOK /\ p.pc \in WalkingPcs
    BY DEF SettlementInv, Check, WalkingPcs
  <2>2. QED
    BY <2>1, Shapes
<1>2. UNCHANGED <<store, jobs, row, issues, budget>>
  BY DEF Check
<1>3. budget' \in Budgets /\ budget'.jobs = budget.jobs
  BY <1>1, <1>2 DEF TypeOK
<1>4. clear \in Passes /\ clear.pc = "clear"
  <2>1. p.fence \in Fences /\ p.seen \in SUBSET Revisions
    BY <1>1 DEF Walks
  <2>2. QED
    BY <2>1 DEF Passes
<1>5. \/ exec' = exec
      \/ Placeholder(p, stall)
  BY DEF Check
<1>6. /\ exec' \in [Keys -> ExecStates] /\ DecisionsStay
      /\ \A x \in Keys : exec'[x] = "acknowledged" => exec[x] = "acknowledged"
  BY <1>1, <1>5, NothingDecided, PlaceholderDecidesNothing
<1>7. \/ pass' = [pass EXCEPT ![w] = Idle]
      \/ stall # None /\ pass' = [pass EXCEPT ![w] = ToDiagnose(p, stall)]
      \/ pass' = [pass EXCEPT ![w] = clear]
  BY DEF Check
<1> HIDE DEF clear, stall
<1>8. CASE pass' = [pass EXCEPT ![w] = Idle]
  <2>1. pass'[w] = Idle => PassOK(w)'
    BY Idles, NotWalking DEF WalkingPcs
  <2>2. QED
    BY <1>2, <1>3, <1>6, <1>8, <2>1, Idles, OwnStepKeeps
<1>9. CASE pass' = [pass EXCEPT ![w] = clear]
  <2>1. pass'[w] = clear => PassOK(w)'
    BY <1>4, NotWalking DEF WalkingPcs
  <2>2. QED
    BY <1>2, <1>3, <1>4, <1>6, <1>9, <2>1, OwnStepKeeps
<1>10. CASE stall # None /\ pass' = [pass EXCEPT ![w] = ToDiagnose(p, stall)]
  <2> DEFINE q == ToDiagnose(p, stall)
  <2>1. PICK n \in Positions, c \in Classes : stall = <<n, c>>
    BY <1>1, <1>10, ReadStallIsAStall DEF stall
  <2>2. q \in Passes /\ q.pc = "diagnose" /\ q.stall.fence = q.fence
    BY <1>1, <2>1, ToDiagnoseIsAPass
  <2>3. pass' = [pass EXCEPT ![w] = q]
    BY <1>10
  <2> HIDE DEF q
  <2>4. pass'[w] = q => PassOK(w)'
    BY <2>2, DiagnosingPass
  <2>5. QED
    BY <1>2, <1>3, <1>6, <2>2, <2>3, <2>4, OwnStepKeeps
<1>11. QED
  BY <1>7, <1>8, <1>9, <1>10

LEMMA PublishKeeps ==
    ASSUME SettlementInv, NEW w \in Workers, Publish(w)
    PROVE  SettlementInv'
<1> DEFINE stall == Base(row.diag)
           revision == IF Exit(stall) = "acknowledgeable" THEN Revision(stall) ELSE None
           record == [pc |-> "record", stall |-> stall, exit |-> Exit(stall), revision |-> revision]
<1>1. TypeOK /\ row \in Rows
  BY DEF SettlementInv, TypeOK
<1>2. UNCHANGED <<store, jobs, row, exec, issues, budget>>
  BY DEF Publish
<1>3. budget' \in Budgets /\ budget'.jobs = budget.jobs
  BY <1>1, <1>2 DEF TypeOK
<1>4. \/ pass' = [pass EXCEPT ![w] = Idle]
      \/ stall # None /\ pass' = [pass EXCEPT ![w] = record]
  BY DEF Publish
<1>5. CASE pass' = [pass EXCEPT ![w] = Idle]
  <2>1. pass'[w] = Idle => PassOK(w)'
    BY Idles, NotWalking DEF WalkingPcs
  <2>2. QED
    BY <1>2, <1>3, <1>5, <2>1, Idles, NothingDecided, OwnStepKeeps
<1>6. CASE stall # None /\ pass' = [pass EXCEPT ![w] = record]
  <2>1. stall \in Stalls
    BY <1>1, <1>6 DEF Base, Rows, Diagnostics, Stalls, Stall
  <2>2. Exit(stall) \in Exits
    BY DEF Exit, Exits
  <2> HIDE DEF stall
  <2>3. revision = None \/ (Exit(stall) = "acknowledgeable" /\ revision = Revision(stall))
    OBVIOUS
  <2>4. ASSUME Exit(stall) = "acknowledgeable"
        PROVE  /\ Revision(stall) \in Revisions
               /\ Revision(stall).fence = stall.fence /\ Revision(stall).job = stall.job
               /\ Revision(stall).store = stall.store
    <3>1. stall.store = store /\ stall.job \in DOMAIN jobs[row.dev]
      BY <2>4 DEF Exit
    <3>2. row.dev \in Devices /\ jobs[row.dev] \in Feeds /\ jobs[row.dev][stall.job] \in Job
      BY <1>1, <3>1 DEF TypeOK, Rows, Feeds
    <3>3. DeploymentHead(row.dev) \in 0..MaxJobs
      BY <1>1, <3>2, HeadIsAJob
    <3>4. Key(stall.store, row.dev, stall.job) \in Keys
      BY <2>1, <3>2 DEF Stalls, Key, Keys
    <3>5. exec[Key(stall.store, row.dev, stall.job)] \in ExecStates
      BY <1>1, <3>4 DEF TypeOK
    <3>6. stall.fence \in Fences /\ stall.job \in Positions /\ stall.store \in 1..MaxStores /\ stall.cls \in Classes
      BY <2>1 DEF Stalls
    <3>7. QED
      BY <3>2, <3>3, <3>5, <3>6 DEF Revision, Revisions
  <2> HIDE DEF revision
  <2>5. record \in Passes
    <3>1. revision \in Revisions \cup {None}
      BY <2>3, <2>4
    <3>2. QED
      BY <2>1, <2>2, <3>1 DEF Passes
  <2>6. /\ record.pc = "record" /\ record.stall = stall /\ record.revision = revision
        /\ revision # None => revision.fence = stall.fence /\ revision.job = stall.job
                              /\ revision.store = stall.store
    BY <2>3, <2>4
  <2>7. pass' = [pass EXCEPT ![w] = record]
    BY <1>6
  <2> HIDE DEF record
  <2>8. pass'[w] = record => PassOK(w)'
    BY <2>6 DEF PassOK, WalkOK, CommitOK, StallOK, WalkingPcs
  <2>9. QED
    BY <1>2, <1>3, <2>5, <2>7, <2>8, NothingDecided, OwnStepKeeps
<1>7. QED
  BY <1>4, <1>5, <1>6

\* a pass that ends, for whatever reason, leaves nothing behind
LEMMA AbortKeeps ==
    ASSUME SettlementInv, NEW w \in Workers, Abort(w)
    PROVE  SettlementInv'
<1>1. TypeOK
  BY DEF SettlementInv
<1>2. /\ UNCHANGED <<store, jobs, row, exec, issues>> /\ pass' = [pass EXCEPT ![w] = Idle]
      /\ budget.faults > 0 /\ budget' = [budget EXCEPT !.faults = budget.faults - 1]
  BY DEF Abort
<1>3. budget' \in Budgets /\ budget'.jobs = budget.jobs
  <2>1. budget \in Budgets
    BY <1>1 DEF TypeOK
  <2>2. QED
    BY <1>2, <2>1, BudgetsAreSpent DEF Budgets
<1>4. pass'[w] = Idle => PassOK(w)'
  BY Idles, NotWalking DEF WalkingPcs
<1>5. QED
  BY <1>2, <1>3, <1>4, Idles, NothingDecided, OwnStepKeeps

-----------------------------------------------------------------------------
(* Steps that write the row                                                *)

\* a cleared resume request is under no fence
LEMMA ClearResumeKeeps ==
    ASSUME SettlementInv, NEW w \in Workers, ClearResume(w)
    PROVE  SettlementInv'
<1>1. TypeOK /\ row \in Rows
  BY DEF SettlementInv, TypeOK
<1>2. /\ UNCHANGED <<store, jobs, exec, issues, budget>> /\ pass' = [pass EXCEPT ![w] = Idle]
      /\ row' = row \/ row' = [row EXCEPT !.resume = FALSE]
  BY DEF ClearResume
<1>3. row' \in Rows /\ row'.cur = row.cur /\ row'.diag = row.diag /\ Fence' = Fence
  BY <1>1, <1>2 DEF Rows, Fence, FenceOf
<1>4. budget' \in Budgets /\ budget'.jobs = budget.jobs
  BY <1>1, <1>2 DEF TypeOK
<1>5. /\ DOMAIN issues' \subseteq Revisions
      /\ \A k \in DOMAIN issues' : issues'[k] \in {"open", "resolved", "acknowledged"}
      /\ AcksStay
  BY <1>1, <1>2 DEF TypeOK, AcksStay, AcknowledgedIssues
<1>6. OpenIssueIsTheDiagnostic'
  BY <1>2, <1>3, OfferKept DEF SettlementInv
<1>7. pass'[w] = Idle => PassOK(w)'
  BY Idles, NotWalking DEF WalkingPcs
<1>8. QED
  BY <1>2, <1>3, <1>4, <1>5, <1>6, <1>7, Idles, NothingDecided, PassStepKeeps

\* Writing a diagnostic, or clearing it, leaves open only the issue of the stall it names, and
\* takes no acknowledgement back.
LEMMA DiagnosticIsWritten ==
    ASSUME SettlementInv, NEW r \in Rows, r.diag = row.diag,
           NEW stall \in Stalls \cup {None}, NEW ex, WriteDiagnostic(r, stall, ex)
    PROVE  /\ row' \in Rows
           /\ row'.dev = r.dev /\ row'.epoch = r.epoch /\ row'.cur = r.cur
           /\ DOMAIN issues' \subseteq Revisions
           /\ \A k \in DOMAIN issues' : issues'[k] \in {"open", "resolved", "acknowledged"}
           /\ AcksStay /\ OpenIssueIsTheDiagnostic'
<1> DEFINE written == [fence |-> stall.fence, job |-> stall.job, store |-> stall.store,
                       cls |-> stall.cls, exit |-> "none"]
           diag == IF Base(r.diag) = stall THEN r.diag
                   ELSE IF stall = None THEN None ELSE written
<1>1. TypeOK /\ OpenIssueIsTheDiagnostic
  BY DEF SettlementInv
<1>2. row' = [r EXCEPT !.diag = diag]
  BY DEF WriteDiagnostic
<1>3. diag \in Diagnostics \cup {None}
  <2>1. r.diag \in Diagnostics \cup {None}
    BY DEF Rows
  <2>2. stall # None => written \in Diagnostics
    BY DEF Stalls, Diagnostics
  <2>3. QED
    BY <2>1, <2>2
<1> HIDE DEF diag
<1>4. row' \in Rows /\ row'.dev = r.dev /\ row'.epoch = r.epoch /\ row'.cur = r.cur /\ row'.diag = diag
  BY <1>2, <1>3 DEF Rows
<1>5. CASE Base(r.diag) = stall
  <2>1. issues' = issues /\ row'.diag = row.diag
    BY <1>4, <1>5 DEF WriteDiagnostic, diag
  <2>2. OpenIssueIsTheDiagnostic'
    BY <1>1, <2>1, OfferKept
  <2>3. QED
    BY <1>1, <1>4, <2>1, <2>2 DEF TypeOK, AcksStay, AcknowledgedIssues
<1>6. CASE Base(r.diag) # stall
  <2>1. issues' = Retired(row', ex)
    BY <1>6 DEF WriteDiagnostic
  <2>2. /\ DOMAIN issues' \subseteq DOMAIN issues
        /\ \A k \in DOMAIN issues :
              issues[k] # "open" => k \in DOMAIN issues' /\ issues'[k] = issues[k]
        /\ \A k \in DOMAIN issues' :
              issues'[k] = IF issues[k] = "open" /\ ~Current(k, row') THEN "resolved" ELSE issues[k]
    BY <2>1 DEF Retired
  <2>3. /\ DOMAIN issues' \subseteq Revisions
        /\ \A k \in DOMAIN issues' : issues'[k] \in {"open", "resolved", "acknowledged"}
    BY <1>1, <2>2 DEF TypeOK
  <2>4. AcksStay
    BY <2>2 DEF AcksStay, AcknowledgedIssues
  <2>5. \A k \in OpenIssues' : k \in OpenIssues /\ Current(k, row')
    BY <2>2 DEF OpenIssues
  <2>6. OpenIssueIsTheDiagnostic'
    <3>1. ASSUME NEW k \in OpenIssues'
          PROVE  /\ OpenIssues' = {k} /\ row'.diag # None
                 /\ <<row'.diag.fence, row'.diag.job, row'.diag.store>> = <<k.fence, k.job, k.store>>
      <4>1. OpenIssues = {k} /\ Current(k, row')
        BY <1>1, <2>5, <3>1 DEF OpenIssueIsTheDiagnostic
      <4>2. OpenIssues' = {k}
        BY <2>5, <3>1, <4>1
      <4>3. QED
        BY <4>1, <4>2 DEF Current
    <3>2. QED
      BY <3>1 DEF OpenIssueIsTheDiagnostic
  <2>7. QED
    BY <1>4, <2>3, <2>4, <2>6
<1>7. QED
  BY <1>5, <1>6

LEMMA DiagnoseKeeps ==
    ASSUME SettlementInv, NEW w \in Workers, Diagnose(w)
    PROVE  SettlementInv'
<1> DEFINE p == pass[w]
           publish == [pc |-> "publish"]
<1>1. TypeOK /\ row \in Rows
  BY DEF SettlementInv, TypeOK
<1>2. p.stall \in Stalls
  BY <1>1, Shapes DEF Diagnose
<1>3. UNCHANGED <<store, jobs, exec, budget>> /\ pass' = [pass EXCEPT ![w] = publish]
  BY DEF Diagnose
<1>4. budget' \in Budgets /\ budget'.jobs = budget.jobs
  BY <1>1, <1>3 DEF TypeOK
<1>5. /\ row' \in Rows /\ row'.cur = row.cur /\ Fence' = Fence
      /\ DOMAIN issues' \subseteq Revisions
      /\ \A k \in DOMAIN issues' : issues'[k] \in {"open", "resolved", "acknowledged"}
      /\ AcksStay /\ OpenIssueIsTheDiagnostic'
  <2>1. CASE MayRecord(p)
    <3>1. WriteDiagnostic(row, p.stall, exec)
      BY <2>1 DEF Diagnose
    <3>2. QED
      BY <1>1, <1>2, <3>1, DiagnosticIsWritten DEF Fence, FenceOf
  <2>2. CASE ~MayRecord(p)
    <3>1. row' = row /\ issues' = issues
      BY <2>2 DEF Diagnose
    <3>2. QED
      BY <1>1, <3>1, OfferKept DEF TypeOK, Fence, AcksStay, AcknowledgedIssues, SettlementInv
  <2>3. QED
    BY <2>1, <2>2
<1>6. publish \in Passes /\ publish.pc = "publish"
  BY Idles
<1> HIDE DEF publish
<1>7. pass'[w] = publish => PassOK(w)'
  BY <1>6, NotWalking DEF WalkingPcs
<1>8. QED
  BY <1>3, <1>4, <1>5, <1>6, <1>7, NothingDecided, PassStepKeeps

\* A decided exit is written, and its issue opened, beside the diagnostic it was decided for.
LEMMA RecordKeeps ==
    ASSUME SettlementInv, NEW w \in Workers, Record(w)
    PROVE  SettlementInv'
<1> DEFINE p == pass[w]
           diag == [row.diag EXCEPT !.exit = p.exit]
<1>1. TypeOK /\ row \in Rows /\ OpenIssueIsTheDiagnostic /\ StallOK(w) /\ p.pc = "record"
  BY DEF SettlementInv, TypeOK, PassOK, Record
<1>2. p.stall \in Stalls /\ p.exit \in Exits /\ p.revision \in Revisions \cup {None}
  BY <1>1, Shapes
<1>3. UNCHANGED <<store, jobs, exec, budget>> /\ pass' = [pass EXCEPT ![w] = Idle]
  BY DEF Record
<1>4. budget' \in Budgets /\ budget'.jobs = budget.jobs
  BY <1>1, <1>3 DEF TypeOK
<1>5. /\ row' \in Rows /\ row'.cur = row.cur /\ Fence' = Fence
      /\ DOMAIN issues' \subseteq Revisions
      /\ \A k \in DOMAIN issues' : issues'[k] \in {"open", "resolved", "acknowledged"}
      /\ AcksStay /\ OpenIssueIsTheDiagnostic'
  <2>1. CASE ~StillStalled(p)
    <3>1. row' = row /\ issues' = issues
      BY <2>1 DEF Record
    <3>2. QED
      BY <1>1, <3>1, OfferKept DEF TypeOK, Fence, AcksStay, AcknowledgedIssues
  <2>2. CASE StillStalled(p)
    <3>1. row.diag # None /\ row.diag \in Diagnostics /\ Base(row.diag) = p.stall
      BY <1>1, <1>2, <2>2, NoneAssumption DEF StillStalled, Base, Rows
    <3>2. /\ row.diag.fence = p.stall.fence /\ row.diag.job = p.stall.job /\ row.diag.store = p.stall.store
      BY <3>1 DEF Base, Stall
    <3>3. diag \in Diagnostics /\ diag.fence = row.diag.fence /\ diag.job = row.diag.job
          /\ diag.store = row.diag.store
      BY <1>2, <3>1 DEF Diagnostics
    <3>4. row' = [row EXCEPT !.diag = diag]
      BY <2>2 DEF Record
    <3> HIDE DEF diag
    <3>5. row' \in Rows /\ row'.cur = row.cur /\ row'.diag = diag /\ Fence' = Fence
      BY <1>1, <3>3, <3>4 DEF Rows, Fence, FenceOf
    <3>6. diag # None
      BY <3>3, NoneAssumption
    <3>7. CASE p.revision = None
      <4>1. issues' = issues
        BY <2>2, <3>7 DEF Record
      <4>2. OpenIssueIsTheDiagnostic'
        BY <1>1, <3>3, <3>5, <3>6, <4>1 DEF OpenIssueIsTheDiagnostic, OpenIssues
      <4>3. QED
        BY <1>1, <3>5, <4>1, <4>2 DEF TypeOK, AcksStay, AcknowledgedIssues
    <3>8. CASE p.revision # None
      <4> DEFINE k == p.revision
      <4>1. issues' = Published(k)
        BY <2>2, <3>8 DEF Record
      <4>2. k \in Revisions /\ k.fence = p.stall.fence /\ k.job = p.stall.job /\ k.store = p.stall.store
        BY <1>1, <1>2, <3>8 DEF StallOK
      <4> HIDE DEF k
      <4>3. /\ DOMAIN issues' = (DOMAIN issues \ OpenIssues) \cup {k}
            /\ \A j \in DOMAIN issues' :
                  issues'[j] = IF j \in AcknowledgedIssues \/ j # k THEN issues[j] ELSE "open"
        BY <4>1 DEF Published
      <4>4. /\ DOMAIN issues' \subseteq Revisions
            /\ \A j \in DOMAIN issues' : issues'[j] \in {"open", "resolved", "acknowledged"}
        BY <1>1, <4>2, <4>3 DEF TypeOK, AcknowledgedIssues
      <4>5. AcksStay
        BY <4>3 DEF AcksStay, AcknowledgedIssues, OpenIssues
      <4>6. \A j \in OpenIssues' : j = k
        BY <4>3 DEF OpenIssues, AcknowledgedIssues
      <4>7. OpenIssueIsTheDiagnostic'
        BY <3>2, <3>3, <3>5, <3>6, <4>2, <4>6 DEF OpenIssueIsTheDiagnostic
      <4>8. QED
        BY <3>5, <4>4, <4>5, <4>7
    <3>9. QED
      BY <3>7, <3>8
  <2>3. QED
    BY <2>1, <2>2
<1>6. pass'[w] = Idle => PassOK(w)'
  BY Idles, NotWalking DEF WalkingPcs
<1>7. QED
  BY <1>3, <1>4, <1>5, <1>6, Idles, NothingDecided, PassStepKeeps

-----------------------------------------------------------------------------
(* The two steps that move the cursor                                      *)

\* What a step that writes the cursor must show: the new cursor is of the mapped device and of
\* the store it was read from, no further than what is decided, and never behind the old one.
LEMMA CursorMoves ==
    ASSUME SettlementInv, TypeOK', UNCHANGED <<store, jobs>>, Advances, DecisionsStay,
           AcknowledgesUnderAnIssue, AcksStay, row'.dev = row.dev,
           NEW s \in 1..MaxStores, s <= store, NEW seq \in 0..MaxJobs,
           row'.cur = [store |-> s, dev |-> row.dev, seq |-> seq],
           s = store => seq <= Len(jobs[row.dev]),
           seq # SeqIn(row.cur, s, row.dev) =>
             /\ seq = SeqIn(row.cur, s, row.dev) + 1
             /\ s = store => \/ jobs[row.dev][seq].kind = "other"
                             \/ exec'[Key(s, row.dev, seq)] \in Decided
                             \/ \E k \in AcknowledgedIssues' : <<k.store, k.dev, k.job>> = <<s, row.dev, seq>>,
           \A w \in Workers : FencesAreTaken(w)
    PROVE  /\ CursorInv' /\ AckInv' /\ CursorPassesOnlyDecided'
           /\ \A w \in Workers : pass'[w] = pass[w] => PassOK(w)'
<1> DEFINE was == SeqIn(row.cur, s, row.dev)
           First(c) == IF c.store = 1 /\ c.dev = NewRow.dev THEN History + 1 ELSE 1
<1>1. TypeOK /\ store \in Int /\ row.dev \in Devices /\ row.cur \in Cursors /\ was \in 0..MaxJobs
  BY SMTT(20), SettlementAssumption DEF SettlementInv, TypeOK, Rows, Cursors, SeqIn
<1>2. CursorInv'
  BY DEF CursorInv
<1>3. Grows
  <2>1. \A d \in Devices : Len(jobs[d]) \in Nat
    BY <1>1 DEF TypeOK, Feeds
  <2>2. QED
    BY <1>1, <2>1 DEF Grows
<1>4. AckInv'
  BY AckInvKept DEF SettlementInv
<1>5. ASSUME s = store, NEW n \in First(row'.cur)..seq
      PROVE  \/ jobs[row.dev][n].kind = "other"
             \/ exec'[Key(s, row.dev, n)] \in Decided
             \/ \E k \in AcknowledgedIssues' : <<k.store, k.dev, k.job>> = <<s, row.dev, n>>
  <2>1. n \in Positions /\ Key(s, row.dev, n) \in Keys
    BY <1>1, SettlementAssumption DEF Positions, Key, Keys
  <2>2. CASE n = seq /\ seq # was
    BY <1>5, <2>2
  <2>3. CASE ~(n = seq /\ seq # was)
    <3>1. n \in Int /\ n <= was /\ n >= 1
      BY <1>1, <2>1, <2>3 DEF Positions
    <3>2. row.cur.store = s /\ row.cur.dev = row.dev /\ was = row.cur.seq
      BY <3>1 DEF SeqIn
    <3>3. First(row.cur) = First(row'.cur) /\ n \in First(row.cur)..row.cur.seq
      BY <1>1, <3>1, <3>2, SettlementAssumption DEF Cursors
    <3>4. \/ jobs[row.dev][n].kind = "other"
          \/ exec[Key(s, row.dev, n)] \in Decided
          \/ \E k \in AcknowledgedIssues : <<k.store, k.dev, k.job>> = <<s, row.dev, n>>
      BY <1>5, <3>2, <3>3 DEF SettlementInv, CursorPassesOnlyDecided
    <3>5. QED
      BY <2>1, <3>4 DEF DecisionsStay, AcksStay
  <2>4. QED
    BY <2>2, <2>3
<1>6. CursorPassesOnlyDecided'
  BY <1>5 DEF CursorPassesOnlyDecided
<1>7. ASSUME NEW w \in Workers, pass'[w] = pass[w]
      PROVE  PassOK(w)'
  <2>1. WalkOK(w) /\ CommitOK(w) /\ StallOK(w)
    BY DEF SettlementInv, PassOK
  <2>2. WalkOK(w)' /\ CommitOK(w)' /\ StallOK(w)'
    BY <1>1, <1>3, <1>7, <2>1, WalkKept, CommitKept, StallKept
  <2>3. QED
    BY <2>2 DEF PassOK
<1>8. QED
  BY <1>2, <1>4, <1>6, <1>7

\* What is left of a page after its first carrier follows the moved cursor.
LEMMA RestFollowsTheCursor ==
    ASSUME NEW todo \in Seq(Carriers), todo # <<>>, NEW c \in Nat,
           \A i \in DOMAIN todo : todo[i].job = c + i
    PROVE  /\ Tail(todo) \in Seq(Carriers)
           /\ \A i \in DOMAIN Tail(todo) :
                 i + 1 \in DOMAIN todo /\ Tail(todo)[i] = todo[i + 1] /\ Tail(todo)[i].job = (c + 1) + i
<1>1. /\ Tail(todo) \in Seq(Carriers) /\ Len(Tail(todo)) = Len(todo) - 1
      /\ DOMAIN Tail(todo) = 1..(Len(todo) - 1) /\ DOMAIN todo = 1..Len(todo) /\ Len(todo) \in Nat
      /\ \A i \in 1..(Len(todo) - 1) : Tail(todo)[i] = todo[i + 1]
  OBVIOUS
<1>2. ASSUME NEW i \in DOMAIN Tail(todo)
      PROVE  i + 1 \in DOMAIN todo /\ Tail(todo)[i] = todo[i + 1] /\ Tail(todo)[i].job = (c + 1) + i
  <2>1. i \in Nat /\ i + 1 \in DOMAIN todo /\ Tail(todo)[i] = todo[i + 1]
    BY <1>1
  <2>2. todo[i + 1].job = c + (i + 1)
    BY <2>1
  <2>3. QED
    BY <2>1, <2>2
<1>3. QED
  BY <1>1, <1>2

\* One carrier is settled under the fence it was prepared with.
LEMMA CommitKeeps ==
    ASSUME SettlementInv, NEW w \in Workers, Commit(w)
    PROVE  SettlementInv' /\ DecisionsStay /\ Advances
<1> DEFINE p == pass[w]
           item == Carrier(p)
           paged == Paged(p)
           k == Key(p.store, row.dev, item.job)
           ex == IF paged /\ ~p.released /\ p.read # None /\ item.kind = "apply"
                 THEN [exec EXCEPT ![k] = "consumed"] ELSE exec
           passed == paged /\ SettleJob(item, p.released, ex, k)
           cursor == IF passed THEN item.job ELSE p.cursor
           stalled == paged /\ ~passed
           cur == [store |-> p.store, dev |-> row.dev, seq |-> cursor]
           stall == IF stalled THEN item.job ELSE IF passed \/ p.reset THEN 0 ELSE row.stall
           locked == [row EXCEPT !.cur = cur, !.stall = stall]
           rest == IF paged THEN Tail(p.todo) ELSE p.todo
           left == IF paged \/ Spent(p) THEN {} ELSE p.history \ {item.job}
           over == rest = <<>> /\ left = {}
           q == [p EXCEPT !.pc = IF over THEN "check" ELSE "prepare", !.released = FALSE,
                          !.history = left, !.todo = rest, !.cursor = cursor,
                          !.fence = FenceOf(row')]
<1>1. TypeOK /\ WalkOK(w) /\ CommitOK(w) /\ CursorInv /\ p.pc = "commit" /\ row \in Rows
  BY DEF SettlementInv, PassOK, Commit, TypeOK
<1>2. p \in Walks
  BY <1>1, Shapes DEF WalkingPcs
<1>3. UNCHANGED <<store, jobs, budget>>
  BY DEF Commit
<1>4. budget' \in Budgets /\ budget'.jobs = budget.jobs
  BY <1>1, <1>3 DEF TypeOK
<1>5. CASE ~FenceHolds(p)
  <2>1. pass' = [pass EXCEPT ![w] = Idle] /\ UNCHANGED <<row, exec, issues>>
    BY <1>5 DEF Commit
  <2>2. pass'[w] = Idle => PassOK(w)'
    BY Idles, NotWalking DEF WalkingPcs
  <2>3. Advances
    BY <2>1 DEF Advances, Fence
  <2>4. QED
    BY <1>3, <1>4, <2>1, <2>2, <2>3, Idles, NothingDecided, OwnStepKeeps
<1>6. CASE FenceHolds(p)
  <2>1. /\ Fence = p.fence /\ p.fence \in Fences /\ row.dev = p.fence.dev /\ row.cur = p.fence.cur
        /\ row.dev \in Devices /\ row.cur \in Cursors /\ row.epoch = p.fence.epoch
    BY <1>1, <1>2, <1>6 DEF FenceHolds, Fence, FenceOf, Walks, Rows
  <2>2. /\ row.cur.store <= p.store /\ p.store <= store /\ p.store \in 1..MaxStores
        /\ p.cursor = SeqIn(row.cur, p.store, row.dev) /\ p.cursor \in 0..MaxJobs
        /\ \A i \in DOMAIN p.todo : p.todo[i].job = p.cursor + i
    BY <1>1, <1>2, <2>1 DEF WalkOK, WalkingPcs, Walks
  <2>3. paged => /\ item = Head(p.todo) /\ item \in Carriers /\ item.job = p.cursor + 1
                 /\ k = NextKey(p) /\ k \in Keys /\ item.job \in Positions
                 /\ p.store = store => item.job \in DOMAIN jobs[row.dev]
                                       /\ item.kind = jobs[row.dev][item.job].kind
    <3>1. ASSUME paged
          PROVE  item = Head(p.todo) /\ item \in Carriers /\ 1 \in DOMAIN p.todo /\ item = p.todo[1]
      BY <1>2, <3>1, CarrierHasAJob DEF Spent, Paged
    <3>2. ASSUME paged
          PROVE  /\ item.job = p.cursor + 1
                 /\ p.store = store => item.job \in DOMAIN jobs[row.dev]
                                       /\ item.kind = jobs[row.dev][item.job].kind
      BY <1>1, <2>1, <2>2, <3>1, <3>2 DEF WalkOK, WalkingPcs
    <3>3. ASSUME paged
          PROVE  k = NextKey(p) /\ k \in Keys /\ item.job \in Positions
      BY <2>1, <2>2, <3>1, <3>3 DEF NextKey, Key, Keys, Carriers
    <3>4. QED
      BY <3>1, <3>2, <3>3
  <2>4. /\ exec' = ex
        /\ IF paged \/ p.alone THEN WriteDiagnostic(locked, None, ex) ELSE UNCHANGED <<row, issues>>
    BY <1>6 DEF Commit
  <2>5. \/ pass' = [pass EXCEPT ![w] = Idle]
        \/ ~stalled /\ pass' = [pass EXCEPT ![w] = q]
    BY <1>6 DEF Commit
  <2>6. paged /\ ~p.released => exec[k] # "acknowledged"
    <3>1. ~Ahead(Fence, p.fence)
      BY <2>1, AheadIsStrict
    <3>2. QED
      BY <1>1, <2>3, <3>1 DEF CommitOK
  <2>7. paged /\ p.released => IsReleased(k)
    BY <1>1, <2>3 DEF CommitOK
  <2>8. /\ exec' \in [Keys -> ExecStates] /\ DecisionsStay
        /\ \A x \in Keys : exec'[x] = "acknowledged" => exec[x] = "acknowledged"
    <3>1. exec \in [Keys -> ExecStates] /\ "consumed" \in ExecStates
      BY <1>1 DEF TypeOK, ExecStates
    <3> HIDE DEF k
    <3>2. CASE exec' = exec
      BY <3>1, <3>2 DEF DecisionsStay
    <3>3. CASE exec' = [exec EXCEPT ![k] = "consumed"] /\ paged /\ ~p.released
      <4>1. \A x \in Keys : exec'[x] = IF x = k THEN "consumed" ELSE exec[x]
        BY <3>1, <3>3
      <4>2. exec[k] # "acknowledged" /\ exec' \in [Keys -> ExecStates]
        BY <2>6, <3>1, <3>3
      <4>3. QED
        BY <4>1, <4>2 DEF DecisionsStay, Decided
    <3>4. QED
      BY <2>4, <3>2, <3>3
  <2>9. cursor \in 0..MaxJobs /\ (cursor # p.cursor => passed) /\ (passed => cursor = p.cursor + 1 /\ cursor = item.job)
    BY <2>2, <2>3, SettlementAssumption DEF Positions
  <2>10. stall \in 0..MaxJobs
    BY <1>1, <2>3, SettlementAssumption DEF Positions, Rows
  <2>11. passed => p.released \/ item.kind = "other" \/ exec'[k] = "consumed"
    BY <2>4 DEF SettleJob
  <2>12. rest \in Seq(Carriers) /\ left \subseteq Positions
    <3>1. p.todo \in Seq(Carriers) /\ p.history \subseteq Positions
      BY <1>2 DEF Walks
    <3>2. paged => p.todo # <<>>
      BY DEF Paged
    <3>3. QED
      BY <2>2, <3>1, <3>2, RestFollowsTheCursor
  <2>13. passed => paged
    OBVIOUS
  <2>14. ~stalled => \A i \in DOMAIN rest :
            /\ rest[i].job = cursor + i
            /\ p.store = store => /\ rest[i].job \in DOMAIN jobs[row.dev]
                                  /\ rest[i].kind = jobs[row.dev][rest[i].job].kind
    <3>1. \A i \in DOMAIN p.todo :
            /\ p.todo[i].job = p.cursor + i
            /\ p.store = store => /\ p.todo[i].job \in DOMAIN jobs[row.dev]
                                  /\ p.todo[i].kind = jobs[row.dev][p.todo[i].job].kind
      BY <1>1, <2>1 DEF WalkOK, WalkingPcs
    <3>2. CASE ~paged
      <4>1. rest = p.todo /\ cursor = p.cursor
        BY <2>9, <2>13, <3>2
      <4>2. QED
        BY <3>1, <4>1
    <3>3. CASE paged /\ ~stalled
      <4>1. rest = Tail(p.todo) /\ cursor = p.cursor + 1 /\ p.todo # <<>> /\ p.todo \in Seq(Carriers)
            /\ p.cursor \in Nat
        BY <1>2, <2>2, <2>9, <3>3 DEF Paged, Walks
      <4> HIDE DEF rest, cursor, paged
      <4>2. \A i \in DOMAIN Tail(p.todo) :
               i + 1 \in DOMAIN p.todo /\ Tail(p.todo)[i] = p.todo[i + 1]
                 /\ Tail(p.todo)[i].job = (p.cursor + 1) + i
        BY <3>1, <4>1, RestFollowsTheCursor
      <4>3. QED
        BY <3>1, <4>1, <4>2
    <3>4. QED
      BY <3>2, <3>3
  <2> HIDE DEF item, paged, k, ex, passed, cursor, stalled, stall, rest, left, over
  <2>15. /\ locked \in Rows /\ locked.dev = row.dev /\ locked.epoch = row.epoch
         /\ locked.cur = cur /\ locked.diag = row.diag
    <3>1. cur \in Cursors
      BY <2>1, <2>2, <2>9 DEF Cursors
    <3> HIDE DEF cur
    <3>2. QED
      BY <1>1, <2>10, <3>1 DEF Rows
  <2> HIDE DEF locked
  <2>16. FenceOf(row') \in Fences /\ FenceOf(row').dev = row.dev /\ row'.dev = row.dev
         => q \in Walks /\ q \in Passes
    <3>1. FenceOf(row') \in Fences => q \in Walks
      BY <1>2, <2>9, <2>12 DEF Walks
    <3>2. QED
      BY <3>1 DEF Passes
  <2>17. /\ q.pc \in {"prepare", "check"} /\ q.store = p.store /\ q.cursor = cursor
         /\ q.todo = rest /\ q.fence = FenceOf(row')
    BY <1>2 DEF Walks
  <2> HIDE DEF q
  <2>18. ASSUME ~stalled, pass'[w] = q, row'.dev = row.dev, row'.cur.store <= p.store,
                cursor = SeqIn(row'.cur, p.store, row.dev)
         PROVE  PassOK(w)'
    <3>1. Fence' = FenceOf(row') /\ FenceOf(row').dev = row.dev /\ FenceOf(row').cur = row'.cur
      BY <2>18 DEF Fence, FenceOf
    <3>2. WalkOK(w)'
      BY <1>3, <2>2, <2>14, <2>17, <2>18, <3>1 DEF WalkOK
    <3>3. CommitOK(w)' /\ StallOK(w)'
      BY <2>17, <2>18 DEF CommitOK, StallOK
    <3>4. QED
      BY <3>2, <3>3 DEF PassOK
  <2>19. ASSUME pass'[w] = Idle
         PROVE  PassOK(w)'
    BY <2>19, Idles, NotWalking DEF WalkingPcs
  <2>20. CASE ~(paged \/ p.alone)
    <3>1. row' = row /\ issues' = issues /\ Fence' = Fence
      BY <2>4, <2>20 DEF Fence
    <3>2. cursor = p.cursor
      BY <2>9, <2>13, <2>20
    <3>3. FenceOf(row') \in Fences /\ FenceOf(row').dev = row.dev
      BY <2>1, <3>1 DEF Fence, FenceOf
    <3>4. Advances
      BY <3>1 DEF Advances
    <3>5. CASE pass' = [pass EXCEPT ![w] = Idle]
      BY <1>3, <1>4, <2>8, <2>19, <3>1, <3>4, <3>5, Idles, OwnStepKeeps
    <3>6. CASE ~stalled /\ pass' = [pass EXCEPT ![w] = q]
      <4>1. q \in Passes
        BY <2>16, <3>1, <3>3
      <4>2. pass'[w] = q => PassOK(w)'
        BY <2>2, <2>18, <3>1, <3>2, <3>6
      <4>3. QED
        BY <1>3, <1>4, <2>8, <3>1, <3>4, <3>6, <4>1, <4>2, OwnStepKeeps
    <3>7. QED
      BY <2>5, <2>8, <3>5, <3>6
  <2>21. CASE paged \/ p.alone
    <3>1. /\ row' \in Rows /\ row'.dev = row.dev /\ row'.epoch = row.epoch /\ row'.cur = cur
          /\ DOMAIN issues' \subseteq Revisions
          /\ \A j \in DOMAIN issues' : issues'[j] \in {"open", "resolved", "acknowledged"}
          /\ AcksStay /\ OpenIssueIsTheDiagnostic'
      BY <2>4, <2>15, <2>21, DiagnosticIsWritten
    <3>2. FenceOf(row') \in Fences /\ FenceOf(row').dev = row.dev
      BY <3>1 DEF FenceOf, Fences, Rows
    <3>3. row'.cur.store = p.store /\ cursor = SeqIn(row'.cur, p.store, row.dev) /\ row'.cur.store <= p.store
      BY <2>2, <3>1 DEF SeqIn
    <3>4. PICK z \in Passes : /\ pass' = [pass EXCEPT ![w] = z]
                              /\ pass'[w] = z => PassOK(w)'
      <4>1. CASE pass' = [pass EXCEPT ![w] = Idle]
        BY <2>19, <4>1, Idles
      <4>2. CASE ~stalled /\ pass' = [pass EXCEPT ![w] = q]
        <5>1. q \in Passes
          BY <2>16, <3>1, <3>2
        <5>2. pass'[w] = q => PassOK(w)'
          BY <2>18, <3>1, <3>3, <4>2
        <5>3. QED
          BY <4>2, <5>1, <5>2
      <4>3. QED
        BY <2>5, <4>1, <4>2
    <3>5. pass' \in [Workers -> Passes] /\ pass'[w] = z /\ \A v \in Workers \ {w} : pass'[v] = pass[v]
      BY <1>1, <3>4 DEF TypeOK
    <3>6. TypeOK'
      BY <1>1, <1>3, <1>4, <2>8, <3>1, <3>5 DEF TypeOK
    <3>7. Advances
      <4>1. /\ Fence'.epoch = Fence.epoch /\ Fence'.dev = Fence.dev /\ Fence'.cur = cur
            /\ Fence.cur = row.cur /\ Fence.dev = row.dev
        BY <3>1 DEF Fence, FenceOf
      <4>2. row.cur.store \in Int /\ p.store \in Int /\ row.cur.seq \in Int /\ cursor \in Int
        BY <2>1, <2>2, <2>9 DEF Cursors
      <4>3. CASE row.cur.store < p.store
        BY <4>1, <4>2, <4>3 DEF Advances, Ahead
      <4>4. CASE row.cur.store = p.store /\ row.cur.dev # row.dev
        BY <4>1, <4>2, <4>4 DEF Advances, Ahead
      <4>5. CASE row.cur.store = p.store /\ row.cur.dev = row.dev /\ cursor # row.cur.seq
        <5>1. cursor > row.cur.seq
          BY <2>2, <2>9, <4>2, <4>5 DEF SeqIn
        <5>2. QED
          BY <4>1, <4>2, <4>5, <5>1 DEF Advances, Ahead
      <4>6. CASE row.cur.store = p.store /\ row.cur.dev = row.dev /\ cursor = row.cur.seq
        <5>1. cur = row.cur
          BY <2>1, <4>6 DEF Cursors
        <5>2. Fence' = Fence
          BY <3>1, <5>1 DEF Fence, FenceOf
        <5>3. QED
          BY <5>2 DEF Advances
      <4>7. QED
        BY <2>2, <4>2, <4>3, <4>4, <4>5, <4>6
    <3>8. AcknowledgesUnderAnIssue
      BY <2>8 DEF AcknowledgesUnderAnIssue
    <3>9. \A v \in Workers : FencesAreTaken(v)
      BY <1>1, <2>8, AcknowledgedWere
    <3>10. p.store = store => cursor <= Len(jobs[row.dev])
      <4>1. ASSUME p.store = store, passed PROVE cursor <= Len(jobs[row.dev])
        <5>1. cursor \in DOMAIN jobs[row.dev] /\ jobs[row.dev] \in Feeds
          BY <1>1, <2>1, <2>3, <2>9, <2>13, <4>1 DEF TypeOK
        <5>2. QED
          BY <5>1 DEF Feeds
      <4>2. ASSUME p.store = store, ~passed PROVE cursor <= Len(jobs[row.dev])
        <5>1. cursor = p.cursor /\ jobs[row.dev] \in Feeds
          BY <1>1, <2>1, <2>9, <4>2 DEF TypeOK
        <5>2. QED
          BY <1>1, <2>2, <4>2, <5>1 DEF SeqIn, CursorInv, Feeds
      <4>3. QED
        BY <4>1, <4>2
    <3>11. cursor # SeqIn(row.cur, p.store, row.dev) =>
             /\ cursor = SeqIn(row.cur, p.store, row.dev) + 1
             /\ p.store = store =>
                  \/ jobs[row.dev][cursor].kind = "other"
                  \/ exec'[Key(p.store, row.dev, cursor)] \in Decided
                  \/ \E j \in AcknowledgedIssues' :
                        <<j.store, j.dev, j.job>> = <<p.store, row.dev, cursor>>
      <4>1. SUFFICES ASSUME cursor # p.cursor
                     PROVE  /\ cursor = p.cursor + 1
                            /\ p.store = store =>
                                 \/ jobs[row.dev][cursor].kind = "other"
                                 \/ exec'[Key(p.store, row.dev, cursor)] \in Decided
                                 \/ \E j \in AcknowledgedIssues' :
                                       <<j.store, j.dev, j.job>> = <<p.store, row.dev, cursor>>
        BY <2>2
      <4>2. passed /\ paged /\ cursor = item.job /\ cursor = p.cursor + 1
        BY <2>9, <2>13, <4>1
      <4>3. k = Key(p.store, row.dev, cursor) /\ k.store = p.store /\ k.dev = row.dev /\ k.job = cursor
        BY <4>2 DEF k, Key
      <4>4. CASE p.released
        <5>1. PICK j \in AcknowledgedIssues' : j.store = k.store /\ j.dev = k.dev /\ j.job = k.job
          BY <2>7, <3>1, <4>2, <4>4, ReleasesStay
        <5>2. QED
          BY <4>2, <4>3, <5>1
      <4>5. CASE item.kind = "other"
        BY <2>3, <4>2, <4>5
      <4>6. CASE exec'[k] = "consumed"
        BY <4>2, <4>3, <4>6 DEF Decided
      <4>7. QED
        BY <2>11, <4>2, <4>4, <4>5, <4>6
    <3>12. row'.cur = [store |-> p.store, dev |-> row.dev, seq |-> cursor]
      BY <3>1
    <3> HIDE DEF cur
    <3>13. /\ CursorInv' /\ AckInv' /\ CursorPassesOnlyDecided'
           /\ \A v \in Workers : pass'[v] = pass[v] => PassOK(v)'
      BY <1>3, <2>2, <2>8, <2>9, <3>1, <3>6, <3>7, <3>8, <3>9, <3>10, <3>11, <3>12, CursorMoves
    <3>14. \A v \in Workers : PassOK(v)'
      BY <3>4, <3>5, <3>13
    <3>15. QED
      BY <2>8, <3>1, <3>6, <3>7, <3>13, <3>14 DEF SettlementInv
  <2>22. QED
    BY <2>20, <2>21
<1>7. QED
  BY <1>5, <1>6

\* An acknowledged issue decides one execution that was undecided; its follow-up of the next job
\* of the feed moves the cursor, and so takes the fence of whoever prepared that job.
LEMMA AcknowledgeKeeps ==
    ASSUME SettlementInv, NEW k \in OpenIssues, Acknowledge(k)
    PROVE  /\ SettlementInv' /\ DecisionsStay /\ AcksStay
           /\ IF k.position = "next_feed" THEN Ahead(Fence', Fence) ELSE Fence' = Fence
<1> DEFINE x == Key(k.store, k.dev, k.job)
           at == SeqIn(row.cur, store, row.dev)
           cur == IF k.position = "next_feed" THEN [store |-> store, dev |-> row.dev, seq |-> k.job]
                  ELSE row.cur
           next == [row EXCEPT !.resume = TRUE, !.cur = cur,
                               !.stall = IF k.position = "next_feed" THEN 0 ELSE @,
                               !.diag = IF Current(k, row) THEN None ELSE @]
<1>1. TypeOK /\ CursorInv /\ row \in Rows /\ row.dev \in Devices /\ row.cur \in Cursors
      /\ store \in 1..MaxStores /\ OpenIssueIsTheDiagnostic /\ k \in Revisions
  BY DEF SettlementInv, TypeOK, Rows, OpenIssues
<1>2. Fence = k.fence /\ row.cur = k.fence.cur
  BY DEF Acknowledge, Fence, FenceOf
<1>3. /\ k.store = store /\ k.job \in DOMAIN jobs[row.dev] /\ ~(k.job > at + 1)
      /\ ~(jobs[row.dev][k.job].row # "none" /\ exec[Key(store, row.dev, k.job)] \in Decided)
      /\ k.dev = row.dev /\ k.seen = jobs[row.dev][k.job]
      /\ k.position = IF k.job <= at THEN "historical" ELSE "next_feed"
  <2> DEFINE stall == Stall(k.fence, k.job, k.store, k.cls)
  <2>1. Exit(stall) = "acknowledgeable" /\ Revision(stall) = k
    BY DEF Acknowledge, StillDecided
  <2>2. stall.job = k.job /\ stall.store = k.store /\ stall.fence = k.fence
    BY DEF Stall
  <2> HIDE DEF stall
  <2>3. k.dev = row.dev
    BY <2>1 DEF Revision
  <2>4. k.store = store /\ k.job \in DOMAIN jobs[row.dev] /\ ~(k.job > at + 1)
        /\ ~(jobs[row.dev][k.job].row # "none" /\ exec[Key(store, row.dev, k.job)] \in Decided)
    BY <1>2, <2>1, <2>2 DEF Exit
  <2>5. k.seen = jobs[row.dev][k.job]
    BY <2>1, <2>2 DEF Revision
  <2>6. k.position = IF k.job <= at THEN "historical" ELSE "next_feed"
    BY <1>2, <2>1, <2>2, <2>4 DEF Revision
  <2>7. QED
    BY <2>3, <2>4, <2>5, <2>6
<1>4. at \in 0..MaxJobs /\ k.job \in Positions /\ k.job \in Int /\ at \in Int /\ x \in Keys
  BY <1>1, <1>3, SettlementAssumption DEF SeqIn, Cursors, Revisions, Positions, Key, Keys
<1>5. k.position = "next_feed" => k.job = at + 1
  BY <1>3, <1>4
<1>6. k.position # "next_feed" => k.job <= at
  BY <1>3
<1>7. /\ exec' = IF k.seen.row = "none" THEN exec ELSE [exec EXCEPT ![x] = "acknowledged"]
      /\ issues' = [issues EXCEPT ![k] = "acknowledged"]
      /\ UNCHANGED <<store, jobs, pass, budget>>
  BY DEF Acknowledge
<1>8. row' = next
  BY <1>3 DEF Acknowledge, CursorAfter
<1> HIDE DEF at
<1>9. k \in AcknowledgedIssues' /\ AcksStay
  BY <1>7 DEF AcknowledgedIssues, AcksStay, OpenIssues
<1>10. /\ exec' \in [Keys -> ExecStates] /\ DecisionsStay
       /\ \A y \in Keys : exec'[y] = "acknowledged" => exec[y] = "acknowledged" \/ y = x
  <2>1. exec \in [Keys -> ExecStates] /\ "acknowledged" \in ExecStates /\ x = Key(store, row.dev, k.job)
    BY <1>1, <1>3 DEF TypeOK, ExecStates
  <2> HIDE DEF x
  <2>2. CASE exec' = exec
    BY <2>1, <2>2 DEF DecisionsStay
  <2>3. CASE k.seen.row # "none" /\ exec' = [exec EXCEPT ![x] = "acknowledged"]
    <3>1. exec[x] \notin Decided
      BY <1>3, <2>1, <2>3
    <3>2. \A y \in Keys : exec'[y] = IF y = x THEN "acknowledged" ELSE exec[y]
      BY <2>1, <2>3
    <3>3. exec' \in [Keys -> ExecStates]
      BY <2>1, <2>3
    <3>4. QED
      BY <3>1, <3>2, <3>3 DEF DecisionsStay
  <2>4. QED
    BY <1>7, <2>2, <2>3
<1>11. AcknowledgesUnderAnIssue
  <2>1. IsReleased(x)'
    BY <1>7, <1>9 DEF IsReleased, Key
  <2>2. QED
    BY <1>10, <2>1 DEF AcknowledgesUnderAnIssue
<1>12. cur \in Cursors
  BY <1>1, <1>4, SettlementAssumption DEF Cursors, Positions
<1>13. /\ row' \in Rows /\ row'.dev = row.dev /\ row'.epoch = row.epoch /\ row'.cur = cur
  <2> HIDE DEF cur
  <2>1. (IF k.position = "next_feed" THEN 0 ELSE row.stall) \in 0..MaxJobs
        /\ (IF Current(k, row) THEN None ELSE row.diag) \in Diagnostics \cup {None}
    BY <1>1, SettlementAssumption DEF Rows
  <2>2. QED
    BY <1>1, <1>8, <1>12, <2>1 DEF Rows
<1> HIDE DEF next
<1>14. /\ DOMAIN issues' \subseteq Revisions
       /\ \A j \in DOMAIN issues' : issues'[j] \in {"open", "resolved", "acknowledged"}
  BY <1>1, <1>7 DEF TypeOK
<1>15. OpenIssueIsTheDiagnostic'
  <2>1. OpenIssues = {k}
    BY <1>1 DEF OpenIssueIsTheDiagnostic
  <2>2. OpenIssues' = {}
    BY <1>7, <2>1 DEF OpenIssues
  <2>3. QED
    BY <2>2 DEF OpenIssueIsTheDiagnostic
<1>16. TypeOK'
  BY <1>1, <1>7, <1>10, <1>13, <1>14 DEF TypeOK
<1>17. IF k.position = "next_feed" THEN Ahead(Fence', Fence) ELSE Fence' = Fence
  <2>1. /\ Fence'.epoch = Fence.epoch /\ Fence'.dev = Fence.dev /\ Fence'.cur = cur
        /\ Fence.cur = row.cur /\ Fence.dev = row.dev
    BY <1>13 DEF Fence, FenceOf
  <2>2. CASE k.position # "next_feed"
    BY <1>13, <2>2 DEF Fence, FenceOf
  <2>3. CASE k.position = "next_feed"
    <3>1. /\ Fence'.cur.store = store /\ Fence'.cur.dev = row.dev /\ Fence'.cur.seq = at + 1
          /\ row.cur.store <= store /\ row.cur.store \in Int /\ store \in Int
      BY <1>1, <1>5, <2>1, <2>3 DEF CursorInv, Cursors
    <3>2. CASE row.cur.store < store
      BY <2>1, <2>3, <3>1, <3>2 DEF Ahead
    <3>3. CASE row.cur.store = store
      <4>1. row.cur.dev = row.dev => at = row.cur.seq
        BY <3>3 DEF at, SeqIn
      <4>2. QED
        BY <1>4, <2>1, <2>3, <3>1, <3>3, <4>1 DEF Ahead
    <3>4. QED
      BY <3>1, <3>2, <3>3
  <2>4. QED
    BY <2>2, <2>3
<1>18. Advances
  BY <1>17 DEF Advances
<1>19. ASSUME NEW v \in Workers
       PROVE  FencesAreTaken(v)
  <2> DEFINE p == pass[v]
  <2>1. SUFFICES ASSUME p.pc = "commit", Paged(p), exec'[NextKey(p)] = "acknowledged",
                        exec[NextKey(p)] # "acknowledged"
                 PROVE  Ahead(Fence', p.fence)
    BY DEF FencesAreTaken
  <2>2. p \in Walks /\ p.fence \in Fences /\ WalkOK(v)
    BY <1>1, <2>1, Shapes DEF WalkingPcs, Walks, SettlementInv, PassOK
  <2>3. NextKey(p) \in Keys /\ NextKey(p) = x
    BY <1>1, <1>10, <2>1, NextKeyIsAKey
  <2>4. p.store = store /\ p.fence.dev = row.dev /\ Head(p.todo).job = k.job
    BY <1>3, <2>3 DEF NextKey, Key
  <2>5. Head(p.todo).job = p.cursor + 1 /\ p.cursor = SeqIn(p.fence.cur, p.store, p.fence.dev)
        /\ (p.fence = Fence \/ Ahead(Fence, p.fence))
    <3>1. Head(p.todo) = p.todo[1] /\ 1 \in DOMAIN p.todo
      BY <2>1, <2>2, CarrierHasAJob DEF Spent, Paged
    <3>2. QED
      BY <2>1, <2>2, <3>1 DEF WalkOK, WalkingPcs
  <2>6. Fence \in Fences /\ Fence' \in Fences
    BY <1>1, <1>16 DEF TypeOK, Rows, Fence, FenceOf, Fences
  <2>7. CASE p.fence = Fence
    <3>1. p.cursor = at
      BY <1>2, <2>4, <2>5, <2>7 DEF at, Fence, FenceOf
    <3>2. k.position = "next_feed"
      BY <1>4, <1>6, <2>4, <2>5, <3>1
    <3>3. QED
      BY <1>17, <2>7, <3>2
  <2>8. CASE Ahead(Fence, p.fence)
    BY <1>17, <2>2, <2>6, <2>8, AheadIsTransitive
  <2>9. QED
    BY <2>5, <2>7, <2>8
<1>20. CursorInv' /\ AckInv' /\ CursorPassesOnlyDecided' /\ \A w \in Workers : PassOK(w)'
  <2>1. CASE k.position # "next_feed"
    <3>1. row'.cur = row.cur /\ Grows
      <4>1. \A d \in Devices : Len(jobs[d]) \in Nat
        BY <1>1 DEF TypeOK, Feeds
      <4>2. QED
        BY <1>1, <1>7, <1>13, <2>1, <4>1 DEF Grows
    <3>2. QED
      BY <1>7, <1>9, <1>10, <1>11, <1>16, <1>18, <1>19, <3>1, CalmStep
  <2>2. CASE k.position = "next_feed"
    <3>1. row'.cur = [store |-> store, dev |-> row.dev, seq |-> k.job] /\ k.job \in 0..MaxJobs
      BY <1>4, <1>13, <2>2, SettlementAssumption DEF Positions
    <3>2. k.job <= Len(jobs[row.dev])
      BY <1>1, <1>3 DEF TypeOK, Feeds
    <3>3. \E j \in AcknowledgedIssues' : <<j.store, j.dev, j.job>> = <<store, row.dev, k.job>>
      BY <1>3, <1>9
    <3>4. store <= store /\ k.job = SeqIn(row.cur, store, row.dev) + 1
      BY <1>1, <1>5, <2>2 DEF at
    <3> HIDE DEF cur
    <3>5. QED
      BY <1>1, <1>7, <1>9, <1>10, <1>11, <1>13, <1>16, <1>18, <1>19, <3>1, <3>2, <3>3, <3>4, CursorMoves
  <2>3. QED
    BY <2>1, <2>2
<1>21. QED
  BY <1>9, <1>10, <1>15, <1>16, <1>17, <1>20 DEF SettlementInv

-----------------------------------------------------------------------------
(* The theorems                                                            *)

LEMMA InitHolds ==
    ASSUME Init
    PROVE  SettlementInv
<1> DEFINE d0 == NewRow.dev
           job0 == [kind |-> "apply", item |-> "good", row |-> "none"]
<1>1. d0 \in Devices
  BY SettlementAssumption DEF NewRow
<1>2. /\ NewRow.cur.store = 1 /\ NewRow.cur.dev = d0 /\ NewRow.cur.seq = History
      /\ NewRow.diag = None /\ NewRow.epoch = 0 /\ NewRow.stall = 0
  BY DEF NewRow
<1>3. /\ store = 1 /\ row = NewRow /\ exec = [k \in Keys |-> "none"] /\ issues = <<>>
      /\ pass = [w \in Workers |-> Idle]
      /\ budget = [jobs |-> MaxJobs - History, flips |-> MaxFlips, moves |-> MaxMoves, faults |-> MaxFaults]
      /\ jobs = [d \in Devices |-> IF d = d0 THEN [n \in 1..History |-> job0] ELSE <<>>]
  BY DEF Init
<1>4. History \in Nat /\ MaxJobs \in Nat /\ History <= MaxJobs /\ MaxJobs - History \in 0..MaxJobs
      /\ MaxFlips \in Nat /\ MaxMoves \in Nat /\ MaxFaults \in Nat
  BY SettlementAssumption
<1>5. /\ [n \in 1..History |-> job0] \in Feeds /\ Len([n \in 1..History |-> job0]) = History
      /\ <<>> \in Feeds /\ Len(<<>>) = 0
  <2>1. job0 \in Job
    BY DEF Job, Kinds
  <2> HIDE DEF job0
  <2>2. [n \in 1..History |-> job0] \in Seq(Job) /\ Len([n \in 1..History |-> job0]) = History
    BY <1>4, <2>1
  <2>3. QED
    BY <1>4, <2>2 DEF Feeds
<1> HIDE DEF job0
<1>6. row \in Rows
  <2>1. NewRow.cur \in Cursors
    BY <1>1, <1>4, SettlementAssumption DEF NewRow, Cursors
  <2>2. QED
    BY <1>1, <1>3, <1>4, <2>1 DEF NewRow, Rows
<1>7. jobs \in [Devices -> Feeds] /\ \A d \in Devices : Len(jobs[d]) + budget.jobs <= MaxJobs
  BY <1>3, <1>4, <1>5
<1>8. exec \in [Keys -> ExecStates] /\ DOMAIN issues = {}
  BY <1>3 DEF ExecStates
<1>9. pass \in [Workers -> Passes] /\ budget \in Budgets
  BY <1>3, <1>4, Idles DEF Budgets
<1>10. TypeOK
  <2>1. store \in 1..MaxStores
    BY <1>3, SettlementAssumption
  <2>2. DOMAIN issues \subseteq Revisions /\ \A k \in DOMAIN issues : issues[k] \in {"open", "resolved", "acknowledged"}
    BY <1>8
  <2>3. QED
    BY <1>6, <1>7, <1>8, <1>9, <2>1, <2>2 DEF TypeOK
<1>11. CursorInv
  BY <1>1, <1>2, <1>3, <1>4, <1>5 DEF CursorInv
<1>12. AckInv
  BY <1>3 DEF AckInv
<1>13. \A w \in Workers : PassOK(w)
  BY <1>3, Idles DEF PassOK, WalkOK, CommitOK, StallOK, WalkingPcs
<1>14. CursorPassesOnlyDecided
  <2>1. \A n \in (History + 1)..History : FALSE
    BY <1>4
  <2>2. QED
    BY <1>2, <1>3, <2>1 DEF CursorPassesOnlyDecided
<1>15. OpenIssueIsTheDiagnostic
  BY <1>8 DEF OpenIssueIsTheDiagnostic, OpenIssues
<1>16. QED
  BY <1>10, <1>11, <1>12, <1>13, <1>14, <1>15 DEF SettlementInv

\* an execution that a step leaves alone stays decided
LEMMA UntouchedDecisionsStay ==
    ASSUME exec' = exec
    PROVE  DecisionsStay
BY DEF DecisionsStay

LEMMA AdapterKeeps ==
    ASSUME SettlementInv, Adapter
    PROVE  SettlementInv' /\ DecisionsStay
<1>1. CASE \E job \in Landings : JobLands(job)
  BY <1>1, JobLandsKeeps, UntouchedDecisionsStay DEF JobLands
<1>2. CASE \E n \in Positions : ItemFlips(n)
  BY <1>2, ItemFlipsKeeps, UntouchedDecisionsStay DEF ItemFlips
<1>3. CASE \E n \in Positions, now \in {"good", "bad"} : RowFlips(n, now)
  BY <1>3, RowFlipsKeeps, UntouchedDecisionsStay DEF RowFlips
<1>4. CASE Rebuild
  BY <1>4, RebuildKeeps, UntouchedDecisionsStay DEF Rebuild
<1>5. CASE \E d \in Devices : Remap(d)
  BY <1>5, RemapKeeps, UntouchedDecisionsStay DEF Remap
<1>6. QED
  BY <1>1, <1>2, <1>3, <1>4, <1>5 DEF Adapter

LEMMA PassKeeps ==
    ASSUME SettlementInv, NEW w \in Workers, Begin(w) \/ Step(w) \/ Abort(w)
    PROVE  SettlementInv' /\ DecisionsStay
<1>1. CASE Begin(w)
  BY <1>1, BeginKeeps, UntouchedDecisionsStay DEF Begin
<1>2. CASE ReadEvidence(w)
  BY <1>2, ReadEvidenceKeeps, UntouchedDecisionsStay DEF ReadEvidence
<1>3. CASE LockPage(w)
  BY <1>3, LockPageKeeps, UntouchedDecisionsStay DEF LockPage
<1>4. CASE Prepare(w)
  BY <1>4, PrepareKeeps
<1>5. CASE Commit(w)
  BY <1>5, CommitKeeps
<1>6. CASE Check(w)
  BY <1>6, CheckKeeps
<1>7. CASE ClearResume(w)
  BY <1>7, ClearResumeKeeps, UntouchedDecisionsStay DEF ClearResume
<1>8. CASE Diagnose(w)
  BY <1>8, DiagnoseKeeps, UntouchedDecisionsStay DEF Diagnose
<1>9. CASE Publish(w)
  BY <1>9, PublishKeeps, UntouchedDecisionsStay DEF Publish
<1>10. CASE Record(w)
  BY <1>10, RecordKeeps, UntouchedDecisionsStay DEF Record
<1>11. CASE Abort(w)
  BY <1>11, AbortKeeps, UntouchedDecisionsStay DEF Abort
<1>12. QED
  BY <1>1, <1>2, <1>3, <1>4, <1>5, <1>6, <1>7, <1>8, <1>9, <1>10, <1>11 DEF Step

\* the induction step
LEMMA StepKeeps ==
    ASSUME SettlementInv, [Next]_vars
    PROVE  SettlementInv' /\ DecisionsStay
<1>1. CASE Adapter
  BY <1>1, AdapterKeeps
<1>2. CASE \E w \in Workers : Begin(w) \/ Step(w) \/ Abort(w)
  BY <1>2, PassKeeps
<1>3. CASE \E k \in OpenIssues : Acknowledge(k)
  BY <1>3, AcknowledgeKeeps
<1>4. CASE UNCHANGED vars
  <2>1. /\ UNCHANGED <<store, jobs, row, exec, issues, pass, budget>>
    BY <1>4 DEF vars
  <2>2. AcknowledgedIssues' = AcknowledgedIssues /\ OpenIssues' = OpenIssues /\ Fence' = Fence
    BY <2>1 DEF AcknowledgedIssues, OpenIssues, Fence
  <2>3. TypeOK' /\ CursorInv' /\ AckInv'
    BY <2>1, <2>2 DEF SettlementInv, TypeOK, CursorInv, AckInv, IsReleased
  <2>4. \A w \in Workers : PassOK(w)'
    BY <2>1, <2>2 DEF SettlementInv, PassOK, WalkOK, CommitOK, StallOK, IsReleased
  <2>5. CursorPassesOnlyDecided' /\ OpenIssueIsTheDiagnostic'
    BY <2>1, <2>2 DEF SettlementInv, CursorPassesOnlyDecided, OpenIssueIsTheDiagnostic
  <2>6. QED
    BY <2>1, <2>3, <2>4, <2>5, UntouchedDecisionsStay DEF SettlementInv
<1>5. QED
  BY <1>1, <1>2, <1>3, <1>4 DEF Next

\* What a pass carries from one of its unlocked reads to its next transaction, the ledger and the
\* diagnostic fit together in every state that passes, operators and the adapter reach.
THEOREM SettlementInvariant == Spec => []SettlementInv
<1>1. Init => SettlementInv
  BY InitHolds
<1>2. SettlementInv /\ [Next]_vars => SettlementInv'
  BY StepKeeps
<1>3. QED
  BY <1>1, <1>2, PTL DEF Spec

\* Every variable of the feed, every pass and every published revision has its type.
THEOREM SettlementTypes == Spec => []TypeOK
<1>1. SettlementInv => TypeOK
  BY DEF SettlementInv
<1>2. QED
  BY <1>1, SettlementInvariant, PTL

\* The cursor never stands past a job of its store and device that neither a certificate nor an
\* operator decided.
THEOREM CursorNeverSkipsAJob == Spec => []CursorPassesOnlyDecided
<1>1. SettlementInv => CursorPassesOnlyDecided
  BY DEF SettlementInv
<1>2. QED
  BY <1>1, SettlementInvariant, PTL

\* The one revision an operator can acknowledge is the stall the row's diagnostic names.
THEOREM OfferIsTheDiagnostic == Spec => []OpenIssueIsTheDiagnostic
<1>1. SettlementInv => OpenIssueIsTheDiagnostic
  BY DEF SettlementInv
<1>2. QED
  BY <1>1, SettlementInvariant, PTL

\* No pass, placeholder or acknowledgement replaces the disposition of a decided execution.
THEOREM DispositionsAreFinal == Spec => DecidedOnce
<1>1. SettlementInv /\ [Next]_vars => [\A k \in Keys : exec[k] \in Decided => exec'[k] = exec[k]]_vars
  BY StepKeeps DEF DecisionsStay
<1>2. QED
  BY <1>1, SettlementInvariant, PTL DEF Spec, DecidedOnce

-----------------------------------------------------------------------------
(* The inductive invariant of the issues                                   *)

\* Where the cursor stood for the store of a stall or a revision, and whose execution it names.
At(g) == SeqIn(g.fence.cur, g.store, g.fence.dev)
JobKey(g) == Key(g.store, g.fence.dev, g.job)

\* A revision on its way to an operator: its job is no further than the next of its feed, and it
\* gives that job the kind that the feed and every pass which carries the job give it.
Carried(p, r) == {i \in DOMAIN p.todo : <<p.store, p.fence.dev, p.todo[i].job>> = <<r.store, r.dev, r.job>>}
RevisionOK(r) ==
    /\ r.dev = r.fence.dev /\ r.store <= store
    /\ r.job <= At(r) + 1
    /\ r.position = IF r.job <= At(r) THEN "historical" ELSE "next_feed"
    /\ r.store = store => r.job \in DOMAIN jobs[r.dev] /\ r.seen.kind = jobs[r.dev][r.job].kind
    /\ \A w \in Workers : pass[w].pc \in WalkingPcs =>
          \A i \in Carried(pass[w], r) : pass[w].todo[i].kind = r.seen.kind

\* A stall found under a fence: nobody acknowledged the next job of the feed without taking that
\* fence, and of what was acknowledged under the same fence only a generation that surfaced since.
StallSound(g, acknowledged) ==
    /\ g.store <= store
    /\ g.fence = Fence \/ Ahead(Fence, g.fence)
    /\ g.job > At(g) /\ IsReleased(JobKey(g)) => Ahead(Fence, g.fence)
    /\ \A k \in acknowledged : k.fence = g.fence /\ JobKey(k) = JobKey(g) =>
          /\ k.seen.row = "none"
          /\ g.store = store => /\ g.job \in DOMAIN jobs[g.fence.dev]
                                /\ jobs[g.fence.dev][g.job].row # "none"

\* nobody else acknowledged the next job of the feed while its revision is on offer
OfferInv ==
    \A k \in OpenIssues :
        /\ RevisionOK(k) /\ row.cur = k.fence.cur
        /\ k.position = "next_feed" => ~IsReleased(JobKey(k))

\* an acknowledged revision took its fence, or decided the execution it saw
ReleaseOK(k) ==
    /\ k.dev = k.fence.dev
    /\ k.position = "next_feed" => Ahead(Fence, k.fence)
    /\ k.seen.row # "none" => exec[JobKey(k)] = "acknowledged"
ReleaseInv == \A k \in AcknowledgedIssues : ReleaseOK(k)

DiagInv == row.diag # None => StallSound(row.diag, AcknowledgedIssues)

\* a listing of the current store is no younger than what the store lists now
ReadOK(r) ==
    r # None =>
        /\ r.store <= store
        /\ r.store = store =>
              \A n \in DOMAIN r.jobs :
                 n \in DOMAIN jobs[r.dev] /\ (r.jobs[n].row # "none" => jobs[r.dev][n].row # "none")

\* What a walking pass has in its hands: a read of its own store, of no job beyond a short page,
\* and a history that its cursor passed and that is certified.
HistoryOK(p) ==
    \A n \in p.history :
        /\ n <= p.cursor /\ p.read # None
        /\ n \in DOMAIN p.read.jobs /\ p.read.jobs[n].row # "none"
        /\ exec[Key(p.store, p.fence.dev, n)] = "consumed"
HandsOK(p) ==
    /\ ReadOK(p.read)
    /\ p.read # None =>
          /\ p.read.store = p.store /\ p.read.dev = p.fence.dev
          /\ p.short => Len(p.read.jobs) <= p.cursor + Len(p.todo)
    /\ p.todo = <<>> => p.short
    /\ p.pc = "check" => p.todo = <<>>
    /\ HistoryOK(p)

SeeingPcs == WalkingPcs \cup {"read", "page", "clear", "diagnose"}
IssueOK(w) ==
    LET p == pass[w] IN
    /\ p.pc \in WalkingPcs => HandsOK(p)
    /\ p.pc \in SeeingPcs => p.seen \subseteq AcknowledgedIssues
    /\ p.pc = "page" => ReadOK(p.read)
    /\ p.pc = "diagnose" => StallSound(p.stall, p.seen)
    /\ p.pc = "record" /\ p.revision # None => RevisionOK(p.revision)

IssueInv ==
    /\ OfferInv /\ ReleaseInv /\ DiagInv
    /\ \A w \in Workers : IssueOK(w)
    /\ ResolvedIsSettled

-----------------------------------------------------------------------------
(* What a step must observe to keep each part                              *)

\* Within a store the feeds only grow, jobs keep their kind and a listed generation stays listed.
FeedsGrow ==
    /\ store' \in Int /\ store' >= store
    /\ store' = store =>
          \A d \in Devices : \A n \in DOMAIN jobs[d] :
             /\ n \in DOMAIN jobs'[d] /\ jobs'[d][n].kind = jobs[d][n].kind
             /\ jobs[d][n].row # "none" => jobs'[d][n].row # "none"

\* what a walking pass carries it carried before, or has from the feed
TodoComes ==
    \A w \in Workers : pass'[w].pc \in WalkingPcs =>
        \A i \in DOMAIN pass'[w].todo :
           \/ /\ pass[w].pc \in WalkingPcs
              /\ pass'[w].store = pass[w].store /\ pass'[w].fence.dev = pass[w].fence.dev
              /\ \E j \in DOMAIN pass[w].todo : pass'[w].todo[i] = pass[w].todo[j]
           \/ /\ pass'[w].store = store
              /\ pass'[w].todo[i].kind = jobs[pass'[w].fence.dev][pass'[w].todo[i].job].kind

\* who is acknowledged now is acknowledged under the fence, and takes it with the next job
ReleasesTakeFences ==
    \A k \in AcknowledgedIssues' \ AcknowledgedIssues :
        /\ k.fence = Fence /\ k.dev = Fence.dev
        /\ k.job > At(k) => Ahead(Fence', Fence)

Onward == FeedsGrow /\ Advances /\ AcksStay /\ DecisionsStay /\ ReleasesTakeFences /\ TodoComes

LEMMA RevisionTyped ==
    ASSUME NEW r \in Revisions
    PROVE  /\ r.fence \in Fences /\ r.fence.dev \in Devices /\ r.dev \in Devices /\ JobKey(r) \in Keys
           /\ r.job \in Int /\ r.store \in Int /\ At(r) \in Int
BY SettlementAssumption DEF Revisions, Fences, Cursors, JobKey, Key, Keys, Positions, At, SeqIn

LEMMA RevisionStays ==
    ASSUME TypeOK, FeedsGrow, TodoComes, NEW r \in Revisions, RevisionOK(r)
    PROVE  RevisionOK(r)'
<1>1. /\ r.fence.dev \in Devices /\ r.dev = r.fence.dev /\ r.store \in Int /\ store \in Int
      /\ r.store <= store /\ store' \in Int /\ store' >= store
  BY RevisionTyped DEF RevisionOK, FeedsGrow, TypeOK
<1>2. r.store <= store' /\ (r.store = store' => store' = store)
  BY <1>1
<1>3. r.store = store' => r.job \in DOMAIN jobs'[r.dev] /\ r.seen.kind = jobs'[r.dev][r.job].kind
  BY <1>1, <1>2 DEF RevisionOK, FeedsGrow
<1>4. ASSUME NEW w \in Workers, pass'[w].pc \in WalkingPcs, NEW i \in Carried(pass'[w], r)
      PROVE  pass'[w].todo[i].kind = r.seen.kind
  <2>1. i \in DOMAIN pass'[w].todo /\ pass'[w].store = r.store /\ pass'[w].fence.dev = r.dev
        /\ pass'[w].todo[i].job = r.job
    BY <1>4 DEF Carried
  <2>2. CASE /\ pass[w].pc \in WalkingPcs
             /\ pass'[w].store = pass[w].store /\ pass'[w].fence.dev = pass[w].fence.dev
             /\ \E j \in DOMAIN pass[w].todo : pass'[w].todo[i] = pass[w].todo[j]
    <3>1. PICK j \in DOMAIN pass[w].todo : pass'[w].todo[i] = pass[w].todo[j]
      BY <2>2
    <3>2. j \in Carried(pass[w], r)
      BY <2>1, <2>2, <3>1 DEF Carried
    <3>3. QED
      BY <2>2, <3>1, <3>2 DEF RevisionOK
  <2>3. CASE /\ pass'[w].store = store
             /\ pass'[w].todo[i].kind = jobs[pass'[w].fence.dev][pass'[w].todo[i].job].kind
    BY <2>1, <2>3 DEF RevisionOK
  <2>4. QED
    BY <1>4, <2>1, <2>2, <2>3 DEF TodoComes
<1>5. r.position = (IF r.job <= At(r) THEN "historical" ELSE "next_feed") /\ r.job <= At(r) + 1
  BY DEF RevisionOK
<1>6. QED
  BY <1>1, <1>2, <1>3, <1>4, <1>5 DEF RevisionOK

\* a stall that nobody rewrites stays sound, whatever is acknowledged meanwhile
LEMMA StallStays ==
    ASSUME TypeOK, TypeOK', FeedsGrow, Advances, ReleasesTakeFences, NEW g, NEW acknowledged,
           g.fence \in Fences, g.store \in Int, StallSound(g, acknowledged)
    PROVE  StallSound(g, acknowledged)'
<1>1. /\ g.fence.dev \in Devices /\ store \in Int /\ store' \in Int /\ store' >= store /\ g.store <= store
      /\ Fence \in Fences /\ Fence' \in Fences
  BY DEF Fences, TypeOK, Rows, Fence, FenceOf, FeedsGrow, StallSound
<1>2. g.store <= store' /\ (g.store = store' => store' = store)
  BY <1>1
<1>3. (g.fence = Fence \/ Ahead(Fence, g.fence)) /\ (Fence' = Fence \/ Ahead(Fence', Fence))
  BY DEF StallSound, Advances
<1>4. Ahead(Fence, g.fence) => Ahead(Fence', g.fence)
  BY <1>1, <1>3, AheadIsTransitive
<1>5. g.fence = Fence' \/ Ahead(Fence', g.fence)
  BY <1>3, <1>4
<1>6. ASSUME g.job > At(g), NEW k \in AcknowledgedIssues', k.store = g.store, k.dev = g.fence.dev, k.job = g.job
      PROVE  Ahead(Fence', g.fence)
  <2>1. CASE k \in AcknowledgedIssues
    <3>1. IsReleased(JobKey(g))
      BY <1>6, <2>1 DEF IsReleased, JobKey, Key
    <3>2. QED
      BY <1>4, <1>6, <3>1 DEF StallSound
  <2>2. CASE k \notin AcknowledgedIssues /\ g.fence = Fence
    <3>1. k.fence = g.fence /\ (k.job > At(k) => Ahead(Fence', Fence))
      BY <1>6, <2>2 DEF ReleasesTakeFences
    <3>2. At(k) = At(g)
      BY <1>6, <3>1 DEF At
    <3>3. QED
      BY <1>6, <2>2, <3>1, <3>2
  <2>3. QED
    BY <1>3, <1>4, <2>1, <2>2
<1>7. ASSUME NEW k \in acknowledged, k.fence = g.fence, JobKey(k) = JobKey(g)
      PROVE  /\ k.seen.row = "none"
             /\ g.store = store' => /\ g.job \in DOMAIN jobs'[g.fence.dev]
                                    /\ jobs'[g.fence.dev][g.job].row # "none"
  BY <1>1, <1>2, <1>7 DEF StallSound, FeedsGrow
<1>8. g.job > At(g) /\ IsReleased(JobKey(g))' => Ahead(Fence', g.fence)
  BY <1>6 DEF IsReleased, JobKey, Key
<1>9. QED
  BY <1>2, <1>5, <1>7, <1>8 DEF StallSound

LEMMA ReadStays ==
    ASSUME TypeOK, FeedsGrow, NEW r \in Reads \cup {None}, ReadOK(r)
    PROVE  ReadOK(r)'
<1>1. SUFFICES ASSUME r # None
               PROVE  /\ r.store <= store'
                      /\ r.store = store' =>
                            \A n \in DOMAIN r.jobs : n \in DOMAIN jobs'[r.dev]
                               /\ (r.jobs[n].row # "none" => jobs'[r.dev][n].row # "none")
  BY DEF ReadOK
<1>2. /\ r.dev \in Devices /\ r.store \in Int /\ store \in Int /\ store' \in Int /\ store' >= store
      /\ r.store <= store
  BY <1>1 DEF Reads, TypeOK, FeedsGrow, ReadOK
<1>3. r.store <= store' /\ (r.store = store' => store' = store)
  BY <1>2
<1>4. QED
  BY <1>1, <1>2, <1>3 DEF ReadOK, FeedsGrow

\* a certified history stays certified
LEMMA HistoryStays ==
    ASSUME DecisionsStay, NEW p \in Walks, HistoryOK(p)
    PROVE  HistoryOK(p)'
<1>1. \A n \in p.history : Key(p.store, p.fence.dev, n) \in Keys
  BY DEF Walks, Fences, Key, Keys
<1>2. \A n \in p.history : exec'[Key(p.store, p.fence.dev, n)] = "consumed"
  BY <1>1 DEF HistoryOK, DecisionsStay, Decided
<1>3. QED
  BY <1>2 DEF HistoryOK

LEMMA HandsStay ==
    ASSUME TypeOK, FeedsGrow, DecisionsStay, NEW p \in Walks, HandsOK(p)
    PROVE  HandsOK(p)'
<1>1. ReadOK(p.read)' /\ HistoryOK(p)'
  BY ReadStays, HistoryStays DEF HandsOK, Walks
<1>2. QED
  BY <1>1 DEF HandsOK

\* a pass that does not move
LEMMA IssueOKStays ==
    ASSUME SettlementInv, TypeOK', Onward, NEW w \in Workers, IssueOK(w), pass'[w] = pass[w]
    PROVE  IssueOK(w)'
<1> DEFINE p == pass[w]
<1>1. TypeOK /\ FeedsGrow /\ Advances /\ AcksStay /\ DecisionsStay /\ ReleasesTakeFences /\ TodoComes
  BY DEF SettlementInv, Onward
<1>2. ASSUME p.pc \in WalkingPcs
      PROVE  HandsOK(p)'
  <2>1. p \in Walks /\ HandsOK(p)
    BY <1>1, <1>2, Shapes DEF IssueOK
  <2>2. PICK z : z = p
    OBVIOUS
  <2>3. HandsOK(z)'
    BY <1>1, <2>1, <2>2, HandsStay
  <2>4. pass'[w] = z
    BY <2>2
  <2>5. QED
    BY <2>3, <2>4 DEF HandsOK, ReadOK, HistoryOK
<1>3. ASSUME p.pc \in SeeingPcs
      PROVE  p.seen \subseteq AcknowledgedIssues'
  BY <1>1, <1>3 DEF IssueOK, AcksStay
<1>4. ASSUME p.pc = "page"
      PROVE  ReadOK(p.read)'
  <2>1. p.read \in Reads \cup {None} /\ ReadOK(p.read)
    BY <1>1, <1>4, Shapes DEF IssueOK
  <2>2. QED
    BY <1>1, <2>1, ReadStays DEF ReadOK
<1>5. ASSUME p.pc = "diagnose"
      PROVE  StallSound(p.stall, p.seen)'
  <2>1. p.stall \in Stalls /\ StallSound(p.stall, p.seen)
    BY <1>1, <1>5, Shapes DEF IssueOK
  <2>2. PICK g, acknowledged : g = p.stall /\ acknowledged = p.seen
    OBVIOUS
  <2>3. g.fence \in Fences /\ g.store \in Int /\ StallSound(g, acknowledged)
    BY <2>1, <2>2 DEF Stalls
  <2>4. StallSound(g, acknowledged)'
    BY <1>1, <2>3, StallStays
  <2>5. pass'[w].stall = g /\ pass'[w].seen = acknowledged
    BY <2>2
  <2>6. QED
    BY <2>4, <2>5 DEF StallSound, IsReleased, JobKey, At
<1>6. ASSUME p.pc = "record", p.revision # None
      PROVE  RevisionOK(p.revision)'
  <2>1. PICK r : r = p.revision
    OBVIOUS
  <2>2. r \in Revisions /\ RevisionOK(r)
    BY <1>1, <1>6, <2>1, Shapes DEF IssueOK
  <2>3. RevisionOK(r)'
    BY <1>1, <2>2, RevisionStays
  <2>4. pass'[w].revision = r
    BY <2>1
  <2>5. QED
    BY <2>3, <2>4 DEF RevisionOK, Carried, At
<1>7. QED
  BY <1>2, <1>3, <1>4, <1>5, <1>6 DEF IssueOK

\* an acknowledged revision has decided what it saw, and its fence stays behind
LEMMA ReleasesStand ==
    ASSUME TypeOK, TypeOK', Advances, DecisionsStay, ReleaseInv,
           \A k \in AcknowledgedIssues' \ AcknowledgedIssues : ReleaseOK(k)'
    PROVE  ReleaseInv'
<1>1. SUFFICES ASSUME NEW k \in AcknowledgedIssues, k \in AcknowledgedIssues'
               PROVE  ReleaseOK(k)'
  BY DEF ReleaseInv
<1>2. k \in Revisions /\ ReleaseOK(k)
  BY DEF TypeOK, AcknowledgedIssues, ReleaseInv
<1>3. k.fence \in Fences /\ Fence \in Fences /\ Fence' \in Fences /\ JobKey(k) \in Keys
  BY <1>2, RevisionTyped DEF TypeOK, Rows, Fence, FenceOf, Fences
<1>4. Ahead(Fence, k.fence) => Ahead(Fence', k.fence)
  BY <1>3, AheadIsTransitive DEF Advances
<1>5. exec[JobKey(k)] = "acknowledged" => exec'[JobKey(k)] = "acknowledged"
  BY <1>3 DEF DecisionsStay, Decided
<1>6. QED
  BY <1>2, <1>4, <1>5 DEF ReleaseOK

\* a diagnostic that keeps its stall stays sound while nobody acknowledges it
LEMMA DiagnosticStays ==
    ASSUME TypeOK, TypeOK', FeedsGrow, Advances, ReleasesTakeFences, DiagInv, row.diag # None,
           row'.diag.fence = row.diag.fence, row'.diag.job = row.diag.job,
           row'.diag.store = row.diag.store,
           \A k \in AcknowledgedIssues' \ AcknowledgedIssues :
              ~(k.fence = row.diag.fence /\ JobKey(k) = JobKey(row.diag))
    PROVE  DiagInv'
<1>1. PICK g, acknowledged : g = row.diag /\ acknowledged = AcknowledgedIssues
  OBVIOUS
<1>2. g.fence \in Fences /\ g.store \in Int /\ StallSound(g, acknowledged)
  BY <1>1 DEF TypeOK, Rows, Diagnostics, DiagInv
<1>3. StallSound(g, acknowledged)'
  BY <1>2, StallStays
<1>4. JobKey(row.diag)' = JobKey(g) /\ At(row.diag)' = At(g) /\ JobKey(row.diag) = JobKey(g)
  BY <1>1 DEF JobKey, At
<1>5. ASSUME NEW k \in AcknowledgedIssues', k.fence = g.fence, JobKey(k) = JobKey(g)
      PROVE  k \in acknowledged
  BY <1>1, <1>4, <1>5
<1>6. IsReleased(JobKey(g))' = IsReleased(JobKey(row.diag))'
  BY <1>1 DEF IsReleased, JobKey
<1>7. StallSound(row.diag, AcknowledgedIssues)'
  BY <1>1, <1>3, <1>4, <1>5, <1>6 DEF StallSound
<1>8. QED
  BY <1>7 DEF DiagInv

\* an offer stands while the cursor does
LEMMA OffersStand ==
    ASSUME TypeOK, TypeOK', FeedsGrow, TodoComes, OfferInv,
           \A k \in OpenIssues' :
              k \in OpenIssues /\ row'.cur = row.cur /\ AcknowledgedIssues' = AcknowledgedIssues
    PROVE  OfferInv'
<1>1. SUFFICES ASSUME NEW k \in OpenIssues'
               PROVE  /\ RevisionOK(k)' /\ row'.cur = k.fence.cur
                      /\ k.position = "next_feed" => ~IsReleased(JobKey(k))'
  BY DEF OfferInv
<1>2. /\ k \in OpenIssues /\ row'.cur = row.cur /\ AcknowledgedIssues' = AcknowledgedIssues
      /\ k \in Revisions /\ RevisionOK(k) /\ row.cur = k.fence.cur
      /\ k.position = "next_feed" => ~IsReleased(JobKey(k))
  BY <1>1 DEF OfferInv, TypeOK, OpenIssues
<1>3. RevisionOK(k)'
  BY <1>2, RevisionStays
<1>4. QED
  BY <1>2, <1>3 DEF IsReleased, JobKey

\* what is settled stays settled
LEMMA ResolvedStays ==
    ASSUME TypeOK, DecisionsStay, ResolvedIsSettled,
           \A k \in DOMAIN issues' : issues'[k] = "resolved" =>
              \/ k \in DOMAIN issues /\ issues[k] = "resolved"
              \/ k.seen.kind = "other" \/ k.seen.row = "none"
              \/ exec'[Key(k.store, k.dev, k.job)] \in Decided
    PROVE  ResolvedIsSettled'
<1>1. ASSUME NEW k \in DOMAIN issues, issues[k] = "resolved", exec[Key(k.store, k.dev, k.job)] \in Decided
      PROVE  exec'[Key(k.store, k.dev, k.job)] \in Decided
  <2>1. Key(k.store, k.dev, k.job) \in Keys
    BY <1>1 DEF TypeOK, Revisions, Key, Keys
  <2>2. QED
    BY <1>1, <2>1 DEF DecisionsStay
<1>2. QED
  BY <1>1 DEF ResolvedIsSettled

\* a step that writes neither the cursor nor an issue, and no diagnostic
LEMMA QuietStepKeeps ==
    ASSUME SettlementInv, TypeOK', IssueInv, Onward, row'.cur = row.cur, row'.diag = row.diag,
           issues' = issues, \A w \in Workers : pass'[w] = pass[w] \/ IssueOK(w)'
    PROVE  IssueInv'
<1>1. /\ TypeOK /\ FeedsGrow /\ Advances /\ DecisionsStay /\ ReleasesTakeFences /\ TodoComes
      /\ OfferInv /\ ReleaseInv /\ DiagInv /\ ResolvedIsSettled
  BY DEF SettlementInv, Onward, IssueInv
<1>2. AcknowledgedIssues' = AcknowledgedIssues /\ OpenIssues' = OpenIssues
  BY DEF AcknowledgedIssues, OpenIssues
<1>3. OfferInv'
  BY <1>1, <1>2, OffersStand
<1>4. ReleaseInv'
  BY <1>1, <1>2, ReleasesStand
<1>5. DiagInv'
  <2>1. CASE row.diag = None
    BY <2>1 DEF DiagInv
  <2>2. CASE row.diag # None
    BY <1>1, <1>2, <2>2, DiagnosticStays
  <2>3. QED
    BY <2>1, <2>2
<1>6. ResolvedIsSettled'
  BY <1>1, ResolvedStays
<1>7. \A w \in Workers : IssueOK(w)'
  BY IssueOKStays DEF IssueInv
<1>8. QED
  BY <1>3, <1>4, <1>5, <1>6, <1>7 DEF IssueInv

-----------------------------------------------------------------------------
(* The adapter's steps                                                     *)

LEMMA FeedsStay ==
    ASSUME TypeOK, UNCHANGED <<store, jobs>>
    PROVE  FeedsGrow
BY DEF FeedsGrow, TypeOK

\* feeds that change at one job of the mapped device, or grow by one
LEMMA FeedsChange ==
    ASSUME TypeOK, store' = store, NEW f, jobs' = [jobs EXCEPT ![row.dev] = f],
           \A n \in DOMAIN jobs[row.dev] :
              /\ n \in DOMAIN f /\ f[n].kind = jobs[row.dev][n].kind
              /\ jobs[row.dev][n].row # "none" => f[n].row # "none"
    PROVE  FeedsGrow
<1>1. \A d \in Devices : jobs'[d] = IF d = row.dev THEN f ELSE jobs[d]
  BY DEF TypeOK
<1>2. QED
  BY <1>1 DEF FeedsGrow, TypeOK

LEMMA AdapterFeedsGrow ==
    ASSUME TypeOK, Adapter
    PROVE  FeedsGrow
<1>1. row.dev \in Devices /\ jobs[row.dev] \in Seq(Job)
  BY DEF TypeOK, Rows, Feeds
<1>2. ASSUME NEW job \in Landings, JobLands(job)
      PROVE  FeedsGrow
  <2> DEFINE f == Append(jobs[row.dev], job)
  <2>1. \A n \in DOMAIN jobs[row.dev] : n \in DOMAIN f /\ f[n] = jobs[row.dev][n]
    BY <1>1, LandingsAssumption
  <2>2. jobs' = [jobs EXCEPT ![row.dev] = f] /\ store' = store
    BY <1>2 DEF JobLands
  <2> HIDE DEF f
  <2>3. QED
    BY <2>1, <2>2, FeedsChange
<1>3. ASSUME NEW n \in DOMAIN jobs[row.dev], NEW j, j.kind = jobs[row.dev][n].kind,
             jobs[row.dev][n].row # "none" => j.row # "none",
             jobs' = [jobs EXCEPT ![row.dev][n] = j], store' = store
      PROVE  FeedsGrow
  <2> DEFINE f == [jobs[row.dev] EXCEPT ![n] = j]
  <2>1. \A i \in DOMAIN jobs[row.dev] : i \in DOMAIN f /\ f[i] = IF i = n THEN j ELSE jobs[row.dev][i]
    BY <1>1
  <2>2. jobs' = [jobs EXCEPT ![row.dev] = f]
    BY <1>3
  <2> HIDE DEF f
  <2>3. \A i \in DOMAIN jobs[row.dev] :
           /\ i \in DOMAIN f /\ f[i].kind = jobs[row.dev][i].kind
           /\ jobs[row.dev][i].row # "none" => f[i].row # "none"
    BY <1>3, <2>1
  <2>4. QED
    BY <1>3, <2>2, <2>3, FeedsChange
<1>4. ASSUME NEW n \in Positions, ItemFlips(n)
      PROVE  FeedsGrow
  <2> DEFINE was == jobs[row.dev][n]
             j == [was EXCEPT !.item = IF was.item = "good" THEN "bad" ELSE "good"]
  <2>1. n \in DOMAIN jobs[row.dev] /\ was \in Job /\ store' = store
    BY <1>1, <1>4 DEF ItemFlips
  <2>2. j.kind = was.kind /\ j.row = was.row
    BY <2>1 DEF Job
  <2>3. jobs' = [jobs EXCEPT ![row.dev][n] = j]
    BY <1>4 DEF ItemFlips
  <2> HIDE DEF j
  <2>4. QED
    BY <1>3, <2>1, <2>2, <2>3
<1>5. ASSUME NEW n \in Positions, NEW now \in {"good", "bad"}, RowFlips(n, now)
      PROVE  FeedsGrow
  <2> DEFINE was == jobs[row.dev][n]
             j == [was EXCEPT !.row = now]
  <2>1. n \in DOMAIN jobs[row.dev] /\ was \in Job /\ store' = store
    BY <1>1, <1>5 DEF RowFlips
  <2>2. j.kind = was.kind /\ j.row # "none"
    BY <2>1 DEF Job
  <2>3. jobs' = [jobs EXCEPT ![row.dev][n] = j]
    BY <1>5 DEF RowFlips
  <2> HIDE DEF j
  <2>4. QED
    BY <1>3, <2>1, <2>2, <2>3
<1>6. CASE Rebuild
  BY <1>6 DEF Rebuild, FeedsGrow, TypeOK
<1>7. CASE \E d \in Devices : Remap(d)
  BY <1>7, FeedsStay DEF Remap
<1>8. QED
  BY <1>2, <1>4, <1>5, <1>6, <1>7 DEF Adapter

LEMMA AdapterIssues ==
    ASSUME SettlementInv, TypeOK', IssueInv, Adapter
    PROVE  IssueInv'
<1>1. TypeOK /\ row.epoch \in Nat /\ row \in Rows
  BY DEF SettlementInv, TypeOK, Rows
<1>2. UNCHANGED <<exec, issues, pass>> /\ row'.cur = row.cur /\ row'.diag = row.diag /\ Advances
  <2>1. ASSUME NEW d \in Devices, Remap(d)
        PROVE  /\ UNCHANGED <<exec, issues, pass>> /\ row'.cur = row.cur /\ row'.diag = row.diag
               /\ row'.epoch = row.epoch + 1
    BY <1>1, <2>1 DEF Remap, Rows
  <2>2. ASSUME row' = row PROVE Advances
    BY <2>2 DEF Advances, Fence
  <2>3. ASSUME row'.epoch = row.epoch + 1 PROVE Advances
    BY <1>1, <2>3 DEF Advances, Ahead, Fence, FenceOf
  <2>4. CASE \E d \in Devices : Remap(d)
    BY <2>1, <2>3, <2>4
  <2>5. CASE ~\E d \in Devices : Remap(d)
    BY <2>2, <2>5 DEF Adapter, JobLands, ItemFlips, RowFlips, Rebuild
  <2>6. QED
    BY <2>4, <2>5
<1>3. AcknowledgedIssues' = AcknowledgedIssues
  BY <1>2 DEF AcknowledgedIssues
<1>4. AcksStay /\ ReleasesTakeFences /\ DecisionsStay /\ TodoComes
  BY <1>2, <1>3 DEF AcksStay, ReleasesTakeFences, DecisionsStay, TodoComes
<1>5. Onward
  BY <1>1, <1>2, <1>4, AdapterFeedsGrow DEF Onward
<1>6. QED
  BY <1>2, <1>5, QuietStepKeeps

-----------------------------------------------------------------------------
(* Steps of a pass that write neither the cursor nor an issue               *)

\* a pass that stops walking, or does not walk yet, carries nothing
LEMMA NothingCarried ==
    ASSUME TypeOK, NEW w \in Workers, \A v \in Workers \ {w} : pass'[v] = pass[v],
           pass'[w].pc \notin WalkingPcs
    PROVE  TodoComes
BY DEF TodoComes

\* what the step of one pass must show
LEMMA OwnIssueStep ==
    ASSUME SettlementInv, TypeOK', IssueInv, NEW w \in Workers, NEW q, pass' = [pass EXCEPT ![w] = q],
           UNCHANGED <<store, jobs, issues>>, Fence' = Fence, row'.diag = row.diag, DecisionsStay,
           q.pc \notin WalkingPcs \/ TodoComes, pass'[w] = q => IssueOK(w)'
    PROVE  IssueInv'
<1>1. TypeOK /\ pass'[w] = q /\ \A v \in Workers \ {w} : pass'[v] = pass[v]
  BY DEF SettlementInv, TypeOK
<1>2. AcknowledgedIssues' = AcknowledgedIssues /\ row'.cur = row.cur
  BY DEF AcknowledgedIssues, Fence, FenceOf
<1>3. AcksStay /\ ReleasesTakeFences /\ Advances
  BY <1>2 DEF AcksStay, ReleasesTakeFences, Advances
<1>4. Onward
  BY <1>1, <1>3, FeedsStay, NothingCarried DEF Onward
<1>5. \A v \in Workers : pass'[v] = pass[v] \/ IssueOK(v)'
  BY <1>1
<1>6. QED
  BY <1>2, <1>4, <1>5, QuietStepKeeps

\* a pass that ends, or only has to publish, knows nothing any more
LEMMA NothingKnown ==
    ASSUME NEW w \in Workers, pass'[w].pc \notin SeeingPcs \cup {"record"}
    PROVE  IssueOK(w)'
BY DEF IssueOK, SeeingPcs

LEMMA EndIssues ==
    ASSUME SettlementInv, TypeOK', IssueInv, NEW w \in Workers, pass' = [pass EXCEPT ![w] = Idle],
           UNCHANGED <<store, jobs, issues>>, Fence' = Fence, row'.diag = row.diag, DecisionsStay
    PROVE  IssueInv'
<1>1. PICK q : q = Idle
  OBVIOUS
<1>2. q.pc \notin WalkingPcs /\ q.pc \notin SeeingPcs \cup {"record"} /\ pass' = [pass EXCEPT ![w] = q]
  BY <1>1, Idles DEF WalkingPcs, SeeingPcs
<1>3. pass'[w] = q => IssueOK(w)'
  BY <1>2, NothingKnown
<1>4. QED
  BY <1>2, <1>3, OwnIssueStep

LEMMA BeginIssues ==
    ASSUME SettlementInv, TypeOK', IssueInv, NEW w \in Workers, Begin(w)
    PROVE  IssueInv'
<1> DEFINE q == [pc |-> "read", resume |-> row.resume, fence |-> Fence, store |-> store,
                 seen |-> AcknowledgedIssues]
<1>1. q.pc = "read" /\ q.seen = AcknowledgedIssues /\ pass' = [pass EXCEPT ![w] = q]
  BY DEF Begin
<1> HIDE DEF q
<1>2. UNCHANGED <<store, jobs, row, exec, issues>> /\ Fence' = Fence /\ DecisionsStay
  BY DEF Begin, Fence, DecisionsStay
<1>3. pass'[w] = q => IssueOK(w)'
  BY <1>1, <1>2 DEF IssueOK, WalkingPcs, AcknowledgedIssues
<1>4. QED
  BY <1>1, <1>2, <1>3, OwnIssueStep DEF WalkingPcs

LEMMA ReadEvidenceIssues ==
    ASSUME SettlementInv, TypeOK', IssueInv, NEW w \in Workers, ReadEvidence(w)
    PROVE  IssueInv'
<1> DEFINE p == pass[w]
           after == SeqIn(p.fence.cur, store, p.fence.dev)
           read == [store |-> store, dev |-> row.dev, epoch |-> row.epoch, after |-> after,
                    jobs |-> jobs[row.dev]]
           page(r) == [pc |-> "page", resume |-> p.resume, seen |-> p.seen, read |-> r]
<1>1. TypeOK /\ p.pc = "read" /\ p.seen \subseteq AcknowledgedIssues /\ store \in Int
  BY DEF SettlementInv, TypeOK, ReadEvidence, IssueInv, IssueOK, SeeingPcs
<1>2. UNCHANGED <<store, jobs, row, exec, issues>> /\ Fence' = Fence /\ DecisionsStay
  BY DEF ReadEvidence, Fence, DecisionsStay
<1>3. CASE pass' = [pass EXCEPT ![w] = Idle]
  BY <1>2, <1>3, EndIssues
<1>4. ASSUME NEW r \in {read, None}, pass' = [pass EXCEPT ![w] = page(r)]
      PROVE  IssueInv'
  <2>1. page(r).pc = "page" /\ page(r).seen = p.seen /\ page(r).read = r
    OBVIOUS
  <2>2. r # None => r.store = store /\ r.dev = row.dev /\ r.jobs = jobs[row.dev]
    BY <1>4
  <2>3. PICK q : q = page(r)
    OBVIOUS
  <2> HIDE DEF page, read
  <2>4. pass'[w] = q => IssueOK(w)'
    BY <1>1, <1>2, <2>1, <2>2, <2>3 DEF IssueOK, ReadOK, WalkingPcs, AcknowledgedIssues
  <2>5. q.pc \notin WalkingPcs /\ pass' = [pass EXCEPT ![w] = q]
    BY <1>4, <2>1, <2>3 DEF WalkingPcs
  <2>6. QED
    BY <1>2, <2>4, <2>5, OwnIssueStep
<1>5. QED
  BY <1>3, <1>4 DEF ReadEvidence

LEMMA ClearResumeIssues ==
    ASSUME SettlementInv, TypeOK', IssueInv, NEW w \in Workers, ClearResume(w)
    PROVE  IssueInv'
<1>1. row \in Rows
  BY DEF SettlementInv, TypeOK
<1>2. Fence' = Fence /\ row'.diag = row.diag
  BY <1>1 DEF ClearResume, Fence, FenceOf, Rows
<1>3. pass' = [pass EXCEPT ![w] = Idle] /\ UNCHANGED <<store, jobs, issues>> /\ DecisionsStay
  BY DEF ClearResume, DecisionsStay
<1>4. QED
  BY <1>2, <1>3, EndIssues

LEMMA AbortIssues ==
    ASSUME SettlementInv, TypeOK', IssueInv, NEW w \in Workers, Abort(w)
    PROVE  IssueInv'
<1>1. /\ pass' = [pass EXCEPT ![w] = Idle] /\ UNCHANGED <<store, jobs, row, issues>> /\ DecisionsStay
      /\ Fence' = Fence /\ row'.diag = row.diag
  BY DEF Abort, DecisionsStay, Fence
<1>2. QED
  BY <1>1, EndIssues

\* A published revision is of the job it names in the store it was read from.
LEMMA PublishIssues ==
    ASSUME SettlementInv, TypeOK', IssueInv, NEW w \in Workers, Publish(w)
    PROVE  IssueInv'
<1> DEFINE g == Base(row.diag)
           revision == IF Exit(g) = "acknowledgeable" THEN Revision(g) ELSE None
           q == [pc |-> "record", stall |-> g, exit |-> Exit(g), revision |-> revision]
<1>1. TypeOK /\ SettlementInv /\ row \in Rows
  BY DEF SettlementInv, TypeOK
<1>2. UNCHANGED <<store, jobs, row, exec, issues>> /\ Fence' = Fence /\ DecisionsStay
  BY DEF Publish, Fence, DecisionsStay
<1>3. CASE g = None
  <2>1. pass' = [pass EXCEPT ![w] = Idle]
    BY <1>3 DEF Publish
  <2>2. QED
    BY <1>2, <2>1, EndIssues
<1>4. CASE g # None
  <2>1. pass' = [pass EXCEPT ![w] = q]
    BY <1>4 DEF Publish
  <2>2. q.pc = "record" /\ q.revision = revision
    OBVIOUS
  <2> HIDE DEF q
  <2>3. PICK r : r = Revision(g)
    OBVIOUS
  <2>4. ASSUME Exit(g) = "acknowledgeable"
        PROVE  RevisionOK(r)
    <3> DEFINE at == SeqIn(g.fence.cur, g.store, row.dev)
    <3>1. Fence = g.fence /\ store = g.store /\ g.job \in DOMAIN jobs[row.dev] /\ ~(g.job > at + 1)
      BY <2>4 DEF Exit
    <3>2. /\ r.dev = row.dev /\ r.store = g.store /\ r.job = g.job /\ r.fence = g.fence
          /\ r.position = IF g.job <= at THEN "historical" ELSE "next_feed"
          /\ r.seen = jobs[row.dev][g.job]
      BY <2>3 DEF Revision
    <3>3. r.fence.dev = row.dev /\ At(r) = at /\ store \in Int
      BY <1>1, <3>1, <3>2 DEF Fence, FenceOf, At, TypeOK
    <3>4. g.job \in Int /\ at \in Int
      <4>1. row.dev \in Devices /\ row.cur \in Cursors /\ g.fence.cur = row.cur /\ jobs[row.dev] \in Feeds
        BY <1>1, <3>1 DEF Fence, FenceOf, TypeOK, Rows
      <4>2. QED
        BY <3>1, <4>1 DEF SeqIn, Cursors, Feeds
    <3> HIDE DEF at
    <3>5. ASSUME NEW v \in Workers, pass[v].pc \in WalkingPcs, NEW i \in Carried(pass[v], r)
          PROVE  pass[v].todo[i].kind = r.seen.kind
      <4>1. /\ i \in DOMAIN pass[v].todo /\ pass[v].store = store /\ pass[v].fence.dev = row.dev
            /\ pass[v].todo[i].job = g.job
        BY <3>1, <3>2, <3>5 DEF Carried
      <4>2. pass[v].todo[i].kind = jobs[row.dev][g.job].kind
        BY <1>1, <3>5, <4>1 DEF SettlementInv, PassOK, WalkOK
      <4>3. QED
        BY <3>2, <4>2
    <3>6. r.job <= At(r) + 1
      BY <3>1, <3>2, <3>3, <3>4
    <3>7. QED
      BY <3>1, <3>2, <3>3, <3>5, <3>6 DEF RevisionOK
  <2>5. ASSUME pass'[w] = q, revision # None
        PROVE  RevisionOK(r)'
    <3>1. RevisionOK(r)
      BY <2>4, <2>5
    <3>2. \A v \in Workers : pass'[v].pc \in WalkingPcs => pass'[v] = pass[v]
      BY <1>1, <2>1, <2>2 DEF TypeOK, WalkingPcs
    <3>3. QED
      BY <1>2, <3>1, <3>2 DEF RevisionOK, Carried, At
  <2>6. pass'[w] = q => IssueOK(w)'
    <3>1. SUFFICES ASSUME pass'[w] = q, revision # None PROVE RevisionOK(pass[w].revision)'
      BY <2>2 DEF IssueOK, WalkingPcs, SeeingPcs
    <3>2. pass'[w].revision = r /\ RevisionOK(r)'
      BY <2>2, <2>3, <2>5, <3>1
    <3>3. QED
      BY <3>2 DEF RevisionOK, Carried, At
  <2>7. QED
    BY <1>2, <2>1, <2>2, <2>6, OwnIssueStep DEF WalkingPcs
<1>5. QED
  BY <1>3, <1>4

-----------------------------------------------------------------------------
(* Steps of a pass that walks                                              *)

\* a page that is not full reaches the end of its feed
LEMMA ShortPageReachesTheEnd ==
    ASSUME NEW d \in Devices, NEW seq \in 0..MaxJobs, jobs[d] \in Feeds, NEW m \in Nat,
           FeedPage(d, seq) = [i \in 1..m |-> seq + i], m < PageSize
    PROVE  Len(jobs[d]) <= seq + m
<1> DEFINE n == Len(jobs[d])
           last == Min({seq + PageSize, n})
<1>1. n \in Nat /\ seq \in Nat /\ PageSize \in Nat
  BY SettlementAssumption DEF Feeds
<1> HIDE DEF n
<1>2. last \in {seq + PageSize, n}
  <2>1. {seq + PageSize, n} \subseteq Nat /\ {seq + PageSize, n} # {}
    BY <1>1
  <2>2. QED
    BY <2>1, MinIsMember
<1> HIDE DEF last
<1>3. FeedPage(d, seq) = [i \in 1..(last - seq) |-> seq + i]
  BY DEF FeedPage, last, n
<1>4. 1..m = 1..(last - seq)
  BY <1>3
<1>5. last - seq <= m
  <2>1. SUFFICES ASSUME last - seq > m PROVE FALSE
    BY <1>1, <1>2
  <2>2. last - seq \in 1..(last - seq) /\ last - seq \notin 1..m
    BY <1>1, <1>2, <2>1
  <2>3. QED
    BY <1>4, <2>2
<1>6. last = n
  BY <1>1, <1>2, <1>5
<1>7. QED
  BY <1>1, <1>5, <1>6 DEF n

\* a listing of the current store is of jobs the feed still has
LEMMA ReadFits ==
    ASSUME TypeOK, NEW r \in Reads, r # None, ReadOK(r), r.store = store
    PROVE  Len(r.jobs) <= Len(jobs[r.dev])
<1>1. r.jobs \in Seq(Job) /\ jobs[r.dev] \in Seq(Job)
  BY DEF Reads, Feeds, TypeOK
<1>2. \A n \in DOMAIN r.jobs : n \in DOMAIN jobs[r.dev]
  BY DEF ReadOK
<1>3. QED
  BY <1>1, <1>2

LEMMA LockPageIssues ==
    ASSUME SettlementInv, TypeOK', IssueInv, NEW w \in Workers, LockPage(w)
    PROVE  IssueInv'
<1> DEFINE p == pass[w]
           reset == row.cur.store # store \/ row.cur.dev # row.dev
           cursor == SeqIn(row.cur, store, row.dev)
           page == FeedPage(row.dev, cursor)
           read == IF p.read # None /\ <<p.read.dev, p.read.epoch, p.read.store>> = <<row.dev, row.epoch, store>>
                   THEN p.read ELSE None
           feed == IF read = None THEN {}
                   ELSE {n \in DOMAIN read.jobs : n > read.after} \cup {page[i] : i \in DOMAIN page}
           history == IF read = None \/ reset THEN {}
                      ELSE {n \in DOMAIN read.jobs \ feed :
                              /\ read.jobs[n].row # "none" /\ n <= row.cur.seq
                              /\ exec[Key(store, row.dev, n)] = "consumed"}
           item(n) == IF read # None /\ n \in DOMAIN read.jobs /\ n > read.after
                      THEN <<read.jobs[n].item, jobs[row.dev][n].item>> ELSE <<jobs[row.dev][n].item>>
           listed(n) == IF read # None /\ n \in DOMAIN read.jobs THEN read.jobs[n].row ELSE "none"
           carrier(n) == [job |-> n, kind |-> jobs[row.dev][n].kind,
                          items |-> Range(item(n)), row |-> listed(n)]
           todo == [i \in DOMAIN page |-> carrier(page[i])]
           short == Len(page) < PageSize
           alone == page = <<>>
           q == [pc |-> "prepare", resume |-> p.resume, seen |-> p.seen, read |-> read, feed |-> feed,
                 fence |-> Fence, store |-> store, cursor |-> cursor, reset |-> reset,
                 history |-> history, todo |-> todo,
                 alone |-> alone, short |-> short, released |-> FALSE]
<1>1. TypeOK /\ p.pc = "page" /\ p.seen \subseteq AcknowledgedIssues /\ ReadOK(p.read)
  BY DEF SettlementInv, IssueInv, IssueOK, SeeingPcs, LockPage
<1>2. pass' = [pass EXCEPT ![w] = q]
  BY DEF LockPage
<1>3. UNCHANGED <<store, jobs, row, exec, issues>> /\ Fence' = Fence /\ row'.diag = row.diag /\ DecisionsStay
  BY DEF LockPage, Fence, DecisionsStay
<1>4. cursor \in 0..MaxJobs /\ row.dev \in Devices /\ jobs[row.dev] \in Feeds
  BY <1>1, SettlementAssumption DEF SeqIn, Rows, Cursors, TypeOK
<1>5. /\ ReadOK(read) /\ read \in Reads \cup {None}
      /\ read # None => read.store = store /\ read.dev = row.dev
  BY <1>1, Shapes DEF ReadOK
<1>6. \A n \in history : /\ n <= cursor /\ read # None /\ n \in DOMAIN read.jobs
                         /\ read.jobs[n].row # "none" /\ exec[Key(store, row.dev, n)] = "consumed"
  BY DEF SeqIn
<1> HIDE DEF cursor
<1>7. PICK m \in Nat : page = [i \in 1..m |-> cursor + i]
  BY <1>4, PageFollowsTheCursor
<1>8. DOMAIN page = 1..m /\ Len(page) = m
  BY <1>7
<1>9. short => Len(jobs[row.dev]) <= cursor + m
  BY <1>4, <1>7, <1>8, ShortPageReachesTheEnd
<1> HIDE DEF read, page, history, feed, reset, item, listed
<1>10. DOMAIN todo = 1..m /\ Len(todo) = m
  BY <1>8
<1>11. \A i \in DOMAIN todo : todo[i].kind = jobs[row.dev][todo[i].job].kind
  OBVIOUS
<1>12. todo = <<>> => short
  <2>1. ASSUME todo = <<>> PROVE m = 0
    BY <1>10, <2>1
  <2>2. QED
    BY <1>8, <2>1, SettlementAssumption
<1>13. read # None /\ short => Len(read.jobs) <= cursor + m
  <2>1. ASSUME read # None, short PROVE Len(read.jobs) <= cursor + m
    <3>1. Len(read.jobs) <= Len(jobs[row.dev])
      BY <1>1, <1>5, <2>1, ReadFits
    <3>2. Len(read.jobs) \in Nat /\ Len(jobs[row.dev]) \in Nat /\ cursor \in Nat
      BY <1>4, <1>5, <2>1, SettlementAssumption DEF Reads, Feeds
    <3>3. QED
      BY <1>9, <2>1, <3>1, <3>2
  <2>2. QED
    BY <2>1
<1> HIDE DEF todo, short, alone
<1>14. /\ q.pc = "prepare" /\ q.seen = p.seen /\ q.read = read /\ q.fence = Fence /\ q.store = store
       /\ q.cursor = cursor /\ q.history = history /\ q.todo = todo /\ q.short = short
  OBVIOUS
<1>15. q.fence.dev = row.dev
  BY <1>14 DEF Fence, FenceOf
<1> HIDE DEF q
<1>16. ReadOK(q.read) /\ HistoryOK(q)
  BY <1>5, <1>6, <1>14, <1>15 DEF HistoryOK
<1>17. HandsOK(q)
  BY <1>5, <1>10, <1>12, <1>13, <1>14, <1>15, <1>16 DEF HandsOK
<1>18. ASSUME pass'[w] = q
       PROVE  IssueOK(w)'
  <2>1. PICK g : g = q
    OBVIOUS
  <2>2. HandsOK(pass[w])'
    <3>1. HandsOK(g)
      BY <1>17, <2>1
    <3>2. HandsOK(g)'
      BY <1>3, <3>1 DEF HandsOK, ReadOK, HistoryOK
    <3>3. pass'[w] = g
      BY <1>18, <2>1
    <3>4. QED
      BY <3>2, <3>3 DEF HandsOK, ReadOK, HistoryOK
  <2>3. AcknowledgedIssues' = AcknowledgedIssues
    BY <1>3 DEF AcknowledgedIssues
  <2>4. QED
    BY <1>1, <1>14, <1>18, <2>2, <2>3 DEF IssueOK
<1>19. TodoComes
  <2>1. pass'[w] = q /\ \A v \in Workers \ {w} : pass'[v] = pass[v]
    BY <1>1, <1>2 DEF TypeOK
  <2>2. \A i \in DOMAIN q.todo : q.store = store /\ q.todo[i].kind = jobs[q.fence.dev][q.todo[i].job].kind
    BY <1>11, <1>14, <1>15
  <2>3. QED
    BY <2>1, <2>2 DEF TodoComes
<1>20. QED
  BY <1>2, <1>3, <1>18, <1>19, OwnIssueStep

\* a stall found by reading the whole listing is of a job the cursor passed
LEMMA ReadStallIsSound ==
    ASSUME TypeOK, ReleaseInv, NEW p \in Walks, HandsOK(p), p.seen \subseteq AcknowledgedIssues,
           p.fence = Fence, p.store <= store, p.cursor = SeqIn(p.fence.cur, p.store, p.fence.dev),
           p.todo = <<>>, NEW n, NEW c, ReadStall(p) = <<n, c>>, ReadStall(p) # None
    PROVE  StallSound(Stall(p.fence, n, p.store, c), p.seen)
<1> DEFINE r == p.read
           S == BadItems(p) \cup BadRows(p) \cup Uncertified(p)
<1>1. r # None /\ r \in Reads
  BY DEF ReadStall, Walks
<1>2. /\ ReadOK(r) /\ r.store = p.store /\ r.dev = p.fence.dev /\ p.short
      /\ Len(r.jobs) <= p.cursor + Len(p.todo)
  BY <1>1 DEF HandsOK
<1>3. DOMAIN r.jobs = 1..Len(r.jobs) /\ Len(r.jobs) \in Nat /\ p.cursor \in Nat /\ p.fence.dev = row.dev
  BY <1>1, SettlementAssumption DEF Reads, Feeds, Walks, Fence, FenceOf
<1>4. \A i \in S : i \in DOMAIN r.jobs
  BY DEF BadItems, BadRows, Uncertified, FeedOf
<1>5. n \in S
  <2>1. S \subseteq Nat
    BY <1>3, <1>4
  <2>2. \A T \in SUBSET S : T # {} => Min(T) \in T
    BY <2>1, MinIsMember
  <2>3. ReadStall(p)[1] = n
    OBVIOUS
  <2>4. CASE BadItems(p) # {}
    <3>1. n = Min(BadItems(p))
      BY <1>1, <2>3, <2>4 DEF ReadStall
    <3>2. QED
      BY <2>2, <2>4, <3>1
  <2>5. CASE BadItems(p) = {} /\ BadRows(p) # {}
    <3>1. n = Min(BadRows(p))
      BY <1>1, <2>3, <2>5 DEF ReadStall
    <3>2. QED
      BY <2>2, <2>5, <3>1
  <2>6. CASE BadItems(p) = {} /\ BadRows(p) = {}
    <3>1. Uncertified(p) # {} /\ n = Min(Uncertified(p))
      BY <1>1, <2>3, <2>6 DEF ReadStall
    <3>2. QED
      BY <2>2, <3>1
  <2>7. QED
    BY <2>4, <2>5, <2>6
<1> HIDE DEF S
<1>6. n \in DOMAIN r.jobs /\ n <= p.cursor
  <2>1. n \in DOMAIN r.jobs /\ Len(p.todo) = 0
    BY <1>4, <1>5
  <2>2. QED
    BY <1>2, <1>3, <2>1
<1> DEFINE g == Stall(p.fence, n, p.store, c)
<1>7. g.fence = p.fence /\ g.job = n /\ g.store = p.store
  BY DEF Stall
<1> HIDE DEF g
<1>8. At(g) = p.cursor /\ JobKey(g) = Key(p.store, p.fence.dev, n)
  BY <1>7 DEF At, JobKey
<1>9. ASSUME NEW k \in p.seen, k.fence = g.fence, JobKey(k) = JobKey(g)
      PROVE  /\ k.seen.row = "none"
             /\ g.store = store => /\ g.job \in DOMAIN jobs[g.fence.dev]
                                   /\ jobs[g.fence.dev][g.job].row # "none"
  <2>1. k \in AcknowledgedIssues /\ ReleaseOK(k)
    BY <1>9 DEF ReleaseInv
  <2>2. k.store = p.store /\ k.dev = row.dev /\ k.job = n
    BY <1>3, <1>7, <1>8, <1>9, <2>1 DEF ReleaseOK, JobKey, Key
  <2>3. n \notin FeedOf(p)
    BY <2>1, <2>2 DEF FeedOf, AcknowledgedJobs
  <2>4. r.jobs[n].row # "none" /\ exec[Key(p.store, r.dev, n)] # "acknowledged"
    <3>1. n \notin BadItems(p)
      BY <2>3 DEF BadItems
    <3>2. CASE n \in BadRows(p)
      BY <3>2 DEF BadRows
    <3>3. CASE n \in Uncertified(p)
      BY <2>3, <3>3 DEF Uncertified, Decided
    <3>4. QED
      BY <1>5, <3>1, <3>2, <3>3 DEF S
  <2>5. JobKey(k) = Key(p.store, r.dev, n)
    BY <1>2, <1>8, <1>9
  <2>6. k.seen.row = "none"
    BY <2>1, <2>4, <2>5 DEF ReleaseOK
  <2>7. p.store = store => n \in DOMAIN jobs[r.dev] /\ jobs[r.dev][n].row # "none"
    BY <1>1, <1>2, <1>6, <2>4 DEF ReadOK
  <2>8. QED
    BY <1>2, <1>7, <2>6, <2>7
<1>10. ~(g.job > At(g))
  BY <1>3, <1>6, <1>7, <1>8
<1>11. StallSound(g, p.seen)
  BY <1>7, <1>9, <1>10 DEF StallSound
<1>12. QED
  BY <1>11 DEF g

\* so is one found at a carrier, or nobody acknowledged the job it carries
LEMMA CarrierStallIsSound ==
    ASSUME TypeOK, ReleaseInv, NEW p \in Walks, HandsOK(p), p.seen \subseteq AcknowledgedIssues,
           p.fence = Fence, p.store <= store, p.cursor = SeqIn(p.fence.cur, p.store, p.fence.dev),
           ~Spent(p), NEW released, released <=> Paged(p) /\ Carrier(p).job \in AcknowledgedJobs(p.store),
           NEW n, NEW c, CarrierStall(p, Carrier(p), released) = <<n, c>>,
           CarrierStall(p, Carrier(p), released) # None
    PROVE  StallSound(Stall(p.fence, n, p.store, c), p.seen)
<1> DEFINE g == Stall(p.fence, n, p.store, c)
<1>1. ~released /\ n = Carrier(p).job
  BY DEF CarrierStall
<1>2. g.fence = p.fence /\ g.job = n /\ g.store = p.store /\ p.fence.dev = row.dev
  BY DEF Stall, Fence, FenceOf
<1> HIDE DEF g
<1>3. At(g) = p.cursor /\ JobKey(g) = Key(p.store, p.fence.dev, n)
  BY <1>2 DEF At, JobKey
<1>4. ASSUME NEW k \in p.seen, k.fence = g.fence, JobKey(k) = JobKey(g)
      PROVE  /\ k \in AcknowledgedIssues /\ ReleaseOK(k)
             /\ k.store = p.store /\ k.dev = row.dev /\ k.job = n
  <2>1. k \in AcknowledgedIssues /\ ReleaseOK(k)
    BY <1>4 DEF ReleaseInv
  <2>2. QED
    BY <1>2, <1>3, <1>4, <2>1 DEF ReleaseOK, JobKey, Key
<1>5. CASE Paged(p)
  <2>1. n \notin AcknowledgedJobs(p.store)
    BY <1>1, <1>5
  <2>2. ~IsReleased(JobKey(g))
    BY <1>2, <1>3, <2>1 DEF IsReleased, Key, AcknowledgedJobs
  <2>3. \A k \in p.seen : ~(k.fence = g.fence /\ JobKey(k) = JobKey(g))
    BY <1>4, <2>1 DEF AcknowledgedJobs
  <2>4. StallSound(g, p.seen)
    BY <1>2, <2>2, <2>3 DEF StallSound
  <2>5. QED
    BY <2>4 DEF g
<1>6. CASE ~Paged(p)
  <2>1. p.history # {} /\ p.history \subseteq Positions /\ Positions \subseteq Nat
    BY <1>6, SettlementAssumption DEF Paged, Spent, Walks, Positions
  <2>2. n = Min(p.history)
    BY <1>1, <1>6 DEF Carrier
  <2>3. n \in p.history /\ n \in Nat
    BY <2>1, <2>2, MinIsMember
  <2>4. /\ n <= p.cursor /\ p.read # None /\ n \in DOMAIN p.read.jobs /\ p.read.jobs[n].row # "none"
        /\ exec[Key(p.store, p.fence.dev, n)] = "consumed" /\ ReadOK(p.read)
        /\ p.read.store = p.store /\ p.read.dev = p.fence.dev
    BY <2>3 DEF HandsOK, HistoryOK
  <2>5. ~(g.job > At(g))
    BY <1>2, <1>3, <2>3, <2>4, SettlementAssumption DEF Walks
  <2>6. \A k \in p.seen : k.fence = g.fence /\ JobKey(k) = JobKey(g) => k.seen.row = "none"
    BY <1>3, <1>4, <2>4 DEF ReleaseOK
  <2>7. p.store = store => n \in DOMAIN jobs[p.fence.dev] /\ jobs[p.fence.dev][n].row # "none"
    BY <2>4 DEF ReadOK
  <2>8. StallSound(g, p.seen)
    BY <1>2, <2>5, <2>6, <2>7 DEF StallSound
  <2>9. QED
    BY <2>8 DEF g
<1>7. QED
  BY <1>5, <1>6

\* a pass that found a stall knows that it is sound
LEMMA DiagnosingIssues ==
    ASSUME NEW w \in Workers, NEW p, NEW n, NEW c, NEW stall, stall = <<n, c>>,
           pass'[w] = ToDiagnose(p, stall), p.seen \subseteq AcknowledgedIssues,
           StallSound(Stall(p.fence, n, p.store, c), p.seen),
           UNCHANGED <<store, jobs, issues>>, Fence' = Fence
    PROVE  IssueOK(w)'
<1> DEFINE g == Stall(p.fence, n, p.store, c)
<1>1. pass'[w].pc = "diagnose" /\ pass'[w].seen = p.seen /\ pass'[w].stall = g
  BY DEF ToDiagnose
<1> HIDE DEF g
<1>2. AcknowledgedIssues' = AcknowledgedIssues
  BY DEF AcknowledgedIssues
<1>3. PICK h, acknowledged : h = g /\ acknowledged = p.seen
  OBVIOUS
<1>4. StallSound(h, acknowledged)
  BY <1>3 DEF g
<1>5. StallSound(h, acknowledged)'
  BY <1>2, <1>4 DEF StallSound, IsReleased, JobKey, At
<1>6. pass'[w].stall = h /\ pass'[w].seen = acknowledged
  BY <1>1, <1>3
<1>7. StallSound(pass[w].stall, pass[w].seen)'
  BY <1>5, <1>6 DEF StallSound, IsReleased, JobKey, At
<1>8. QED
  BY <1>1, <1>2, <1>7 DEF IssueOK, WalkingPcs

LEMMA PrepareIssues ==
    ASSUME SettlementInv, TypeOK', IssueInv, NEW w \in Workers, Prepare(w)
    PROVE  IssueInv'
<1> DEFINE p == pass[w]
           item == Carrier(p)
           released == Paged(p) /\ item.job \in AcknowledgedJobs(p.store)
           stall == IF Spent(p) THEN ReadStall(p) ELSE CarrierStall(p, item, released)
           ready == [p EXCEPT !.pc = "commit", !.released = released]
<1>1. /\ TypeOK /\ p.pc = "prepare" /\ ReleaseInv /\ HandsOK(p) /\ p.seen \subseteq AcknowledgedIssues
      /\ p.store <= store /\ p.cursor = SeqIn(p.fence.cur, p.store, p.fence.dev)
  BY DEF SettlementInv, PassOK, WalkOK, WalkingPcs, IssueInv, IssueOK, SeeingPcs, Prepare
<1>2. p \in Walks
  BY <1>1, Shapes DEF WalkingPcs
<1>3. UNCHANGED <<store, jobs, row, issues>> /\ Fence' = Fence /\ row'.diag = row.diag /\ DecisionsStay
  BY PrepareKeeps DEF Prepare, Fence
<1>4. AcknowledgedIssues' = AcknowledgedIssues
  BY <1>3 DEF AcknowledgedIssues
<1>5. CASE Fence # p.fence
  <2>1. pass' = [pass EXCEPT ![w] = Idle]
    BY <1>5 DEF Prepare
  <2>2. QED
    BY <1>3, <2>1, EndIssues
<1>6. CASE Fence = p.fence /\ stall # None
  <2>1. pass' = [pass EXCEPT ![w] = ToDiagnose(p, stall)]
    BY <1>6 DEF Prepare
  <2>2. PICK n \in Positions, c \in Classes : stall = <<n, c>>
    BY <1>2, <1>6, ReadStallIsAStall, CarrierHasAJob, CarrierStallIsAStall
  <2>3. StallSound(Stall(p.fence, n, p.store, c), p.seen)
    <3>1. CASE Spent(p)
      <4>1. ReadStall(p) = <<n, c>> /\ ReadStall(p) # None /\ p.todo = <<>>
        BY <1>6, <2>2, <3>1 DEF Spent
      <4>2. QED
        BY <1>1, <1>2, <1>6, <4>1, ReadStallIsSound
    <3>2. CASE ~Spent(p)
      <4>1. CarrierStall(p, Carrier(p), released) = <<n, c>> /\ CarrierStall(p, Carrier(p), released) # None
        BY <1>6, <2>2, <3>2
      <4>2. released <=> Paged(p) /\ Carrier(p).job \in AcknowledgedJobs(p.store)
        OBVIOUS
      <4> HIDE DEF released
      <4>3. QED
        BY <1>1, <1>2, <1>6, <3>2, <4>1, <4>2, CarrierStallIsSound
    <3>3. QED
      BY <3>1, <3>2
  <2>4. PICK q : q = ToDiagnose(p, stall)
    OBVIOUS
  <2>5. q.pc \notin WalkingPcs
    BY <2>4 DEF ToDiagnose, WalkingPcs
  <2> HIDE DEF stall
  <2>6. pass'[w] = q => IssueOK(w)'
    BY <1>1, <1>3, <2>2, <2>3, <2>4, DiagnosingIssues
  <2>7. pass' = [pass EXCEPT ![w] = q]
    BY <2>1, <2>4
  <2>8. QED
    BY <1>3, <2>5, <2>6, <2>7, OwnIssueStep
<1>7. CASE Fence = p.fence /\ stall = None
  <2>1. pass' = [pass EXCEPT ![w] = ready]
    BY <1>7 DEF Prepare
  <2>2. /\ ready.pc = "commit" /\ ready.seen = p.seen /\ ready.read = p.read /\ ready.fence = p.fence
        /\ ready.store = p.store /\ ready.cursor = p.cursor /\ ready.history = p.history
        /\ ready.todo = p.todo /\ ready.short = p.short
    BY <1>2 DEF Walks
  <2> HIDE DEF ready
  <2>3. PICK q : q = ready
    OBVIOUS
  <2>4. HandsOK(q) /\ q \in Walks
    <3>1. ready \in Walks
      <4>1. released \in BOOLEAN
        OBVIOUS
      <4> HIDE DEF released
      <4>2. QED
        BY <1>2, <4>1 DEF Walks, ready
    <3>2. HandsOK(q)
      BY <1>1, <2>2, <2>3 DEF HandsOK, ReadOK, HistoryOK
    <3>3. QED
      BY <2>3, <3>1, <3>2
  <2>5. HandsOK(q)'
    BY <1>1, <1>3, <2>4, FeedsStay, HandsStay
  <2>6. pass' = [pass EXCEPT ![w] = q] /\ pass'[w] = q /\ \A v \in Workers \ {w} : pass'[v] = pass[v]
    BY <1>1, <2>1, <2>3 DEF TypeOK
  <2>7. pass'[w] = q => IssueOK(w)'
    <3>1. HandsOK(pass[w])'
      BY <2>5, <2>6 DEF HandsOK, ReadOK, HistoryOK
    <3>2. QED
      BY <1>1, <1>4, <2>2, <2>3, <2>6, <3>1 DEF IssueOK
  <2>8. TodoComes
    <3>1. \A i \in DOMAIN q.todo : /\ p.pc \in WalkingPcs /\ q.store = p.store /\ q.fence.dev = p.fence.dev
                                   /\ i \in DOMAIN p.todo /\ q.todo[i] = p.todo[i]
      BY <1>1, <2>2, <2>3 DEF WalkingPcs
    <3>2. QED
      BY <2>6, <3>1 DEF TodoComes
  <2>9. QED
    BY <1>3, <2>6, <2>7, <2>8, OwnIssueStep
<1>8. QED
  BY <1>5, <1>6, <1>7

LEMMA CheckIssues ==
    ASSUME SettlementInv, TypeOK', IssueInv, NEW w \in Workers, Check(w)
    PROVE  IssueInv'
<1> DEFINE p == pass[w]
           stall == ReadStall(p)
           clear == [pc |-> "clear", fence |-> p.fence, seen |-> p.seen]
<1>1. /\ TypeOK /\ p.pc = "check" /\ ReleaseInv /\ HandsOK(p) /\ p.seen \subseteq AcknowledgedIssues
      /\ p.store <= store /\ p.cursor = SeqIn(p.fence.cur, p.store, p.fence.dev) /\ p.todo = <<>>
  BY DEF SettlementInv, PassOK, WalkOK, WalkingPcs, IssueInv, IssueOK, SeeingPcs, Check, HandsOK
<1>2. p \in Walks
  BY <1>1, Shapes DEF WalkingPcs
<1>3. UNCHANGED <<store, jobs, row, issues>> /\ Fence' = Fence /\ row'.diag = row.diag /\ DecisionsStay
  BY CheckKeeps DEF Check, Fence
<1>4. AcknowledgedIssues' = AcknowledgedIssues
  BY <1>3 DEF AcknowledgedIssues
<1>5. CASE pass' = [pass EXCEPT ![w] = Idle]
  BY <1>3, <1>5, EndIssues
<1>6. CASE pass' = [pass EXCEPT ![w] = clear]
  <2>1. PICK q : q = clear
    OBVIOUS
  <2>2. q.pc = "clear" /\ q.seen = p.seen /\ pass' = [pass EXCEPT ![w] = q]
    BY <1>6, <2>1
  <2>3. pass'[w] = q => IssueOK(w)'
    BY <1>1, <1>4, <2>2 DEF IssueOK, WalkingPcs
  <2>4. QED
    BY <1>3, <2>2, <2>3, OwnIssueStep DEF WalkingPcs
<1>7. CASE stall # None /\ Fence = p.fence /\ pass' = [pass EXCEPT ![w] = ToDiagnose(p, stall)]
  <2>1. PICK n \in Positions, c \in Classes : stall = <<n, c>>
    BY <1>2, <1>7, ReadStallIsAStall
  <2>2. StallSound(Stall(p.fence, n, p.store, c), p.seen)
    BY <1>1, <1>2, <1>7, <2>1, ReadStallIsSound
  <2>3. PICK q : q = ToDiagnose(p, stall)
    OBVIOUS
  <2>4. q.pc \notin WalkingPcs /\ pass' = [pass EXCEPT ![w] = q]
    BY <1>7, <2>3 DEF ToDiagnose, WalkingPcs
  <2> HIDE DEF stall
  <2>5. pass'[w] = q => IssueOK(w)'
    BY <1>1, <1>3, <2>1, <2>2, <2>3, DiagnosingIssues
  <2>6. QED
    BY <1>3, <2>4, <2>5, OwnIssueStep
<1>8. stall # None => p.read # None
  BY DEF ReadStall
<1>9. QED
  BY <1>5, <1>6, <1>7, <1>8 DEF Check

-----------------------------------------------------------------------------
(* Steps that write a diagnostic or an issue                               *)

\* Writing a diagnostic acknowledges nothing and opens nothing; what it closes as resolved has
\* progressed, and what it leaves open is the stall it wrote.
LEMMA WrittenIssues ==
    ASSUME SettlementInv, NEW r \in Rows, r.diag = row.diag,
           NEW stall \in Stalls \cup {None}, NEW ex, WriteDiagnostic(r, stall, ex)
    PROVE  /\ AcknowledgedIssues' = AcknowledgedIssues
           /\ row'.cur = r.cur /\ row'.dev = r.dev /\ row'.epoch = r.epoch
           /\ \A k \in OpenIssues' : k \in OpenIssues /\ row'.diag # None
           /\ \A k \in DOMAIN issues' : issues'[k] = "resolved" =>
                 \/ k \in DOMAIN issues /\ issues[k] = "resolved"
                 \/ k \in OpenIssues /\ Progressed(k, row', ex)
           /\ \/ row'.diag = None
              \/ stall # None /\ row'.diag = row.diag
              \/ /\ stall # None /\ row'.diag.fence = stall.fence
                 /\ row'.diag.job = stall.job /\ row'.diag.store = stall.store
<1> DEFINE written == [fence |-> stall.fence, job |-> stall.job, store |-> stall.store,
                       cls |-> stall.cls, exit |-> "none"]
           diag == IF Base(r.diag) = stall THEN r.diag
                   ELSE IF stall = None THEN None ELSE written
<1>1. TypeOK /\ OpenIssueIsTheDiagnostic
  BY DEF SettlementInv
<1>2. row' = [r EXCEPT !.diag = diag]
  BY DEF WriteDiagnostic
<1>3. written.fence = stall.fence /\ written.job = stall.job /\ written.store = stall.store
  OBVIOUS
<1> HIDE DEF written
<1>4. Base(r.diag) = None => r.diag = None
  <2>1. ASSUME r.diag # None PROVE Base(r.diag) \in Stalls
    <3>1. r.diag \in Diagnostics
      BY <2>1 DEF Rows
    <3>2. QED
      BY <2>1, <3>1 DEF Base, Stall, Stalls, Diagnostics
  <2>2. QED
    BY <2>1, NoneAssumption
<1>5. \/ diag = None
      \/ stall # None /\ diag = row.diag
      \/ stall # None /\ diag = written
  BY <1>4
<1> HIDE DEF diag
<1>6. row'.cur = r.cur /\ row'.dev = r.dev /\ row'.epoch = r.epoch /\ row'.diag = diag
  BY <1>2 DEF Rows
<1>7. CASE Base(r.diag) = stall
  <2>1. issues' = issues /\ row'.diag = row.diag
    BY <1>6, <1>7 DEF WriteDiagnostic, diag
  <2>2. \A k \in OpenIssues : row.diag # None
    BY <1>1 DEF OpenIssueIsTheDiagnostic
  <2>3. AcknowledgedIssues' = AcknowledgedIssues /\ OpenIssues' = OpenIssues
    BY <2>1 DEF AcknowledgedIssues, OpenIssues
  <2>4. QED
    BY <1>3, <1>5, <1>6, <2>1, <2>2, <2>3
<1>8. CASE Base(r.diag) # stall
  <2>1. issues' = Retired(row', ex)
    BY <1>8 DEF WriteDiagnostic
  <2>2. /\ \A k \in DOMAIN issues' :
              /\ k \in DOMAIN issues
              /\ issues[k] # "open" \/ Current(k, row') \/ Progressed(k, row', ex)
              /\ issues'[k] = IF issues[k] = "open" /\ ~Current(k, row') THEN "resolved" ELSE issues[k]
        /\ \A k \in DOMAIN issues : issues[k] # "open" => k \in DOMAIN issues'
    BY <2>1 DEF Retired
  <2>3. AcknowledgedIssues' = AcknowledgedIssues
    BY <2>2 DEF AcknowledgedIssues
  <2>4. \A k \in OpenIssues' : k \in OpenIssues /\ Current(k, row')
    BY <2>2 DEF OpenIssues
  <2>5. ASSUME NEW k \in DOMAIN issues', issues'[k] = "resolved"
        PROVE  \/ k \in DOMAIN issues /\ issues[k] = "resolved"
               \/ k \in OpenIssues /\ Progressed(k, row', ex)
    BY <2>2, <2>5 DEF OpenIssues
  <2>6. \A k \in OpenIssues' : row'.diag # None
    BY <2>4 DEF Current
  <2>7. QED
    BY <1>3, <1>5, <1>6, <2>3, <2>4, <2>5, <2>6
<1>9. QED
  BY <1>7, <1>8

\* what has progressed under an unchanged cursor is certified, or carried nothing
LEMMA ProgressedInPlace ==
    ASSUME TypeOK, OfferInv, NEW k \in OpenIssues, NEW r, NEW ex, r.cur = row.cur, Progressed(k, r, ex)
    PROVE  k.seen.row = "none" \/ ex[Key(k.store, k.dev, k.job)] \in Decided
<1>1. /\ k \in Revisions /\ RevisionOK(k) /\ row.cur = k.fence.cur
  BY DEF TypeOK, OpenIssues, OfferInv
<1>2. k.job \in Int /\ At(k) \in Int /\ k.dev = k.fence.dev
  BY <1>1, RevisionTyped DEF RevisionOK
<1>3. CASE k.position = "next_feed"
  <2>1. ~(k.job <= At(k))
    BY <1>1, <1>3 DEF RevisionOK
  <2>2. r.cur.store = k.store /\ r.cur.dev = k.dev /\ r.cur.seq >= k.job
    BY <1>3 DEF Progressed
  <2>3. At(k) = r.cur.seq
    BY <1>1, <1>2, <2>2 DEF At, SeqIn
  <2>4. QED
    BY <1>2, <2>1, <2>2, <2>3
<1>4. CASE k.position # "next_feed"
  BY <1>4 DEF Progressed, Decided
<1>5. QED
  BY <1>3, <1>4

\* What one commit writes, and what it leaves its pass with.
LEMMA CommitWrites ==
    ASSUME SettlementInv, NEW w \in Workers, Commit(w), FenceHolds(pass[w])
    PROVE  LET p == pass[w]
               item == Carrier(p)
               k == Key(p.store, row.dev, item.job)
           IN  \E c \in 0..MaxJobs, r \in Rows :
                 /\ r.diag = row.diag /\ r.dev = row.dev /\ r.epoch = row.epoch
                 /\ r.cur = [store |-> p.store, dev |-> row.dev, seq |-> c]
                 /\ c # p.cursor => /\ Paged(p) /\ c = p.cursor + 1 /\ c = item.job
                                    /\ p.released \/ item.kind = "other" \/ exec'[k] = "consumed"
                 /\ IF Paged(p) \/ p.alone THEN WriteDiagnostic(r, None, exec') ELSE UNCHANGED <<row, issues>>
                 /\ \/ pass' = [pass EXCEPT ![w] = Idle]
                    \/ \E q \in Walks :
                         /\ pass' = [pass EXCEPT ![w] = q]
                         /\ q.pc \in {"prepare", "check"} /\ q.store = p.store /\ q.cursor = c
                         /\ q.read = p.read /\ q.seen = p.seen /\ q.short = p.short /\ q.fence = FenceOf(row')
                         /\ IF Paged(p) THEN /\ q.todo = Tail(p.todo) /\ q.history = {} /\ c = p.cursor + 1
                                             /\ q.todo = <<>> => p.short
                                        ELSE q.todo = p.todo /\ q.history \subseteq p.history /\ c = p.cursor
                         /\ q.pc = "check" => q.todo = <<>>
<1> DEFINE p == pass[w]
           item == Carrier(p)
           paged == Paged(p)
           k == Key(p.store, row.dev, item.job)
           ex == IF paged /\ ~p.released /\ p.read # None /\ item.kind = "apply"
                 THEN [exec EXCEPT ![k] = "consumed"] ELSE exec
           passed == paged /\ SettleJob(item, p.released, ex, k)
           cursor == IF passed THEN item.job ELSE p.cursor
           stalled == paged /\ ~passed
           cur == [store |-> p.store, dev |-> row.dev, seq |-> cursor]
           stall == IF stalled THEN item.job ELSE IF passed \/ p.reset THEN 0 ELSE row.stall
           locked == [row EXCEPT !.cur = cur, !.stall = stall]
           rest == IF paged THEN Tail(p.todo) ELSE p.todo
           left == IF paged \/ Spent(p) THEN {} ELSE p.history \ {item.job}
           over == rest = <<>> /\ left = {}
           q == [p EXCEPT !.pc = IF over THEN "check" ELSE "prepare", !.released = FALSE,
                          !.history = left, !.todo = rest, !.cursor = cursor,
                          !.fence = FenceOf(row')]
<1>1. TypeOK /\ WalkOK(w) /\ p.pc = "commit" /\ row \in Rows
  BY DEF SettlementInv, PassOK, Commit, TypeOK
<1>2. p \in Walks
  BY <1>1, Shapes DEF WalkingPcs
<1>3. p.store \in 1..MaxStores /\ p.cursor \in 0..MaxJobs /\ row.dev \in Devices
  BY <1>1, <1>2 DEF Walks, Rows
<1>4. /\ exec' = ex
      /\ IF paged \/ p.alone THEN WriteDiagnostic(locked, None, ex) ELSE UNCHANGED <<row, issues>>
  BY DEF Commit
<1>5. \/ pass' = [pass EXCEPT ![w] = Idle]
      \/ ~stalled /\ ~(over /\ ~p.short) /\ pass' = [pass EXCEPT ![w] = q]
  BY DEF Commit
<1>6. paged => /\ item.job \in Positions /\ item.job = p.cursor + 1
               /\ p.todo \in Seq(Carriers) /\ p.todo # <<>>
  <2>1. ASSUME paged
        PROVE  item.job \in Positions /\ 1 \in DOMAIN p.todo /\ item = p.todo[1]
    BY <1>2, <2>1, CarrierHasAJob DEF Spent, Paged
  <2>2. QED
    BY <1>1, <1>2, <2>1 DEF WalkOK, WalkingPcs, Walks, Paged
<1>7. /\ cursor \in 0..MaxJobs
      /\ passed => cursor = p.cursor + 1 /\ cursor = item.job
      /\ ~passed => cursor = p.cursor
  BY <1>3, <1>6, SettlementAssumption DEF Positions
<1>8. passed => paged /\ (p.released \/ item.kind = "other" \/ exec'[k] = "consumed")
  BY <1>4 DEF SettleJob
<1>9. stall \in 0..MaxJobs
  BY <1>1, <1>6, SettlementAssumption DEF Positions, Rows
<1>10. /\ rest \in Seq(Carriers) /\ left \subseteq p.history /\ p.history \subseteq Positions
       /\ rest = IF paged THEN Tail(p.todo) ELSE p.todo
       /\ paged => left = {}
  <2>1. p.todo \in Seq(Carriers) /\ p.history \subseteq Positions
    BY <1>2 DEF Walks
  <2>2. QED
    BY <1>6, <2>1
<1>11. stalled <=> paged /\ ~passed
  OBVIOUS
<1>12. over => rest = <<>>
  OBVIOUS
<1>13. paged => (over <=> rest = <<>>)
  BY <1>10
<1> HIDE DEF item, paged, k, ex, passed, cursor, stalled, stall, rest, left, over
<1>14. /\ locked \in Rows /\ locked.diag = row.diag /\ locked.dev = row.dev
       /\ locked.epoch = row.epoch /\ locked.cur = cur
  <2>1. cur \in Cursors
    BY <1>3, <1>7 DEF Cursors
  <2> HIDE DEF cur
  <2>2. QED
    BY <1>1, <1>9, <2>1 DEF Rows
<1> HIDE DEF locked
<1>15. row'.dev = row.dev /\ row'.epoch = row.epoch /\ row' \in Rows
  BY <1>1, <1>4, <1>14, DiagnosticIsWritten
<1>16. q \in Walks
  <2>1. FenceOf(row') \in Fences
    BY <1>15 DEF FenceOf, Fences, Rows
  <2>2. left \in SUBSET Positions /\ rest \in Seq(Carriers) /\ cursor \in 0..MaxJobs
    BY <1>7, <1>10
  <2>3. QED
    BY <1>2, <2>1, <2>2 DEF Walks
<1>17. /\ q.pc = (IF over THEN "check" ELSE "prepare") /\ q.store = p.store /\ q.cursor = cursor
       /\ q.read = p.read /\ q.seen = p.seen /\ q.short = p.short /\ q.fence = FenceOf(row')
       /\ q.todo = rest /\ q.history = left
  BY <1>2 DEF Walks
<1> HIDE DEF q, cur
<1>18. \/ pass' = [pass EXCEPT ![w] = Idle]
       \/ \E z \in Walks :
            /\ pass' = [pass EXCEPT ![w] = z]
            /\ z.pc \in {"prepare", "check"} /\ z.store = p.store /\ z.cursor = cursor
            /\ z.read = p.read /\ z.seen = p.seen /\ z.short = p.short /\ z.fence = FenceOf(row')
            /\ IF paged THEN /\ z.todo = Tail(p.todo) /\ z.history = {} /\ cursor = p.cursor + 1
                             /\ z.todo = <<>> => p.short
                        ELSE z.todo = p.todo /\ z.history \subseteq p.history /\ cursor = p.cursor
            /\ z.pc = "check" => z.todo = <<>>
  <2>1. CASE pass' = [pass EXCEPT ![w] = Idle]
    BY <2>1
  <2>2. CASE ~stalled /\ ~(over /\ ~p.short) /\ pass' = [pass EXCEPT ![w] = q]
    <3>1. q.pc \in {"prepare", "check"} /\ (q.pc = "check" => q.todo = <<>>)
      BY <1>12, <1>17
    <3>2. CASE paged
      <4>1. passed /\ (rest = <<>> => p.short)
        BY <1>11, <1>13, <2>2, <3>2
      <4>2. q.todo = Tail(p.todo) /\ q.history = {} /\ cursor = p.cursor + 1 /\ (q.todo = <<>> => p.short)
        BY <1>7, <1>10, <1>17, <3>2, <4>1
      <4>3. QED
        BY <1>16, <1>17, <2>2, <3>1, <3>2, <4>2
    <3>3. CASE ~paged
      <4>1. q.todo = p.todo /\ q.history \subseteq p.history /\ cursor = p.cursor
        BY <1>7, <1>8, <1>10, <1>17, <3>3
      <4>2. QED
        BY <1>16, <1>17, <2>2, <3>1, <3>3, <4>1
    <3>4. QED
      BY <3>2, <3>3
  <2>3. QED
    BY <1>5, <2>1, <2>2
<1>19. cursor # p.cursor => /\ paged /\ cursor = p.cursor + 1 /\ cursor = item.job
                            /\ p.released \/ item.kind = "other" \/ exec'[k] = "consumed"
  BY <1>7, <1>8
<1>20. IF paged \/ p.alone THEN WriteDiagnostic(locked, None, exec') ELSE UNCHANGED <<row, issues>>
  BY <1>4
<1>21. locked.cur = [store |-> p.store, dev |-> row.dev, seq |-> cursor]
  BY <1>14 DEF cur
<1>22. QED
  BY <1>7, <1>14, <1>18, <1>19, <1>20, <1>21 DEF item, paged, k

\* the pass that committed still has in its hands what it had
LEMMA CommitHands ==
    ASSUME TypeOK, FeedsGrow, DecisionsStay, NEW p \in Walks, HandsOK(p), NEW c \in 0..MaxJobs,
           NEW q \in Walks, q.store = p.store, q.cursor = c, q.read = p.read, q.short = p.short,
           q.fence.dev = p.fence.dev,
           IF Paged(p) THEN /\ q.todo = Tail(p.todo) /\ q.history = {} /\ c = p.cursor + 1
                            /\ q.todo = <<>> => p.short
                       ELSE q.todo = p.todo /\ q.history \subseteq p.history /\ c = p.cursor,
           q.pc = "check" => q.todo = <<>>
    PROVE  /\ HandsOK(q)'
           /\ \A i \in DOMAIN q.todo : \E j \in DOMAIN p.todo : q.todo[i] = p.todo[j]
<1>1. CASE Paged(p)
  <2>1. /\ p.todo \in Seq(Carriers) /\ p.todo # <<>> /\ q.todo = Tail(p.todo) /\ q.history = {}
        /\ c = p.cursor + 1 /\ p.cursor \in Nat
    BY <1>1, SettlementAssumption DEF Paged, Walks
  <2>2. /\ Len(q.todo) = Len(p.todo) - 1 /\ Len(p.todo) \in Nat
        /\ \A i \in DOMAIN q.todo : i + 1 \in DOMAIN p.todo /\ q.todo[i] = p.todo[i + 1]
    BY <2>1
  <2>3. c + Len(q.todo) = p.cursor + Len(p.todo)
    BY <2>1, <2>2
  <2>4. HandsOK(q)
    BY <1>1, <2>1, <2>3 DEF HandsOK, HistoryOK
  <2>5. QED
    BY <2>2, <2>4, HandsStay
<1>2. CASE ~Paged(p)
  <2>1. q.todo = p.todo /\ q.history \subseteq p.history /\ c = p.cursor
    BY <1>2
  <2>2. HandsOK(q)
    BY <2>1 DEF HandsOK, HistoryOK
  <2>3. QED
    BY <2>1, <2>2, HandsStay
<1>3. QED
  BY <1>1, <1>2

\* What a commit closes as resolved is settled: the next job of the feed is the one it passed, and
\* nobody had acknowledged that.
LEMMA CommitResolves ==
    ASSUME SettlementInv, IssueInv, NEW w \in Workers, pass[w].pc = "commit", Fence = pass[w].fence,
           NEW c \in 0..MaxJobs, NEW r, r.cur = [store |-> pass[w].store, dev |-> row.dev, seq |-> c],
           c # pass[w].cursor =>
              /\ Paged(pass[w]) /\ c = pass[w].cursor + 1 /\ c = Carrier(pass[w]).job
              /\ \/ pass[w].released \/ Carrier(pass[w]).kind = "other"
                 \/ exec'[Key(pass[w].store, row.dev, Carrier(pass[w]).job)] = "consumed",
           NEW k \in OpenIssues, Progressed(k, r, exec')
    PROVE  k.seen.kind = "other" \/ k.seen.row = "none" \/ exec'[Key(k.store, k.dev, k.job)] \in Decided
<1> DEFINE p == pass[w]
           item == Carrier(p)
<1>1. TypeOK /\ CommitOK(w) /\ p.cursor = SeqIn(p.fence.cur, p.store, p.fence.dev) /\ p \in Walks
  BY Shapes DEF SettlementInv, PassOK, WalkOK, WalkingPcs
<1>2. /\ k \in Revisions /\ RevisionOK(k) /\ row.cur = k.fence.cur
      /\ k.position = "next_feed" => ~IsReleased(JobKey(k))
  BY <1>1 DEF TypeOK, OpenIssues, IssueInv, OfferInv
<1>3. CASE k.position # "next_feed"
  BY <1>3 DEF Progressed, Decided
<1>4. CASE k.position = "next_feed"
  <2>1. k.store = p.store /\ k.dev = row.dev /\ c >= k.job
    BY <1>4 DEF Progressed
  <2>2. row.cur = p.fence.cur /\ row.dev = p.fence.dev /\ k.fence.dev = row.dev
    BY <1>2, <2>1 DEF Fence, FenceOf, RevisionOK
  <2>3. At(k) = p.cursor
    BY <1>1, <1>2, <2>1, <2>2 DEF At
  <2>4. k.job = p.cursor + 1 /\ p.cursor \in Int /\ k.job \in Int
    BY <1>1, <1>2, <1>4, <2>3, RevisionTyped DEF RevisionOK, Walks
  <2>5. c # p.cursor
    BY <2>1, <2>4
  <2>6. /\ Paged(p) /\ k.job = item.job
        /\ p.released \/ item.kind = "other" \/ exec'[Key(p.store, row.dev, item.job)] = "consumed"
    BY <2>4, <2>5
  <2>7. 1 \in DOMAIN p.todo /\ item = p.todo[1] /\ item = Head(p.todo)
    BY <1>1, <2>6, CarrierHasAJob DEF Spent, Paged
  <2>8. JobKey(k) = NextKey(p)
    BY <2>1, <2>2, <2>6, <2>7 DEF JobKey, NextKey
  <2>9. ~p.released
    BY <1>1, <1>2, <1>4, <2>6, <2>8 DEF CommitOK
  <2>10. CASE item.kind = "other"
    <3>1. 1 \in Carried(p, k)
      BY <2>1, <2>2, <2>6, <2>7 DEF Carried
    <3>2. p.todo[1].kind = k.seen.kind
      BY <1>2, <3>1 DEF RevisionOK, WalkingPcs
    <3>3. QED
      BY <2>7, <2>10, <3>2
  <2>11. CASE exec'[Key(p.store, row.dev, item.job)] = "consumed"
    BY <2>1, <2>6, <2>11 DEF Decided
  <2>12. QED
    BY <2>6, <2>9, <2>10, <2>11
<1>5. QED
  BY <1>3, <1>4

LEMMA CommitIssues ==
    ASSUME SettlementInv, TypeOK', IssueInv, NEW w \in Workers, Commit(w)
    PROVE  IssueInv'
<1> DEFINE p == pass[w]
           item == Carrier(p)
           k == Key(p.store, row.dev, item.job)
<1>1. /\ TypeOK /\ p.pc = "commit" /\ HandsOK(p) /\ p.seen \subseteq AcknowledgedIssues
      /\ OfferInv /\ ReleaseInv /\ DiagInv /\ ResolvedIsSettled
  BY DEF SettlementInv, IssueInv, IssueOK, SeeingPcs, WalkingPcs, Commit
<1>2. p \in Walks
  BY <1>1, Shapes DEF WalkingPcs
<1>3. UNCHANGED <<store, jobs>> /\ DecisionsStay /\ Advances
  BY CommitKeeps DEF Commit
<1>4. FeedsGrow
  BY <1>1, <1>3, FeedsStay
<1>5. CASE ~FenceHolds(p)
  <2>1. pass' = [pass EXCEPT ![w] = Idle] /\ UNCHANGED <<row, exec, issues>>
    BY <1>5 DEF Commit
  <2>2. Fence' = Fence /\ row'.diag = row.diag
    BY <2>1 DEF Fence
  <2>3. QED
    BY <1>3, <2>1, <2>2, EndIssues
<1>6. CASE FenceHolds(p)
  <2>1. PICK c \in 0..MaxJobs, r \in Rows :
          /\ r.diag = row.diag /\ r.dev = row.dev /\ r.epoch = row.epoch
          /\ r.cur = [store |-> p.store, dev |-> row.dev, seq |-> c]
          /\ c # p.cursor => /\ Paged(p) /\ c = p.cursor + 1 /\ c = item.job
                             /\ p.released \/ item.kind = "other" \/ exec'[k] = "consumed"
          /\ IF Paged(p) \/ p.alone THEN WriteDiagnostic(r, None, exec') ELSE UNCHANGED <<row, issues>>
          /\ \/ pass' = [pass EXCEPT ![w] = Idle]
             \/ \E q \in Walks :
                  /\ pass' = [pass EXCEPT ![w] = q]
                  /\ q.pc \in {"prepare", "check"} /\ q.store = p.store /\ q.cursor = c
                  /\ q.read = p.read /\ q.seen = p.seen /\ q.short = p.short /\ q.fence = FenceOf(row')
                  /\ IF Paged(p) THEN /\ q.todo = Tail(p.todo) /\ q.history = {} /\ c = p.cursor + 1
                                      /\ q.todo = <<>> => p.short
                                 ELSE q.todo = p.todo /\ q.history \subseteq p.history /\ c = p.cursor
                  /\ q.pc = "check" => q.todo = <<>>
    BY <1>6, CommitWrites
  <2>2. Fence = p.fence
    BY <1>6 DEF FenceHolds
  <2>3. /\ AcknowledgedIssues' = AcknowledgedIssues
        /\ row'.dev = row.dev
    <3>1. CASE Paged(p) \/ p.alone
      BY <2>1, <3>1, WrittenIssues
    <3>2. CASE ~(Paged(p) \/ p.alone)
      BY <2>1, <3>2 DEF AcknowledgedIssues
    <3>3. QED
      BY <3>1, <3>2
  <2>4. \A v \in Workers \ {w} : pass'[v] = pass[v]
    BY <1>1, <2>1 DEF TypeOK
  <2>5. TodoComes /\ (pass'[w] = pass[w] \/ IssueOK(w)')
    <3>1. CASE pass' = [pass EXCEPT ![w] = Idle]
      <4>1. pass'[w] = Idle
        BY <1>1, <3>1 DEF TypeOK
      <4>2. pass'[w].pc \notin WalkingPcs /\ pass'[w].pc \notin SeeingPcs \cup {"record"}
        BY <4>1, Idles DEF WalkingPcs, SeeingPcs
      <4>3. QED
        BY <1>1, <2>4, <4>2, NothingCarried, NothingKnown
    <3>2. ASSUME NEW q \in Walks,
                 pass' = [pass EXCEPT ![w] = q],
                 q.pc \in {"prepare", "check"} /\ q.store = p.store /\ q.cursor = c,
                 q.read = p.read /\ q.seen = p.seen /\ q.short = p.short /\ q.fence = FenceOf(row'),
                 IF Paged(p) THEN /\ q.todo = Tail(p.todo) /\ q.history = {} /\ c = p.cursor + 1
                                  /\ q.todo = <<>> => p.short
                             ELSE q.todo = p.todo /\ q.history \subseteq p.history /\ c = p.cursor,
                 q.pc = "check" => q.todo = <<>>
          PROVE  TodoComes /\ IssueOK(w)'
      <4>1. pass'[w] = q /\ q.fence.dev = p.fence.dev
        BY <1>1, <2>2, <2>3, <3>2 DEF TypeOK, Fence, FenceOf
      <4>2. /\ HandsOK(q)'
            /\ \A i \in DOMAIN q.todo : \E j \in DOMAIN p.todo : q.todo[i] = p.todo[j]
        <5>1. PICK z : z = p
          OBVIOUS
        <5>2. z \in Walks /\ HandsOK(z)
          BY <1>1, <1>2, <5>1
        <5>3. q.store = z.store /\ q.cursor = c /\ q.read = z.read /\ q.short = z.short
              /\ q.fence.dev = z.fence.dev /\ (q.pc = "check" => q.todo = <<>>)
          BY <3>2, <4>1, <5>1
        <5>4. IF Paged(z) THEN /\ q.todo = Tail(z.todo) /\ q.history = {} /\ c = z.cursor + 1
                               /\ q.todo = <<>> => z.short
                          ELSE q.todo = z.todo /\ q.history \subseteq z.history /\ c = z.cursor
          BY <3>2, <5>1
        <5>5. /\ HandsOK(q)'
              /\ \A i \in DOMAIN q.todo : \E j \in DOMAIN z.todo : q.todo[i] = z.todo[j]
          BY <1>1, <1>3, <1>4, <5>2, <5>3, <5>4, CommitHands
        <5>6. QED
          BY <5>1, <5>5
      <4>3. HandsOK(pass[w])'
        BY <4>1, <4>2 DEF HandsOK, ReadOK, HistoryOK
      <4>4. IssueOK(w)'
        BY <1>1, <2>3, <3>2, <4>1, <4>3 DEF IssueOK
      <4>5. TodoComes
        BY <1>1, <2>4, <3>2, <4>1, <4>2 DEF TodoComes, WalkingPcs
      <4>6. QED
        BY <4>4, <4>5
    <3>3. QED
      BY <2>1, <3>1, <3>2
  <2>6. AcksStay /\ ReleasesTakeFences
    BY <2>3 DEF AcksStay, ReleasesTakeFences
  <2>7. Onward
    BY <1>3, <1>4, <2>5, <2>6 DEF Onward
  <2>8. CASE ~(Paged(p) \/ p.alone)
    <3>1. row' = row /\ issues' = issues
      BY <2>1, <2>8
    <3>2. \A v \in Workers : pass'[v] = pass[v] \/ IssueOK(v)'
      BY <2>4, <2>5
    <3>3. QED
      BY <2>7, <3>1, <3>2, QuietStepKeeps
  <2>9. CASE Paged(p) \/ p.alone
    <3>1. /\ row'.cur = r.cur /\ row'.diag = None
          /\ \A j \in OpenIssues' : row'.diag # None
          /\ \A j \in DOMAIN issues' : issues'[j] = "resolved" =>
                \/ j \in DOMAIN issues /\ issues[j] = "resolved"
                \/ j \in OpenIssues /\ Progressed(j, row', exec')
      BY <2>1, <2>9, WrittenIssues
    <3>2. OfferInv' /\ DiagInv'
      BY <3>1 DEF OfferInv, DiagInv
    <3>3. ReleaseInv'
      BY <1>1, <1>3, <2>3, ReleasesStand
    <3>4. ResolvedIsSettled'
      <4>1. ASSUME NEW j \in OpenIssues, Progressed(j, row', exec')
            PROVE  j.seen.kind = "other" \/ j.seen.row = "none" \/ exec'[Key(j.store, j.dev, j.job)] \in Decided
        <5>1. Progressed(j, r, exec')
          BY <3>1, <4>1 DEF Progressed
        <5>2. QED
          BY <1>1, <2>1, <2>2, <5>1, CommitResolves
      <4>2. QED
        BY <1>1, <1>3, <3>1, <4>1, ResolvedStays
    <3>5. \A v \in Workers : IssueOK(v)'
      <4>1. \A v \in Workers : pass'[v] = pass[v] \/ IssueOK(v)'
        BY <2>4, <2>5
      <4>2. QED
        BY <2>7, <4>1, IssueOKStays DEF IssueInv
    <3>6. QED
      BY <3>2, <3>3, <3>4, <3>5 DEF IssueInv
  <2>10. QED
    BY <2>8, <2>9
<1>7. QED
  BY <1>5, <1>6

\* what a step that closes or opens issues must show
LEMMA IssueStepKeeps ==
    ASSUME SettlementInv, TypeOK', IssueInv, Onward, OfferInv', DiagInv', ResolvedIsSettled',
           \A k \in AcknowledgedIssues' \ AcknowledgedIssues : ReleaseOK(k)',
           \A w \in Workers : pass'[w] = pass[w] \/ IssueOK(w)'
    PROVE  IssueInv'
<1>1. ReleaseInv'
  BY ReleasesStand DEF SettlementInv, IssueInv, Onward
<1>2. \A w \in Workers : IssueOK(w)'
  BY IssueOKStays DEF IssueInv
<1>3. QED
  BY <1>1, <1>2 DEF IssueInv

\* A stall is shown for what no operator acknowledged since the pass that found it began.
LEMMA DiagnoseIssues ==
    ASSUME SettlementInv, TypeOK', IssueInv, NEW w \in Workers, Diagnose(w)
    PROVE  IssueInv'
<1> DEFINE p == pass[w]
           publish == [pc |-> "publish"]
<1>1. /\ TypeOK /\ OfferInv /\ DiagInv /\ ResolvedIsSettled /\ p.pc = "diagnose" /\ row \in Rows
      /\ p.seen \subseteq AcknowledgedIssues /\ StallSound(p.stall, p.seen) /\ p.stall.fence = p.fence
  BY DEF SettlementInv, PassOK, StallOK, IssueInv, IssueOK, SeeingPcs, Diagnose, TypeOK
<1>2. p.stall \in Stalls /\ p.stall # None
  BY <1>1, Shapes, NoneAssumption
<1>3. UNCHANGED <<store, jobs, exec>> /\ pass' = [pass EXCEPT ![w] = publish] /\ DecisionsStay
  BY DEF Diagnose, DecisionsStay
<1>4. pass'[w].pc = "publish" /\ \A v \in Workers \ {w} : pass'[v] = pass[v]
  BY <1>1, <1>3 DEF TypeOK
<1> HIDE DEF publish
<1>5. TodoComes /\ IssueOK(w)'
  BY <1>1, <1>4, NothingCarried, NothingKnown DEF WalkingPcs, SeeingPcs
<1>6. CASE ~MayRecord(p)
  <2>1. row' = row /\ issues' = issues
    BY <1>6 DEF Diagnose
  <2>2. AcknowledgedIssues' = AcknowledgedIssues /\ Fence' = Fence
    BY <2>1 DEF AcknowledgedIssues, Fence
  <2>3. Onward
    BY <1>1, <1>3, <1>5, <2>2, FeedsStay DEF Onward, Advances, AcksStay, ReleasesTakeFences
  <2>4. QED
    BY <1>4, <1>5, <2>1, <2>3, QuietStepKeeps
<1>7. CASE MayRecord(p)
  <2>1. WriteDiagnostic(row, p.stall, exec)
    BY <1>7 DEF Diagnose
  <2>2. /\ AcknowledgedIssues' = AcknowledgedIssues
        /\ row'.cur = row.cur /\ row'.dev = row.dev /\ row'.epoch = row.epoch
        /\ \A k \in OpenIssues' : k \in OpenIssues
        /\ \A k \in DOMAIN issues' : issues'[k] = "resolved" =>
              \/ k \in DOMAIN issues /\ issues[k] = "resolved"
              \/ k \in OpenIssues /\ Progressed(k, row', exec)
        /\ \/ row'.diag = None
           \/ row'.diag = row.diag
           \/ /\ row'.diag.fence = p.stall.fence
              /\ row'.diag.job = p.stall.job /\ row'.diag.store = p.stall.store
    BY <1>1, <1>2, <2>1, WrittenIssues
  <2>3. Fence' = Fence
    BY <2>2 DEF Fence, FenceOf
  <2>4. Onward
    BY <1>1, <1>3, <1>5, <2>2, <2>3, FeedsStay DEF Onward, Advances, AcksStay, ReleasesTakeFences
  <2>5. OfferInv'
    BY <1>1, <2>2, <2>4, OffersStand DEF Onward
  <2>6. StallSound(p.stall, AcknowledgedIssues)
    <3>1. \A k \in AcknowledgedIssues : k.fence = p.stall.fence /\ JobKey(k) = JobKey(p.stall) => k \in p.seen
      BY <1>7 DEF MayRecord, ReleasedSince, JobKey, Key
    <3>2. QED
      BY <1>1, <3>1 DEF StallSound
  <2>7. DiagInv'
    <3>1. CASE row'.diag = None
      BY <3>1 DEF DiagInv
    <3>2. CASE row'.diag = row.diag /\ row.diag # None
      BY <1>1, <2>2, <2>4, <3>2, DiagnosticStays DEF Onward
    <3>3. CASE /\ row'.diag.fence = p.stall.fence
               /\ row'.diag.job = p.stall.job /\ row'.diag.store = p.stall.store
      <4>1. PICK g, acknowledged : g = p.stall /\ acknowledged = AcknowledgedIssues
        OBVIOUS
      <4>2. g.fence \in Fences /\ g.store \in Int /\ StallSound(g, acknowledged)
        BY <1>2, <2>6, <4>1 DEF Stalls
      <4>3. StallSound(g, acknowledged)'
        BY <1>1, <2>4, <4>2, StallStays DEF Onward
      <4>4. AcknowledgedIssues' = acknowledged /\ row'.diag.fence = g.fence
            /\ row'.diag.job = g.job /\ row'.diag.store = g.store
        BY <2>2, <3>3, <4>1
      <4>5. StallSound(row.diag, AcknowledgedIssues)'
        BY <4>3, <4>4 DEF StallSound, IsReleased, JobKey, At
      <4>6. QED
        BY <4>5 DEF DiagInv
    <3>4. QED
      BY <2>2, <3>1, <3>2, <3>3
  <2>8. ResolvedIsSettled'
    <3>1. \A k \in OpenIssues : Progressed(k, row', exec) =>
             k.seen.row = "none" \/ exec[Key(k.store, k.dev, k.job)] \in Decided
      BY <1>1, <2>2, ProgressedInPlace
    <3>2. QED
      BY <1>1, <1>3, <2>2, <3>1, ResolvedStays
  <2>9. QED
    BY <1>4, <1>5, <2>2, <2>4, <2>5, <2>7, <2>8, IssueStepKeeps
<1>8. QED
  BY <1>6, <1>7

\* A revision is offered beside the stall it was decided for; nobody acknowledged its job if that
\* is the next of the feed, since that takes the fence.
LEMMA RecordIssues ==
    ASSUME SettlementInv, TypeOK', IssueInv, NEW w \in Workers, Record(w)
    PROVE  IssueInv'
<1> DEFINE p == pass[w]
           still == StillStalled(p)
           now == [row.diag EXCEPT !.exit = p.exit]
<1>1. /\ TypeOK /\ OfferInv /\ DiagInv /\ ResolvedIsSettled /\ p.pc = "record" /\ row \in Rows
      /\ p.stall \in Stalls
      /\ p.revision # None => /\ p.revision \in Revisions /\ RevisionOK(p.revision)
                              /\ p.revision.fence = p.stall.fence /\ p.revision.job = p.stall.job
                              /\ p.revision.store = p.stall.store
  BY Shapes DEF SettlementInv, PassOK, StallOK, IssueInv, IssueOK, Record, TypeOK
<1>2. UNCHANGED <<store, jobs, exec>> /\ pass' = [pass EXCEPT ![w] = Idle] /\ DecisionsStay
  BY DEF Record, DecisionsStay
<1>3. pass'[w] = Idle /\ \A v \in Workers \ {w} : pass'[v] = pass[v]
  BY <1>1, <1>2 DEF TypeOK
<1>4. TodoComes /\ IssueOK(w)'
  <2>1. pass'[w].pc \notin WalkingPcs /\ pass'[w].pc \notin SeeingPcs \cup {"record"}
    BY <1>3, Idles DEF WalkingPcs, SeeingPcs
  <2>2. QED
    BY <1>1, <1>3, <2>1, NothingCarried, NothingKnown
<1>5. still => /\ row.diag # None /\ row.diag \in Diagnostics
               /\ row.diag.fence = p.stall.fence /\ row.diag.job = p.stall.job
               /\ row.diag.store = p.stall.store /\ Fence = p.stall.fence
  <2>1. ASSUME still PROVE row.diag # None
    BY <1>1, <2>1, NoneAssumption DEF StillStalled, Base
  <2>2. row.diag # None => row.diag \in Diagnostics
    BY <1>1 DEF Rows
  <2>3. QED
    BY <2>1, <2>2 DEF StillStalled, Base, Stall
<1>6. /\ row'.dev = row.dev /\ row'.epoch = row.epoch /\ row'.cur = row.cur
      /\ row'.diag # None => /\ row.diag # None /\ row'.diag.fence = row.diag.fence
                             /\ row'.diag.job = row.diag.job /\ row'.diag.store = row.diag.store
  <2>1. CASE still
    <3>1. row' = [row EXCEPT !.diag = now]
      BY <2>1 DEF Record
    <3>2. now.fence = row.diag.fence /\ now.job = row.diag.job /\ now.store = row.diag.store
      BY <1>5, <2>1 DEF Diagnostics
    <3> HIDE DEF now
    <3>3. row'.diag = now /\ row'.dev = row.dev /\ row'.epoch = row.epoch /\ row'.cur = row.cur
      BY <1>1, <3>1 DEF Rows
    <3>4. QED
      BY <1>5, <2>1, <3>2, <3>3
  <2>2. CASE ~still
    BY <2>2 DEF Record
  <2>3. QED
    BY <2>1, <2>2
<1>7. Fence' = Fence
  BY <1>6 DEF Fence, FenceOf
<1>8. \/ issues' = issues
      \/ still /\ p.revision # None /\ issues' = Published(p.revision)
  BY DEF Record
<1> HIDE DEF still, now
<1>9. /\ AcknowledgedIssues' = AcknowledgedIssues
      /\ \A k \in DOMAIN issues' : issues'[k] = "resolved" => k \in DOMAIN issues /\ issues[k] = "resolved"
      /\ \/ OpenIssues' = OpenIssues
         \/ still /\ p.revision # None /\ OpenIssues' \subseteq {p.revision}
  <2>1. CASE issues' = issues
    BY <2>1 DEF AcknowledgedIssues, OpenIssues
  <2>2. CASE still /\ p.revision # None /\ issues' = Published(p.revision)
    <3>1. /\ DOMAIN issues' = (DOMAIN issues \ OpenIssues) \cup {p.revision}
          /\ \A j \in DOMAIN issues' : issues'[j] =
               IF j \in AcknowledgedIssues \/ j # p.revision THEN issues[j] ELSE "open"
      BY <2>2 DEF Published
    <3>2. AcknowledgedIssues' = AcknowledgedIssues
      BY <3>1 DEF AcknowledgedIssues, OpenIssues
    <3>3. \A k \in DOMAIN issues' : issues'[k] = "resolved" => k \in DOMAIN issues /\ issues[k] = "resolved"
      BY <3>1 DEF AcknowledgedIssues
    <3>4. OpenIssues' \subseteq {p.revision}
      BY <3>1 DEF AcknowledgedIssues, OpenIssues
    <3>5. QED
      BY <2>2, <3>2, <3>3, <3>4
  <2>3. QED
    BY <1>8, <2>1, <2>2
<1>10. Onward
  BY <1>1, <1>2, <1>4, <1>7, <1>9, FeedsStay DEF Onward, Advances, AcksStay, ReleasesTakeFences
<1>11. OfferInv'
  <2>1. CASE OpenIssues' = OpenIssues
    BY <1>1, <1>6, <1>9, <1>10, <2>1, OffersStand DEF Onward
  <2>2. CASE still /\ p.revision # None /\ OpenIssues' \subseteq {p.revision}
    <3>1. PICK r : r = p.revision
      OBVIOUS
    <3>2. r \in Revisions /\ RevisionOK(r) /\ r.fence = Fence
          /\ r.fence = row.diag.fence /\ r.job = row.diag.job /\ r.store = row.diag.store
      BY <1>1, <1>5, <2>2, <3>1
    <3>3. RevisionOK(r)'
      BY <1>1, <1>10, <3>2, RevisionStays DEF Onward
    <3>4. row'.cur = r.fence.cur
      BY <1>6, <3>2 DEF Fence, FenceOf
    <3>5. ASSUME r.position = "next_feed" PROVE ~IsReleased(JobKey(r))
      <4>1. JobKey(r) = JobKey(row.diag) /\ At(r) = At(row.diag)
        BY <3>2 DEF JobKey, At
      <4>2. r.job \in Int /\ At(r) \in Int /\ r.fence \in Fences
        BY <3>2, RevisionTyped
      <4>3. row.diag.job > At(row.diag)
        BY <3>2, <3>5, <4>1, <4>2 DEF RevisionOK
      <4>4. ~Ahead(Fence, row.diag.fence)
        BY <3>2, <4>2, AheadIsStrict
      <4>5. StallSound(row.diag, AcknowledgedIssues)
        BY <1>1, <1>5, <2>2 DEF DiagInv
      <4>6. QED
        BY <4>1, <4>3, <4>4, <4>5 DEF StallSound
    <3>6. r.position = "next_feed" => ~IsReleased(JobKey(r))'
      BY <1>9, <3>5 DEF IsReleased, JobKey
    <3>7. \A k \in OpenIssues' : k = r
      BY <2>2, <3>1
    <3>8. QED
      BY <3>3, <3>4, <3>6, <3>7 DEF OfferInv
  <2>3. QED
    BY <1>9, <2>1, <2>2
<1>12. DiagInv'
  <2>1. CASE row'.diag = None
    BY <2>1 DEF DiagInv
  <2>2. CASE row'.diag # None
    BY <1>1, <1>6, <1>9, <1>10, <2>2, DiagnosticStays DEF Onward
  <2>3. QED
    BY <2>1, <2>2
<1>13. ResolvedIsSettled'
  BY <1>1, <1>2, <1>9, ResolvedStays
<1>14. QED
  BY <1>3, <1>4, <1>9, <1>10, <1>11, <1>12, <1>13, IssueStepKeeps

\* An acknowledgement takes its revision off offer and clears the diagnostic it answers; of the
\* next job of the feed it takes the fence as well.
LEMMA AcknowledgeIssues ==
    ASSUME SettlementInv, TypeOK', IssueInv, NEW k \in OpenIssues, Acknowledge(k)
    PROVE  IssueInv'
<1>1. /\ TypeOK /\ row \in Rows /\ OpenIssueIsTheDiagnostic /\ ResolvedIsSettled
      /\ k \in Revisions /\ RevisionOK(k) /\ k \in DOMAIN issues
  BY DEF SettlementInv, TypeOK, IssueInv, OfferInv, OpenIssues
<1>2. k.job \in Int /\ At(k) \in Int /\ JobKey(k) \in Keys /\ k.dev = k.fence.dev
  BY <1>1, RevisionTyped DEF RevisionOK
<1>3. /\ DecisionsStay /\ AcksStay
      /\ IF k.position = "next_feed" THEN Ahead(Fence', Fence) ELSE Fence' = Fence
  BY AcknowledgeKeeps
<1>4. UNCHANGED <<store, jobs, pass>> /\ Fence = k.fence /\ issues' = [issues EXCEPT ![k] = "acknowledged"]
  BY DEF Acknowledge
<1>5. \A j \in DOMAIN issues : issues'[j] = IF j = k THEN "acknowledged" ELSE issues[j]
  BY <1>4
<1>6. /\ AcknowledgedIssues' \ AcknowledgedIssues \subseteq {k} /\ OpenIssues' = {}
      /\ \A j \in DOMAIN issues' : issues'[j] = "resolved" => j \in DOMAIN issues /\ issues[j] = "resolved"
  <2>1. DOMAIN issues' = DOMAIN issues /\ OpenIssues = {k}
    BY <1>1, <1>4 DEF OpenIssueIsTheDiagnostic
  <2>2. QED
    BY <1>5, <2>1 DEF AcknowledgedIssues, OpenIssues
<1>7. k.position = "next_feed" <=> k.job > At(k)
  BY <1>1, <1>2 DEF RevisionOK
<1>8. ReleasesTakeFences
  BY <1>2, <1>3, <1>4, <1>6, <1>7 DEF ReleasesTakeFences, Fence, FenceOf
<1>9. Onward
  <2>1. TodoComes
    BY <1>4 DEF TodoComes
  <2>2. FeedsGrow /\ Advances
    BY <1>1, <1>3, <1>4, FeedsStay DEF Advances
  <2>3. QED
    BY <1>3, <1>8, <2>1, <2>2 DEF Onward
<1>10. ReleaseOK(k)'
  <2>1. k.position = "next_feed" => Ahead(Fence', k.fence)
    BY <1>3, <1>4
  <2>2. k.seen.row # "none" => exec'[JobKey(k)] = "acknowledged"
    <3>1. ASSUME k.seen.row # "none" PROVE exec' = [exec EXCEPT ![JobKey(k)] = "acknowledged"]
      BY <1>2, <3>1 DEF Acknowledge, JobKey
    <3>2. QED
      BY <1>1, <1>2, <3>1 DEF TypeOK
  <2>3. QED
    BY <1>2, <2>1, <2>2 DEF ReleaseOK, JobKey
<1>11. row'.diag = None
  <2>1. Current(k, row)
    BY <1>1, <1>4 DEF OpenIssueIsTheDiagnostic, Current, Fence
  <2>2. QED
    BY <1>1, <2>1 DEF Acknowledge, Rows
<1>12. OfferInv' /\ DiagInv'
  BY <1>6, <1>11 DEF OfferInv, DiagInv
<1>13. ResolvedIsSettled'
  BY <1>1, <1>3, <1>6, ResolvedStays
<1>14. \A j \in AcknowledgedIssues' \ AcknowledgedIssues : ReleaseOK(j)'
  BY <1>6, <1>10
<1>15. \A w \in Workers : pass'[w] = pass[w]
  BY <1>4
<1>16. QED
  BY <1>9, <1>12, <1>13, <1>14, <1>15, IssueStepKeeps

-----------------------------------------------------------------------------
(* The theorems                                                            *)

LEMMA IssuesBegin == Init => IssueInv
<1>1. SUFFICES ASSUME Init PROVE IssueInv
  OBVIOUS
<1>2. /\ DOMAIN issues = {} /\ row.diag = None
      /\ \A w \in Workers : pass[w].pc = "idle"
  <2>1. issues = <<>> /\ row = NewRow /\ pass = [w \in Workers |-> Idle]
    BY <1>1 DEF Init
  <2>2. row.diag = None
    BY <2>1 DEF NewRow
  <2>3. \A w \in Workers : pass[w] = Idle
    BY <2>1
  <2>4. QED
    BY <2>1, <2>2, <2>3, Idles
<1>3. AcknowledgedIssues = {} /\ OpenIssues = {}
  BY <1>2 DEF AcknowledgedIssues, OpenIssues
<1>4. \A w \in Workers : IssueOK(w)
  BY <1>2 DEF IssueOK, WalkingPcs, SeeingPcs
<1>5. QED
  BY <1>2, <1>3, <1>4 DEF IssueInv, OfferInv, ReleaseInv, DiagInv, ResolvedIsSettled

LEMMA IssueStep ==
    ASSUME SettlementInv, TypeOK', IssueInv, [Next]_vars
    PROVE  IssueInv'
<1>1. CASE Adapter
  BY <1>1, AdapterIssues
<1>2. ASSUME NEW w \in Workers, Begin(w) \/ Step(w) \/ Abort(w)
      PROVE  IssueInv'
  <2>1. CASE Begin(w)
    BY <2>1, BeginIssues
  <2>2. CASE ReadEvidence(w)
    BY <2>2, ReadEvidenceIssues
  <2>3. CASE LockPage(w)
    BY <2>3, LockPageIssues
  <2>4. CASE Prepare(w)
    BY <2>4, PrepareIssues
  <2>5. CASE Commit(w)
    BY <2>5, CommitIssues
  <2>6. CASE Check(w)
    BY <2>6, CheckIssues
  <2>7. CASE ClearResume(w)
    BY <2>7, ClearResumeIssues
  <2>8. CASE Diagnose(w)
    BY <2>8, DiagnoseIssues
  <2>9. CASE Publish(w)
    BY <2>9, PublishIssues
  <2>10. CASE Record(w)
    BY <2>10, RecordIssues
  <2>11. CASE Abort(w)
    BY <2>11, AbortIssues
  <2>12. QED
    BY <1>2, <2>1, <2>2, <2>3, <2>4, <2>5, <2>6, <2>7, <2>8, <2>9, <2>10, <2>11 DEF Step
<1>3. ASSUME NEW k \in OpenIssues, Acknowledge(k)
      PROVE  IssueInv'
  BY <1>3, AcknowledgeIssues
<1>4. CASE UNCHANGED vars
  <2>1. TypeOK /\ UNCHANGED <<store, jobs, row, exec, issues, pass>>
    BY <1>4 DEF SettlementInv, vars
  <2>2. AcknowledgedIssues' = AcknowledgedIssues /\ Fence' = Fence
    BY <2>1 DEF AcknowledgedIssues, Fence
  <2>3. Onward
    BY <2>1, <2>2, FeedsStay
       DEF Onward, Advances, AcksStay, DecisionsStay, ReleasesTakeFences, TodoComes
  <2>4. QED
    BY <2>1, <2>3, QuietStepKeeps
<1>5. QED
  BY <1>1, <1>2, <1>3, <1>4 DEF Next

\* What passes, stalls, offers and acknowledgements know of each other is an invariant of every
\* behaviour of settlement.
THEOREM IssuesInvariant == Spec => []IssueInv
<1>1. Init => IssueInv
  BY IssuesBegin
<1>2. SettlementInv /\ SettlementInv' /\ IssueInv /\ [Next]_vars => IssueInv'
  BY IssueStep DEF SettlementInv
<1>3. QED
  BY <1>1, <1>2, SettlementInvariant, PTL DEF Spec

\* An issue closed as "resolved" is settled: its job is certified or acknowledged, or carried nothing.
THEOREM ResolvedIssuesAreSettled == Spec => []ResolvedIsSettled
<1>1. IssueInv => ResolvedIsSettled
  BY DEF IssueInv
<1>2. QED
  BY <1>1, IssuesInvariant, PTL

\* A stall shown under the fence that holds is one nobody acknowledged, or of a generation that
\* surfaced after its feed item was acknowledged.
THEOREM ReleasedStallsStayHidden == Spec => []ReleasedStallIsNotShown
<1>1. IssueInv => ReleasedStallIsNotShown
  <2>1. SUFFICES ASSUME IssueInv, row.diag # None, row.diag.fence = Fence, NEW k \in AcknowledgedIssues,
                        k.store = row.diag.store, k.job = row.diag.job, k.fence = Fence
                 PROVE  /\ k.seen.row = "none"
                        /\ row.diag.store = store => jobs[row.dev][row.diag.job].row # "none"
    BY DEF ReleasedStallIsNotShown
  <2>2. JobKey(k) = JobKey(row.diag) /\ k.fence = row.diag.fence /\ row.diag.fence.dev = row.dev
    BY <2>1 DEF JobKey, Fence, FenceOf
  <2>3. StallSound(row.diag, AcknowledgedIssues)
    BY <2>1 DEF IssueInv, DiagInv
  <2>4. QED
    BY <2>2, <2>3 DEF StallSound
<1>2. QED
  BY <1>1, IssuesInvariant, PTL

=============================================================================
