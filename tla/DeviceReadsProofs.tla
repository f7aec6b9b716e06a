--------------------------- MODULE DeviceReadsProofs ---------------------------
(***************************************************************************)
(* Proofs about DeviceReads, for any families, workers, stores, reports    *)
(* and bounds, and for any mixture of events: what a family may show, that *)
(* overlays never go back, which stores are adopted, and what a read may   *)
(* do to an owned row.                                                     *)
(***************************************************************************)
EXTENDS DeviceReads, WellFoundedInduction, TLAPS

-----------------------------------------------------------------------------
(* The inductive invariant                                                 *)

\* x names a read of the link, store and source that the management row stands for
InEpoch(m, x) == x.link = m.link /\ x.inc = m.inc /\ x.source = m.source

\* x names a read from before it came to stand for them
Passed(m, x) ==
    \/ x.link < m.link
    \/ x.link = m.link /\ BornOf(x.inc) < BornOf(m.inc)
    \/ x.link = m.link /\ x.inc = m.inc /\ x.source < m.source

\* the admission of a row is current, and its applied identity if nothing was admitted since
RowOK(m, r) ==
    /\ r.admitted = Nothing \/ InEpoch(m, r.admitted)
    /\ r.admitted.att <= r.att
    /\ r.auth => r.att > 0
    /\ r.appliedSeq <= r.seq
    /\ r.appliedSeq = r.seq => r.applied = r.admitted

\* the overlays were written from what the row says it applied, and from nothing newer
MirrorOK(m, r, x) ==
    /\ r.appliedSeq = r.seq /\ r.admitted # Nothing => x = r.admitted
    /\ x = Nothing \/ Passed(m, x) \/ (InEpoch(m, x) /\ x.att <= r.admitted.att)

FamilyOK(m, rs, x, f) ==
    IF rs[f] = None THEN x[f] = Nothing ELSE RowOK(m, rs[f]) /\ MirrorOK(m, rs[f], x[f])

SourceInv(m) == ~m.aware => m.source = 0

Marked(m) == m.rekey \/ m.pend # 0 \/ m.pendSource # 0
BlankInv(g) ==
    /\ \A f \in g.blanked : g.rows[f] # None /\ ~g.rows[f].seen
    /\ g.blanked # {} => Marked(g.mgmt)

GateInv(g, x) ==
    /\ SourceInv(g.mgmt) /\ BlankInv(g)
    /\ \A f \in Families : FamilyOK(g.mgmt, g.rows, x, f)

\* every store noticed is refused, is the pending one, or is older than that
NoticeInv(m, ns) ==
    /\ m.inc # 0 => m.inc \in ns
    /\ m.pend # 0 => m.pend \in ns
    /\ m.conflict <= BornOf(m.inc) \/ m.conflict <= BornOf(m.pend)
    /\ \A j \in ns : \/ Born[j] <= BornOf(m.inc) \/ Born[j] <= m.conflict
                     \/ j = m.pend \/ Born[j] < BornOf(m.pend)

\* between the two transactions of a rekey nothing is admitted
RekeyInv ==
    rekey # None =>
        /\ mgmt.rekey
        /\ \A f \in Families : mirror[f] = Nothing /\ (rows[f] # None => rows[f].admitted = Nothing)

\* a plan was made for a row that exists, and wants "in_sync" of a settled or accepted row only
PlanOK(p, rs) ==
    /\ p.pc \in {"plan", "token", "publish", "mark"} => rs[p.doc.family] # None
    /\ p.pc \in {"token", "publish", "mark"} /\ p.doc.family = OwnerFamily =>
         /\ p.from \in Statuses /\ p.plan \in Statuses
         /\ p.plan = "in_sync" => p.from \in {"accepted", "in_sync"}

\* the documents of one page load
TabInv == tab # None => \A f \in Families : tab[f].family = f /\ tab[f].link = tab[OwnerFamily].link

ReadsInv ==
    /\ TypeOK /\ GateInv(Device, mirror) /\ NoticeInv(mgmt, noticed) /\ RekeyInv
    /\ \A w \in Workers : PlanOK(worker[w], rows)
    /\ TabInv /\ InSyncWasSettled

-----------------------------------------------------------------------------
(* What the gate works on                                                  *)

Rows == [Families -> ReadStates \cup {None}]
TabGates ==
    [mgmt : Managements, rows : Rows, blanked : SUBSET Families, fenced : BOOLEAN, wrote : BOOLEAN]
Gates == [mgmt : Managements, rows : Rows, blanked : SUBSET Families] \cup TabGates

LEMMA Constants ==
    /\ Len(Born) \in Nat \ {0} /\ MaxSource \in Nat \ {0} /\ NFamilies \in Nat \ {0}
    /\ Incarnations \subseteq Nat \ {0} /\ Incarnations \subseteq 0..Len(Born)
    /\ \A i \in Incarnations : Born[i] \in Nat \ {0} /\ BornOf(i) = Born[i]
    /\ \A i \in 0..Len(Born) : BornOf(i) \in Nat /\ (i # 0 => i \in Incarnations)
    /\ BornOf(0) = 0 /\ OwnerFamily \in Families /\ 0 \in 0..Len(Born) /\ 0 \in 0..MaxSource
<1>1. Born \in Seq(Nat \ {0}) /\ Len(Born) > 0
  BY BornAssumption
<1>2. Len(Born) \in Nat /\ \A i \in 1..Len(Born) : Born[i] \in Nat \ {0}
  BY <1>1
<1>3. MaxSource \in Nat \ {0} /\ NFamilies \in Nat \ {0}
  BY BoundsAssumption, FamiliesAssumption
<1>4. QED
  BY <1>1, <1>2, <1>3 DEF Incarnations, BornOf, OwnerFamily, Families

LEMMA NothingType == Nothing \in Identities /\ Nothing.link = 0 /\ Nothing.att = 0
  BY Constants DEF Nothing, Identity, Identities

LEMMA BlankRowType ==
    /\ BlankRow \in ReadStates /\ BlankRow.admitted = Nothing /\ BlankRow.applied = Nothing
    /\ ~BlankRow.seen /\ BlankRow.att = 0 /\ ~BlankRow.auth /\ BlankRow.appliedSeq = 0 /\ BlankRow.seq = 0
  BY NothingType, Constants DEF BlankRow, ReadStates

LEMMA GateType ==
    ASSUME NEW g \in Gates
    PROVE  /\ g.mgmt \in Managements /\ g.rows \in Rows /\ g.blanked \subseteq Families
           /\ \A f \in Families : g.rows[f] = None \/ g.rows[f] \in ReadStates
BY DEF Gates, TabGates, Rows

LEMMA DeviceType ==
    ASSUME TypeOK
    PROVE  /\ Device \in Gates /\ Device.mgmt = mgmt /\ Device.rows = rows /\ Device.blanked = blanked
           /\ Device \in [mgmt : Managements, rows : Rows, blanked : SUBSET Families]
BY DEF TypeOK, Device, Gates, Rows

\* what the gate rewrites keeps its shape
LEMMA GateOf ==
    ASSUME NEW g \in Gates, NEW m \in Managements, NEW rs \in Rows, NEW b \in SUBSET Families
    PROVE  /\ [g EXCEPT !.mgmt = m] \in Gates
           /\ [g EXCEPT !.rows = rs] \in Gates
           /\ [g EXCEPT !.blanked = b] \in Gates
BY DEF Gates, TabGates

-----------------------------------------------------------------------------
(* Epochs                                                                  *)

\* the management row of n stands for a later link, store or source than that of m
Later(n, m) ==
    \/ n.link > m.link
    \/ n.link = m.link /\ BornOf(n.inc) > BornOf(m.inc)
    \/ n.link = m.link /\ n.inc = m.inc /\ n.source > m.source

LEMMA EpochPasses ==
    ASSUME NEW m \in Managements, NEW n \in Managements, NEW x \in Identities, Later(n, m),
           Passed(m, x) \/ InEpoch(m, x)
    PROVE  Passed(n, x)
<1>1. /\ m.link \in Nat /\ m.source \in Nat /\ m.inc \in 0..Len(Born)
      /\ n.link \in Nat /\ n.source \in Nat /\ n.inc \in 0..Len(Born)
  BY DEF Managements
<1>2. x.link \in Nat /\ x.source \in Nat /\ x.inc \in 0..Len(Born)
  BY DEF Identities
<1>3. \A i \in 0..Len(Born) : BornOf(i) \in Nat
  BY Constants
<1>4. BornOf(m.inc) \in Nat /\ BornOf(n.inc) \in Nat /\ BornOf(x.inc) \in Nat
  BY <1>1, <1>2, <1>3
<1>5. QED
  BY SMTT(20), <1>1, <1>2, <1>4 DEF Later, Passed, InEpoch

\* rows that are blanked when the epoch moves on
LEMMA ResetKeeps ==
    ASSUME NEW g \in Gates, NEW x \in [Families -> Identities], NEW n \in Managements, Later(n, g.mgmt),
           \A f \in Families : FamilyOK(g.mgmt, g.rows, x, f)
    PROVE  /\ Reset(g.rows) \in Rows /\ Kept(Reset(g.rows)) = Kept(g.rows)
           /\ \A f \in Families : Reset(g.rows)[f] # None =>
                ~Reset(g.rows)[f].seen /\ Reset(g.rows)[f].admitted = Nothing
           /\ \A f \in Families : FamilyOK(n, Reset(g.rows), x, f)
<1>1. /\ g.mgmt \in Managements /\ g.rows \in Rows
      /\ \A f \in Families : g.rows[f] = None \/ g.rows[f] \in ReadStates
  BY GateType
<1>2. ASSUME NEW f \in Families
      PROVE  /\ Reset(g.rows)[f] \in ReadStates \cup {None}
             /\ Reset(g.rows)[f] = None <=> g.rows[f] = None
             /\ Reset(g.rows)[f] # None => ~Reset(g.rows)[f].seen /\ Reset(g.rows)[f].admitted = Nothing
             /\ FamilyOK(n, Reset(g.rows), x, f)
  <2>1. CASE g.rows[f] = None
    BY <1>2, <2>1 DEF FamilyOK, Reset
  <2>2. CASE g.rows[f] # None
    <3> DEFINE r == [BlankRow EXCEPT !.seq = g.rows[f].seq + 1]
    <3>1. g.rows[f] \in ReadStates /\ g.rows[f].seq \in Nat
      BY <1>1, <2>2 DEF ReadStates
    <3>2. /\ r \in ReadStates /\ r.admitted = Nothing /\ ~r.seen /\ r.att = 0 /\ ~r.auth
          /\ r.appliedSeq = 0 /\ r.seq = g.rows[f].seq + 1
      BY SMTT(20), <3>1, BlankRowType DEF ReadStates
    <3>3. Reset(g.rows)[f] = r /\ r # None
      BY <2>2, <3>2, NoneAssumption DEF Reset
    <3> HIDE DEF r
    <3>4. RowOK(n, r)
      BY <3>1, <3>2, NothingType DEF RowOK
    <3>5. x[f] = Nothing \/ Passed(n, x[f])
      <4>1. x[f] \in Identities /\ (x[f] = Nothing \/ Passed(g.mgmt, x[f]) \/ InEpoch(g.mgmt, x[f]))
        BY <2>2 DEF FamilyOK, MirrorOK
      <4>2. QED
        BY <1>1, <4>1, EpochPasses
    <3>6. MirrorOK(n, r, x[f])
      BY <3>1, <3>2, <3>5 DEF MirrorOK
    <3>7. QED
      BY <2>2, <3>2, <3>3, <3>4, <3>6 DEF FamilyOK
  <2>3. QED
    BY <2>1, <2>2
<1>3. Reset(g.rows) \in Rows
  <2>1. Reset(g.rows) = [f \in Families |-> Reset(g.rows)[f]]
    BY DEF Reset
  <2>2. QED
    BY <1>2, <2>1 DEF Rows
<1>4. Kept(Reset(g.rows)) = Kept(g.rows)
  BY <1>2 DEF Kept
<1>5. QED
  BY <1>2, <1>3, <1>4

\* markers may change under one epoch as long as blank rows stay marked
LEMMA MarkersKeep ==
    ASSUME NEW g \in Gates, NEW h \in Gates, NEW x \in [Families -> Identities], GateInv(g, x),
           h.rows = g.rows, h.blanked = g.blanked, h.mgmt.link = g.mgmt.link, h.mgmt.inc = g.mgmt.inc,
           h.mgmt.source = g.mgmt.source, SourceInv(h.mgmt), h.blanked # {} => Marked(h.mgmt)
    PROVE  GateInv(h, x)
BY DEF GateInv, BlankInv, FamilyOK, RowOK, MirrorOK, InEpoch, Passed

-----------------------------------------------------------------------------
(* The gate's operators                                                    *)

\* a family's row comes to be, blank and never reset
LEMMA LockedRowKeeps ==
    ASSUME NEW g \in Gates, NEW x \in [Families -> Identities], NEW f \in Families, GateInv(g, x),
           NEW h, h = [g EXCEPT !.rows = LockedRow(g.rows, f)]
    PROVE  /\ h \in Gates /\ GateInv(h, x) /\ h.rows[f] # None /\ Kept(g.rows) \subseteq Kept(h.rows)
           /\ h.mgmt = g.mgmt /\ h.blanked = g.blanked /\ h.rows = LockedRow(g.rows, f)
           /\ g \in TabGates => h \in TabGates
<1> DEFINE rs == LockedRow(g.rows, f)
<1>1. /\ g.mgmt \in Managements /\ g.rows \in Rows /\ g.blanked \subseteq Families
      /\ \A e \in Families : g.rows[e] = None \/ g.rows[e] \in ReadStates
  BY GateType
<1>2. BlankRow # None /\ BlankRow \in ReadStates
  BY BlankRowType, NoneAssumption
<1>3. /\ rs \in Rows /\ rs[f] # None
      /\ \A e \in Families : rs[e] = IF e = f /\ g.rows[f] = None THEN BlankRow ELSE g.rows[e]
  BY <1>1, <1>2 DEF LockedRow, Rows
<1> HIDE DEF rs
<1>4. h = [g EXCEPT !.rows = rs] /\ h \in Gates
  BY <1>1, <1>3, GateOf DEF rs
<1>5. /\ h.mgmt = g.mgmt /\ h.blanked = g.blanked /\ h.rows = rs
      /\ g \in TabGates => h \in TabGates
  BY <1>3, <1>4 DEF Gates, TabGates
<1>6. Kept(g.rows) \subseteq Kept(h.rows)
  BY <1>2, <1>3, <1>5 DEF Kept
<1>7. ASSUME NEW e \in Families
      PROVE  FamilyOK(h.mgmt, h.rows, x, e)
  <2>1. FamilyOK(g.mgmt, g.rows, x, e)
    BY DEF GateInv
  <2>2. CASE e = f /\ g.rows[f] = None
    <3>1. rs[e] = BlankRow /\ x[e] = Nothing
      BY <1>3, <2>1, <2>2 DEF FamilyOK
    <3>2. RowOK(g.mgmt, BlankRow) /\ MirrorOK(g.mgmt, BlankRow, Nothing)
      BY BlankRowType, NothingType DEF RowOK, MirrorOK
    <3>3. QED
      BY <1>2, <1>5, <3>1, <3>2 DEF FamilyOK
  <2>3. CASE ~(e = f /\ g.rows[f] = None)
    BY <1>3, <1>5, <2>1, <2>3 DEF FamilyOK
  <2>4. QED
    BY <2>2, <2>3
<1>8. BlankInv(h)
  BY <1>1, <1>3, <1>5 DEF GateInv, BlankInv
<1>9. QED
  BY <1>3, <1>4, <1>5, <1>6, <1>7, <1>8 DEF GateInv, rs

\* an observation
LEMMA AdvanceObservedKeeps ==
    ASSUME NEW g \in Gates, NEW x \in [Families -> Identities], NEW d \in Documents,
           g.rows[d.family] # None, GateInv(g, x), NEW h, h = AdvanceObserved(g, d)
    PROVE  /\ h \in Gates /\ GateInv(h, x) /\ Kept(h.rows) = Kept(g.rows) /\ h.mgmt = g.mgmt
           /\ h.rows[d.family].admitted = g.rows[d.family].admitted
           /\ h.rows[d.family].att >= d.att
           /\ g \in TabGates => h \in TabGates
<1> DEFINE f == d.family
           r == g.rows[f]
           s == [r EXCEPT !.seen = TRUE, !.att = d.att, !.auth = d.auth, !.inc = d.inc]
           rs == [g.rows EXCEPT ![f] = s]
<1>1. /\ g.mgmt \in Managements /\ g.rows \in Rows /\ g.blanked \subseteq Families
      /\ f \in Families /\ r \in ReadStates
      /\ d.att \in Nat /\ d.auth \in BOOLEAN /\ d.inc \in 0..Len(Born) /\ (d.auth => d.att > 0)
  BY GateType, Constants DEF Documents
<1>2. CASE Regresses(g, d)
  <2>1. h = g /\ r.att >= d.att
    BY <1>1, <1>2 DEF AdvanceObserved, Regresses, ReadStates
  <2>2. QED
    BY <2>1
<1>3. CASE ~Regresses(g, d)
  <2>1. d.att >= r.att /\ r.att \in Nat
    BY <1>1, <1>3 DEF Regresses, ReadStates
  <2>2. /\ s \in ReadStates /\ s.seen /\ s.att = d.att /\ s.auth = d.auth /\ s.admitted = r.admitted
        /\ s.applied = r.applied /\ s.appliedSeq = r.appliedSeq /\ s.seq = r.seq
    BY <1>1 DEF ReadStates
  <2>3. s # None
    BY <2>2, NoneAssumption
  <2>4. h = [g EXCEPT !.rows = rs, !.blanked = g.blanked \ {f}]
    <3>1. h = [g EXCEPT !.rows[f] = s, !.blanked = @ \ {f}]
      BY <1>3 DEF AdvanceObserved
    <3> HIDE DEF s
    <3>2. QED
      BY <3>1
  <2> HIDE DEF s
  <2>5. rs \in Rows /\ \A e \in Families : rs[e] = IF e = f THEN s ELSE g.rows[e]
    BY <1>1, <2>2 DEF Rows
  <2> HIDE DEF rs
  <2>6. /\ h \in Gates /\ h.mgmt = g.mgmt /\ h.rows = rs /\ h.blanked = g.blanked \ {f}
        /\ g \in TabGates => h \in TabGates
    BY <1>1, <2>4, <2>5 DEF Gates, TabGates
  <2>7. Kept(h.rows) = Kept(g.rows)
    BY <2>3, <2>5, <2>6 DEF Kept
  <2>8. ASSUME NEW e \in Families
        PROVE  FamilyOK(h.mgmt, h.rows, x, e)
    <3>1. FamilyOK(g.mgmt, g.rows, x, e)
      BY DEF GateInv
    <3>2. CASE e = f
      <4>1. RowOK(g.mgmt, r) /\ MirrorOK(g.mgmt, r, x[e])
        BY <3>1, <3>2 DEF FamilyOK
      <4>2. r.admitted.att \in Nat
        BY <1>1 DEF ReadStates, Identities
      <4>3. RowOK(g.mgmt, s)
        BY <1>1, <2>1, <2>2, <4>1, <4>2 DEF RowOK
      <4>4. MirrorOK(g.mgmt, s, x[e])
        BY <2>2, <4>1 DEF MirrorOK
      <4>5. QED
        BY <2>3, <2>5, <2>6, <3>2, <4>3, <4>4 DEF FamilyOK
    <3>3. CASE e # f
      BY <2>5, <2>6, <3>1, <3>3 DEF FamilyOK
    <3>4. QED
      BY <3>2, <3>3
  <2>9. BlankInv(h)
    BY <1>1, <2>5, <2>6 DEF GateInv, BlankInv
  <2>10. h.rows[f] = s
    BY <1>1, <2>5, <2>6
  <2>11. QED
    BY <1>1, <2>2, <2>6, <2>7, <2>8, <2>9, <2>10 DEF GateInv
<1>4. QED
  BY <1>2, <1>3

\* an admission
LEMMA AdmitKeeps ==
    ASSUME NEW g \in Gates, NEW x \in [Families -> Identities], NEW d \in Documents,
           g.rows[d.family] # None, GateInv(g, x), InEpoch(g.mgmt, Payload(d)),
           ~(d.att < g.rows[d.family].admitted.att), NEW h, h = Admit(g, d)
    PROVE  /\ h \in Gates /\ GateInv(h, x) /\ Kept(h.rows) = Kept(g.rows) /\ h.mgmt = g.mgmt
           /\ h.rows[d.family].seq \in Nat
<1> DEFINE o == AdvanceObserved(g, d)
           f == d.family
           r == o.rows[f]
           s == [r EXCEPT !.admitted = Payload(d), !.seq = r.seq + 1]
           rs == [o.rows EXCEPT ![f] = s]
<1>1. /\ o \in Gates /\ GateInv(o, x) /\ Kept(o.rows) = Kept(g.rows) /\ o.mgmt = g.mgmt
      /\ r.admitted = g.rows[f].admitted /\ r.att >= d.att
  BY AdvanceObservedKeeps
<1>2. h = [o EXCEPT !.rows[f] = s]
  BY DEF Admit
<1>3. Payload(d) \in Identities /\ Payload(d).att = d.att /\ d.att \in Nat /\ f \in Families
  BY Constants DEF Payload, Identity, Identities, Documents
<1> HIDE DEF o
<1>4. r # None /\ r \in ReadStates /\ o.mgmt \in Managements /\ o.rows \in Rows /\ o.blanked \subseteq Families
  <2>1. f \in Kept(g.rows)
    BY <1>3 DEF Kept
  <2>2. r # None
    BY <1>1, <2>1 DEF Kept
  <2>3. QED
    BY <1>1, <1>3, <2>2, GateType
<1>5. /\ s \in ReadStates /\ s.admitted = Payload(d) /\ s.seq = r.seq + 1 /\ s.att = r.att /\ s.auth = r.auth
      /\ s.appliedSeq = r.appliedSeq /\ s.applied = r.applied /\ s.seen = r.seen /\ r.seq \in Nat
  <2>1. r.seq \in Nat /\ r.seq + 1 \in Nat
    BY <1>4 DEF ReadStates
  <2> DEFINE p == Payload(d)
             n == r.seq + 1
  <2>2. s = [r EXCEPT !.admitted = p, !.seq = n] /\ p \in Identities /\ n \in Nat
    BY <1>3, <2>1
  <2> HIDE DEF r, s, p, n
  <2>3. /\ s \in ReadStates /\ s.admitted = p /\ s.seq = n /\ s.att = r.att /\ s.auth = r.auth
        /\ s.appliedSeq = r.appliedSeq /\ s.applied = r.applied /\ s.seen = r.seen
    BY <1>4, <2>2 DEF ReadStates
  <2>4. QED
    BY <2>1, <2>3 DEF p, n
<1>6. h = [o EXCEPT !.rows = rs]
  BY <1>2
<1>7. s # None
  BY <1>5, NoneAssumption
<1> HIDE DEF s
<1>8. rs \in Rows /\ \A e \in Families : rs[e] = IF e = f THEN s ELSE o.rows[e]
  BY <1>4, <1>5 DEF Rows
<1> HIDE DEF rs
<1>9. h \in Gates /\ h.mgmt = g.mgmt /\ h.rows = rs /\ h.blanked = o.blanked
  BY <1>1, <1>4, <1>6, <1>8 DEF Gates, TabGates
<1>10. Kept(h.rows) = Kept(g.rows)
  BY <1>1, <1>3, <1>4, <1>7, <1>8, <1>9 DEF Kept
<1>11. ASSUME NEW e \in Families
       PROVE  FamilyOK(h.mgmt, h.rows, x, e)
  <2>1. FamilyOK(o.mgmt, o.rows, x, e)
    BY <1>1 DEF GateInv
  <2>2. CASE e = f
    <3>1. RowOK(g.mgmt, r) /\ MirrorOK(g.mgmt, r, x[e])
      BY <1>1, <1>4, <2>1, <2>2 DEF FamilyOK
    <3>2. r.appliedSeq \in Nat /\ r.admitted.att \in Nat /\ r.admitted.att <= d.att /\ r.att \in Nat
      <4>1. r.appliedSeq \in Nat /\ r.admitted \in Identities /\ r.att \in Nat
        BY <1>4 DEF ReadStates
      <4>2. r.admitted.att \in Nat
        BY <4>1 DEF Identities
      <4>3. QED
        BY <1>1, <1>3, <4>1, <4>2
    <3>3. RowOK(g.mgmt, s)
      BY <1>1, <1>3, <1>5, <3>1, <3>2 DEF RowOK
    <3>4. x[e].att \in Nat
      BY DEF Identities
    <3>5. MirrorOK(g.mgmt, s, x[e])
      BY <1>3, <1>5, <3>1, <3>2, <3>4 DEF MirrorOK, RowOK
    <3>6. QED
      BY <1>7, <1>8, <1>9, <2>2, <3>3, <3>5 DEF FamilyOK
  <2>3. CASE e # f
    BY <1>1, <1>8, <1>9, <2>1, <2>3 DEF FamilyOK
  <2>4. QED
    BY <2>2, <2>3
<1>12. BlankInv(h)
  BY <1>1, <1>4, <1>5, <1>7, <1>8, <1>9 DEF GateInv, BlankInv
<1>13. SourceInv(h.mgmt)
  BY <1>1, <1>9 DEF GateInv
<1>14. QED
  BY <1>3, <1>5, <1>8, <1>9, <1>10, <1>11, <1>12, <1>13 DEF GateInv

\* the epoch moves on and takes the read state of every family with it
LEMMA EpochMoves ==
    ASSUME NEW g \in Gates, NEW h \in Gates, NEW x \in [Families -> Identities], GateInv(g, x),
           Later(h.mgmt, g.mgmt), SourceInv(h.mgmt), Kept(g.rows) # {} => Marked(h.mgmt),
           h.rows = Reset(g.rows), h.blanked = g.blanked \cup Kept(g.rows)
    PROVE  GateInv(h, x) /\ Kept(h.rows) = Kept(g.rows)
<1>1. h.mgmt \in Managements /\ g.blanked \subseteq Families
  BY GateType
<1>2. \A f \in Families : FamilyOK(g.mgmt, g.rows, x, f)
  BY DEF GateInv
<1>3. /\ Kept(h.rows) = Kept(g.rows) /\ \A f \in Families : FamilyOK(h.mgmt, h.rows, x, f)
      /\ \A f \in Families : h.rows[f] # None => ~h.rows[f].seen
  BY <1>1, <1>2, ResetKeeps
<1>4. g.blanked \subseteq Kept(g.rows)
  BY <1>1 DEF GateInv, BlankInv, Kept
<1>5. \A f \in h.blanked : h.rows[f] # None /\ ~h.rows[f].seen
  BY <1>3, <1>4 DEF Kept
<1>6. h.blanked # {} => Marked(h.mgmt)
  BY <1>4
<1>7. QED
  BY <1>3, <1>5, <1>6 DEF GateInv, BlankInv

\* the parts of an adopted management row
AdoptedPend(g, i) ==
    IF ~(Born[i] > BornOf(g.mgmt.pend) \/ i = g.mgmt.pend) THEN g.mgmt.pend
    ELSE IF Kept(g.rows) # {} THEN i ELSE 0
AdoptedConflict(g, i) ==
    IF (Born[i] > BornOf(g.mgmt.pend) \/ i = g.mgmt.pend) /\ Kept(g.rows) = {} THEN 0 ELSE g.mgmt.conflict
AdoptedMgmt(g, i) ==
    [g.mgmt EXCEPT !.inc = i, !.source = 0, !.pendSource = 0,
                   !.pend = AdoptedPend(g, i), !.conflict = AdoptedConflict(g, i)]

LEMMA AdoptParts ==
    ASSUME NEW g \in Gates, NEW i \in Incarnations, NEW h, h = Adopt(g, i), Reset(g.rows) \in Rows
    PROVE  /\ h \in Gates /\ h.rows = Reset(g.rows) /\ h.blanked = g.blanked \cup Kept(g.rows)
           /\ h.mgmt = AdoptedMgmt(g, i)
<1> DEFINE p == AdoptedPend(g, i)
           c == AdoptedConflict(g, i)
           m == AdoptedMgmt(g, i)
           rs == Reset(g.rows)
           bl == g.blanked \cup Kept(g.rows)
<1>1. g.mgmt \in Managements /\ g.rows \in Rows /\ bl \subseteq Families
  BY GateType DEF Kept
<1>2. i \in 0..Len(Born) /\ 0 \in 0..Len(Born) /\ 0 \in 0..MaxSource
  BY Constants
<1>3. p \in 0..Len(Born) /\ c \in Nat
  BY <1>1, <1>2 DEF Managements, AdoptedPend, AdoptedConflict
<1>4. h = [g EXCEPT !.mgmt = m, !.rows = rs, !.blanked = bl]
  BY ZenonT(40), <1>1 DEF Adopt, Blank, AdoptedMgmt, AdoptedPend, AdoptedConflict, Gates, TabGates
<1> HIDE DEF p, c
<1>5. m \in Managements
  BY <1>1, <1>2, <1>3 DEF Managements, AdoptedMgmt, p, c
<1> HIDE DEF m, rs, bl
<1>6. h \in Gates /\ h.rows = rs /\ h.blanked = bl /\ h.mgmt = m
  BY <1>1, <1>4, <1>5 DEF Gates, TabGates, rs
<1>7. QED
  BY <1>6 DEF m, rs, bl

\* a younger store is adopted
LEMMA AdoptKeeps ==
    ASSUME NEW g \in Gates, NEW x \in [Families -> Identities], NEW i \in Incarnations, GateInv(g, x),
           Born[i] > BornOf(g.mgmt.inc), NEW h, h = Adopt(g, i)
    PROVE  /\ h \in Gates /\ GateInv(h, x) /\ Kept(h.rows) = Kept(g.rows) /\ h.mgmt.inc = i
           /\ h.mgmt.link = g.mgmt.link /\ h.mgmt.rekey = g.mgmt.rekey /\ h.mgmt.aware = g.mgmt.aware
           /\ h.mgmt.pend = AdoptedPend(g, i) /\ h.mgmt.conflict = AdoptedConflict(g, i)
<1>1. g.mgmt \in Managements /\ \A f \in Families : FamilyOK(g.mgmt, g.rows, x, f)
  BY GateType DEF GateInv
<1>2. AdoptedMgmt(g, i) \in Managements => /\ Later(AdoptedMgmt(g, i), g.mgmt)
  BY <1>1, Constants DEF Later, AdoptedMgmt, Managements
<1>3. i \in 0..Len(Born) /\ 0 \in 0..Len(Born) /\ 0 \in 0..MaxSource /\ i # 0 /\ Born[i] > 0
  BY Constants
<1>4. AdoptedPend(g, i) \in 0..Len(Born) /\ AdoptedConflict(g, i) \in Nat
  BY <1>1, <1>3 DEF Managements, AdoptedPend, AdoptedConflict
<1> DEFINE m == AdoptedMgmt(g, i)
<1>5. /\ m \in Managements /\ m.inc = i /\ m.source = 0 /\ m.link = g.mgmt.link /\ m.rekey = g.mgmt.rekey
      /\ m.aware = g.mgmt.aware /\ m.pend = AdoptedPend(g, i) /\ m.conflict = AdoptedConflict(g, i)
  BY <1>1, <1>3, <1>4 DEF Managements, AdoptedMgmt
<1>6. Later(m, g.mgmt)
  BY <1>2, <1>5
<1> HIDE DEF m
<1>7. Reset(g.rows) \in Rows
  BY <1>1, <1>5, <1>6, ResetKeeps
<1>8. h \in Gates /\ h.rows = Reset(g.rows) /\ h.blanked = g.blanked \cup Kept(g.rows) /\ h.mgmt = m
  BY <1>7, AdoptParts DEF m
<1>9. Kept(g.rows) # {} => Marked(m)
  <2>1. SUFFICES ASSUME Kept(g.rows) # {} PROVE m.pend # 0
    BY DEF Marked
  <2>2. CASE Born[i] > BornOf(g.mgmt.pend) \/ i = g.mgmt.pend
    BY <1>3, <1>5, <2>1, <2>2 DEF AdoptedPend
  <2>3. CASE ~(Born[i] > BornOf(g.mgmt.pend) \/ i = g.mgmt.pend)
    <3>1. m.pend = g.mgmt.pend
      BY <1>5, <2>3 DEF AdoptedPend
    <3>2. BornOf(0) = 0
      BY Constants
    <3>3. QED
      BY <1>3, <2>3, <3>1, <3>2
  <2>4. QED
    BY <2>2, <2>3
<1>10. GateInv(h, x) /\ Kept(h.rows) = Kept(g.rows)
  BY <1>5, <1>6, <1>8, <1>9, EpochMoves DEF SourceInv
<1>11. QED
  BY <1>5, <1>8, <1>10

\* a source epoch is adopted, or there is none
LEMMA AdoptSourceKeeps ==
    ASSUME NEW g \in Gates, NEW x \in [Families -> Identities], NEW s \in 0..MaxSource, GateInv(g, x),
           ~SourceRefused(g.mgmt, s), NEW h, h = AdoptSource(g, s)
    PROVE  /\ h \in Gates /\ GateInv(h, x) /\ Kept(h.rows) = Kept(g.rows) /\ h.mgmt.source = s
           /\ h.mgmt.inc = g.mgmt.inc /\ h.mgmt.link = g.mgmt.link /\ h.mgmt.rekey = g.mgmt.rekey
           /\ h.mgmt.pend = g.mgmt.pend /\ h.mgmt.conflict = g.mgmt.conflict
<1>1. /\ g.mgmt \in Managements /\ g.rows \in Rows /\ g.blanked \subseteq Families
      /\ \A f \in Families : FamilyOK(g.mgmt, g.rows, x, f)
  BY GateType DEF GateInv
<1>2. CASE s = 0
  BY <1>1, <1>2 DEF AdoptSource, SourceRefused, GateInv, SourceInv
<1>3. CASE s # 0 /\ g.mgmt.source = s
  <2> DEFINE m == [g.mgmt EXCEPT !.source = s, !.aware = TRUE]
  <2>1. h = [g EXCEPT !.mgmt = m]
    BY <1>1, <1>3 DEF AdoptSource, Gates, TabGates
  <2>2. /\ m \in Managements /\ m.source = s /\ m.aware /\ m.inc = g.mgmt.inc /\ m.link = g.mgmt.link
        /\ m.rekey = g.mgmt.rekey /\ m.pend = g.mgmt.pend /\ m.conflict = g.mgmt.conflict
        /\ m.pendSource = g.mgmt.pendSource
    BY <1>1 DEF Managements
  <2> HIDE DEF m
  <2>3. h \in Gates /\ h.mgmt = m /\ h.rows = g.rows /\ h.blanked = g.blanked
    BY <1>1, <2>1, <2>2 DEF Gates, TabGates
  <2>4. GateInv(h, x)
    BY <1>3, <2>2, <2>3, MarkersKeep DEF SourceInv, GateInv, BlankInv, Marked
  <2>5. QED
    BY <2>2, <2>3, <2>4
<1>4. CASE s # 0 /\ g.mgmt.source # s
  <2> DEFINE p == IF Kept(g.rows) # {} THEN s ELSE 0
             m == [g.mgmt EXCEPT !.pendSource = p, !.source = s, !.aware = TRUE]
             rs == Reset(g.rows)
             bl == g.blanked \cup Kept(g.rows)
  <2>1. h = [g EXCEPT !.mgmt = m, !.rows = rs, !.blanked = bl]
    BY <1>1, <1>4 DEF AdoptSource, Blank, Gates, TabGates
  <2>2. p \in 0..MaxSource
    BY Constants
  <2>3. /\ m \in Managements /\ m.source = s /\ m.aware /\ m.inc = g.mgmt.inc /\ m.link = g.mgmt.link
        /\ m.rekey = g.mgmt.rekey /\ m.pend = g.mgmt.pend /\ m.conflict = g.mgmt.conflict
        /\ m.pendSource = p
    BY <1>1, <2>2 DEF Managements
  <2>4. s > g.mgmt.source
    BY <1>1, <1>4, Constants DEF SourceRefused, Managements
  <2>5. Kept(g.rows) # {} => Marked(m)
    BY <1>4, <2>3 DEF Marked
  <2> HIDE DEF m, p
  <2>6. Later(m, g.mgmt)
    BY <2>3, <2>4 DEF Later
  <2>7. rs \in Rows /\ bl \subseteq Families
    BY <1>1, <2>3, <2>6, ResetKeeps DEF Kept
  <2> HIDE DEF rs, bl
  <2>8. h \in Gates /\ h.mgmt = m /\ h.rows = rs /\ h.blanked = bl
    BY <1>1, <2>1, <2>3, <2>7 DEF Gates, TabGates
  <2>9. GateInv(h, x) /\ Kept(h.rows) = Kept(g.rows)
    BY <2>3, <2>5, <2>6, <2>8, EpochMoves DEF SourceInv, rs, bl
  <2>10. QED
    BY <2>3, <2>8, <2>9
<1>5. QED
  BY <1>2, <1>3, <1>4

\* markers are cleared once every family was observed again: then none is blank
LEMMA ClearsKeep ==
    ASSUME NEW g \in Gates, NEW x \in [Families -> Identities], GateInv(g, x),
           NEW h, h = ClearSource(ClearReset(g))
    PROVE  /\ h \in Gates /\ GateInv(h, x) /\ h.rows = g.rows /\ h.blanked = g.blanked
           /\ h.mgmt.inc = g.mgmt.inc /\ h.mgmt.rekey = g.mgmt.rekey
           /\ \/ h.mgmt.pend = g.mgmt.pend /\ h.mgmt.conflict = g.mgmt.conflict
              \/ g.mgmt.pend = g.mgmt.inc /\ h.mgmt.pend = 0 /\ h.mgmt.conflict = 0
<1>1. /\ g.mgmt \in Managements /\ g.rows \in Rows /\ g.blanked \subseteq Families
      /\ 0 \in 0..Len(Born) /\ 0 \in 0..MaxSource
  BY GateType, Constants
<1>2. AllSeen(g.rows) => g.blanked = {}
  BY <1>1 DEF AllSeen, GateInv, BlankInv, Kept
<1> DEFINE k == ClearReset(g)
<1>3. /\ k \in Gates /\ GateInv(k, x) /\ k.rows = g.rows /\ k.blanked = g.blanked
      /\ k.mgmt.inc = g.mgmt.inc /\ k.mgmt.rekey = g.mgmt.rekey
      /\ \/ k.mgmt.pend = g.mgmt.pend /\ k.mgmt.conflict = g.mgmt.conflict
         \/ g.mgmt.pend = g.mgmt.inc /\ k.mgmt.pend = 0 /\ k.mgmt.conflict = 0
  <2> DEFINE m == [g.mgmt EXCEPT !.pend = 0, !.conflict = 0]
  <2>1. CASE k = g
    BY <2>1
  <2>2. CASE k # g
    <3>1. g.mgmt.pend = g.mgmt.inc /\ AllSeen(g.rows) /\ k = [g EXCEPT !.mgmt = m]
      BY <1>1, <2>2 DEF ClearReset, Gates, TabGates
    <3>2. /\ m \in Managements /\ m.source = g.mgmt.source /\ m.aware = g.mgmt.aware /\ m.pend = 0
          /\ m.inc = g.mgmt.inc /\ m.link = g.mgmt.link /\ m.rekey = g.mgmt.rekey /\ m.conflict = 0
      BY <1>1 DEF Managements
    <3> HIDE DEF m, k
    <3>3. k \in Gates /\ k.mgmt = m /\ k.rows = g.rows /\ k.blanked = g.blanked
      BY <1>1, <3>1, <3>2 DEF Gates, TabGates
    <3>4. SourceInv(k.mgmt) /\ k.blanked = {}
      BY <1>2, <3>1, <3>2, <3>3 DEF SourceInv, GateInv
    <3>5. GateInv(k, x)
      BY <3>2, <3>3, <3>4, MarkersKeep
    <3>6. QED
      BY <3>1, <3>2, <3>3, <3>5
  <2>3. QED
    BY <2>1, <2>2
<1>4. h = ClearSource(k)
  OBVIOUS
<1> HIDE DEF k
<1>5. k.mgmt \in Managements /\ k.rows \in Rows /\ k.blanked \subseteq Families
  BY <1>3, GateType
<1> DEFINE m == [k.mgmt EXCEPT !.pendSource = 0]
<1>6. CASE h = k
  BY <1>3, <1>6
<1>7. CASE h # k
  <2>1. AllSeen(g.rows) /\ h = [k EXCEPT !.mgmt = m]
    BY <1>3, <1>4, <1>5, <1>7 DEF ClearSource, Gates, TabGates
  <2>2. /\ m \in Managements /\ m.source = k.mgmt.source /\ m.aware = k.mgmt.aware /\ m.pend = k.mgmt.pend
        /\ m.inc = k.mgmt.inc /\ m.link = k.mgmt.link /\ m.rekey = k.mgmt.rekey
        /\ m.conflict = k.mgmt.conflict
    BY <1>1, <1>5 DEF Managements
  <2> HIDE DEF m
  <2>3. h \in Gates /\ h.mgmt = m /\ h.rows = k.rows /\ h.blanked = k.blanked
    BY <1>3, <1>5, <2>1, <2>2 DEF Gates, TabGates
  <2>4. GateInv(h, x)
    BY ZenonT(40), <1>2, <1>3, <2>1, <2>2, <2>3, MarkersKeep DEF SourceInv, GateInv
  <2>5. QED
    BY <1>3, <2>2, <2>3, <2>4
<1>8. QED
  BY <1>6, <1>7

-----------------------------------------------------------------------------
(* The stores the device has noticed                                       *)

LEMMA BirthTypes ==
    ASSUME NEW m \in Managements
    PROVE  /\ m.inc \in 0..Len(Born) /\ m.pend \in 0..Len(Born) /\ m.conflict \in Nat
           /\ BornOf(m.inc) \in Nat /\ BornOf(m.pend) \in Nat
           /\ m.inc # 0 => m.inc \in Incarnations /\ BornOf(m.inc) = Born[m.inc] /\ Born[m.inc] > 0
           /\ m.pend # 0 => m.pend \in Incarnations /\ BornOf(m.pend) = Born[m.pend] /\ Born[m.pend] > 0
           /\ m.inc = 0 => BornOf(m.inc) = 0
           /\ m.pend = 0 => BornOf(m.pend) = 0
BY Constants DEF Managements

\* an adopted store was noticed, and what was noticed before it is older
LEMMA AdoptNotices ==
    ASSUME NEW g \in Gates, NEW i \in Incarnations, Adoptable(g.mgmt, i),
           NEW ns \in SUBSET Incarnations, NoticeInv(g.mgmt, ns),
           NEW n, n.inc = i, n.pend = AdoptedPend(g, i), n.conflict = AdoptedConflict(g, i)
    PROVE  NoticeInv(n, ns \cup {i})
<1> DEFINE m == g.mgmt
<1>1. m \in Managements
  BY GateType
<1>2. /\ m.inc \in 0..Len(Born) /\ m.pend \in 0..Len(Born) /\ m.conflict \in Nat
      /\ BornOf(m.inc) \in Nat /\ BornOf(m.pend) \in Nat
      /\ m.pend # 0 => BornOf(m.pend) = Born[m.pend]
      /\ m.pend = 0 => BornOf(m.pend) = 0
  BY <1>1, BirthTypes
<1>3. \A j \in ns \cup {i} : Born[j] \in Nat \ {0} /\ BornOf(j) = Born[j]
  BY Constants
<1>4. BornOf(0) = 0 /\ i # 0
  BY Constants
<1>5. /\ Born[i] > BornOf(m.inc) /\ Born[i] > m.conflict
      /\ \A j \in ns : Born[j] <= BornOf(m.inc) \/ Born[j] <= m.conflict \/ j = m.pend \/ Born[j] < BornOf(m.pend)
      /\ m.pend # 0 => m.pend \in ns
  BY DEF NoticeInv, Adoptable
<1> HIDE DEF m
<1>6. CASE Born[i] > BornOf(m.pend) \/ i = m.pend
  <2>1. n.pend \in {0, i} /\ n.conflict \in {0, m.conflict}
    BY <1>6 DEF AdoptedPend, AdoptedConflict, m
  <2>2. n.conflict <= BornOf(n.inc) /\ (n.pend # 0 => n.pend \in ns \cup {i})
    BY <1>2, <1>3, <1>5, <2>1
  <2>3. ASSUME NEW j \in ns \cup {i} PROVE Born[j] <= BornOf(n.inc)
    <3>1. Born[i] \in Nat /\ Born[j] \in Nat /\ BornOf(n.inc) = Born[i]
      BY <1>3
    <3>2. CASE j = i
      BY <3>1, <3>2
    <3>3. CASE j \in ns /\ j # i
      BY <1>2, <1>3, <1>5, <1>6, <3>1, <3>3
    <3>4. QED
      BY <3>2, <3>3
  <2>4. QED
    BY <2>2, <2>3 DEF NoticeInv
<1>7. CASE ~(Born[i] > BornOf(m.pend) \/ i = m.pend)
  <2>1. n.pend = m.pend /\ n.conflict = m.conflict
    BY <1>7 DEF AdoptedPend, AdoptedConflict, m
  <2>2. n.conflict <= BornOf(n.inc) /\ (n.pend # 0 => n.pend \in ns \cup {i})
    BY <1>2, <1>3, <1>5, <2>1
  <2>3. ASSUME NEW j \in ns \cup {i}
        PROVE  Born[j] <= BornOf(n.inc) \/ j = n.pend \/ Born[j] < BornOf(n.pend)
    BY <1>2, <1>3, <1>5, <2>1
  <2>4. QED
    BY <2>2, <2>3 DEF NoticeInv
<1>8. QED
  BY <1>6, <1>7

\* a store that is neither adopted nor a tie is older than what the markers say
LEMMA RefusedNotices ==
    ASSUME NEW m \in Managements, NEW i \in Incarnations, ~Adoptable(m, i), ~Ambiguous(m, i),
           NEW ns \in SUBSET Incarnations, NoticeInv(m, ns)
    PROVE  NoticeInv(m, ns \cup {i})
<1>1. BornOf(m.inc) \in Nat /\ m.conflict \in Nat /\ Born[i] \in Nat
  BY BirthTypes, Constants
<1>2. Born[i] <= BornOf(m.inc) \/ Born[i] <= m.conflict
  BY <1>1 DEF Adoptable, Ambiguous
<1>3. QED
  BY <1>2 DEF NoticeInv

\* the stores that are registered instead
LEMMA RegisterKeeps ==
    ASSUME NEW m \in Managements, NEW i \in Incarnations, NEW n, n = Register(m, i)
    PROVE  /\ n \in Managements /\ n.link = m.link /\ n.inc = m.inc /\ n.source = m.source
           /\ n.pendSource = m.pendSource /\ n.aware = m.aware /\ n.rekey = m.rekey
           /\ n.pend \in {m.pend, i} /\ n.conflict \in {m.conflict, Born[i]}
           /\ IF SameBirth(i, m.inc) \/ SameBirth(i, m.pend)
              THEN /\ n.conflict >= Born[i] /\ n.conflict >= m.conflict
                   /\ n.pend = IF Born[i] >= BornOf(m.pend) THEN i ELSE m.pend
              ELSE /\ n.conflict = m.conflict
                   /\ n.pend = IF Born[i] > BornOf(m.pend) THEN i ELSE m.pend
<1> DEFINE tie == SameBirth(i, m.inc) \/ SameBirth(i, m.pend)
           p == IF Born[i] > BornOf(m.pend) THEN i ELSE m.pend
<1>1. Born[i] \in Nat /\ i \in 0..Len(Born) /\ m.conflict \in Nat /\ BornOf(m.pend) \in Nat
  BY BirthTypes, Constants
<1>2. m.pend \in 0..Len(Born)
  BY BirthTypes
<1>3. p \in 0..Len(Born)
  BY <1>1, <1>2
<1>4. CASE tie
  <2> DEFINE d == IF Born[i] > m.conflict THEN Born[i] ELSE m.conflict
             q == IF Born[i] >= BornOf(m.pend) THEN i ELSE m.pend
  <2>1. n = [m EXCEPT !.conflict = d, !.pend = q]
    BY <1>4 DEF Register
  <2>2. d >= Born[i] /\ d >= m.conflict /\ q \in {m.pend, i} /\ d \in {m.conflict, Born[i]}
    BY <1>1
  <2>3. d \in Nat /\ q \in 0..Len(Born)
    BY <1>1, <1>2
  <2> HIDE DEF d
  <2>4. /\ n \in Managements /\ n.link = m.link /\ n.inc = m.inc /\ n.source = m.source /\ n.pend = q
        /\ n.pendSource = m.pendSource /\ n.aware = m.aware /\ n.rekey = m.rekey /\ n.conflict = d
    <3> HIDE DEF q
    <3>1. QED
      BY <2>1, <2>3 DEF Managements
  <2>5. QED
    BY <1>4, <2>2, <2>4
<1>5. CASE ~tie
  <2>1. n = [m EXCEPT !.pend = p]
    BY <1>5 DEF Register
  <2>2. p = (IF Born[i] > BornOf(m.pend) THEN i ELSE m.pend) /\ p \in {m.pend, i}
    BY <1>5
  <2> HIDE DEF p
  <2>3. /\ n \in Managements /\ n.link = m.link /\ n.inc = m.inc /\ n.source = m.source /\ n.pend = p
        /\ n.pendSource = m.pendSource /\ n.aware = m.aware /\ n.rekey = m.rekey
        /\ n.conflict = m.conflict
    BY <1>3, <2>1 DEF Managements
  <2>4. QED
    BY <1>5, <2>2, <2>3
<1>6. QED
  BY <1>4, <1>5

LEMMA RegisterNotices ==
    ASSUME NEW m \in Managements, NEW i \in Incarnations,
           NEW ns \in SUBSET Incarnations, NoticeInv(m, ns), NEW n, n = Register(m, i)
    PROVE  NoticeInv(n, ns \cup {i})
<1>1. /\ m.conflict \in Nat /\ BornOf(m.inc) \in Nat /\ BornOf(m.pend) \in Nat
      /\ m.pend # 0 => BornOf(m.pend) = Born[m.pend]
      /\ m.inc # 0 => BornOf(m.inc) = Born[m.inc]
      /\ m.pend = 0 => BornOf(m.pend) = 0
  BY BirthTypes
<1>2. \A j \in ns \cup {i} : Born[j] \in Nat \ {0} /\ BornOf(j) = Born[j]
  BY Constants
<1>3. /\ n.inc = m.inc /\ n.pend \in {m.pend, i} /\ n.conflict \in {m.conflict, Born[i]}
      /\ IF SameBirth(i, m.inc) \/ SameBirth(i, m.pend)
         THEN /\ n.conflict >= Born[i] /\ n.conflict >= m.conflict
              /\ n.pend = IF Born[i] >= BornOf(m.pend) THEN i ELSE m.pend
         ELSE /\ n.conflict = m.conflict
              /\ n.pend = IF Born[i] > BornOf(m.pend) THEN i ELSE m.pend
  BY RegisterKeeps
<1>4. /\ m.inc # 0 => m.inc \in ns
      /\ m.pend # 0 => m.pend \in ns
      /\ m.conflict <= BornOf(m.inc) \/ m.conflict <= BornOf(m.pend)
      /\ \A j \in ns : Born[j] <= BornOf(m.inc) \/ Born[j] <= m.conflict \/ j = m.pend \/ Born[j] < BornOf(m.pend)
  BY DEF NoticeInv
<1>5. (n.inc # 0 => n.inc \in ns \cup {i}) /\ (n.pend # 0 => n.pend \in ns \cup {i})
  BY <1>3, <1>4
<1>6. BornOf(n.pend) >= BornOf(m.pend) /\ BornOf(n.pend) \in Nat
  BY <1>1, <1>2, <1>3
<1>7. n.conflict <= BornOf(n.inc) \/ n.conflict <= BornOf(n.pend)
  <2>1. CASE n.conflict = m.conflict
    BY <1>1, <1>3, <1>4, <1>6, <2>1
  <2>2. CASE n.conflict = Born[i] /\ n.conflict # m.conflict
    BY <1>1, <1>2, <1>3, <1>6, <2>2 DEF SameBirth
  <2>3. QED
    BY <1>3, <2>1, <2>2
<1>8. ASSUME NEW j \in ns \cup {i}
      PROVE  Born[j] <= BornOf(n.inc) \/ Born[j] <= n.conflict \/ j = n.pend \/ Born[j] < BornOf(n.pend)
  <2>1. Born[i] \in Nat /\ Born[j] \in Nat /\ n.conflict \in Nat /\ BornOf(i) = Born[i]
    BY <1>1, <1>2, <1>3
  <2>2. CASE SameBirth(i, m.inc) \/ SameBirth(i, m.pend)
    <3>1. CASE j = i
      BY <1>3, <2>2, <3>1
    <3>2. CASE j \in ns
      <4>1. /\ Born[j] <= BornOf(m.inc) \/ Born[j] <= m.conflict \/ j = m.pend \/ Born[j] < BornOf(m.pend)
            /\ n.conflict >= m.conflict /\ n.conflict >= Born[i]
        BY <1>3, <1>4, <2>2, <3>2
      <4>2. CASE j = m.pend
        <5>1. BornOf(m.pend) = Born[j] /\ (n.pend = m.pend \/ Born[i] >= BornOf(m.pend))
          BY <1>2, <1>3, <2>2, <4>2
        <5>2. QED
          BY <2>1, <4>1, <4>2, <5>1
      <4>3. CASE j # m.pend
        BY <1>1, <1>3, <1>6, <2>1, <4>1, <4>3
      <4>4. QED
        BY <4>2, <4>3
    <3>3. QED
      BY <3>1, <3>2
  <2>3. CASE ~(SameBirth(i, m.inc) \/ SameBirth(i, m.pend))
    <3>1. n.conflict = m.conflict /\ n.pend = IF Born[i] > BornOf(m.pend) THEN i ELSE m.pend
      BY <1>3, <2>3
    <3>2. CASE j = i
      <4>1. CASE Born[i] > BornOf(m.pend)
        BY <3>1, <3>2, <4>1
      <4>2. CASE ~(Born[i] > BornOf(m.pend))
        <5>1. m.pend # 0 /\ BornOf(m.pend) = Born[m.pend]
          BY <1>1, <1>2, <4>2
        <5>2. i = m.pend \/ Born[i] # Born[m.pend]
          BY <2>3, <5>1 DEF SameBirth
        <5>3. QED
          BY <1>1, <2>1, <3>1, <3>2, <4>2, <5>1, <5>2
      <4>3. QED
        BY <4>1, <4>2
    <3>3. CASE j \in ns
      <4>1. Born[j] <= BornOf(m.inc) \/ Born[j] <= m.conflict \/ j = m.pend \/ Born[j] < BornOf(m.pend)
        BY <1>4, <3>3
      <4>2. CASE j = m.pend
        BY <1>1, <1>2, <2>1, <3>1, <4>2
      <4>3. CASE j # m.pend
        BY <1>1, <1>3, <1>6, <2>1, <3>1, <4>1, <4>3
      <4>4. QED
        BY <4>2, <4>3
    <3>4. QED
      BY <3>2, <3>3
  <2>4. QED
    BY <2>2, <2>3
<1>9. QED
  BY <1>5, <1>7, <1>8 DEF NoticeInv

\* a cleared marker named the adopted store
LEMMA ClearNotices ==
    ASSUME NEW m \in Managements, NEW ns \in SUBSET Incarnations, NoticeInv(m, ns), NEW n, n.inc = m.inc,
           \/ n.pend = m.pend /\ n.conflict = m.conflict
           \/ m.pend = m.inc /\ n.pend = 0 /\ n.conflict = 0
    PROVE  NoticeInv(n, ns)
<1>1. CASE n.pend = m.pend /\ n.conflict = m.conflict
  BY <1>1 DEF NoticeInv
<1>2. CASE m.pend = m.inc /\ n.pend = 0 /\ n.conflict = 0
  <2>1. /\ m.conflict \in Nat /\ BornOf(m.inc) \in Nat /\ \A j \in ns : Born[j] \in Nat /\ BornOf(j) = Born[j]
    BY BirthTypes, Constants
  <2>2. m.conflict <= BornOf(m.inc) /\ \A j \in ns : Born[j] <= BornOf(m.inc)
    BY <1>2, <2>1 DEF NoticeInv
  <2>3. QED
    BY <1>2, <2>1, <2>2 DEF NoticeInv
<1>3. QED
  BY <1>1, <1>2

\* fewer stores noticed
LEMMA NoticeShrinks ==
    ASSUME NEW m, NEW ns, NoticeInv(m, ns), NEW ms \in SUBSET ns,
           m.inc # 0 => m.inc \in ms, m.pend # 0 => m.pend \in ms
    PROVE  NoticeInv(m, ms)
BY DEF NoticeInv

-----------------------------------------------------------------------------
(* The gate of one document                                                *)

\* the store is the adopted one, or is adopted
LEMMA StoreGate ==
    ASSUME TypeOK, GateInv(Device, mirror), NoticeInv(mgmt, noticed), NEW d \in Documents, ~StoreRefused(d),
           NEW h, h = AfterStore(d)
    PROVE  /\ h \in Gates /\ GateInv(h, mirror) /\ h.rows[d.family] # None /\ Kept(rows) \subseteq Kept(h.rows)
           /\ h.mgmt.inc = d.inc /\ h.mgmt.link = mgmt.link /\ h.mgmt.rekey = mgmt.rekey
           /\ NoticeInv(h.mgmt, noticed \cup {d.inc})
<1>1. /\ mirror \in [Families -> Identities] /\ noticed \subseteq Incarnations
      /\ d.family \in Families /\ d.inc \in Incarnations
  BY DEF TypeOK, Documents
<1>2. Device \in Gates /\ Device.mgmt = mgmt /\ Device.rows = rows
  BY DeviceType
<1> DEFINE o == Opened(d)
<1>3. o = [Device EXCEPT !.rows = LockedRow(Device.rows, d.family)]
  BY <1>2 DEF Opened
<1>4. /\ o \in Gates /\ GateInv(o, mirror) /\ o.rows[d.family] # None /\ Kept(rows) \subseteq Kept(o.rows)
      /\ o.mgmt = mgmt
  BY <1>1, <1>2, <1>3, LockedRowKeeps
<1> HIDE DEF o
<1>5. d.inc # 0
  BY <1>1, Constants
<1>6. CASE d.inc = mgmt.inc
  <2>1. h = o
    BY <1>6 DEF AfterStore, o
  <2>2. NoticeInv(mgmt, noticed \cup {d.inc})
    BY <1>5, <1>6 DEF NoticeInv
  <2>3. QED
    BY <1>4, <1>6, <2>1, <2>2
<1>7. CASE d.inc # mgmt.inc
  <2>1. h = Adopt(o, d.inc) /\ Adoptable(o.mgmt, d.inc)
    BY <1>4, <1>7 DEF AfterStore, StoreRefused, o
  <2>2. /\ h \in Gates /\ GateInv(h, mirror) /\ Kept(h.rows) = Kept(o.rows) /\ h.mgmt.inc = d.inc
        /\ h.mgmt.link = mgmt.link /\ h.mgmt.rekey = mgmt.rekey
        /\ h.mgmt.pend = AdoptedPend(o, d.inc) /\ h.mgmt.conflict = AdoptedConflict(o, d.inc)
    BY <1>1, <1>4, <2>1, AdoptKeeps DEF Adoptable
  <2>3. NoticeInv(h.mgmt, noticed \cup {d.inc})
    BY <1>1, <1>4, <2>1, <2>2, AdoptNotices
  <2>4. d.family \in Kept(h.rows)
    BY <1>1, <1>4, <2>2 DEF Kept
  <2>5. QED
    BY <1>4, <2>2, <2>3, <2>4 DEF Kept
<1>8. QED
  BY <1>6, <1>7

\* and so is the source
LEMMA SourceGate ==
    ASSUME TypeOK, GateInv(Device, mirror), NoticeInv(mgmt, noticed), NEW d \in Documents, InOrder(d),
           NEW h, h = AfterSource(d)
    PROVE  /\ h \in Gates /\ GateInv(h, mirror) /\ h.rows[d.family] # None /\ Kept(rows) \subseteq Kept(h.rows)
           /\ InEpoch(h.mgmt, Payload(d)) /\ h.mgmt.rekey = mgmt.rekey
           /\ NoticeInv(h.mgmt, noticed \cup {d.inc})
<1> DEFINE a == AfterStore(d)
<1>1. /\ a \in Gates /\ GateInv(a, mirror) /\ a.rows[d.family] # None /\ Kept(rows) \subseteq Kept(a.rows)
      /\ a.mgmt.inc = d.inc /\ a.mgmt.link = mgmt.link /\ a.mgmt.rekey = mgmt.rekey
      /\ NoticeInv(a.mgmt, noticed \cup {d.inc})
  BY StoreGate DEF InOrder
<1>2. ~SourceRefused(a.mgmt, d.source) /\ mgmt.link = d.link /\ h = AdoptSource(a, d.source)
  BY DEF InOrder, Linked, AfterSource
<1> HIDE DEF a
<1>3. mirror \in [Families -> Identities] /\ d.source \in 0..MaxSource /\ d.family \in Families
  BY DEF TypeOK, Documents
<1>4. /\ h \in Gates /\ GateInv(h, mirror) /\ Kept(h.rows) = Kept(a.rows) /\ h.mgmt.source = d.source
      /\ h.mgmt.inc = a.mgmt.inc /\ h.mgmt.link = a.mgmt.link /\ h.mgmt.rekey = a.mgmt.rekey
      /\ h.mgmt.pend = a.mgmt.pend /\ h.mgmt.conflict = a.mgmt.conflict
  BY <1>1, <1>2, <1>3, AdoptSourceKeeps
<1>5. InEpoch(h.mgmt, Payload(d))
  BY <1>1, <1>2, <1>4 DEF InEpoch, Payload, Identity
<1>6. NoticeInv(h.mgmt, noticed \cup {d.inc})
  BY <1>1, <1>4 DEF NoticeInv
<1>7. d.family \in Kept(h.rows)
  BY <1>1, <1>3, <1>4 DEF Kept
<1>8. QED
  BY <1>1, <1>4, <1>5, <1>6, <1>7 DEF Kept

-----------------------------------------------------------------------------
(* The device tab                                                          *)

LEMMA RatchetKeeps ==
    ASSUME NEW m \in Managements, NEW s \in 0..MaxSource, NEW n, n = RatchetSource(m, s)
    PROVE  /\ n \in Managements /\ n.link = m.link /\ n.inc = m.inc /\ n.source = m.source
           /\ n.pend = m.pend /\ n.conflict = m.conflict /\ n.rekey = m.rekey
           /\ SourceInv(m) => SourceInv(n)
           /\ Marked(m) => Marked(n)
<1> DEFINE p == IF s > m.source /\ s > m.pendSource THEN s ELSE m.pendSource
<1>1. CASE s = 0
  BY <1>1 DEF RatchetSource
<1>2. CASE s # 0
  <2>1. p \in 0..MaxSource /\ (m.pendSource # 0 => p # 0)
    BY <1>2 DEF Managements
  <2>2. n = [m EXCEPT !.aware = TRUE, !.pendSource = p]
    BY <1>2 DEF RatchetSource
  <2> HIDE DEF p
  <2>3. /\ n \in Managements /\ n.link = m.link /\ n.inc = m.inc /\ n.source = m.source /\ n.aware
        /\ n.pend = m.pend /\ n.conflict = m.conflict /\ n.rekey = m.rekey /\ n.pendSource = p
    BY <2>1, <2>2 DEF Managements
  <2>4. QED
    BY <2>1, <2>3 DEF SourceInv, Marked
<1>3. QED
  BY <1>1, <1>2

\* bodies admitted before are fenced off; what the rows say stays
LEMMA FenceRowsKeeps ==
    ASSUME NEW g \in Gates, NEW x \in [Families -> Identities], GateInv(g, x)
    PROVE  /\ FenceRows(g.rows) \in Rows /\ Kept(FenceRows(g.rows)) = Kept(g.rows)
           /\ \A f \in Families : /\ FamilyOK(g.mgmt, FenceRows(g.rows), x, f)
                                  /\ g.rows[f] # None => FenceRows(g.rows)[f].seen = g.rows[f].seen
<1>1. g.rows \in Rows /\ \A f \in Families : g.rows[f] = None \/ g.rows[f] \in ReadStates
  BY GateType
<1>2. ASSUME NEW f \in Families
      PROVE  /\ FenceRows(g.rows)[f] \in ReadStates \cup {None}
             /\ FenceRows(g.rows)[f] = None <=> g.rows[f] = None
             /\ FamilyOK(g.mgmt, FenceRows(g.rows), x, f)
             /\ g.rows[f] # None => FenceRows(g.rows)[f].seen = g.rows[f].seen
  <2>1. CASE g.rows[f] = None
    BY <1>2, <2>1 DEF FenceRows, GateInv, FamilyOK
  <2>2. CASE g.rows[f] # None
    <3> DEFINE r == g.rows[f]
               n == r.seq + 1
               s == [r EXCEPT !.seq = n]
    <3>1. r \in ReadStates /\ r.seq \in Nat /\ r.appliedSeq \in Nat
      BY <1>1, <2>2 DEF ReadStates
    <3>2. FenceRows(g.rows)[f] = s
      BY <2>2 DEF FenceRows
    <3>3. n \in Nat /\ n > r.seq
      BY <3>1
    <3>4. RowOK(g.mgmt, r) /\ MirrorOK(g.mgmt, r, x[f])
      BY <2>2 DEF GateInv, FamilyOK
    <3> HIDE DEF r, n
    <3>5. /\ s \in ReadStates /\ s.seq = n /\ s.att = r.att /\ s.auth = r.auth /\ s.seen = r.seen
          /\ s.appliedSeq = r.appliedSeq /\ s.applied = r.applied /\ s.admitted = r.admitted
      BY <3>1, <3>3 DEF ReadStates
    <3> HIDE DEF s
    <3>6. s # None
      BY <3>5, NoneAssumption
    <3>7. s.appliedSeq < s.seq
      BY <3>1, <3>3, <3>4, <3>5 DEF RowOK
    <3>8. RowOK(g.mgmt, s)
      BY <3>1, <3>3, <3>4, <3>5, <3>7 DEF RowOK
    <3>9. MirrorOK(g.mgmt, s, x[f])
      BY <3>1, <3>3, <3>4, <3>5, <3>7 DEF MirrorOK
    <3>10. QED
      BY <2>2, <3>2, <3>5, <3>6, <3>8, <3>9 DEF FamilyOK, r
  <2>3. QED
    BY <2>1, <2>2
<1>3. FenceRows(g.rows) \in Rows
  <2>1. FenceRows(g.rows) = [f \in Families |-> FenceRows(g.rows)[f]]
    BY DEF FenceRows
  <2>2. QED
    BY <1>2, <2>1 DEF Rows
<1>4. Kept(FenceRows(g.rows)) = Kept(g.rows)
  BY <1>2 DEF Kept
<1>5. QED
  BY <1>2, <1>3, <1>4

\* the stores that are recorded as noticed when the tab ends with the row m
TabSeen(m) == noticed \cup ({m.inc, m.pend} \ {0})

\* what every prefix of the tab's documents keeps
TabOK(g) ==
    /\ g \in TabGates /\ GateInv(g, mirror) /\ Kept(rows) \subseteq Kept(g.rows)
    /\ g.mgmt.inc = mgmt.inc /\ g.mgmt.rekey = mgmt.rekey /\ NoticeInv(g.mgmt, TabSeen(g.mgmt))

LEMMA ObserveOneKeeps ==
    ASSUME TypeOK, NEW g, TabOK(g), NEW d \in Documents, NEW h, h = ObserveOne(g, d)
    PROVE  TabOK(h)
<1> DEFINE m == RatchetSource(g.mgmt, d.source)
           R == IF m # g.mgmt /\ ~g.fenced THEN FenceRows(g.rows) ELSE g.rows
           b == g.fenced \/ m # g.mgmt
           o == [g EXCEPT !.mgmt = m, !.rows = R, !.fenced = b]
<1>1. /\ g \in Gates /\ g.mgmt \in Managements /\ g.rows \in Rows /\ g.blanked \subseteq Families
      /\ GateInv(g, mirror) /\ g \in TabGates /\ g.fenced \in BOOLEAN /\ g.wrote \in BOOLEAN
  BY GateType DEF TabOK, Gates, TabGates
<1>2. /\ d.source \in 0..MaxSource /\ d.inc \in Incarnations /\ d.family \in Families
      /\ mirror \in [Families -> Identities] /\ noticed \subseteq Incarnations
  BY DEF TypeOK, Documents
<1>3. /\ m \in Managements /\ m.link = g.mgmt.link /\ m.inc = g.mgmt.inc /\ m.source = g.mgmt.source
      /\ m.pend = g.mgmt.pend /\ m.conflict = g.mgmt.conflict /\ m.rekey = g.mgmt.rekey
      /\ SourceInv(g.mgmt) => SourceInv(m)
      /\ Marked(g.mgmt) => Marked(m)
  BY <1>1, <1>2, RatchetKeeps
<1> HIDE DEF m
<1>4. /\ R \in Rows /\ Kept(R) = Kept(g.rows)
      /\ \A f \in Families : /\ FamilyOK(g.mgmt, R, mirror, f)
                             /\ g.rows[f] # None => R[f].seen = g.rows[f].seen
  <2>1. /\ FenceRows(g.rows) \in Rows /\ Kept(FenceRows(g.rows)) = Kept(g.rows)
        /\ \A f \in Families : /\ FamilyOK(g.mgmt, FenceRows(g.rows), mirror, f)
                               /\ g.rows[f] # None => FenceRows(g.rows)[f].seen = g.rows[f].seen
    BY <1>1, <1>2, FenceRowsKeeps
  <2>2. CASE R = FenceRows(g.rows)
    BY <2>1, <2>2
  <2>3. CASE R = g.rows
    BY <1>1, <2>3 DEF GateInv
  <2>4. QED
    BY <2>2, <2>3
<1>5. b \in BOOLEAN
  BY <1>1
<1> HIDE DEF R, b
<1>6. o \in TabGates /\ o.mgmt = m /\ o.rows = R /\ o.blanked = g.blanked
  BY <1>1, <1>3, <1>4, <1>5 DEF TabGates
<1> HIDE DEF o
<1>7. TabOK(o)
  <2>1. \A f \in Families : FamilyOK(o.mgmt, o.rows, mirror, f)
    BY <1>3, <1>4, <1>6 DEF FamilyOK, RowOK, MirrorOK, InEpoch, Passed
  <2>2. \A f \in o.blanked : o.rows[f] # None /\ ~o.rows[f].seen
    <3>1. \A f \in g.blanked : f \in Families /\ g.rows[f] # None /\ ~g.rows[f].seen
      BY <1>1 DEF GateInv, BlankInv
    <3>2. \A f \in g.blanked : R[f] # None
      BY <1>4, <3>1 DEF Kept
    <3>3. QED
      BY <1>4, <1>6, <3>1, <3>2
  <2>3. o.blanked # {} => Marked(o.mgmt)
    BY <1>1, <1>3, <1>6 DEF GateInv, BlankInv
  <2>4. GateInv(o, mirror)
    BY <1>1, <1>3, <1>6, <2>1, <2>2, <2>3 DEF GateInv, BlankInv
  <2>5. TabSeen(o.mgmt) = TabSeen(g.mgmt)
    BY <1>3, <1>6 DEF TabSeen
  <2>6. NoticeInv(o.mgmt, TabSeen(o.mgmt))
    BY <1>3, <1>6, <2>5 DEF TabOK, NoticeInv
  <2>7. QED
    BY <1>3, <1>4, <1>6, <2>4, <2>6 DEF TabOK
<1>8. CASE h = g
  BY <1>8
<1>9. CASE h = o
  BY <1>7, <1>9
<1>10. CASE h = [o EXCEPT !.mgmt = Register(m, d.inc)]
  <2> DEFINE n == Register(m, d.inc)
  <2>1. /\ n \in Managements /\ n.link = m.link /\ n.inc = m.inc /\ n.source = m.source
        /\ n.pendSource = m.pendSource /\ n.aware = m.aware /\ n.rekey = m.rekey
        /\ n.pend \in {m.pend, d.inc}
    BY <1>2, <1>3, RegisterKeeps
  <2>2. NoticeInv(n, TabSeen(m) \cup {d.inc})
    <3>1. TabSeen(m) \subseteq Incarnations
      BY <1>2, <1>3, BirthTypes DEF TabSeen
    <3>2. NoticeInv(m, TabSeen(m))
      BY <1>6, <1>7 DEF TabOK
    <3>3. QED
      BY <1>2, <1>3, <3>1, <3>2, RegisterNotices
  <2> HIDE DEF n
  <2>3. h \in TabGates /\ h.mgmt = n /\ h.rows = o.rows /\ h.blanked = o.blanked
    BY <1>6, <1>10, <2>1 DEF TabGates, n
  <2>4. o \in Gates /\ h \in Gates /\ GateInv(o, mirror)
    BY <1>6, <1>7, <2>3 DEF Gates, TabOK
  <2>5. m.pend # 0 => n.pend # 0
    BY <1>2, <2>1, Constants
  <2>6. SourceInv(h.mgmt) /\ (h.blanked # {} => Marked(h.mgmt))
    BY <1>6, <2>1, <2>3, <2>4, <2>5 DEF GateInv, BlankInv, SourceInv, Marked
  <2>7. GateInv(h, mirror)
    BY <1>2, <1>6, <2>1, <2>3, <2>4, <2>6, MarkersKeep
  <2>8. NoticeInv(h.mgmt, TabSeen(h.mgmt))
    <3>1. TabSeen(n) \subseteq TabSeen(m) \cup {d.inc}
      BY <2>1 DEF TabSeen
    <3>2. (n.inc # 0 => n.inc \in TabSeen(n)) /\ (n.pend # 0 => n.pend \in TabSeen(n))
      BY DEF TabSeen
    <3>3. QED
      BY <2>2, <2>3, <3>1, <3>2, NoticeShrinks
  <2>9. QED
    BY <1>6, <1>7, <2>1, <2>3, <2>7, <2>8 DEF TabOK
<1>11. CASE LET k == [o EXCEPT !.rows = LockedRow(o.rows, d.family)]
            IN h = [AdvanceObserved(k, d) EXCEPT !.wrote = @ \/ ~Regresses(k, d)]
  <2> DEFINE k == [o EXCEPT !.rows = LockedRow(o.rows, d.family)]
             e == AdvanceObserved(k, d)
             v == e.wrote \/ ~Regresses(k, d)
  <2>1. o \in Gates /\ GateInv(o, mirror)
    BY <1>6, <1>7 DEF Gates, TabOK
  <2>2. /\ k \in Gates /\ k \in TabGates /\ GateInv(k, mirror) /\ k.rows[d.family] # None
        /\ Kept(o.rows) \subseteq Kept(k.rows) /\ k.mgmt = o.mgmt
    BY <1>2, <1>6, <2>1, LockedRowKeeps
  <2>3. h = [e EXCEPT !.wrote = v]
    BY <1>11
  <2> HIDE DEF k
  <2>4. e \in TabGates /\ GateInv(e, mirror) /\ Kept(e.rows) = Kept(k.rows) /\ e.mgmt = k.mgmt
    BY <1>2, <2>2, AdvanceObservedKeeps
  <2>5. v \in BOOLEAN
    BY <2>4 DEF TabGates
  <2> HIDE DEF e, v
  <2>6. h \in TabGates /\ h.mgmt = e.mgmt /\ h.rows = e.rows /\ h.blanked = e.blanked
    BY <2>3, <2>4, <2>5 DEF TabGates
  <2>7. GateInv(h, mirror)
    BY <2>4, <2>6 DEF GateInv, BlankInv
  <2>8. QED
    BY <1>7, <2>2, <2>4, <2>6, <2>7 DEF TabOK
<1>12. \/ h = g \/ h = o
       \/ h = [o EXCEPT !.mgmt = Register(m, d.inc)]
       \/ LET k == [o EXCEPT !.rows = LockedRow(o.rows, d.family)]
          IN h = [AdvanceObserved(k, d) EXCEPT !.wrote = @ \/ ~Regresses(k, d)]
  BY DEF ObserveOne, o, m, R, b
<1>13. QED
  BY <1>8, <1>9, <1>10, <1>11, <1>12

\* a set of numbers that is not empty has a least one
LEMMA Least ==
    ASSUME NEW S \in SUBSET Nat, S # {}
    PROVE  \E n \in S : \A m \in S : n <= m
<1>1. PICK n \in S : \A m \in S : ~(<<m, n>> \in OpToRel(<, Nat))
  BY NatLessThanWellFounded, WFMin
<1>2. \A m \in S : ~(m < n)
  BY <1>1 DEF OpToRel
<1>3. QED
  BY <1>2

TabBegins == [mgmt |-> mgmt, rows |-> rows, blanked |-> blanked, fenced |-> FALSE, wrote |-> FALSE]
IsObserved(G, docs, k) ==
    G = [n \in 0..k |-> IF n = 0 THEN TabBegins ELSE ObserveOne(G[n - 1], docs[n])]

\* the tab's documents are observed one after the other
LEMMA ObservedExists ==
    ASSUME NEW docs, NEW k \in Nat
    PROVE  \E G : IsObserved(G, docs, k)
<1> DEFINE S == {n \in Nat : ~ \E G : IsObserved(G, docs, n)}
<1>1. SUFFICES ASSUME S # {} PROVE FALSE
  OBVIOUS
<1>2. PICK n \in S : \A m \in S : n <= m
  BY <1>1, Least
<1>3. n \in Nat /\ ~ \E G : IsObserved(G, docs, n)
  BY <1>2
<1>4. CASE n = 0
  <2> DEFINE G == [i \in 0..0 |-> TabBegins]
  <2>1. G = [i \in 0..0 |-> IF i = 0 THEN TabBegins ELSE ObserveOne(G[i - 1], docs[i])]
    OBVIOUS
  <2>2. IsObserved(G, docs, 0)
    BY <2>1 DEF IsObserved
  <2>3. QED
    BY <1>3, <1>4, <2>2
<1>5. CASE n # 0
  <2>1. n - 1 \in Nat /\ n - 1 \notin S
    BY <1>2, <1>3, <1>5
  <2>2. PICK F : IsObserved(F, docs, n - 1)
    BY <2>1
  <2>3. /\ \A i \in 0..(n - 1) : F[i] = IF i = 0 THEN TabBegins ELSE ObserveOne(F[i - 1], docs[i])
    BY <2>2 DEF IsObserved
  <2> DEFINE G == [i \in 0..n |-> IF i = n THEN ObserveOne(F[n - 1], docs[n]) ELSE F[i]]
  <2>4. ASSUME NEW i \in 0..n
        PROVE  G[i] = IF i = 0 THEN TabBegins ELSE ObserveOne(G[i - 1], docs[i])
    <3>1. CASE i = n
      <4>1. G[i] = ObserveOne(F[n - 1], docs[n]) /\ G[n - 1] = F[n - 1] /\ i # 0
        BY <1>3, <1>5, <3>1
      <4>2. QED
        BY <3>1, <4>1
    <3>2. CASE i # n
      <4>1. i \in 0..(n - 1) /\ G[i] = F[i]
        BY <1>3, <3>2
      <4>2. CASE i = 0
        BY <2>3, <4>1, <4>2
      <4>3. CASE i # 0
        <5>1. G[i - 1] = F[i - 1]
          BY <1>3, <3>2, <4>3
        <5> HIDE DEF G
        <5>2. QED
          BY <2>3, <4>1, <4>3, <5>1
      <4>4. QED
        BY <4>2, <4>3
    <3>3. QED
      BY <3>1, <3>2
  <2>5. G = [i \in 0..n |-> G[i]]
    OBVIOUS
  <2> HIDE DEF G
  <2>6. IsObserved(G, docs, n)
    BY <2>4, <2>5 DEF IsObserved
  <2>7. QED
    BY <1>3, <2>6
<1>6. QED
  BY <1>4, <1>5

LEMMA ObservedSteps ==
    ASSUME NEW docs
    PROVE  \E G : IsObserved(G, docs, NFamilies) /\ Observed(docs) = G[NFamilies]
<1> DEFINE G == CHOOSE G : IsObserved(G, docs, NFamilies)
<1>1. IsObserved(G, docs, NFamilies)
  BY Constants, ObservedExists
<1>2. Observed(docs) = G[NFamilies]
  BY DEF Observed, IsObserved, TabBegins
<1>3. QED
  BY <1>1, <1>2

LEMMA ObservedKeeps ==
    ASSUME TypeOK, GateInv(Device, mirror), NoticeInv(mgmt, noticed), mgmt.inc # 0,
           NEW docs \in [Families -> Documents], NEW h, h = Observed(docs)
    PROVE  TabOK(h)
<1>1. PICK G : IsObserved(G, docs, NFamilies) /\ h = G[NFamilies]
  BY ObservedSteps
<1>2. /\ NFamilies \in Nat
      /\ \A n \in 0..NFamilies : G[n] = IF n = 0 THEN TabBegins ELSE ObserveOne(G[n - 1], docs[n])
  BY <1>1, Constants DEF IsObserved
<1>3. TabOK(TabBegins)
  <2>1. /\ TabBegins \in TabGates /\ TabBegins.mgmt = mgmt /\ TabBegins.rows = rows
        /\ TabBegins.blanked = blanked
    BY DEF TabBegins, TabGates, TypeOK, Rows
  <2>2. GateInv(TabBegins, mirror)
    BY <2>1, DeviceType DEF GateInv, BlankInv
  <2>3. NoticeInv(mgmt, TabSeen(mgmt))
    <3>1. TabSeen(mgmt) \subseteq noticed
      BY DEF TabSeen, NoticeInv
    <3>2. (mgmt.inc # 0 => mgmt.inc \in TabSeen(mgmt)) /\ (mgmt.pend # 0 => mgmt.pend \in TabSeen(mgmt))
      BY DEF TabSeen
    <3>3. QED
      BY <3>1, <3>2, NoticeShrinks
  <2>4. QED
    BY <2>1, <2>2, <2>3 DEF TabOK
<1> DEFINE S == {n \in Nat : n <= NFamilies /\ ~TabOK(G[n])}
<1>4. SUFFICES ASSUME S # {} PROVE FALSE
  BY <1>1, <1>2
<1>5. PICK n \in S : \A m \in S : n <= m
  BY <1>4, Least
<1>6. n \in Nat /\ n <= NFamilies /\ ~TabOK(G[n])
  BY <1>5
<1>7. n # 0
  BY <1>2, <1>3, <1>6
<1>8. n - 1 \in Nat /\ n - 1 <= NFamilies /\ n - 1 \notin S
  BY <1>2, <1>5, <1>6, <1>7
<1>9. TabOK(G[n - 1]) /\ docs[n] \in Documents
  BY <1>2, <1>6, <1>7, <1>8 DEF Families
<1>10. G[n] = ObserveOne(G[n - 1], docs[n])
  BY <1>2, <1>6, <1>7
<1>11. QED
  BY <1>6, <1>9, <1>10, ObserveOneKeeps

-----------------------------------------------------------------------------
(* Steps that change only what some actors hold                            *)

LEMMA IdlePlan ==
    /\ Idle \in {Idle} \cup Busy
    /\ \A rs : PlanOK(Idle, rs)
BY DEF Idle, PlanOK

\* what the gate's invariant says of the rows as they are next
LEMMA GateBecomes ==
    ASSUME NEW g, Become(g), GateInv(g, mirror')
    PROVE  GateInv(Device, mirror)'
<1>1. mgmt' = g.mgmt /\ rows' = g.rows /\ blanked' = g.blanked
  BY DEF Become
<1>2. /\ SourceInv(mgmt') /\ \A f \in Families : FamilyOK(mgmt', rows', mirror', f)
      /\ \A f \in blanked' : rows'[f] # None /\ ~rows'[f].seen
      /\ blanked' # {} => Marked(mgmt')
  BY <1>1 DEF GateInv, BlankInv
<1>3. QED
  BY <1>2 DEF GateInv, BlankInv, Device

\* a worker turns to its next step
LEMMA WorkerStepKeeps ==
    ASSUME ReadsInv, NEW w \in Workers, NEW p \in {Idle} \cup Busy, PlanOK(p, rows),
           worker' = [worker EXCEPT ![w] = p], fetches' \in Nat,
           UNCHANGED <<adapter, mgmt, rows, tab, owner, apply, rekey, mirror, blanked, noticed, scenario, events>>
    PROVE  ReadsInv'
<1>1. TypeOK'
  BY DEF ReadsInv, TypeOK
<1>2. GateInv(Device, mirror)' /\ NoticeInv(mgmt, noticed)' /\ RekeyInv' /\ TabInv' /\ InSyncWasSettled'
  <2>1. /\ GateInv(Device, mirror) /\ NoticeInv(mgmt, noticed) /\ RekeyInv /\ TabInv /\ InSyncWasSettled
    BY DEF ReadsInv
  <2>2. GateInv(Device, mirror)'
    BY <2>1, GateBecomes DEF Become, Device
  <2>3. QED
    BY <2>1, <2>2 DEF RekeyInv, TabInv, InSyncWasSettled
<1>3. ASSUME NEW v \in Workers PROVE PlanOK(worker[v], rows)'
  <2>1. worker'[v] = IF v = w THEN p ELSE worker[v]
    BY DEF ReadsInv, TypeOK
  <2>2. PlanOK(worker'[v], rows)
    BY <2>1 DEF ReadsInv
  <2>3. QED
    BY <2>2
<1>4. QED
  BY <1>1, <1>2, <1>3 DEF ReadsInv

\* a plan stays one when rows come to be
LEMMA PlanStays ==
    ASSUME NEW p \in {Idle} \cup Busy, NEW rs, NEW qs, PlanOK(p, rs), Kept(rs) \subseteq Kept(qs)
    PROVE  PlanOK(p, qs)
<1>1. CASE p = Idle
  BY <1>1, IdlePlan
<1>2. CASE p \in Busy
  <2>1. p.doc.family \in Families
    BY <1>2 DEF Busy, Documents
  <2>2. rs[p.doc.family] # None => qs[p.doc.family] # None
    BY <2>1 DEF Kept
  <2>3. QED
    BY <2>2 DEF PlanOK
<1>3. QED
  BY <1>1, <1>2

\* the gate has decided, outside a rekey
LEMMA GateStepKeeps ==
    ASSUME ReadsInv, ~mgmt.rekey, NEW g \in Gates, Become(g), GateInv(g, mirror), Kept(rows) \subseteq Kept(g.rows),
           noticed' \subseteq Incarnations, NoticeInv(g.mgmt, noticed'),
           NEW w \in Workers, NEW p \in {Idle} \cup Busy, PlanOK(p, g.rows), worker' = [worker EXCEPT ![w] = p],
           GateLeaves
    PROVE  ReadsInv'
<1>1. /\ mgmt' = g.mgmt /\ rows' = g.rows /\ blanked' = g.blanked
      /\ UNCHANGED <<adapter, tab, owner, apply, rekey, mirror, scenario, fetches, events>>
  BY DEF Become, GateLeaves, bounds
<1>2. TypeOK'
  <2>1. g.mgmt \in Managements /\ g.rows \in Rows /\ g.blanked \subseteq Families
    BY GateType
  <2>2. QED
    BY <1>1, <2>1 DEF ReadsInv, TypeOK, Rows
<1>3. GateInv(Device, mirror)'
  BY <1>1, GateBecomes
<1>4. NoticeInv(mgmt, noticed)'
  BY <1>1
<1>5. RekeyInv' /\ TabInv' /\ InSyncWasSettled'
  BY <1>1 DEF ReadsInv, RekeyInv, TabInv, InSyncWasSettled
<1>6. ASSUME NEW v \in Workers PROVE PlanOK(worker[v], rows)'
  <2>1. worker'[v] = (IF v = w THEN p ELSE worker[v]) /\ worker[v] \in {Idle} \cup Busy
    BY DEF ReadsInv, TypeOK
  <2>2. PlanOK(worker[v], g.rows)
    BY <2>1, PlanStays DEF ReadsInv
  <2>3. QED
    BY <1>1, <2>1, <2>2
<1>7. QED
  BY <1>2, <1>3, <1>4, <1>5, <1>6 DEF ReadsInv

\* the parts of the invariant, and the document in a worker's hands
LEMMA ReadsParts ==
    ASSUME ReadsInv
    PROVE  /\ TypeOK /\ GateInv(Device, mirror) /\ NoticeInv(mgmt, noticed)
           /\ Device \in Gates /\ mirror \in [Families -> Identities] /\ noticed \subseteq Incarnations
           /\ Device.mgmt = mgmt /\ Device.rows = rows /\ Device.blanked = blanked
           /\ \A f \in Families : rows[f] = None \/ rows[f] \in ReadStates
           /\ \A f \in Families : FamilyOK(mgmt, rows, mirror, f)
           /\ mgmt \in Managements
BY DeviceType DEF ReadsInv, TypeOK, GateInv

LEMMA WorkerParts ==
    ASSUME ReadsInv, NEW w \in Workers, worker[w].pc # "idle"
    PROVE  /\ worker[w] \in Busy /\ worker[w].doc \in Documents /\ worker[w].doc.family \in Families
           /\ worker[w].doc.inc \in Incarnations /\ PlanOK(worker[w], rows)
<1>1. worker[w] \in Busy
  BY DEF ReadsInv, TypeOK, Idle
<1>2. QED
  BY <1>1 DEF ReadsInv, Busy, Documents

-----------------------------------------------------------------------------
(* The steps of a worker at the gate                                       *)

\* the document's store is the adopted one now
Adopts(w) ==
    LET i == worker[w].doc.inc IN
    i \in Incarnations /\ (i = mgmt.inc \/ Adoptable(mgmt, i)) /\ mgmt'.inc = i

LEMMA OpenedKeeps ==
    ASSUME ReadsInv, NEW d \in Documents, NEW o, o = Opened(d)
    PROVE  /\ o \in Gates /\ GateInv(o, mirror) /\ o.rows[d.family] # None /\ Kept(rows) \subseteq Kept(o.rows)
           /\ o.mgmt = mgmt /\ o.blanked = blanked
<1>1. d.family \in Families /\ o = [Device EXCEPT !.rows = LockedRow(Device.rows, d.family)]
  BY ReadsParts DEF Opened, Documents
<1>2. QED
  BY <1>1, ReadsParts, LockedRowKeeps

LEMMA SkipsKeeps ==
    ASSUME ReadsInv, NEW w \in Workers, GateSkips(w)
    PROVE  ReadsInv' /\ mgmt'.inc = mgmt.inc
<1> DEFINE d == worker[w].doc
<1>1. worker[w].pc # "idle" /\ worker' = [worker EXCEPT ![w] = Idle] /\ noticed' = noticed /\ GateLeaves
  BY DEF GateSkips, Done
<1>2. d \in Documents
  BY <1>1, WorkerParts
<1>3. CASE Linked(d)
  <2>1. Become(Opened(d)) /\ ~mgmt.rekey
    BY <1>3 DEF GateSkips, Linked
  <2> DEFINE o == Opened(d)
  <2>2. o \in Gates /\ GateInv(o, mirror) /\ Kept(rows) \subseteq Kept(o.rows) /\ o.mgmt = mgmt
    BY <1>2, OpenedKeeps
  <2> HIDE DEF o
  <2>3. noticed' \subseteq Incarnations /\ NoticeInv(o.mgmt, noticed')
    BY <1>1, <2>2, ReadsParts
  <2>4. Become(o)
    BY <2>1 DEF o
  <2>5. QED
    BY <1>1, <2>1, <2>2, <2>3, <2>4, IdlePlan, GateStepKeeps DEF Become
<1>4. CASE ~Linked(d)
  <2>1. UNCHANGED <<adapter, mgmt, rows, tab, owner, apply, rekey, mirror, blanked, noticed, scenario, fetches, events>>
    BY <1>1, <1>4 DEF GateSkips, GateLeaves, bounds
  <2>2. fetches' \in Nat
    BY <2>1 DEF ReadsInv, TypeOK
  <2>3. QED
    BY <1>1, <2>1, <2>2, IdlePlan, WorkerStepKeeps
<1>5. QED
  BY <1>3, <1>4

LEMMA RefusesStoreKeeps ==
    ASSUME ReadsInv, NEW w \in Workers, GateRefusesStore(w)
    PROVE  ReadsInv' /\ mgmt'.inc = mgmt.inc
<1> DEFINE d == worker[w].doc
           m == IF Ambiguous(mgmt, d.inc) THEN Register(mgmt, d.inc) ELSE mgmt
           g == [Opened(d) EXCEPT !.mgmt = m]
<1>1. /\ worker[w].pc # "idle" /\ worker' = [worker EXCEPT ![w] = Idle] /\ GateLeaves
      /\ noticed' = noticed \cup {d.inc} /\ Linked(d) /\ StoreRefused(d) /\ Become(g)
  BY DEF GateRefusesStore, Done, Notice
<1>2. d \in Documents /\ d.inc \in Incarnations
  BY <1>1, WorkerParts
<1>3. /\ Opened(d) \in Gates /\ GateInv(Opened(d), mirror) /\ Kept(rows) \subseteq Kept(Opened(d).rows)
      /\ Opened(d).mgmt = mgmt
  BY <1>2, OpenedKeeps
<1>4. /\ m \in Managements /\ m.link = mgmt.link /\ m.inc = mgmt.inc /\ m.source = mgmt.source
      /\ m.pendSource = mgmt.pendSource /\ m.aware = mgmt.aware /\ m.rekey = mgmt.rekey
      /\ m.pend \in {mgmt.pend, d.inc}
  <2>1. mgmt \in Managements
    BY ReadsParts
  <2>2. QED
    BY <1>2, <2>1, RegisterKeeps
<1>5. NoticeInv(m, noticed \cup {d.inc})
  <2>1. mgmt \in Managements /\ noticed \subseteq Incarnations /\ NoticeInv(mgmt, noticed)
    BY ReadsParts
  <2>2. CASE Ambiguous(mgmt, d.inc)
    BY <1>2, <2>1, <2>2, RegisterNotices
  <2>3. CASE ~Ambiguous(mgmt, d.inc)
    BY <1>1, <1>2, <2>1, <2>3, RefusedNotices DEF StoreRefused
  <2>4. QED
    BY <2>2, <2>3
<1>6. g = [Opened(d) EXCEPT !.mgmt = m]
  OBVIOUS
<1> HIDE DEF m, g
<1>7. g \in Gates /\ g.mgmt = m /\ g.rows = Opened(d).rows /\ g.blanked = Opened(d).blanked
  BY <1>3, <1>4, <1>6 DEF Gates, TabGates
<1>8. GateInv(g, mirror)
  <2>1. m.pend = 0 => mgmt.pend = 0
    BY <1>2, <1>4, Constants
  <2>2. SourceInv(m) /\ (g.blanked # {} => Marked(m))
    BY <1>3, <1>4, <1>7, <2>1 DEF GateInv, BlankInv, SourceInv, Marked
  <2>3. mirror \in [Families -> Identities]
    BY ReadsParts
  <2>4. QED
    BY <1>3, <1>4, <1>7, <2>2, <2>3, MarkersKeep
<1>9. noticed' \subseteq Incarnations
  BY <1>1, <1>2, ReadsParts
<1>10. ~mgmt.rekey
  BY <1>1 DEF Linked
<1>11. ReadsInv'
  BY <1>1, <1>3, <1>5, <1>7, <1>8, <1>9, <1>10, IdlePlan, GateStepKeeps
<1>12. QED
  BY <1>1, <1>4, <1>7, <1>11 DEF Become

LEMMA RefusesSourceKeeps ==
    ASSUME ReadsInv, NEW w \in Workers, GateRefusesSource(w)
    PROVE  ReadsInv' /\ Adopts(w)
<1> DEFINE d == worker[w].doc
           g == AfterStore(d)
<1>1. /\ worker[w].pc # "idle" /\ worker' = [worker EXCEPT ![w] = Idle] /\ GateLeaves
      /\ noticed' = noticed \cup {d.inc} /\ Linked(d) /\ ~StoreRefused(d) /\ Become(g)
  BY DEF GateRefusesSource, Done, Notice
<1>2. d \in Documents /\ d.inc \in Incarnations
  BY <1>1, WorkerParts
<1>3. /\ g \in Gates /\ GateInv(g, mirror) /\ Kept(rows) \subseteq Kept(g.rows)
      /\ NoticeInv(g.mgmt, noticed \cup {d.inc}) /\ g.mgmt.inc = d.inc
  BY <1>1, <1>2, ReadsParts, StoreGate
<1>4. noticed' \subseteq Incarnations /\ ~mgmt.rekey
  BY <1>1, <1>2, ReadsParts DEF Linked
<1>5. Adopts(w)
  BY <1>1, <1>2, <1>3 DEF Adopts, Become, StoreRefused
<1> HIDE DEF g
<1>6. QED
  BY <1>1, <1>3, <1>4, <1>5, IdlePlan, GateStepKeeps

LEMMA SkipsStaleKeeps ==
    ASSUME ReadsInv, NEW w \in Workers, GateSkipsStale(w)
    PROVE  ReadsInv' /\ Adopts(w)
<1> DEFINE d == worker[w].doc
           g == AfterSource(d)
<1>1. /\ worker[w].pc # "idle" /\ worker' = [worker EXCEPT ![w] = Idle] /\ GateLeaves
      /\ noticed' = noticed \cup {d.inc} /\ InOrder(d) /\ Become(g)
  BY DEF GateSkipsStale, Done, Notice
<1>2. d \in Documents /\ d.inc \in Incarnations
  BY <1>1, WorkerParts
<1>3. /\ g \in Gates /\ GateInv(g, mirror) /\ Kept(rows) \subseteq Kept(g.rows)
      /\ NoticeInv(g.mgmt, noticed \cup {d.inc}) /\ g.mgmt.inc = d.inc
  BY <1>1, <1>2, ReadsParts, SourceGate DEF InEpoch, Payload, Identity
<1>4. noticed' \subseteq Incarnations /\ ~mgmt.rekey
  BY <1>1, <1>2, ReadsParts DEF InOrder, Linked
<1>5. Adopts(w)
  BY <1>1, <1>2, <1>3 DEF Adopts, Become, InOrder, StoreRefused
<1> HIDE DEF g
<1>6. QED
  BY <1>1, <1>3, <1>4, <1>5, IdlePlan, GateStepKeeps

LEMMA AdmitsKeeps ==
    ASSUME ReadsInv, NEW w \in Workers, GateAdmits(w)
    PROVE  ReadsInv' /\ Adopts(w)
<1> DEFINE d == worker[w].doc
           s == AfterSource(d)
           g == Admit(s, d)
           h == ClearSource(ClearReset(g))
           p == [worker[w] EXCEPT !.pc = "plan", !.seq = g.rows[d.family].seq]
<1>1. /\ worker[w].pc # "idle" /\ GateLeaves /\ noticed' = noticed \cup {d.inc}
      /\ InOrder(d) /\ ~Stale(d) /\ Become(h)
      /\ worker' = [worker EXCEPT ![w].pc = "plan", ![w].seq = g.rows[d.family].seq]
  BY DEF GateAdmits, Notice
<1>2. d \in Documents /\ d.inc \in Incarnations /\ d.family \in Families /\ worker[w] \in Busy
  BY <1>1, WorkerParts
<1>3. /\ s \in Gates /\ GateInv(s, mirror) /\ s.rows[d.family] # None /\ Kept(rows) \subseteq Kept(s.rows)
      /\ InEpoch(s.mgmt, Payload(d)) /\ s.mgmt.rekey = mgmt.rekey
      /\ NoticeInv(s.mgmt, noticed \cup {d.inc})
  BY <1>1, <1>2, ReadsParts, SourceGate
<1>4. ~(d.att < s.rows[d.family].admitted.att)
  BY <1>1 DEF Stale
<1>5. mirror \in [Families -> Identities]
  BY ReadsParts
<1> HIDE DEF s
<1>6. /\ g \in Gates /\ GateInv(g, mirror) /\ Kept(g.rows) = Kept(s.rows) /\ g.mgmt = s.mgmt
      /\ g.rows[d.family].seq \in Nat
  BY <1>2, <1>3, <1>4, <1>5, AdmitKeeps
<1> HIDE DEF g
<1>7. /\ h \in Gates /\ GateInv(h, mirror) /\ h.rows = g.rows
      /\ h.mgmt.inc = g.mgmt.inc
      /\ \/ h.mgmt.pend = g.mgmt.pend /\ h.mgmt.conflict = g.mgmt.conflict
         \/ g.mgmt.pend = g.mgmt.inc /\ h.mgmt.pend = 0 /\ h.mgmt.conflict = 0
  BY <1>5, <1>6, ClearsKeep
<1> HIDE DEF h
<1>8. noticed' \subseteq Incarnations /\ ~mgmt.rekey
  BY <1>1, <1>2, ReadsParts DEF InOrder, Linked
<1>9. NoticeInv(h.mgmt, noticed')
  <2>1. g.mgmt \in Managements /\ NoticeInv(g.mgmt, noticed')
    BY <1>1, <1>3, <1>6, GateType
  <2>2. QED
    BY <1>7, <1>8, <2>1, ClearNotices
<1>10. worker' = [worker EXCEPT ![w] = p]
  BY <1>1
<1>11. p \in Busy /\ p.pc = "plan" /\ p.doc = d
  <2> DEFINE n == g.rows[d.family].seq
  <2>1. n \in Nat
    BY <1>6
  <2> HIDE DEF n, d
  <2>2. p = [worker[w] EXCEPT !.pc = "plan", !.seq = n]
    BY DEF n, d
  <2> HIDE DEF p
  <2>3. p \in Busy /\ p.pc = "plan" /\ p.doc = worker[w].doc
    BY <1>2, <2>1, <2>2 DEF Busy
  <2>4. QED
    BY <2>3 DEF d
<1> HIDE DEF p
<1>12. PlanOK(p, h.rows)
  <2>1. d.family \in Kept(h.rows)
    BY <1>2, <1>3, <1>6, <1>7 DEF Kept
  <2>2. QED
    BY <1>11, <2>1 DEF PlanOK, Kept
<1>13. Adopts(w)
  <2>1. h.mgmt.inc = d.inc
    BY <1>3, <1>6, <1>7 DEF InEpoch, Payload, Identity
  <2>2. QED
    BY <1>1, <1>2, <2>1 DEF Adopts, Become, InOrder, StoreRefused
<1>14. QED
  BY <1>1, <1>3, <1>6, <1>7, <1>8, <1>9, <1>10, <1>11, <1>12, <1>13, GateStepKeeps

LEMMA ObservesKeeps ==
    ASSUME ReadsInv, NEW w \in Workers, GateObserves(w)
    PROVE  ReadsInv' /\ Adopts(w)
<1> DEFINE d == worker[w].doc
           s == AfterSource(d)
           o == AdvanceObserved(s, d)
           h == IF Regresses(s, d) THEN s ELSE ClearSource(ClearReset(o))
<1>1. /\ worker[w].pc # "idle" /\ GateLeaves /\ noticed' = noticed \cup {d.inc}
      /\ InOrder(d) /\ Become(h) /\ worker' = [worker EXCEPT ![w] = Idle]
  BY DEF GateObserves, Notice, Done
<1>2. d \in Documents /\ d.inc \in Incarnations /\ d.family \in Families
  BY <1>1, WorkerParts
<1>3. /\ s \in Gates /\ GateInv(s, mirror) /\ s.rows[d.family] # None /\ Kept(rows) \subseteq Kept(s.rows)
      /\ NoticeInv(s.mgmt, noticed \cup {d.inc}) /\ s.mgmt.inc = d.inc
  BY <1>1, <1>2, ReadsParts, SourceGate DEF InEpoch, Payload, Identity
<1>4. mirror \in [Families -> Identities] /\ noticed' \subseteq Incarnations /\ ~mgmt.rekey
  BY <1>1, <1>2, ReadsParts DEF InOrder, Linked
<1> HIDE DEF s
<1>5. /\ h \in Gates /\ GateInv(h, mirror) /\ Kept(h.rows) = Kept(s.rows) /\ NoticeInv(h.mgmt, noticed')
      /\ h.mgmt.inc = d.inc
  <2>1. CASE Regresses(s, d)
    BY <1>1, <1>3, <2>1
  <2>2. CASE ~Regresses(s, d)
    <3>1. h = ClearSource(ClearReset(o))
      BY <2>2
    <3>2. o \in Gates /\ GateInv(o, mirror) /\ Kept(o.rows) = Kept(s.rows) /\ o.mgmt = s.mgmt
      BY <1>2, <1>3, <1>4, AdvanceObservedKeeps
    <3> HIDE DEF o, h
    <3>3. /\ h \in Gates /\ GateInv(h, mirror) /\ h.rows = o.rows
          /\ h.mgmt.inc = o.mgmt.inc
          /\ \/ h.mgmt.pend = o.mgmt.pend /\ h.mgmt.conflict = o.mgmt.conflict
             \/ o.mgmt.pend = o.mgmt.inc /\ h.mgmt.pend = 0 /\ h.mgmt.conflict = 0
      BY <1>4, <3>1, <3>2, ClearsKeep
    <3>4. o.mgmt \in Managements /\ NoticeInv(o.mgmt, noticed')
      BY <1>1, <1>3, <3>2, GateType
    <3>5. NoticeInv(h.mgmt, noticed')
      BY <1>4, <3>3, <3>4, ClearNotices
    <3>6. QED
      BY <1>3, <3>2, <3>3, <3>5
  <2>3. QED
    BY <2>1, <2>2
<1> HIDE DEF h
<1>6. Adopts(w)
  BY <1>1, <1>2, <1>5 DEF Adopts, Become, InOrder, StoreRefused
<1>7. QED
  BY <1>1, <1>3, <1>4, <1>5, <1>6, IdlePlan, GateStepKeeps

-----------------------------------------------------------------------------
(* The steps that rewrite one row and what its overlays were written from  *)

LEMMA RowStepKeeps ==
    ASSUME ReadsInv, NEW f \in Families, NEW r \in ReadStates, NEW x \in Identities,
           RowOK(mgmt, r), MirrorOK(mgmt, r, x), f \in blanked => ~r.seen,
           rows' = [rows EXCEPT ![f] = r], mirror' = [mirror EXCEPT ![f] = x],
           UNCHANGED <<mgmt, blanked, noticed>>
    PROVE  /\ rows' \in Rows /\ mirror' \in [Families -> Identities] /\ Kept(rows) \subseteq Kept(rows')
           /\ GateInv(Device, mirror)'
           /\ NoticeInv(mgmt, noticed)'
<1>1. /\ rows \in Rows /\ mirror \in [Families -> Identities] /\ blanked \subseteq Families
      /\ GateInv(Device, mirror) /\ NoticeInv(mgmt, noticed)
      /\ Device.mgmt = mgmt /\ Device.rows = rows /\ Device.blanked = blanked
  BY ReadsParts DEF ReadsInv, TypeOK, Rows
<1>2. r # None
  BY NoneAssumption
<1>3. /\ \A e \in Families : rows'[e] = IF e = f THEN r ELSE rows[e]
      /\ \A e \in Families : mirror'[e] = IF e = f THEN x ELSE mirror[e]
      /\ rows' \in Rows /\ mirror' \in [Families -> Identities]
  BY <1>1 DEF Rows
<1>4. Kept(rows) \subseteq Kept(rows')
  BY <1>2, <1>3 DEF Kept
<1>5. ASSUME NEW e \in Families PROVE FamilyOK(mgmt, rows', mirror', e)
  BY <1>1, <1>2, <1>3 DEF GateInv, FamilyOK
<1>6. \A e \in blanked : rows'[e] # None /\ ~rows'[e].seen
  BY <1>1, <1>2, <1>3 DEF GateInv, BlankInv
<1>7. SourceInv(mgmt) /\ (blanked # {} => Marked(mgmt))
  BY <1>1 DEF GateInv, BlankInv
<1>8. GateInv(Device, mirror)'
  BY <1>5, <1>6, <1>7 DEF GateInv, BlankInv, Device
<1>9. QED
  BY <1>1, <1>3, <1>4, <1>8

\* a legacy document wipes the row's admission, and its history
LEMMA RunsLegacyKeeps ==
    ASSUME ReadsInv, NEW w \in Workers, GateRunsLegacy(w)
    PROVE  ReadsInv'
<1> DEFINE d == worker[w].doc
           f == d.family
           row == LockedRow(rows, f)[f]
           n == row.seq + 1
           r == [BlankRow EXCEPT !.seq = n, !.applied = row.applied, !.appliedSeq = row.appliedSeq]
           p == [worker[w] EXCEPT !.pc = "plan", !.seq = n]
<1>1. /\ worker[w].pc # "idle" /\ ~mgmt.rekey /\ rows' = [rows EXCEPT ![f] = r]
      /\ worker' = [worker EXCEPT ![w].pc = "plan", ![w].seq = row.seq + 1]
      /\ mirror' = [mirror EXCEPT ![f] = Nothing]
      /\ UNCHANGED <<mgmt, blanked, noticed, adapter, tab, owner, apply, rekey, scenario, fetches, events>>
  BY DEF GateRunsLegacy, Linked, bounds
<1>2. d \in Documents /\ f \in Families /\ worker[w] \in Busy
  BY <1>1, WorkerParts
<1>3. row \in ReadStates /\ (rows[f] # None => row = rows[f]) /\ row.appliedSeq <= row.seq
  <2>1. CASE rows[f] = None
    <3>1. row = BlankRow
      BY <1>2, <2>1 DEF LockedRow, ReadsInv, TypeOK
    <3>2. QED
      BY <2>1, <3>1, BlankRowType
  <2>2. CASE rows[f] # None
    <3>1. row = rows[f] /\ rows[f] \in ReadStates
      BY <1>2, <2>2, ReadsParts DEF LockedRow
    <3>2. RowOK(mgmt, row)
      BY <1>2, <2>2, <3>1, ReadsParts DEF FamilyOK
    <3>3. QED
      BY <3>1, <3>2 DEF RowOK
  <2>3. QED
    BY <2>1, <2>2
<1> HIDE DEF row
<1>4. row.seq \in Nat /\ row.appliedSeq \in Nat /\ row.applied \in Identities /\ n \in Nat /\ n > row.appliedSeq
  <2>1. row.seq \in Nat /\ row.appliedSeq \in Nat /\ row.applied \in Identities
    BY <1>3 DEF ReadStates
  <2>2. QED
    BY <1>3, <2>1
<1>5. worker' = [worker EXCEPT ![w] = p]
  BY <1>1
<1> HIDE DEF n
<1>6. /\ r \in ReadStates /\ r.admitted = Nothing /\ r.att = 0 /\ ~r.auth /\ ~r.seen /\ r.seq = n
      /\ r.applied = row.applied /\ r.appliedSeq = row.appliedSeq
  BY <1>4, BlankRowType DEF ReadStates
<1> HIDE DEF r
<1>7. RowOK(mgmt, r) /\ MirrorOK(mgmt, r, Nothing)
  BY <1>4, <1>6, NothingType DEF RowOK, MirrorOK
<1>8. /\ rows' \in Rows /\ mirror' \in [Families -> Identities] /\ Kept(rows) \subseteq Kept(rows')
      /\ GateInv(Device, mirror)'
      /\ NoticeInv(mgmt, noticed)'
  BY <1>1, <1>2, <1>6, <1>7, NothingType, RowStepKeeps
<1>9. p \in Busy /\ p.pc = "plan" /\ p.doc = d
  BY <1>2, <1>4 DEF Busy
<1> HIDE DEF p
<1>10. TypeOK'
  <2>1. worker' \in [Workers -> {Idle} \cup Busy]
    BY <1>5, <1>9 DEF ReadsInv, TypeOK
  <2> HIDE DEF d
  <2>2. rows' \in [Families -> ReadStates \cup {None}] /\ mirror' \in [Families -> Identities]
    BY <1>8 DEF Rows
  <2>3. UNCHANGED <<mgmt, blanked, noticed, adapter, tab, owner, apply, rekey, scenario, fetches, events>>
    BY <1>1
  <2>4. QED
    BY <2>1, <2>2, <2>3 DEF ReadsInv, TypeOK
<1>11. RekeyInv' /\ TabInv' /\ InSyncWasSettled'
  <2>1. rekey = None
    BY <1>1 DEF ReadsInv, RekeyInv
  <2>2. QED
    BY <1>1, <2>1 DEF ReadsInv, RekeyInv, TabInv, InSyncWasSettled
<1>12. ASSUME NEW v \in Workers PROVE PlanOK(worker[v], rows)'
  <2>1. worker'[v] = (IF v = w THEN p ELSE worker[v]) /\ worker[v] \in {Idle} \cup Busy
    BY <1>5 DEF ReadsInv, TypeOK
  <2>2. CASE v = w
    <3>1. rows'[f] # None
      BY <1>1, <1>2, <1>6, NoneAssumption DEF ReadsInv, TypeOK
    <3>2. QED
      BY <1>9, <2>1, <2>2, <3>1 DEF PlanOK
  <2>3. CASE v # w
    BY <1>8, <2>1, <2>3, PlanStays DEF ReadsInv
  <2>4. QED
    BY <2>2, <2>3
<1>13. QED
  BY <1>8, <1>10, <1>11, <1>12 DEF ReadsInv

-----------------------------------------------------------------------------
(* The body                                                                *)

\* what a read may make of a row's status
LEMMA OnReconcileType ==
    ASSUME NEW s \in Statuses, NEW report
    PROVE  /\ OnReconcile(s, report) \in Statuses
           /\ OnReconcile(s, report) = "in_sync" => s \in {"accepted", "in_sync"}
<1>1. CASE report = "absent"
  BY <1>1 DEF OnReconcile, Statuses
<1>2. CASE report # "absent" /\ s \in {"apply_failed", "deploying"}
  BY <1>2 DEF OnReconcile, Statuses
<1>3. CASE report # "absent" /\ s \in {"accepted", "in_sync"}
  BY <1>3 DEF OnReconcile, Statuses
<1>4. CASE report # "absent" /\ s \notin {"apply_failed", "deploying", "accepted", "in_sync"}
  <2>1. OnReconcile(s, report) \in {"imported", "changed", "conflict"}
    BY <1>4 DEF OnReconcile
  <2>2. QED
    BY <2>1 DEF Statuses
<1>5. QED
  BY <1>1, <1>2, <1>3, <1>4

LEMMA TokenType ==
    ASSUME TypeOK
    PROVE  Token \in Tokens
<1>1. /\ mgmt.link \in Nat /\ mgmt.pend \in 0..Len(Born) /\ mgmt.inc \in 0..Len(Born)
      /\ mgmt.source \in 0..MaxSource /\ owner.rev \in Nat
  BY DEF TypeOK, Managements, Owners
<1>2. QED
  BY <1>1 DEF Token, MappingEpoch, Tokens

LEMMA PlanKeeps ==
    ASSUME ReadsInv, NEW w \in Workers, Plan(w)
    PROVE  ReadsInv'
<1> DEFINE d == worker[w].doc
           pc == IF d.family = OwnerFamily THEN "token" ELSE "publish"
           from == IF d.family = OwnerFamily THEN owner.status ELSE None
           plan == IF d.family = OwnerFamily THEN OnReconcile(owner.status, d.report) ELSE None
           p == [worker[w] EXCEPT !.pc = pc, !.from = from, !.plan = plan]
<1>1. /\ worker[w].pc = "plan"
      /\ \/ worker' = [worker EXCEPT ![w].pc = pc, ![w].from = from, ![w].plan = plan]
         \/ worker' = [worker EXCEPT ![w] = Idle]
      /\ UNCHANGED <<adapter, mgmt, rows, tab, owner, apply, rekey, mirror, blanked, noticed, scenario, fetches, events>>
  BY DEF Plan, Done, Leaves, bounds
<1>2. worker[w] \in Busy /\ PlanOK(worker[w], rows)
  BY <1>1, WorkerParts
<1>3. fetches' \in Nat /\ owner.status \in Statuses
  BY <1>1 DEF ReadsInv, TypeOK, Owners
<1>4. CASE worker' = [worker EXCEPT ![w] = Idle]
  BY <1>1, <1>3, <1>4, IdlePlan, WorkerStepKeeps
<1>5. CASE worker' = [worker EXCEPT ![w].pc = pc, ![w].from = from, ![w].plan = plan]
  <2>1. /\ pc \in {"token", "publish"} /\ from \in Statuses \cup {None} /\ plan \in Statuses \cup {None}
        /\ d.family = OwnerFamily => /\ from \in Statuses /\ plan \in Statuses
                                     /\ plan = "in_sync" => from \in {"accepted", "in_sync"}
    BY <1>3, OnReconcileType
  <2>2. worker' = [worker EXCEPT ![w] = p]
    BY <1>5
  <2> HIDE DEF pc, from, plan
  <2>3. p \in Busy /\ p.pc = pc /\ p.from = from /\ p.plan = plan /\ p.doc = d
    BY <1>2, <2>1 DEF Busy
  <2>4. rows[d.family] # None
    BY <1>1, <1>2 DEF PlanOK
  <2> HIDE DEF p
  <2>5. PlanOK(p, rows)
    BY <2>1, <2>3, <2>4 DEF PlanOK
  <2>6. QED
    BY <1>1, <1>3, <2>2, <2>3, <2>5, WorkerStepKeeps
<1>6. QED
  BY <1>1, <1>4, <1>5

LEMMA CaptureTokenKeeps ==
    ASSUME ReadsInv, NEW w \in Workers, CaptureToken(w)
    PROVE  ReadsInv'
<1> DEFINE t == Token
           p == [worker[w] EXCEPT !.pc = "publish", !.token = t]
<1>1. /\ worker[w].pc = "token" /\ worker' = [worker EXCEPT ![w] = p]
      /\ UNCHANGED <<adapter, mgmt, rows, tab, owner, apply, rekey, mirror, blanked, noticed, scenario, fetches, events>>
  BY DEF CaptureToken, Leaves, bounds
<1>2. worker[w] \in Busy /\ PlanOK(worker[w], rows)
  BY <1>1, WorkerParts
<1>3. fetches' \in Nat /\ t \in Tokens
  BY <1>1, TokenType DEF ReadsInv, TypeOK
<1> HIDE DEF t
<1>4. /\ p \in Busy /\ p.pc = "publish" /\ p.from = worker[w].from /\ p.plan = worker[w].plan
      /\ p.doc = worker[w].doc
  BY <1>2, <1>3 DEF Busy
<1> HIDE DEF p
<1>5. PlanOK(p, rows)
  BY <1>1, <1>2, <1>4 DEF PlanOK
<1>6. QED
  BY <1>1, <1>3, <1>4, <1>5, WorkerStepKeeps

LEMMA SupersededKeeps ==
    ASSUME ReadsInv, NEW w \in Workers, Superseded(w)
    PROVE  ReadsInv'
<1>1. /\ worker' = [worker EXCEPT ![w] = Idle]
      /\ UNCHANGED <<adapter, mgmt, rows, tab, owner, apply, rekey, mirror, blanked, noticed, scenario, fetches, events>>
  BY DEF Superseded, Done, Leaves, bounds
<1>2. fetches' \in Nat
  BY <1>1 DEF ReadsInv, TypeOK
<1>3. QED
  BY <1>1, <1>2, IdlePlan, WorkerStepKeeps

LEMMA BodyFailsKeeps ==
    ASSUME ReadsInv, NEW w \in Workers, BodyFails(w)
    PROVE  ReadsInv'
<1> DEFINE p == [worker[w] EXCEPT !.pc = "mark"]
<1>1. /\ worker[w].pc = "publish"
      /\ worker' = [worker EXCEPT ![w] = p] \/ worker' = [worker EXCEPT ![w] = Idle]
      /\ UNCHANGED <<adapter, mgmt, rows, tab, owner, apply, rekey, mirror, blanked, noticed, scenario, fetches, events>>
  BY DEF BodyFails, Leaves, bounds
<1>2. worker[w] \in Busy /\ PlanOK(worker[w], rows)
  BY <1>1, WorkerParts
<1>3. fetches' \in Nat
  BY <1>1 DEF ReadsInv, TypeOK
<1>4. /\ p \in Busy /\ p.pc = "mark" /\ p.from = worker[w].from /\ p.plan = worker[w].plan
      /\ p.doc = worker[w].doc
  BY <1>2 DEF Busy
<1> HIDE DEF p
<1>5. PlanOK(p, rows)
  BY <1>1, <1>2, <1>4 DEF PlanOK
<1>6. QED
  BY <1>1, <1>3, <1>4, <1>5, IdlePlan, WorkerStepKeeps

\* the device, its rows and their history are left alone
LEMMA OthersKeep ==
    ASSUME ReadsInv, UNCHANGED <<mgmt, rows, mirror, blanked, noticed>>, TypeOK', InSyncWasSettled', TabInv',
           rekey' # None => mgmt.rekey /\ rekey # None,
           \A v \in Workers : worker'[v] = worker[v] \/ worker'[v] = Idle
    PROVE  ReadsInv'
<1>1. GateInv(Device, mirror) /\ NoticeInv(mgmt, noticed) /\ RekeyInv /\ \A v \in Workers : PlanOK(worker[v], rows)
  BY DEF ReadsInv
<1>2. GateInv(Device, mirror)'
  BY <1>1, GateBecomes DEF Become, Device
<1>3. NoticeInv(mgmt, noticed)' /\ RekeyInv'
  BY <1>1 DEF RekeyInv
<1>4. ASSUME NEW v \in Workers PROVE PlanOK(worker[v], rows)'
  <2>1. PlanOK(worker'[v], rows)
    BY <1>1, IdlePlan
  <2>2. QED
    BY <2>1
<1>5. QED
  BY <1>2, <1>3, <1>4 DEF ReadsInv

LEMMA DoneType ==
    ASSUME TypeOK, NEW w \in Workers, Done(w)
    PROVE  /\ worker' \in [Workers -> {Idle} \cup Busy]
           /\ \A v \in Workers : worker'[v] = worker[v] \/ worker'[v] = Idle
BY DEF TypeOK, Done

LEMMA MarkErrorKeeps ==
    ASSUME ReadsInv, NEW w \in Workers, MarkError(w)
    PROVE  ReadsInv'
<1>1. /\ UNCHANGED <<mgmt, rows, mirror, adapter, tab, apply, rekey, blanked, noticed, scenario, fetches, events>>
      /\ Done(w)
      /\ owner' = owner \/ owner' = [owner EXCEPT !.status = "error", !.rev = owner.rev + 1]
  BY DEF MarkError, Leaves, bounds
<1>2. owner' \in Owners /\ (owner' = owner \/ owner'.status = "error")
  <2> DEFINE n == owner.rev + 1
  <2>1. owner \in Owners /\ n \in Nat /\ "error" \in Statuses
    BY DEF ReadsInv, TypeOK, Owners, Statuses
  <2>2. owner' = owner \/ owner' = [owner EXCEPT !.status = "error", !.rev = n]
    BY <1>1
  <2> HIDE DEF n
  <2>3. QED
    BY <2>1, <2>2 DEF Owners
<1>3. TypeOK
  BY DEF ReadsInv
<1>4. TypeOK'
  BY <1>1, <1>2, <1>3, DoneType DEF TypeOK, Owners
<1>5. InSyncWasSettled'
  BY <1>2 DEF ReadsInv, InSyncWasSettled
<1>6. TabInv' /\ (rekey' # None => mgmt.rekey /\ rekey # None)
  BY <1>1 DEF ReadsInv, TabInv, RekeyInv
<1>7. QED
  BY <1>1, <1>3, <1>4, <1>5, <1>6, DoneType, OthersKeep

LEMMA DecisionType ==
    ASSUME NEW w \in Workers, worker[w].doc \in Documents
    PROVE  /\ Decision(w) \in Identities
           /\ worker[w].doc.legacy => Decision(w) = Nothing
           /\ ~worker[w].doc.legacy => Decision(w) = Payload(worker[w].doc)
BY NothingType, Constants DEF Decision, Payload, Identity, Identities, Documents

\* what a body makes of the overlay row
LEMMA WriteOwnerKeeps ==
    ASSUME ReadsInv, NEW w \in Workers, worker[w].pc = "publish", worker[w].doc.family = OwnerFamily,
           ~PlanIsStale(w), NEW o, o = WriteOwner(w)
    PROVE  /\ o \in Owners /\ o.claim = owner.claim /\ o.certified = owner.certified
           /\ o.status = "in_sync" => owner.status = "in_sync"
<1> DEFINE status == IF Protected(w) THEN owner.status ELSE worker[w].plan
           watermark == IF worker[w].doc.legacy THEN owner.watermark ELSE Decision(w)
           rev == IF status # owner.status \/ watermark # owner.watermark THEN owner.rev + 1 ELSE owner.rev
<1>1. worker[w] \in Busy /\ worker[w].doc \in Documents /\ PlanOK(worker[w], rows) /\ owner \in Owners
  BY WorkerParts DEF ReadsInv, TypeOK
<1>2. /\ worker[w].plan \in Statuses /\ worker[w].from \in Statuses
      /\ worker[w].plan = "in_sync" => worker[w].from \in {"accepted", "in_sync"}
  BY <1>1 DEF PlanOK
<1>3. status \in Statuses /\ watermark \in Identities /\ rev \in Nat
  <2>1. owner.status \in Statuses /\ owner.watermark \in Identities /\ owner.rev \in Nat
    BY <1>1 DEF Owners
  <2>2. QED
    BY <1>1, <1>2, <2>1, DecisionType
<1>4. status = "in_sync" => owner.status = "in_sync"
  <2>1. CASE Protected(w)
    BY <2>1
  <2>2. CASE ~Protected(w)
    <3>1. owner.status \in {worker[w].from, worker[w].plan}
      BY <2>2 DEF PlanIsStale
    <3>2. owner.status \notin {"accepted", "deploying", "apply_failed"}
      BY <2>2 DEF Protected
    <3>3. QED
      BY <1>2, <2>2, <3>1, <3>2
  <2>3. QED
    BY <2>1, <2>2
<1>5. o = [owner EXCEPT !.status = status, !.watermark = watermark, !.rev = rev]
  BY DEF WriteOwner
<1> HIDE DEF status, watermark, rev
<1>6. /\ o \in Owners /\ o.claim = owner.claim /\ o.certified = owner.certified /\ o.status = status
  BY <1>1, <1>3, <1>5 DEF Owners
<1>7. QED
  BY <1>4, <1>6

\* a body publishes: the row applied what it admitted, and the overlays come from that
LEMMA PublishKeeps ==
    ASSUME ReadsInv, NEW w \in Workers, Publish(w)
    PROVE  ReadsInv'
<1> DEFINE d == worker[w].doc
           f == d.family
           row == rows[f]
           x == Decision(w)
           n == worker[w].seq
           r == [row EXCEPT !.applied = x, !.appliedSeq = n]
<1>1. /\ worker[w].pc = "publish" /\ PublicationMatches(w) /\ ~PlanIsStale(w)
      /\ rows' = [rows EXCEPT ![f].applied = x, ![f].appliedSeq = n]
      /\ owner' = (IF f = OwnerFamily THEN WriteOwner(w) ELSE owner)
      /\ mirror' = [mirror EXCEPT ![f] = x]
      /\ worker' = [worker EXCEPT ![w] = Idle]
      /\ UNCHANGED <<mgmt, blanked, noticed, adapter, tab, apply, rekey, scenario, fetches, events>>
  BY DEF Publish, Done, Leaves, bounds
<1>2. d \in Documents /\ f \in Families /\ worker[w] \in Busy /\ PlanOK(worker[w], rows) /\ n \in Nat
  BY <1>1, WorkerParts DEF Busy
<1>3. row \in ReadStates /\ RowOK(mgmt, row) /\ MirrorOK(mgmt, row, mirror[f])
  BY <1>1, <1>2, ReadsParts DEF PlanOK, FamilyOK
<1>4. row.seq = n /\ row.admitted = x /\ ~mgmt.rekey
  BY <1>1 DEF PublicationMatches
<1>5. x \in Identities
  BY <1>2, DecisionType
<1>6. rows' = [rows EXCEPT ![f] = r]
  BY <1>1
<1>7. f \in blanked => ~row.seen
  BY ReadsParts DEF GateInv, BlankInv
<1> HIDE DEF x, n, row
<1>8. /\ r \in ReadStates /\ r.applied = x /\ r.appliedSeq = n /\ r.admitted = x /\ r.att = row.att
      /\ r.auth = row.auth /\ r.seq = n /\ r.seen = row.seen
  BY <1>2, <1>3, <1>4, <1>5 DEF ReadStates
<1> HIDE DEF r
<1>9. RowOK(mgmt, r)
  BY <1>2, <1>3, <1>4, <1>8 DEF RowOK
<1>10. MirrorOK(mgmt, r, x)
  <2>1. x = Nothing \/ InEpoch(mgmt, x)
    BY <1>3, <1>4 DEF RowOK
  <2>2. x.att \in Nat
    BY <1>5 DEF Identities
  <2>3. QED
    BY <1>8, <2>1, <2>2 DEF MirrorOK
<1>11. /\ rows' \in Rows /\ mirror' \in [Families -> Identities] /\ Kept(rows) \subseteq Kept(rows')
       /\ GateInv(Device, mirror)'
       /\ NoticeInv(mgmt, noticed)'
  <2> HIDE DEF f
  <2>1. QED
    BY <1>1, <1>2, <1>5, <1>6, <1>7, <1>8, <1>9, <1>10, RowStepKeeps DEF f
<1>12. owner' \in Owners /\ InSyncWasSettled'
  <2>1. owner \in Owners /\ InSyncWasSettled
    BY DEF ReadsInv, TypeOK
  <2>2. CASE f = OwnerFamily
    <3>1. /\ owner' \in Owners /\ owner'.claim = owner.claim /\ owner'.certified = owner.certified
          /\ owner'.status = "in_sync" => owner.status = "in_sync"
      BY <1>1, <2>2, WriteOwnerKeeps
    <3>2. QED
      BY <2>1, <3>1 DEF InSyncWasSettled
  <2>3. CASE f # OwnerFamily
    BY <1>1, <2>1, <2>3 DEF InSyncWasSettled
  <2>4. QED
    BY <2>2, <2>3
<1>13. TypeOK'
  <2>1. worker' \in [Workers -> {Idle} \cup Busy]
    BY <1>1 DEF ReadsInv, TypeOK
  <2> HIDE DEF d, f
  <2>2. rows' \in [Families -> ReadStates \cup {None}]
    BY <1>11 DEF Rows
  <2>3. UNCHANGED <<mgmt, blanked, noticed, adapter, tab, apply, rekey, scenario, fetches, events>>
    BY <1>1
  <2>4. QED
    BY <1>11, <1>12, <2>1, <2>2, <2>3 DEF ReadsInv, TypeOK
<1>14. RekeyInv' /\ TabInv'
  <2>1. rekey = None
    BY <1>4 DEF ReadsInv, RekeyInv
  <2>2. QED
    BY <1>1, <2>1 DEF ReadsInv, RekeyInv, TabInv
<1>15. ASSUME NEW v \in Workers PROVE PlanOK(worker[v], rows)'
  <2>1. worker'[v] = (IF v = w THEN Idle ELSE worker[v]) /\ worker[v] \in {Idle} \cup Busy
    BY <1>1 DEF ReadsInv, TypeOK
  <2>2. CASE v = w
    BY <2>1, <2>2, IdlePlan
  <2>3. CASE v # w
    BY <1>11, <2>1, <2>3, PlanStays DEF ReadsInv
  <2>4. QED
    BY <2>2, <2>3
<1>16. QED
  BY <1>11, <1>12, <1>13, <1>14, <1>15 DEF ReadsInv

-----------------------------------------------------------------------------
(* The adapter, the documents it hands out, and the owner                  *)

LEMMA DocumentType ==
    ASSUME TypeOK, NEW f \in Families
    PROVE  Document(f) \in Documents /\ Document(f).family = f /\ Document(f).link = mgmt.link
<1> DEFINE r == adapter.last[f]
<1>1. /\ adapter.inc \in Incarnations /\ adapter.source \in 0..MaxSource /\ adapter.legacy \in BOOLEAN
      /\ adapter.last \in [Families -> Reads] /\ mgmt.link \in Nat \ {0}
  BY DEF TypeOK, Adapters, Managements
<1>2. /\ r.att \in Nat /\ r.auth \in BOOLEAN /\ r.report \in Reports \cup {"match"}
      /\ r.auth => r.att > 0
  BY <1>1 DEF Reads
<1> HIDE DEF r
<1>3. Document(f) = [family |-> f, link |-> mgmt.link, legacy |-> adapter.legacy, inc |-> adapter.inc,
                     source |-> adapter.source, att |-> r.att, auth |-> r.auth, report |-> r.report]
  BY DEF Document, r
<1>4. QED
  BY <1>1, <1>2, <1>3 DEF Documents

LEMMA FetchKeeps ==
    ASSUME ReadsInv, NEW w \in Workers, Fetch(w)
    PROVE  ReadsInv'
<1>1. PICK f \in Families : worker' = [worker EXCEPT ![w] = [Idle EXCEPT !.pc = "gate", !.doc = Document(f)]]
  BY DEF Fetch
<1> DEFINE doc == Document(f)
           p == [Idle EXCEPT !.pc = "gate", !.doc = doc]
<1>2. doc \in Documents
  BY DocumentType DEF ReadsInv
<1> HIDE DEF doc
<1>3. p \in Busy /\ p.pc = "gate"
  BY <1>2 DEF Idle, Busy
<1> HIDE DEF p
<1>4. PlanOK(p, rows)
  BY <1>3 DEF PlanOK
<1>5. worker' = [worker EXCEPT ![w] = p]
  BY <1>1 DEF p, doc
<1>6. /\ UNCHANGED <<adapter, mgmt, rows, tab, owner, apply, rekey, mirror, blanked, noticed, scenario, events>>
      /\ fetches' = fetches + 1
  BY DEF Fetch, gateVars
<1>7. fetches' \in Nat
  BY <1>6 DEF ReadsInv, TypeOK
<1>8. QED
  BY <1>3, <1>4, <1>5, <1>6, <1>7, WorkerStepKeeps

\* a step of the adapter, or of a rekey call's answer
LEMMA AdapterStepKeeps ==
    ASSUME ReadsInv, adapter' \in Adapters, events' \in Nat,
           rekey' \in {None, Fenced} \cup {<<s>> : s \in 1..MaxSource}, rekey' # None => rekey # None,
           UNCHANGED <<mgmt, rows, mirror, blanked, noticed, worker, tab, owner, apply, scenario, fetches>>
    PROVE  ReadsInv'
<1>1. TypeOK' /\ TabInv' /\ InSyncWasSettled'
  BY DEF ReadsInv, TypeOK, TabInv, InSyncWasSettled
<1>2. rekey' # None => mgmt.rekey /\ rekey # None
  BY DEF ReadsInv, RekeyInv
<1>3. QED
  BY <1>1, <1>2, OthersKeep

\* a store that starts over
LEMMA RestartsType ==
    ASSUME NEW a \in Adapters
    PROVE  Restarts(a) \subseteq Adapters
<1> DEFINE n == a.attempts + 1
           old == [f \in Families |-> Unread]
           new == [f \in Families |-> [att |-> n, auth |-> TRUE, report |-> "match"]]
<1>1. n \in Nat /\ n > 0
  BY DEF Adapters
<1>2. Unread \in Reads /\ [att |-> n, auth |-> TRUE, report |-> "match"] \in Reads
  BY <1>1 DEF Reads, Unread
<1>3. old \in [Families -> Reads] /\ new \in [Families -> Reads]
  BY <1>2
<1>4. Restarts(a) = {[a EXCEPT !.last = old], [a EXCEPT !.attempts = n, !.last = new]}
  BY DEF Restarts
<1> HIDE DEF n, old, new
<1>5. QED
  BY <1>1, <1>3, <1>4 DEF Adapters

LEMMA AdapterKeeps ==
    ASSUME ReadsInv, AdapterStep
    PROVE  ReadsInv'
<1>1. adapter \in Adapters /\ events \in Nat
  BY DEF ReadsInv, TypeOK
<1>2. events' \in Nat /\ UNCHANGED <<mgmt, rows, mirror, blanked, noticed, worker, tab, owner, apply, scenario, fetches, rekey>>
  <2>1. AdapterLeaves /\ UNCHANGED rekey /\ \E kind \in Kinds : Event(kind)
    BY DEF AdapterStep, Refresh, SourceMoves, Rebuild, Downgrade, Kinds
  <2>2. QED
    BY <1>1, <2>1 DEF AdapterLeaves, gateVars, Event
<1>3. adapter' \in Adapters
  <2>1. ASSUME NEW f \in Families, Refresh(f) PROVE adapter' \in Adapters
    <3>1. PICK auth \in BOOLEAN, report \in Reports :
            adapter' = [adapter EXCEPT !.attempts = @ + 1,
                          !.last[f] = [att |-> adapter.attempts + 1, auth |-> auth, report |-> report]]
      BY <2>1 DEF Refresh
    <3> DEFINE n == adapter.attempts + 1
               r == [att |-> n, auth |-> auth, report |-> report]
               last == [adapter.last EXCEPT ![f] = r]
    <3>2. n \in Nat /\ n > 0
      BY <1>1 DEF Adapters
    <3>3. r \in Reads
      BY <3>2 DEF Reads
    <3>4. adapter' = [adapter EXCEPT !.attempts = n, !.last = last]
      BY <3>1
    <3> HIDE DEF r, n
    <3>5. last \in [Families -> Reads]
      BY <1>1, <3>3 DEF Adapters
    <3> HIDE DEF last
    <3>6. QED
      BY <1>1, <3>2, <3>4, <3>5 DEF Adapters
  <2>2. CASE SourceMoves
    <3> DEFINE s == adapter.source + 1
               a == [adapter EXCEPT !.source = s]
    <3>1. s \in 0..MaxSource
      BY <1>1, <2>2, Constants DEF SourceMoves, Adapters
    <3>2. adapter' \in Restarts(a)
      BY <2>2 DEF SourceMoves
    <3> HIDE DEF s
    <3>3. a \in Adapters
      BY <1>1, <3>1 DEF Adapters
    <3> HIDE DEF a
    <3>4. QED
      BY <3>2, <3>3, RestartsType
  <2>3. CASE Rebuild
    <3>1. PICK i \in Incarnations, s \in {0, 1} :
            adapter' \in Restarts([adapter EXCEPT !.inc = i, !.attempts = 0, !.source = s])
      BY <2>3 DEF Rebuild
    <3> DEFINE a == [adapter EXCEPT !.inc = i, !.attempts = 0, !.source = s]
    <3>2. s \in 0..MaxSource
      BY Constants
    <3>3. a \in Adapters
      BY <1>1, <3>2 DEF Adapters
    <3> HIDE DEF a
    <3>4. QED
      BY <3>1, <3>3, RestartsType DEF a
  <2>4. CASE Downgrade
    BY <1>1, <2>4 DEF Downgrade, Adapters
  <2>5. QED
    BY <2>1, <2>2, <2>3, <2>4 DEF AdapterStep
<1>4. rekey' \in {None, Fenced} \cup {<<s>> : s \in 1..MaxSource} /\ (rekey' # None => rekey # None)
  BY <1>2 DEF ReadsInv, TypeOK
<1>5. QED
  BY <1>2, <1>3, <1>4, AdapterStepKeeps

\* a step of the operator or of the Apply
LEMMA OwnerStepKeeps ==
    ASSUME ReadsInv, owner' \in Owners, owner'.status = "in_sync" => owner'.certified = owner'.claim,
           apply' \in [claim : Nat, prior : {"accepted", "apply_failed"}, watermark : Identities] \cup {None},
           events' \in Nat,
           UNCHANGED <<mgmt, rows, mirror, blanked, noticed, adapter, worker, tab, rekey, scenario, fetches>>
    PROVE  ReadsInv'
<1>1. TypeOK' /\ TabInv' /\ InSyncWasSettled'
  BY DEF ReadsInv, TypeOK, TabInv, InSyncWasSettled
<1>2. rekey' # None => mgmt.rekey /\ rekey # None
  BY DEF ReadsInv, RekeyInv
<1>3. QED
  BY <1>1, <1>2, OthersKeep

LEMMA SuccessorType ==
    ASSUME owner \in Owners, NEW s \in {"accepted", "imported"}
    PROVE  Successor(s) \in Owners /\ Successor(s).status = s
<1> DEFINE n == owner.rev + 1
           c == owner.claim + 1
<1>1. n \in Nat /\ c \in Nat /\ s \in Statuses
  BY DEF Owners, Statuses
<1>2. Successor(s) = [owner EXCEPT !.status = s, !.rev = n, !.claim = c, !.attempt = FALSE]
  BY DEF Successor
<1> HIDE DEF n, c
<1>3. QED
  BY <1>1, <1>2 DEF Owners

LEMMA OwnerKeeps ==
    ASSUME ReadsInv, OwnerStep
    PROVE  ReadsInv'
<1>1. /\ owner \in Owners /\ events \in Nat /\ InSyncWasSettled
      /\ apply \in [claim : Nat, prior : {"accepted", "apply_failed"}, watermark : Identities] \cup {None}
  BY DEF ReadsInv, TypeOK
<1>2. CASE Accept \/ Edit \/ Release
  <2>1. /\ \E s \in {"accepted", "imported"} : owner' = Successor(s)
        /\ UNCHANGED apply /\ OwnerLeaves /\ \E kind \in Kinds : Event(kind)
    BY <1>2 DEF Accept, Edit, Release, Kinds
  <2>2. owner' \in Owners /\ owner'.status # "in_sync"
    BY <1>1, <2>1, SuccessorType
  <2>3. QED
    BY <1>1, <2>1, <2>2, OwnerStepKeeps DEF OwnerLeaves, gateVars, Event
<1>3. CASE ApplyStarts
  <2> DEFINE n == owner.rev + 1
             x == IF rows[OwnerFamily] = None THEN Nothing ELSE rows[OwnerFamily].applied
  <2>1. x \in Identities
    <3>1. rows[OwnerFamily] = None \/ rows[OwnerFamily] \in ReadStates
      BY ReadsParts, Constants
    <3>2. QED
      BY <3>1, NothingType DEF ReadStates
  <2>2. owner.status \in {"accepted", "apply_failed"} /\ owner.claim \in Nat /\ n \in Nat /\ "deploying" \in Statuses
    BY <1>1, <1>3 DEF ApplyStarts, Owners, Statuses
  <2>3. /\ owner' = [owner EXCEPT !.status = "deploying", !.rev = n, !.attempt = TRUE]
        /\ apply' = [claim |-> owner.claim, prior |-> owner.status, watermark |-> x]
        /\ OwnerLeaves /\ Event("owner")
    BY <1>3 DEF ApplyStarts
  <2> HIDE DEF n, x
  <2>4. owner' \in Owners /\ owner'.status = "deploying"
    BY <1>1, <2>2, <2>3 DEF Owners
  <2>5. apply' \in [claim : Nat, prior : {"accepted", "apply_failed"}, watermark : Identities]
    BY <2>1, <2>2, <2>3
  <2>6. QED
    BY <1>1, <2>3, <2>4, <2>5, OwnerStepKeeps DEF OwnerLeaves, gateVars, Event
<1>4. CASE ApplySettles
  <2> DEFINE n == owner.rev + 1
  <2>1. /\ apply # None /\ apply' = None /\ OwnerLeaves /\ UNCHANGED <<scenario, events>>
        /\ owner' \in IF apply.claim # owner.claim THEN {owner}
             ELSE {[owner EXCEPT !.status = s, !.rev = n, !.attempt = TRUE, !.watermark = apply.watermark,
                                 !.certified = IF s = "in_sync" THEN apply.claim ELSE owner.certified] :
                      s \in {"in_sync", "apply_failed", apply.prior}}
    BY <1>4 DEF ApplySettles
  <2>2. owner' \in Owners /\ (owner'.status = "in_sync" => owner'.certified = owner'.claim)
    <3>1. CASE apply.claim # owner.claim
      BY <1>1, <2>1, <3>1 DEF InSyncWasSettled
    <3>2. CASE apply.claim = owner.claim
      <4>1. PICK s \in {"in_sync", "apply_failed", apply.prior} :
              owner' = [owner EXCEPT !.status = s, !.rev = n, !.attempt = TRUE, !.watermark = apply.watermark,
                          !.certified = IF s = "in_sync" THEN apply.claim ELSE owner.certified]
        BY <2>1, <3>2
      <4> DEFINE c == IF s = "in_sync" THEN apply.claim ELSE owner.certified
                 x == apply.watermark
      <4>2. /\ n \in Nat /\ x \in Identities /\ c \in Int /\ s \in Statuses /\ apply.claim \in Nat
        BY <1>1, <2>1 DEF Owners, Statuses
      <4>3. owner' = [owner EXCEPT !.status = s, !.rev = n, !.attempt = TRUE, !.watermark = x, !.certified = c]
        BY <4>1
      <4>4. s = "in_sync" => c = owner.claim
        BY <3>2
      <4> HIDE DEF n, c, x
      <4>5. owner' \in Owners /\ owner'.status = s /\ owner'.claim = owner.claim /\ owner'.certified = c
        BY <1>1, <4>2, <4>3 DEF Owners
      <4>6. QED
        BY <4>4, <4>5
    <3>3. QED
      BY <3>1, <3>2
  <2>3. QED
    BY <1>1, <2>1, <2>2, OwnerStepKeeps DEF OwnerLeaves, gateVars
<1>5. QED
  BY <1>2, <1>3, <1>4 DEF OwnerStep

LEMMA TabFetchesKeeps ==
    ASSUME ReadsInv, TabFetches
    PROVE  ReadsInv'
<1>1. /\ tab' = [f \in Families |-> Document(f)] /\ fetches' = fetches + 1
      /\ UNCHANGED <<adapter, mgmt, rows, worker, owner, apply, rekey, mirror, blanked, noticed, scenario, events>>
  BY DEF TabFetches, gateVars
<1>2. /\ tab' \in [Families -> Documents]
      /\ \A f \in Families : tab'[f].family = f /\ tab'[f].link = mgmt.link
  BY <1>1, DocumentType DEF ReadsInv
<1>3. TypeOK' /\ InSyncWasSettled'
  BY <1>1, <1>2 DEF ReadsInv, TypeOK, InSyncWasSettled
<1>4. TabInv'
  BY <1>2, Constants DEF TabInv
<1>5. rekey' # None => mgmt.rekey /\ rekey # None
  BY <1>1 DEF ReadsInv, RekeyInv
<1>6. QED
  BY <1>1, <1>3, <1>4, <1>5, OthersKeep

LEMMA TabObservesKeeps ==
    ASSUME ReadsInv, TabObserves
    PROVE  ReadsInv' /\ mgmt'.inc = mgmt.inc
<1>1. /\ tab # None /\ tab' = None
      /\ UNCHANGED <<adapter, worker, owner, apply, rekey, mirror, scenario, fetches, events>>
  BY DEF TabObserves, bounds
<1>2. tab \in [Families -> Documents]
  BY <1>1 DEF ReadsInv, TypeOK
<1>3. CASE ~(Linked(tab[OwnerFamily]) /\ mgmt.inc # 0)
  <2>1. UNCHANGED <<mgmt, rows, blanked, noticed>>
    BY <1>3 DEF TabObserves, gateVars
  <2>2. TypeOK' /\ TabInv' /\ InSyncWasSettled'
    BY <1>1, <2>1 DEF ReadsInv, TypeOK, TabInv, InSyncWasSettled
  <2>3. rekey' # None => mgmt.rekey /\ rekey # None
    BY <1>1 DEF ReadsInv, RekeyInv
  <2>4. QED
    BY <1>1, <2>1, <2>2, <2>3, OthersKeep
<1>4. CASE Linked(tab[OwnerFamily]) /\ mgmt.inc # 0
  <2> DEFINE g == Observed(tab)
             h == IF g.wrote THEN ClearSource(ClearReset(g)) ELSE g
  <2>1. Become(h) /\ noticed' = noticed \cup ({g.mgmt.inc, g.mgmt.pend} \ {0}) /\ ~mgmt.rekey
    BY <1>4 DEF TabObserves, Linked
  <2>2. TabOK(g)
    BY <1>2, <1>4, ReadsParts, ObservedKeeps
  <2> HIDE DEF g
  <2>3. /\ g \in Gates /\ GateInv(g, mirror) /\ Kept(rows) \subseteq Kept(g.rows) /\ g.mgmt.inc = mgmt.inc
        /\ NoticeInv(g.mgmt, noticed') /\ g.mgmt \in Managements
    BY <2>1, <2>2, GateType DEF TabOK, TabSeen, Gates
  <2>4. noticed' \subseteq Incarnations
    BY <2>1, <2>3, ReadsParts, BirthTypes
  <2>5. /\ h \in Gates /\ GateInv(h, mirror) /\ Kept(rows) \subseteq Kept(h.rows) /\ h.mgmt.inc = mgmt.inc
        /\ NoticeInv(h.mgmt, noticed')
    <3>1. CASE h = g
      BY <2>3, <3>1
    <3>2. CASE h = ClearSource(ClearReset(g))
      <4> HIDE DEF h
      <4>1. /\ h \in Gates /\ GateInv(h, mirror) /\ h.rows = g.rows /\ h.mgmt.inc = g.mgmt.inc
            /\ \/ h.mgmt.pend = g.mgmt.pend /\ h.mgmt.conflict = g.mgmt.conflict
               \/ g.mgmt.pend = g.mgmt.inc /\ h.mgmt.pend = 0 /\ h.mgmt.conflict = 0
        BY <2>3, <3>2, ReadsParts, ClearsKeep
      <4>2. NoticeInv(h.mgmt, noticed')
        BY <2>3, <2>4, <4>1, ClearNotices
      <4>3. QED
        BY <2>3, <4>1, <4>2
    <3>3. QED
      BY <3>1, <3>2
  <2> HIDE DEF h
  <2>6. mgmt' = h.mgmt /\ rows' = h.rows /\ blanked' = h.blanked
    BY <2>1 DEF Become
  <2>7. TypeOK'
    <3>1. h.mgmt \in Managements /\ h.rows \in Rows /\ h.blanked \subseteq Families
      BY <2>5, GateType
    <3>2. QED
      BY <1>1, <2>4, <2>6, <3>1 DEF ReadsInv, TypeOK, Rows
  <2>8. GateInv(Device, mirror)'
    BY <1>1, <2>1, <2>5, GateBecomes
  <2>9. NoticeInv(mgmt, noticed)'
    BY <2>5, <2>6
  <2>10. RekeyInv' /\ TabInv' /\ InSyncWasSettled'
    <3>1. rekey = None
      BY <2>1 DEF ReadsInv, RekeyInv
    <3>2. QED
      BY <1>1, <3>1 DEF ReadsInv, RekeyInv, TabInv, InSyncWasSettled
  <2>11. ASSUME NEW v \in Workers PROVE PlanOK(worker[v], rows)'
    <3>1. worker'[v] = worker[v] /\ worker[v] \in {Idle} \cup Busy /\ PlanOK(worker[v], rows)
      BY <1>1 DEF ReadsInv, TypeOK
    <3>2. PlanOK(worker[v], h.rows)
      BY <2>5, <3>1, PlanStays
    <3>3. QED
      BY <2>6, <3>1, <3>2
  <2>12. QED
    BY <2>5, <2>6, <2>7, <2>8, <2>9, <2>10, <2>11 DEF ReadsInv
<1>5. QED
  BY <1>3, <1>4

-----------------------------------------------------------------------------
(* Source rekey and relink                                                 *)

\* the device's rows and markers change outside the gate
LEMMA LinkStepKeeps ==
    ASSUME ReadsInv, mgmt' \in Managements, rows' \in Rows, blanked' \subseteq Families,
           mirror' \in [Families -> Identities], adapter' \in Adapters, events' \in Nat,
           rekey' \in {None, Fenced} \cup {<<s>> : s \in 1..MaxSource}, RekeyInv',
           SourceInv(mgmt'), \A f \in blanked' : rows'[f] # None /\ ~rows'[f].seen,
           blanked' # {} => Marked(mgmt'), \A f \in Families : FamilyOK(mgmt', rows', mirror', f),
           mgmt'.inc = mgmt.inc, mgmt'.pend = mgmt.pend, mgmt'.conflict = mgmt.conflict,
           Kept(rows) \subseteq Kept(rows'),
           UNCHANGED <<worker, tab, owner, apply, noticed, scenario, fetches>>
    PROVE  ReadsInv'
<1>1. TypeOK'
  BY DEF ReadsInv, TypeOK, Rows
<1>2. GateInv(Device, mirror)'
  BY DEF GateInv, BlankInv, Device
<1>3. NoticeInv(mgmt, noticed)' /\ TabInv' /\ InSyncWasSettled'
  BY DEF ReadsInv, NoticeInv, TabInv, InSyncWasSettled
<1>4. ASSUME NEW v \in Workers PROVE PlanOK(worker[v], rows)'
  <2>1. worker'[v] = worker[v] /\ worker[v] \in {Idle} \cup Busy /\ PlanOK(worker[v], rows)
    BY DEF ReadsInv, TypeOK
  <2>2. PlanOK(worker[v], rows')
    BY <2>1, PlanStays
  <2>3. QED
    BY <2>1, <2>2
<1>5. QED
  BY <1>1, <1>2, <1>3, <1>4 DEF ReadsInv

\* the link moved on
LEMMA LinkMovesOn ==
    ASSUME ReadsInv, NEW m \in Managements, m.link > mgmt.link
    PROVE  /\ Reset(rows) \in Rows /\ Kept(Reset(rows)) = Kept(rows)
           /\ \A f \in Families : Reset(rows)[f] # None => ~Reset(rows)[f].seen /\ Reset(rows)[f].admitted = Nothing
           /\ \A f \in Families : FamilyOK(m, Reset(rows), mirror, f)
<1>1. Device \in Gates /\ Device.mgmt = mgmt /\ Device.rows = rows /\ mirror \in [Families -> Identities]
  BY ReadsParts
<1>2. Later(m, mgmt) /\ \A f \in Families : FamilyOK(Device.mgmt, Device.rows, mirror, f)
  BY <1>1, ReadsParts DEF Later
<1>3. QED
  BY <1>1, <1>2, ResetKeeps

LEMMA RekeyMarksKeeps ==
    ASSUME ReadsInv, RekeyMarks
    PROVE  ReadsInv' /\ mgmt'.inc = mgmt.inc
<1>1. /\ rekey = None /\ mgmt' = [mgmt EXCEPT !.rekey = TRUE] /\ Event("rekey")
      /\ UNCHANGED <<adapter, rows, blanked, rekey, mirror, worker, tab, owner, apply, noticed, fetches>>
  BY DEF RekeyMarks, RekeyLeaves
<1>2. TypeOK /\ GateInv(Device, mirror) /\ \A f \in Families : FamilyOK(mgmt, rows, mirror, f)
  BY ReadsParts
<1>3. /\ mgmt' \in Managements /\ mgmt'.link = mgmt.link /\ mgmt'.inc = mgmt.inc /\ mgmt'.source = mgmt.source
      /\ mgmt'.pend = mgmt.pend /\ mgmt'.conflict = mgmt.conflict /\ mgmt'.aware = mgmt.aware /\ mgmt'.rekey
  BY <1>1, ReadsParts DEF Managements
<1>4. SourceInv(mgmt') /\ \A f \in blanked' : rows'[f] # None /\ ~rows'[f].seen
  BY <1>1, <1>2, <1>3 DEF GateInv, BlankInv, SourceInv, Device
<1>5. Marked(mgmt')
  BY <1>3 DEF Marked
<1>6. \A f \in Families : FamilyOK(mgmt', rows', mirror', f)
  BY <1>1, <1>2, <1>3 DEF FamilyOK, RowOK, MirrorOK, InEpoch, Passed
<1>7. /\ rows' \in Rows /\ mirror' \in [Families -> Identities] /\ adapter' \in Adapters /\ events' \in Nat
      /\ blanked' \subseteq Families /\ rekey' \in {None, Fenced} \cup {<<s>> : s \in 1..MaxSource}
      /\ scenario' = scenario
  BY <1>1, <1>2 DEF TypeOK, Rows, Event
<1>8. RekeyInv'
  BY <1>1 DEF RekeyInv
<1>9. ReadsInv'
  BY <1>1, <1>3, <1>4, <1>5, <1>6, <1>7, <1>8, LinkStepKeeps
<1>10. QED
  BY <1>3, <1>9

LEMMA RekeyFencesKeeps ==
    ASSUME ReadsInv, RekeyFences
    PROVE  ReadsInv' /\ mgmt'.inc = mgmt.inc
<1>1. /\ mgmt.rekey /\ rekey = None /\ Become(Blank(Device)) /\ mirror' = [f \in Families |-> Nothing]
      /\ rekey' = Fenced
      /\ UNCHANGED <<adapter, scenario, events, worker, tab, owner, apply, noticed, fetches>>
  BY DEF RekeyFences, RekeyLeaves
<1>2. /\ TypeOK /\ GateInv(Device, mirror) /\ mgmt \in Managements
      /\ \A f \in Families : FamilyOK(mgmt, rows, mirror, f)
  BY ReadsParts
<1>3. mgmt' = mgmt /\ rows' = Reset(rows) /\ blanked' = blanked \cup Kept(rows)
  <2>1. Blank(Device) = [Device EXCEPT !.rows = Reset(rows), !.blanked = blanked \cup Kept(rows)]
    BY DEF Blank, Device
  <2>2. QED
    BY <1>1, <2>1 DEF Become, Device
<1> DEFINE n == mgmt.link + 1
           m == [mgmt EXCEPT !.link = n]
<1>4. m \in Managements /\ m.link > mgmt.link
  <2>1. n \in Nat \ {0} /\ n > mgmt.link
    BY <1>2 DEF Managements
  <2> HIDE DEF n
  <2>2. QED
    BY <1>2, <2>1 DEF Managements
<1> HIDE DEF m
<1>5. /\ rows' \in Rows /\ Kept(rows') = Kept(rows)
      /\ \A f \in Families : rows'[f] # None => ~rows'[f].seen /\ rows'[f].admitted = Nothing
      /\ \A f \in Families : FamilyOK(m, rows', mirror, f)
  BY <1>3, <1>4, LinkMovesOn
<1>6. SourceInv(mgmt') /\ \A f \in blanked' : rows'[f] # None /\ ~rows'[f].seen
  <2>1. blanked' \subseteq Kept(rows')
    BY <1>2, <1>3, <1>5 DEF GateInv, BlankInv, Device, TypeOK, Kept
  <2>2. QED
    BY <1>2, <1>3, <1>5, <2>1 DEF GateInv, SourceInv, Device, Kept
<1>7. Marked(mgmt')
  BY <1>1, <1>3 DEF Marked
<1>8. ASSUME NEW f \in Families PROVE FamilyOK(mgmt', rows', mirror', f)
  <2>1. mirror'[f] = Nothing
    BY <1>1
  <2>2. CASE rows'[f] = None
    BY <2>1, <2>2 DEF FamilyOK
  <2>3. CASE rows'[f] # None
    <3>1. rows'[f].admitted = Nothing /\ RowOK(m, rows'[f])
      BY <1>5, <2>3 DEF FamilyOK
    <3>2. RowOK(mgmt', rows'[f]) /\ MirrorOK(mgmt', rows'[f], Nothing)
      BY <3>1 DEF RowOK, MirrorOK
    <3>3. QED
      BY <2>1, <2>3, <3>2 DEF FamilyOK
  <2>4. QED
    BY <2>2, <2>3
<1>9. /\ mirror' \in [Families -> Identities] /\ adapter' \in Adapters /\ events' \in Nat
      /\ blanked' \subseteq Families /\ rekey' \in {None, Fenced} \cup {<<s>> : s \in 1..MaxSource}
  BY <1>1, <1>2, <1>3, NothingType DEF TypeOK, Kept
<1>10. RekeyInv'
  BY <1>1, <1>3, <1>5 DEF RekeyInv
<1>11. ReadsInv'
  BY <1>1, <1>2, <1>3, <1>5, <1>6, <1>7, <1>8, <1>9, <1>10, LinkStepKeeps
<1>12. QED
  BY <1>3, <1>11

LEMMA RekeyCallsKeeps ==
    ASSUME ReadsInv, RekeyCalls \/ RekeyFails
    PROVE  ReadsInv' /\ mgmt' = mgmt
<1>1. adapter \in Adapters /\ events \in Nat
  BY DEF ReadsInv, TypeOK
<1>2. CASE RekeyCalls
  <2> DEFINE s == adapter.source + 1
             a == [adapter EXCEPT !.source = s]
  <2>1. /\ rekey = Fenced /\ adapter.source < MaxSource /\ adapter' \in Restarts(a) /\ rekey' = <<s>>
        /\ UNCHANGED <<mgmt, rows, blanked, mirror, scenario, events, worker, tab, owner, apply, noticed, fetches>>
    BY <1>2 DEF RekeyCalls, RekeyLeaves
  <2>2. s \in 1..MaxSource /\ s \in 0..MaxSource
    BY <1>1, <2>1, Constants DEF Adapters
  <2> HIDE DEF s
  <2>3. a \in Adapters
    BY <1>1, <2>2 DEF Adapters
  <2> HIDE DEF a
  <2>4. adapter' \in Adapters
    BY <2>1, <2>3, RestartsType
  <2>5. rekey # None
    BY <2>1, NoneAssumption, Constants DEF Fenced
  <2>6. QED
    BY <1>1, <2>1, <2>2, <2>4, <2>5, AdapterStepKeeps
<1>3. CASE RekeyFails
  BY <1>1, <1>3, AdapterStepKeeps DEF RekeyFails, RekeyLeaves, Event
<1>4. QED
  BY <1>2, <1>3

LEMMA RekeyEndsKeeps ==
    ASSUME ReadsInv, RekeyEnds
    PROVE  ReadsInv' /\ mgmt'.inc = mgmt.inc
<1> DEFINE s == rekey[1]
           p == IF Kept(rows) # {} THEN s ELSE 0
<1>1. /\ rekey # None /\ rekey # Fenced /\ rekey' = None
      /\ mgmt' = [mgmt EXCEPT !.rekey = FALSE, !.source = s, !.aware = TRUE, !.pendSource = p]
      /\ UNCHANGED <<adapter, rows, blanked, mirror, scenario, events, worker, tab, owner, apply, noticed, fetches>>
  BY DEF RekeyEnds, RekeyLeaves
<1>2. /\ TypeOK /\ GateInv(Device, mirror) /\ mgmt \in Managements /\ RekeyInv
      /\ \A f \in Families : FamilyOK(mgmt, rows, mirror, f)
  BY ReadsParts DEF ReadsInv
<1>3. s \in 1..MaxSource /\ s \in 0..MaxSource /\ s # 0 /\ p \in 0..MaxSource
  BY <1>1, <1>2, Constants DEF TypeOK
<1>4. Kept(rows) # {} => p # 0
  BY <1>3
<1> HIDE DEF s, p
<1>5. /\ mgmt' \in Managements /\ mgmt'.inc = mgmt.inc /\ mgmt'.pend = mgmt.pend
      /\ mgmt'.conflict = mgmt.conflict /\ mgmt'.aware /\ mgmt'.pendSource = p
  BY <1>1, <1>2, <1>3 DEF Managements
<1>6. /\ SourceInv(mgmt') /\ \A f \in blanked' : rows'[f] # None /\ ~rows'[f].seen
      /\ blanked \subseteq Kept(rows)
  BY <1>1, <1>2, <1>5 DEF GateInv, BlankInv, SourceInv, Device, TypeOK, Kept
<1>7. blanked' # {} => Marked(mgmt')
  BY <1>1, <1>4, <1>5, <1>6 DEF Marked
<1>8. ASSUME NEW f \in Families PROVE FamilyOK(mgmt', rows', mirror', f)
  <2>1. mirror[f] = Nothing /\ (rows[f] # None => rows[f].admitted = Nothing)
    BY <1>1, <1>2 DEF RekeyInv
  <2>2. CASE rows[f] = None
    BY <1>1, <2>1, <2>2 DEF FamilyOK
  <2>3. CASE rows[f] # None
    <3>1. RowOK(mgmt, rows[f])
      BY <1>2, <2>3 DEF FamilyOK
    <3>2. RowOK(mgmt', rows[f]) /\ MirrorOK(mgmt', rows[f], Nothing)
      BY <2>1, <2>3, <3>1 DEF RowOK, MirrorOK
    <3>3. QED
      BY <1>1, <2>1, <2>3, <3>2 DEF FamilyOK
  <2>4. QED
    BY <2>2, <2>3
<1>9. /\ rows' \in Rows /\ mirror' \in [Families -> Identities] /\ adapter' \in Adapters /\ events' \in Nat
      /\ blanked' \subseteq Families /\ rekey' \in {None, Fenced} \cup {<<i>> : i \in 1..MaxSource}
  BY <1>1, <1>2 DEF TypeOK, Rows
<1>10. RekeyInv'
  BY <1>1 DEF RekeyInv
<1>11. ReadsInv'
  BY <1>1, <1>5, <1>6, <1>7, <1>8, <1>9, <1>10, LinkStepKeeps
<1>12. QED
  BY <1>5, <1>11

LEMMA RelinkKeeps ==
    ASSUME ReadsInv, Relink
    PROVE  ReadsInv' /\ mgmt'.inc = mgmt.inc
<1>1. PICK s \in 0..MaxSource :
        /\ adapter' \in Restarts([adapter EXCEPT !.source = s])
        /\ mgmt' = [mgmt EXCEPT !.link = @ + 1, !.source = s, !.aware = s # 0]
  BY DEF Relink
<1>2. /\ ~mgmt.rekey /\ rows' = Reset(rows) /\ Event("relink")
      /\ UNCHANGED <<blanked, rekey, mirror, worker, tab, owner, apply, noticed, fetches>>
  BY DEF Relink, RekeyLeaves
<1>3. /\ TypeOK /\ GateInv(Device, mirror) /\ mgmt \in Managements /\ RekeyInv
  BY ReadsParts DEF ReadsInv
<1> DEFINE n == mgmt.link + 1
           b == s # 0
           a == [adapter EXCEPT !.source = s]
<1>4. n \in Nat \ {0} /\ n > mgmt.link /\ b \in BOOLEAN
  BY <1>3 DEF Managements
<1>5. mgmt' = [mgmt EXCEPT !.link = n, !.source = s, !.aware = b]
  BY <1>1
<1>6. ~b => s = 0
  OBVIOUS
<1> HIDE DEF n, b
<1>7. /\ mgmt' \in Managements /\ mgmt'.link = n /\ mgmt'.inc = mgmt.inc /\ mgmt'.pend = mgmt.pend
      /\ mgmt'.conflict = mgmt.conflict /\ mgmt'.aware = b /\ mgmt'.source = s
      /\ mgmt'.pendSource = mgmt.pendSource /\ mgmt'.rekey = mgmt.rekey
  BY <1>3, <1>4, <1>5 DEF Managements
<1>8. /\ rows' \in Rows /\ Kept(rows') = Kept(rows)
      /\ \A f \in Families : rows'[f] # None => ~rows'[f].seen
      /\ \A f \in Families : FamilyOK(mgmt', rows', mirror, f)
  BY <1>2, <1>4, <1>7, LinkMovesOn
<1>9. SourceInv(mgmt')
  BY <1>6, <1>7 DEF SourceInv
<1>10. \A f \in blanked' : rows'[f] # None /\ ~rows'[f].seen
  <2>1. blanked' \subseteq Kept(rows')
    BY <1>2, <1>3, <1>8 DEF GateInv, BlankInv, Device, TypeOK, Kept
  <2>2. QED
    BY <1>8, <2>1 DEF Kept
<1>11. blanked' # {} => Marked(mgmt')
  BY <1>2, <1>3, <1>7 DEF GateInv, BlankInv, Device, Marked
<1>12. \A f \in Families : FamilyOK(mgmt', rows', mirror', f)
  BY <1>2, <1>8 DEF FamilyOK
<1>13. adapter' \in Adapters
  <2>1. a \in Adapters
    BY <1>3 DEF TypeOK, Adapters
  <2>2. adapter' \in Restarts(a)
    BY <1>1
  <2> HIDE DEF a
  <2>3. QED
    BY <2>1, <2>2, RestartsType
<1>14. /\ mirror' \in [Families -> Identities] /\ events' \in Nat /\ blanked' \subseteq Families
       /\ rekey' \in {None, Fenced} \cup {<<i>> : i \in 1..MaxSource} /\ scenario' = scenario
  BY <1>2, <1>3 DEF TypeOK, Event
<1>15. RekeyInv'
  BY <1>2, <1>3 DEF RekeyInv
<1>16. ReadsInv'
  BY <1>2, <1>7, <1>8, <1>9, <1>10, <1>11, <1>12, <1>13, <1>14, <1>15, LinkStepKeeps
<1>17. QED
  BY <1>7, <1>16

LEMMA LinkKeeps ==
    ASSUME ReadsInv, LinkStep
    PROVE  ReadsInv' /\ mgmt'.inc = mgmt.inc
<1>1. CASE RekeyMarks
  BY <1>1, RekeyMarksKeeps
<1>2. CASE RekeyFences
  BY <1>2, RekeyFencesKeeps
<1>3. CASE RekeyCalls \/ RekeyFails
  BY <1>3, RekeyCallsKeeps
<1>4. CASE RekeyEnds
  BY <1>4, RekeyEndsKeeps
<1>5. CASE Relink
  BY <1>5, RelinkKeeps
<1>6. QED
  BY <1>1, <1>2, <1>3, <1>4, <1>5 DEF LinkStep

-----------------------------------------------------------------------------
(* The invariant                                                           *)

LEMMA InitReads ==
    ASSUME Init
    PROVE  ReadsInv
<1>1. PICK settled \in BOOLEAN, source \in {0, 1}, owned \in BOOLEAN :
        LET first == Identity(1, 1, source, 1) IN
        /\ owned => settled
        /\ adapter = [inc |-> 1, source |-> source, legacy |-> FALSE, attempts |-> 1,
                      last |-> [f \in Families |-> [att |-> 1, auth |-> TRUE, report |-> "match"]]]
        /\ mgmt = [link |-> 1, inc |-> IF settled THEN 1 ELSE 0, pend |-> 0, conflict |-> 0,
                   source |-> IF settled THEN source ELSE 0, pendSource |-> 0,
                   aware |-> settled /\ source # 0, rekey |-> FALSE]
        /\ rows = [f \in Families |-> IF settled
                     THEN [seen |-> TRUE, att |-> 1, auth |-> TRUE, inc |-> 1, admitted |-> first,
                           applied |-> first, appliedSeq |-> 1, seq |-> 1]
                     ELSE None]
        /\ mirror = [f \in Families |-> IF settled THEN first ELSE Nothing]
        /\ owner = [status |-> IF owned THEN "in_sync" ELSE "imported", rev |-> 0, claim |-> 0,
                    attempt |-> owned, watermark |-> IF settled THEN first ELSE Nothing,
                    certified |-> IF owned THEN 0 ELSE -1]
        /\ worker = [w \in Workers |-> Idle]
        /\ tab = None /\ apply = None /\ rekey = None
        /\ blanked = {} /\ noticed = IF settled THEN {1} ELSE {}
        /\ scenario \in Scenarios /\ fetches = 0 /\ events = 0
        /\ source = 0 => "source" \in scenario
        /\ "owner" \in scenario => settled
  BY Zenon DEF Init
<1> DEFINE first == Identity(1, 1, source, 1)
           row == [seen |-> TRUE, att |-> 1, auth |-> TRUE, inc |-> 1, admitted |-> first,
                   applied |-> first, appliedSeq |-> 1, seq |-> 1]
<1>2. 1 \in Incarnations /\ 1 \in 0..Len(Born) /\ source \in 0..MaxSource
  BY Constants DEF Incarnations
<1>3. first \in Identities /\ first.link = 1 /\ first.inc = 1 /\ first.source = source /\ first.att = 1
  BY <1>2 DEF Identity, Identities
<1> HIDE DEF first
<1>4. /\ row \in ReadStates /\ row.admitted = first /\ row.applied = first /\ row.att = 1
      /\ row.appliedSeq = 1 /\ row.seq = 1
  BY <1>2, <1>3 DEF ReadStates
<1>5. /\ rows = [f \in Families |-> IF settled THEN row ELSE None]
      /\ mirror = [f \in Families |-> IF settled THEN first ELSE Nothing]
      /\ owner = [status |-> IF owned THEN "in_sync" ELSE "imported", rev |-> 0, claim |-> 0,
                  attempt |-> owned, watermark |-> IF settled THEN first ELSE Nothing,
                  certified |-> IF owned THEN 0 ELSE -1]
  BY <1>1 DEF first
<1> HIDE DEF row
<1>6. /\ mgmt \in Managements /\ mgmt.link = 1 /\ mgmt.inc = (IF settled THEN 1 ELSE 0)
      /\ mgmt.source = (IF settled THEN source ELSE 0) /\ mgmt.aware = (settled /\ source # 0)
      /\ mgmt.pend = 0 /\ mgmt.conflict = 0
  BY <1>1, <1>2, Constants DEF Managements
<1>7. TypeOK
  <2>1. adapter \in Adapters
    <3>1. [att |-> 1, auth |-> TRUE, report |-> "match"] \in Reads
      BY DEF Reads
    <3>2. QED
      BY <1>1, <1>2, <3>1 DEF Adapters
  <2>2. rows \in [Families -> ReadStates \cup {None}] /\ mirror \in [Families -> Identities]
    BY <1>3, <1>4, <1>5, NothingType
  <2>3. owner \in Owners
    BY <1>3, <1>5, NothingType DEF Owners, Statuses
  <2>4. worker \in [Workers -> {Idle} \cup Busy] /\ blanked \subseteq Families /\ noticed \subseteq Incarnations
    BY <1>1, <1>2
  <2>5. scenario \subseteq Kinds
    BY <1>1, ScenariosAssumption
  <2>6. tab = None /\ apply = None /\ rekey = None /\ fetches = 0 /\ events = 0
    BY <1>1
  <2>7. QED
    BY <1>6, <2>1, <2>2, <2>3, <2>4, <2>5, <2>6 DEF TypeOK
<1>8. ASSUME NEW f \in Families PROVE FamilyOK(mgmt, rows, mirror, f)
  <2>1. CASE settled
    <3>1. rows[f] = row /\ mirror[f] = first /\ row # None
      BY <1>4, <1>5, <2>1, NoneAssumption
    <3>2. InEpoch(mgmt, first)
      BY <1>3, <1>6, <2>1 DEF InEpoch
    <3>3. RowOK(mgmt, row) /\ MirrorOK(mgmt, row, first)
      BY <1>3, <1>4, <3>2 DEF RowOK, MirrorOK
    <3>4. QED
      BY <3>1, <3>3 DEF FamilyOK
  <2>2. CASE ~settled
    BY <1>5, <2>2 DEF FamilyOK
  <2>3. QED
    BY <2>1, <2>2
<1>9. GateInv(Device, mirror)
  BY <1>1, <1>6, <1>8 DEF GateInv, BlankInv, Device, SourceInv
<1>10. NoticeInv(mgmt, noticed)
  <2>1. Born[1] \in Nat /\ BornOf(1) = Born[1] /\ BornOf(0) = 0
    BY <1>2, Constants
  <2>2. CASE settled
    BY <1>1, <1>6, <2>1, <2>2 DEF NoticeInv
  <2>3. CASE ~settled
    BY <1>1, <1>6, <2>1, <2>3 DEF NoticeInv
  <2>4. QED
    BY <2>2, <2>3
<1>11. RekeyInv /\ TabInv /\ InSyncWasSettled
  BY <1>1, <1>5 DEF RekeyInv, TabInv, InSyncWasSettled
<1>12. \A w \in Workers : PlanOK(worker[w], rows)
  BY <1>1, IdlePlan
<1>13. QED
  BY <1>7, <1>9, <1>10, <1>11, <1>12 DEF ReadsInv

LEMMA StepReads ==
    ASSUME ReadsInv, [Next]_vars
    PROVE  ReadsInv'
<1>1. ASSUME NEW w \in Workers, Fetch(w) \/ GateStep(w) \/ BodyStep(w)
      PROVE  ReadsInv'
  <2>1. CASE Fetch(w)
    BY <2>1, FetchKeeps
  <2>2. CASE GateStep(w)
    BY <2>2, SkipsKeeps, RunsLegacyKeeps, RefusesStoreKeeps, RefusesSourceKeeps, SkipsStaleKeeps,
       AdmitsKeeps, ObservesKeeps DEF GateStep
  <2>3. CASE BodyStep(w)
    BY <2>3, PlanKeeps, CaptureTokenKeeps, PublishKeeps, SupersededKeeps, BodyFailsKeeps,
       MarkErrorKeeps DEF BodyStep
  <2>4. QED
    BY <1>1, <2>1, <2>2, <2>3
<1>2. CASE TabFetches \/ TabObserves
  BY <1>2, TabFetchesKeeps, TabObservesKeeps
<1>3. CASE AdapterStep \/ OwnerStep \/ LinkStep
  BY <1>3, AdapterKeeps, OwnerKeeps, LinkKeeps
<1>4. CASE UNCHANGED vars
  <2>1. UNCHANGED <<adapter, mgmt, rows, worker, tab, owner, apply, rekey, mirror, blanked, noticed,
                    scenario, fetches, events>>
    BY <1>4 DEF vars, bounds
  <2>2. TypeOK' /\ TabInv' /\ InSyncWasSettled' /\ (rekey' # None => mgmt.rekey /\ rekey # None)
    BY <2>1 DEF ReadsInv, TypeOK, TabInv, InSyncWasSettled, RekeyInv
  <2>3. QED
    BY <2>1, <2>2, OthersKeep
<1>5. QED
  BY <1>1, <1>2, <1>3, <1>4 DEF Next

\* What is known of a device: every admission is of its current link, store and
\* source, and the overlays were written from that or from something older.
THEOREM ReadsInvariant == Spec => []ReadsInv
<1>1. Init => ReadsInv
  BY InitReads
<1>2. ReadsInv /\ [Next]_vars => ReadsInv'
  BY StepReads
<1>3. QED
  BY <1>1, <1>2, PTL DEF Spec

-----------------------------------------------------------------------------
(* What a row that was observed, and one that was not, say of the overlays *)

\* an observed row is of the adopted store; one that is not was reset with a marker, or its overlays
\* were not written under this link
SeenOK(m, b, r, x, f) ==
    r # None =>
        IF r.seen THEN r.inc = m.inc
        ELSE /\ r.att = 0 /\ r.admitted = Nothing
             /\ f \in b \/ x = Nothing \/ x.link < m.link
SeenInv(g, x) == \A f \in Families : SeenOK(g.mgmt, g.blanked, g.rows[f], x[f], f)

\* markers do not matter to it
LEMMA MarkersSee ==
    ASSUME NEW g, NEW h, NEW x, SeenInv(g, x), h.rows = g.rows, h.blanked = g.blanked,
           h.mgmt.link = g.mgmt.link, h.mgmt.inc = g.mgmt.inc
    PROVE  SeenInv(h, x)
BY DEF SeenInv, SeenOK

\* a row that comes to be has no overlays
LEMMA LockedRowSees ==
    ASSUME NEW g \in Gates, NEW x \in [Families -> Identities], NEW f \in Families, GateInv(g, x), SeenInv(g, x),
           NEW h, h = [g EXCEPT !.rows = LockedRow(g.rows, f)]
    PROVE  SeenInv(h, x)
<1>1. h.mgmt = g.mgmt /\ h.blanked = g.blanked /\ h.rows = LockedRow(g.rows, f) /\ g.rows \in Rows
  BY LockedRowKeeps, GateType
<1>2. SUFFICES ASSUME NEW e \in Families
               PROVE  SeenOK(h.mgmt, h.blanked, h.rows[e], x[e], e)
  BY DEF SeenInv
<1>3. CASE e = f /\ g.rows[f] = None
  <2>1. h.rows[e] = BlankRow /\ x[e] = Nothing
    BY <1>1, <1>3 DEF LockedRow, GateInv, FamilyOK, Rows
  <2>2. QED
    BY <2>1, BlankRowType DEF SeenOK
<1>4. CASE ~(e = f /\ g.rows[f] = None)
  <2>1. h.rows[e] = g.rows[e]
    BY <1>1, <1>4 DEF LockedRow, Rows
  <2>2. QED
    BY <1>1, <2>1 DEF SeenInv
<1>5. QED
  BY <1>3, <1>4

\* an observation counts for the adopted store only
LEMMA AdvanceObservedSees ==
    ASSUME NEW g \in Gates, NEW x, NEW d \in Documents, g.rows[d.family] # None, SeenInv(g, x),
           d.inc = g.mgmt.inc, NEW h, h = AdvanceObserved(g, d)
    PROVE  /\ SeenInv(h, x) /\ h.mgmt = g.mgmt
           /\ h.rows \in Rows /\ h.rows[d.family] # None /\ h.rows[d.family].seen
<1> DEFINE f == d.family
           r == g.rows[f]
           s == [r EXCEPT !.seen = TRUE, !.att = d.att, !.auth = d.auth, !.inc = d.inc]
           rs == [g.rows EXCEPT ![f] = s]
<1>1. /\ g.rows \in Rows /\ g.blanked \subseteq Families /\ g.mgmt \in Managements
      /\ f \in Families /\ r \in ReadStates
      /\ d.att \in Nat /\ d.auth \in BOOLEAN /\ d.inc \in 0..Len(Born) /\ (d.auth => d.att > 0)
  BY GateType, Constants DEF Documents
<1>2. CASE Regresses(g, d)
  <2>1. h = g /\ d.att < r.att
    BY <1>2 DEF AdvanceObserved, Regresses
  <2>2. r.seen
    BY <1>1, <2>1 DEF SeenInv, SeenOK
  <2>3. QED
    BY <1>1, <2>1, <2>2
<1>3. CASE ~Regresses(g, d)
  <2>1. s \in ReadStates /\ s.seen /\ s.inc = d.inc
    BY <1>1 DEF ReadStates
  <2>2. s # None
    BY <2>1, NoneAssumption
  <2>3. h = [g EXCEPT !.rows = rs, !.blanked = g.blanked \ {f}]
    <3>1. h = [g EXCEPT !.rows[f] = s, !.blanked = @ \ {f}]
      BY <1>3 DEF AdvanceObserved
    <3> HIDE DEF s
    <3>2. QED
      BY <3>1
  <2> HIDE DEF s
  <2>4. rs \in Rows /\ \A e \in Families : rs[e] = IF e = f THEN s ELSE g.rows[e]
    BY <1>1, <2>1 DEF Rows
  <2> HIDE DEF rs
  <2>5. h.mgmt = g.mgmt /\ h.rows = rs /\ h.blanked = g.blanked \ {f}
    BY <1>1, <2>3, <2>4 DEF Gates, TabGates
  <2>6. ASSUME NEW e \in Families
        PROVE  SeenOK(h.mgmt, h.blanked, h.rows[e], x[e], e)
    <3>1. CASE e = f
      BY <2>1, <2>4, <2>5, <3>1 DEF SeenOK
    <3>2. CASE e # f
      <4>1. SeenOK(g.mgmt, g.blanked, g.rows[e], x[e], e) /\ h.rows[e] = g.rows[e]
        BY <2>4, <2>5, <3>2 DEF SeenInv
      <4>2. QED
        BY <2>5, <3>2, <4>1 DEF SeenOK
    <3>3. QED
      BY <3>1, <3>2
  <2>7. QED
    BY <1>1, <2>1, <2>2, <2>4, <2>5, <2>6 DEF SeenInv
<1>4. QED
  BY <1>2, <1>3

\* and so does an admission
LEMMA AdmitSees ==
    ASSUME NEW g \in Gates, NEW x \in [Families -> Identities], NEW d \in Documents, g.rows[d.family] # None,
           GateInv(g, x), SeenInv(g, x), d.inc = g.mgmt.inc, NEW h, h = Admit(g, d)
    PROVE  SeenInv(h, x)
<1> DEFINE o == AdvanceObserved(g, d)
           f == d.family
           r == o.rows[f]
           p == Payload(d)
           n == r.seq + 1
           s == [r EXCEPT !.admitted = p, !.seq = n]
           rs == [o.rows EXCEPT ![f] = s]
<1>0. o \in Gates
  BY AdvanceObservedKeeps
<1>1. SeenInv(o, x) /\ o.mgmt = g.mgmt /\ o.rows \in Rows /\ r # None /\ r.seen /\ o \in Gates
  BY <1>0, AdvanceObservedSees
<1>2. h = [o EXCEPT !.rows[f] = s]
  BY DEF Admit
<1>3. f \in Families /\ p \in Identities
  BY Constants DEF Documents, Payload, Identity, Identities
<1> HIDE DEF o, p
<1>4. r \in ReadStates /\ n \in Nat
  BY <1>1, <1>3 DEF Rows, ReadStates
<1> HIDE DEF n, r
<1>5. s \in ReadStates /\ s.seen = r.seen /\ s.inc = r.inc
  BY <1>3, <1>4 DEF ReadStates
<1> HIDE DEF s
<1>6. rs \in Rows /\ \A e \in Families : rs[e] = IF e = f THEN s ELSE o.rows[e]
  BY <1>1, <1>5 DEF Rows
<1>7. h = [o EXCEPT !.rows = rs]
  BY <1>2
<1> HIDE DEF rs
<1>8. h.mgmt = o.mgmt /\ h.blanked = o.blanked /\ h.rows = rs
  BY <1>1, <1>6, <1>7 DEF Gates, TabGates
<1>9. r.inc = g.mgmt.inc
  BY <1>1, <1>3 DEF SeenInv, SeenOK, r
<1>10. ASSUME NEW e \in Families
       PROVE  SeenOK(h.mgmt, h.blanked, h.rows[e], x[e], e)
  <2>1. CASE e = f
    <3>1. h.rows[e] = s /\ s.seen /\ s.inc = h.mgmt.inc
      BY <1>1, <1>5, <1>6, <1>8, <1>9, <2>1
    <3>2. QED
      BY <3>1 DEF SeenOK
  <2>2. CASE e # f
    <3>1. SeenOK(o.mgmt, o.blanked, o.rows[e], x[e], e) /\ h.rows[e] = o.rows[e]
      BY <1>1, <1>6, <1>8, <2>2 DEF SeenInv
    <3>2. QED
      BY <1>8, <3>1
  <2>3. QED
    BY <2>1, <2>2
<1>11. QED
  BY <1>10 DEF SeenInv

\* blanked rows are marked as such
LEMMA ResetSees ==
    ASSUME NEW g \in Gates, NEW h, NEW x, h.rows = Reset(g.rows), h.blanked = g.blanked \cup Kept(g.rows)
    PROVE  SeenInv(h, x)
<1>1. g.rows \in Rows
  BY GateType
<1>2. ASSUME NEW f \in Families
      PROVE  SeenOK(h.mgmt, h.blanked, h.rows[f], x[f], f)
  <2>1. CASE g.rows[f] = None
    BY <2>1 DEF Reset, SeenOK
  <2>2. CASE g.rows[f] # None
    <3> DEFINE r == [BlankRow EXCEPT !.seq = g.rows[f].seq + 1]
    <3>1. h.rows[f] = r /\ f \in h.blanked
      BY <2>2 DEF Reset, Kept
    <3>2. ~r.seen /\ r.att = 0 /\ r.admitted = Nothing
      BY DEF BlankRow
    <3>3. QED
      BY <3>1, <3>2 DEF SeenOK
  <2>3. QED
    BY <2>1, <2>2
<1>3. QED
  BY <1>2 DEF SeenInv

\* the store and the source are adopted
LEMMA AdoptSees ==
    ASSUME NEW g \in Gates, NEW x \in [Families -> Identities], NEW i \in Incarnations, GateInv(g, x),
           Born[i] > BornOf(g.mgmt.inc), NEW h, h = Adopt(g, i)
    PROVE  SeenInv(h, x)
<1>1. g.mgmt \in Managements /\ \A f \in Families : FamilyOK(g.mgmt, g.rows, x, f)
  BY GateType DEF GateInv
<1>2. Reset(g.rows) \in Rows
  <2> DEFINE m == [g.mgmt EXCEPT !.link = @ + 1]
  <2>1. m \in Managements /\ m.link = g.mgmt.link + 1 /\ g.mgmt.link \in Nat
    BY <1>1 DEF Managements
  <2>2. Later(m, g.mgmt)
    BY <2>1 DEF Later
  <2> HIDE DEF m
  <2>3. QED
    BY <1>1, <2>1, <2>2, ResetKeeps
<1>3. h.rows = Reset(g.rows) /\ h.blanked = g.blanked \cup Kept(g.rows)
  BY <1>2, AdoptParts
<1>4. QED
  BY <1>3, ResetSees

LEMMA AdoptSourceSees ==
    ASSUME NEW g \in Gates, NEW x \in [Families -> Identities], NEW s \in 0..MaxSource, GateInv(g, x), SeenInv(g, x),
           NEW h, h = AdoptSource(g, s)
    PROVE  SeenInv(h, x)
<1>1. g.mgmt \in Managements /\ g.rows \in Rows /\ g.blanked \subseteq Families
  BY GateType
<1>2. CASE s = 0
  BY <1>2 DEF AdoptSource
<1>3. CASE s # 0 /\ g.mgmt.source = s
  <2>1. h.rows = g.rows /\ h.blanked = g.blanked /\ h.mgmt.link = g.mgmt.link /\ h.mgmt.inc = g.mgmt.inc
    BY <1>1, <1>3 DEF AdoptSource, Gates, TabGates, Managements
  <2>2. QED
    BY <2>1, MarkersSee
<1>4. CASE s # 0 /\ g.mgmt.source # s
  <2>1. h.rows = Reset(g.rows) /\ h.blanked = g.blanked \cup Kept(g.rows)
    BY <1>1, <1>4 DEF AdoptSource, Blank, Gates, TabGates
  <2>2. QED
    BY <2>1, ResetSees
<1>5. QED
  BY <1>2, <1>3, <1>4

LEMMA ClearsSee ==
    ASSUME NEW g \in Gates, NEW x, SeenInv(g, x), NEW h, h = ClearSource(ClearReset(g))
    PROVE  SeenInv(h, x)
<1> DEFINE k == ClearReset(g)
<1>1. g.mgmt \in Managements /\ 0 \in 0..Len(Born)
  BY GateType, Constants
<1>2. k \in Gates /\ SeenInv(k, x)
  <2>1. CASE k = g
    BY <2>1
  <2>2. CASE k # g
    <3> DEFINE m == [g.mgmt EXCEPT !.pend = 0, !.conflict = 0]
    <3>1. k = [g EXCEPT !.mgmt = m]
      BY <1>1, <2>2 DEF ClearReset, Gates, TabGates
    <3>2. m \in Managements /\ m.link = g.mgmt.link /\ m.inc = g.mgmt.inc
      BY <1>1 DEF Managements
    <3> HIDE DEF m, k
    <3>3. k \in Gates /\ k.mgmt = m /\ k.rows = g.rows /\ k.blanked = g.blanked
      BY <1>1, <3>1, <3>2 DEF Gates, TabGates
    <3>4. QED
      BY <3>2, <3>3, MarkersSee
  <2>3. QED
    BY <2>1, <2>2
<1> HIDE DEF k
<1>3. h = ClearSource(k)
  BY DEF k
<1>4. CASE h = k
  BY <1>2, <1>4
<1>5. CASE h # k
  <2>1. k.mgmt \in Managements
    BY <1>2, GateType
  <2> DEFINE m == [k.mgmt EXCEPT !.pendSource = 0]
  <2>2. h = [k EXCEPT !.mgmt = m]
    BY <1>2, <1>3, <1>5 DEF ClearSource, Gates, TabGates
  <2>3. m.link = k.mgmt.link /\ m.inc = k.mgmt.inc
    BY <2>1 DEF Managements
  <2> HIDE DEF m
  <2>4. h.rows = k.rows /\ h.blanked = k.blanked /\ h.mgmt = m
    BY <1>2, <2>2 DEF Gates, TabGates
  <2>5. QED
    BY <1>2, <2>3, <2>4, MarkersSee
<1>6. QED
  BY <1>4, <1>5

\* fenced rows say what they said
LEMMA FenceRowsSees ==
    ASSUME NEW g \in Gates, NEW h, NEW x, SeenInv(g, x), h.rows \in {g.rows, FenceRows(g.rows)},
           h.blanked = g.blanked, h.mgmt.link = g.mgmt.link, h.mgmt.inc = g.mgmt.inc
    PROVE  SeenInv(h, x)
<1>1. ASSUME NEW f \in Families
      PROVE  SeenOK(h.mgmt, h.blanked, h.rows[f], x[f], f)
  <2>0. SeenOK(g.mgmt, g.blanked, g.rows[f], x[f], f) /\ (g.rows[f] = None \/ g.rows[f] \in ReadStates)
    BY GateType DEF SeenInv
  <2>1. CASE h.rows = g.rows \/ g.rows[f] = None
    BY <2>0, <2>1 DEF SeenOK, FenceRows
  <2>2. CASE h.rows = FenceRows(g.rows) /\ g.rows[f] # None
    <3> DEFINE r == g.rows[f]
               s == [r EXCEPT !.seq = @ + 1]
    <3>1. h.rows[f] = s /\ r \in ReadStates
      BY <2>0, <2>2 DEF FenceRows
    <3>2. s.seen = r.seen /\ s.inc = r.inc /\ s.att = r.att /\ s.admitted = r.admitted
      BY <3>1 DEF ReadStates
    <3>3. QED
      BY <2>0, <2>2, <3>1, <3>2 DEF SeenOK
  <2>3. QED
    BY <2>1, <2>2
<1>2. QED
  BY <1>1 DEF SeenInv

\* the gate of one document
LEMMA StoreSees ==
    ASSUME TypeOK, GateInv(Device, mirror), SeenInv(Device, mirror), NEW d \in Documents, ~StoreRefused(d),
           NEW h, h = AfterStore(d)
    PROVE  SeenInv(h, mirror)
<1>1. mirror \in [Families -> Identities] /\ d.family \in Families /\ d.inc \in Incarnations
  BY DEF TypeOK, Documents
<1>2. Device \in Gates /\ Device.mgmt = mgmt /\ Device.rows = rows
  BY DeviceType
<1> DEFINE o == Opened(d)
<1>3. o = [Device EXCEPT !.rows = LockedRow(Device.rows, d.family)]
  BY <1>2 DEF Opened
<1> HIDE DEF o
<1>4. o \in Gates /\ GateInv(o, mirror) /\ o.mgmt = mgmt /\ SeenInv(o, mirror)
  BY <1>1, <1>2, <1>3, LockedRowKeeps, LockedRowSees
<1>5. CASE d.inc = mgmt.inc
  BY <1>4, <1>5 DEF AfterStore, o
<1>6. CASE d.inc # mgmt.inc
  <2>1. h = Adopt(o, d.inc) /\ Born[d.inc] > BornOf(o.mgmt.inc)
    BY <1>4, <1>6 DEF AfterStore, StoreRefused, Adoptable, o
  <2>2. QED
    BY <1>1, <1>4, <2>1, AdoptSees
<1>7. QED
  BY <1>5, <1>6

LEMMA SourceSees ==
    ASSUME TypeOK, GateInv(Device, mirror), SeenInv(Device, mirror), NoticeInv(mgmt, noticed),
           NEW d \in Documents, InOrder(d), NEW h, h = AfterSource(d)
    PROVE  SeenInv(h, mirror)
<1> DEFINE a == AfterStore(d)
<1>1. a \in Gates /\ GateInv(a, mirror) /\ SeenInv(a, mirror)
  BY StoreGate, StoreSees DEF InOrder
<1>2. h = AdoptSource(a, d.source)
  BY DEF AfterSource
<1> HIDE DEF a
<1>3. mirror \in [Families -> Identities] /\ d.source \in 0..MaxSource
  BY DEF TypeOK, Documents
<1>4. QED
  BY <1>1, <1>2, <1>3, AdoptSourceSees

\* the device tab
LEMMA ObserveOneSees ==
    ASSUME TypeOK, NEW g, TabOK(g), SeenInv(g, mirror), NEW d \in Documents, NEW h, h = ObserveOne(g, d)
    PROVE  SeenInv(h, mirror)
<1> DEFINE m == RatchetSource(g.mgmt, d.source)
           R == IF m # g.mgmt /\ ~g.fenced THEN FenceRows(g.rows) ELSE g.rows
           b == g.fenced \/ m # g.mgmt
           o == [g EXCEPT !.mgmt = m, !.rows = R, !.fenced = b]
<1>1. /\ g \in Gates /\ g \in TabGates /\ g.mgmt \in Managements /\ g.rows \in Rows /\ g.blanked \subseteq Families
      /\ GateInv(g, mirror) /\ g.fenced \in BOOLEAN
  BY GateType DEF TabOK, Gates, TabGates
<1>2. /\ d.source \in 0..MaxSource /\ d.inc \in Incarnations /\ d.family \in Families
      /\ mirror \in [Families -> Identities]
  BY DEF TypeOK, Documents
<1>3. /\ m \in Managements /\ m.link = g.mgmt.link /\ m.inc = g.mgmt.inc /\ m.source = g.mgmt.source
      /\ SourceInv(g.mgmt) => SourceInv(m)
      /\ Marked(g.mgmt) => Marked(m)
  BY <1>1, <1>2, RatchetKeeps
<1> HIDE DEF m
<1>4. /\ FenceRows(g.rows) \in Rows
      /\ \A f \in Families : /\ FamilyOK(g.mgmt, FenceRows(g.rows), mirror, f)
                             /\ g.rows[f] # None => FenceRows(g.rows)[f].seen = g.rows[f].seen
      /\ Kept(FenceRows(g.rows)) = Kept(g.rows)
  BY <1>1, <1>2, FenceRowsKeeps
<1>5. R \in Rows /\ R \in {g.rows, FenceRows(g.rows)} /\ b \in BOOLEAN
  BY <1>1, <1>4
<1> HIDE DEF R, b
<1>6. o \in TabGates /\ o.mgmt = m /\ o.rows = R /\ o.blanked = g.blanked
  BY <1>1, <1>3, <1>5 DEF TabGates
<1> HIDE DEF o
<1>7. SeenInv(o, mirror) /\ o \in Gates
  BY <1>1, <1>3, <1>5, <1>6, FenceRowsSees DEF Gates
<1>8. CASE h = g \/ h = o
  BY <1>7, <1>8
<1>9. CASE h = [o EXCEPT !.mgmt = Register(m, d.inc)]
  <2> DEFINE n == Register(m, d.inc)
  <2>1. n \in Managements /\ n.link = m.link /\ n.inc = m.inc
    BY <1>2, <1>3, RegisterKeeps
  <2> HIDE DEF n
  <2>2. h = [o EXCEPT !.mgmt = n]
    BY <1>9 DEF n
  <2>3. h.mgmt = n /\ h.rows = o.rows /\ h.blanked = o.blanked
    BY <1>6, <2>2 DEF TabGates
  <2>4. QED
    BY <1>6, <1>7, <2>1, <2>3, MarkersSee
<1>10. CASE /\ d.inc = m.inc
            /\ LET k == [o EXCEPT !.rows = LockedRow(o.rows, d.family)]
               IN h = [AdvanceObserved(k, d) EXCEPT !.wrote = @ \/ ~Regresses(k, d)]
  <2> DEFINE k == [o EXCEPT !.rows = LockedRow(o.rows, d.family)]
             e == AdvanceObserved(k, d)
             v == e.wrote \/ ~Regresses(k, d)
  <2>1. GateInv(o, mirror)
    <3>1. \A f \in Families : FamilyOK(o.mgmt, o.rows, mirror, f)
      <4>1. \A f \in Families : FamilyOK(g.mgmt, R, mirror, f)
        BY <1>1, <1>4, <1>5 DEF GateInv
      <4>2. QED
        BY <1>3, <1>6, <4>1 DEF FamilyOK, RowOK, MirrorOK, InEpoch, Passed
    <3>2. \A f \in o.blanked : o.rows[f] # None /\ ~o.rows[f].seen
      <4>1. \A f \in g.blanked : f \in Families /\ g.rows[f] # None /\ ~g.rows[f].seen
        BY <1>1 DEF GateInv, BlankInv
      <4>2. \A f \in g.blanked : FenceRows(g.rows)[f] # None
        BY <1>4, <4>1 DEF Kept
      <4>3. QED
        BY <1>4, <1>5, <1>6, <4>1, <4>2
    <3>3. o.blanked # {} => Marked(o.mgmt)
      BY <1>1, <1>3, <1>6 DEF GateInv, BlankInv
    <3>4. QED
      BY <1>1, <1>3, <1>6, <3>1, <3>2, <3>3 DEF GateInv, BlankInv
  <2>2. /\ k \in Gates /\ k \in TabGates /\ GateInv(k, mirror) /\ k.rows[d.family] # None /\ k.mgmt = o.mgmt
        /\ SeenInv(k, mirror)
    BY <1>2, <1>6, <1>7, <2>1, LockedRowKeeps, LockedRowSees
  <2>3. h = [e EXCEPT !.wrote = v]
    BY <1>10
  <2> HIDE DEF k
  <2>4. e \in TabGates /\ SeenInv(e, mirror)
    BY <1>2, <1>6, <1>10, <2>2, AdvanceObservedKeeps, AdvanceObservedSees
  <2> HIDE DEF e, v
  <2>5. h.mgmt = e.mgmt /\ h.rows = e.rows /\ h.blanked = e.blanked
    BY <2>3, <2>4 DEF TabGates
  <2>6. QED
    BY <2>4, <2>5, MarkersSee
<1>11. \/ h = g \/ h = o
       \/ h = [o EXCEPT !.mgmt = Register(m, d.inc)]
       \/ /\ d.inc = m.inc
          /\ LET k == [o EXCEPT !.rows = LockedRow(o.rows, d.family)]
             IN h = [AdvanceObserved(k, d) EXCEPT !.wrote = @ \/ ~Regresses(k, d)]
  <2>1. o.mgmt = m
    BY <1>6
  <2>2. QED
    BY <2>1 DEF ObserveOne, o, m, R, b
<1>12. QED
  BY <1>8, <1>9, <1>10, <1>11

LEMMA ObservedSees ==
    ASSUME TypeOK, GateInv(Device, mirror), NoticeInv(mgmt, noticed), SeenInv(Device, mirror), mgmt.inc # 0,
           NEW docs \in [Families -> Documents], NEW h, h = Observed(docs)
    PROVE  SeenInv(h, mirror)
<1>1. PICK G : IsObserved(G, docs, NFamilies) /\ h = G[NFamilies]
  BY ObservedSteps
<1>2. /\ NFamilies \in Nat
      /\ \A n \in 0..NFamilies : G[n] = IF n = 0 THEN TabBegins ELSE ObserveOne(G[n - 1], docs[n])
  BY <1>1, Constants DEF IsObserved
<1>3. SeenInv(TabBegins, mirror) /\ TabOK(TabBegins)
  <2>1. /\ TabBegins \in TabGates /\ TabBegins.mgmt = mgmt /\ TabBegins.rows = rows
        /\ TabBegins.blanked = blanked
    BY DEF TabBegins, TabGates, TypeOK, Rows
  <2>2. GateInv(TabBegins, mirror) /\ SeenInv(TabBegins, mirror)
    BY <2>1, DeviceType DEF GateInv, BlankInv, SeenInv
  <2>3. TabSeen(mgmt) \subseteq noticed
    BY DEF TabSeen, NoticeInv
  <2>4. (mgmt.inc # 0 => mgmt.inc \in TabSeen(mgmt)) /\ (mgmt.pend # 0 => mgmt.pend \in TabSeen(mgmt))
    BY DEF TabSeen
  <2>5. NoticeInv(mgmt, TabSeen(mgmt))
    BY <2>3, <2>4, NoticeShrinks
  <2>6. QED
    BY <2>1, <2>2, <2>5 DEF TabOK
<1> DEFINE S == {n \in Nat : n <= NFamilies /\ ~(TabOK(G[n]) /\ SeenInv(G[n], mirror))}
<1>4. SUFFICES ASSUME S # {} PROVE FALSE
  BY <1>1, <1>2
<1>5. PICK n \in S : \A m \in S : n <= m
  BY <1>4, Least
<1>6. n \in Nat /\ n <= NFamilies /\ ~(TabOK(G[n]) /\ SeenInv(G[n], mirror))
  BY <1>5
<1>7. n # 0
  BY <1>2, <1>3, <1>6
<1>8. n - 1 \in Nat /\ n - 1 <= NFamilies /\ n - 1 \notin S
  BY <1>2, <1>5, <1>6, <1>7
<1>9. TabOK(G[n - 1]) /\ SeenInv(G[n - 1], mirror) /\ docs[n] \in Documents
  BY <1>2, <1>6, <1>7, <1>8 DEF Families
<1>10. G[n] = ObserveOne(G[n - 1], docs[n])
  BY <1>2, <1>6, <1>7
<1>11. QED
  BY <1>6, <1>9, <1>10, ObserveOneKeeps, ObserveOneSees

\* the rows as they are next
LEMMA SeenBecomes ==
    ASSUME NEW g, Become(g), SeenInv(g, mirror')
    PROVE  SeenInv(Device, mirror)'
<1>1. mgmt' = g.mgmt /\ rows' = g.rows /\ blanked' = g.blanked
  BY DEF Become
<1>2. \A f \in Families : SeenOK(mgmt', blanked', rows'[f], mirror'[f], f)
  BY <1>1 DEF SeenInv
<1>3. QED
  BY <1>2 DEF SeenInv, Device, SeenOK

LEMMA GateSees ==
    ASSUME ReadsInv, SeenInv(Device, mirror), NEW w \in Workers, GateStep(w), ~GateRunsLegacy(w)
    PROVE  SeenInv(Device, mirror)'
<1> DEFINE d == worker[w].doc
<1>0. /\ TypeOK /\ GateInv(Device, mirror) /\ NoticeInv(mgmt, noticed) /\ mgmt \in Managements
      /\ mirror \in [Families -> Identities] /\ Device \in Gates
      /\ Device.mgmt = mgmt /\ Device.rows = rows /\ Device.blanked = blanked
  BY ReadsParts
<1>1. d \in Documents /\ d.inc \in Incarnations /\ d.family \in Families
  <2>1. worker[w].pc # "idle"
    BY DEF GateStep, GateSkips, GateRunsLegacy, GateRefusesStore, GateRefusesSource, GateSkipsStale, GateAdmits,
           GateObserves
  <2>2. QED
    BY <2>1, WorkerParts
<1>2. mirror' = mirror
  BY DEF GateStep, GateSkips, GateRefusesStore, GateRefusesSource, GateSkipsStale, GateAdmits, GateObserves,
         GateLeaves
<1> DEFINE o == Opened(d)
<1>3. o \in Gates /\ GateInv(o, mirror) /\ o.mgmt = mgmt /\ SeenInv(o, mirror)
  <2>1. o = [Device EXCEPT !.rows = LockedRow(Device.rows, d.family)]
    BY <1>0 DEF Opened
  <2>2. QED
    BY <1>0, <1>1, <2>1, LockedRowKeeps, LockedRowSees
<1>4. CASE GateSkips(w)
  <2>1. Become(o) \/ UNCHANGED <<mgmt, rows, blanked>>
    BY <1>4 DEF GateSkips
  <2>2. CASE Become(o)
    BY <1>2, <1>3, <2>2, SeenBecomes
  <2>3. CASE UNCHANGED <<mgmt, rows, blanked>>
    <3>1. Become(Device)
      BY <1>0, <2>3 DEF Become
    <3>2. QED
      BY <1>2, <3>1, SeenBecomes
  <2>4. QED
    BY <2>1, <2>2, <2>3
<1>5. CASE GateRefusesStore(w)
  <2> DEFINE m == IF Ambiguous(mgmt, d.inc) THEN Register(mgmt, d.inc) ELSE mgmt
             g == [o EXCEPT !.mgmt = m]
  <2>1. Become(g)
    BY <1>5 DEF GateRefusesStore
  <2>2. m \in Managements /\ m.link = mgmt.link /\ m.inc = mgmt.inc
    BY <1>0, <1>1, RegisterKeeps
  <2> HIDE DEF m, o
  <2>3. g.mgmt = m /\ g.rows = o.rows /\ g.blanked = o.blanked
    BY <1>3, <2>2 DEF Gates, TabGates
  <2>4. SeenInv(g, mirror)
    BY <1>3, <2>2, <2>3, MarkersSee
  <2>5. QED
    BY <1>2, <2>1, <2>4, SeenBecomes
<1>6. CASE GateRefusesSource(w)
  <2>1. Become(AfterStore(d)) /\ ~StoreRefused(d)
    BY <1>6 DEF GateRefusesSource
  <2>2. SeenInv(AfterStore(d), mirror)
    BY <1>0, <1>1, <2>1, StoreSees
  <2>3. QED
    BY <1>2, <2>1, <2>2, SeenBecomes
<1> DEFINE s == AfterSource(d)
<1>7. ASSUME InOrder(d)
      PROVE  /\ s \in Gates /\ GateInv(s, mirror) /\ s.rows[d.family] # None /\ SeenInv(s, mirror)
             /\ s.mgmt.inc = d.inc
  BY <1>0, <1>1, <1>7, SourceGate, SourceSees DEF InEpoch, Payload, Identity
<1>8. CASE GateSkipsStale(w)
  <2>1. Become(s) /\ InOrder(d)
    BY <1>8 DEF GateSkipsStale
  <2>2. QED
    BY <1>2, <1>7, <2>1, SeenBecomes
<1>9. CASE GateAdmits(w)
  <2> DEFINE g == Admit(s, d)
  <2>1. Become(ClearSource(ClearReset(g))) /\ InOrder(d) /\ ~(d.att < s.rows[d.family].admitted.att)
    BY <1>9 DEF GateAdmits, Stale
  <2>2. InEpoch(s.mgmt, Payload(d))
    BY <1>0, <1>1, <2>1, SourceGate
  <2> HIDE DEF s
  <2>3. g \in Gates /\ SeenInv(g, mirror)
    BY <1>0, <1>1, <1>7, <2>1, <2>2, AdmitKeeps, AdmitSees
  <2> HIDE DEF g
  <2>4. SeenInv(ClearSource(ClearReset(g)), mirror)
    BY <2>3, ClearsSee
  <2>5. QED
    BY <1>2, <2>1, <2>4, SeenBecomes
<1>10. CASE GateObserves(w)
  <2> DEFINE g == AdvanceObserved(s, d)
  <2>1. Become(s) \/ Become(ClearSource(ClearReset(g)))
    BY <1>10 DEF GateObserves
  <2>2. InOrder(d)
    BY <1>10 DEF GateObserves
  <2> HIDE DEF s
  <2>3. g \in Gates
    BY <1>0, <1>1, <1>7, <2>2, AdvanceObservedKeeps
  <2>4. SeenInv(g, mirror)
    BY <1>1, <1>7, <2>2, AdvanceObservedSees
  <2> HIDE DEF g
  <2>5. SeenInv(ClearSource(ClearReset(g)), mirror)
    BY <2>3, <2>4, ClearsSee
  <2>6. QED
    BY <1>2, <1>7, <2>1, <2>2, <2>5, SeenBecomes
<1>11. QED
  BY <1>4, <1>5, <1>6, <1>8, <1>9, <1>10 DEF GateStep

\* a legacy document begins the history of its family anew
LEMMA LegacySees ==
    ASSUME ReadsInv, SeenInv(Device, mirror), NEW w \in Workers, GateRunsLegacy(w)
    PROVE  SeenInv(Device, mirror)'
<1> DEFINE e == worker[w].doc.family
           n == LockedRow(rows, e)[e].seq + 1
           a == LockedRow(rows, e)[e].applied
           q == LockedRow(rows, e)[e].appliedSeq
           r == [BlankRow EXCEPT !.seq = n, !.applied = a, !.appliedSeq = q]
<1>1. /\ rows' = [rows EXCEPT ![e] = r] /\ mirror' = [mirror EXCEPT ![e] = Nothing]
      /\ mgmt' = mgmt /\ blanked' = blanked /\ worker[w].pc # "idle"
  BY DEF GateRunsLegacy
<1> HIDE DEF n, a, q
<1>2. ~r.seen /\ r.att = 0 /\ r.admitted = Nothing
  BY DEF BlankRow
<1> HIDE DEF r
<1>3. /\ rows \in Rows /\ mirror \in [Families -> Identities]
      /\ \A f \in Families : SeenOK(mgmt, blanked, rows[f], mirror[f], f)
  BY ReadsParts, GateType DEF SeenInv
<1>4. ASSUME NEW f \in Families
      PROVE  SeenOK(mgmt', blanked', rows'[f], mirror'[f], f)
  <2>1. CASE f = e
    BY <1>1, <1>2, <1>3, <2>1 DEF SeenOK, Rows
  <2>2. CASE f # e
    BY <1>1, <1>3, <2>2 DEF Rows
  <2>3. QED
    BY <2>1, <2>2
<1>5. QED
  BY <1>4 DEF SeenInv, Device, SeenOK

LEMMA TabSees ==
    ASSUME ReadsInv, SeenInv(Device, mirror), TabObserves
    PROVE  SeenInv(Device, mirror)'
<1>0. /\ TypeOK /\ GateInv(Device, mirror) /\ NoticeInv(mgmt, noticed)
      /\ Device.mgmt = mgmt /\ Device.rows = rows /\ Device.blanked = blanked
  BY ReadsParts
<1>1. tab \in [Families -> Documents] /\ mirror' = mirror
  BY <1>0 DEF TabObserves, TypeOK
<1>2. CASE Linked(tab[OwnerFamily]) /\ mgmt.inc # 0
  <2> DEFINE g == Observed(tab)
  <2>1. Become(g) \/ Become(ClearSource(ClearReset(g)))
    BY <1>2 DEF TabObserves
  <2>2. g \in Gates /\ SeenInv(g, mirror)
    BY <1>0, <1>1, <1>2, ObservedKeeps, ObservedSees DEF TabOK, Gates
  <2> HIDE DEF g
  <2>3. SeenInv(ClearSource(ClearReset(g)), mirror)
    BY <2>2, ClearsSee
  <2>4. QED
    BY <1>1, <2>1, <2>2, <2>3, SeenBecomes
<1>3. CASE ~(Linked(tab[OwnerFamily]) /\ mgmt.inc # 0)
  <2>1. Become(Device)
    BY <1>0, <1>3 DEF TabObserves, gateVars, Become
  <2>2. QED
    BY <1>1, <2>1, SeenBecomes
<1>4. QED
  BY <1>2, <1>3

\* a body publishes what its row has admitted, so an observed row or nothing
LEMMA PublishSees ==
    ASSUME ReadsInv, SeenInv(Device, mirror), NEW w \in Workers, Publish(w)
    PROVE  SeenInv(Device, mirror)'
<1> DEFINE e == worker[w].doc.family
           x == Decision(w)
           n == worker[w].seq
           r == [rows[e] EXCEPT !.applied = x, !.appliedSeq = n]
<1>1. /\ worker[w].pc # "idle" /\ rows[e].admitted = x /\ worker[w].pc = "publish"
      /\ rows' = [rows EXCEPT ![e] = r] /\ mirror' = [mirror EXCEPT ![e] = x]
      /\ mgmt' = mgmt /\ blanked' = blanked
  BY DEF Publish, PublicationMatches, Leaves
<1>2. /\ rows \in Rows /\ mirror \in [Families -> Identities] /\ e \in Families /\ rows[e] # None
      /\ \A f \in Families : SeenOK(mgmt, blanked, rows[f], mirror[f], f)
  BY <1>1, ReadsParts, GateType, WorkerParts DEF SeenInv, PlanOK
<1>3. rows[e] \in ReadStates
  BY <1>2 DEF Rows
<1> HIDE DEF x, n
<1>4. /\ r.seen = rows[e].seen /\ r.inc = rows[e].inc /\ r.att = rows[e].att
      /\ r.admitted = rows[e].admitted
  BY <1>3 DEF ReadStates
<1> HIDE DEF r
<1>5. ASSUME NEW f \in Families
      PROVE  SeenOK(mgmt', blanked', rows'[f], mirror'[f], f)
  <2>1. CASE f = e
    BY <1>1, <1>2, <1>4, <2>1 DEF SeenOK, Rows
  <2>2. CASE f # e
    BY <1>1, <1>2, <2>2 DEF Rows
  <2>3. QED
    BY <2>1, <2>2
<1>6. QED
  BY <1>5 DEF SeenInv, Device, SeenOK

\* a relink leaves the overlays to the earlier link
LEMMA LinkSees ==
    ASSUME ReadsInv, SeenInv(Device, mirror), LinkStep
    PROVE  SeenInv(Device, mirror)'
<1>0. /\ mgmt \in Managements /\ mirror \in [Families -> Identities] /\ rows \in Rows /\ Device \in Gates
      /\ Device.mgmt = mgmt /\ Device.rows = rows /\ Device.blanked = blanked
      /\ \A f \in Families : SeenOK(mgmt, blanked, rows[f], mirror[f], f) /\ FamilyOK(mgmt, rows, mirror, f)
  BY ReadsParts, GateType DEF SeenInv
<1>1. CASE /\ rows' = rows /\ blanked' = blanked /\ mirror' = mirror
           /\ mgmt'.link = mgmt.link /\ mgmt'.inc = mgmt.inc
  BY <1>0, <1>1 DEF SeenInv, SeenOK, Device
<1>2. CASE RekeyMarks \/ RekeyCalls \/ RekeyFails \/ RekeyEnds
  BY <1>0, <1>1, <1>2 DEF RekeyMarks, RekeyCalls, RekeyFails, RekeyEnds, Managements
<1>3. CASE RekeyFences
  <2>1. Become(Blank(Device))
    BY <1>3 DEF RekeyFences
  <2>2. Blank(Device).rows = Reset(rows) /\ Blank(Device).blanked = blanked \cup Kept(rows)
    BY <1>0 DEF Blank, Gates, TabGates
  <2>3. SeenInv(Blank(Device), mirror')
    BY <1>0, <2>2, ResetSees
  <2>4. QED
    BY <2>1, <2>3, SeenBecomes
<1>4. CASE Relink
  <2>1. PICK s \in 0..MaxSource : mgmt' = [mgmt EXCEPT !.link = @ + 1, !.source = s, !.aware = s # 0]
    BY <1>4 DEF Relink
  <2>2. mgmt'.link = mgmt.link + 1 /\ mgmt.link \in Nat
    BY <1>0, <2>1 DEF Managements
  <2>3. rows' = Reset(rows) /\ blanked' = blanked /\ mirror' = mirror
    BY <1>4 DEF Relink
  <2>4. ASSUME NEW f \in Families
        PROVE  SeenOK(mgmt', blanked', rows'[f], mirror'[f], f)
    <3>1. CASE rows[f] = None
      BY <2>3, <3>1 DEF Reset, SeenOK
    <3>2. CASE rows[f] # None
      <4>1. ~rows'[f].seen /\ rows'[f].att = 0 /\ rows'[f].admitted = Nothing
        BY <2>3, <3>2 DEF Reset, BlankRow
      <4>2. mirror[f] = Nothing \/ Passed(mgmt, mirror[f]) \/ InEpoch(mgmt, mirror[f])
        BY <1>0, <3>2 DEF FamilyOK, MirrorOK
      <4>3. mirror[f] = Nothing \/ mirror[f].link <= mgmt.link
        BY <1>0, <2>2, <4>2 DEF Passed, InEpoch, Identities
      <4>4. mirror[f] = Nothing \/ mirror'[f].link < mgmt'.link
        BY <1>0, <2>2, <2>3, <4>3 DEF Identities
      <4>5. QED
        BY <2>3, <4>1, <4>4 DEF SeenOK
    <3>3. QED
      BY <3>1, <3>2
  <2>5. QED
    BY <2>4 DEF SeenInv, Device, SeenOK
<1>5. QED
  BY <1>2, <1>3, <1>4 DEF LinkStep

LEMMA StepSees ==
    ASSUME ReadsInv, SeenInv(Device, mirror), [Next]_vars
    PROVE  SeenInv(Device, mirror)'
<1>0. Device.mgmt = mgmt /\ Device.rows = rows /\ Device.blanked = blanked
  BY ReadsParts
<1>1. CASE UNCHANGED <<mgmt, rows, blanked, mirror>>
  <2>1. Become(Device)
    BY <1>0, <1>1 DEF Become
  <2>2. QED
    BY <1>1, <2>1, SeenBecomes
<1>2. ASSUME NEW w \in Workers, Fetch(w) \/ GateStep(w) \/ BodyStep(w)
      PROVE  SeenInv(Device, mirror)'
  <2>1. CASE Fetch(w)
    BY <1>1, <2>1 DEF Fetch, gateVars
  <2>2. CASE GateStep(w)
    BY <2>2, GateSees, LegacySees
  <2>3. CASE BodyStep(w)
    <3>1. CASE Publish(w)
      BY <3>1, PublishSees
    <3>2. CASE Plan(w) \/ CaptureToken(w) \/ Superseded(w) \/ BodyFails(w) \/ MarkError(w)
      BY <1>1, <3>2 DEF Plan, CaptureToken, Superseded, BodyFails, MarkError, Leaves
    <3>3. QED
      BY <2>3, <3>1, <3>2 DEF BodyStep
  <2>4. QED
    BY <1>2, <2>1, <2>2, <2>3
<1>3. CASE TabFetches \/ TabObserves
  BY <1>1, <1>3, TabSees DEF TabFetches, gateVars
<1>4. CASE AdapterStep
  BY <1>1, <1>4 DEF AdapterStep, Refresh, SourceMoves, Rebuild, Downgrade, AdapterLeaves, gateVars
<1>5. CASE OwnerStep
  BY <1>1, <1>5 DEF OwnerStep, Accept, Edit, Release, ApplyStarts, ApplySettles, OwnerLeaves, gateVars
<1>6. CASE UNCHANGED vars
  BY <1>1, <1>6 DEF vars
<1>7. QED
  BY <1>2, <1>3, <1>4, <1>5, <1>6, LinkSees DEF Next

LEMMA InitSees ==
    ASSUME Init
    PROVE  SeenInv(Device, mirror)
<1>1. /\ mgmt.inc \in {0, 1} /\ \A f \in Families : rows[f] # None => rows[f].seen /\ rows[f].inc = mgmt.inc
  BY DEF Init
<1>2. QED
  BY <1>1 DEF SeenInv, SeenOK, Device

-----------------------------------------------------------------------------
(* What the project's runs check on small devices                          *)

\* Rows, documents and plans have the shape the code gives them.
THEOREM ReadsTypes == Spec => []TypeOK
<1>1. ReadsInv => TypeOK
  BY DEF ReadsInv
<1>2. QED
  BY <1>1, ReadsInvariant, PTL

\* A family whose read state was wiped and not observed since carries a warning.
THEOREM BlankRowsCarryAMark == Spec => []BlankRowsAreMarked
<1>1. ReadsInv => BlankRowsAreMarked
  BY DEF ReadsInv, GateInv, BlankInv, Device, BlankRowsAreMarked, Marked, ResetPending
<1>2. QED
  BY <1>1, ReadsInvariant, PTL

\* A category shown without a warning over a read was written from that very read, of the current link,
\* store and source; over no read its overlays were never written, begun anew, or an earlier link's.
THEOREM UnwarnedMeansCurrent == Spec => []UnwarnedIsCurrent
<1>1. ASSUME ReadsInv, SeenInv(Device, mirror), NEW f \in Families, NoWarning(f), rows[f] # None, rows[f].seen
      PROVE  mirror[f] = Identity(mgmt.link, mgmt.inc, mgmt.source, rows[f].att)
  <2> DEFINE r == rows[f]
  <2>1. r \in ReadStates /\ mirror[f] \in Identities /\ FamilyOK(mgmt, rows, mirror, f) /\ r.inc = mgmt.inc
    BY <1>1, ReadsParts DEF SeenInv, SeenOK
  <2>2. r.auth /\ r.appliedSeq = r.seq /\ r.att <= r.applied.att
    BY <1>1, <2>1 DEF NoWarning
  <2>3. RowOK(mgmt, r) /\ MirrorOK(mgmt, r, mirror[f])
    BY <1>1, <2>1 DEF FamilyOK
  <2>4. r.admitted \in Identities /\ r.att \in Nat /\ r.applied = r.admitted
    BY <2>1, <2>2, <2>3 DEF ReadStates, RowOK
  <2>5. r.admitted.att \in Nat
    BY <2>4 DEF Identities
  <2>6. r.admitted.att = r.att /\ r.att > 0
    BY <2>2, <2>3, <2>4, <2>5 DEF RowOK
  <2>7. r.admitted # Nothing
    BY <2>6, NothingType
  <2>8. mirror[f] = r.admitted /\ InEpoch(mgmt, r.admitted)
    BY <2>2, <2>3, <2>7 DEF RowOK, MirrorOK
  <2> HIDE DEF r
  <2>9. r.admitted = [link |-> mgmt.link, inc |-> mgmt.inc, source |-> mgmt.source, att |-> r.att]
    BY <2>4, <2>6, <2>8 DEF InEpoch, Identities
  <2>10. QED
    BY <2>8, <2>9 DEF Identity, r
<1>2. ASSUME ReadsInv, SeenInv(Device, mirror), NEW f \in Families, NoWarning(f), ~(rows[f] # None /\ rows[f].seen)
      PROVE  mirror[f] = Nothing \/ mirror[f].link < mgmt.link
  <2>1. /\ FamilyOK(mgmt, rows, mirror, f) /\ Device.mgmt = mgmt /\ Device.rows = rows
        /\ Device.blanked = blanked /\ GateInv(Device, mirror)
    BY <1>2, ReadsParts
  <2>2. CASE rows[f] = None
    BY <2>1, <2>2 DEF FamilyOK
  <2>3. CASE rows[f] # None
    <3>1. blanked = {}
      BY <1>2, <2>1 DEF GateInv, BlankInv, Marked, NoWarning, ResetPending
    <3>2. QED
      BY <1>2, <2>1, <2>3, <3>1 DEF SeenInv, SeenOK
  <2>4. QED
    BY <2>2, <2>3
<1>3. ReadsInv /\ SeenInv(Device, mirror) => UnwarnedIsCurrent
  BY <1>1, <1>2 DEF UnwarnedIsCurrent
<1>4. Init => SeenInv(Device, mirror)
  BY InitSees
<1>5. ReadsInv /\ SeenInv(Device, mirror) /\ [Next]_vars => SeenInv(Device, mirror)'
  BY StepSees
<1>6. QED
  BY <1>3, <1>4, <1>5, ReadsInvariant, PTL DEF Spec

\* A row is in_sync for the claim a settlement confirmed, whatever the reads do.
THEOREM InSyncMeansSettled == Spec => []InSyncWasSettled
<1>1. ReadsInv => InSyncWasSettled
  BY DEF ReadsInv
<1>2. QED
  BY <1>1, ReadsInvariant, PTL

\* Under one link, store and source overlays never go back to an older read.
THEOREM OverlaysKeepUp == Spec => OverlaysNeverGoBack
<1> DEFINE Back(f) ==
      /\ mirror[f] # Nothing /\ mirror'[f] # Nothing /\ mirror[f].link = mirror'[f].link
      /\ mirror[f].inc = mirror'[f].inc /\ mirror[f].source = mirror'[f].source
      /\ ~(mirror'[f].att >= mirror[f].att)
<1>1. ASSUME ReadsInv, [Next]_vars, NEW f \in Families, Back(f)
      PROVE  FALSE
  <2>1. mirror \in [Families -> Identities] /\ mirror[f].att \in Nat
    BY <1>1, ReadsParts DEF Identities
  <2>2. CASE mirror' = mirror
    BY <1>1, <2>1, <2>2
  <2>3. ASSUME NEW w \in Workers, GateRunsLegacy(w) PROVE FALSE
    <3>1. mirror' = [mirror EXCEPT ![worker[w].doc.family] = Nothing]
      BY <2>3 DEF GateRunsLegacy
    <3>2. QED
      BY <1>1, <2>1, <3>1
  <2>4. CASE RekeyFences
    BY <1>1, <2>4 DEF RekeyFences
  <2>5. ASSUME NEW w \in Workers, Publish(w) PROVE FALSE
    <3> DEFINE d == worker[w].doc
    <3>1. /\ mirror' = [mirror EXCEPT ![d.family] = Decision(w)] /\ PublicationMatches(w)
          /\ worker[w].pc = "publish"
      BY <2>5 DEF Publish
    <3>2. d \in Documents /\ d.family \in Families /\ PlanOK(worker[w], rows)
      BY <1>1, <3>1, WorkerParts
    <3>3. rows[d.family].admitted = Decision(w) /\ rows[d.family] # None
      BY <3>1, <3>2 DEF PublicationMatches, PlanOK
    <3>4. FamilyOK(mgmt, rows, mirror, d.family) /\ mgmt \in Managements
      BY <1>1, <3>2, ReadsParts
    <3>5. d.family = f
      BY <1>1, <2>1, <3>1
    <3> DEFINE x == mirror[f]
               y == Decision(w)
    <3>6. mirror'[f] = y
      BY <2>1, <3>1, <3>5
    <3>7. InEpoch(mgmt, y) /\ (x = Nothing \/ Passed(mgmt, x) \/ (InEpoch(mgmt, x) /\ x.att <= y.att))
      BY <1>1, <3>3, <3>4, <3>5, <3>6 DEF FamilyOK, RowOK, MirrorOK
    <3>8. Passed(mgmt, x)
      BY <1>1, <2>1, <3>6, <3>7
    <3>9. x.link = mgmt.link /\ x.inc = mgmt.inc /\ x.source = mgmt.source
      BY <1>1, <3>6, <3>7 DEF InEpoch
    <3>10. mgmt.link \in Nat /\ BornOf(mgmt.inc) \in Nat /\ mgmt.source \in Nat
      BY <3>4, BirthTypes DEF Managements
    <3>11. QED
      BY <3>8, <3>9, <3>10 DEF Passed
  <2>6. \/ mirror' = mirror \/ RekeyFences
        \/ \E w \in Workers : GateRunsLegacy(w) \/ Publish(w)
    <3>1. ASSUME NEW w \in Workers, Fetch(w) \/ GateStep(w) \/ BodyStep(w)
          PROVE  mirror' = mirror \/ GateRunsLegacy(w) \/ Publish(w)
      <4>1. CASE Fetch(w)
        BY <4>1 DEF Fetch
      <4>2. CASE GateStep(w)
        BY <4>2 DEF GateStep, GateSkips, GateRefusesStore, GateRefusesSource, GateSkipsStale, GateAdmits,
                    GateObserves, GateLeaves
      <4>3. CASE BodyStep(w)
        BY <4>3 DEF BodyStep, Plan, CaptureToken, Superseded, BodyFails, MarkError
      <4>4. QED
        BY <3>1, <4>1, <4>2, <4>3
    <3>2. CASE TabFetches \/ TabObserves
      BY <3>2 DEF TabFetches, TabObserves
    <3>3. CASE AdapterStep
      BY <3>3 DEF AdapterStep, Refresh, SourceMoves, Rebuild, Downgrade, AdapterLeaves
    <3>4. CASE OwnerStep
      BY <3>4 DEF OwnerStep, Accept, Edit, Release, ApplyStarts, ApplySettles, OwnerLeaves
    <3>5. CASE LinkStep
      BY <3>5 DEF LinkStep, RekeyMarks, RekeyCalls, RekeyFails, RekeyEnds, Relink
    <3>6. CASE UNCHANGED vars
      BY <3>6 DEF vars
    <3>7. QED
      BY <1>1, <3>1, <3>2, <3>3, <3>4, <3>5, <3>6 DEF Next
  <2>7. QED
    BY <2>2, <2>3, <2>4, <2>5, <2>6
<1>2. ReadsInv /\ [Next]_vars =>
        [\A f \in Families :
           LET was == mirror[f] is == mirror'[f] IN
           was # Nothing /\ is # Nothing /\ was.link = is.link /\ was.inc = is.inc /\ was.source = is.source
             => is.att >= was.att]_vars
  BY <1>1
<1>3. QED
  BY <1>2, ReadsInvariant, PTL DEF Spec, OverlaysNeverGoBack

\* Of two stores born together none is adopted, unless a younger one was seen.
THEOREM TiedStoresAreRefused == Spec => AmbiguousStoreIsNotAdopted
<1>1. ASSUME ReadsInv, NEW i \in Incarnations, Adoptable(mgmt, i), NEW j \in noticed, j # i, Born[j] = Born[i]
      PROVE  \E k \in noticed : Born[k] > Born[j]
  <2>1. NoticeInv(mgmt, noticed) /\ mgmt \in Managements /\ noticed \subseteq Incarnations
    BY <1>1, ReadsParts
  <2>2. /\ Born[j] > BornOf(mgmt.inc) /\ Born[j] > mgmt.conflict /\ ~SameBirth(i, mgmt.pend)
    BY <1>1 DEF Adoptable
  <2>3. /\ BornOf(mgmt.inc) \in Nat /\ BornOf(mgmt.pend) \in Nat /\ mgmt.conflict \in Nat /\ Born[j] \in Nat \ {0}
        /\ mgmt.pend # 0 => BornOf(mgmt.pend) = Born[mgmt.pend]
        /\ mgmt.pend = 0 => BornOf(mgmt.pend) = 0
    BY <2>1, BirthTypes, Constants
  <2>4. j = mgmt.pend \/ Born[j] < BornOf(mgmt.pend)
    BY <2>1, <2>2, <2>3 DEF NoticeInv
  <2>5. j # mgmt.pend
    BY <1>1, <2>1, <2>2, Constants DEF SameBirth
  <2>6. mgmt.pend # 0 /\ Born[mgmt.pend] > Born[j]
    BY <2>3, <2>4, <2>5
  <2>7. QED
    BY <2>1, <2>6 DEF NoticeInv
<1>2. ASSUME ReadsInv, [Next]_vars, mgmt'.inc # mgmt.inc
      PROVE  \E i \in Incarnations : Adoptable(mgmt, i) /\ mgmt'.inc = i
  <2>1. ASSUME NEW w \in Workers, GateStep(w)
        PROVE  mgmt'.inc = mgmt.inc \/ Adopts(w)
    BY <1>2, <2>1, SkipsKeeps, RefusesStoreKeeps, RefusesSourceKeeps, SkipsStaleKeeps, AdmitsKeeps,
       ObservesKeeps DEF GateStep, GateRunsLegacy
  <2>2. ASSUME NEW w \in Workers, Fetch(w) \/ BodyStep(w)
        PROVE  mgmt' = mgmt
    BY <2>2 DEF Fetch, gateVars, BodyStep, Plan, CaptureToken, Publish, Superseded, BodyFails, MarkError
  <2>3. CASE TabFetches \/ TabObserves
    BY <1>2, <2>3, TabObservesKeeps DEF TabFetches, gateVars
  <2>4. CASE AdapterStep
    BY <1>2, <2>4 DEF AdapterStep, Refresh, SourceMoves, Rebuild, Downgrade, AdapterLeaves, gateVars
  <2>5. CASE OwnerStep
    BY <1>2, <2>5 DEF OwnerStep, Accept, Edit, Release, ApplyStarts, ApplySettles, OwnerLeaves, gateVars
  <2>6. CASE LinkStep
    BY <1>2, <2>6, LinkKeeps
  <2>7. CASE UNCHANGED vars
    BY <1>2, <2>7 DEF vars
  <2>8. CASE \E w \in Workers : Fetch(w) \/ GateStep(w) \/ BodyStep(w)
    BY <1>2, <2>1, <2>2, <2>8 DEF Adopts
  <2>9. QED
    BY <1>2, <2>3, <2>4, <2>5, <2>6, <2>7, <2>8 DEF Next
<1>3. ReadsInv /\ [Next]_vars =>
        [mgmt'.inc # mgmt.inc =>
           \A i \in noticed : i # mgmt'.inc /\ Born[i] = Born[mgmt'.inc] =>
             \E j \in noticed : Born[j] > Born[i]]_vars
  BY <1>1, <1>2
<1>4. QED
  BY <1>3, ReadsInvariant, PTL DEF Spec, AmbiguousStoreIsNotAdopted

=============================================================================
