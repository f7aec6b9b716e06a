------------------------- MODULE OutboxAuthorityProofs -------------------------
(***************************************************************************)
(* What the rows, the queue and the claim of IntentOutbox say of deletions *)
(* and un-owns: that authority is never lost, never used against a route   *)
(* that is owned or released, and that a detach is recorded.               *)
(***************************************************************************)
EXTENDS DeliveryProofs

-----------------------------------------------------------------------------
(* Rows and what they fold to                                              *)

\* the ordinary rows that wait for a claim, and those a claim has consumed
Waiting == Ordinary(Unconsumed)
Consumed == Ordinary({e \in entries : e.by # 0})

\* keys are unique, a claim consumes every row there is, and only ordinary rows of a per-object
\* scope name objects
RowInv ==
    /\ \A e, f \in entries : e.id = f.id => e = f
    /\ \A e, f \in entries : e.by # 0 /\ f.by = 0 => e.id < f.id
    /\ \A e \in entries : e.ops # NoOps => PerObject /\ e.kind = "ordinary"

\* r is last named by a row that records o
LastIs(E, r, o) == \E z \in E : z.ops[r] = o /\ \A f \in E : f.id > z.id => f.ops[r] = "none"

\* the rows of E and of F record the same under the same keys
Matches(e, f) == f.id = e.id /\ f.kind = e.kind /\ f.ops = e.ops /\ f.all = e.all /\ f.any = e.any
SameRows(E, F) == (\A e \in E : \E f \in F : Matches(e, f)) /\ (\A f \in F : \E e \in E : Matches(e, f))

LEMMA LastOne ==
    ASSUME NEW E \in SUBSET EntryType, NEW n \in Nat, \A e \in E : e.id < n,
           \A e, f \in E : e.id = f.id => e = f, NEW r \in Routes
    PROVE  /\ (\E e \in E : e.ops[r] # "none") => LastIs(E, r, "delete") \/ LastIs(E, r, "revoke")
           /\ Deletes(E, r) <=> LastIs(E, r, "delete")
           /\ Revokes(E, r) <=> LastIs(E, r, "revoke")
<1>1. \A e \in E : e.id \in Nat /\ e.ops[r] \in Ops
  BY DEF EntryType
<1>2. ASSUME NEW e \in E, e.ops[r] # "none"
      PROVE  \E z \in E : z.id >= e.id /\ z.ops[r] # "none" /\ \A f \in E : f.id > z.id => f.ops[r] = "none"
  <2>. DEFINE S == {f \in E : f.ops[r] # "none"}
  <2>1. S \in SUBSET EntryType /\ S # {} /\ \A f \in S : f.id < n
    BY <1>2
  <2>. HIDE DEF S
  <2>2. PICK z \in S : \A f \in S : f.id <= z.id
    BY <2>1, HighestRow
  <2>3. z \in E /\ z.ops[r] # "none" /\ z.id >= e.id
    BY <1>1, <1>2, <2>2 DEF S
  <2>4. ASSUME NEW f \in E, f.id > z.id
        PROVE  f.ops[r] = "none"
    BY <1>1, <2>2, <2>3, <2>4 DEF S
  <2>5. QED
    BY <2>3, <2>4
<1>3. Deletes(E, r) => LastIs(E, r, "delete")
  <2>1. SUFFICES ASSUME NEW e \in E, e.ops[r] = "delete", \A f \in E : f.id > e.id => f.ops[r] # "revoke"
                 PROVE  LastIs(E, r, "delete")
    BY DEF Deletes
  <2>2. PICK z \in E : z.id >= e.id /\ z.ops[r] # "none" /\ \A f \in E : f.id > z.id => f.ops[r] = "none"
    BY <1>2, <2>1
  <2>3. z.ops[r] # "revoke"
    BY <1>1, <2>1, <2>2
  <2>4. z.ops[r] = "delete"
    BY <1>1, <2>2, <2>3 DEF Ops
  <2>5. QED
    BY <2>2, <2>4 DEF LastIs
<1>4. Revokes(E, r) => LastIs(E, r, "revoke")
  <2>1. SUFFICES ASSUME NEW e \in E, e.ops[r] = "revoke", \A f \in E : f.id > e.id => f.ops[r] # "delete"
                 PROVE  LastIs(E, r, "revoke")
    BY DEF Revokes
  <2>2. PICK z \in E : z.id >= e.id /\ z.ops[r] # "none" /\ \A f \in E : f.id > z.id => f.ops[r] = "none"
    BY <1>2, <2>1
  <2>3. z.ops[r] # "delete"
    BY <1>1, <2>1, <2>2
  <2>4. z.ops[r] = "revoke"
    BY <1>1, <2>2, <2>3 DEF Ops
  <2>5. QED
    BY <2>2, <2>4 DEF LastIs
<1>5. LastIs(E, r, "delete") => Deletes(E, r)
  BY DEF LastIs, Deletes
<1>6. LastIs(E, r, "revoke") => Revokes(E, r)
  BY DEF LastIs, Revokes
<1>7. (\E e \in E : e.ops[r] # "none") => LastIs(E, r, "delete") \/ LastIs(E, r, "revoke")
  <2>1. SUFFICES ASSUME NEW e \in E, e.ops[r] # "none"
                 PROVE  LastIs(E, r, "delete") \/ LastIs(E, r, "revoke")
    OBVIOUS
  <2>2. PICK z \in E : z.id >= e.id /\ z.ops[r] # "none" /\ \A f \in E : f.id > z.id => f.ops[r] = "none"
    BY <1>2, <2>1
  <2>3. z.ops[r] = "delete" \/ z.ops[r] = "revoke"
    BY <1>1, <2>2 DEF Ops
  <2>4. QED
    BY <2>2, <2>3 DEF LastIs
<1>8. QED
  BY <1>3, <1>4, <1>5, <1>6, <1>7

LEMMA LastWord ==
    ASSUME NEW E \in SUBSET EntryType, NEW n \in Nat, \A e \in E : e.id < n,
           \A e, f \in E : e.id = f.id => e = f, NEW r \in Routes
    PROVE  /\ Deletes(E, r) <=> LastOp(E, r) = "delete"
           /\ Revokes(E, r) <=> LastOp(E, r) = "revoke"
           /\ \A o \in {"delete", "revoke"} : LastIs(E, r, o) <=> LastOp(E, r) = o
           /\ LastOp(E, r) = "none" <=> \A e \in E : e.ops[r] = "none"
           /\ LastOp(E, r) \in Ops
<1>1. ASSUME Deletes(E, r), Revokes(E, r)
      PROVE  FALSE
  <2>1. PICK d \in E : d.ops[r] = "delete" /\ \A f \in E : f.id > d.id => f.ops[r] = "none"
    BY <1>1, LastOne DEF LastIs
  <2>2. PICK v \in E : v.ops[r] = "revoke" /\ \A f \in E : f.id > v.id => f.ops[r] = "none"
    BY <1>1, LastOne DEF LastIs
  <2>3. ~(v.id > d.id) /\ ~(d.id > v.id) /\ v # d
    BY <2>1, <2>2
  <2>4. v.id \in Nat /\ d.id \in Nat
    BY DEF EntryType
  <2>5. QED
    BY <2>3, <2>4
<1>2. (\E e \in E : e.ops[r] # "none") => Deletes(E, r) \/ Revokes(E, r)
  BY LastOne
<1>3. Deletes(E, r) \/ Revokes(E, r) => \E e \in E : e.ops[r] # "none"
  BY DEF Deletes, Revokes
<1>4. /\ Deletes(E, r) <=> LastIs(E, r, "delete")
      /\ Revokes(E, r) <=> LastIs(E, r, "revoke")
  BY LastOne
<1>5. /\ Deletes(E, r) <=> LastOp(E, r) = "delete"
      /\ Revokes(E, r) <=> LastOp(E, r) = "revoke"
      /\ LastOp(E, r) \in Ops
  BY <1>1 DEF LastOp, Ops
<1>6. QED
  BY <1>2, <1>3, <1>4, <1>5 DEF Ops

\* of two batches the later one has the last word
LEMMA LaterRows ==
    ASSUME NEW E \in SUBSET EntryType, NEW F \in SUBSET EntryType, NEW n \in Nat,
           \A e \in E \cup F : e.id < n, \A e, f \in E \cup F : e.id = f.id => e = f,
           NEW r \in Routes, \A e \in E, f \in F : e.id < f.id
    PROVE  LastOp(E \cup F, r) = IF LastOp(F, r) # "none" THEN LastOp(F, r) ELSE LastOp(E, r)
<1>1. \A e \in E \cup F : e.id \in Nat
  BY DEF EntryType
<1>. DEFINE EF == E \cup F
<1>2. EF \in SUBSET EntryType /\ (\A e \in EF : e.id < n) /\ \A e, f \in EF : e.id = f.id => e = f
  OBVIOUS
<1>3. /\ \A o \in {"delete", "revoke"} : LastIs(EF, r, o) <=> LastOp(EF, r) = o
      /\ LastOp(EF, r) = "none" <=> \A e \in EF : e.ops[r] = "none"
  <2>. HIDE DEF EF
  <2>1. QED
    BY <1>2, LastWord
<1>4. /\ \A o \in {"delete", "revoke"} : LastIs(E, r, o) <=> LastOp(E, r) = o
      /\ LastOp(E, r) = "none" <=> \A e \in E : e.ops[r] = "none"
      /\ LastOp(E, r) \in Ops
  BY LastWord
<1>5. /\ \A o \in {"delete", "revoke"} : LastIs(F, r, o) <=> LastOp(F, r) = o
      /\ LastOp(F, r) = "none" <=> \A e \in F : e.ops[r] = "none"
      /\ LastOp(F, r) \in Ops
  BY LastWord
<1>6. ASSUME NEW o \in {"delete", "revoke"}, LastIs(F, r, o)
      PROVE  LastIs(EF, r, o)
  <2>1. PICK z \in F : z.ops[r] = o /\ \A f \in F : f.id > z.id => f.ops[r] = "none"
    BY <1>6 DEF LastIs
  <2>2. \A f \in E : ~(f.id > z.id)
    BY <1>1
  <2>3. QED
    BY <2>1, <2>2 DEF LastIs
<1>7. ASSUME NEW o \in {"delete", "revoke"}, LastIs(E, r, o), \A f \in F : f.ops[r] = "none"
      PROVE  LastIs(EF, r, o)
  BY <1>7 DEF LastIs
<1>8. CASE LastOp(F, r) # "none"
  <2>1. LastOp(F, r) \in {"delete", "revoke"}
    BY <1>5, <1>8 DEF Ops
  <2>2. QED
    BY <1>3, <1>5, <1>6, <1>8, <2>1
<1>9. CASE LastOp(F, r) = "none" /\ LastOp(E, r) # "none"
  <2>1. LastOp(E, r) \in {"delete", "revoke"}
    BY <1>4, <1>9 DEF Ops
  <2>2. QED
    BY <1>3, <1>4, <1>5, <1>7, <1>9, <2>1
<1>10. CASE LastOp(F, r) = "none" /\ LastOp(E, r) = "none"
  BY <1>3, <1>4, <1>5, <1>10
<1>11. QED
  BY <1>8, <1>9, <1>10

LEMMA SameFold ==
    ASSUME NEW E, NEW F, SameRows(E, F), NEW r
    PROVE  /\ LastOp(E, r) = LastOp(F, r)
           /\ r \in Withdrawn(E) <=> r \in Withdrawn(F)
           /\ MarkAny(E) <=> MarkAny(F)
           /\ (\E e \in Ordinary(E) : ~e.all) <=> (\E f \in Ordinary(F) : ~f.all)
           /\ SameRows(Ordinary(E), Ordinary(F))
<1>1. SameRows(F, E)
  BY DEF SameRows, Matches
<1>2. ASSUME NEW G, NEW H, SameRows(G, H)
      PROVE  (Deletes(G, r) => Deletes(H, r)) /\ (Revokes(G, r) => Revokes(H, r))
  <2>1. ASSUME NEW o, NEW v, NEW e \in G, e.ops[r] = o, \A f \in G : f.id > e.id => f.ops[r] # v
        PROVE  \E h \in H : h.ops[r] = o /\ \A f \in H : f.id > h.id => f.ops[r] # v
    <3>1. PICK h \in H : Matches(e, h)
      BY <1>2 DEF SameRows
    <3>2. h.id = e.id /\ h.ops[r] = o
      BY <2>1, <3>1 DEF Matches
    <3>3. ASSUME NEW f \in H, f.id > h.id
          PROVE  f.ops[r] # v
      <4>1. PICK g \in G : g.id = f.id /\ g.ops = f.ops
        BY <1>2, <3>3 DEF SameRows, Matches
      <4>2. QED
        BY <2>1, <3>2, <3>3, <4>1
    <3>4. QED
      BY <3>2, <3>3
  <2>2. ASSUME Deletes(G, r)
        PROVE  Deletes(H, r)
    <3>1. PICK e \in G : e.ops[r] = "delete" /\ \A f \in G : f.id > e.id => f.ops[r] # "revoke"
      BY <2>2 DEF Deletes
    <3>2. \E h \in H : h.ops[r] = "delete" /\ \A f \in H : f.id > h.id => f.ops[r] # "revoke"
      BY <2>1, <3>1
    <3>3. QED
      BY <3>2 DEF Deletes
  <2>3. ASSUME Revokes(G, r)
        PROVE  Revokes(H, r)
    <3>1. PICK e \in G : e.ops[r] = "revoke" /\ \A f \in G : f.id > e.id => f.ops[r] # "delete"
      BY <2>3 DEF Revokes
    <3>2. \E h \in H : h.ops[r] = "revoke" /\ \A f \in H : f.id > h.id => f.ops[r] # "delete"
      BY <2>1, <3>1
    <3>3. QED
      BY <3>2 DEF Revokes
  <2>4. QED
    BY <2>2, <2>3
<1>3. (r \in Withdrawn(E)) <=> r \in Withdrawn(F)
  BY DEF SameRows, Matches, Withdrawn
<1>4. SameRows(Ordinary(E), Ordinary(F))
  BY DEF SameRows, Matches, Ordinary
<1>5. (MarkAny(E) <=> MarkAny(F)) /\ ((\E e \in Ordinary(E) : ~e.all) <=> (\E f \in Ordinary(F) : ~f.all))
  BY <1>4 DEF SameRows, Matches, MarkAny
<1>6. LastOp(E, r) = LastOp(F, r)
  <2>1. (Deletes(E, r) <=> Deletes(F, r)) /\ (Revokes(E, r) <=> Revokes(F, r))
    BY <1>1, <1>2
  <2>2. QED
    BY <2>1 DEF LastOp
<1>7. QED
  BY <1>3, <1>4, <1>5, <1>6

-----------------------------------------------------------------------------
(* Compaction changes no fold                                              *)

\* Every unconsumed row is merged into one that survives, and into no later one.
LEMMA Survivor ==
    ASSUME OutboxInv, RowInv, NEW z \in Unconsumed
    PROVE  \E t \in Unconsumed :
              /\ Survives(t) /\ z.id <= t.id /\ t.kind = z.kind
              /\ IF Compactable(t) THEN z \in Span(t) ELSE t = z
              /\ \A h \in Unconsumed : h.id > t.id => \A x \in Span(h) : x.id > z.id
<1>1. Unconsumed \in SUBSET EntryType /\ nextId \in Nat /\ \A e \in Unconsumed : e.id < nextId
  BY DEF OutboxInv, TypeOK, DeliveryInv, ClaimInv, Unconsumed
<1>2. \A e \in Unconsumed : e.id \in Nat
  BY <1>1 DEF EntryType
<1>3. ASSUME NEW h \in Unconsumed, NEW x \in Span(h), x.id <= z.id, z.id <= h.id
      PROVE  Compactable(z) /\ h \in Span(z)
  <2>1. SameSpan(h, x) /\ x \in Unconsumed
    BY <1>3 DEF Span
  <2>2. \A g \in Unconsumed : z.id <= g.id /\ g.id <= h.id => Compactable(g) /\ g.kind = h.kind
    BY <1>2, <1>3, <2>1 DEF SameSpan
  <2>3. Compactable(z) /\ z.kind = h.kind
    BY <1>2, <1>3, <2>2
  <2>4. SameSpan(z, h)
    BY <1>2, <1>3, <2>2, <2>3 DEF SameSpan
  <2>5. QED
    BY <2>3, <2>4 DEF Span
<1>4. CASE ~Compactable(z)
  <2>1. \A h \in Unconsumed : h.id > z.id => ~SameSpan(z, h)
    BY <1>2, <1>4 DEF SameSpan
  <2>2. \A h \in Unconsumed : h.id > z.id => \A x \in Span(h) : x.id > z.id
    <3>1. SUFFICES ASSUME NEW h \in Unconsumed, h.id > z.id, NEW x \in Span(h), ~(x.id > z.id)
                   PROVE  FALSE
      OBVIOUS
    <3>2. x.id <= z.id /\ z.id <= h.id
      BY <1>2, <3>1 DEF Span
    <3>3. QED
      BY <1>3, <1>4, <3>1, <3>2
  <2>3. Survives(z)
    BY <2>1 DEF Survives
  <2>4. QED
    BY <1>2, <1>4, <2>2, <2>3
<1>5. CASE Compactable(z)
  <2>1. z \in Span(z)
    <3>1. \A g \in Unconsumed : z.id <= g.id /\ g.id <= z.id => g.id = z.id
      BY <1>2
    <3>2. \A g \in Unconsumed : g.id = z.id => g = z
      BY DEF RowInv, Unconsumed
    <3>3. QED
      BY <1>5, <3>1, <3>2 DEF Span, SameSpan
  <2>2. Span(z) \in SUBSET EntryType /\ Span(z) # {} /\ \A e \in Span(z) : e.id < nextId
    BY <1>1, <2>1 DEF Span
  <2>3. PICK t \in Span(z) : \A f \in Span(z) : f.id <= t.id
    BY <1>1, <2>2, HighestRow
  <2>4. t \in Unconsumed /\ z.id <= t.id /\ SameSpan(z, t)
    BY <2>1, <2>3 DEF Span
  <2>5. \A g \in Unconsumed : z.id <= g.id /\ g.id <= t.id => Compactable(g) /\ g.kind = z.kind
    BY <2>4 DEF SameSpan
  <2>6. Compactable(t) /\ t.kind = z.kind
    BY <1>2, <2>4, <2>5
  <2>7. z \in Span(t)
    BY <1>2, <2>4, <2>5, <2>6 DEF Span, SameSpan
  <2>8. \A h \in Unconsumed : h.id > t.id => \A x \in Span(h) : x.id > z.id
    <3>1. SUFFICES ASSUME NEW h \in Unconsumed, h.id > t.id, NEW x \in Span(h), ~(x.id > z.id)
                   PROVE  FALSE
      OBVIOUS
    <3>2. x.id <= z.id /\ z.id <= h.id
      BY <1>2, <2>4, <3>1 DEF Span
    <3>3. h \in Span(z)
      BY <1>3, <3>1, <3>2
    <3>4. QED
      BY <1>2, <2>3, <2>4, <3>1, <3>3
  <2>9. Survives(t)
    <3>1. SUFFICES ASSUME NEW f \in Unconsumed, f.id > t.id, SameSpan(t, f)
                   PROVE  FALSE
      BY DEF Survives
    <3>2. \A g \in Unconsumed : t.id <= g.id /\ g.id <= f.id => Compactable(g) /\ g.kind = z.kind
      BY <2>6, <3>1 DEF SameSpan
    <3>3. SameSpan(z, f)
      BY <1>2, <2>4, <2>5, <3>1, <3>2 DEF SameSpan
    <3>4. QED
      BY <1>2, <2>3, <2>4, <3>1, <3>3 DEF Span
  <2>10. QED
    BY <2>4, <2>6, <2>7, <2>8, <2>9
<1>6. QED
  BY <1>4, <1>5

LEMMA MergedRow ==
    ASSUME OutboxInv, RowInv, NEW e \in Unconsumed
    PROVE  /\ Merged(e).id = e.id /\ Merged(e).kind = e.kind /\ Merged(e).by = 0
           /\ Compactable(e) => /\ \A r \in Routes : Merged(e).ops[r] = LastOp(Span(e), r)
                                /\ Merged(e).all = MarkAll(Span(e)) /\ Merged(e).any = MarkAny(Span(e))
                                /\ \A x \in Span(e) : x \in Unconsumed /\ Compactable(x) /\ x.kind = e.kind
           /\ ~Compactable(e) => Merged(e) = e
<1>1. e \in EntryType /\ e.by = 0
  BY DEF OutboxInv, TypeOK, Unconsumed
<1>2. Merged(e).id = e.id /\ Merged(e).kind = e.kind /\ Merged(e).by = 0
  BY <1>1 DEF Merged, EntryType
<1>3. ASSUME Compactable(e)
      PROVE  /\ \A r \in Routes : Merged(e).ops[r] = LastOp(Span(e), r)
             /\ Merged(e).all = MarkAll(Span(e)) /\ Merged(e).any = MarkAny(Span(e))
  BY <1>1, <1>3 DEF Merged, EntryType
<1>4. ASSUME NEW x \in Span(e)
      PROVE  x \in Unconsumed /\ Compactable(x) /\ x.kind = e.kind
  <2>1. x \in Unconsumed /\ SameSpan(e, x) /\ x.id \in Nat /\ e.id \in Nat
    BY <1>1, <1>4 DEF Span, OutboxInv, TypeOK, Unconsumed, EntryType
  <2>2. (e.id <= x.id /\ x.id <= x.id) \/ (x.id <= x.id /\ x.id <= e.id)
    BY <2>1
  <2>3. QED
    BY <2>1, <2>2 DEF SameSpan
<1>5. QED
  BY <1>2, <1>3, <1>4 DEF Merged

LEMMA CompactedRows ==
    ASSUME OutboxInv, RowInv, Compact
    PROVE  /\ Unconsumed' = {Merged(e) : e \in {f \in Unconsumed : Survives(f)}}
           /\ {e \in entries' : e.by # 0} = {e \in entries : e.by # 0}
           /\ \A f \in Unconsumed' : \E e \in Unconsumed :
                 f = Merged(e) /\ Survives(e) /\ f.id = e.id /\ f.kind = e.kind
<1>1. entries' = {e \in entries : e.by # 0} \cup {Merged(e) : e \in {f \in Unconsumed : Survives(f)}}
  BY DEF Compact
<1>2. \A e \in Unconsumed : Merged(e).id = e.id /\ Merged(e).kind = e.kind /\ Merged(e).by = 0
  BY MergedRow
<1>3. Unconsumed' = {e \in entries' : e.by = 0}
  BY DEF Unconsumed
<1>4. Unconsumed' = {Merged(e) : e \in {f \in Unconsumed : Survives(f)}}
  BY <1>1, <1>2, <1>3
<1>5. QED
  BY <1>1, <1>2, <1>4

\* The last word on a route is kept, and so are both marks and what is said of held routes.
LEMMA CompactKeepsLast ==
    ASSUME OutboxInv, RowInv, Compact, NEW r \in Routes, NEW o \in {"delete", "revoke"},
           LastIs(Waiting, r, o)
    PROVE  LastIs(Waiting', r, o)
<1>1. \A e \in Unconsumed : e.id \in Nat /\ e.ops[r] \in Ops
  BY DEF OutboxInv, TypeOK, Unconsumed, EntryType
<1>2. PICK z \in Waiting : z.ops[r] = o /\ \A f \in Waiting : f.id > z.id => f.ops[r] = "none"
  BY DEF LastIs
<1>3. z \in Unconsumed /\ z.kind = "ordinary"
  BY <1>2 DEF Waiting, Ordinary
<1>4. PICK t \in Unconsumed :
         /\ Survives(t) /\ z.id <= t.id /\ t.kind = z.kind
         /\ IF Compactable(t) THEN z \in Span(t) ELSE t = z
         /\ \A h \in Unconsumed : h.id > t.id => \A x \in Span(h) : x.id > z.id
  BY <1>3, Survivor
<1>5. Merged(t) \in Waiting' /\ Merged(t).id = t.id
  <2>1. Merged(t) \in Unconsumed'
    BY <1>4, CompactedRows
  <2>2. Merged(t).kind = "ordinary" /\ Merged(t).id = t.id
    BY <1>3, <1>4, MergedRow
  <2>3. QED
    BY <2>1, <2>2 DEF Waiting, Ordinary
<1>6. Merged(t).ops[r] = o
  <2>1. CASE ~Compactable(t)
    BY <1>2, <1>4, <2>1, MergedRow
  <2>2. CASE Compactable(t)
    <3>1. \A x \in Span(t) : x \in Waiting
      BY <1>3, <1>4, <2>2, MergedRow DEF Waiting, Ordinary
    <3>2. \A x \in Span(t) : x.id > z.id => x.ops[r] = "none"
      BY <1>2, <3>1
    <3>3. z \in Span(t) /\ \A x \in Span(t) : x.id \in Nat /\ (x.id = z.id => x = z)
      BY <1>1, <1>3, <1>4, <2>2, MergedRow DEF RowInv, Unconsumed
    <3>4. LastOp(Span(t), r) = o
      <4>1. CASE o = "delete"
        BY <1>2, <3>2, <3>3, <4>1 DEF LastOp, Deletes
      <4>2. CASE o = "revoke"
        <5>1. ~Deletes(Span(t), r)
          <6>1. SUFFICES ASSUME NEW e \in Span(t), e.ops[r] = "delete",
                                \A f \in Span(t) : f.id > e.id => f.ops[r] # "revoke"
                         PROVE  FALSE
            BY DEF Deletes
          <6>2. ~(e.id > z.id) /\ e.id # z.id
            BY <1>2, <3>2, <3>3, <4>2, <6>1
          <6>3. QED
            BY <1>1, <1>2, <1>3, <3>3, <4>2, <6>1, <6>2
        <5>2. Revokes(Span(t), r)
          BY <1>2, <3>2, <3>3, <4>2 DEF Revokes
        <5>3. QED
          BY <4>2, <5>1, <5>2 DEF LastOp
      <4>3. QED
        BY <4>1, <4>2
    <3>5. QED
      BY <2>2, <3>4, MergedRow
  <2>3. QED
    BY <2>1, <2>2
<1>7. ASSUME NEW f \in Waiting', f.id > t.id
      PROVE  f.ops[r] = "none"
  <2>1. f \in Unconsumed' /\ f.kind = "ordinary"
    BY <1>7 DEF Waiting, Ordinary
  <2>2. PICK h \in Unconsumed : f = Merged(h) /\ f.id = h.id /\ h.kind = "ordinary"
    BY <2>1, CompactedRows
  <2>3. h \in Waiting /\ h.id > z.id
    BY <1>1, <1>4, <1>3, <1>7, <2>2 DEF Waiting, Ordinary
  <2>4. CASE ~Compactable(h)
    BY <1>2, <2>2, <2>3, <2>4, MergedRow
  <2>5. CASE Compactable(h)
    <3>1. \A x \in Span(h) : x \in Waiting /\ x.id > z.id
      BY <1>4, <1>7, <2>2, <2>5, MergedRow DEF Waiting, Ordinary
    <3>2. \A x \in Span(h) : x.ops[r] = "none"
      BY <1>2, <3>1
    <3>3. LastOp(Span(h), r) = "none"
      BY <3>2 DEF LastOp, Deletes, Revokes
    <3>4. QED
      BY <2>2, <2>5, <3>3, MergedRow
  <2>6. QED
    BY <2>4, <2>5
<1>8. QED
  BY <1>5, <1>6, <1>7 DEF LastIs

LEMMA CompactKeepsNothing ==
    ASSUME OutboxInv, RowInv, Compact, NEW r \in Routes, \A e \in Waiting : e.ops[r] = "none"
    PROVE  \A f \in Waiting' : f.ops[r] = "none"
<1>1. SUFFICES ASSUME NEW f \in Waiting' PROVE f.ops[r] = "none"
  OBVIOUS
<1>2. f \in Unconsumed' /\ f.kind = "ordinary"
  BY DEF Waiting, Ordinary
<1>3. PICK h \in Unconsumed : f = Merged(h) /\ h.kind = "ordinary"
  BY <1>2, CompactedRows
<1>4. CASE ~Compactable(h)
  BY <1>3, <1>4, MergedRow DEF Waiting, Ordinary
<1>5. CASE Compactable(h)
  <2>1. \A x \in Span(h) : x.ops[r] = "none"
    BY <1>3, <1>5, MergedRow DEF Waiting, Ordinary
  <2>2. LastOp(Span(h), r) = "none"
    BY <2>1 DEF LastOp, Deletes, Revokes
  <2>3. QED
    BY <1>3, <1>5, <2>2, MergedRow
<1>6. QED
  BY <1>4, <1>5

LEMMA CompactKeepsMarks ==
    ASSUME OutboxInv, RowInv, Compact
    PROVE  /\ MarkAny(Waiting)' <=> MarkAny(Waiting)
           /\ (\E e \in Waiting' : ~e.all) <=> \E e \in Waiting : ~e.all
           /\ Waiting' = {} <=> Waiting = {}
<1>1. ASSUME NEW z \in Waiting
      PROVE  \E f \in Waiting' : (z.any => f.any) /\ (~z.all => ~f.all)
  <2>1. z \in Unconsumed /\ z.kind = "ordinary"
    BY DEF Waiting, Ordinary
  <2>2. PICK t \in Unconsumed : /\ Survives(t) /\ t.kind = z.kind
                                /\ IF Compactable(t) THEN z \in Span(t) ELSE t = z
    BY <2>1, Survivor
  <2>3. Merged(t) \in Waiting'
    <3>1. Merged(t) \in Unconsumed' /\ Merged(t).kind = "ordinary"
      BY <2>1, <2>2, CompactedRows, MergedRow
    <3>2. QED
      BY <3>1 DEF Waiting, Ordinary
  <2>4. (z.any => Merged(t).any) /\ (~z.all => ~Merged(t).all)
    <3>1. CASE Compactable(t)
      <4>1. z \in Ordinary(Span(t))
        BY <2>1, <2>2, <3>1 DEF Ordinary
      <4>2. Merged(t).any = MarkAny(Span(t)) /\ Merged(t).all = MarkAll(Span(t))
        BY <3>1, MergedRow
      <4>3. QED
        BY <4>1, <4>2 DEF MarkAny, MarkAll
    <3>2. CASE ~Compactable(t)
      BY <2>2, <3>2, MergedRow
    <3>3. QED
      BY <3>1, <3>2
  <2>5. QED
    BY <2>3, <2>4
<1>2. ASSUME NEW f \in Waiting'
      PROVE  \E z \in Waiting : (f.any => \E x \in Waiting : x.any) /\ (~f.all => \E x \in Waiting : ~x.all)
  <2>1. f \in Unconsumed' /\ f.kind = "ordinary"
    BY DEF Waiting, Ordinary
  <2>2. PICK h \in Unconsumed : f = Merged(h) /\ Survives(h) /\ h.kind = "ordinary"
    BY <2>1, CompactedRows
  <2>3. h \in Waiting
    BY <2>2 DEF Waiting, Ordinary
  <2>4. CASE ~Compactable(h)
    BY <2>2, <2>3, <2>4, MergedRow
  <2>5. CASE Compactable(h)
    <3>1. \A x \in Ordinary(Span(h)) : x \in Waiting
      BY <2>2, <2>5, MergedRow DEF Waiting, Ordinary
    <3>2. f.any = MarkAny(Span(h)) /\ f.all = MarkAll(Span(h))
      BY <2>2, <2>5, MergedRow
    <3>3. f.any => \E x \in Waiting : x.any
      BY <3>1, <3>2 DEF MarkAny
    <3>4. Ordinary(Span(h)) # {}
      <4>1. PICK t \in Unconsumed : /\ h.id <= t.id /\ t.kind = h.kind /\ Survives(t)
                                    /\ IF Compactable(t) THEN h \in Span(t) ELSE t = h
        BY Survivor
      <4>2. h \in Span(t)
        BY <2>5, <4>1
      <4>3. SameSpan(t, h) /\ t.id \in Nat /\ h.id \in Nat
        BY <4>2 DEF Span, OutboxInv, TypeOK, Unconsumed, EntryType
      <4>4. \A g \in Unconsumed : h.id <= g.id /\ g.id <= t.id => Compactable(g) /\ g.kind = t.kind
        BY <4>3 DEF SameSpan
      <4>5. SameSpan(h, h)
        <5>1. \A g \in Unconsumed : h.id <= g.id /\ g.id <= h.id => h.id <= g.id /\ g.id <= t.id
          BY <4>1, <4>3 DEF OutboxInv, TypeOK, Unconsumed, EntryType
        <5>2. QED
          BY <4>1, <4>4, <5>1 DEF SameSpan
      <4>6. QED
        BY <2>2, <4>5 DEF Span, Ordinary
    <3>5. ~f.all => \E x \in Waiting : ~x.all
      BY <3>1, <3>2, <3>4 DEF MarkAll
    <3>6. QED
      BY <2>3, <3>3, <3>5
  <2>6. QED
    BY <2>4, <2>5
<1>3. Ordinary(Waiting) = Waiting /\ Ordinary(Waiting') = Waiting'
  BY DEF Waiting, Ordinary
<1>4. MarkAny(Waiting) <=> \E e \in Waiting : e.any
  BY <1>3 DEF MarkAny
<1>5. MarkAny(Waiting)' <=> \E e \in Waiting' : e.any
  BY <1>3 DEF MarkAny, Waiting, Ordinary
<1>6. (\E e \in Waiting' : e.any) <=> (\E e \in Waiting : e.any)
  BY <1>1, <1>2
<1>7. (\E e \in Waiting' : ~e.all) <=> (\E e \in Waiting : ~e.all)
  BY <1>1, <1>2
<1>8. QED
  BY <1>1, <1>2, <1>4, <1>5, <1>6, <1>7

-----------------------------------------------------------------------------
(* What each step does to the rows                                         *)

Everything == Ordinary(entries)
Unmarked(E) == \E e \in E : ~e.all

\* the waiting rows come after the consumed ones
LEMMA Rows ==
    ASSUME OutboxInv, RowInv, NEW r \in Routes
    PROVE  /\ entries \in SUBSET EntryType /\ nextId \in Nat /\ \A e \in entries : e.id < nextId
           /\ Waiting \in SUBSET EntryType /\ Consumed \in SUBSET EntryType
           /\ Everything = Consumed \cup Waiting
           /\ \A e \in Everything : e \in entries /\ e.id < nextId
           /\ LastOp(Everything, r) = IF LastOp(Waiting, r) # "none" THEN LastOp(Waiting, r)
                                      ELSE LastOp(Consumed, r)
           /\ LastOp(Waiting, r) \in Ops /\ LastOp(Consumed, r) \in Ops
           /\ Deletes(Waiting, r) <=> LastOp(Waiting, r) = "delete"
           /\ Revokes(Waiting, r) <=> LastOp(Waiting, r) = "revoke"
           /\ LastOp(Waiting, r) = "none" <=> \A e \in Waiting : e.ops[r] = "none"
           /\ r \in Withdrawn(Waiting) => LastOp(Waiting, r) # "none"
           /\ LastOp(Waiting, r) = "revoke" => r \in Withdrawn(Waiting)
           /\ Deletes(Everything, r) <=> LastOp(Everything, r) = "delete"
<1>1. entries \in SUBSET EntryType /\ nextId \in Nat /\ \A e \in entries : e.id < nextId
  BY DEF OutboxInv, TypeOK, DeliveryInv, ClaimInv
<1>2. Waiting \in SUBSET entries /\ Consumed \in SUBSET entries /\ Everything = Consumed \cup Waiting
  BY DEF Waiting, Consumed, Everything, Ordinary, Unconsumed
<1>3. \A e \in Consumed, f \in Waiting : e.id < f.id
  BY DEF RowInv, Waiting, Consumed, Ordinary, Unconsumed
<1>4. \A e, f \in Consumed \cup Waiting : e.id = f.id => e = f
  BY <1>2 DEF RowInv
<1>5. \A e \in Consumed \cup Waiting : e.id < nextId
  BY <1>1, <1>2
<1>6. Waiting \in SUBSET EntryType /\ Consumed \in SUBSET EntryType
  BY <1>1, <1>2
<1>7. LastOp(Consumed \cup Waiting, r) = IF LastOp(Waiting, r) # "none" THEN LastOp(Waiting, r)
                                         ELSE LastOp(Consumed, r)
  BY <1>1, <1>3, <1>4, <1>5, <1>6, LaterRows
<1>8. /\ LastOp(Waiting, r) \in Ops
      /\ Deletes(Waiting, r) <=> LastOp(Waiting, r) = "delete"
      /\ Revokes(Waiting, r) <=> LastOp(Waiting, r) = "revoke"
      /\ LastOp(Waiting, r) = "none" <=> \A e \in Waiting : e.ops[r] = "none"
  BY <1>1, <1>4, <1>5, <1>6, LastWord
<1>9. LastOp(Consumed, r) \in Ops
  BY <1>1, <1>4, <1>5, <1>6, LastWord
<1>10. Everything \in SUBSET EntryType /\ (\A e \in Everything : e.id < nextId)
       /\ \A e, f \in Everything : e.id = f.id => e = f
  BY <1>2, <1>4, <1>5, <1>6
<1>11. Deletes(Everything, r) <=> LastOp(Everything, r) = "delete"
  BY <1>1, <1>10, LastWord
<1>12. /\ r \in Withdrawn(Waiting) => LastOp(Waiting, r) # "none"
       /\ LastOp(Waiting, r) = "revoke" => r \in Withdrawn(Waiting)
  BY <1>8 DEF Withdrawn, Revokes
<1>13. QED
  BY <1>1, <1>2, <1>5, <1>6, <1>7, <1>8, <1>9, <1>11, <1>12

LEMMA AppendedRows ==
    ASSUME OutboxInv, RowInv, NEW ops \in [Routes -> Ops], NEW mark \in BOOLEAN,
           Append("ordinary", ops, mark), ops # NoOps => PerObject
    PROVE  /\ RowInv' /\ Consumed' = Consumed
           /\ \A r \in Routes : LastOp(Waiting', r) = IF ops[r] # "none" THEN ops[r] ELSE LastOp(Waiting, r)
           /\ MarkAny(Waiting') <=> MarkAny(Waiting) \/ mark
           /\ Unmarked(Waiting') <=> Unmarked(Waiting) \/ ~mark
<1>. DEFINE row == [id |-> nextId, kind |-> "ordinary", ops |-> ops, all |-> mark, any |-> mark, by |-> 0]
<1>1. entries' = entries \cup {row} /\ nextId' = nextId + 1
  BY DEF Append
<1>2. entries \in SUBSET EntryType /\ nextId \in Nat /\ \A e \in entries : e.id < nextId
  BY DEF OutboxInv, TypeOK, DeliveryInv, ClaimInv
<1>3. /\ row \in EntryType /\ row.id = nextId /\ row.kind = "ordinary" /\ row.ops = ops
      /\ row.all = mark /\ row.any = mark /\ row.by = 0
  BY <1>2 DEF EntryType
<1>. HIDE DEF row
<1>4. \A e \in entries : e.id \in Nat
  BY <1>2 DEF EntryType
<1>5. RowInv'
  <2>1. \A e, f \in entries' : e.id = f.id => e = f
    BY <1>1, <1>2, <1>3, <1>4 DEF RowInv
  <2>2. \A e, f \in entries' : e.by # 0 /\ f.by = 0 => e.id < f.id
    BY <1>1, <1>2, <1>3, <1>4 DEF RowInv
  <2>3. \A e \in entries' : e.ops # NoOps => PerObject /\ e.kind = "ordinary"
    BY <1>1, <1>3 DEF RowInv
  <2>4. QED
    BY <2>1, <2>2, <2>3 DEF RowInv
<1>6. Waiting' = Waiting \cup {row} /\ Consumed' = Consumed
  BY <1>1, <1>3 DEF Waiting, Consumed, Unconsumed, Ordinary
<1>7. ASSUME NEW r \in Routes
      PROVE  LastOp(Waiting', r) = IF ops[r] # "none" THEN ops[r] ELSE LastOp(Waiting, r)
  <2>1. Waiting \in SUBSET EntryType /\ {row} \in SUBSET EntryType /\ nextId + 1 \in Nat
    BY <1>2, <1>3, Rows
  <2>2. Waiting \in SUBSET entries
    BY DEF Waiting, Ordinary, Unconsumed
  <2>3. \A e \in Waiting \cup {row} : e.id < nextId + 1
    BY <1>2, <1>3, <1>4, <2>2
  <2>4. \A e \in Waiting, f \in {row} : e.id < f.id
    BY <1>2, <1>3, <2>2
  <2>5. \A e, f \in Waiting \cup {row} : e.id = f.id => e = f
    BY <1>2, <1>3, <1>4, <2>2 DEF RowInv
  <2>6. LastOp(Waiting', r) = IF LastOp({row}, r) # "none" THEN LastOp({row}, r) ELSE LastOp(Waiting, r)
    BY <1>6, <2>1, <2>3, <2>4, <2>5, LaterRows
  <2>7. LastOp({row}, r) = ops[r]
    <3>1. ops[r] \in Ops /\ ~(nextId > nextId)
      BY <1>2
    <3>2. QED
      BY <1>3, <3>1 DEF LastOp, Deletes, Revokes, Ops
  <2>8. QED
    BY <2>6, <2>7
<1>8. /\ MarkAny(Waiting') <=> MarkAny(Waiting) \/ mark
      /\ Unmarked(Waiting') <=> Unmarked(Waiting) \/ ~mark
  BY <1>3, <1>6 DEF MarkAny, Unmarked, Ordinary
<1>9. QED
  BY <1>5, <1>6, <1>7, <1>8

LEMMA RepairRows ==
    ASSUME OutboxInv, RowInv, Append("repair", NoOps, FALSE)
    PROVE  RowInv' /\ Consumed' = Consumed /\ Waiting' = Waiting
<1>. DEFINE row == [id |-> nextId, kind |-> "repair", ops |-> NoOps, all |-> FALSE, any |-> FALSE, by |-> 0]
<1>1. entries' = entries \cup {row}
  BY DEF Append
<1>2. entries \in SUBSET EntryType /\ nextId \in Nat /\ \A e \in entries : e.id < nextId
  BY DEF OutboxInv, TypeOK, DeliveryInv, ClaimInv
<1>3. row.id = nextId /\ row.kind = "repair" /\ row.ops = NoOps /\ row.by = 0
  OBVIOUS
<1>. HIDE DEF row
<1>4. \A e \in entries : e.id \in Nat
  BY <1>2 DEF EntryType
<1>5. RowInv'
  <2>1. \A e, f \in entries' : e.id = f.id => e = f
    BY <1>1, <1>2, <1>3, <1>4 DEF RowInv
  <2>2. \A e, f \in entries' : e.by # 0 /\ f.by = 0 => e.id < f.id
    BY <1>1, <1>2, <1>3, <1>4 DEF RowInv
  <2>3. \A e \in entries' : e.ops # NoOps => PerObject /\ e.kind = "ordinary"
    BY <1>1, <1>3 DEF RowInv
  <2>4. QED
    BY <2>1, <2>2, <2>3 DEF RowInv
<1>6. QED
  BY <1>1, <1>3, <1>5 DEF Waiting, Consumed, Unconsumed, Ordinary

\* a claim consumes every row
LEMMA TakenRows ==
    ASSUME OutboxInv, RowInv, ~Live, NEW n \in Nat \ {0},
           entries' = {IF e.by = 0 THEN [e EXCEPT !.by = n] ELSE e : e \in entries}
    PROVE  /\ RowInv' /\ Waiting' = {}
           /\ \A r \in Routes : LastOp(Consumed', r) = LastOp(Waiting, r)
           /\ MarkAny(Consumed') <=> MarkAny(Waiting)
           /\ Unmarked(Consumed') <=> Unmarked(Waiting)
<1>. DEFINE taken(e) == IF e.by = 0 THEN [e EXCEPT !.by = n] ELSE e
<1>1. entries \subseteq EntryType /\ \A e \in entries : e.by = 0
  BY DEF OutboxInv, TypeOK, ConsumedRowsNameTheLiveClaim, Live
<1>2. \A e \in entries : Matches(e, taken(e)) /\ taken(e).by = n
  BY <1>1 DEF EntryType, Matches
<1>3. entries' = {taken(e) : e \in entries}
  OBVIOUS
<1>. HIDE DEF taken
<1>4. SameRows(entries, entries') /\ \A f \in entries' : f.by = n
  BY <1>2, <1>3 DEF SameRows
<1>5. RowInv'
  <2>1. \A e, f \in entries' : e.id = f.id => e = f
    BY <1>2, <1>3 DEF RowInv, Matches
  <2>2. \A e \in entries' : e.ops # NoOps => PerObject /\ e.kind = "ordinary"
    BY <1>2, <1>3 DEF RowInv, Matches
  <2>3. QED
    BY <1>4, <2>1, <2>2 DEF RowInv
<1>6. Waiting' = {} /\ Waiting = Ordinary(entries) /\ Consumed' = Ordinary(entries')
  <2>1. {e \in entries' : e.by = 0} = {} /\ {e \in entries' : e.by # 0} = entries'
    BY <1>4
  <2>2. {e \in entries : e.by = 0} = entries
    BY <1>1
  <2>3. QED
    BY <2>1, <2>2 DEF Waiting, Consumed, Unconsumed, Ordinary
<1>7. SameRows(Waiting, Consumed')
  BY <1>4, <1>6, SameFold
<1>8. \A r \in Routes : LastOp(Consumed', r) = LastOp(Waiting, r)
  BY <1>7, SameFold
<1>9. Ordinary(Waiting) = Waiting /\ Ordinary(Consumed') = Consumed'
  BY DEF Waiting, Consumed, Ordinary
<1>10. /\ MarkAny(Consumed') <=> MarkAny(Waiting)
       /\ Unmarked(Consumed') <=> Unmarked(Waiting)
  BY <1>7, <1>9, SameFold DEF Unmarked
<1>11. QED
  BY <1>5, <1>6, <1>8, <1>10

\* an abandoned claim returns its rows in their places
LEMMA ReturnedRows ==
    ASSUME OutboxInv, RowInv, entries' = GiveBack(entries)
    PROVE  /\ RowInv' /\ Consumed' = {}
           /\ \A r \in Routes : LastOp(Waiting', r) = LastOp(Everything, r)
           /\ MarkAny(Waiting') <=> MarkAny(Waiting) \/ MarkAny(Consumed)
           /\ Unmarked(Waiting') <=> Unmarked(Waiting) \/ Unmarked(Consumed)
<1>. DEFINE back(e) == IF e.by = state.claim.seq THEN [e EXCEPT !.by = 0] ELSE e
<1>1. entries \subseteq EntryType /\ \A e \in entries : e.by # 0 => e.by = state.claim.seq
  BY DEF OutboxInv, TypeOK, ConsumedRowsNameTheLiveClaim
<1>2. \A e \in entries : Matches(e, back(e)) /\ back(e).by = 0
  BY <1>1 DEF EntryType, Matches
<1>3. entries' = {back(e) : e \in entries}
  BY DEF GiveBack
<1>. HIDE DEF back
<1>4. SameRows(entries, entries') /\ \A f \in entries' : f.by = 0
  BY <1>2, <1>3 DEF SameRows
<1>5. RowInv'
  <2>1. \A e, f \in entries' : e.id = f.id => e = f
    BY <1>2, <1>3 DEF RowInv, Matches
  <2>2. \A e \in entries' : e.ops # NoOps => PerObject /\ e.kind = "ordinary"
    BY <1>2, <1>3 DEF RowInv, Matches
  <2>3. QED
    BY <1>4, <2>1, <2>2 DEF RowInv
<1>6. Waiting' = Ordinary(entries') /\ Consumed' = {}
  <2>1. {e \in entries' : e.by = 0} = entries' /\ {e \in entries' : e.by # 0} = {}
    BY <1>4
  <2>2. QED
    BY <2>1 DEF Waiting, Consumed, Unconsumed, Ordinary
<1>7. SameRows(Everything, Waiting')
  BY <1>4, <1>6, SameFold DEF Everything
<1>8. \A r \in Routes : LastOp(Waiting', r) = LastOp(Everything, r)
  BY <1>7, SameFold
<1>9. /\ Ordinary(Waiting') = Waiting' /\ Ordinary(Everything) = Everything
      /\ Ordinary(Waiting) = Waiting /\ Ordinary(Consumed) = Consumed
      /\ Everything = Consumed \cup Waiting
  BY DEF Waiting, Consumed, Everything, Ordinary, Unconsumed
<1>10. /\ MarkAny(Waiting') <=> MarkAny(Everything)
       /\ Unmarked(Waiting') <=> Unmarked(Everything)
  BY <1>7, <1>9, SameFold DEF Unmarked
<1>11. /\ MarkAny(Everything) <=> MarkAny(Waiting) \/ MarkAny(Consumed)
       /\ Unmarked(Everything) <=> Unmarked(Waiting) \/ Unmarked(Consumed)
  BY <1>9 DEF MarkAny, Unmarked
<1>12. QED
  BY <1>5, <1>6, <1>8, <1>10, <1>11

\* rows that leave say nothing any more
LEMMA SettledRows ==
    ASSUME OutboxInv, RowInv, Live, entries' = {e \in entries : e.by # state.claim.seq}
    PROVE  RowInv' /\ Consumed' = {} /\ Waiting' = Waiting
<1>1. \A e \in entries : e.by # 0 => e.by = state.claim.seq
  BY DEF OutboxInv, ConsumedRowsNameTheLiveClaim
<1>2. entries' = {e \in entries : e.by = 0}
  BY <1>1 DEF Live
<1>3. RowInv'
  BY <1>2 DEF RowInv
<1>4. {e \in entries' : e.by # 0} = {} /\ {e \in entries' : e.by = 0} = {e \in entries : e.by = 0}
  BY <1>2
<1>5. QED
  BY <1>3, <1>4 DEF Waiting, Consumed, Unconsumed, Ordinary

LEMMA RetiredRows ==
    ASSUME OutboxInv, RowInv, ~Live, entries' = entries \ Unconsumed
    PROVE  RowInv' /\ Consumed' = {} /\ Waiting' = {}
<1>1. \A e \in entries : e.by = 0
  BY DEF OutboxInv, ConsumedRowsNameTheLiveClaim, Live
<1>2. entries' = {}
  BY <1>1 DEF Unconsumed
<1>3. QED
  BY <1>2 DEF RowInv, Waiting, Consumed, Unconsumed, Ordinary

LEMMA MergedRows ==
    ASSUME OutboxInv, RowInv, Compact
    PROVE  /\ RowInv' /\ Consumed' = Consumed
           /\ \A r \in Routes : LastOp(Waiting', r) = LastOp(Waiting, r)
           /\ MarkAny(Waiting') <=> MarkAny(Waiting)
           /\ Unmarked(Waiting') <=> Unmarked(Waiting)
<1>1. entries \in SUBSET EntryType /\ nextId \in Nat /\ \A e \in entries : e.id < nextId
  BY DEF OutboxInv, TypeOK, DeliveryInv, ClaimInv
<1>2. /\ Unconsumed' = {Merged(e) : e \in {f \in Unconsumed : Survives(f)}}
      /\ {e \in entries' : e.by # 0} = {e \in entries : e.by # 0}
      /\ \A f \in Unconsumed' : \E e \in Unconsumed :
            f = Merged(e) /\ Survives(e) /\ f.id = e.id /\ f.kind = e.kind
  BY CompactedRows
<1>3. Unconsumed' = {e \in entries' : e.by = 0}
  BY DEF Unconsumed
<1>4. Unconsumed \subseteq entries /\ \A e \in Unconsumed : e.by = 0
  BY DEF Unconsumed
<1>5. RowInv'
  <2>1. ASSUME NEW e \in entries', NEW f \in entries', e.id = f.id
        PROVE  e = f
    <3>1. CASE e.by # 0 /\ f.by # 0
      BY <1>2, <2>1, <3>1 DEF RowInv
    <3>2. CASE e.by = 0 /\ f.by = 0
      BY <1>2, <1>3, <1>4, <2>1, <3>2 DEF RowInv
    <3>3. ASSUME NEW g \in entries', NEW h \in entries', g.by # 0, h.by = 0
          PROVE  g.id # h.id
      <4>1. g \in entries
        BY <1>2, <3>3
      <4>2. PICK x \in Unconsumed : h.id = x.id
        BY <1>2, <1>3, <3>3
      <4>3. QED
        BY <1>4, <3>3, <4>1, <4>2 DEF RowInv
    <3>4. QED
      BY <2>1, <3>1, <3>2, <3>3
  <2>2. ASSUME NEW e \in entries', NEW f \in entries', e.by # 0, f.by = 0
        PROVE  e.id < f.id
    <3>1. e \in entries
      BY <1>2, <2>2
    <3>2. PICK x \in Unconsumed : f.id = x.id
      BY <1>2, <1>3, <2>2
    <3>3. QED
      BY <1>4, <2>2, <3>1, <3>2 DEF RowInv
  <2>3. ASSUME NEW f \in entries', f.ops # NoOps
        PROVE  PerObject /\ f.kind = "ordinary"
    <3>1. CASE f.by # 0
      BY <1>2, <2>3, <3>1 DEF RowInv
    <3>2. CASE f.by = 0
      <4>1. PICK s \in Unconsumed : f = Merged(s) /\ f.kind = s.kind
        BY <1>2, <1>3, <3>2
      <4>2. CASE ~Compactable(s)
        BY <1>4, <2>3, <4>1, <4>2, MergedRow DEF RowInv
      <4>3. CASE Compactable(s)
        <5>1. PICK x \in Span(s) : x.ops # NoOps
          <6>1. SUFFICES ASSUME \A x \in Span(s) : x.ops = NoOps
                         PROVE  FALSE
            OBVIOUS
          <6>2. \A r \in Routes : LastOp(Span(s), r) = "none"
            BY <6>1 DEF LastOp, Deletes, Revokes, NoOps
          <6>3. f.ops = [r \in Routes |-> LastOp(Span(s), r)]
            BY <1>1, <1>4, <4>1, <4>3 DEF Merged, EntryType
          <6>4. QED
            BY <2>3, <6>2, <6>3 DEF NoOps
        <5>2. x \in entries /\ x.kind = s.kind
          BY <1>4, <4>3, MergedRow
        <5>3. QED
          BY <4>1, <5>1, <5>2 DEF RowInv
      <4>4. QED
        BY <4>2, <4>3
    <3>3. QED
      BY <3>1, <3>2
  <2>4. QED
    BY <2>1, <2>2, <2>3 DEF RowInv
<1>6. Consumed' = Consumed
  BY <1>2 DEF Consumed, Ordinary
<1>7. ASSUME NEW r \in Routes
      PROVE  LastOp(Waiting', r) = LastOp(Waiting, r)
  <2>1. Waiting \in SUBSET EntryType /\ (\A e \in Waiting : e.id < nextId)
        /\ \A e, f \in Waiting : e.id = f.id => e = f
    BY <1>1 DEF RowInv, Waiting, Ordinary, Unconsumed
  <2>2. /\ \A o \in {"delete", "revoke"} : LastIs(Waiting, r, o) <=> LastOp(Waiting, r) = o
        /\ LastOp(Waiting, r) = "none" <=> \A e \in Waiting : e.ops[r] = "none"
        /\ LastOp(Waiting, r) \in Ops
    BY <1>1, <2>1, LastWord
  <2>3. CASE LastOp(Waiting, r) = "none"
    <3>1. \A f \in Waiting' : f.ops[r] = "none"
      BY <2>2, <2>3, CompactKeepsNothing
    <3>2. LastOp(Waiting', r) = "none"
      BY <3>1 DEF LastOp, Deletes, Revokes
    <3>3. QED
      BY <2>3, <3>2
  <2>4. CASE LastOp(Waiting, r) # "none"
    <3>1. LastOp(Waiting, r) \in {"delete", "revoke"}
      BY <2>2, <2>4 DEF Ops
    <3>2. LastIs(Waiting', r, LastOp(Waiting, r))
      BY <2>2, <3>1, CompactKeepsLast
    <3>3. /\ Waiting' \in SUBSET EntryType /\ \A e \in Waiting' : e.id < nextId
          /\ \A e, f \in Waiting' : e.id = f.id => e = f
      <4>1. Waiting' \subseteq Unconsumed'
        BY DEF Waiting, Ordinary
      <4>2. Unconsumed' \subseteq entries'
        BY <1>3
      <4>3. \A e \in Waiting' : e.id < nextId
        BY <1>1, <1>2, <1>4, <4>1
      <4>4. Waiting' \in SUBSET EntryType
        <5>1. \A e \in Unconsumed : Merged(e) \in EntryType
          BY <1>1, <1>4, MergedTyped
        <5>2. QED
          BY <1>2, <4>1, <5>1
      <4>5. QED
        BY <1>5, <4>1, <4>2, <4>3, <4>4 DEF RowInv
    <3>4. \A o \in {"delete", "revoke"} : LastIs(Waiting', r, o) <=> LastOp(Waiting', r) = o
      BY <1>1, <3>3, LastWord
    <3>5. QED
      BY <3>1, <3>2, <3>4
  <2>5. QED
    BY <2>3, <2>4
<1>8. /\ MarkAny(Waiting') <=> MarkAny(Waiting)
      /\ Unmarked(Waiting') <=> Unmarked(Waiting)
  BY CompactKeepsMarks DEF Unmarked
<1>9. QED
  BY <1>5, <1>6, <1>7, <1>8

\* Compaction changes no answer a later fold or scan gives (_compact_locked).
LEMMA CompactKeepsHeld ==
    ASSUME OutboxInv, RowInv, Compact
    PROVE  Withdrawn(Waiting') \cap state.claim.dels = Withdrawn(Waiting) \cap state.claim.dels
<1>1. ASSUME NEW r \in state.claim.dels, NEW e \in Waiting, e.ops[r] = "revoke"
      PROVE  e \in Waiting'
  <2>1. e \in Unconsumed /\ e.kind = "ordinary"
    BY <1>1 DEF Waiting, Ordinary
  <2>2. ~Compactable(e)
    BY <1>1 DEF Compactable
  <2>3. PICK t \in Unconsumed :
           /\ Survives(t) /\ t.kind = e.kind
           /\ IF Compactable(t) THEN e \in Span(t) ELSE t = e
    BY <2>1, Survivor
  <2>4. t = e
    BY <2>2, <2>3, MergedRow
  <2>5. Merged(e) = e /\ Merged(e) \in Unconsumed'
    BY <2>1, <2>2, <2>3, <2>4, MergedRow, CompactedRows
  <2>6. QED
    BY <2>1, <2>5 DEF Waiting, Ordinary
<1>2. ASSUME NEW r \in state.claim.dels, NEW f \in Waiting', f.ops[r] = "revoke"
      PROVE  f \in Waiting
  <2>1. f \in Unconsumed' /\ f.kind = "ordinary"
    BY <1>2 DEF Waiting, Ordinary
  <2>2. PICK h \in Unconsumed : f = Merged(h) /\ h.kind = "ordinary"
    BY <2>1, CompactedRows
  <2>3. r \in Routes
    BY <1>2 DEF OutboxInv, TypeOK, StateType, ClaimType
  <2>4. ~Compactable(h)
    <3>1. SUFFICES ASSUME Compactable(h) PROVE FALSE
      OBVIOUS
    <3>2. f.ops[r] = LastOp(Span(h), r) /\ \A x \in Span(h) : Compactable(x)
      BY <2>2, <2>3, <3>1, MergedRow
    <3>3. \A x \in Span(h) : x.ops[r] = "none"
      BY <1>2, <3>2 DEF Compactable
    <3>4. LastOp(Span(h), r) = "none"
      BY <3>3 DEF LastOp, Deletes, Revokes
    <3>5. QED
      BY <1>2, <3>2, <3>4
  <2>5. f = h
    BY <2>2, <2>4, MergedRow
  <2>6. QED
    BY <2>2, <2>5 DEF Waiting, Ordinary
<1>3. \A r \in state.claim.dels : (r \in Withdrawn(Waiting')) <=> r \in Withdrawn(Waiting)
  <2>1. \A r \in state.claim.dels : r \in Routes
    BY DEF OutboxInv, TypeOK, StateType, ClaimType
  <2>2. QED
    BY <1>1, <1>2, <2>1 DEF Withdrawn
<1>4. QED
  BY <1>3

LEMMA CompactStep ==
    ASSUME OutboxInv, RowInv, RowInv', OutboxInv', Compact
    PROVE  LET E == Ordinary(Unconsumed)
               F == Ordinary({e \in entries' : e.by = 0})
           IN /\ FoldQueued(E, state.claim.dels, state.queued)
                   = FoldQueued(F, state.claim.dels, state.queued)
              /\ FoldRevoked(E, state.claim.dels, {}) = FoldRevoked(F, state.claim.dels, {})
              /\ Withdrawn(E) \cap state.claim.dels = Withdrawn(F) \cap state.claim.dels
              /\ MarkAll(E) = MarkAll(F)
              /\ MarkAny(E) = MarkAny(F)
<1>1. /\ Ordinary(Unconsumed) = Waiting /\ Ordinary({e \in entries' : e.by = 0}) = Waiting'
      /\ Ordinary(Waiting) = Waiting /\ Ordinary(Waiting') = Waiting'
  BY DEF Waiting, Ordinary, Unconsumed
<1>2. ASSUME NEW r \in Routes
      PROVE  /\ Deletes(Waiting, r) <=> Deletes(Waiting', r)
             /\ Revokes(Waiting, r) <=> Revokes(Waiting', r)
             /\ LastOp(Waiting, r) = "none" <=> \A e \in Waiting : e.ops[r] = "none"
             /\ LastOp(Waiting, r) = "none" <=> \A e \in Waiting' : e.ops[r] = "none"
             /\ LastOp(Waiting, r) \in Ops
  <2>1. LastOp(Waiting', r) = LastOp(Waiting, r)
    BY MergedRows
  <2>2. PICK W : W = Waiting'
    OBVIOUS
  <2>3. W \in SUBSET EntryType /\ nextId' \in Nat /\ (\A e \in W : e.id < nextId')
        /\ \A e, f \in W : e.id = f.id => e = f
    <3>1. entries' \in SUBSET EntryType /\ nextId' \in Nat /\ \A e \in entries' : e.id < nextId'
      BY DEF OutboxInv, TypeOK, DeliveryInv, ClaimInv
    <3>2. W \subseteq entries'
      BY <2>2 DEF Waiting, Ordinary, Unconsumed
    <3>3. QED
      BY <3>1, <3>2 DEF RowInv
  <2>4. /\ Deletes(W, r) <=> LastOp(W, r) = "delete"
        /\ Revokes(W, r) <=> LastOp(W, r) = "revoke"
        /\ LastOp(W, r) = "none" <=> \A e \in W : e.ops[r] = "none"
    BY <2>3, LastWord
  <2>5. QED
    BY <2>1, <2>2, <2>4, Rows
<1>3. FoldQueued(Waiting, state.claim.dels, state.queued) = FoldQueued(Waiting', state.claim.dels, state.queued)
  <2>1. \A r \in state.queued : r \in Routes
    BY DEF OutboxInv, TypeOK, StateType
  <2>2. ASSUME NEW r \in Routes, ~Deletes(Waiting, r)
        PROVE  (\A e \in Waiting : e.ops[r] # "revoke") <=> (\A e \in Waiting' : e.ops[r] # "revoke")
    <3>1. CASE LastOp(Waiting, r) = "none"
      BY <1>2, <3>1
    <3>2. CASE LastOp(Waiting, r) # "none"
      <4>1. Revokes(Waiting, r) /\ Revokes(Waiting', r)
        BY <1>2, <2>2, <3>2, Rows DEF Ops
      <4>2. QED
        BY <4>1 DEF Revokes
    <3>3. QED
      BY <3>1, <3>2
  <2>3. \A r \in Routes : r \in FoldQueued(Waiting, state.claim.dels, state.queued)
                          <=> r \in FoldQueued(Waiting', state.claim.dels, state.queued)
    <3>. SUFFICES ASSUME NEW r \in Routes
                  PROVE  r \in FoldQueued(Waiting, state.claim.dels, state.queued)
                         <=> r \in FoldQueued(Waiting', state.claim.dels, state.queued)
      OBVIOUS
    <3>1. CASE ~Deletes(Waiting, r)
      BY <1>2, <2>2, <3>1 DEF FoldQueued
    <3>2. CASE Deletes(Waiting, r) /\ r \notin state.claim.dels
      BY <1>2, <3>2 DEF FoldQueued
    <3>3. CASE Deletes(Waiting, r) /\ r \in state.claim.dels
      <4>1. (\A e \in Waiting : e.ops[r] # "revoke") <=> (\A e \in Waiting' : e.ops[r] # "revoke")
        BY <3>3, CompactKeepsHeld DEF Withdrawn
      <4>2. QED
        BY <1>2, <3>3, <4>1 DEF FoldQueued
    <3>4. QED
      BY <3>1, <3>2, <3>3
  <2>4. /\ FoldQueued(Waiting, state.claim.dels, state.queued) \subseteq Routes
        /\ FoldQueued(Waiting', state.claim.dels, state.queued) \subseteq Routes
    BY <2>1 DEF FoldQueued
  <2>5. QED
    BY <2>3, <2>4
<1>4. FoldRevoked(Waiting, state.claim.dels, {}) = FoldRevoked(Waiting', state.claim.dels, {})
  <2>1. \A r \in state.claim.dels : r \in Routes
    BY DEF OutboxInv, TypeOK, StateType, ClaimType
  <2>2. QED
    BY <1>2, <2>1 DEF FoldRevoked
<1>5. MarkAny(Waiting) = MarkAny(Waiting')
  BY MergedRows DEF MarkAny
<1>6. MarkAll(Waiting) = MarkAll(Waiting')
  BY <1>1, CompactKeepsMarks DEF MarkAll
<1>7. QED
  BY <1>1, <1>3, <1>4, <1>5, <1>6, CompactKeepsHeld

-----------------------------------------------------------------------------
(* The inductive invariant                                                 *)

\* every operation that may still reach the store: what a worker or a request carries, and what
\* the key would replay
Lasting == Copies \cup {state.claim}

\* what the rows, waiting or consumed, say of r last
Latest(r) == IF LastOp(Waiting, r) # "none" THEN LastOp(Waiting, r) ELSE LastOp(Consumed, r)

\* authority over the deletion of r outside the claim, and in a claim
Owes(r) == r \in state.queued \/ LastOp(Waiting, r) = "delete"
Awaits(r) == IF PerObject THEN Owes(r) ELSE MarkAny(Waiting)
Takes(c, r) == IF PerObject THEN r \in c.dels ELSE c.any

\* this operation would put content into the store that the row names
Lands(c) == c.device = mgmt.device /\ c.seq > far.seq /\ c.mode # "backfill" /\ ~Bad(c.body)
\* the store does not hold r, and no operation up to the number n brings it there
Gone(r, n) == far.held[r] = 0 /\ \A c \in Lasting : Lands(c) /\ c.seq <= n => c.body[r] = 0

\* what rows and claim record of each route's history
RemovalInv == \A r \in Routes : removal[r] # "none" => intent[r] = 0
ConsumedInv ==
    /\ state.claim.any <=> MarkAny(Consumed)
    /\ \A r \in Routes : LastOp(Consumed, r) = "delete" => r \in state.claim.dels
LastWordInv == \A r \in Routes : removal[r] = "deleted" => Latest(r) # "revoke"
QueryInv ==
    /\ far.shut => PerObject
    /\ ~PerObject => state.queued = {} /\ \A c \in Lasting : c.dels = {}
HistoryInv == RowInv /\ RemovalInv /\ ConsumedInv /\ LastWordInv /\ QueryInv

\* The authority for a deletion waits, is in a claim without the route, or is used up.
AuthorityInv ==
    \A r \in Routes : removal[r] = "deleted" =>
        \/ Awaits(r)
        \/ Live /\ Takes(state.claim, r) /\ state.claim.body[r] = 0
        \/ Gone(r, lastSeq)

\* a claim of an older mapping can do nothing to the store
BlankInv ==
    Live /\ state.claim.device # mgmt.device => far.held = Nothing /\ far.lost = {} /\ far.seq = 0

\* what the live claim finds in the store although its deletion stood when it was formed is
\* authorised by it, or is what a backfill may remove, or is nothing
ReachInv ==
    Live /\ state.claim.device = mgmt.device =>
        \A r \in Routes : state.claim.why[r] = "deleted" =>
            \/ Takes(state.claim, r)
            \/ state.claim.mode = "backfill" /\ (removal[r] = "deleted" => Awaits(r))
            \/ far.seq >= state.claim.seq \/ Gone(r, state.claim.seq)

\* a detach under the live claim is one its settlement records
Shows(p) ==
    IF state.claim.mode = "backfill"
    THEN PerObject /\ p[1] \in far.out /\ (removal[p[1]] = "deleted" => Awaits(p[1]))
    ELSE far.out # {} \/ (~PerObject /\ state.claim.any /\ ~state.claim.mark)
LostInv ==
    /\ \A p \in far.lost : p[2] <= far.seq
    /\ Live => \A p \in far.lost : p[2] = state.claim.seq => far.seq = state.claim.seq /\ Shows(p)
\* and the sender of the live claim was told of it
OutInv ==
    \A w \in Workers :
        wk[w].pc = "answered" /\ wk[w].code = "ok" /\ Live /\ wk[w].claim.seq = state.claim.seq
            /\ state.claim.device = mgmt.device => wk[w].out = far.out

\* no store is rebuilt under a key, and without an object's name on a row no source moves
Tracked == "rebuild" \notin Events /\ (PerObject \/ MaxSource = 0)
CalmInv ==
    /\ mgmt.inc = 0
    /\ MaxSource = 0 => mgmt.source = 0 /\ (Live => state.claim.source = 0)
    /\ ~PerObject => ~far.astray

\* where no object is named, every detach is on record once its operation has ended
RecordInv ==
    ~PerObject /\ mgmt.link # "offboarded" =>
        \A p \in far.lost : p[2] \in state.degraded \/ (Live /\ p[2] = state.claim.seq)

TrackInv == CalmInv /\ AuthorityInv /\ BlankInv /\ ReachInv /\ LostInv /\ OutInv /\ RecordInv

\* a route that is owned or was released is not to be deleted
Stands(r) == intent[r] # 0 \/ removal[r] = "released"
Unfaulted == BadGens = {} /\ "accept_over_pending" \notin Events
StandsInv ==
    \A r \in Routes : Stands(r) =>
        /\ LastOp(Waiting, r) # "delete"
        /\ r \in state.queued \cup state.claim.dels => LastOp(Waiting, r) = "revoke"
DelsInv == \A c \in Lasting : \A r \in c.dels : c.body[r] = 0 /\ c.why[r] # "released"

\* a marked operation finds nothing of what was un-owned before it
MarkInv ==
    /\ \A c \in Lasting : c.mark => c.mode = "normal"
    /\ \A c \in Lasting : c.mark /\ c.device = mgmt.device /\ c.seq > far.seq =>
          \A r \in Routes : c.why[r] = "released" => Gone(r, c.seq)
    /\ mgmt.link = "linked" =>
          \A r \in Routes : removal[r] = "released" =>
              Unmarked(Waiting) \/ (Unmarked(Consumed) /\ state.claim.body[r] = 0) \/ Gone(r, lastSeq)

\* where no lease expires under its holder, the one worker at work has the live claim
AtWorkInv ==
    \A w \in Workers : wk[w].pc # "idle" =>
        /\ state.leased /\ Live /\ wk[w].claim = state.claim
        /\ \A v \in Workers : wk[v].pc # "idle" => v = w

-----------------------------------------------------------------------------
(* What each step does to authority, copies and the store                  *)

\* nothing new is carried, and nobody new is answered
NoNewCopies == \A c \in Copies' : c \in Copies \/ c = NoClaim \/ c = state.claim
NoNewAnswer == \A w \in Workers : wk'[w].pc = "answered" => wk'[w] = wk[w]
SameFar ==
    /\ far'.seq = far.seq /\ far'.held = far.held /\ far'.shut = far.shut /\ far'.out = far.out
    /\ far'.lost = far.lost /\ far'.taken = far.taken

\* what a transaction does to one route
RouteStays(r) ==
    /\ removal'[r] = removal[r] /\ (intent'[r] = 0 <=> intent[r] = 0)
    /\ LastOp(Waiting', r) = LastOp(Waiting, r)
RouteAccepted(r) ==
    /\ intent'[r] # 0 /\ removal'[r] = "none"
    /\ LastOp(Waiting', r) = LastOp(Waiting, r)
    /\ intent[r] = 0 /\ Pending(r) => "accept_over_pending" \in Events
RouteReowned(r) ==
    intent'[r] # 0 /\ removal'[r] = "none" /\ LastOp(Waiting', r) = "revoke"
RouteDeleted(r) ==
    /\ intent'[r] = 0 /\ removal'[r] = "deleted"
    /\ IF PerObject THEN LastOp(Waiting', r) = "delete" ELSE MarkAny(Waiting')
RouteReleased(r) ==
    /\ intent[r] # 0 /\ intent'[r] = 0 /\ removal'[r] = "released"
    /\ LastOp(Waiting', r) = LastOp(Waiting, r)
    /\ mgmt.link = "linked" => Unmarked(Waiting')

\* an operator, the audit or a compaction
Writing ==
    /\ UNCHANGED <<state, lastSeq, wk, net, far>>
    /\ mgmt'.link = mgmt.link /\ mgmt'.device = mgmt.device
    /\ mgmt'.inc = mgmt.inc /\ mgmt'.source = mgmt.source
    /\ Consumed' = Consumed
    /\ MarkAny(Waiting) => MarkAny(Waiting')
    /\ Unmarked(Waiting) => Unmarked(Waiting')
    /\ \A r \in Routes :
          RouteStays(r) \/ RouteAccepted(r) \/ RouteReowned(r) \/ RouteDeleted(r) \/ RouteReleased(r)

\* the fold finds nothing to delete
NothingOwed == \A r \in Routes : LastOp(Waiting, r) # "delete" /\ (r \in state.queued => LastOp(Waiting, r) = "revoke")
\* a claim takes every row and the queue, or only shows what is rendered
TakingAll(c) ==
    /\ c.mode = "normal" /\ state'.queued = {} /\ Waiting' = {}
    /\ \A r \in Routes : LastOp(Consumed', r) = LastOp(Waiting, r)
    /\ \A r \in c.dels : LastOp(Waiting, r) = "delete" \/ (LastOp(Waiting, r) = "none" /\ r \in state.queued)
    /\ \A r \in Routes : LastOp(Waiting, r) # "revoke" /\ Owes(r) => r \in c.dels
    /\ MarkAny(Consumed') <=> MarkAny(Waiting)
    /\ Unmarked(Consumed') <=> Unmarked(Waiting)
    /\ c.any <=> MarkAny(Waiting)
    /\ c.mark => ~Unmarked(Waiting)
TakingNone(c) ==
    /\ c.mode # "normal" /\ c.dels = {} /\ ~c.mark /\ ~c.any
    /\ state'.queued = state.queued /\ entries' = entries
    /\ c.mode = "store_only" => NothingOwed /\ (~PerObject => ~MarkAny(Waiting))
Claiming(c) ==
    /\ ~Live /\ UNCHANGED <<ownerVars, mgmt, far>> /\ lastSeq' = lastSeq + 1 /\ mgmt.link = "linked"
    /\ c.seq = lastSeq + 1 /\ c.body = intent /\ c.why = removal
    /\ c.device = mgmt.device /\ c.inc = mgmt.inc /\ c.source = mgmt.source
    /\ state'.claim = c /\ state'.degraded = state.degraded
    /\ \A d \in Copies' : d \in Copies \/ d = c
    /\ NoNewAnswer
    /\ TakingAll(c) \/ TakingNone(c)

\* a claim is handed on, sent, parked or dropped by its sender
Passing ==
    /\ UNCHANGED <<ownerVars, rowVars, lastSeq, mgmt, far>>
    /\ state'.claim = state.claim /\ state'.queued = state.queued /\ state'.degraded = state.degraded
    /\ NoNewCopies /\ NoNewAnswer

Acknowledging ==
    /\ UNCHANGED <<ownerVars, rowVars, lastSeq, mgmt, wk, net>>
    /\ state'.claim = state.claim /\ state'.queued = state.queued
    /\ far'.seq = far.seq /\ far'.held = far.held /\ far'.shut = far.shut /\ far'.out = far.out
    /\ far'.taken = far.taken /\ far'.astray = far.astray
    /\ \A p \in far'.lost : p \in far.lost /\ p[2] \notin state.degraded

\* the rows of the live claim wait again, or are gone with a body that may not be sent
RowsBack ==
    /\ Consumed' = {} /\ \A r \in Routes : LastOp(Waiting', r) = Latest(r)
    /\ MarkAny(Waiting') <=> MarkAny(Waiting) \/ MarkAny(Consumed)
    /\ Unmarked(Waiting') <=> Unmarked(Waiting) \/ Unmarked(Consumed)
RowsGone ==
    Consumed' = {} /\ Waiting' = Waiting /\ Bad(state.claim.body) /\ state.claim.dels = {} /\ ~state.claim.any
GivingUp ==
    /\ UNCHANGED <<ownerVars, lastSeq, mgmt, net>>
    /\ Live /\ state'.claim = NoClaim /\ state'.degraded = state.degraded
    /\ state'.queued = state.queued \cup state.claim.dels
    /\ SameFar /\ NoNewCopies /\ NoNewAnswer
    /\ far'.astray => far.astray \/ state.claim.dels # {} \/ state.claim.source # mgmt.source
    /\ ~far'.astray /\ OnMapping(state.claim) => far.seq # state.claim.seq
    /\ RowsBack \/ RowsGone
    /\ \A w \in Workers : wk[w].pc = "answered" /\ wk[w].code = "ok" => wk'[w].pc = "answered"

\* w settles the live claim
Settles(w) ==
    /\ UNCHANGED <<ownerVars, lastSeq, mgmt, net>>
    /\ Live /\ Answered(w, "ok") /\ wk[w].claim = state.claim
    /\ OnMapping(state.claim) => far.seq = state.claim.seq
    /\ state'.claim = NoClaim /\ state'.queued = state.queued
    /\ state'.degraded = state.degraded \cup (IF Degrades(state.claim, wk[w].out) THEN {state.claim.seq} ELSE {})
    /\ SameFar /\ NoNewCopies /\ NoNewAnswer /\ (far'.astray => far.astray)
    /\ Consumed' = {} /\ Waiting' = Waiting
    /\ \A v \in Workers \ {w} : wk'[v] = wk[v]

\* rows are retired without a request
Retires ==
    /\ UNCHANGED <<ownerVars, lastSeq, mgmt, wk, net, far>>
    /\ ~Live /\ state'.claim = state.claim /\ state'.degraded = state.degraded /\ mgmt.link = "linked"
    /\ Consumed' = {} /\ Waiting' = {} /\ NothingOwed
    /\ \/ /\ state'.queued = {}
          /\ OnMapping(state.lastOk) /\ state.lastOk.mode = "normal" /\ state.lastOk.body = intent
       \/ state'.queued = state.queued /\ Bad(intent) /\ ~MarkAny(Waiting)

\* the adapter answers without touching its store, or applies a copy
Replying ==
    /\ UNCHANGED <<ownerVars, rowVars, state, lastSeq, mgmt, far>>
    /\ \A c \in Copies' : c \in Copies
    /\ \A w \in Workers : \/ wk'[w] = wk[w]
                          \/ wk'[w].code = "ok" => wk'[w].claim.device # mgmt.device \/ wk'[w].out = far.out
Serving(c, code, out) ==
    /\ UNCHANGED <<ownerVars, rowVars, state, lastSeq, mgmt>>
    /\ \A d \in Copies' : d \in Copies
    /\ c \in Copies /\ c.device = mgmt.device /\ c.seq > far.seq /\ ~Bad(c.body) /\ ~Fenced(c)
    /\ out \in OutOf(c) /\ far' = Accepted(c, code, out)
    /\ \A w \in Workers : wk'[w] = wk[w] \/ wk'[w].out = out

\* the management row changes, but not the device it names
Observing ==
    /\ UNCHANGED <<ownerVars, rowVars, state, lastSeq, wk, net, far>>
    /\ mgmt'.device = mgmt.device /\ mgmt'.inc = mgmt.inc
    /\ mgmt'.source = mgmt.source \/ MaxSource # 0
    /\ mgmt'.link = "linked" => mgmt.link = "linked"
    /\ mgmt'.link = "offboarded" <=> mgmt.link = "offboarded"

\* the mapping moves on to a blank store
Moving ==
    /\ UNCHANGED <<ownerVars, rowVars, state, lastSeq, wk>>
    /\ far' = BlankStore /\ mgmt'.source = mgmt.source
    /\ \A c \in Copies' : c \in Copies
    /\ \/ mgmt'.device = mgmt.device + 1 /\ mgmt'.inc = mgmt.inc
       \/ "rebuild" \in Events /\ mgmt'.device = mgmt.device

Leaving ==
    /\ UNCHANGED <<lastSeq, wk, net>> /\ "offboard" \in Events
    /\ far' = BlankStore
    /\ mgmt'.link = "offboarded" /\ mgmt'.device = mgmt.device
    /\ mgmt'.inc = mgmt.inc /\ mgmt'.source = mgmt.source
    /\ \A r \in Routes : intent'[r] = 0 /\ removal'[r] = "none"
    /\ state'.claim = NoClaim /\ state'.queued = state.queued \cup state.claim.dels
    /\ Consumed' = {}

Effects ==
    \/ Writing \/ Passing \/ Acknowledging \/ GivingUp \/ Retires \/ Replying \/ Observing \/ Moving
    \/ Leaving
    \/ \E w \in Workers : Settles(w)
    \/ \E c \in ClaimType : Claiming(c)
    \/ \E c \in ClaimType : \E code, out : Serving(c, code, out)

-----------------------------------------------------------------------------
(* Every step is one of these                                              *)

\* the rows that wait, the rows that are consumed and what they record, in one place
LEMMA RowsAtRest ==
    ASSUME RowInv, entries' = entries
    PROVE  /\ RowInv' /\ Waiting' = Waiting /\ Consumed' = Consumed
           /\ MarkAny(Waiting') <=> MarkAny(Waiting)
           /\ Unmarked(Waiting') <=> Unmarked(Waiting)
BY DEF RowInv, Waiting, Consumed, Unconsumed, Ordinary, MarkAny, Unmarked

\* where no object is named, no row has a last word
LEMMA NoObjectNamed ==
    ASSUME OutboxInv, RowInv, ~PerObject, NEW r \in Routes
    PROVE  LastOp(Waiting, r) = "none" /\ LastOp(Consumed, r) = "none"
<1>1. \A e \in entries : e.ops[r] = "none"
  BY DEF RowInv, NoOps
<1>2. \A e \in Waiting \cup Consumed : e.ops[r] = "none"
  BY <1>1 DEF Waiting, Consumed, Ordinary, Unconsumed
<1>3. QED
  BY <1>2 DEF LastOp, Deletes, Revokes

LEMMA NothingConsumed ==
    ASSUME OutboxInv, ~Live \/ state.claim.mode # "normal", NEW r
    PROVE  Consumed = {} /\ ~MarkAny(Consumed) /\ ~Unmarked(Consumed) /\ LastOp(Consumed, r) = "none"
<1>1. \A e \in entries : e.by = 0
  BY DEF OutboxInv, ConsumedRowsNameTheLiveClaim, DeliveryInv, ClaimInv, Live
<1>2. Consumed = {}
  BY <1>1 DEF Consumed, Ordinary
<1>3. QED
  BY <1>2 DEF MarkAny, Unmarked, Ordinary, LastOp, Deletes, Revokes

\* A transaction on route r, told by what it appends.
LEMMA OneRouteWritten ==
    ASSUME OutboxInv, RowInv, RemovalInv, NEW r \in Routes, NEW ops \in [Routes -> Ops], NEW mark \in BOOLEAN,
           NEW g \in Gens, NEW why \in Reasons, Write(r, g, why),
           \/ Append("ordinary", ops, mark)
           \/ UNCHANGED rowVars /\ mgmt.link # "linked",
           \A q \in Routes : q # r => ops[q] = "none",
           ops # NoOps => PerObject
    PROVE  /\ RowInv' /\ UNCHANGED <<state, lastSeq, wk, net, far, mgmt>> /\ Consumed' = Consumed
           /\ MarkAny(Waiting) => MarkAny(Waiting')
           /\ Unmarked(Waiting) => Unmarked(Waiting')
           /\ \A q \in Routes : q # r => RouteStays(q)
           /\ intent'[r] = g /\ removal'[r] = why
           /\ Append("ordinary", ops, mark) =>
                /\ LastOp(Waiting', r) = IF ops[r] # "none" THEN ops[r] ELSE LastOp(Waiting, r)
                /\ mark => MarkAny(Waiting')
                /\ ~mark => Unmarked(Waiting')
           /\ UNCHANGED rowVars => LastOp(Waiting', r) = LastOp(Waiting, r)
<1>1. intent \in Content /\ removal \in [Routes -> Reasons]
  BY DEF OutboxInv, TypeOK
<1>2. /\ intent' = [intent EXCEPT ![r] = g] /\ removal' = [removal EXCEPT ![r] = why]
      /\ UNCHANGED <<state, lastSeq, wk, net, far, mgmt>>
  BY DEF Write
<1>3. intent'[r] = g /\ removal'[r] = why /\ \A q \in Routes : q # r => intent'[q] = intent[q] /\ removal'[q] = removal[q]
  BY <1>1, <1>2 DEF Content
<1>4. CASE Append("ordinary", ops, mark)
  <2>1. /\ RowInv' /\ Consumed' = Consumed
        /\ \A q \in Routes : LastOp(Waiting', q) = IF ops[q] # "none" THEN ops[q] ELSE LastOp(Waiting, q)
        /\ MarkAny(Waiting') <=> MarkAny(Waiting) \/ mark
        /\ Unmarked(Waiting') <=> Unmarked(Waiting) \/ ~mark
    BY <1>4, AppendedRows
  <2>2. \A q \in Routes : q # r => RouteStays(q)
    BY <1>3, <2>1 DEF RouteStays
  <2>3. UNCHANGED rowVars => LastOp(Waiting', r) = LastOp(Waiting, r)
    BY RowsAtRest DEF rowVars
  <2>4. QED
    BY <1>2, <1>3, <1>4, <2>1, <2>2, <2>3
<1>5. CASE UNCHANGED rowVars /\ mgmt.link # "linked"
  <2>1. RowInv' /\ Waiting' = Waiting /\ Consumed' = Consumed
    BY <1>5, RowsAtRest DEF rowVars
  <2>2. \A q \in Routes : q # r => RouteStays(q)
    BY <1>3, <2>1 DEF RouteStays
  <2>3. MarkAny(Waiting) => MarkAny(Waiting')
    BY <2>1 DEF MarkAny
  <2>4. Unmarked(Waiting) => Unmarked(Waiting')
    BY <2>1 DEF Unmarked
  <2>5. LastOp(Waiting', r) = LastOp(Waiting, r)
    BY <2>1 DEF LastOp
  <2>6. ASSUME Append("ordinary", ops, mark)
        PROVE  FALSE
    BY <1>5, <2>6 DEF Append, rowVars, OutboxInv, TypeOK
  <2>7. QED
    BY <1>2, <1>3, <1>5, <2>1, <2>2, <2>3, <2>4, <2>5, <2>6
<1>6. QED
  BY <1>4, <1>5

\* An overlay handler contributes a row, or nothing while no device is linked.
LEMMA Contributes ==
    ASSUME NEW ops, NEW mark, Contribute(ops, mark)
    PROVE  Append("ordinary", ops, mark) \/ (UNCHANGED rowVars /\ mgmt.link # "linked")
BY DEF Contribute

LEMMA Contents ==
    ASSUME TypeOK, NEW r \in Routes
    PROVE  /\ NewContent(r) \in SUBSET (Gens \ {0}) /\ 0 \in Gens
           /\ NoOps \in [Routes -> Ops] /\ \A q \in Routes : NoOps[q] = "none"
           /\ \A o \in Ops : /\ [NoOps EXCEPT ![r] = o] \in [Routes -> Ops]
                             /\ [NoOps EXCEPT ![r] = o][r] = o
                             /\ \A q \in Routes : q # r => [NoOps EXCEPT ![r] = o][q] = "none"
<1>1. lastGen \in Nat /\ MaxGen \in Nat
  BY BoundsAssumption DEF TypeOK, Gens
<1>2. ({lastGen + 1} \cap Gens) \in SUBSET (Gens \ {0}) /\ ((1 .. MaxGen) \ {intent[r]}) \in SUBSET (Gens \ {0})
      /\ 0 \in Gens
  BY <1>1 DEF Gens
<1>3. NewContent(r) \in SUBSET (Gens \ {0})
  BY <1>2 DEF NewContent
<1>4. NoOps \in [Routes -> Ops] /\ \A q \in Routes : NoOps[q] = "none"
  BY DEF NoOps, Ops
<1>5. QED
  BY <1>2, <1>3, <1>4

LEMMA WritingKind ==
    ASSUME OutboxInv, RowInv, RemovalInv, Operator \/ Audit \/ Compact
    PROVE  Writing /\ RowInv'
<1>1. /\ TypeOK /\ mgmt \in MgmtType /\ intent \in Content /\ removal \in [Routes -> Reasons]
      /\ lastGen \in Gens
  BY DEF OutboxInv, TypeOK
<1>2. \A r \in Routes : intent[r] \in Nat
  BY <1>1, BoundsAssumption DEF Content, Gens
<1>3. ASSUME NEW r \in Routes, AcceptOrEdit(r)
      PROVE  Writing /\ RowInv'
  <2>. DEFINE ops == NoOps
  <2>0. PICK mark \in BOOLEAN : ~mark
    OBVIOUS
  <2>1. PICK g \in NewContent(r) : Write(r, g, "none")
    BY <1>3 DEF AcceptOrEdit
  <2>2. g \in Gens /\ g # 0 /\ "none" \in Reasons
    BY <1>1, <2>1, Contents DEF Reasons
  <2>3. /\ ops \in [Routes -> Ops] /\ (\A q \in Routes : q # r => ops[q] = "none")
        /\ ops[r] = "none"
        /\ ops # NoOps => PerObject
    BY <1>1, Contents
  <2>4. Append("ordinary", ops, mark) \/ (UNCHANGED rowVars /\ mgmt.link # "linked")
    BY <1>3, <2>0, Contributes DEF AcceptOrEdit
  <2>. HIDE DEF ops
  <2>5. /\ RowInv' /\ UNCHANGED <<state, lastSeq, wk, net, far, mgmt>> /\ Consumed' = Consumed
        /\ MarkAny(Waiting) => MarkAny(Waiting')
        /\ Unmarked(Waiting) => Unmarked(Waiting')
        /\ \A q \in Routes : q # r => RouteStays(q)
        /\ intent'[r] = g /\ removal'[r] = "none"
        /\ Append("ordinary", ops, mark) => LastOp(Waiting', r) = LastOp(Waiting, r)
        /\ UNCHANGED rowVars => LastOp(Waiting', r) = LastOp(Waiting, r)
    BY <2>1, <2>2, <2>3, <2>4, <2>0, OneRouteWritten
  <2>6. RouteAccepted(r)
    BY <1>3, <2>2, <2>4, <2>5 DEF AcceptOrEdit, RouteAccepted
  <2>7. QED
    BY <2>5, <2>6 DEF Writing
<1>4. ASSUME NEW r \in Routes, Reown(r)
      PROVE  Writing /\ RowInv'
  <2>. DEFINE ops == [NoOps EXCEPT ![r] = "revoke"]
  <2>1. PICK g \in NewContent(r) : Write(r, g, "none")
    BY <1>4 DEF Reown
  <2>2. g \in Gens /\ g # 0 /\ "none" \in Reasons
    BY <1>1, <2>1, Contents DEF Reasons
  <2>3. ops \in [Routes -> Ops] /\ (\A q \in Routes : q # r => ops[q] = "none") /\ ops[r] = "revoke"
    BY <1>1, Contents DEF Ops
  <2>4. Append("ordinary", ops, FALSE) /\ PerObject
    BY <1>4 DEF Reown
  <2>. HIDE DEF ops
  <2>5. /\ RowInv' /\ UNCHANGED <<state, lastSeq, wk, net, far, mgmt>> /\ Consumed' = Consumed
        /\ MarkAny(Waiting) => MarkAny(Waiting')
        /\ Unmarked(Waiting) => Unmarked(Waiting')
        /\ \A q \in Routes : q # r => RouteStays(q)
        /\ intent'[r] = g /\ removal'[r] = "none"
        /\ LastOp(Waiting', r) = "revoke"
    BY <2>1, <2>2, <2>3, <2>4, OneRouteWritten
  <2>6. RouteReowned(r)
    BY <2>2, <2>5 DEF RouteReowned
  <2>7. QED
    BY <2>5, <2>6 DEF Writing
<1>5. ASSUME NEW r \in Routes, Delete(r)
      PROVE  Writing /\ RowInv'
  <2>. DEFINE ops == IF PerObject THEN [NoOps EXCEPT ![r] = "delete"] ELSE NoOps
              why == IF mgmt.link = "linked" THEN "deleted" ELSE "released"
  <2>1. Write(r, 0, why) /\ why \in Reasons /\ intent[r] # 0
    BY <1>5 DEF Delete, Reasons
  <2>2. PICK mark \in BOOLEAN : Contribute(ops, mark) /\ (~PerObject => mark)
    BY <1>5, ModesAssumption DEF Delete
  <2>3. /\ ops \in [Routes -> Ops] /\ (\A q \in Routes : q # r => ops[q] = "none")
        /\ PerObject => ops[r] = "delete"
        /\ ~PerObject => ops = NoOps /\ ops[r] = "none"
    BY <1>1, Contents DEF Ops
  <2>4. Append("ordinary", ops, mark) \/ (UNCHANGED rowVars /\ mgmt.link # "linked")
    BY <2>2, Contributes
  <2>5. 0 \in Gens
    BY <1>1, Contents
  <2>6. mgmt.link = "linked" => why = "deleted" /\ Append("ordinary", ops, mark)
    BY <2>4
  <2>7. mgmt.link # "linked" => why = "released" /\ UNCHANGED rowVars
    BY <2>2 DEF Contribute
  <2>. HIDE DEF ops, why
  <2>8. /\ RowInv' /\ UNCHANGED <<state, lastSeq, wk, net, far, mgmt>> /\ Consumed' = Consumed
        /\ MarkAny(Waiting) => MarkAny(Waiting')
        /\ Unmarked(Waiting) => Unmarked(Waiting')
        /\ \A q \in Routes : q # r => RouteStays(q)
        /\ intent'[r] = 0 /\ removal'[r] = why
        /\ Append("ordinary", ops, mark) =>
             /\ LastOp(Waiting', r) = IF ops[r] # "none" THEN ops[r] ELSE LastOp(Waiting, r)
             /\ mark => MarkAny(Waiting')
        /\ UNCHANGED rowVars => LastOp(Waiting', r) = LastOp(Waiting, r)
    BY <2>1, <2>3, <2>4, <2>5, OneRouteWritten
  <2>9. CASE mgmt.link = "linked"
    <3>1. RouteDeleted(r)
      BY <2>2, <2>3, <2>6, <2>8, <2>9 DEF RouteDeleted
    <3>2. QED
      BY <2>8, <3>1 DEF Writing
  <2>10. CASE mgmt.link # "linked"
    <3>1. RouteReleased(r)
      BY <2>1, <2>7, <2>8, <2>10 DEF RouteReleased
    <3>2. QED
      BY <2>8, <3>1 DEF Writing
  <2>11. QED
    BY <2>9, <2>10
<1>6. ASSUME NEW r \in Routes, Release(r)
      PROVE  Writing /\ RowInv'
  <2>. DEFINE ops == NoOps
  <2>0. PICK mark \in BOOLEAN : ~mark
    OBVIOUS
  <2>1. Write(r, 0, "released") /\ "released" \in Reasons /\ 0 \in Gens /\ intent[r] # 0
    BY <1>1, <1>6, Contents DEF Release, Reasons
  <2>2. Append("ordinary", ops, mark) \/ (UNCHANGED rowVars /\ mgmt.link # "linked")
    BY <1>6, <2>0, Contributes DEF Release
  <2>3. /\ ops \in [Routes -> Ops] /\ (\A q \in Routes : q # r => ops[q] = "none")
        /\ ops[r] = "none"
        /\ ops # NoOps => PerObject
    BY <1>1, Contents
  <2>. HIDE DEF ops
  <2>4. /\ RowInv' /\ UNCHANGED <<state, lastSeq, wk, net, far, mgmt>> /\ Consumed' = Consumed
        /\ MarkAny(Waiting) => MarkAny(Waiting')
        /\ Unmarked(Waiting) => Unmarked(Waiting')
        /\ \A q \in Routes : q # r => RouteStays(q)
        /\ intent'[r] = 0 /\ removal'[r] = "released"
        /\ Append("ordinary", ops, mark) =>
             LastOp(Waiting', r) = LastOp(Waiting, r) /\ Unmarked(Waiting')
        /\ UNCHANGED rowVars => LastOp(Waiting', r) = LastOp(Waiting, r)
    BY <2>1, <2>2, <2>3, <2>0, OneRouteWritten
  <2>5. RouteReleased(r)
    BY <2>1, <2>2, <2>4 DEF RouteReleased
  <2>6. QED
    BY <2>4, <2>5 DEF Writing
<1>7. ASSUME entries' = entries, UNCHANGED <<removal, state, lastSeq, wk, net, far>>,
             mgmt'.link = mgmt.link, mgmt'.device = mgmt.device, mgmt'.inc = mgmt.inc, mgmt'.source = mgmt.source,
             \A r \in Routes : intent'[r] = 0 <=> intent[r] = 0
      PROVE  Writing /\ RowInv'
  <2>1. RowInv' /\ Waiting' = Waiting /\ Consumed' = Consumed
    BY <1>7, RowsAtRest
  <2>2. /\ MarkAny(Waiting) => MarkAny(Waiting')
        /\ \A r \in Routes : LastOp(Waiting', r) = LastOp(Waiting, r)
        /\ Unmarked(Waiting) => Unmarked(Waiting')
    BY <2>1 DEF MarkAny, LastOp, Unmarked
  <2>3. \A r \in Routes : RouteStays(r)
    BY <1>7, <2>2 DEF RouteStays
  <2>4. QED
    BY <1>7, <2>1, <2>2, <2>3 DEF Writing
<1>8. ASSUME NEW r \in Routes, Bypass(r)
      PROVE  Writing /\ RowInv'
  <2>1. PICK g \in NewContent(r) : intent' = [intent EXCEPT ![r] = g]
    BY <1>8 DEF Bypass
  <2>2. g # 0 /\ intent[r] # 0
    BY <1>1, <1>8, <2>1, Contents DEF Bypass
  <2>3. \A q \in Routes : intent'[q] = 0 <=> intent[q] = 0
    BY <1>1, <2>1, <2>2 DEF Content
  <2>4. /\ mgmt'.link = mgmt.link /\ mgmt'.device = mgmt.device
        /\ mgmt'.inc = mgmt.inc /\ mgmt'.source = mgmt.source
    BY <1>1, <1>8 DEF Bypass, MgmtType
  <2>5. entries' = entries /\ UNCHANGED <<removal, state, lastSeq, wk, net, far>>
    BY <1>8 DEF Bypass, rowVars
  <2>6. QED
    BY <1>7, <2>3, <2>4, <2>5
<1>9. CASE Audit
  <2>1. /\ mgmt'.link = mgmt.link /\ mgmt'.device = mgmt.device
        /\ mgmt'.inc = mgmt.inc /\ mgmt'.source = mgmt.source
    BY <1>1, <1>9 DEF Audit, MgmtType
  <2>2. UNCHANGED <<removal, state, lastSeq, wk, net, far>> /\ Append("repair", NoOps, FALSE)
    BY <1>9 DEF Audit
  <2>3. lastGen + 1 # 0
    BY <1>1, BoundsAssumption DEF Gens
  <2>4. \A r \in Routes : intent'[r] = 0 <=> intent[r] = 0
    BY <1>1, <1>9, <2>3 DEF Audit
  <2>5. RowInv' /\ Consumed' = Consumed /\ Waiting' = Waiting
    BY <2>2, RepairRows
  <2>6. /\ MarkAny(Waiting) => MarkAny(Waiting')
        /\ \A r \in Routes : LastOp(Waiting', r) = LastOp(Waiting, r)
        /\ Unmarked(Waiting) => Unmarked(Waiting')
    BY <2>5 DEF MarkAny, LastOp, Unmarked
  <2>7. \A r \in Routes : RouteStays(r)
    BY <2>2, <2>4, <2>6 DEF RouteStays
  <2>8. QED
    BY <2>1, <2>2, <2>5, <2>6, <2>7 DEF Writing
<1>10. CASE Compact
  <2>1. UNCHANGED <<ownerVars, state, lastSeq, mgmt, wk, net, far>>
    BY <1>10 DEF Compact
  <2>2. /\ RowInv' /\ Consumed' = Consumed
        /\ \A r \in Routes : LastOp(Waiting', r) = LastOp(Waiting, r)
        /\ MarkAny(Waiting') <=> MarkAny(Waiting)
        /\ Unmarked(Waiting') <=> Unmarked(Waiting)
    BY <1>10, MergedRows
  <2>3. \A r \in Routes : RouteStays(r)
    BY <2>1, <2>2 DEF RouteStays, ownerVars
  <2>4. QED
    BY <2>1, <2>2, <2>3 DEF Writing
<1>11. QED
  BY <1>3, <1>4, <1>5, <1>6, <1>8, <1>9, <1>10 DEF Operator
\* What a fold of the waiting rows finds, without a live claim.
LEMMA FoldFinds ==
    ASSUME OutboxInv, RowInv, ~Live
    PROVE  /\ Folded.seq = lastSeq + 1 /\ Folded.body = intent /\ Folded.why = removal
           /\ Folded.device = mgmt.device /\ Folded.inc = mgmt.inc /\ Folded.source = mgmt.source
           /\ Folded.mode = "normal" /\ Folded.any = MarkAny(Waiting) /\ Folded.mark = MarkAll(Waiting)
           /\ \A r \in Folded.dels : LastOp(Waiting, r) = "delete" \/ (LastOp(Waiting, r) = "none" /\ r \in state.queued)
           /\ \A r \in Routes : LastOp(Waiting, r) # "revoke" /\ Owes(r) => r \in Folded.dels
<1>1. state.claim.dels = {} /\ state.queued \in SUBSET Routes
  BY DEF OutboxInv, TypeOK, StateType, DeliveryInv, ClaimInv, NoClaim
<1>2. Folded.dels = FoldQueued(Waiting, {}, state.queued)
  BY <1>1 DEF Folded, NewClaim, Waiting
<1>3. Folded.any = MarkAny(Unconsumed) /\ Folded.mark = MarkAll(Unconsumed)
  BY DEF Folded, NewClaim
<1>4. Ordinary(Waiting) = Waiting
  BY DEF Waiting, Ordinary
<1>5. MarkAny(Unconsumed) = MarkAny(Waiting) /\ MarkAll(Unconsumed) = MarkAll(Waiting)
  BY <1>4 DEF MarkAny, MarkAll, Waiting
<1>6. ASSUME NEW r \in Routes
      PROVE  r \in Folded.dels <=>
                LastOp(Waiting, r) = "delete" \/ (LastOp(Waiting, r) = "none" /\ r \in state.queued)
  <2>1. r \in Folded.dels <=>
            Deletes(Waiting, r) \/ (r \in state.queued /\ \A e \in Waiting : e.ops[r] # "revoke")
    BY <1>2 DEF FoldQueued
  <2>2. /\ LastOp(Waiting, r) \in Ops
        /\ Deletes(Waiting, r) <=> LastOp(Waiting, r) = "delete"
        /\ LastOp(Waiting, r) = "none" <=> \A e \in Waiting : e.ops[r] = "none"
        /\ LastOp(Waiting, r) = "revoke" => r \in Withdrawn(Waiting)
    BY Rows
  <2>3. (\A e \in Waiting : e.ops[r] # "revoke") => LastOp(Waiting, r) # "revoke"
    BY <2>2 DEF Withdrawn
  <2>4. QED
    BY <2>1, <2>2, <2>3 DEF Ops
<1>7. Folded.dels \subseteq Routes
  BY <1>1, <1>2 DEF FoldQueued
<1>8. ASSUME NEW r \in Routes, LastOp(Waiting, r) # "revoke", Owes(r)
      PROVE  r \in Folded.dels
  <2>1. LastOp(Waiting, r) \in Ops
    BY Rows
  <2>2. QED
    BY <1>6, <1>8, <2>1 DEF Owes, Ops
<1>9. QED
  BY <1>3, <1>5, <1>6, <1>7, <1>8 DEF Folded, NewClaim

LEMMA FoldFindsNothing ==
    ASSUME OutboxInv, RowInv, ~Live, Folded.dels = {}
    PROVE  NothingOwed
<1>1. \A r \in Routes : LastOp(Waiting, r) # "revoke" => ~Owes(r)
  BY FoldFinds
<1>2. QED
  BY <1>1 DEF NothingOwed, Owes

LEMMA ClaimingKind ==
    ASSUME OutboxInv, RowInv, mgmt.link = "linked", NEW w \in Workers,
           \/ \E force : Form(w, force)
           \/ FormStoreOnly(w) \/ FormBackfill(w)
    PROVE  RowInv' /\ \E c \in ClaimType : Claiming(c)
<1>1. TypeOK /\ state \in StateType /\ wk \in [Workers -> WorkerType] /\ lastSeq \in Nat
  BY DEF OutboxInv, TypeOK
<1>2. ~Live
  BY DEF Form, FormStoreOnly, FormBackfill, TakeSnapshot, Live
<1>3. ASSUME NEW c, Holds(w, c), UNCHANGED net
      PROVE  (\A d \in Copies' : d \in Copies \/ d = c) /\ NoNewAnswer
  <2>1. \A v \in Workers : wk'[v] = IF v = w THEN [Idle EXCEPT !.pc = "claimed", !.claim = c] ELSE wk[v]
    BY <1>1, <1>3 DEF Holds
  <2>2. [Idle EXCEPT !.pc = "claimed", !.claim = c].claim = c
        /\ [Idle EXCEPT !.pc = "claimed", !.claim = c].pc = "claimed"
    BY DEF Idle
  <2>3. QED
    BY <1>3, <2>1, <2>2 DEF Copies, NoNewAnswer
<1>4. ASSUME NEW force, Form(w, force)
      PROVE  RowInv' /\ Claiming(Folded) /\ Folded \in ClaimType
  <2>1. UNCHANGED <<ownerVars, mgmt, far, net>> /\ lastSeq' = lastSeq + 1 /\ Holds(w, Folded)
    BY <1>4 DEF Form
  <2>2. lastSeq + 1 \in Nat \ {0}
    BY <1>1
  <2>3. /\ RowInv' /\ Waiting' = {}
        /\ \A r \in Routes : LastOp(Consumed', r) = LastOp(Waiting, r)
        /\ MarkAny(Consumed') <=> MarkAny(Waiting)
        /\ Unmarked(Consumed') <=> Unmarked(Waiting)
    BY <1>2, <1>4, <2>2, TakenRows DEF Form
  <2>4. state'.claim = Folded /\ state'.queued = {} /\ state'.degraded = state.degraded
    BY <1>1, <1>4 DEF Form, StateType
  <2>5. (\A d \in Copies' : d \in Copies \/ d = Folded) /\ NoNewAnswer
    BY <1>3, <2>1
  <2>6. MarkAll(Waiting) => ~Unmarked(Waiting)
    BY DEF MarkAll, Unmarked, Waiting, Ordinary
  <2>7. Folded \in ClaimType
    BY <1>1, FoldedTyped
  <2>8. TakingAll(Folded)
    BY <1>2, <2>3, <2>4, <2>6, FoldFinds DEF TakingAll
  <2>9. QED
    BY <1>2, <2>1, <2>3, <2>4, <2>5, <2>7, <2>8, FoldFinds DEF Claiming
<1>5. ASSUME NEW mode \in {"store_only", "backfill"}, TakeSnapshot(w, mode),
             mode = "store_only" => NothingOwed /\ (~PerObject => ~MarkAny(Waiting))
      PROVE  RowInv' /\ \E c \in ClaimType : Claiming(c)
  <2>. DEFINE c == NewClaim(mode, {}, FALSE, FALSE)
  <2>1. UNCHANGED <<ownerVars, mgmt, far, net>> /\ lastSeq' = lastSeq + 1 /\ Holds(w, c) /\ entries' = entries
    BY <1>5 DEF TakeSnapshot, rowVars
  <2>2. state'.claim = c /\ state'.queued = state.queued /\ state'.degraded = state.degraded
    BY <1>1, <1>5 DEF TakeSnapshot, StateType
  <2>3. /\ c.seq = lastSeq + 1 /\ c.body = intent /\ c.why = removal /\ c.mode = mode
        /\ c.device = mgmt.device /\ c.inc = mgmt.inc /\ c.source = mgmt.source
        /\ c.dels = {} /\ ~c.mark /\ ~c.any
    BY DEF NewClaim
  <2>4. c \in ClaimType
    BY <1>1, NewClaimTyped DEF RequestModes
  <2>. HIDE DEF c
  <2>5. (\A d \in Copies' : d \in Copies \/ d = c) /\ NoNewAnswer
    BY <1>3, <2>1
  <2>6. RowInv'
    BY <2>1, RowsAtRest
  <2>7. TakingNone(c)
    BY <1>5, <2>1, <2>2, <2>3 DEF TakingNone
  <2>8. Claiming(c)
    BY <1>2, <2>1, <2>2, <2>3, <2>5, <2>7 DEF Claiming
  <2>9. QED
    BY <2>4, <2>6, <2>8
<1>6. CASE FormStoreOnly(w)
  <2>1. NothingOwed
    BY <1>2, <1>6, FoldFindsNothing DEF FormStoreOnly
  <2>2. ~PerObject => \A e \in entries : e.ops = NoOps
    BY DEF RowInv
  <2>3. ~PerObject => ~Folded.any
    BY <1>6, <2>2 DEF FormStoreOnly, Ordinary, Unconsumed
  <2>4. ~PerObject => ~MarkAny(Waiting)
    BY <1>2, <2>3, FoldFinds
  <2>5. QED
    BY <1>5, <1>6, <2>1, <2>4 DEF FormStoreOnly
<1>7. CASE FormBackfill(w)
  BY <1>5, <1>7 DEF FormBackfill
<1>8. QED
  BY <1>4, <1>6, <1>7

LEMMA PassingKind ==
    ASSUME OutboxInv, RowInv,
           \/ \E w \in Workers : Takeover(w) \/ Park(w) \/ Transmit(w) \/ RecordFailure(w)
                                \/ Superseded(w) \/ Crash(w)
           \/ LeaseExpires
    PROVE  RowInv' /\ Passing
<1>1. TypeOK /\ state \in StateType /\ wk \in [Workers -> WorkerType]
  BY DEF OutboxInv, TypeOK
<1>2. UNCHANGED <<ownerVars, rowVars, lastSeq, mgmt, far>>
  BY DEF Takeover, Park, Transmit, RecordFailure, Superseded, Crash, LeaseExpires
<1>3. state'.claim = state.claim /\ state'.queued = state.queued /\ state'.degraded = state.degraded
  BY <1>1 DEF Takeover, Park, Transmit, RecordFailure, Superseded, Crash, LeaseExpires, StateType
<1>4. RowInv'
  BY <1>2, RowsAtRest DEF rowVars
<1>5. \A v \in Workers : wk[v].claim \in Copies
  BY DEF Copies
<1>6. ASSUME NEW w \in Workers, NEW x, wk' = [wk EXCEPT ![w] = x], net' = net,
             x.claim \in Copies \cup {NoClaim, state.claim}, x.pc # "answered"
      PROVE  NoNewCopies /\ NoNewAnswer
  <2>1. \A v \in Workers : wk'[v] = IF v = w THEN x ELSE wk[v]
    BY <1>1, <1>6
  <2>2. QED
    BY <1>6, <2>1 DEF NoNewCopies, NoNewAnswer, Copies
<1>7. ASSUME NEW w \in Workers, Takeover(w)
      PROVE  NoNewCopies /\ NoNewAnswer
  <2>1. [Idle EXCEPT !.pc = "claimed", !.claim = state.claim].claim = state.claim
        /\ [Idle EXCEPT !.pc = "claimed", !.claim = state.claim].pc = "claimed"
    BY DEF Idle
  <2>2. QED
    BY <1>6, <1>7, <2>1 DEF Takeover, Holds
<1>8. ASSUME NEW w \in Workers, Free(w), net' = net
      PROVE  NoNewCopies /\ NoNewAnswer
  <2>1. Idle.claim = NoClaim /\ Idle.pc = "idle"
    BY DEF Idle
  <2>2. QED
    BY <1>6, <1>8, <2>1 DEF Free
<1>9. ASSUME NEW w \in Workers, Transmit(w)
      PROVE  NoNewCopies /\ NoNewAnswer
  <2>1. \A v \in Workers : wk'[v] = IF v = w THEN [wk[w] EXCEPT !.pc = "sent"] ELSE wk[v]
    BY <1>1, <1>9 DEF Transmit
  <2>2. [wk[w] EXCEPT !.pc = "sent"].claim = wk[w].claim /\ [wk[w] EXCEPT !.pc = "sent"].pc = "sent"
    BY <1>1 DEF WorkerType
  <2>3. \A m \in net' : m \in net \/ m.claim = wk[w].claim
    BY <1>9 DEF Transmit
  <2>4. \A m \in net' : m.claim \in Copies
    BY <1>5, <2>3 DEF Copies
  <2>5. \A v \in Workers : wk'[v].claim \in Copies
    BY <1>5, <2>1, <2>2
  <2>6. NoNewCopies
    BY <2>4, <2>5 DEF NoNewCopies, Copies
  <2>7. NoNewAnswer
    BY <2>1, <2>2 DEF NoNewAnswer
  <2>8. QED
    BY <2>6, <2>7
<1>10. ASSUME LeaseExpires
       PROVE  NoNewCopies /\ NoNewAnswer
  <2>1. wk' = wk /\ net' = net
    BY <1>10 DEF LeaseExpires
  <2>2. Copies' = Copies
    BY <2>1 DEF Copies
  <2>3. QED
    BY <2>1, <2>2 DEF NoNewCopies, NoNewAnswer
<1>11. ASSUME NEW w \in Workers, Park(w) \/ RecordFailure(w) \/ Superseded(w) \/ Crash(w)
       PROVE  NoNewCopies /\ NoNewAnswer
  <2>1. Free(w) /\ net' = net
    BY <1>11 DEF Park, RecordFailure, Superseded, Crash
  <2>2. QED
    BY <1>8, <2>1
<1>12. NoNewCopies /\ NoNewAnswer
  BY <1>7, <1>9, <1>10, <1>11
<1>13. QED
  BY <1>2, <1>3, <1>4, <1>12 DEF Passing

LEMMA AcknowledgingKind ==
    ASSUME OutboxInv, RowInv, AcknowledgeDegraded
    PROVE  RowInv' /\ Acknowledging
<1>1. state \in StateType /\ far \in FarType
  BY DEF OutboxInv, TypeOK
<1>2. UNCHANGED <<ownerVars, rowVars, lastSeq, mgmt, wk, net>>
  BY DEF AcknowledgeDegraded
<1>3. state'.claim = state.claim /\ state'.queued = state.queued
  BY <1>1 DEF AcknowledgeDegraded, StateType
<1>4. /\ far'.seq = far.seq /\ far'.held = far.held /\ far'.shut = far.shut /\ far'.out = far.out
      /\ far'.taken = far.taken /\ far'.astray = far.astray
      /\ far'.lost = {p \in far.lost : p[2] \notin state.degraded}
  BY <1>1 DEF AcknowledgeDegraded, FarType
<1>5. RowInv'
  BY <1>2, RowsAtRest DEF rowVars
<1>6. QED
  BY <1>2, <1>3, <1>4, <1>5 DEF Acknowledging
LEMMA StoreOfHistory ==
    ASSUME TypeOK, NEW a, far' = [far EXCEPT !.astray = a]
    PROVE  SameFar /\ far'.astray = a
BY DEF TypeOK, FarType, SameFar

LEMMA GivenBackRows ==
    ASSUME OutboxInv, RowInv, entries' = GiveBack(entries)
    PROVE  RowInv' /\ RowsBack
<1>1. /\ RowInv' /\ Consumed' = {}
      /\ \A r \in Routes : LastOp(Waiting', r) = LastOp(Everything, r)
      /\ MarkAny(Waiting') <=> MarkAny(Waiting) \/ MarkAny(Consumed)
      /\ Unmarked(Waiting') <=> Unmarked(Waiting) \/ Unmarked(Consumed)
  BY ReturnedRows
<1>2. \A r \in Routes : LastOp(Everything, r) = Latest(r)
  BY Rows DEF Latest
<1>3. QED
  BY <1>1, <1>2 DEF RowsBack

LEMMA GivingUpKind ==
    ASSUME OutboxInv, RowInv,
           \E w \in Workers : \/ TakeoverAbandon(w) \/ AbandonBeforeSend(w)
                              \/ Withhold(w) \/ Dissolve(w)
    PROVE  RowInv' /\ GivingUp
<1>1. /\ TypeOK /\ state \in StateType /\ wk \in [Workers -> WorkerType] /\ AnswerInv /\ HolderInv
  BY DEF OutboxInv, DeliveryInv, TypeOK
<1>2. Abandoning
  BY AbandoningKind
<1>3. /\ UNCHANGED <<ownerVars, lastSeq, mgmt, net>> /\ Live /\ state'.claim = NoClaim
      /\ state'.queued = state.queued \cup state.claim.dels
      /\ ~far'.astray /\ OnMapping(state.claim) => far.seq # state.claim.seq
  BY <1>2 DEF Abandoning
<1>4. NoNewCopies /\ NoNewAnswer
  BY <1>2 DEF Abandoning, Carried, NoNewCopies, NoNewAnswer
<1>5. state'.degraded = state.degraded
  BY <1>1 DEF TakeoverAbandon, AbandonBeforeSend, Withhold, Dissolve, Rehomed, StateType
<1>6. SameFar /\ (far'.astray => far.astray \/ state.claim.dels # {} \/ state.claim.source # mgmt.source)
  <2>1. ASSUME NEW w \in Workers, Withhold(w) \/ Dissolve(w)
        PROVE  <1>6!1 /\ <1>6!2
    BY <2>1 DEF Withhold, Dissolve, SameFar
  <2>2. ASSUME NEW w \in Workers, TakeoverAbandon(w)
        PROVE  <1>6!1 /\ <1>6!2
    <3>1. SameFar /\ far'.astray = (far.astray \/ MayLand(Workers))
      BY <1>1, <2>2, StoreOfHistory DEF TakeoverAbandon, GoesAstray
    <3>2. QED
      BY <2>2, <3>1 DEF TakeoverAbandon, Current, MayLand
  <2>3. ASSUME NEW w \in Workers, AbandonBeforeSend(w)
        PROVE  <1>6!1 /\ <1>6!2
    <3>1. SameFar
      BY <1>1, <2>3, StoreOfHistory DEF AbandonBeforeSend, GoesAstray
    <3>2. wk[w].claim = state.claim
      BY <1>3, <2>3, AnsweredIsLive DEF AbandonBeforeSend
    <3>3. state.claim.dels # {}
      BY <2>3, <3>2 DEF AbandonBeforeSend, RevocationHit
    <3>4. QED
      BY <3>1, <3>3
  <2>4. QED
    BY <2>1, <2>2, <2>3
<1>7. RowInv' /\ (RowsBack \/ RowsGone)
  <2>1. CASE entries' = GiveBack(entries)
    BY <2>1, GivenBackRows
  <2>2. CASE entries' # GiveBack(entries)
    <3>1. PICK w \in Workers : Dissolve(w)
      BY <2>2 DEF TakeoverAbandon, AbandonBeforeSend, Withhold
    <3>2. wk[w].claim = state.claim
      BY <1>3, <3>1, AnsweredIsLive DEF Dissolve, Answered
    <3>3. entries' = {e \in entries : e.by # state.claim.seq} /\ ~state.claim.any /\ state.claim.dels = {}
      BY <2>2, <3>1, <3>2 DEF Dissolve
    <3>4. Bad(state.claim.body)
      BY <1>1, <3>1, <3>2 DEF Dissolve, Answered, AnswerInv
    <3>5. RowInv' /\ Consumed' = {} /\ Waiting' = Waiting
      BY <1>3, <3>3, SettledRows
    <3>6. QED
      BY <3>3, <3>4, <3>5 DEF RowsGone
  <2>3. QED
    BY <2>1, <2>2
<1>8. \A w \in Workers : wk[w].pc = "answered" /\ wk[w].code = "ok" => wk'[w].pc = "answered"
  BY <1>1 DEF TakeoverAbandon, AbandonBeforeSend, Withhold, Dissolve, Answered, Free
<1>9. QED
  BY <1>3, <1>4, <1>5, <1>6, <1>7, <1>8 DEF GivingUp

LEMMA SettlesKind ==
    ASSUME OutboxInv, RowInv, NEW w \in Workers, Settle(w)
    PROVE  RowInv' /\ Settles(w)
<1>1. TypeOK /\ state \in StateType /\ far \in FarType /\ wk \in [Workers -> WorkerType] /\ HolderInv
  BY DEF OutboxInv, DeliveryInv, TypeOK
<1>2. Settling
  BY SettlingKind
<1>3. /\ UNCHANGED <<ownerVars, lastSeq, mgmt, net>> /\ Live /\ state'.claim = NoClaim
      /\ state'.queued = state.queued /\ (OnMapping(state.claim) => far.seq = state.claim.seq)
      /\ far'.astray => far.astray
  BY <1>2 DEF Settling
<1>4. NoNewCopies /\ NoNewAnswer
  BY <1>2 DEF Settling, Carried, NoNewCopies, NoNewAnswer
<1>5. Answered(w, "ok") /\ wk[w].claim = state.claim
  BY <1>3, AnsweredIsLive DEF Settle, Answered
<1>6. state'.degraded = state.degraded \cup (IF Degrades(state.claim, wk[w].out) THEN {state.claim.seq} ELSE {})
  BY <1>5 DEF Settle, Acknowledged
<1>7. SameFar
  BY <1>1, StoreOfHistory DEF Settle
<1>8. entries' = {e \in entries : e.by # state.claim.seq}
  BY <1>5 DEF Settle
<1>9. RowInv' /\ Consumed' = {} /\ Waiting' = Waiting
  BY <1>3, <1>8, SettledRows
<1>10. \A v \in Workers \ {w} : wk'[v] = wk[v]
  BY <1>1 DEF Settle, Free
<1>11. QED
  BY <1>3, <1>4, <1>5, <1>6, <1>7, <1>9, <1>10 DEF Settles

LEMMA RetiresKind ==
    ASSUME OutboxInv, RowInv, mgmt.link = "linked", NEW force, Drop(force) \/ CaptureRefused(force)
    PROVE  RowInv' /\ Retires
<1>1. TypeOK /\ state \in StateType
  BY DEF OutboxInv, TypeOK
<1>2. Retiring
  BY RetiringKind
<1>3. /\ UNCHANGED <<ownerVars, lastSeq, mgmt, wk, net, far>>
      /\ ~Live /\ state'.claim = state.claim /\ entries' = entries \ Unconsumed
  BY <1>2 DEF Retiring
<1>4. RowInv' /\ Consumed' = {} /\ Waiting' = {}
  BY <1>3, RetiredRows
<1>5. Folded.dels = {}
  BY DEF Drop, Unchanged, CaptureRefused
<1>6. NothingOwed
  BY <1>3, <1>5, FoldFindsNothing
<1>7. state'.degraded = state.degraded
  BY <1>1 DEF Drop, CaptureRefused, StateType
<1>8. CASE Drop(force)
  <2>1. Identity(Folded) = state.lastOk
    BY <1>8 DEF Drop, Unchanged
  <2>2. OnMapping(state.lastOk) /\ state.lastOk.mode = "normal" /\ state.lastOk.body = intent
    BY <2>1 DEF Identity, Folded, NewClaim, OnMapping
  <2>3. state'.queued = {}
    BY <1>1, <1>8 DEF Drop, StateType
  <2>4. QED
    BY <1>3, <1>4, <1>6, <1>7, <2>2, <2>3 DEF Retires
<1>9. CASE CaptureRefused(force)
  <2>1. Bad(intent) /\ ~Folded.any /\ state' = state
    BY <1>9 DEF CaptureRefused
  <2>2. ~MarkAny(Waiting)
    BY <1>3, <2>1, FoldFinds
  <2>3. QED
    BY <1>3, <1>4, <1>6, <1>7, <2>1, <2>2 DEF Retires
<1>10. QED
  BY <1>8, <1>9

\* An answer goes to its sender with the objects it names.
LEMMA AnswerNames ==
    ASSUME TypeOK, NEW m \in net, NEW code, NEW out, Answer(m, code, out)
    PROVE  \A v \in Workers : \/ wk'[v] = wk[v]
                              \/ wk'[v].claim = m.claim /\ wk'[v].code = code /\ wk'[v].out = out
<1>1. wk \in [Workers -> WorkerType] /\ m.w \in Workers
  BY DEF TypeOK
<1>2. ASSUME NEW v \in Workers
      PROVE  \/ wk'[v] = wk[v]
             \/ wk'[v].claim = m.claim /\ wk'[v].code = code /\ wk'[v].out = out
  <2>1. wk[v] \in WorkerType
    BY <1>1
  <2>2. CASE wk' = wk
    BY <2>2
  <2>3. CASE /\ wk[m.w].pc = "sent" /\ wk[m.w].claim = m.claim
             /\ wk' = [wk EXCEPT ![m.w].pc = "answered", ![m.w].code = code, ![m.w].out = out]
    BY <1>1, <2>1, <2>3 DEF WorkerType
  <2>4. QED
    BY <2>2, <2>3 DEF Answer
<1>3. QED
  BY <1>2

LEMMA AdapterKind ==
    ASSUME OutboxInv, RowInv, Adapter
    PROVE  RowInv' /\ (Replying \/ \E c \in ClaimType : \E code, out : Serving(c, code, out))
<1>1. TypeOK
  BY DEF OutboxInv
<1>2. PICK m \in net : AdapterHandles(m)
  BY DEF Adapter
<1>3. m.claim \in ClaimType /\ m.claim \in Copies
  BY <1>1 DEF TypeOK, Copies
<1>4. CASE AnswerElsewhere(m) \/ AnswerReceipt(m) \/ AnswerFenceShut(m) \/ AnswerInvalid(m)
  <2>1. PICK code, out : /\ Answer(m, code, out) /\ UNCHANGED far
                         /\ code = "ok" => m.claim.device # mgmt.device \/ out = far.out
    <3>1. CASE AnswerElsewhere(m)
      BY <3>1 DEF AnswerElsewhere, Here
    <3>2. CASE AnswerReceipt(m)
      BY <3>2 DEF AnswerReceipt
    <3>3. CASE AnswerFenceShut(m)
      BY <3>3 DEF AnswerFenceShut
    <3>4. CASE AnswerInvalid(m)
      BY <3>4 DEF AnswerInvalid
    <3>5. QED
      BY <1>4, <3>1, <3>2, <3>3, <3>4
  <2>2. /\ UNCHANGED <<ownerVars, rowVars, state, lastSeq, mgmt>> /\ \A c \in Copies' : c \in Copies
        /\ \A v \in Workers : \/ wk'[v] = wk[v]
                              \/ wk'[v].claim = m.claim /\ wk'[v].code = code /\ wk'[v].out = out
    BY <1>1, <2>1, AnswerCarries, AnswerNames
  <2>3. Replying
    BY <2>1, <2>2 DEF Replying
  <2>4. RowInv'
    BY <2>2, RowsAtRest DEF rowVars
  <2>5. QED
    BY <2>3, <2>4
<1>5. CASE Apply(m)
  <2>1. PICK out \in OutOf(m.claim), code \in {"ok", "inexact"} :
          Answer(m, code, out) /\ far' = Accepted(m.claim, code, out)
    BY <1>5 DEF Apply
  <2>2. m.claim.device = mgmt.device /\ m.claim.seq > far.seq /\ ~Bad(m.claim.body) /\ ~Fenced(m.claim)
    BY <1>5 DEF Apply, Fresh, Here
  <2>3. /\ UNCHANGED <<ownerVars, rowVars, state, lastSeq, mgmt>> /\ \A c \in Copies' : c \in Copies
        /\ \A v \in Workers : wk'[v] = wk[v] \/ wk'[v].out = out
    BY <1>1, <2>1, AnswerCarries, AnswerNames
  <2>4. Serving(m.claim, code, out)
    BY <1>3, <2>1, <2>2, <2>3 DEF Serving
  <2>5. RowInv'
    BY <2>3, RowsAtRest DEF rowVars
  <2>6. QED
    BY <1>3, <2>4, <2>5
<1>6. QED
  BY <1>2, <1>4, <1>5 DEF AdapterHandles

LEMMA ObservingKind ==
    ASSUME OutboxInv, RowInv, Unlink \/ AdoptIncarnation \/ AdoptSourceEpoch
    PROVE  RowInv' /\ Observing
<1>1. mgmt \in MgmtType /\ mgmt.source \in Nat
  BY DEF OutboxInv, TypeOK, MgmtType
<1>2. UNCHANGED <<ownerVars, rowVars, state, lastSeq, wk, net, far>>
  BY DEF Unlink, AdoptIncarnation, AdoptSourceEpoch
<1>3. /\ mgmt'.device = mgmt.device /\ mgmt'.inc = mgmt.inc
      /\ (mgmt'.source = mgmt.source \/ MaxSource # 0)
      /\ mgmt'.link = "linked" => mgmt.link = "linked"
  <2>1. CASE Unlink \/ AdoptIncarnation
    BY <1>1, <2>1 DEF Unlink, AdoptIncarnation, MgmtType
  <2>2. CASE AdoptSourceEpoch
    <3>1. mgmt.source < MaxSource /\ mgmt' = [mgmt EXCEPT !.source = mgmt.source + 1]
      BY <2>2 DEF AdoptSourceEpoch
    <3>2. MaxSource # 0
      BY <1>1, <3>1
    <3>3. QED
      BY <1>1, <3>1, <3>2 DEF MgmtType
  <2>3. QED
    BY <2>1, <2>2
<1>4. mgmt'.link = "offboarded" <=> mgmt.link = "offboarded"
  BY NotingKind DEF Noting
<1>5. RowInv'
  BY <1>2, RowsAtRest DEF rowVars
<1>6. QED
  BY <1>2, <1>3, <1>4, <1>5 DEF Observing

LEMMA MovingKind ==
    ASSUME OutboxInv, RowInv, Link \/ Rebuild
    PROVE  RowInv' /\ Moving
<1>1. mgmt \in MgmtType
  BY DEF OutboxInv, TypeOK
<1>2. Relinking
  BY RelinkingKind
<1>3. /\ UNCHANGED <<ownerVars, rowVars, state, lastSeq>> /\ far' = BlankStore /\ \A c \in Copies' : c \in Copies
  BY <1>2 DEF Relinking
<1>4. /\ wk' = wk /\ mgmt'.source = mgmt.source
      /\ \/ mgmt'.device = mgmt.device + 1 /\ mgmt'.inc = mgmt.inc
         \/ "rebuild" \in Events /\ mgmt'.device = mgmt.device
  BY <1>1 DEF Link, Rebuild, MgmtType
<1>5. RowInv'
  BY <1>3, RowsAtRest DEF rowVars
<1>6. QED
  BY <1>3, <1>4, <1>5 DEF Moving

LEMMA LeavingKind ==
    ASSUME OutboxInv, RowInv, Offboard
    PROVE  RowInv' /\ Leaving
<1>1. TypeOK /\ mgmt \in MgmtType /\ state \in StateType /\ state.revoked = {}
  BY DEF OutboxInv, DeliveryInv, ClaimInv, TypeOK
<1>2. UNCHANGED <<lastSeq, wk, net>> /\ "offboard" \in Events /\ far' = BlankStore
      /\ \A r \in Routes : intent'[r] = 0 /\ removal'[r] = "none"
  BY DEF Offboard, Nothing
<1>3. /\ mgmt'.link = "offboarded" /\ mgmt'.device = mgmt.device
      /\ mgmt'.inc = mgmt.inc /\ mgmt'.source = mgmt.source
  BY <1>1 DEF Offboard, MgmtType
<1>4. state'.claim = NoClaim /\ state'.queued = state.queued \cup state.claim.dels
  <2>1. Rehomed.claim = NoClaim /\ Rehomed.queued = state.queued \cup state.claim.dels
    BY <1>1, RehomedState
  <2>2. Rehomed \in StateType
    BY <1>1, AbandonTyped
  <2>3. QED
    BY <2>1, <2>2 DEF Offboard, StateType
<1>5. RowInv' /\ Consumed' = {}
  BY ReturnedRows DEF Offboard
<1>6. QED
  BY <1>2, <1>3, <1>4, <1>5 DEF Leaving

LEMMA EveryStepHasAnEffect ==
    ASSUME OutboxInv, RowInv, RemovalInv, [Next]_vars
    PROVE  RowInv' /\ Effects
<1>1. ASSUME NEW w \in Workers, NEW mode \in AskedModes, NEW force \in Forces, ClaimKey(w, mode, force)
      PROVE  RowInv' /\ Effects
  <2>1. mgmt.link = "linked"
    BY <1>1 DEF ClaimKey, Claimable
  <2>2. CASE Takeover(w)
    BY <2>2, PassingKind DEF Effects
  <2>3. CASE TakeoverAbandon(w)
    BY <2>3, GivingUpKind DEF Effects
  <2>4. CASE Form(w, force) \/ FormStoreOnly(w) \/ FormBackfill(w)
    <3>1. RowInv' /\ \E c \in ClaimType : Claiming(c)
      BY <2>1, <2>4, ClaimingKind
    <3>2. QED
      BY <3>1 DEF Effects
  <2>5. CASE Drop(force) \/ CaptureRefused(force)
    BY <2>1, <2>5, RetiresKind DEF Effects
  <2>6. QED
    BY <1>1, <2>2, <2>3, <2>4, <2>5 DEF ClaimKey
<1>2. ASSUME NEW w \in Workers, Draining(w)
      PROVE  RowInv' /\ Effects
  <2>1. CASE Settle(w)
    BY <2>1, SettlesKind DEF Effects
  <2>2. CASE AbandonBeforeSend(w) \/ Withhold(w) \/ Dissolve(w)
    BY <2>2, GivingUpKind DEF Effects
  <2>3. CASE Park(w) \/ Transmit(w) \/ RecordFailure(w) \/ Superseded(w)
    BY <2>3, PassingKind DEF Effects
  <2>4. QED
    BY <1>1, <1>2, <2>1, <2>2, <2>3 DEF Draining, Outcome
<1>3. CASE Environment
  BY <1>3, PassingKind, AcknowledgingKind, ObservingKind, MovingKind, LeavingKind DEF Environment, Effects
<1>4. CASE UNCHANGED vars
  <2>1. Replying
    BY <1>4 DEF vars, ownerVars, rowVars, Replying, Copies
  <2>2. RowInv'
    BY <1>4, RowsAtRest DEF vars
  <2>3. QED
    BY <2>1, <2>2 DEF Effects
<1>5. CASE Operator \/ Audit \/ Compact
  BY <1>5, WritingKind DEF Effects
<1>6. CASE Adapter
  BY <1>6, AdapterKind DEF Effects
<1>7. QED
  BY <1>2, <1>3, <1>4, <1>5, <1>6 DEF Next
-----------------------------------------------------------------------------
(* Copies, and what is gone                                                *)

LEMMA LastingTyped ==
    ASSUME OutboxInv
    PROVE  /\ Lasting \subseteq ClaimType /\ far.seq \in Nat /\ lastSeq \in Nat /\ NoClaim.seq = 0
           /\ \A c \in Lasting : c.seq \in Nat /\ c.seq <= lastSeq /\ c.device \in Nat /\ c.device <= mgmt.device
           /\ Live => state.claim.seq = lastSeq
           /\ far.seq <= lastSeq /\ mgmt.device \in Nat /\ mgmt.device >= 1
           /\ NoClaim.dels = {} /\ ~NoClaim.mark /\ NoClaim.body = Nothing /\ NoClaim.device = 0
<1>1. /\ Copies \subseteq ClaimType /\ state.claim \in ClaimType /\ far.seq \in Nat /\ lastSeq \in Nat
      /\ NoClaim.seq = 0 /\ mgmt.device \in Nat /\ state.claim.seq \in Nat
      /\ \A c \in ClaimType : c.seq \in Nat /\ c.device \in Nat
  BY Typed DEF OutboxInv
<1>2. /\ \A c \in Copies : c.seq <= lastSeq
      /\ state.claim.seq \in {0, lastSeq} /\ far.seq <= lastSeq
  BY DEF OutboxInv, OneOperationPerSequence, Copies
<1>3. mgmt.device >= 1 /\ \A c \in Copies \cup {state.claim} : c.device <= mgmt.device
  BY DEF OutboxInv, DeliveryInv, MappingInv, Before
<1>4. state.claim.seq <= lastSeq
  BY <1>1, <1>2
<1>5. NoClaim.dels = {} /\ ~NoClaim.mark /\ NoClaim.body = Nothing /\ NoClaim.device = 0
  BY DEF NoClaim
<1>6. QED
  BY <1>1, <1>2, <1>3, <1>4, <1>5 DEF Lasting, Live

\* Only the formation of a claim brings a new operation into being.
LEMMA LastingAfter ==
    ASSUME Effects
    PROVE  \/ \E c \in ClaimType : Claiming(c)
           \/ \A c \in Lasting' : c \in Lasting \/ c = NoClaim
<1>1. \A c \in Lasting' : c \in Copies' \/ c = state'.claim
  BY DEF Lasting
<1>2. \A c \in Copies : c \in Lasting
  BY DEF Lasting
<1>3. state.claim \in Lasting
  BY DEF Lasting
<1>4. CASE Writing \/ Acknowledging \/ Observing
  <2>1. Copies' = Copies
    BY <1>4 DEF Writing, Acknowledging, Observing, Copies
  <2>2. state'.claim = state.claim
    BY <1>4 DEF Writing, Acknowledging, Observing
  <2>3. QED
    BY <1>1, <1>2, <1>3, <2>1, <2>2
<1>5. CASE Passing
  BY <1>1, <1>2, <1>3, <1>5 DEF Passing, NoNewCopies
<1>6. CASE GivingUp
  BY <1>1, <1>2, <1>3, <1>6 DEF GivingUp, NoNewCopies
<1>7. ASSUME NEW w \in Workers, Settles(w)
      PROVE  \A c \in Lasting' : c \in Lasting \/ c = NoClaim
  BY <1>1, <1>2, <1>3, <1>7 DEF Settles, NoNewCopies
<1>8. CASE Retires \/ Leaving
  <2>1. Copies' = Copies
    BY <1>8 DEF Retires, Leaving, Copies
  <2>2. state'.claim = state.claim \/ state'.claim = NoClaim
    BY <1>8 DEF Retires, Leaving
  <2>3. QED
    BY <1>1, <1>2, <1>3, <2>1, <2>2
<1>9. CASE Replying \/ Moving
  BY <1>1, <1>2, <1>3, <1>9 DEF Replying, Moving
<1>10. ASSUME NEW c \in ClaimType, NEW code, NEW out, Serving(c, code, out)
       PROVE  \A d \in Lasting' : d \in Lasting \/ d = NoClaim
  BY <1>1, <1>2, <1>3, <1>10 DEF Serving
<1>11. QED
  BY <1>4, <1>5, <1>6, <1>7, <1>8, <1>9, <1>10 DEF Effects

LEMMA LastingGrows ==
    ASSUME NEW c, Claiming(c)
    PROVE  \A d \in Lasting' : d \in Lasting \/ d = c
BY DEF Claiming, Lasting

\* What was gone stays gone while the store keeps it so and nothing older comes along.
LEMMA GoneStays ==
    ASSUME OutboxInv, NEW r \in Routes, NEW n \in Nat, Gone(r, n),
           mgmt'.device = mgmt.device, far'.seq \in Nat, far'.seq >= far.seq, far'.held[r] = 0,
           \A c \in Lasting' : c \in Lasting \/ c = NoClaim \/ c.body[r] = 0 \/ ~(c.seq <= n)
    PROVE  Gone(r, n)'
<1>1. Lasting \subseteq ClaimType /\ far.seq \in Nat /\ NoClaim.seq = 0 /\ \A c \in Lasting : c.seq \in Nat
  BY LastingTyped
<1>2. ASSUME NEW c \in Lasting', Lands(c)', c.seq <= n
      PROVE  c.body[r] = 0
  <2>1. c.device = mgmt.device /\ c.seq > far'.seq /\ c.mode # "backfill" /\ ~Bad(c.body)
    BY <1>2 DEF Lands, Bad
  <2>2. c # NoClaim
    BY <1>1, <2>1
  <2>3. CASE c \in Lasting
    <3>1. c.seq > far.seq
      BY <1>1, <2>1, <2>3
    <3>2. QED
      BY <1>2, <2>1, <2>3, <3>1 DEF Gone, Lands
  <2>4. QED
    BY <1>2, <2>2, <2>3
<1>3. QED
  BY <1>2 DEF Gone

\* What an applied request leaves of a route that was gone.
LEMMA ServedStaysGone ==
    ASSUME OutboxInv, NEW c \in ClaimType, NEW code, NEW out, Serving(c, code, out),
           NEW r \in Routes, NEW n \in Nat, Gone(r, n), c.seq <= n
    PROVE  far'.seq = c.seq /\ far'.held[r] = 0
<1>1. c \in Lasting /\ far.held[r] = 0
  BY DEF Serving, Lasting, Gone
<1>2. far'.seq = c.seq /\ far'.held = Stored(c, out)
  BY DEF Serving, Accepted
<1>3. CASE c.mode = "backfill"
  BY <1>1, <1>2, <1>3 DEF Stored
<1>4. CASE c.mode # "backfill"
  <2>1. Lands(c)
    BY <1>4 DEF Serving, Lands
  <2>2. c.body[r] = 0
    BY <1>1, <2>1 DEF Gone
  <2>3. QED
    BY <1>2, <1>4, <2>2 DEF Stored
<1>5. QED
  BY <1>3, <1>4

\* On a blank store behind a device that no operation names yet, everything is gone.
LEMMA MovedIsGone ==
    ASSUME OutboxInv, Effects, Moving, "rebuild" \notin Events, NEW r \in Routes, NEW n
    PROVE  Gone(r, n)'
<1>1. mgmt'.device = mgmt.device + 1 /\ far' = BlankStore
  BY DEF Moving
<1>2. far'.held[r] = 0
  BY <1>1 DEF BlankStore, Nothing
<1>3. \A c \in Lasting' : c \in Lasting
  BY DEF Moving, Lasting
<1>4. \A c \in Lasting' : c.device # mgmt'.device
  BY <1>1, <1>3, LastingTyped
<1>5. QED
  BY <1>2, <1>4 DEF Gone, Lands

\* Through every step but an offboarding, what is gone up to n stays gone, unless an operation
\* younger than n is applied.
LEMMA GoneThrough ==
    ASSUME OutboxInv, OutboxInv', Effects, ~Leaving, "rebuild" \notin Events,
           NEW r \in Routes, NEW n \in Nat, Gone(r, n),
           \A c \in ClaimType : Claiming(c) => c.body[r] = 0 \/ n <= lastSeq,
           \A c \in ClaimType : \A code, out : Serving(c, code, out) => c.seq <= n
    PROVE  Gone(r, n)'
<1>1. far.seq \in Nat /\ lastSeq \in Nat /\ far.held[r] = 0 /\ far.seq >= far.seq
  BY LastingTyped DEF Gone
<1>2. ASSUME NEW c \in ClaimType, Claiming(c)
      PROVE  Gone(r, n)'
  <2>1. \A d \in Lasting' : d \in Lasting \/ d.body[r] = 0 \/ ~(d.seq <= n)
    BY <1>1, <1>2, LastingGrows DEF Claiming
  <2>2. far' = far /\ mgmt'.device = mgmt.device
    BY <1>2 DEF Claiming
  <2>3. QED
    BY <1>1, <2>1, <2>2, GoneStays
<1>3. ASSUME NEW c \in ClaimType, NEW code, NEW out, Serving(c, code, out),
             \A d \in Lasting' : d \in Lasting \/ d = NoClaim
      PROVE  Gone(r, n)'
  <2>1. far'.seq = c.seq /\ far'.held[r] = 0
    BY <1>3, ServedStaysGone
  <2>2. far'.seq > far.seq /\ far'.seq \in Nat /\ mgmt'.device = mgmt.device
    BY <1>3, <2>1 DEF Serving, ClaimType
  <2>3. far'.seq >= far.seq
    BY <1>1, <2>2
  <2>4. QED
    BY <1>3, <2>1, <2>2, <2>3, GoneStays
<1>4. CASE Moving
  BY <1>4, MovedIsGone
<1>5. ASSUME Writing \/ Passing \/ Acknowledging \/ GivingUp \/ Retires \/ Replying \/ Observing
                \/ \E w \in Workers : Settles(w),
             \A d \in Lasting' : d \in Lasting \/ d = NoClaim
      PROVE  Gone(r, n)'
  <2>1. far'.seq = far.seq /\ far'.held = far.held /\ mgmt'.device = mgmt.device
    BY <1>5 DEF Writing, Passing, Acknowledging, GivingUp, Retires, Replying, Observing, Settles, SameFar
  <2>2. far'.seq \in Nat /\ far'.seq >= far.seq /\ far'.held[r] = 0
    BY <1>1, <2>1
  <2>3. QED
    BY <1>5, <2>1, <2>2, GoneStays
<1>6. QED
  BY <1>2, <1>3, <1>4, <1>5, LastingAfter DEF Effects

LEMMA GoneForAll ==
    ASSUME OutboxInv, OutboxInv', Effects, ~Leaving, "rebuild" \notin Events,
           NEW r \in Routes, Gone(r, lastSeq),
           \A c \in ClaimType : Claiming(c) => intent[r] = 0
    PROVE  Gone(r, lastSeq)'
<1>1. lastSeq \in Nat /\ far.seq \in Nat /\ (\A c \in Lasting : c.seq <= lastSeq) /\ \A c \in ClaimType : c.seq \in Nat
  BY LastingTyped DEF ClaimType
<1>2. ASSUME NEW c \in ClaimType, Claiming(c)
      PROVE  Gone(r, lastSeq)'
  <2>1. PICK n \in Nat : n = lastSeq + 1
    BY <1>1
  <2>2. Gone(r, n) \/ \E d \in Lasting : Lands(d) /\ d.seq = n
    BY <1>1, <2>1 DEF Gone
  <2>3. Gone(r, n)
    BY <1>1, <2>1, <2>2
  <2>4. far' = far /\ mgmt' = mgmt /\ lastSeq' = n /\ c.body[r] = 0
    BY <1>2, <2>1 DEF Claiming
  <2>5. \A d \in Lasting' : d \in Lasting \/ d.body[r] = 0
    BY <1>2, <2>4, LastingGrows
  <2>6. far'.seq \in Nat /\ far'.seq >= far.seq /\ far'.held[r] = 0
    BY <1>1, <2>3, <2>4 DEF Gone
  <2>7. Gone(r, n)'
    BY <2>3, <2>4, <2>5, <2>6, GoneStays
  <2>8. QED
    BY <2>4, <2>7 DEF Gone
<1>3. CASE ~\E c \in ClaimType : Claiming(c)
  <2>1. PICK n \in Nat : n = lastSeq
    BY <1>1
  <2>2. lastSeq' = n
    BY <1>3, <2>1 DEF Effects, Writing, Passing, Acknowledging, GivingUp, Retires, Replying, Observing, Moving,
                      Settles, Serving
  <2>3. \A c \in ClaimType : \A code, out : Serving(c, code, out) => c.seq <= n
    BY <1>1, <2>1 DEF Serving, Lasting
  <2>4. Gone(r, n)'
    BY <1>3, <2>1, <2>3, GoneThrough
  <2>5. QED
    BY <2>2, <2>4 DEF Gone
<1>4. QED
  BY <1>2, <1>3
-----------------------------------------------------------------------------
(* What the rows, the claim and the routes' histories record               *)

\* Most steps leave every row where it is.
LEMMA RowsUnmoved ==
    ASSUME \/ Passing \/ Acknowledging \/ Replying \/ Observing \/ Moving
           \/ \E c \in ClaimType : \E code, out : Serving(c, code, out)
    PROVE  /\ UNCHANGED <<ownerVars, lastSeq>> /\ Waiting' = Waiting /\ Consumed' = Consumed
           /\ state'.claim = state.claim /\ state'.queued = state.queued
<1>1. UNCHANGED <<ownerVars, rowVars, lastSeq>> /\ state'.claim = state.claim /\ state'.queued = state.queued
  BY DEF Passing, Acknowledging, Replying, Observing, Moving, Serving
<1>2. entries' = entries
  BY <1>1 DEF rowVars
<1>3. Waiting' = Waiting /\ Consumed' = Consumed
  BY <1>2 DEF Waiting, Consumed, Unconsumed, Ordinary
<1>4. QED
  BY <1>1, <1>3

\* Where neither rows nor routes move, what they say does not change.
LEMMA SameWords ==
    ASSUME Waiting' = Waiting, Consumed' = Consumed, state'.queued = state.queued
    PROVE  /\ \A r \in Routes : /\ LastOp(Waiting', r) = LastOp(Waiting, r)
                                /\ LastOp(Consumed', r) = LastOp(Consumed, r)
                                /\ Latest(r)' = Latest(r) /\ (Owes(r)' <=> Owes(r)) /\ (Awaits(r)' <=> Awaits(r))
           /\ MarkAny(Waiting') <=> MarkAny(Waiting)
           /\ MarkAny(Consumed') <=> MarkAny(Consumed)
           /\ Unmarked(Waiting') <=> Unmarked(Waiting)
           /\ Unmarked(Consumed') <=> Unmarked(Consumed)
<1>1. \A r \in Routes : /\ LastOp(Waiting', r) = LastOp(Waiting, r)
                        /\ LastOp(Consumed', r) = LastOp(Consumed, r)
  OBVIOUS
<1>2. /\ MarkAny(Waiting') <=> MarkAny(Waiting)
      /\ MarkAny(Consumed') <=> MarkAny(Consumed)
      /\ Unmarked(Waiting') <=> Unmarked(Waiting)
      /\ Unmarked(Consumed') <=> Unmarked(Consumed)
  OBVIOUS
<1>3. \A r \in Routes : Latest(r)' = Latest(r) /\ (Owes(r)' <=> Owes(r))
  BY <1>1 DEF Latest, Owes
<1>4. \A r \in Routes : Awaits(r)' <=> Awaits(r)
  BY <1>2, <1>3 DEF Awaits
<1>5. QED
  BY <1>1, <1>2, <1>3, <1>4

LEMMA NoRows ==
    ASSUME NEW E, E = {}, NEW r
    PROVE  LastOp(E, r) = "none" /\ ~MarkAny(E) /\ ~Unmarked(E)
BY DEF LastOp, Deletes, Revokes, MarkAny, Ordinary, Unmarked

LEMMA RemovalStep ==
    ASSUME Effects, RemovalInv
    PROVE  RemovalInv'
<1>1. CASE UNCHANGED ownerVars
  BY <1>1 DEF ownerVars, RemovalInv
<1>2. CASE Writing
  BY <1>2 DEF Writing, RouteStays, RouteAccepted, RouteReowned, RouteDeleted, RouteReleased, RemovalInv
<1>3. CASE Leaving
  BY <1>3 DEF Leaving, RemovalInv
<1>4. QED
  BY <1>1, <1>2, <1>3 DEF Effects, Passing, Acknowledging, GivingUp, Retires, Replying, Observing, Moving,
     Settles, Claiming, Serving

LEMMA ConsumedStep ==
    ASSUME OutboxInv, Effects, ConsumedInv, RowInv'
    PROVE  ConsumedInv'
<1>1. CASE \/ Passing \/ Acknowledging \/ Replying \/ Observing \/ Moving \/ Writing
           \/ \E c \in ClaimType : \E code, out : Serving(c, code, out)
  <2>1. Consumed' = Consumed /\ state'.claim = state.claim
    BY <1>1, RowsUnmoved DEF Writing
  <2>2. MarkAny(Consumed') <=> MarkAny(Consumed)
    BY <2>1
  <2>3. \A r \in Routes : LastOp(Consumed', r) = LastOp(Consumed, r)
    BY <2>1
  <2>4. QED
    BY <2>1, <2>2, <2>3 DEF ConsumedInv
<1>2. CASE GivingUp \/ Retires \/ Leaving \/ \E w \in Workers : Settles(w)
  <2>1. Consumed' = {}
    BY <1>2 DEF GivingUp, RowsBack, RowsGone, Retires, Leaving, Settles
  <2>2. ~MarkAny(Consumed') /\ \A r \in Routes : LastOp(Consumed', r) = "none"
    BY <2>1, NoRows
  <2>3. state'.claim = NoClaim
    BY <1>2 DEF GivingUp, Retires, Leaving, Settles, OutboxInv, DeliveryInv, ClaimInv
  <2>4. ~state'.claim.any
    BY <2>3 DEF NoClaim
  <2>5. QED
    BY <2>2, <2>4 DEF ConsumedInv
<1>3. ASSUME NEW c \in ClaimType, Claiming(c)
      PROVE  ConsumedInv'
  <2>1. state'.claim = c
    BY <1>3 DEF Claiming
  <2>2. CASE TakingAll(c)
    BY <2>1, <2>2 DEF TakingAll, ConsumedInv, Owes
  <2>3. CASE TakingNone(c)
    <3>1. Consumed' = Consumed
      BY <2>3 DEF TakingNone, Consumed, Ordinary
    <3>2. Consumed = {}
      BY <1>3, NothingConsumed DEF Claiming
    <3>3. ~MarkAny(Consumed') /\ \A r \in Routes : LastOp(Consumed', r) = "none"
      BY <3>1, <3>2, NoRows
    <3>4. QED
      BY <2>1, <2>3, <3>3 DEF TakingNone, ConsumedInv
  <2>4. QED
    BY <1>3, <2>2, <2>3 DEF Claiming
<1>4. QED
  BY <1>1, <1>2, <1>3 DEF Effects

LEMMA LastWordStep ==
    ASSUME OutboxInv, OutboxInv', RowInv, RowInv', Effects, LastWordInv
    PROVE  LastWordInv'
<1>. SUFFICES ASSUME NEW r \in Routes, removal'[r] = "deleted"
              PROVE  Latest(r)' # "revoke"
  BY DEF LastWordInv
<1>1. LastOp(Waiting, r) \in Ops /\ LastOp(Consumed, r) \in Ops
  BY Rows
<1>2. ASSUME removal'[r] = removal[r], Latest(r)' = Latest(r) \/ Latest(r)' = "none"
      PROVE  Latest(r)' # "revoke"
  BY <1>2 DEF LastWordInv
<1>3. CASE Writing
  <2>1. LastOp(Consumed', r) = LastOp(Consumed, r)
    BY <1>3 DEF Writing
  <2>2. CASE RouteStays(r)
    BY <1>2, <2>1, <2>2 DEF RouteStays, Latest
  <2>3. CASE RouteDeleted(r) /\ PerObject
    BY <2>3 DEF RouteDeleted, Latest
  <2>4. CASE ~PerObject
    <3>1. \A e \in entries' : e.ops[r] = "none"
      BY <2>4 DEF RowInv, NoOps
    <3>2. (\A e \in Waiting' : e.ops[r] = "none") /\ \A e \in Consumed' : e.ops[r] = "none"
      BY <3>1 DEF Waiting, Consumed, Ordinary, Unconsumed
    <3>3. LastOp(Waiting', r) = "none" /\ LastOp(Consumed', r) = "none"
      BY <3>2 DEF LastOp, Deletes, Revokes
    <3>4. QED
      BY <3>3 DEF Latest
  <2>5. QED
    BY <1>3, <2>2, <2>3, <2>4 DEF Writing, RouteAccepted, RouteReowned, RouteReleased
<1>4. CASE \/ Passing \/ Acknowledging \/ Replying \/ Observing \/ Moving
           \/ \E c \in ClaimType : \E code, out : Serving(c, code, out)
  <2>1. UNCHANGED ownerVars /\ Latest(r)' = Latest(r)
    BY <1>4, RowsUnmoved, SameWords
  <2>2. QED
    BY <1>2, <2>1 DEF ownerVars
<1>5. CASE GivingUp \/ Retires \/ \E w \in Workers : Settles(w)
  <2>1. UNCHANGED ownerVars /\ Consumed' = {}
    BY <1>5 DEF GivingUp, RowsBack, RowsGone, Retires, Settles
  <2>2. LastOp(Consumed', r) = "none"
    BY <2>1, NoRows
  <2>3. LastOp(Waiting', r) \in {Latest(r), LastOp(Waiting, r), "none"}
    <3>1. CASE Waiting' = {}
      BY <3>1, NoRows
    <3>2. CASE Waiting' = Waiting
      BY <3>2
    <3>3. CASE RowsBack
      BY <3>3 DEF RowsBack
    <3>4. QED
      BY <1>5, <3>1, <3>2, <3>3 DEF GivingUp, RowsGone, Retires, Settles
  <2>4. Latest(r)' = Latest(r) \/ Latest(r)' = "none"
    BY <2>2, <2>3 DEF Latest
  <2>5. QED
    BY <1>2, <2>1, <2>4 DEF ownerVars
<1>6. CASE Leaving
  BY <1>6 DEF Leaving
<1>7. ASSUME NEW c \in ClaimType, Claiming(c)
      PROVE  Latest(r)' # "revoke"
  <2>1. UNCHANGED ownerVars /\ LastOp(Consumed, r) = "none"
    BY <1>7, NothingConsumed DEF Claiming
  <2>2. CASE TakingAll(c)
    <3>1. LastOp(Waiting', r) = "none"
      BY <2>2, NoRows DEF TakingAll
    <3>2. LastOp(Consumed', r) = LastOp(Waiting, r)
      BY <2>2 DEF TakingAll
    <3>3. Latest(r)' = Latest(r)
      BY <2>1, <3>1, <3>2 DEF Latest
    <3>4. QED
      BY <1>2, <2>1, <3>3 DEF ownerVars
  <2>3. CASE TakingNone(c)
    <3>1. Waiting' = Waiting /\ Consumed' = Consumed /\ state'.queued = state.queued
      BY <2>3 DEF TakingNone, Waiting, Consumed, Ordinary, Unconsumed
    <3>2. QED
      BY <1>2, <2>1, <3>1, SameWords DEF ownerVars
  <2>4. QED
    BY <1>7, <2>2, <2>3 DEF Claiming
<1>8. QED
  BY <1>3, <1>4, <1>5, <1>6, <1>7 DEF Effects

LEMMA QueryStep ==
    ASSUME OutboxInv, RowInv, Effects, QueryInv
    PROVE  QueryInv'
<1>1. far'.shut => PerObject
  <2>1. ASSUME NEW c \in ClaimType, NEW code, NEW out, Serving(c, code, out)
        PROVE  far'.shut => far.shut
    BY <2>1 DEF Serving, Accepted
  <2>2. ~BlankStore.shut
    BY DEF BlankStore
  <2>3. CASE Moving \/ Leaving
    BY <2>2, <2>3 DEF Moving, Leaving, QueryInv
  <2>4. CASE ~Moving /\ ~Leaving
    <3>1. far'.shut => far.shut
      BY <2>1, <2>4 DEF Effects, Writing, Passing, Acknowledging, GivingUp, Retires, Replying, Observing,
         Settles, Claiming, SameFar
    <3>2. QED
      BY <3>1 DEF QueryInv
  <2>5. QED
    BY <2>3, <2>4
<1>2. ASSUME ~PerObject
      PROVE  state'.queued = {} /\ \A c \in Lasting' : c.dels = {}
  <2>1. state.queued = {} /\ (\A c \in Lasting : c.dels = {}) /\ state.claim.dels = {} /\ NoClaim.dels = {}
    BY <1>2, LastingTyped DEF QueryInv, Lasting
  <2>2. ASSUME NEW c \in ClaimType, Claiming(c)
        PROVE  state'.queued = {} /\ \A d \in Lasting' : d.dels = {}
    <3>1. \A r \in Routes : LastOp(Waiting, r) = "none"
      BY <1>2, NoObjectNamed
    <3>2. c.dels \subseteq Routes
      BY DEF ClaimType
    <3>3. c.dels = {}
      BY <2>1, <2>2, <3>1, <3>2 DEF Claiming, TakingAll, TakingNone
    <3>4. state'.queued = {}
      BY <2>1, <2>2 DEF Claiming, TakingAll, TakingNone
    <3>5. QED
      BY <2>1, <2>2, <3>3, <3>4, LastingGrows
  <2>3. CASE ~\E c \in ClaimType : Claiming(c)
    <3>1. \A c \in Lasting' : c.dels = {}
      BY <2>1, <2>3, LastingAfter
    <3>2. state'.queued = {}
      BY <2>1, <2>3 DEF Effects, Writing, Passing, Acknowledging, GivingUp, Retires, Replying, Observing,
         Moving, Leaving, Settles, Serving
    <3>3. QED
      BY <3>1, <3>2
  <2>4. QED
    BY <2>2, <2>3
<1>3. QED
  BY <1>1, <1>2 DEF QueryInv

LEMMA HistoryStep ==
    ASSUME OutboxInv, OutboxInv', HistoryInv, [Next]_vars
    PROVE  HistoryInv' /\ Effects
<1>1. RowInv' /\ Effects
  BY EveryStepHasAnEffect DEF HistoryInv
<1>2. QED
  BY <1>1, RemovalStep, ConsumedStep, LastWordStep, QueryStep DEF HistoryInv

LEMMA HistoryBegins == Init => HistoryInv
<1>. SUFFICES ASSUME Init
              PROVE  HistoryInv
  OBVIOUS
<1>1. entries = {} /\ state.claim = NoClaim /\ state.queued = {} /\ net = {}
      /\ intent = Nothing /\ removal = [r \in Routes |-> "none"] /\ wk = [w \in Workers |-> Idle]
  BY DEF Init
<1>2. RowInv
  BY <1>1 DEF RowInv
<1>3. Waiting = {} /\ Consumed = {}
  BY <1>1 DEF Waiting, Consumed, Ordinary, Unconsumed
<1>4. ~MarkAny(Consumed) /\ \A r \in Routes : LastOp(Waiting, r) = "none" /\ LastOp(Consumed, r) = "none"
  BY <1>3, NoRows
<1>5. ~state.claim.any
  BY <1>1 DEF NoClaim
<1>6. RemovalInv /\ ConsumedInv /\ LastWordInv
  BY <1>1, <1>4, <1>5 DEF RemovalInv, ConsumedInv, LastWordInv
<1>7. \A c \in Lasting : c.dels = {}
  BY <1>1 DEF Lasting, Copies, Idle, NoClaim
<1>8. far.shut => PerObject
  <2>1. PICK s \in {FALSE, PerObject /\ "shut" \in Events} : far = [BlankStore EXCEPT !.shut = s]
    BY DEF Init
  <2>2. far.shut = s
    BY <2>1 DEF BlankStore
  <2>3. QED
    BY <2>1, <2>2
<1>9. QED
  BY <1>1, <1>2, <1>6, <1>7, <1>8 DEF HistoryInv, QueryInv

\* What the rows, the claim and each route's history record of deletions agrees, in every state:
\* keys and consumption keep the rows in order, a claim holds every deletion of the rows it
\* consumed, and no re-ownership follows a deletion that stands (_form, fold_transitions).
THEOREM OutboxHistoryAgrees == Spec => []HistoryInv
<1>1. HistoryInv /\ OutboxInv /\ OutboxInv' /\ [Next]_vars => HistoryInv'
  BY HistoryStep
<1>2. QED
  BY <1>1, HistoryBegins, DeliveryInvariant, PTL DEF Spec

\* Compaction changes no answer a later fold or scan of the rows gives (_compact_locked).
THEOREM CompactionIsExact == Spec => CompactionKeepsTheFold
<1>1. HistoryInv /\ HistoryInv' /\ OutboxInv /\ OutboxInv' => 
        [Compact =>
          LET E == Ordinary(Unconsumed)
              F == Ordinary({e \in entries' : e.by = 0})
          IN /\ FoldQueued(E, state.claim.dels, state.queued)
                  = FoldQueued(F, state.claim.dels, state.queued)
             /\ FoldRevoked(E, state.claim.dels, {}) = FoldRevoked(F, state.claim.dels, {})
             /\ Withdrawn(E) \cap state.claim.dels = Withdrawn(F) \cap state.claim.dels
             /\ MarkAll(E) = MarkAll(F)
             /\ MarkAny(E) = MarkAny(F)]_vars
  BY CompactStep DEF HistoryInv
<1>2. QED
  BY <1>1, OutboxHistoryAgrees, DeliveryInvariant, PTL DEF Spec, CompactionKeepsTheFold
-----------------------------------------------------------------------------
(* Authority for a deletion is never lost                                  *)

LEMMA CalmStep ==
    ASSUME OutboxInv, HistoryInv, Tracked, CalmInv, Effects
    PROVE  CalmInv'
<1>1. mgmt'.inc = 0
  <2>1. mgmt'.inc = mgmt.inc
    BY DEF Tracked, Effects, Writing, Passing, Acknowledging, GivingUp, Retires, Replying, Observing, Moving,
       Leaving, Settles, Claiming, Serving
  <2>2. QED
    BY <2>1 DEF CalmInv
<1>2. ASSUME MaxSource = 0
      PROVE  mgmt'.source = 0 /\ (Live' => state'.claim.source = 0)
  <2>1. mgmt'.source = mgmt.source
    BY <1>2 DEF Effects, Writing, Passing, Acknowledging, GivingUp, Retires, Replying, Observing, Moving,
       Leaving, Settles, Claiming, Serving
  <2>2. \/ state'.claim = state.claim
        \/ state'.claim = NoClaim
        \/ state'.claim.source = mgmt.source
    BY DEF Effects, Writing, Passing, Acknowledging, GivingUp, Retires, Replying, Observing, Moving,
       Leaving, Settles, Claiming, Serving
  <2>3. NoClaim.seq = 0
    BY DEF NoClaim
  <2>4. QED
    BY <1>2, <2>1, <2>2, <2>3 DEF CalmInv, Live
<1>3. ASSUME ~PerObject
      PROVE  ~far'.astray
  <2>1. ~far.astray /\ MaxSource = 0 /\ state.claim.dels = {}
    BY <1>3 DEF CalmInv, Tracked, HistoryInv, QueryInv, Lasting
  <2>2. ~BlankStore.astray
    BY DEF BlankStore
  <2>3. CASE GivingUp
    BY <2>1, <2>3 DEF GivingUp, CalmInv
  <2>4. ASSUME NEW c \in ClaimType, NEW code, NEW out, Serving(c, code, out)
        PROVE  ~far'.astray
    BY <2>1, <2>4 DEF Serving, Accepted
  <2>5. CASE Moving \/ Leaving
    BY <2>2, <2>5 DEF Moving, Leaving
  <2>6. QED
    BY <2>1, <2>3, <2>4, <2>5 DEF Effects, Writing, Passing, Acknowledging, Retires, Replying, Observing,
       Settles, Claiming
<1>4. QED
  BY <1>1, <1>2, <1>3 DEF CalmInv

\* Only an operation that takes the rows carries authority.
LEMMA TakesIsNormal ==
    ASSUME OutboxInv, HistoryInv, Live, NEW r \in Routes, Takes(state.claim, r)
    PROVE  state.claim.mode = "normal"
<1>1. CASE PerObject
  BY <1>1 DEF Takes, OutboxInv, DeliveryInv, ClaimInv
<1>2. CASE ~PerObject
  <2>1. MarkAny(Consumed)
    BY <1>2 DEF Takes, HistoryInv, ConsumedInv
  <2>2. QED
    BY <2>1, NothingConsumed
<1>3. QED
  BY <1>1, <1>2

LEMMA SameIncarnation ==
    ASSUME OutboxInv, CalmInv
    PROVE  /\ \A c \in Copies \cup {state.claim} : c.inc = mgmt.inc
           /\ state.claim.device = mgmt.device => OnMapping(state.claim)
           /\ \A c \in Copies : c.device = mgmt.device => OnMapping(c)
<1>1. \A c \in Copies \cup {state.claim} : c.inc \in Nat /\ c.inc <= mgmt.inc
  BY Typed DEF OutboxInv, DeliveryInv, MappingInv, Before
<1>2. \A c \in Copies \cup {state.claim} : c.inc = mgmt.inc
  BY <1>1 DEF CalmInv
<1>3. QED
  BY <1>2 DEF OnMapping

\* While the live claim names a device the plugin has left, so does every copy there is.
LEMMA NothingHere ==
    ASSUME OutboxInv, Live, state.claim.device # mgmt.device, NEW c \in Lasting
    PROVE  c.device # mgmt.device
<1>1. state.claim.device \in Nat /\ state.claim.device <= mgmt.device /\ mgmt.device \in Nat /\ c.device \in Nat
  BY LastingTyped DEF Lasting
<1>2. c.device <= state.claim.device
  BY <1>1 DEF OutboxInv, DeliveryInv, MappingInv, Before, Lasting
<1>3. QED
  BY <1>1, <1>2

\* Once an operation that names r as absent is settled, r is gone.
LEMMA SettledIsGone ==
    ASSUME OutboxInv, OutboxInv', CalmInv, BlankInv, NEW w \in Workers, Settles(w), NEW r \in Routes,
           state.claim.mode # "backfill", state.claim.body[r] = 0,
           \A c \in Lasting' : c \in Lasting \/ c = NoClaim
    PROVE  Gone(r, lastSeq)'
<1>1. Live /\ far'.held = far.held /\ far'.seq = far.seq /\ mgmt' = mgmt /\ lastSeq' = lastSeq
  BY DEF Settles, SameFar
<1>2. CASE state.claim.device = mgmt.device
  <2>1. OnMapping(state.claim)
    BY <1>2, SameIncarnation
  <2>2. far.seq = state.claim.seq /\ state.claim.seq = lastSeq
    BY <1>1, <2>1, LastingTyped DEF Settles
  <2>3. far.held = state.claim.body
    BY <1>1, <2>2 DEF OutboxInv, DeliveryInv, AppliedInv
  <2>4. \A c \in Lasting' : ~(c.seq > far'.seq /\ c.seq <= lastSeq')
    BY <1>1, <2>2, LastingTyped
  <2>5. QED
    BY <1>1, <2>3, <2>4 DEF Gone, Lands
<1>3. CASE state.claim.device # mgmt.device
  <2>1. far.held[r] = 0
    BY <1>1, <1>3 DEF BlankInv, Nothing
  <2>2. \A c \in Lasting' : c.device # mgmt'.device
    BY <1>1, <1>3, NothingHere, LastingTyped
  <2>3. QED
    BY <1>1, <2>1, <2>2 DEF Gone, Lands
<1>4. QED
  BY <1>2, <1>3

\* Rows retired because nothing changed leave nothing in the store that the intent does not name.
LEMMA UnchangedIsGone ==
    ASSUME OutboxInv, CalmInv, ~PerObject, Retires, NEW r \in Routes, intent[r] = 0,
           OnMapping(state.lastOk), state.lastOk.mode = "normal", state.lastOk.body = intent
    PROVE  Gone(r, lastSeq)
<1>1. ~Live /\ mgmt.link = "linked" /\ ~far.astray
  BY DEF Retires, CalmInv
<1>2. far.held = intent
  BY <1>1 DEF OutboxInv, DeliveryInv, BaselineInv
<1>3. state.claim.seq = 0 /\ far.seq \in Nat
  BY <1>1, LastingTyped DEF Live
<1>4. ASSUME NEW c \in Copies, Lands(c)
      PROVE  FALSE
  <2>1. Stray(c)
    BY <1>1, <1>4 DEF Stray, Lands
  <2>2. Harmless(c)
    BY <1>1, <2>1 DEF OutboxInv, DeliveryInv, StrayInv
  <2>3. c.seq \in Nat
    BY LastingTyped DEF Lasting
  <2>4. QED
    BY <1>3, <1>4, <2>2, <2>3 DEF Lands, Harmless, Fenced
<1>5. ~Lands(state.claim)
  BY <1>3 DEF Lands
<1>6. QED
  BY <1>2, <1>4, <1>5 DEF Gone, Lasting

\* The three homes of an authority: what waits, the live claim, or nothing left to delete.
Kept(r) ==
    \/ Awaits(r)
    \/ Live /\ Takes(state.claim, r) /\ state.claim.body[r] = 0
    \/ Gone(r, lastSeq)

LEMMA AuthorityStep ==
    ASSUME OutboxInv, OutboxInv', HistoryInv, HistoryInv', Tracked, CalmInv, BlankInv, AuthorityInv, Effects
    PROVE  AuthorityInv'
<1>. SUFFICES ASSUME NEW r \in Routes, removal'[r] = "deleted"
              PROVE  Kept(r)'
  BY DEF AuthorityInv, Kept
<1>1. "rebuild" \notin Events
  BY DEF Tracked
<1>2. LastOp(Waiting, r) \in Ops /\ LastOp(Consumed, r) \in Ops
  BY Rows DEF HistoryInv
<1>3. ~Leaving
  BY DEF Leaving
<1>4. ASSUME Gone(r, lastSeq), \A c \in ClaimType : Claiming(c) => intent[r] = 0
      PROVE  Kept(r)'
  BY <1>1, <1>3, <1>4, GoneForAll DEF Kept
<1>5. CASE Writing
  <2>1. CASE RouteDeleted(r)
    BY <1>5, <2>1 DEF RouteDeleted, Kept, Awaits, Owes
  <2>2. CASE RouteStays(r)
    <3>1. Kept(r)
      BY <2>2 DEF RouteStays, AuthorityInv, Kept
    <3>2. state' = state /\ LastOp(Waiting', r) = LastOp(Waiting, r) /\ (MarkAny(Waiting) => MarkAny(Waiting'))
      BY <1>5, <2>2 DEF RouteStays, Writing
    <3>3. Awaits(r) => Awaits(r)'
      BY <3>2 DEF Awaits, Owes
    <3>4. \A c \in ClaimType : ~Claiming(c)
      BY <1>5, LastingTyped DEF Writing, Claiming
    <3>5. QED
      BY <1>4, <3>1, <3>2, <3>3, <3>4 DEF Kept, Takes, Live
  <2>3. QED
    BY <1>5, <2>1, <2>2 DEF Writing, RouteAccepted, RouteReowned, RouteReleased
<1>6. CASE \/ Passing \/ Acknowledging \/ Replying \/ Observing \/ Moving
           \/ \E c \in ClaimType : \E code, out : Serving(c, code, out)
  <2>1. /\ removal' = removal /\ state'.claim = state.claim /\ lastSeq' = lastSeq
        /\ Awaits(r)' <=> Awaits(r)
    BY <1>6, RowsUnmoved, SameWords DEF ownerVars
  <2>2. \A c \in ClaimType : ~Claiming(c)
    BY <2>1, LastingTyped DEF Claiming
  <2>3. QED
    BY <1>4, <2>1, <2>2 DEF AuthorityInv, Kept, Takes, Live
<1>7. CASE GivingUp
  <2>1. removal' = removal /\ lastSeq' = lastSeq /\ state'.queued = state.queued \cup state.claim.dels
    BY <1>7 DEF GivingUp, ownerVars
  <2>2. \A c \in ClaimType : ~Claiming(c)
    BY <2>1, LastingTyped DEF Claiming
  <2>3. LastOp(Waiting, r) # "none" => LastOp(Waiting', r) = LastOp(Waiting, r)
    BY <1>7 DEF GivingUp, RowsBack, RowsGone, Latest
  <2>4. MarkAny(Waiting) \/ state.claim.any => MarkAny(Waiting')
    <3>1. CASE RowsBack
      BY <3>1 DEF RowsBack, HistoryInv, ConsumedInv
    <3>2. CASE RowsGone
      BY <3>2 DEF RowsGone
    <3>3. QED
      BY <1>7, <3>1, <3>2 DEF GivingUp
  <2>5. Awaits(r) \/ Takes(state.claim, r) => Awaits(r)'
    BY <2>1, <2>3, <2>4 DEF Awaits, Takes, Owes
  <2>6. QED
    BY <1>4, <2>1, <2>2, <2>5 DEF AuthorityInv, Kept
<1>8. ASSUME NEW w \in Workers, Settles(w)
      PROVE  Kept(r)'
  <2>1. /\ removal' = removal /\ lastSeq' = lastSeq /\ state'.queued = state.queued
        /\ Waiting' = Waiting /\ Consumed' = {}
    BY <1>8 DEF Settles, ownerVars
  <2>2. \A c \in ClaimType : ~Claiming(c)
    BY <2>1, LastingTyped DEF Claiming
  <2>3. Awaits(r) => Awaits(r)'
    BY <2>1 DEF Awaits, Owes
  <2>4. ASSUME Live, Takes(state.claim, r), state.claim.body[r] = 0
        PROVE  Gone(r, lastSeq)'
    <3>1. state.claim.mode = "normal"
      BY <2>4, TakesIsNormal
    <3>2. \A c \in Lasting' : c \in Lasting \/ c = NoClaim
      BY <2>2, LastingAfter
    <3>3. QED
      BY <1>8, <2>4, <3>1, <3>2, SettledIsGone
  <2>5. QED
    BY <1>4, <2>1, <2>2, <2>3, <2>4 DEF AuthorityInv, Kept
<1>9. CASE Retires
  <2>1. removal' = removal /\ lastSeq' = lastSeq /\ ~Live
    BY <1>9 DEF Retires, ownerVars
  <2>2. \A c \in ClaimType : ~Claiming(c)
    BY <2>1, LastingTyped DEF Claiming
  <2>3. Latest(r) # "revoke"
    BY <2>1 DEF HistoryInv, LastWordInv
  <2>4. ~Owes(r)
    <3>1. LastOp(Waiting, r) # "revoke"
      BY <2>3 DEF Latest
    <3>2. QED
      BY <1>9, <3>1 DEF Retires, NothingOwed, Owes
  <2>5. CASE PerObject \/ ~MarkAny(Waiting)
    BY <1>4, <2>1, <2>2, <2>4, <2>5 DEF AuthorityInv, Kept, Awaits
  <2>6. CASE ~PerObject /\ MarkAny(Waiting)
    <3>1. OnMapping(state.lastOk) /\ state.lastOk.mode = "normal" /\ state.lastOk.body = intent
      BY <1>9, <2>6 DEF Retires
    <3>2. intent[r] = 0
      BY <2>1 DEF HistoryInv, RemovalInv
    <3>3. Gone(r, lastSeq)
      BY <1>9, <2>6, <3>1, <3>2, UnchangedIsGone
    <3>4. QED
      BY <1>4, <2>2, <3>3
  <2>7. QED
    BY <2>5, <2>6
<1>10. ASSUME NEW c \in ClaimType, Claiming(c)
       PROVE  Kept(r)'
  <2>1. removal' = removal /\ ~Live /\ c.body = intent /\ state'.claim = c /\ c.seq # 0
    BY <1>10, LastingTyped DEF Claiming, ownerVars
  <2>2. intent[r] = 0
    BY <2>1 DEF HistoryInv, RemovalInv
  <2>3. Latest(r) # "revoke"
    BY <2>1 DEF HistoryInv, LastWordInv
  <2>4. Awaits(r) \/ Gone(r, lastSeq)
    BY <2>1 DEF AuthorityInv
  <2>5. CASE Gone(r, lastSeq)
    BY <1>4, <2>2, <2>5
  <2>6. CASE Awaits(r) /\ TakingAll(c)
    <3>1. LastOp(Waiting, r) # "revoke"
      BY <2>3 DEF Latest
    <3>2. Takes(c, r)
      BY <2>6, <3>1 DEF Awaits, Takes, TakingAll
    <3>3. QED
      BY <2>1, <2>2, <3>2 DEF Kept, Live, Takes
  <2>7. CASE Awaits(r) /\ TakingNone(c)
    <3>1. Waiting' = Waiting /\ Consumed' = Consumed /\ state'.queued = state.queued
      BY <2>7 DEF TakingNone, Waiting, Consumed, Ordinary, Unconsumed
    <3>2. QED
      BY <2>7, <3>1, SameWords DEF Kept
  <2>8. QED
    BY <1>10, <2>4, <2>5, <2>6, <2>7 DEF Claiming
<1>11. QED
  BY <1>3, <1>5, <1>6, <1>7, <1>8, <1>9, <1>10 DEF Effects
-----------------------------------------------------------------------------
(* A detach is on record                                                   *)

LEMMA BlankStep ==
    ASSUME OutboxInv, HistoryInv, Tracked, BlankInv, Effects
    PROVE  BlankInv'
<1>. SUFFICES ASSUME Live', state'.claim.device # mgmt'.device
              PROVE  far'.held = Nothing /\ far'.lost = {} /\ far'.seq = 0
  BY DEF BlankInv
<1>1. BlankStore.held = Nothing /\ BlankStore.lost = {} /\ BlankStore.seq = 0 /\ NoClaim.seq = 0
  BY DEF BlankStore, NoClaim
<1>2. CASE Moving \/ Leaving
  BY <1>1, <1>2 DEF Moving, Leaving
<1>3. CASE GivingUp \/ Retires \/ \E w \in Workers : Settles(w)
  BY <1>1, <1>3 DEF GivingUp, Retires, Settles, Live
<1>4. ASSUME NEW c \in ClaimType, Claiming(c)
      PROVE  FALSE
  BY <1>4 DEF Claiming
<1>5. ASSUME NEW c \in ClaimType, NEW code, NEW out, Serving(c, code, out)
      PROVE  FALSE
  <2>1. Live /\ state.claim.device # mgmt.device /\ c \in Lasting /\ c.device = mgmt.device
    BY <1>5 DEF Serving, Lasting, Live
  <2>2. QED
    BY <2>1, NothingHere
<1>6. CASE Writing \/ Passing \/ Acknowledging \/ Replying \/ Observing
  <2>1. Live /\ state.claim.device # mgmt.device
    BY <1>6 DEF Writing, Passing, Acknowledging, Replying, Observing, Live
  <2>2. far.held = Nothing /\ far.lost = {} /\ far.seq = 0
    BY <2>1 DEF BlankInv
  <2>3. far'.held = far.held /\ far'.seq = far.seq /\ \A p \in far'.lost : p \in far.lost
    BY <1>6 DEF Writing, Passing, Acknowledging, Replying, Observing
  <2>4. QED
    BY <2>2, <2>3
<1>7. QED
  BY <1>2, <1>3, <1>4, <1>5, <1>6 DEF Effects

\* What waits keeps waiting through whatever keeps the live claim.
LEMMA AwaitsWithClaim ==
    ASSUME OutboxInv, HistoryInv, Effects, NEW r \in Routes, ~Leaving,
           Live', \A c \in ClaimType : ~Claiming(c),
           removal[r] = "deleted" => Awaits(r)
    PROVE  removal'[r] = "deleted" => Awaits(r)'
<1>1. NoClaim.seq = 0
  BY DEF NoClaim
<1>2. CASE Writing
  <2>1. /\ state' = state /\ (MarkAny(Waiting) => MarkAny(Waiting'))
        /\ RouteStays(r) \/ RouteAccepted(r) \/ RouteReowned(r) \/ RouteDeleted(r) \/ RouteReleased(r)
    BY <1>2 DEF Writing
  <2>2. CASE RouteDeleted(r)
    BY <2>2 DEF RouteDeleted, Awaits, Owes
  <2>3. CASE RouteStays(r)
    BY <2>1, <2>3 DEF RouteStays, Awaits, Owes
  <2>4. QED
    BY <2>1, <2>2, <2>3 DEF RouteAccepted, RouteReowned, RouteReleased
<1>3. CASE \/ Passing \/ Acknowledging \/ Replying \/ Observing \/ Moving
           \/ \E c \in ClaimType : \E code, out : Serving(c, code, out)
  <2>1. removal' = removal /\ (Awaits(r)' <=> Awaits(r))
    BY <1>3, RowsUnmoved, SameWords DEF ownerVars
  <2>2. QED
    BY <2>1
<1>4. ~GivingUp /\ ~Retires /\ ~\E w \in Workers : Settles(w)
  BY <1>1 DEF GivingUp, Retires, Settles, Live
<1>5. QED
  BY <1>2, <1>3, <1>4 DEF Effects

Reached(r) ==
    \/ Takes(state.claim, r)
    \/ state.claim.mode = "backfill" /\ (removal[r] = "deleted" => Awaits(r))
    \/ far.seq >= state.claim.seq
    \/ Gone(r, state.claim.seq)

LEMMA ReachStep ==
    ASSUME OutboxInv, OutboxInv', HistoryInv, HistoryInv', Tracked, CalmInv, AuthorityInv, ReachInv, Effects
    PROVE  ReachInv'
<1>. SUFFICES ASSUME Live', state'.claim.device = mgmt'.device, NEW r \in Routes, state'.claim.why[r] = "deleted"
              PROVE  Reached(r)'
  BY DEF ReachInv, Reached
<1>1. "rebuild" \notin Events /\ NoClaim.seq = 0 /\ lastSeq \in Nat /\ far.seq \in Nat
  BY LastingTyped DEF Tracked
<1>2. ASSUME NEW c \in ClaimType, Claiming(c)
      PROVE  Reached(r)'
  <2>1. /\ state'.claim = c /\ ~Live /\ lastSeq' = c.seq /\ c.why = removal /\ removal' = removal
        /\ c.body = intent
    BY <1>2 DEF Claiming, ownerVars
  <2>2. removal[r] = "deleted" /\ intent[r] = 0 /\ Latest(r) # "revoke"
    BY <2>1 DEF HistoryInv, RemovalInv, LastWordInv
  <2>3. Awaits(r) \/ Gone(r, lastSeq)
    BY <2>1, <2>2 DEF AuthorityInv
  <2>4. ~Leaving
    BY <2>1, <2>2 DEF Leaving
  <2>5. CASE Gone(r, lastSeq)
    <3>1. Gone(r, lastSeq)'
      BY <1>1, <2>2, <2>4, <2>5, GoneForAll
    <3>2. PICK n : n = c.seq
      OBVIOUS
    <3>3. Gone(r, n)'
      BY <2>1, <3>1, <3>2 DEF Gone
    <3>4. Gone(r, state.claim.seq)'
      BY <2>1, <3>2, <3>3 DEF Gone
    <3>5. QED
      BY <3>4 DEF Reached
  <2>6. LastOp(Waiting, r) # "revoke"
    BY <2>2 DEF Latest
  <2>7. CASE Awaits(r) /\ TakingAll(c)
    <3>1. Takes(c, r)
      BY <2>6, <2>7 DEF Awaits, Takes, TakingAll
    <3>2. QED
      BY <2>1, <3>1 DEF Reached, Takes
  <2>8. CASE Awaits(r) /\ TakingNone(c)
    <3>1. Waiting' = Waiting /\ Consumed' = Consumed /\ state'.queued = state.queued
      BY <2>8 DEF TakingNone, Waiting, Consumed, Ordinary, Unconsumed
    <3>2. Awaits(r)'
      BY <2>8, <3>1, SameWords
    <3>3. c.mode # "store_only"
      BY <2>6, <2>8 DEF TakingNone, NothingOwed, Awaits, Owes
    <3>4. c.mode = "backfill"
      BY <2>8, <3>3 DEF TakingNone, ClaimType, RequestModes
    <3>5. QED
      BY <2>1, <3>2, <3>4 DEF Reached
  <2>9. QED
    BY <1>2, <2>3, <2>5, <2>7, <2>8 DEF Claiming
<1>3. CASE ~\E c \in ClaimType : Claiming(c)
  <2>1. state'.claim = state.claim /\ Live /\ ~Leaving
    BY <1>1, <1>3 DEF Effects, Writing, Passing, Acknowledging, GivingUp, Retires, Replying, Observing, Moving,
       Leaving, Settles, Serving, Live
  <2>2. mgmt'.device = mgmt.device
    <3>1. ~Moving
      BY <1>1, <2>1, LastingTyped DEF Moving, Lasting
    <3>2. QED
      BY <1>3, <2>1, <3>1 DEF Effects, Writing, Passing, Acknowledging, GivingUp, Retires, Replying, Observing,
         Leaving, Settles, Serving
  <2>3. Reached(r)
    BY <2>1, <2>2 DEF ReachInv, Reached
  <2>4. state.claim.seq = lastSeq
    BY <2>1, LastingTyped
  <2>5. far'.seq >= far.seq /\ far'.seq \in Nat
    <3>1. ASSUME NEW c \in ClaimType, NEW code, NEW out, Serving(c, code, out)
          PROVE  far'.seq >= far.seq /\ far'.seq \in Nat
      <4>1. far'.seq = c.seq /\ c.seq > far.seq /\ c.seq \in Nat
        BY <3>1 DEF Serving, Accepted, ClaimType
      <4>2. QED
        BY <1>1, <4>1
    <3>2. ~Moving
      BY <1>1, <2>1, <2>2, LastingTyped DEF Moving
    <3>3. CASE ~\E c \in ClaimType : \E code, out : Serving(c, code, out)
      <4>1. far'.seq = far.seq
        BY <1>3, <2>1, <3>2, <3>3 DEF Effects, Writing, Passing, Acknowledging, GivingUp, Retires, Replying,
           Observing, Settles, SameFar
      <4>2. QED
        BY <1>1, <4>1
    <3>4. QED
      BY <3>1, <3>3
  <2>6. CASE Takes(state.claim, r)
    BY <2>1, <2>6 DEF Reached, Takes
  <2>7. CASE state.claim.mode = "backfill" /\ (removal[r] = "deleted" => Awaits(r))
    <3>1. removal'[r] = "deleted" => Awaits(r)'
      BY <1>3, <2>1, <2>7, AwaitsWithClaim
    <3>2. QED
      BY <2>1, <2>7, <3>1 DEF Reached
  <2>8. CASE far.seq >= state.claim.seq
    BY <1>1, <2>1, <2>4, <2>5, <2>8 DEF Reached
  <2>9. CASE Gone(r, state.claim.seq)
    <3>1. Gone(r, lastSeq)
      BY <2>4, <2>9
    <3>2. Gone(r, lastSeq)'
      BY <1>1, <1>3, <2>1, <3>1, GoneForAll
    <3>3. state'.claim.seq = lastSeq'
      BY <2>1, <2>4, LastingTyped DEF OutboxInv, OneOperationPerSequence, Live
    <3>4. Gone(r, state.claim.seq)'
      BY <3>2, <3>3 DEF Gone
    <3>5. QED
      BY <3>4 DEF Reached
  <2>10. QED
    BY <2>3, <2>6, <2>7, <2>8, <2>9 DEF Reached
<1>4. QED
  BY <1>2, <1>3
LEMMA LostTyped ==
    ASSUME OutboxInv, NEW p \in far.lost
    PROVE  p[1] \in Routes /\ p[2] \in Nat
<1>1. far.lost \subseteq Routes \X Nat
  BY DEF OutboxInv, TypeOK, FarType
<1>2. QED
  BY <1>1

\* Under the number of the live claim there is only the live claim.
LEMMA CopyOfLive ==
    ASSUME OutboxInv, Live, NEW c \in Copies, c.seq = state.claim.seq
    PROVE  c = state.claim
BY DEF OutboxInv, OneOperationPerSequence, Copies, Live

\* Applying the live claim detaches only what its settlement will report.
LEMMA ServingShows ==
    ASSUME OutboxInv, HistoryInv, CalmInv, ReachInv, Live,
           NEW c \in ClaimType, NEW code, NEW out, Serving(c, code, out), c = state.claim,
           NEW r \in Routes, r \in Detached(c, out), c.why[r] = "deleted"
    PROVE  IF c.mode = "backfill"
           THEN PerObject /\ r \in out /\ (removal[r] = "deleted" => Awaits(r))
           ELSE out # {} \/ (~PerObject /\ c.any /\ ~c.mark)
<1>1. c.device = mgmt.device /\ c.seq > far.seq /\ out \in OutOf(c)
  BY DEF Serving
<1>2. far.held[r] # 0 /\ Stored(c, out)[r] = 0 /\ (r \in Retracted(c) => r \in out)
  BY DEF Detached
<1>3. ~(far.seq >= c.seq)
  BY <1>1, LastingTyped DEF Lasting
<1>4. \/ Takes(c, r)
      \/ c.mode = "backfill" /\ (removal[r] = "deleted" => Awaits(r))
  BY <1>1, <1>2, <1>3 DEF ReachInv, Gone
<1>5. CASE Takes(c, r)
  <2>1. c.mode = "normal"
    BY <1>5, TakesIsNormal
  <2>2. r \in Dropped(c)
    BY <1>2, <2>1 DEF Stored, Dropped
  <2>3. CASE PerObject
    <3>1. r \in out
      BY <1>2, <1>5, <2>1, <2>2, <2>3 DEF Takes, Retracted
    <3>2. QED
      BY <2>1, <3>1
  <2>4. CASE ~PerObject /\ c.mark
    <3>1. r \in out
      BY <1>2, <2>1, <2>2, <2>4 DEF Retracted
    <3>2. QED
      BY <2>1, <3>1
  <2>5. CASE ~PerObject /\ ~c.mark
    BY <1>5, <2>1, <2>5 DEF Takes
  <2>6. QED
    BY <2>3, <2>4, <2>5
<1>6. CASE c.mode = "backfill" /\ (removal[r] = "deleted" => Awaits(r))
  <2>1. r \in out
    BY <1>2, <1>6 DEF Stored
  <2>2. far.shut
    BY <1>1, <1>6, <2>1 DEF OutOf
  <2>3. PerObject
    BY <2>2 DEF HistoryInv, QueryInv
  <2>4. QED
    BY <1>6, <2>1, <2>3
<1>7. QED
  BY <1>4, <1>5, <1>6

LEMMA LostStep ==
    ASSUME OutboxInv, OutboxInv', HistoryInv, HistoryInv', CalmInv, ReachInv, LostInv, Effects
    PROVE  LostInv'
<1>1. BlankStore.lost = {} /\ NoClaim.seq = 0 /\ lastSeq \in Nat /\ far.seq \in Nat /\ far.seq <= lastSeq
  BY LastingTyped DEF BlankStore
<1>2. ASSUME NEW p \in far'.lost
      PROVE  p[2] <= far'.seq /\ (Live' /\ p[2] = state'.claim.seq => far'.seq = state'.claim.seq /\ Shows(p)')
  <2>1. ~Moving /\ ~Leaving
    BY <1>1, <1>2 DEF Moving, Leaving
  <2>2. ASSUME NEW c \in ClaimType, NEW code, NEW out, Serving(c, code, out)
        PROVE  p[2] <= far'.seq /\ (Live' /\ p[2] = state'.claim.seq => far'.seq = state'.claim.seq /\ Shows(p)')
    <3>1. /\ far'.seq = c.seq /\ far'.out = out /\ c.seq > far.seq /\ c \in Copies /\ state' = state
          /\ UNCHANGED <<ownerVars, rowVars>>
      BY <2>2 DEF Serving, Accepted
    <3>2. c.seq \in Nat /\ c.seq <= lastSeq
      BY <3>1, LastingTyped DEF Lasting
    <3>3. \/ p \in far.lost
          \/ \E r \in Detached(c, out) : c.why[r] = "deleted" /\ p = <<r, c.seq>>
      BY <2>2 DEF Serving, Accepted
    <3>4. CASE p \in far.lost
      <4>1. p[2] <= far.seq /\ p[2] \in Nat
        BY <3>4, LostTyped DEF LostInv
      <4>2. p[2] < c.seq
        BY <1>1, <3>1, <3>2, <4>1
      <4>3. Live => state.claim.seq = lastSeq
        BY LastingTyped
      <4>4. QED
        BY <1>1, <3>1, <3>2, <4>2, <4>1, <4>3 DEF Live
    <3>5. CASE \E r \in Detached(c, out) : c.why[r] = "deleted" /\ p = <<r, c.seq>>
      <4>1. PICK r \in Detached(c, out) : c.why[r] = "deleted" /\ p = <<r, c.seq>>
        BY <3>5
      <4>2. r \in Routes /\ p[1] = r /\ p[2] = c.seq
        BY <4>1 DEF Detached
      <4>3. ASSUME Live', p[2] = state'.claim.seq
            PROVE  far'.seq = state'.claim.seq /\ Shows(p)'
        <5>1. Live /\ c = state.claim
          BY <3>1, <4>2, <4>3, CopyOfLive DEF Live
        <5>2. IF c.mode = "backfill"
              THEN PerObject /\ r \in out /\ (removal[r] = "deleted" => Awaits(r))
              ELSE out # {} \/ (~PerObject /\ c.any /\ ~c.mark)
          BY <2>2, <4>1, <4>2, <5>1, ServingShows
        <5>3. removal' = removal /\ (Awaits(r)' <=> Awaits(r))
          BY <2>2, <4>2, RowsUnmoved, SameWords DEF ownerVars
        <5>4. Shows(p)'
          BY <3>1, <4>2, <5>1, <5>2, <5>3 DEF Shows
        <5>5. QED
          BY <3>1, <5>1, <5>4
      <4>4. QED
        BY <3>1, <3>2, <4>2, <4>3
    <3>6. QED
      BY <3>3, <3>4, <3>5
  <2>3. CASE ~\E c \in ClaimType : \E code, out : Serving(c, code, out)
    <3>1. far'.seq = far.seq /\ far'.out = far.out /\ p \in far.lost
      BY <1>2, <2>1, <2>3 DEF Effects, Writing, Passing, Acknowledging, GivingUp, Retires, Replying, Observing,
         Settles, SameFar, Claiming
    <3>2. p[1] \in Routes /\ p[2] \in Nat /\ p[2] <= far.seq
      BY <3>1, LostTyped DEF LostInv
    <3>3. ASSUME Live', p[2] = state'.claim.seq
          PROVE  far'.seq = state'.claim.seq /\ Shows(p)'
      <4>1. \A c \in ClaimType : ~Claiming(c)
        BY <1>1, <3>2, <3>3 DEF Claiming
      <4>2. state'.claim = state.claim /\ Live
        BY <1>1, <2>1, <2>3, <3>3, <4>1 DEF Effects, Writing, Passing, Acknowledging, GivingUp, Retires, Replying,
           Observing, Settles, Live
      <4>3. far.seq = state.claim.seq /\ Shows(p)
        BY <3>1, <3>3, <4>2 DEF LostInv
      <4>4. PICK r \in Routes : r = p[1]
        BY <3>2
      <4>5. (removal[r] = "deleted" => Awaits(r)) => (removal'[r] = "deleted" => Awaits(r)')
        BY <2>1, <3>3, <4>1, AwaitsWithClaim
      <4>6. Shows(p)'
        BY <3>1, <4>2, <4>3, <4>4, <4>5 DEF Shows
      <4>7. QED
        BY <3>1, <4>2, <4>3, <4>6
    <3>4. QED
      BY <3>1, <3>2, <3>3
  <2>4. QED
    BY <2>2, <2>3
<1>3. QED
  BY <1>2 DEF LostInv
LEMMA OutStep ==
    ASSUME OutboxInv, Tracked, CalmInv, OutInv, Effects
    PROVE  OutInv'
<1>. SUFFICES ASSUME NEW w \in Workers, wk'[w].pc = "answered", wk'[w].code = "ok", Live',
                     wk'[w].claim.seq = state'.claim.seq, state'.claim.device = mgmt'.device
              PROVE  wk'[w].out = far'.out
  BY DEF OutInv
<1>1. /\ NoClaim.seq = 0 /\ lastSeq \in Nat /\ far.seq \in Nat /\ (Live => state.claim.seq = lastSeq)
      /\ \A c \in Copies : c.seq \in Nat /\ c.seq <= lastSeq
  BY LastingTyped DEF Lasting
<1>2. wk[w].claim \in Copies
  BY DEF Copies
<1>3. CASE GivingUp \/ Retires \/ Leaving \/ \E v \in Workers : Settles(v)
  BY <1>1, <1>3 DEF GivingUp, Retires, Leaving, Settles, Live
<1>4. ASSUME NEW c \in ClaimType, Claiming(c)
      PROVE  wk'[w].out = far'.out
  <2>1. wk'[w] = wk[w] /\ state'.claim.seq = lastSeq + 1
    BY <1>4 DEF Claiming, NoNewAnswer
  <2>2. wk[w].claim.seq \in Nat /\ wk[w].claim.seq <= lastSeq
    BY <1>1, <1>2
  <2>3. QED
    BY <1>1, <2>1, <2>2
<1>5. CASE Moving
  <2>1. state'.claim = state.claim /\ mgmt'.device = mgmt.device + 1
    BY <1>5 DEF Moving, Tracked
  <2>2. state.claim.device \in Nat /\ state.claim.device <= mgmt.device /\ mgmt.device \in Nat
    BY LastingTyped DEF Lasting
  <2>3. QED
    BY <2>1, <2>2
<1>6. ASSUME wk'[w] = wk[w], state'.claim = state.claim, mgmt'.device = mgmt.device
      PROVE  wk[w].out = far.out /\ far.seq = lastSeq
  <2>1. Live /\ wk[w].claim.seq = state.claim.seq /\ wk[w].pc = "answered" /\ wk[w].code = "ok"
        /\ state.claim.device = mgmt.device
    BY <1>6 DEF Live
  <2>2. wk[w].claim = state.claim
    BY <1>2, <2>1, CopyOfLive
  <2>3. OnMapping(wk[w].claim)
    BY <2>1, <2>2, SameIncarnation
  <2>4. far.seq = wk[w].claim.seq
    BY <2>1, <2>3 DEF OutboxInv, DeliveryInv, AnswerInv
  <2>5. QED
    BY <1>1, <2>1, <2>4 DEF OutInv
<1>7. CASE Writing \/ Passing \/ Acknowledging \/ Observing
  <2>1. state'.claim = state.claim /\ mgmt'.device = mgmt.device /\ far'.out = far.out
    BY <1>7 DEF Writing, Passing, Acknowledging, Observing
  <2>2. wk'[w] = wk[w]
    BY <1>7 DEF Writing, Passing, Acknowledging, Observing, NoNewAnswer
  <2>3. QED
    BY <1>6, <2>1, <2>2
<1>8. CASE Replying
  <2>1. state' = state /\ mgmt' = mgmt /\ far' = far /\ \A c \in Copies' : c \in Copies
    BY <1>8 DEF Replying
  <2>2. CASE wk'[w] = wk[w]
    BY <1>6, <2>1, <2>2
  <2>3. CASE wk'[w].claim.device # mgmt.device
    <3>1. wk'[w].claim \in Copies'
      BY DEF Copies
    <3>2. wk'[w].claim = state.claim
      BY <2>1, <3>1, CopyOfLive DEF Live
    <3>3. QED
      BY <2>1, <2>3, <3>2
  <2>4. QED
    BY <1>8, <2>1, <2>2, <2>3 DEF Replying
<1>9. ASSUME NEW c \in ClaimType, NEW code, NEW out, Serving(c, code, out)
      PROVE  wk'[w].out = far'.out
  <2>1. state' = state /\ mgmt' = mgmt /\ far'.out = out /\ c.seq > far.seq /\ c \in Copies
    BY <1>9 DEF Serving, Accepted
  <2>2. c.seq \in Nat /\ c.seq <= lastSeq
    BY <1>1, <2>1
  <2>3. wk'[w] # wk[w]
    BY <1>1, <1>6, <2>1, <2>2
  <2>4. QED
    BY <1>9, <2>1, <2>3 DEF Serving
<1>10. QED
  BY <1>3, <1>4, <1>5, <1>7, <1>8, <1>9 DEF Effects

LEMMA RecordStep ==
    ASSUME OutboxInv, Tracked, CalmInv, CalmInv', BlankInv, LostInv, OutInv, RecordInv, Effects
    PROVE  RecordInv'
<1>. SUFFICES ASSUME ~PerObject, mgmt'.link # "offboarded", NEW p \in far'.lost
              PROVE  p[2] \in state'.degraded \/ (Live' /\ p[2] = state'.claim.seq)
  BY DEF RecordInv
<1>1. BlankStore.lost = {}
  BY DEF BlankStore
<1>2. ~Moving /\ ~Leaving
  BY <1>1 DEF Moving, Leaving
<1>3. mgmt.link # "offboarded"
  BY <1>2 DEF Effects, Writing, Passing, Acknowledging, GivingUp, Retires, Replying, Observing, Settles, Claiming,
     Serving
<1>4. ASSUME p \in far.lost
      PROVE  p[2] \in state.degraded \/ (Live /\ p[2] = state.claim.seq)
  BY <1>3, <1>4 DEF RecordInv
<1>5. ASSUME p \in far.lost, Live, p[2] = state.claim.seq
      PROVE  state.claim.device = mgmt.device /\ OnMapping(state.claim) /\ far.seq = state.claim.seq /\ Shows(p)
  <2>1. state.claim.device = mgmt.device
    BY <1>5 DEF BlankInv
  <2>2. QED
    BY <1>5, <2>1, SameIncarnation DEF LostInv
<1>6. CASE Writing \/ Passing \/ Acknowledging \/ Replying \/ Observing \/ Retires
  <2>1. state'.claim = state.claim /\ p \in far.lost
    BY <1>6 DEF Writing, Passing, Acknowledging, Replying, Observing, Retires
  <2>2. state'.degraded = state.degraded \/ p[2] \notin state.degraded
    BY <1>6 DEF Writing, Passing, Acknowledging, Replying, Observing, Retires
  <2>3. QED
    BY <1>4, <2>1, <2>2 DEF Live
<1>7. ASSUME NEW c \in ClaimType, Claiming(c)
      PROVE  p[2] \in state'.degraded
  BY <1>4, <1>7 DEF Claiming
<1>8. CASE GivingUp
  <2>1. p \in far.lost /\ state'.degraded = state.degraded /\ Live
    BY <1>8 DEF GivingUp, SameFar
  <2>2. OnMapping(state.claim) => far.seq # state.claim.seq
    BY <1>8 DEF GivingUp, CalmInv
  <2>3. QED
    BY <1>4, <1>5, <2>1, <2>2
<1>9. ASSUME NEW w \in Workers, Settles(w)
      PROVE  p[2] \in state'.degraded
  <2>1. /\ p \in far.lost /\ Live /\ Answered(w, "ok") /\ wk[w].claim = state.claim
        /\ state'.degraded = state.degraded \cup (IF Degrades(state.claim, wk[w].out) THEN {state.claim.seq} ELSE {})
    BY <1>9 DEF Settles, SameFar
  <2>2. CASE p[2] = state.claim.seq
    <3>1. state.claim.device = mgmt.device /\ Shows(p)
      BY <1>5, <2>1, <2>2
    <3>2. wk[w].out = far.out
      BY <2>1, <3>1 DEF OutInv, Answered
    <3>3. Degrades(state.claim, wk[w].out)
      BY <3>1, <3>2 DEF Shows, Degrades
    <3>4. QED
      BY <2>1, <2>2, <3>3
  <2>3. QED
    BY <1>4, <2>1, <2>2
<1>10. ASSUME NEW c \in ClaimType, NEW code, NEW out, Serving(c, code, out)
       PROVE  p[2] \in state'.degraded \/ (Live' /\ p[2] = state'.claim.seq)
  <2>1. state' = state /\ c \in Copies /\ c.device = mgmt.device /\ c.seq > far.seq /\ ~Bad(c.body) /\ ~Fenced(c)
    BY <1>10 DEF Serving
  <2>2. \/ p \in far.lost
        \/ \E r \in Detached(c, out) : c.why[r] = "deleted" /\ p = <<r, c.seq>>
    BY <1>10 DEF Serving, Accepted
  <2>3. CASE p \in far.lost
    BY <1>4, <2>1, <2>3 DEF Live
  <2>4. Live /\ c.seq = state.claim.seq
    <3>1. ASSUME ~(Live /\ c.seq = state.claim.seq)
          PROVE  FALSE
      <4>1. Stray(c)
        BY <2>1, <3>1 DEF Stray
      <4>2. c.inc = mgmt.inc /\ ~far.astray
        BY <2>1, SameIncarnation DEF CalmInv
      <4>3. Harmless(c)
        BY <1>3, <2>1, <4>1, <4>2 DEF OutboxInv, DeliveryInv, StrayInv
      <4>4. ~(c.seq <= far.seq)
        BY <2>1, LastingTyped DEF Lasting
      <4>5. QED
        BY <2>1, <4>3, <4>4 DEF Harmless
    <3>2. QED
      BY <3>1
  <2>5. QED
    BY <2>1, <2>2, <2>3, <2>4 DEF Live
<1>11. QED
  BY <1>2, <1>6, <1>7, <1>8, <1>9, <1>10 DEF Effects

LEMMA TrackStep ==
    ASSUME OutboxInv, OutboxInv', HistoryInv, HistoryInv', Tracked, TrackInv, Effects
    PROVE  TrackInv'
<1>1. CalmInv' /\ BlankInv' /\ AuthorityInv' /\ ReachInv'
  BY CalmStep, BlankStep, AuthorityStep, ReachStep DEF TrackInv
<1>2. LostInv' /\ OutInv'
  BY LostStep, OutStep DEF TrackInv
<1>3. RecordInv'
  BY <1>1, RecordStep DEF TrackInv
<1>4. QED
  BY <1>1, <1>2, <1>3 DEF TrackInv

LEMMA TrackBegins == Init => TrackInv
<1>. SUFFICES ASSUME Init
              PROVE  TrackInv
  OBVIOUS
<1>1. state.claim = NoClaim /\ removal = [r \in Routes |-> "none"] /\ wk = [w \in Workers |-> Idle]
  BY DEF Init
<1>2. mgmt.inc = 0 /\ mgmt.source = 0
  BY DEF Init
<1>3. ~Live
  BY <1>1 DEF Live, NoClaim
<1>4. far.lost = {} /\ ~far.astray
  <2>1. PICK s \in {FALSE, PerObject /\ "shut" \in Events} : far = [BlankStore EXCEPT !.shut = s]
    BY DEF Init
  <2>2. far.lost = BlankStore.lost /\ far.astray = BlankStore.astray
    BY <2>1 DEF BlankStore
  <2>3. QED
    BY <2>2 DEF BlankStore
<1>5. CalmInv
  BY <1>2, <1>3, <1>4 DEF CalmInv
<1>6. AuthorityInv
  BY <1>1 DEF AuthorityInv
<1>7. BlankInv /\ ReachInv /\ LostInv /\ OutInv /\ RecordInv
  BY <1>3, <1>4 DEF BlankInv, ReachInv, LostInv, OutInv, RecordInv
<1>8. QED
  BY <1>5, <1>6, <1>7 DEF TrackInv

\* Where stores are not rebuilt under a key, every deletion the operator authorised is on its way,
\* in the live claim or done, and whatever a claim detached instead is recorded with it.
THEOREM AuthorityIsTracked == ASSUME Tracked PROVE Spec => []TrackInv
<1>1. TrackInv /\ HistoryInv /\ HistoryInv' /\ OutboxInv /\ OutboxInv' /\ [Next]_vars => TrackInv'
  BY HistoryStep, TrackStep
<1>2. QED
  BY <1>1, TrackBegins, OutboxHistoryAgrees, DeliveryInvariant, PTL DEF Spec

\* While the store holds a deleted route, authority to delete it is in the queue, in the live claim
\* or in a row (fold_transitions, _abandon_locked, _compact_locked).  A store rebuilt under a key is
\* excepted: a sender whose lease ran out may write an older claim into the blank store.
THEOREM AuthorityIsKept == ASSUME Tracked PROVE Spec => []DeletionAuthorityIsKept
<1>1. ASSUME OutboxInv, HistoryInv, TrackInv, PerObject, NEW r \in Routes, removal[r] = "deleted", far.held[r] # 0
      PROVE  Pending(r)
  <2>1. r \in state.queued \/ LastOp(Waiting, r) = "delete" \/ r \in state.claim.dels
    BY <1>1 DEF TrackInv, AuthorityInv, Awaits, Owes, Takes, Gone
  <2>2. CASE LastOp(Waiting, r) = "delete"
    <3>1. Deletes(Everything, r)
      BY <1>1, <2>2, Rows DEF HistoryInv
    <3>2. QED
      BY <3>1 DEF Pending, Everything
  <2>3. QED
    BY <2>1, <2>2 DEF Pending
<1>2. OutboxInv /\ HistoryInv /\ TrackInv => DeletionAuthorityIsKept
  BY <1>1 DEF DeletionAuthorityIsKept
<1>3. QED
  BY <1>2, AuthorityIsTracked, OutboxHistoryAgrees, DeliveryInvariant, PTL

\* Where no object is named, a quiet key leaves no standing deletion that degraded to a detach
\* without a record (_commit_acknowledged_claim, _degradations).
THEOREM NoDetachIsSilent == ASSUME Tracked, ~PerObject PROVE Spec => []NoSilentDetach
<1>1. ASSUME TrackInv, Quiet, NEW p \in far.lost, removal[p[1]] = "deleted"
      PROVE  p[2] \in state.degraded
  <2>1. ~Live /\ mgmt.link # "offboarded"
    BY <1>1 DEF Quiet, WorkPending, Live
  <2>2. QED
    BY <1>1, <2>1 DEF TrackInv, RecordInv
<1>2. TrackInv => NoSilentDetach
  BY <1>1 DEF NoSilentDetach
<1>3. QED
  BY <1>2, AuthorityIsTracked, PTL

\* What an answer must name of an authority that waits outside the claim of a backfill.
LEMMA AwaitingIsPending ==
    ASSUME OutboxInv, HistoryInv, PerObject, Live, state.claim.mode = "backfill",
           NEW r \in Routes, removal[r] = "deleted", Awaits(r)
    PROVE  r \in PendingDeletions(state.claim)
<1>1. Ordinary(Unconsumed) = Waiting /\ state.claim.dels = {}
  BY DEF Waiting, OutboxInv, DeliveryInv, ClaimInv
<1>2. Latest(r) # "revoke" /\ Owes(r)
  BY DEF HistoryInv, LastWordInv, Awaits
<1>3. CASE LastOp(Waiting, r) = "delete"
  <2>1. Deletes(Waiting, r)
    BY <1>3, Rows DEF HistoryInv
  <2>2. QED
    BY <1>1, <2>1 DEF PendingDeletions, FoldQueued
<1>4. CASE LastOp(Waiting, r) # "delete"
  <2>1. r \in state.queued
    BY <1>2, <1>4 DEF Owes
  <2>2. LastOp(Waiting, r) # "revoke"
    BY <1>2 DEF Latest
  <2>3. LastOp(Waiting, r) = "none"
    BY <1>4, <2>2, Rows DEF HistoryInv, Ops
  <2>4. \A e \in Waiting : e.ops[r] = "none"
    BY <2>3, Rows DEF HistoryInv
  <2>5. QED
    BY <1>1, <2>1, <2>4 DEF PendingDeletions, FoldQueued
<1>5. QED
  BY <1>3, <1>4

\* An answer that detached an object is recorded as degraded if the operator's deletion of it
\* stands when the answer is settled (_degradations).
LEMMA DetachStep ==
    ASSUME OutboxInv, HistoryInv, TrackInv, Effects,
           NEW w \in Workers, Answered(w, "ok"), wk'[w].pc = "idle", state'.claim.seq = 0,
           NEW p \in far.lost, p[2] = wk[w].claim.seq, removal[p[1]] = "deleted"
    PROVE  wk[w].claim.seq \in state'.degraded
<1>1. wk[w].pc = "answered" /\ wk[w].code = "ok" /\ Live /\ state.claim.seq = wk[w].claim.seq
  BY DEF Answered, OutboxInv, DeliveryInv, HolderInv, Live
<1>2. wk'[w] # wk[w] /\ wk'[w].pc # "answered" /\ ~Live'
  BY <1>1 DEF Live
<1>3. Settles(w)
  <2>1. ASSUME NEW v \in Workers, Settles(v)
        PROVE  v = w
    BY <1>2, <2>1 DEF Settles
  <2>2. ~GivingUp /\ ~Leaving /\ ~Retires
    BY <1>1, <1>2 DEF GivingUp, Leaving, Retires
  <2>3. ASSUME NEW c \in ClaimType, Claiming(c)
        PROVE  FALSE
    BY <1>1, <2>3 DEF Claiming
  <2>4. state'.claim # state.claim
    BY <1>1, <1>2 DEF Live
  <2>5. QED
    BY <2>1, <2>2, <2>3, <2>4 DEF Effects, Writing, Passing, Acknowledging, Replying, Observing, Moving, Serving
<1>4. wk[w].claim = state.claim
  BY <1>3 DEF Settles
<1>5. state.claim.device = mgmt.device
  BY <1>1 DEF TrackInv, BlankInv
<1>6. wk[w].out = far.out /\ Shows(p)
  BY <1>1, <1>4, <1>5 DEF TrackInv, OutInv, LostInv
<1>7. p[1] \in Routes
  BY LostTyped
<1>8. Degrades(state.claim, far.out)
  <2>1. CASE state.claim.mode = "backfill"
    <3>1. PerObject /\ p[1] \in far.out /\ Awaits(p[1])
      BY <1>6, <2>1 DEF Shows
    <3>2. p[1] \in PendingDeletions(state.claim)
      BY <1>1, <1>7, <2>1, <3>1, AwaitingIsPending
    <3>3. QED
      BY <2>1, <3>1, <3>2 DEF Degrades
  <2>2. CASE state.claim.mode # "backfill"
    BY <1>6, <2>2 DEF Shows, Degrades
  <2>3. QED
    BY <2>1, <2>2
<1>9. QED
  BY <1>3, <1>4, <1>6, <1>8 DEF Settles

\* An answer that says an object was detached is recorded as degraded if the operator's deletion
\* of it stands when the answer is settled, wherever its authority is by then (_degradations).
THEOREM DetachmentsAreRecorded == ASSUME Tracked PROVE Spec => DetachIsRecorded
<1>1. TrackInv /\ HistoryInv /\ HistoryInv' /\ OutboxInv /\ OutboxInv' /\ [Next]_vars =>
        [\A w \in Workers : LET c == wk[w].claim IN
          (Answered(w, "ok") /\ wk'[w].pc = "idle" /\ state'.claim.seq = 0)
          => \A p \in far.lost : p[2] = c.seq /\ removal[p[1]] = "deleted" =>
                c.seq \in state'.degraded]_vars
  BY HistoryStep, DetachStep
<1>2. QED
  BY <1>1, AuthorityIsTracked, OutboxHistoryAgrees, DeliveryInvariant, PTL DEF Spec, DetachIsRecorded
-----------------------------------------------------------------------------
(* A route that is owned or was released is not deleted                    *)

LEMMA NoBodyIsBad ==
    ASSUME Unfaulted, NEW body
    PROVE  ~Bad(body)
BY DEF Unfaulted, Bad

LEMMA StandsStep ==
    ASSUME OutboxInv, HistoryInv, Unfaulted, StandsInv, Effects
    PROVE  StandsInv'
<1>. SUFFICES ASSUME NEW r \in Routes, Stands(r)'
              PROVE  /\ LastOp(Waiting', r) # "delete"
                     /\ r \in state'.queued \cup state'.claim.dels => LastOp(Waiting', r) = "revoke"
  BY DEF StandsInv
<1>1. NoClaim.dels = {} /\ (~Live => state.claim.dels = {})
  BY LastingTyped DEF OutboxInv, DeliveryInv, ClaimInv
<1>2. ~Bad(state.claim.body) /\ ~Bad(intent)
  BY NoBodyIsBad
<1>3. Stands(r) => /\ LastOp(Waiting, r) # "delete"
                   /\ r \in state.queued \cup state.claim.dels => LastOp(Waiting, r) = "revoke"
  BY DEF StandsInv
<1>4. CASE Writing
  <2>1. state' = state
    BY <1>4 DEF Writing
  <2>2. CASE RouteStays(r)
    BY <1>3, <2>1, <2>2 DEF RouteStays, Stands
  <2>3. CASE RouteAccepted(r)
    <3>1. LastOp(Waiting', r) = LastOp(Waiting, r)
      BY <2>3 DEF RouteAccepted
    <3>2. CASE intent[r] # 0
      BY <1>3, <2>1, <3>1, <3>2 DEF Stands
    <3>3. CASE intent[r] = 0
      <4>1. ~Pending(r)
        BY <2>3, <3>3 DEF RouteAccepted, Unfaulted
      <4>2. r \notin state.queued \cup state.claim.dels /\ ~Deletes(Everything, r)
        BY <4>1 DEF Pending, Everything
      <4>3. LastOp(Waiting, r) # "delete"
        BY <4>2, Rows DEF HistoryInv
      <4>4. QED
        BY <2>1, <3>1, <4>2, <4>3
    <3>4. QED
      BY <3>2, <3>3
  <2>4. CASE RouteReowned(r)
    BY <2>4 DEF RouteReowned
  <2>5. CASE RouteDeleted(r)
    BY <2>5 DEF RouteDeleted, Stands
  <2>6. CASE RouteReleased(r)
    BY <1>3, <2>1, <2>6 DEF RouteReleased, Stands
  <2>7. QED
    BY <1>4, <2>2, <2>3, <2>4, <2>5, <2>6 DEF Writing
<1>5. CASE \/ Passing \/ Acknowledging \/ Replying \/ Observing \/ Moving
           \/ \E c \in ClaimType : \E code, out : Serving(c, code, out)
  <2>1. /\ UNCHANGED ownerVars /\ state'.claim = state.claim /\ state'.queued = state.queued
        /\ LastOp(Waiting', r) = LastOp(Waiting, r)
    BY <1>5, RowsUnmoved
  <2>2. Stands(r)
    BY <2>1 DEF Stands, ownerVars
  <2>3. QED
    BY <1>3, <2>1, <2>2
<1>6. ASSUME NEW c \in ClaimType, Claiming(c)
      PROVE  /\ LastOp(Waiting', r) # "delete"
             /\ r \in state'.queued \cup state'.claim.dels => LastOp(Waiting', r) = "revoke"
  <2>1. Stands(r) /\ state'.claim = c
    BY <1>6 DEF Claiming, ownerVars, Stands
  <2>2. CASE TakingAll(c)
    <3>1. state'.queued = {} /\ LastOp(Waiting', r) = "none"
      BY <2>2, NoRows DEF TakingAll
    <3>2. r \notin c.dels
      BY <1>3, <2>1, <2>2 DEF TakingAll
    <3>3. QED
      BY <2>1, <3>1, <3>2
  <2>3. CASE TakingNone(c)
    <3>1. Waiting' = Waiting /\ state'.queued = state.queued /\ c.dels = {}
      BY <2>3 DEF TakingNone, Waiting, Ordinary, Unconsumed
    <3>2. QED
      BY <1>3, <2>1, <3>1
  <2>4. QED
    BY <1>6, <2>2, <2>3 DEF Claiming
<1>7. CASE GivingUp
  <2>1. /\ Stands(r) /\ state'.queued = state.queued \cup state.claim.dels /\ state'.claim.dels = {}
        /\ LastOp(Waiting', r) = Latest(r)
    BY <1>1, <1>2, <1>7 DEF GivingUp, RowsBack, RowsGone, ownerVars, Stands
  <2>2. LastOp(Consumed, r) = "delete" => r \in state.claim.dels
    BY DEF HistoryInv, ConsumedInv
  <2>3. QED
    BY <1>3, <2>1, <2>2 DEF Latest
<1>8. ASSUME NEW w \in Workers, Settles(w)
      PROVE  /\ LastOp(Waiting', r) # "delete"
             /\ r \in state'.queued \cup state'.claim.dels => LastOp(Waiting', r) = "revoke"
  <2>1. Stands(r) /\ Waiting' = Waiting /\ state'.queued = state.queued /\ state'.claim.dels = {}
    BY <1>1, <1>8 DEF Settles, ownerVars, Stands
  <2>2. QED
    BY <1>3, <2>1
<1>9. CASE Retires
  <2>1. state'.queued = {} /\ state'.claim.dels = {} /\ Waiting' = {}
    BY <1>1, <1>2, <1>9 DEF Retires
  <2>2. QED
    BY <2>1, NoRows
<1>10. CASE Leaving
  BY <1>10 DEF Leaving, Stands
<1>11. QED
  BY <1>4, <1>5, <1>6, <1>7, <1>8, <1>9, <1>10 DEF Effects

LEMMA DelsStep ==
    ASSUME OutboxInv, StandsInv, DelsInv, Effects
    PROVE  DelsInv'
<1>. SUFFICES ASSUME NEW c \in Lasting', NEW r \in c.dels
              PROVE  c.body[r] = 0 /\ c.why[r] # "released"
  BY DEF DelsInv
<1>1. c \in Lasting => c.body[r] = 0 /\ c.why[r] # "released"
  BY DEF DelsInv
<1>2. NoClaim.dels = {}
  BY LastingTyped
<1>3. ASSUME NEW d \in ClaimType, Claiming(d), c = d
      PROVE  c.body[r] = 0 /\ c.why[r] # "released"
  <2>1. c.body = intent /\ c.why = removal /\ r \in Routes
    BY <1>3 DEF Claiming, ClaimType
  <2>2. TakingAll(c)
    BY <1>3 DEF Claiming, TakingNone
  <2>3. LastOp(Waiting, r) = "delete" \/ (LastOp(Waiting, r) = "none" /\ r \in state.queued)
    BY <2>2 DEF TakingAll
  <2>4. ~Stands(r)
    BY <2>1, <2>3 DEF StandsInv
  <2>5. QED
    BY <2>1, <2>4 DEF Stands
<1>4. QED
  BY <1>1, <1>2, <1>3, LastingAfter, LastingGrows

LEMMA StandsBegins == Init => StandsInv /\ DelsInv
<1>. SUFFICES ASSUME Init
              PROVE  StandsInv /\ DelsInv
  OBVIOUS
<1>1. intent = Nothing /\ removal = [r \in Routes |-> "none"] /\ state.claim = NoClaim /\ net = {}
      /\ wk = [w \in Workers |-> Idle]
  BY DEF Init
<1>2. \A c \in Lasting : c.dels = {}
  BY <1>1 DEF Lasting, Copies, Idle, NoClaim
<1>3. \A r \in Routes : ~Stands(r)
  BY <1>1 DEF Stands, Nothing
<1>4. QED
  BY <1>2, <1>3 DEF StandsInv, DelsInv

\* No home of deletion authority outlives a re-ownership or an un-own: a row, the queue or a claim
\* names an owned route only under a re-ownership that waits, and no operation deletes what it
\* renders (fold_transitions, _schedule_intent_push).  A body the adapter refuses retires the
\* re-ownership with it, and an accept over a pending deletion records none: both are excepted.
THEOREM StandingRoutesAreNotDeleted == ASSUME Unfaulted PROVE Spec => [](StandsInv /\ DelsInv)
<1>1. StandsInv /\ DelsInv /\ HistoryInv /\ OutboxInv /\ OutboxInv' /\ [Next]_vars => (StandsInv /\ DelsInv)'
  BY HistoryStep, StandsStep, DelsStep
<1>2. QED
  BY <1>1, StandsBegins, OutboxHistoryAgrees, DeliveryInvariant, PTL DEF Spec
\* The store only takes younger operations, while the device stays.
LEMMA FarGrows ==
    ASSUME OutboxInv, Effects, ~Moving, ~Leaving
    PROVE  far'.seq \in Nat /\ far'.seq >= far.seq /\ mgmt'.device = mgmt.device
<1>1. far.seq \in Nat
  BY LastingTyped
<1>2. ASSUME NEW c \in ClaimType, NEW code, NEW out, Serving(c, code, out)
      PROVE  far'.seq \in Nat /\ far'.seq >= far.seq /\ mgmt'.device = mgmt.device
  <2>1. far'.seq = c.seq /\ c.seq > far.seq /\ c.seq \in Nat /\ mgmt' = mgmt
    BY <1>2 DEF Serving, Accepted, ClaimType
  <2>2. QED
    BY <1>1, <2>1
<1>3. CASE ~\E c \in ClaimType : \E code, out : Serving(c, code, out)
  <2>1. far'.seq = far.seq /\ mgmt'.device = mgmt.device
    BY <1>3 DEF Effects, Writing, Passing, Acknowledging, GivingUp, Retires, Replying, Observing, Settles, SameFar,
       Claiming
  <2>2. QED
    BY <1>1, <2>1
<1>4. QED
  BY <1>2, <1>3

\* An un-own that is on its way keeps a row unmarked, or nothing is left of it.
Spared(r) ==
    \/ Unmarked(Waiting)
    \/ Unmarked(Consumed) /\ state.claim.body[r] = 0
    \/ Gone(r, lastSeq)

LEMMA SparedStep ==
    ASSUME OutboxInv, OutboxInv', HistoryInv, Tracked, ~PerObject, Unfaulted, "offboard" \notin Events,
           CalmInv, BlankInv, MarkInv, Effects, NEW r \in Routes, mgmt'.link = "linked", removal'[r] = "released"
    PROVE  Spared(r)'
<1>1. "rebuild" \notin Events /\ ~Leaving /\ lastSeq \in Nat
  BY LastingTyped DEF Tracked, Leaving
<1>2. ASSUME Gone(r, lastSeq), \A c \in ClaimType : Claiming(c) => intent[r] = 0
      PROVE  Spared(r)'
  BY <1>1, <1>2, GoneForAll DEF Spared
<1>3. ASSUME mgmt.link = "linked", removal[r] = "released"
      PROVE  Spared(r) /\ intent[r] = 0
  BY <1>3 DEF MarkInv, Spared, HistoryInv, RemovalInv
<1>4. ~Bad(state.claim.body) /\ ~Bad(intent)
  BY NoBodyIsBad
<1>5. CASE Writing
  <2>1. /\ mgmt.link = "linked" /\ Consumed' = Consumed /\ state' = state
        /\ Unmarked(Waiting) => Unmarked(Waiting')
    BY <1>5 DEF Writing
  <2>2. CASE RouteStays(r)
    <3>1. Spared(r)
      BY <1>3, <2>1, <2>2 DEF RouteStays
    <3>2. \A c \in ClaimType : ~Claiming(c)
      BY <1>1, <1>5 DEF Writing, Claiming
    <3>3. QED
      BY <1>2, <2>1, <3>1, <3>2 DEF Spared
  <2>3. CASE RouteReleased(r)
    BY <2>1, <2>3 DEF RouteReleased, Spared
  <2>4. QED
    BY <1>5, <2>2, <2>3 DEF Writing, RouteAccepted, RouteReowned, RouteDeleted
<1>6. CASE Moving
  <2>1. PICK n : n = lastSeq'
    OBVIOUS
  <2>2. Gone(r, n)'
    BY <1>1, <1>6, MovedIsGone
  <2>3. QED
    BY <2>1, <2>2 DEF Spared, Gone
<1>7. CASE \/ Passing \/ Acknowledging \/ Replying \/ Observing
           \/ \E c \in ClaimType : \E code, out : Serving(c, code, out)
  <2>1. /\ UNCHANGED ownerVars /\ lastSeq' = lastSeq /\ Waiting' = Waiting /\ Consumed' = Consumed
        /\ state'.claim = state.claim
        /\ (Unmarked(Waiting') <=> Unmarked(Waiting)) /\ (Unmarked(Consumed') <=> Unmarked(Consumed))
    BY <1>7, RowsUnmoved, SameWords
  <2>2. mgmt.link = "linked" /\ removal[r] = "released"
    BY <1>7, <2>1 DEF Passing, Acknowledging, Replying, Observing, Serving, ownerVars
  <2>3. \A c \in ClaimType : ~Claiming(c)
    BY <1>1, <2>1 DEF Claiming
  <2>4. QED
    BY <1>2, <1>3, <2>1, <2>2, <2>3 DEF Spared
<1>8. CASE GivingUp
  <2>1. mgmt.link = "linked" /\ removal[r] = "released" /\ lastSeq' = lastSeq
    BY <1>8 DEF GivingUp, ownerVars
  <2>2. Unmarked(Waiting') <=> Unmarked(Waiting) \/ Unmarked(Consumed)
    BY <1>4, <1>8 DEF GivingUp, RowsBack, RowsGone
  <2>3. \A c \in ClaimType : ~Claiming(c)
    BY <1>1, <2>1 DEF Claiming
  <2>4. QED
    BY <1>2, <1>3, <2>1, <2>2, <2>3 DEF Spared
<1>9. ASSUME NEW w \in Workers, Settles(w)
      PROVE  Spared(r)'
  <2>1. mgmt.link = "linked" /\ removal[r] = "released" /\ lastSeq' = lastSeq /\ Waiting' = Waiting
    BY <1>9 DEF Settles, ownerVars
  <2>2. \A c \in ClaimType : ~Claiming(c)
    BY <1>1, <2>1 DEF Claiming
  <2>3. CASE Unmarked(Waiting)
    BY <2>1, <2>3 DEF Spared
  <2>4. CASE Unmarked(Consumed) /\ state.claim.body[r] = 0
    <3>1. state.claim.mode # "backfill"
      BY <2>4, NothingConsumed
    <3>2. \A c \in Lasting' : c \in Lasting \/ c = NoClaim
      BY <2>2, LastingAfter
    <3>3. Gone(r, lastSeq)'
      BY <1>9, <2>4, <3>1, <3>2, SettledIsGone
    <3>4. QED
      BY <3>3 DEF Spared
  <2>5. QED
    BY <1>2, <1>3, <2>1, <2>2, <2>3, <2>4 DEF Spared
<1>10. CASE Retires
  <2>1. mgmt.link = "linked" /\ removal[r] = "released" /\ lastSeq' = lastSeq /\ ~Live
    BY <1>10 DEF Retires, ownerVars
  <2>2. \A c \in ClaimType : ~Claiming(c)
    BY <1>1, <2>1 DEF Claiming
  <2>3. OnMapping(state.lastOk) /\ state.lastOk.mode = "normal" /\ state.lastOk.body = intent
    BY <1>4, <1>10 DEF Retires
  <2>4. Gone(r, lastSeq)
    BY <1>3, <1>10, <2>1, <2>3, UnchangedIsGone
  <2>5. QED
    BY <1>2, <2>2, <2>4
<1>11. ASSUME NEW c \in ClaimType, Claiming(c)
       PROVE  Spared(r)'
  <2>1. mgmt.link = "linked" /\ removal[r] = "released" /\ ~Live /\ c.body = intent /\ state'.claim = c
    BY <1>11 DEF Claiming, ownerVars
  <2>2. intent[r] = 0 /\ (Unmarked(Waiting) \/ Gone(r, lastSeq))
    BY <1>3, <2>1, NothingConsumed DEF Spared
  <2>3. CASE Unmarked(Waiting) /\ TakingAll(c)
    <3>1. Unmarked(Consumed')
      BY <2>3 DEF TakingAll
    <3>2. QED
      BY <2>1, <2>2, <3>1 DEF Spared
  <2>4. CASE Unmarked(Waiting) /\ TakingNone(c)
    <3>1. Waiting' = Waiting
      BY <2>4 DEF TakingNone, Waiting, Ordinary, Unconsumed
    <3>2. QED
      BY <2>4, <3>1 DEF Spared
  <2>5. QED
    BY <1>2, <1>11, <2>2, <2>3, <2>4 DEF Claiming
<1>12. QED
  BY <1>1, <1>5, <1>6, <1>7, <1>8, <1>9, <1>10, <1>11 DEF Effects

\* A marked claim is formed only where no un-own is on its way.
LEMMA MarkedFindsNothing ==
    ASSUME OutboxInv, OutboxInv', HistoryInv, Tracked, "offboard" \notin Events, MarkInv, Effects,
           NEW c \in ClaimType, Claiming(c), c.mark, NEW r \in Routes, c.why[r] = "released"
    PROVE  Gone(r, c.seq)'
<1>1. "rebuild" \notin Events /\ ~Leaving
  BY DEF Tracked, Leaving
<1>2. mgmt.link = "linked" /\ removal[r] = "released" /\ ~Live /\ c.seq = lastSeq'
  BY DEF Claiming
<1>3. ~Unmarked(Waiting)
  BY DEF Claiming, TakingAll, TakingNone
<1>4. ~Unmarked(Consumed)
  BY <1>2, NothingConsumed
<1>5. Gone(r, lastSeq) /\ intent[r] = 0
  BY <1>2, <1>3, <1>4 DEF MarkInv, HistoryInv, RemovalInv
<1>6. Gone(r, lastSeq)'
  BY <1>1, <1>5, GoneForAll
<1>7. QED
  BY <1>2, <1>6 DEF Gone

LEMMA MarkStep ==
    ASSUME OutboxInv, OutboxInv', HistoryInv, Tracked, ~PerObject, Unfaulted, "offboard" \notin Events,
           CalmInv, BlankInv, MarkInv, Effects
    PROVE  MarkInv'
<1>1. "rebuild" \notin Events /\ ~Leaving /\ lastSeq \in Nat /\ far.seq \in Nat /\ ~NoClaim.mark
      /\ \A c \in Lasting : c.seq \in Nat /\ c.seq <= lastSeq
  BY LastingTyped DEF Tracked, Leaving
<1>2. ASSUME NEW c \in Lasting', c.mark
      PROVE  \/ c \in Lasting
             \/ c \in ClaimType /\ Claiming(c)
  BY <1>1, <1>2, LastingAfter, LastingGrows
<1>3. \A c \in Lasting' : c.mark => c.mode = "normal"
  BY <1>2 DEF MarkInv, Claiming, TakingAll, TakingNone
<1>4. ASSUME NEW c \in Lasting', c.mark, c.device = mgmt'.device, c.seq > far'.seq, NEW r \in Routes,
             c.why[r] = "released"
      PROVE  Gone(r, c.seq)'
  <2>1. CASE c \in ClaimType /\ Claiming(c)
    BY <1>4, <2>1, MarkedFindsNothing
  <2>2. CASE c \in Lasting
    <3>1. PICK n \in Nat : n = c.seq
      BY <1>1, <2>2
    <3>2. CASE Moving
      <4>1. Gone(r, n)'
        BY <1>1, <3>2, MovedIsGone
      <4>2. QED
        BY <3>1, <4>1 DEF Gone
    <3>3. CASE ~Moving
      <4>1. far'.seq \in Nat /\ far'.seq >= far.seq /\ mgmt'.device = mgmt.device
        BY <1>1, <3>3, FarGrows
      <4>2. c.seq > far.seq
        BY <1>1, <1>4, <2>2, <4>1
      <4>3. Gone(r, n)
        BY <1>4, <2>2, <3>1, <4>1, <4>2 DEF MarkInv, Gone
      <4>4. n <= lastSeq
        BY <1>1, <2>2, <3>1
      <4>5. \A d \in ClaimType : \A code, out : Serving(d, code, out) => d.seq <= n
        <5>1. ASSUME NEW d \in ClaimType, NEW code, NEW out, Serving(d, code, out)
              PROVE  d.seq <= n
          <6>1. far'.seq = d.seq
            BY <5>1 DEF Serving, Accepted
          <6>2. QED
            BY <1>4, <3>1, <4>1, <6>1
        <5>2. QED
          BY <5>1
      <4>6. Gone(r, n)'
        BY <1>1, <4>3, <4>4, <4>5, GoneThrough
      <4>7. QED
        BY <3>1, <4>6 DEF Gone
    <3>4. QED
      BY <3>2, <3>3
  <2>3. QED
    BY <1>2, <1>4, <2>1, <2>2
<1>5. mgmt'.link = "linked" => \A r \in Routes : removal'[r] = "released" => Spared(r)'
  BY SparedStep
<1>6. QED
  BY <1>3, <1>4, <1>5 DEF MarkInv, Spared

LEMMA MarkBegins == Init => MarkInv
<1>. SUFFICES ASSUME Init
              PROVE  MarkInv
  OBVIOUS
<1>1. removal = [r \in Routes |-> "none"] /\ state.claim = NoClaim /\ net = {} /\ wk = [w \in Workers |-> Idle]
  BY DEF Init
<1>2. \A c \in Lasting : ~c.mark
  BY <1>1 DEF Lasting, Copies, Idle, NoClaim
<1>3. QED
  BY <1>1, <1>2 DEF MarkInv

\* What each step leaves of the record of retractions nobody asked for.
LEMMA TakenStep ==
    ASSUME OutboxInv, DelsInv, ~PerObject => MarkInv, Effects, UnownedIsNeverRetracted
    PROVE  UnownedIsNeverRetracted'
<1>1. far.taken = {} /\ BlankStore.taken = {}
  BY DEF UnownedIsNeverRetracted, BlankStore
<1>2. ASSUME NEW c \in ClaimType, NEW code, NEW out, Serving(c, code, out)
      PROVE  far'.taken = {}
  <2>1. c \in Lasting /\ c.device = mgmt.device /\ c.seq > far.seq
    BY <1>2 DEF Serving, Lasting
  <2>2. ASSUME NEW r \in Retracted(c), c.why[r] = "released"
        PROVE  FALSE
    <3>1. CASE PerObject
      <4>1. r \in c.dels
        BY <2>2, <3>1 DEF Retracted
      <4>2. QED
        BY <2>1, <2>2, <4>1 DEF DelsInv
    <3>2. CASE ~PerObject
      <4>1. c.mark /\ r \in Routes /\ far.held[r] # 0
        BY <2>2, <3>2 DEF Retracted, Dropped
      <4>2. Gone(r, c.seq)
        BY <2>1, <2>2, <3>2, <4>1 DEF MarkInv
      <4>3. QED
        BY <4>1, <4>2 DEF Gone
    <3>3. QED
      BY <3>1, <3>2
  <2>3. far'.taken = {r \in far.taken : c.body[r] = 0} \cup {r \in Retracted(c) \ out : c.why[r] = "released"}
    BY <1>2 DEF Serving, Accepted
  <2>4. QED
    BY <1>1, <2>2, <2>3
<1>3. QED
  BY <1>1, <1>2 DEF Effects, Writing, Passing, Acknowledging, GivingUp, Retires, Replying, Observing, Moving,
     Leaving, Settles, SameFar, Claiming, UnownedIsNeverRetracted

LEMMA NothingTakenAtFirst == Init => UnownedIsNeverRetracted
<1>. SUFFICES ASSUME Init
              PROVE  UnownedIsNeverRetracted
  OBVIOUS
<1>1. PICK s \in {FALSE, PerObject /\ "shut" \in Events} : far = [BlankStore EXCEPT !.shut = s]
  BY DEF Init
<1>2. far.taken = BlankStore.taken
  BY <1>1 DEF BlankStore
<1>3. QED
  BY <1>2 DEF BlankStore, UnownedIsNeverRetracted

\* An object that was un-owned is never retracted from the device, whatever it was folded,
\* replayed or compacted with: by the ids of a claim, or where no object is named by its mark
\* (_schedule_intent_push, _contribution_marks).  A mark does not say whose deletion it carries, so
\* where no object is named the key must not be offboarded and linked again under a sender.
THEOREM UnownedIsKept ==
    ASSUME Unfaulted, PerObject \/ (Tracked /\ "offboard" \notin Events)
    PROVE  Spec => []UnownedIsNeverRetracted
<1>1. CASE PerObject
  <2>1. UnownedIsNeverRetracted /\ DelsInv /\ HistoryInv /\ OutboxInv /\ OutboxInv' /\ [Next]_vars
          => UnownedIsNeverRetracted'
    BY <1>1, HistoryStep, TakenStep
  <2>2. QED
    BY <2>1, NothingTakenAtFirst, StandingRoutesAreNotDeleted, OutboxHistoryAgrees, DeliveryInvariant, PTL DEF Spec
<1>2. CASE ~PerObject
  <2>1. MarkInv /\ TrackInv /\ HistoryInv /\ OutboxInv /\ OutboxInv' /\ [Next]_vars => MarkInv'
    BY <1>2, HistoryStep, MarkStep DEF TrackInv
  <2>2. UnownedIsNeverRetracted /\ MarkInv /\ DelsInv /\ HistoryInv /\ OutboxInv /\ OutboxInv' /\ [Next]_vars
          => UnownedIsNeverRetracted'
    BY <1>2, HistoryStep, TakenStep
  <2>3. Tracked
    BY <1>2
  <2>4. Spec => []TrackInv
    BY <2>3, AuthorityIsTracked
  <2>5. QED
    BY <2>1, <2>2, <2>4, MarkBegins, NothingTakenAtFirst, StandingRoutesAreNotDeleted, OutboxHistoryAgrees,
       DeliveryInvariant, PTL DEF Spec
<1>3. QED
  BY <1>1, <1>2
-----------------------------------------------------------------------------
(* A re-ownership stops the send                                           *)

\* Who works after a step: nobody, or who worked before, or one who took a free lease.
NobodyWorks == \A w \in Workers : wk'[w].pc = "idle"
SameAtWork ==
    /\ state'.claim = state.claim /\ (state.leased => state'.leased)
    /\ \A w \in Workers : wk'[w].pc # "idle" => wk[w].pc # "idle" /\ wk'[w].claim = wk[w].claim
OneBegins(w) ==
    /\ ~state.leased /\ state'.leased /\ Live' /\ wk'[w].claim = state'.claim
    /\ \A v \in Workers : v # w => wk'[v] = wk[v]

LEMMA FreedAlone ==
    ASSUME TypeOK, AtWorkInv, NEW w \in Workers, wk[w].pc # "idle", Free(w)
    PROVE  NobodyWorks
<1>1. \A v \in Workers : v # w => wk'[v] = wk[v]
  BY DEF Free, TypeOK
<1>2. wk'[w] = Idle
  BY DEF Free, TypeOK
<1>3. \A v \in Workers : v # w => wk[v].pc = "idle"
  BY DEF AtWorkInv
<1>4. QED
  BY <1>1, <1>2, <1>3 DEF NobodyWorks, Idle

LEMMA HeldByOne ==
    ASSUME TypeOK, NEW w \in Workers, NEW c, Holds(w, c)
    PROVE  wk'[w].claim = c /\ \A v \in Workers : v # w => wk'[v] = wk[v]
<1>1. wk'[w] = [Idle EXCEPT !.pc = "claimed", !.claim = c]
  BY DEF Holds, TypeOK
<1>2. wk'[w].claim = c
  BY <1>1 DEF Idle
<1>3. QED
  BY <1>2 DEF Holds, TypeOK

LEMMA ClaimingAtWork ==
    ASSUME OutboxInv, AtWorkInv, NEW w \in Workers, NEW mode, NEW force, ClaimKey(w, mode, force)
    PROVE  NobodyWorks \/ SameAtWork \/ OneBegins(w)
<1>1. ~state.leased /\ state \in StateType /\ TypeOK /\ lastSeq \in Nat
  BY Typed DEF ClaimKey, Claimable, OutboxInv
<1>2. CASE Takeover(w)
  <2>1. Live /\ state' = [state EXCEPT !.leased = TRUE] /\ Holds(w, state.claim)
    BY <1>2 DEF Takeover, Live
  <2>2. state'.leased /\ state'.claim = state.claim
    BY <1>1, <2>1 DEF StateType
  <2>3. QED
    BY <1>1, <2>1, <2>2, HeldByOne DEF OneBegins, Live
<1>3. CASE TakeoverAbandon(w) \/ Drop(force) \/ CaptureRefused(force)
  <2>1. wk' = wk
    BY <1>3 DEF TakeoverAbandon, Drop, CaptureRefused
  <2>2. QED
    BY <1>1, <2>1 DEF AtWorkInv, NobodyWorks
<1>4. CASE Form(w, force)
  <2>1. PICK q, v : state' = [state EXCEPT !.claim = Folded, !.leased = TRUE, !.queued = q, !.revoked = v]
    BY <1>4 DEF Form
  <2>2. state'.leased /\ state'.claim = Folded
    BY <1>1, <2>1 DEF StateType
  <2>3. Folded.seq = lastSeq + 1
    BY DEF Folded, NewClaim
  <2>4. Holds(w, Folded)
    BY <1>4 DEF Form
  <2>5. QED
    BY <1>1, <2>2, <2>3, <2>4, HeldByOne DEF OneBegins, Live
<1>5. CASE FormStoreOnly(w) \/ FormBackfill(w)
  <2>1. PICK m : TakeSnapshot(w, m)
    BY <1>5 DEF FormStoreOnly, FormBackfill
  <2>2. PICK c : c = NewClaim(m, {}, FALSE, FALSE)
    OBVIOUS
  <2>3. state' = [state EXCEPT !.claim = c, !.leased = TRUE] /\ Holds(w, c)
    BY <2>1, <2>2 DEF TakeSnapshot
  <2>4. state'.leased /\ state'.claim = c
    BY <1>1, <2>3 DEF StateType
  <2>5. c.seq = lastSeq + 1
    BY <2>2 DEF NewClaim
  <2>6. QED
    BY <1>1, <2>3, <2>4, <2>5, HeldByOne DEF OneBegins, Live
<1>6. QED
  BY <1>2, <1>3, <1>4, <1>5 DEF ClaimKey

LEMMA AnswerAtWork ==
    ASSUME TypeOK, NEW m \in net, NEW code, NEW out, Answer(m, code, out)
    PROVE  SameAtWork
<1>1. state' = state /\ m.w \in Workers
  BY DEF Answer, TypeOK
<1>2. CASE wk' = wk
  BY <1>1, <1>2 DEF SameAtWork
<1>3. CASE wk' # wk
  <2>1. wk[m.w].pc = "sent"
    BY <1>3 DEF Answer
  <2>2. wk' = [wk EXCEPT ![m.w] = wk'[m.w]] /\ wk'[m.w].claim = wk[m.w].claim
    BY <1>1, <1>3 DEF Answer, TypeOK, WorkerType
  <2>3. \A v \in Workers : v # m.w => wk'[v] = wk[v]
    BY <2>2 DEF TypeOK
  <2>4. QED
    BY <1>1, <2>1, <2>2, <2>3 DEF SameAtWork
<1>4. QED
  BY <1>2, <1>3

LEMMA EveryoneAtWork ==
    ASSUME OutboxInv, AtWorkInv, "expire" \notin Events, "offboard" \notin Events, [Next]_vars
    PROVE  NobodyWorks \/ SameAtWork \/ \E w \in Workers : OneBegins(w)
<1>1. TypeOK /\ state \in StateType
  BY Typed DEF OutboxInv
<1>2. CASE state' = state /\ wk' = wk
  BY <1>2 DEF SameAtWork
<1>3. CASE Operator \/ Audit \/ Compact \/ UNCHANGED vars
  <2>1. state' = state /\ wk' = wk
    BY <1>3 DEF Operator, AcceptOrEdit, Reown, Delete, Release, Bypass, Write, Audit, Compact, vars
  <2>2. QED
    BY <1>2, <2>1
<1>4. ASSUME NEW w \in Workers, NEW mode \in AskedModes, NEW force \in Forces, ClaimKey(w, mode, force)
      PROVE  NobodyWorks \/ SameAtWork \/ OneBegins(w)
  BY <1>4, ClaimingAtWork
<1>5. ASSUME NEW w \in Workers, Park(w) \/ AbandonBeforeSend(w) \/ Outcome(w) \/ Crash(w)
      PROVE  NobodyWorks
  <2>1. wk[w].pc # "idle" /\ Free(w)
    BY <1>5 DEF Park, AbandonBeforeSend, Outcome, Settle, RecordFailure, Withhold, Dissolve, Superseded, Answered,
       Crash
  <2>2. QED
    BY <1>1, <2>1, FreedAlone
<1>6. ASSUME NEW w \in Workers, Transmit(w)
      PROVE  SameAtWork
  <2>1. state' = state /\ wk[w].pc = "claimed" /\ wk' = [wk EXCEPT ![w].pc = "sent"]
    BY <1>6 DEF Transmit
  <2>2. wk'[w].claim = wk[w].claim /\ \A v \in Workers : v # w => wk'[v] = wk[v]
    BY <1>1, <2>1 DEF TypeOK, WorkerType
  <2>3. QED
    BY <2>1, <2>2 DEF SameAtWork
<1>7. CASE Adapter
  <2>1. PICK m \in net : \E code, out : Answer(m, code, out)
    BY <1>7 DEF Adapter, AdapterHandles, AnswerElsewhere, AnswerReceipt, AnswerFenceShut, AnswerInvalid, Apply
  <2>2. QED
    BY <1>1, <2>1, AnswerAtWork
<1>8. CASE LeaseExpires
  <2>1. wk' = wk /\ \A w \in Workers : wk[w].pc = "idle"
    BY <1>8 DEF LeaseExpires
  <2>2. QED
    BY <2>1 DEF NobodyWorks
<1>9. CASE AcknowledgeDegraded
  <2>1. wk' = wk /\ state'.claim = state.claim /\ state'.leased = state.leased
    BY <1>1, <1>9 DEF AcknowledgeDegraded, StateType
  <2>2. QED
    BY <2>1 DEF SameAtWork
<1>10. CASE Unlink \/ Link \/ Rebuild \/ AdoptIncarnation \/ AdoptSourceEpoch
  BY <1>2, <1>10 DEF Unlink, Link, Rebuild, AdoptIncarnation, AdoptSourceEpoch
<1>11. CASE Offboard
  BY <1>11 DEF Offboard
<1>12. QED
  BY <1>3, <1>4, <1>5, <1>6, <1>7, <1>8, <1>9, <1>10, <1>11 DEF Next, Draining, Environment

LEMMA AtWorkStep ==
    ASSUME AtWorkInv, NobodyWorks \/ SameAtWork \/ \E w \in Workers : OneBegins(w)
    PROVE  AtWorkInv'
<1>1. CASE NobodyWorks
  BY <1>1 DEF NobodyWorks, AtWorkInv
<1>2. CASE SameAtWork
  BY <1>2 DEF SameAtWork, AtWorkInv, Live
<1>3. ASSUME NEW w \in Workers, OneBegins(w)
      PROVE  AtWorkInv'
  <2>1. \A v \in Workers : wk[v].pc = "idle"
    BY <1>3 DEF OneBegins, AtWorkInv
  <2>2. \A v \in Workers : wk'[v].pc # "idle" => v = w
    BY <1>3, <2>1 DEF OneBegins
  <2>3. QED
    BY <1>3, <2>2 DEF OneBegins, AtWorkInv
<1>4. QED
  BY <1>1, <1>2, <1>3

\* Only a sender puts a request on the wire, and it sends the claim it holds.
LEMMA OnlySendersSend ==
    ASSUME TypeOK, [Next]_vars, NEW m \in net' \ net
    PROVE  \E w \in Workers : Transmit(w) /\ m.claim = wk[w].claim
<1>1. CASE \E w \in Workers : Transmit(w)
  <2>1. PICK w \in Workers : Transmit(w)
    BY <1>1
  <2>2. m = [w |-> w, claim |-> wk[w].claim]
    BY <2>1 DEF Transmit
  <2>3. QED
    BY <2>1, <2>2
<1>2. CASE ~\E w \in Workers : Transmit(w)
  <2>1. ~(net' \subseteq net)
    OBVIOUS
  <2>2. CASE Operator \/ Audit \/ Compact \/ UNCHANGED vars
    BY <2>1, <2>2 DEF Operator, AcceptOrEdit, Reown, Delete, Release, Bypass, Write, Audit, Compact, vars
  <2>3. ASSUME NEW w \in Workers, NEW mode \in AskedModes, NEW force \in Forces, ClaimKey(w, mode, force)
        PROVE  FALSE
    BY <2>1, <2>3 DEF ClaimKey, Takeover, TakeoverAbandon, Form, Drop, CaptureRefused, FormStoreOnly, FormBackfill,
       TakeSnapshot
  <2>4. ASSUME NEW w \in Workers, Park(w) \/ AbandonBeforeSend(w) \/ Outcome(w) \/ Crash(w)
        PROVE  FALSE
    BY <2>1, <2>4 DEF Park, AbandonBeforeSend, Outcome, Settle, RecordFailure, Withhold, Dissolve, Superseded, Crash
  <2>5. CASE Adapter
    <3>1. PICK a \in net : \E code, out : Answer(a, code, out)
      BY <2>5 DEF Adapter, AdapterHandles, AnswerElsewhere, AnswerReceipt, AnswerFenceShut, AnswerInvalid, Apply
    <3>2. net' \subseteq net
      BY <3>1 DEF Answer
    <3>3. QED
      BY <2>1, <3>2
  <2>6. CASE \/ LeaseExpires \/ AcknowledgeDegraded \/ Unlink \/ Link \/ Rebuild
             \/ AdoptIncarnation \/ AdoptSourceEpoch \/ Offboard
    BY <2>1, <2>6 DEF LeaseExpires, AcknowledgeDegraded, Unlink, Link, Rebuild, AdoptIncarnation, AdoptSourceEpoch,
       Offboard
  <2>7. QED
    BY <1>2, <2>2, <2>3, <2>4, <2>5, <2>6 DEF Next, Draining, Environment
<1>3. QED
  BY <1>1, <1>2

\* A route that is owned again stops the sender that would delete it.
LEMMA SendStep ==
    ASSUME OutboxInv, HistoryInv, StandsInv, AtWorkInv, NEW w \in Workers, Transmit(w), NEW r \in wk[w].claim.dels
    PROVE  intent[r] = 0
<1>1. wk[w].claim = state.claim /\ ~RevocationHit(wk[w].claim)
  BY DEF Transmit, AtWorkInv
<1>2. r \in Routes /\ r \in state.claim.dels
  <2>1. state.claim \in ClaimType
    BY Typed DEF OutboxInv
  <2>2. QED
    BY <1>1, <2>1 DEF ClaimType
<1>3. ASSUME intent[r] # 0
      PROVE  FALSE
  <2>1. LastOp(Waiting, r) = "revoke"
    BY <1>2, <1>3 DEF StandsInv, Stands
  <2>2. r \in Withdrawn(Waiting)
    BY <1>2, <2>1, Rows DEF HistoryInv
  <2>3. r \in Withdrawn(Unconsumed)
    BY <2>2 DEF Withdrawn, Waiting, Ordinary
  <2>4. QED
    BY <1>1, <1>2, <2>3 DEF RevocationHit
<1>4. QED
  BY <1>3

\* A re-ownership committed before the pre-send scan stops the send: no request leaves with
\* authority over a route that is owned again by then (revocation_hit).  A sender whose lease ran
\* out, or whose device was offboarded and linked again, may hold a claim that is no longer the
\* key's: the scan of the key's rows does not speak for it.
THEOREM NothingOwnedIsSentForDeletion ==
    ASSUME Unfaulted, "expire" \notin Events, "offboard" \notin Events
    PROVE  Spec => ReownershipStopsTheSend
<1>1. Init => AtWorkInv
  BY DEF Init, AtWorkInv, Idle
<1>2. AtWorkInv /\ OutboxInv /\ OutboxInv' /\ [Next]_vars => AtWorkInv'
  BY EveryoneAtWork, AtWorkStep
<1>3. AtWorkInv /\ StandsInv /\ HistoryInv /\ OutboxInv /\ OutboxInv' /\ [Next]_vars
        => [\A m \in net' \ net : \A r \in m.claim.dels : intent[r] = 0]_vars
  BY OnlySendersSend, SendStep DEF OutboxInv
<1>4. QED
  BY <1>1, <1>2, <1>3, StandingRoutesAreNotDeleted, OutboxHistoryAgrees, DeliveryInvariant, PTL
     DEF Spec, ReownershipStopsTheSend
=============================================================================
