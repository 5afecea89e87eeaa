----------------------------- MODULE LfSmrBooks -----------------------------
(***************************************************************************)
(* The Hyaline library frees a batch exactly when nobody refers to it any  *)
(* more, and no block that a thread still holds, for any number of         *)
(* threads, slots, blocks, cells and epochs and for every build of it.     *)
(* What leave, trim and retire read has not been freed; every counter has  *)
(* the value that its references and the missing addends give; the batches *)
(* that are about to be freed are not touched; no retired node is          *)
(* forgotten: these follow from Books, whose parts LfSmrProofs defines and *)
(* whose steps are taken one by one there and here: retire pushes with     *)
(* heads of two words (Covers) or of one (Adds), an adjustment is made     *)
(* (Adjusts), a node is dropped (Drops), batches are freed (Frees), a node *)
(* is collected (Gathers). That the slots cover what the threads read,     *)
(* that a stalled thread holds few batches back, and that Hyaline          *)
(* implements module Reclamation follows from Books and Shield, which says *)
(* of every block that a thread holds whose reference keeps it (Guarded).  *)
(* The counters of the slots of Hyaline-S are exact by Acked, and the node *)
(* with the counter of a batch is not pushed by Enough or, with more slots *)
(* than threads, by Lonely: no thread moves from its slot, for none finds  *)
(* its counter above zero. Books, Acked and Lonely are kept together.      *)
(***************************************************************************)
EXTENDS LfSmrProofs

USE ClientAssumption, HyalineAssumption

-----------------------------------------------------------------------------
(***************************************************************************)
(* The counters after the push with heads of two words.                    *)
(***************************************************************************)

\* It misses as many as before: the new head misses its own.
LEMMA CoversMissing ==
  ASSUME Books, NEW t \in Tasks, NEW s, NEW n, Covers(t, s, n), AllPushes', NEW q \in Objs
  PROVE  Missing(q)' = Missing(q)
<1> DEFINE b == head[s].ptr
           x == IF q = link[n] THEN 1 ELSE 0
           y == IF b # NULL /\ link[b] = q THEN 1 ELSE 0
           H == Cardinality(HeadsOf(q))
           I == Cardinality(HeadsOf(q))'
           D == Cardinality(DuesOf(q))
           E == Cardinality(DuesOf(q))'
           U == Unadded(q)
           V == Unadded(q)'
<1>1. /\ Sound /\ build' = build /\ link' = link /\ s \in Slots /\ Slots' = Slots
      /\ head'[s].ptr = n /\ \A z \in Slots : z # s => head'[z] = head[z]
      /\ n \in Objs /\ link[n] \in Objs
  <2>1. Lays(t, s, n) /\ Sound
    BY DEF Covers, Lays, Stays
  <2>2. link \in [Objs -> Objs]
    BY <2>1, SoundParts DEF SharedTypeOK
  <2> QED
    BY <2>1, <2>2, LaysNode, LaysOwed
<1>2. n # NULL /\ link' = link
  BY <1>1 DEF Ptrs
<1>3. x \in Int /\ y \in Int
  OBVIOUS
<1>4. H \in Nat /\ I \in Nat /\ I - H = x - y
  <2>1. \A z \in Slots : z # s => (z \in HeadsOf(q) <=> z \in HeadsOf(q)')
    BY <1>1 DEF HeadsOf
  <2>2. (s \in HeadsOf(q)' <=> q = link[n]) /\ (s \in HeadsOf(q) <=> b # NULL /\ link[b] = q)
    BY <1>1, <1>2 DEF HeadsOf
  <2>3. One(s \in HeadsOf(q)') = x /\ One(s \in HeadsOf(q)) = y
    BY <2>2 DEF One
  <2> HIDE DEF x, y
  <2>4. H \in Nat /\ I \in Nat /\ I - H = One(s \in HeadsOf(q)') - One(s \in HeadsOf(q))
    BY <1>1, <2>1, HeadsMove
  <2> QED
    BY <2>3, <2>4, ZenonT(40)
<1>5. D \in Nat /\ E \in Nat /\ E - D = y
  <2>1. /\ ~Due(t) /\ (Due(t)' <=> b # NULL) /\ (b # NULL => rt'[t].node = b)
        /\ \A u \in Tasks : u # t => (Due(u)' <=> Due(u)) /\ rt'[u] = rt[u]
    BY CoversPlay DEF Covers
  <2>2. \A u \in Tasks : u # t => (u \in DuesOf(q) <=> u \in DuesOf(q)')
    BY <1>1, <2>1 DEF DuesOf
  <2>3. t \notin DuesOf(q) /\ (t \in DuesOf(q)' <=> b # NULL /\ link[b] = q)
    BY <1>1, <2>1 DEF DuesOf
  <2>4. One(t \in DuesOf(q)') = y /\ One(t \in DuesOf(q)) = 0
    BY <2>3 DEF One
  <2>5. y - 0 = y
    BY <1>3
  <2> HIDE DEF x, y
  <2>6. D \in Nat /\ E \in Nat /\ E - D = One(t \in DuesOf(q)') - One(t \in DuesOf(q))
    BY <2>2, DuesMove
  <2> QED
    BY <2>4, <2>5, <2>6, ZenonT(40)
<1>6. U \in Nat /\ V \in Nat /\ V - U = 0 - x
  BY CoversLacks
<1>7. Missing(q) = H + D + U /\ Missing(q)' = I + E + V
  BY MissingIs DEF Missing, HeadsOf, DuesOf, Unadded, Due
<1> HIDE DEF x, y, H, I, D, E, U, V
<1>8. I + E + V = H + D + U
  BY ONLY <1>3, <1>4, <1>5, <1>6
<1> QED
  BY <1>7, <1>8

\* Every counter is still exact.
LEMMA CoversBooks ==
  ASSUME Books, NEW t \in Tasks, NEW s, NEW n, Covers(t, s, n), AllPushes'
  PROVE  Room' /\ Counted'
<1> DEFINE b == head[s].ptr
<1>1. /\ Sound /\ Sound' /\ build' = build /\ link' = link /\ build.words = 2
      /\ NumSlots' = NumSlots /\ Addend' = Addend /\ refs' = refs /\ IsFiniteSet(Objs)
      /\ \A u \in Tasks : u # t => SameLedger(u)
  BY BooksParts, StaysFacts DEF Covers, Lays, Stays
<1>2. Lasts' = Lasts /\ Lasts \subseteq Objs
  BY CoversStruct, LastsObjs DEF Books
<1>3. n \in Objs /\ n \notin InPlay
  BY LaysNode DEF Covers
<1>4. ASSUME NEW q \in Lasts PROVE Settled(q)' /\ Roomy(q)'
  <2>0. q \in Objs
    BY <1>2
  <2>1. Settled(q) /\ Roomy(q)
    BY CountedIs DEF Books
  <2> DEFINE k == IF b # NULL /\ link[b] = q THEN head[s].ref ELSE 0
             D == Cardinality(Debts(q))
             E == Cardinality(Debts(q))'
             L == Cardinality(Late(q))
             M == Cardinality(Late(q))'
  <2>2. D \in Nat /\ E \in Nat /\ E - D = k
    BY <2>0, CoversDebts
  <2>3. L \in Nat /\ M \in Nat /\ M - L = k
    <3>1. \A u \in Tasks : u # t => Withheld(u, q)' = Withheld(u, q)
      BY <1>1, <2>0 DEF SameLedger
    <3>2. Withheld(t, q) = 0 /\ Withheld(t, q)' = k
      BY <2>0, CoversLedger
    <3>3. /\ L \in Nat /\ M \in Nat /\ Withheld(t, q)' \in Nat
          /\ M - L = Withheld(t, q)' - Withheld(t, q)
      BY <1>1, <2>0, <3>1, LateMove
    <3> HIDE DEF k, L, M
    <3> QED
      BY <3>2, <3>3
  <2>4. Missing(q)' = Missing(q)
    BY <2>0, CoversMissing
  <2>5. E - M = D - L
    <3>1. k \in Int
      BY <2>2
    <3> HIDE DEF k, D, E, L, M
    <3> QED
      BY ONLY <2>2, <2>3, <3>1
  <2>6. Worth(q)' = Worth(q)
    <3>1. Worth(q)' = E - M - Addend * Missing(q)
      BY <1>1, <2>4 DEF Worth
    <3>2. Worth(q) = D - L - Addend * Missing(q)
      BY <1>1 DEF Worth
    <3> HIDE DEF D, E, L, M
    <3> QED
      BY <2>5, <3>1, <3>2
  <2>7. Settled(q)'
    BY <1>1, <2>1, <2>6 DEF Settled
  <2>8. Unadded(q)' + Cardinality(Nodes(q))' <= NumSlots
    <3> DEFINE U == Unadded(q)
               V == Unadded(q)'
               N == Nodes(q)
    <3>1. /\ U \in Nat /\ V \in Nat
          /\ V - U = IF q = link[n] THEN -1 ELSE 0
      BY <2>0, CoversLacks
    <3>2. U + Cardinality(N) <= NumSlots /\ NumSlots \in Nat
      BY <1>1, <2>1, AtFacts DEF Roomy
    <3>3. IsFiniteSet(N) /\ Cardinality(N) \in Nat /\ n \notin N
      <4>1. N \subseteq Objs
        BY <1>1, InPlayType DEF Nodes
      <4>2. IsFiniteSet(N)
        BY <1>1, <4>1, FS_Subset
      <4>3. n \notin N
        BY <1>3 DEF Nodes
      <4> QED
        BY <4>2, <4>3, FS_CardinalityType
    <3>4. Nodes(q)' = N \union (IF q = link[n] THEN {n} ELSE {})
      BY CoversPlay
    <3>5. Cardinality(Nodes(q))' = Cardinality(N) + (IF q = link[n] THEN 1 ELSE 0)
      <4>1. CASE q = link[n]
        <5>1. Nodes(q)' = N \union {n}
          BY <3>4, <4>1
        <5>2. Cardinality(N \union {n}) = Cardinality(N) + 1
          BY <3>3, FS_AddElement
        <5> QED
          BY <4>1, <5>1, <5>2
      <4>2. CASE q # link[n]
        BY <3>3, <3>4, <4>2
      <4> QED
        BY <4>1, <4>2
    <3> HIDE DEF U, V, N
    <3> QED
      BY <3>1, <3>2, <3>3, <3>5 DEF V
  <2>9. Roomy(q)'
    BY <1>1, <2>8 DEF Roomy
  <2> QED
    BY <2>7, <2>9
<1> QED
  BY <1>2, <1>4 DEF Counted, Room, Settled, Worth, Roomy

-----------------------------------------------------------------------------
(***************************************************************************)
(* The push with heads of two words keeps the invariant.                   *)
(***************************************************************************)

\* The node pushed is one more that retire can go by.
LEMMA CoversOwn ==
  ASSUME Books, NEW t \in Tasks, NEW s, NEW n, Covers(t, s, n)
  PROVE  Owns(t)'
<1>1. /\ Lays(t, s, n) /\ build.words = 2 /\ pc[t] = "rt_cas" /\ s = at[t]
      /\ pc'[t] \in {"rt_adj", "rt_count"} /\ at'[t] = at[t]
      /\ rt'[t].todo = rt[t].todo /\ rt'[t].first = rt[t].first
      /\ rt'[t].adjs = rt[t].adjs /\ rt'[t].skipped = rt[t].skipped /\ vec' = vec
  BY DEF Covers, Lays
<1>2. /\ Retiring(t)' = Retiring(t) /\ link[n] = Retiring(t) /\ n # NULL
      /\ s \in Slots /\ head'[s].ptr = n /\ \A z \in Slots : z # s => head'[z] = head[z]
  BY <1>1, CoversLedger, LaysNode, LaysOwed DEF Ptrs
<1>3. /\ build' = build /\ link' = link /\ SMRBatch' = SMRBatch /\ Addend' = Addend
      /\ \A o \in Objs : status'[o] = "retired" <=> status[o] = "retired"
      /\ Sound /\ vec[t] \in Slots /\ rt[t].todo \in Seq(Objs)
  BY <1>1, StaysFacts, SoundParts, Fields DEF Lays, Stays
<1>4. Pushes(t) /\ Amounts(t) /\ Holds(t)
  BY DEF Books, AllPushes, AllAmounts, AllHolds
<1>5. Pushes(t)'
  BY <1>1, <1>2, <1>3, <1>4 DEF Pushes
<1>6. Skips(t)' = Skips(t)
  BY <1>1, <1>3 DEF Skips
<1>7. Amounts(t)'
  BY <1>1, <1>3, <1>4, <1>6 DEF Amounts
<1>8. Holds(t)'
  <2> SUFFICES ASSUME vec[t] <= at[t]
               PROVE  \/ Skips(t)' > 0
                      \/ \E m \in Owed(t)' \union {head'[vec'[t]].ptr} :
                            m # NULL /\ link'[m] = Retiring(t)'
    BY <1>1 DEF Holds
  <2>1. CASE vec[t] = s
    BY <1>1, <1>2, <1>3, <2>1
  <2>2. CASE vec[t] # s
    <3>1. vec[t] < at[t]
      BY <1>1, <1>3, <2>2, AtFacts DEF Slots
    <3>2. \/ Skips(t) > 0
          \/ \E m \in Owed(t) \union {head[vec[t]].ptr} : m # NULL /\ link[m] = Retiring(t)
      BY <1>1, <1>4, <3>1 DEF Holds
    <3>3. Owed(t) \subseteq Owed(t)'
      BY CoversPlay
    <3> QED
      BY <1>1, <1>2, <1>3, <1>6, <2>2, <3>2, <3>3
  <2> QED
    BY <2>1, <2>2
<1> QED
  BY <1>5, <1>7, <1>8 DEF Owns

\* The push keeps the invariant.
LEMMA CoversKeeps ==
  ASSUME Books, NEW t \in Tasks, NEW s, NEW n, Covers(t, s, n), Sited'
  PROVE  Books'
<1>1. Lays(t, s, n) /\ Stays(t) /\ build.words = 2 /\ vec' = vec
  BY DEF Covers, Lays
<1>2. Owns(t)'
  BY CoversOwn
<1>3. AllPushes'
  BY <1>1, <1>2, PushesAfter DEF Owns, Books
<1>4. Walked' /\ Places' /\ Struct' /\ Room' /\ Counted'
  BY <1>1, <1>3, LaysOwed, CoversPlaces, CoversStruct, CoversBooks
<1>5. /\ \A z \in Slots : z # s => head'[z] = head[z]
      /\ \A z \in Slots : head'[z].ref = head[z].ref
      /\ head[s].ref # 0 /\ s \in Slots
  <2>1. head[s].ref # 0
    BY <1>1 DEF Lays
  <2> QED
    BY <1>1, <2>1, LaysOwed, LaysNode
<1>6. Emptied'
  BY <1>1, <1>5, EmptiedStep DEF Lays, Books
<1>7. ASSUME NEW u \in Tasks, u # t, pc[u] \in Retires
      PROVE  (Owed(u) \union {head[vec[u]].ptr}) \ {NULL}
               \subseteq Owed(u)' \union {head'[vec'[u]].ptr}
  <2>1. vec[u] \in Slots
    BY SoundParts, Fields DEF Books
  <2>2. Owed(u)' = Owed(u) \union (IF u \in Within(s) THEN {head[s].ptr} \ {NULL} ELSE {})
    BY CoversPlay
  <2>3. CASE vec[u] # s
    BY <1>1, <1>5, <2>1, <2>2, <2>3
  <2>4. CASE vec[u] = s
    BY <1>7, <2>2, <2>4 DEF Within, Inside, Retires
  <2> QED
    BY <2>3, <2>4
<1> QED
  BY <1>1, <1>2, <1>4, <1>6, <1>7, BooksAfter DEF Books

\* The compare-and-swap of retire with heads of two words.
LEMMA RtPush2Keeps ==
  ASSUME Books, NEW t \in Tasks, Good(t), Sound', RtPush2(t), Len(rt[t].todo) > 1
  PROVE  Books'
<1>1. Sound /\ Sited /\ Tidy(t) /\ AllTidy
  BY BooksParts
<1> DEFINE n == Head(rt[t].todo)
           b == rt[t].prev
           s == at[t]
<1>2. /\ UNCHANGED <<clientVars, build, link, refs, batch, vec, handle, list>>
      /\ Neat(t) /\ pc[t] = "rt_cas" /\ build.words = 2
      /\ rt[t].todo # <<>> /\ n \in Objs
      /\ head[s].ref # 0 /\ head[s].ptr = b
      /\ next' = [next EXCEPT ![n] = b]
      /\ head' = [head EXCEPT ![s].ptr = n]
      /\ wk'[t].segs = <<>> /\ at'[t] = at[t]
      /\ rt'[t].todo = rt[t].todo /\ rt'[t].first = rt[t].first
      /\ rt'[t].adjs = rt[t].adjs /\ rt'[t].skipped = rt[t].skipped
      /\ IF b # NULL
         THEN /\ pc'[t] = "rt_adj" /\ rt'[t].node = b
              /\ rt'[t].amt = (Addend + head[s].ref) % CounterMod
         ELSE pc'[t] = "rt_count"
  BY <1>1, RtPush2Fx
<1>3. Sited' /\ Retired' = Retired
  BY <1>1, <1>2, SitedSame
<1>4. Stays(t)
  BY <1>1, <1>2, <1>3 DEF Stays
<1>5. Inside(t)' /\ pc'[t] # "lv_cas"
  BY <1>2 DEF Inside
<1>6. Lays(t, s, n)
  BY <1>2, <1>4, <1>5 DEF Lays
<1>7. Covers(t, s, n)
  BY <1>2, <1>6 DEF Covers
<1> HIDE DEF n, s
<1> QED
  BY <1>3, <1>7, CoversKeeps

-----------------------------------------------------------------------------
(***************************************************************************)
(* The push with heads of one word.                                        *)
(***************************************************************************)

\* With heads of one word only the thread that pushes a batch holds back what
\* its counter lacks.
LEMMA LateSole ==
  ASSUME Sound, build.words = 1, NEW q \in Objs, \A u, v \in Active(q) : u = v
  PROVE  /\ Active(q) = {} => Cardinality(Late(q)) = 0
         /\ \A t \in Active(q) : Cardinality(Late(q)) = Withheld(t, q)
<1> DEFINE F == [u \in Tasks |-> 1 .. Withheld(u, q)]
<1>1. \A u \in Tasks : Withheld(u, q) \in 0 .. CounterMod - 1
  BY WithheldType
<1>2. F \in [Tasks -> SUBSET (1 .. CounterMod)] /\ IsFiniteSet(1 .. CounterMod)
  <2>1. CounterMod \in Int /\ 1 \in Int
    OBVIOUS
  <2>2. IsFiniteSet(1 .. CounterMod)
    BY <2>1, FS_Interval
  <2>3. \A u \in Tasks : 1 .. Withheld(u, q) \subseteq 1 .. CounterMod
    BY <1>1
  <2> QED
    BY <2>2, <2>3
<1>3. Late(q) = Tokens(Tasks, F)
  BY SumForms
<1>4. ASSUME NEW u \in Tasks, u \notin Active(q) PROVE Withheld(u, q) = 0
  <2>1. pc[u] \notin {"rt_adj", "lv_adj"}
    BY SoundParts DEF Control
  <2> QED
    BY <1>4, <2>1 DEF Withheld, Adjusting, Active
<1>5. \A u \in Tasks : u \notin Active(q) => F[u] = {}
  BY <1>4
<1> HIDE DEF F
<1>6. ASSUME Active(q) = {} PROVE Cardinality(Late(q)) = 0
  BY <1>2, <1>3, <1>5, <1>6, TasksFinite, TokensNone
<1>7. ASSUME NEW t \in Active(q) PROVE Cardinality(Late(q)) = Withheld(t, q)
  <2>1. t \in Tasks /\ \A u \in Tasks \ {t} : F[u] = {}
    BY <1>5, <1>7 DEF Active
  <2>2. Cardinality(Late(q)) = Cardinality(F[t])
    BY <1>2, <1>3, <2>1, TasksFinite, TokensSole
  <2>3. F[t] = 1 .. Withheld(t, q)
    BY <2>1 DEF F
  <2>4. Cardinality(1 .. Withheld(t, q)) = Withheld(t, q)
    <3>1. Withheld(t, q) \in Nat
      BY <1>1, <2>1
    <3>2. Withheld(t, q) \in Int /\ 1 \in Int
      BY <3>1
    <3>3. Cardinality(1 .. Withheld(t, q))
             = IF 1 > Withheld(t, q) THEN 0 ELSE Withheld(t, q) - 1 + 1
      BY <3>2, FS_Interval
    <3> QED
      BY <3>1, <3>3
  <2> QED
    BY <2>2, <2>3, <2>4
<1> QED
  BY <1>6, <1>7

\* With heads of one word a node pushed is owed to by the owner of the slot.
Adds(t, s, n, r) ==
    /\ Lays(t, s, n) /\ Goes(t, r) /\ build.words = 1
    /\ r.todo = Tail(rt[t].todo) /\ r.adjs = rt[t].adjs + 1

\* With heads of one word exactly one thread is inside a slot in use.
LEMMA Owner ==
  ASSUME Sound, build.words = 1, NEW s \in Slots, head[s].ref # 0
  PROVE  \E v \in Tasks : Within(s) = {v} /\ vec[v] = s /\ Inside(v)
<1>1. Cardinality(Within(s)) = head[s].ref
  BY DEF Sound, HeadsCount, Within
<1>2. Within(s) # {}
  BY <1>1, FS_EmptySet
<1>3. PICK v \in Tasks : v \in Within(s)
  BY <1>2 DEF Within
<1>4. \A u \in Within(s) : u = v
  BY <1>3, Alone DEF Within
<1> QED
  BY <1>3, <1>4 DEF Within

\* That thread owes the node, and no other does.
LEMMA AddsPlay ==
  ASSUME Books, NEW t \in Tasks, NEW s, NEW n, NEW r, Adds(t, s, n, r)
  PROVE  /\ \E v \in Tasks : /\ Owed(v)' = Owed(v) \union {n}
                             /\ \A u \in Tasks : u # v => Owed(u)' = Owed(u)
         /\ InPlay' = InPlay \union {n} /\ n \notin AllOwed
         /\ \A q : Nodes(q)' = Nodes(q) \union (IF q = link[n] THEN {n} ELSE {})
<1> DEFINE b == head[s].ptr
<1>1. Lays(t, s, n) /\ build.words = 1 /\ s \in Slots /\ Sound /\ head[s].ref # 0
  BY LaysNode DEF Adds, Lays, Stays
<1>2. /\ \A u \in Tasks : Owed(u)' = Owed(u) \union Gain(u, n, s)
      /\ Tops' = (Tops \ {b}) \union {n} /\ link' = link
  BY <1>1, LaysOwed
<1>3. PICK v \in Tasks : Within(s) = {v} /\ vec[v] = s /\ Inside(v)
  BY <1>1, Owner
<1>4. Owed(v)' = Owed(v) \union {n} /\ \A u \in Tasks : u # v => Owed(u)' = Owed(u)
  <2>1. \A u \in Tasks : u \in Within(s) <=> u = v
    BY <1>3
  <2>2. \A u \in Tasks : Gain(u, n, s) = IF u = v THEN {n} ELSE {}
    BY <1>1, <2>1 DEF Gain, Within
  <2> QED
    BY <1>2, <2>2
<1>5. b # NULL => b \in AllOwed
  <2>1. b # NULL => b \in Line(v)
    BY <1>1, <1>3, BooksParts, LineFacts
  <2>2. Line(v) \subseteq Owed(v)
    BY <1>1 DEF Owed, ToDrop
  <2> QED
    BY <2>1, <2>2 DEF AllOwed
<1>6. AllOwed' = AllOwed \union {n}
  <2>1. AllOwed' = UNION {Owed(u)' : u \in Tasks}
    BY DEF AllOwed
  <2>2. \A x : x \in AllOwed' <=> \E u \in Tasks : x \in Owed(u)'
    BY <2>1
  <2>3. \A x : x \in AllOwed <=> \E u \in Tasks : x \in Owed(u)
    BY DEF AllOwed
  <2>4. \A x : x \in AllOwed' <=> x \in AllOwed \/ x = n
    BY <1>4, <2>2, <2>3
  <2> QED
    BY <2>4
<1>7. Buried' = Buried
  <2>1. Stays(t) /\ pc[t] = "rt_cas"
    BY <1>1 DEF Lays
  <2>2. ~Due(t) /\ ~Due(t)'
    BY <2>1, GoesWhere DEF Due, Adds
  <2> QED
    BY <2>1, <2>2, StaysFacts, SameBuried
<1>8. InPlay' = InPlay \union {n}
  <2>1. InPlay' = AllOwed' \union Tops' \union Buried'
    BY DEF InPlay
  <2>2. NULL \notin Tops
    BY DEF Tops
  <2> QED
    BY <1>2, <1>5, <1>6, <1>7, <2>1, <2>2 DEF InPlay
<1>9. \A q : Nodes(q)' = Nodes(q) \union (IF q = link[n] THEN {n} ELSE {})
  BY <1>2, <1>8 DEF Nodes
<1>10. n \notin AllOwed
  BY <1>1, LaysNode DEF InPlay
<1> QED
  BY <1>4, <1>8, <1>9, <1>10

-----------------------------------------------------------------------------
(***************************************************************************)
(* What that push does to the places of the nodes.                         *)
(***************************************************************************)

\* Every node is still in one place.
LEMMA AddsPlaces ==
  ASSUME Books, NEW t \in Tasks, NEW s, NEW n, NEW r, Adds(t, s, n, r)
  PROVE  Places'
<1>1. Lays(t, s, n) /\ build.words = 1 /\ s \in Slots /\ head[s].ref # 0
  BY LaysNode DEF Adds, Lays
<1>2. /\ Slots' = Slots /\ build' = build
      /\ head'[s].ptr = n /\ \A z \in Slots : z # s => head'[z] = head[z]
      /\ \A z \in Slots : head'[z].ref = head[z].ref
  BY <1>1, LaysOwed
<1>3. PICK v \in Tasks : /\ Owed(v)' = Owed(v) \union {n}
                         /\ \A u \in Tasks : u # v => Owed(u)' = Owed(u)
  BY AddsPlay
<1>4. n \notin AllOwed /\ n # NULL /\ \A z \in Slots : head[z].ptr # n
  <2>1. n \in Objs /\ n \notin InPlay
    BY <1>1, LaysNode
  <2>2. n # NULL
    BY <2>1 DEF Ptrs
  <2> QED
    BY <2>1, <2>2 DEF InPlay, Tops
<1>5. \A u \in Tasks : n \notin Owed(u)
  BY <1>4 DEF AllOwed
<1>6. /\ \A y, z \in Slots : head[y].ptr = head[z].ptr /\ head[y].ptr # NULL => y = z
      /\ \A u, w \in Tasks : Owed(u) \intersect Owed(w) # {} => u = w
      /\ \A z \in Slots : head[z].ref = 0 => head[z].ptr = NULL
  BY <1>1 DEF Books, Places
<1>7. \A y, z \in Slots' : head'[y].ptr = head'[z].ptr /\ head'[y].ptr # NULL => y = z
  BY <1>2, <1>4, <1>6
<1>8. \A u, w \in Tasks : (Owed(u) \intersect Owed(w))' # {} => u = w
  <2> SUFFICES ASSUME NEW u \in Tasks, NEW w \in Tasks, NEW m,
                      m \in Owed(u)', m \in Owed(w)'
               PROVE  u = w
    OBVIOUS
  <2>1. CASE m = n
    BY <1>3, <1>5, <2>1
  <2>2. CASE m # n
    BY <1>3, <1>6, <2>2
  <2> QED
    BY <2>1, <2>2
<1>9. \A z \in Slots' : head'[z].ref = 0 => head'[z].ptr = NULL
  BY <1>1, <1>2, <1>6
<1> QED
  BY <1>1, <1>2, <1>7, <1>8, <1>9 DEF Places

\* The thread withholds one reference more.
LEMMA AddsLedger ==
  ASSUME Books, NEW t \in Tasks, NEW s, NEW n, NEW r, Adds(t, s, n, r)
  PROVE  /\ Fresh(t)' \subseteq Fresh(t) /\ n \notin Fresh(t)'
         /\ Ending(t)' = Ending(t) /\ ~Due(t) /\ ~Due(t)'
         /\ \A q \in Objs :
               /\ Withheld(t, q) = IF q = link[n] THEN rt[t].adjs ELSE 0
               /\ Withheld(t, q)' = IF q = link[n] THEN rt[t].adjs + 1 ELSE 0
               /\ t \in Active(q) <=> q = link[n]
               /\ t \in Active(q)' <=> q = link[n]
<1>1. Lays(t, s, n) /\ build.words = 1 /\ Goes(t, r) /\ pc[t] = "rt_cas"
      /\ rt[t].todo # <<>> /\ r.todo = Tail(rt[t].todo) /\ r.adjs = rt[t].adjs + 1
  BY DEF Adds, Lays
<1>2. /\ build' = build /\ link' = link /\ batch' = batch /\ rt[t].todo \in Seq(Objs)
      /\ r.first = rt[t].first /\ r.first # NULL
  BY <1>1, GoesFacts DEF Goes
<1>3. /\ link[n] = Retiring(t) /\ Retiring(t) \in Objs /\ Ending(t) = {Retiring(t)}
      /\ \A i \in DOMAIN rt[t].todo : i > 1 => rt[t].todo[i] # n
      /\ \A i \in DOMAIN batch[t] : batch[t][i] # n
  BY <1>1, LaysNode
<1>4. \/ /\ pc'[t] \in {"rt_access", "rt_load"} /\ rt'[t].todo = r.todo
         /\ rt'[t].adjs = r.adjs /\ Retiring(t)' = Retiring(t)
      \/ /\ pc'[t] = "rt_fin" /\ rt'[t].todo = <<>> /\ rt'[t].amt = r.adjs
         /\ Retiring(t)' = NULL /\ link'[rt'[t].node] = Retiring(t)
  BY <1>1, GoesWhere
<1>5. Retiring(t) # NULL
  BY <1>3 DEF Ptrs
<1>6. Ending(t)' = Ending(t)
  BY <1>3, <1>4, <1>5 DEF Ending
<1>7. ~Due(t) /\ ~Due(t)'
  BY <1>1, <1>4 DEF Due
<1>8. /\ DOMAIN r.todo \subseteq Nat
      /\ \A i \in DOMAIN r.todo : i + 1 \in DOMAIN rt[t].todo /\ r.todo[i] = rt[t].todo[i + 1]
                                  /\ i + 1 > 1
  BY <1>1, <1>2
<1>9. Pushed(t) = 0 /\ Pushed(t)' = 0
  BY <1>1, <1>4 DEF Pushed
<1>10. Fresh(t)' \subseteq Fresh(t) /\ n \notin Fresh(t)'
  <2>1. Fresh(t) = {batch[t][i] : i \in DOMAIN batch[t]}
                   \union {rt[t].todo[i] : i \in {j \in DOMAIN rt[t].todo : j > 0}}
    BY <1>9 DEF Fresh
  <2>2. Fresh(t)' \subseteq {batch[t][i] : i \in DOMAIN batch[t]}
                   \union {r.todo[i] : i \in DOMAIN r.todo}
    <3>1. Fresh(t)' = {batch[t][i] : i \in DOMAIN batch[t]}
                   \union {rt'[t].todo[i] : i \in {j \in DOMAIN rt'[t].todo : j > 0}}
      BY <1>2, <1>9 DEF Fresh
    <3>2. rt'[t].todo = r.todo \/ rt'[t].todo = <<>>
      BY <1>4
    <3> QED
      BY <3>1, <3>2
  <2>3. \A i \in DOMAIN r.todo : r.todo[i] \in Fresh(t) /\ r.todo[i] # n
    <3> TAKE i \in DOMAIN r.todo
    <3>1. i + 1 \in {j \in DOMAIN rt[t].todo : j > 0} /\ r.todo[i] = rt[t].todo[i + 1]
          /\ i + 1 > 1 /\ i + 1 \in DOMAIN rt[t].todo
      BY <1>8
    <3> QED
      BY <1>3, <2>1, <3>1
  <2>4. \A i \in DOMAIN batch[t] : batch[t][i] \in Fresh(t) /\ batch[t][i] # n
    BY <1>3, <2>1
  <2> QED
    BY <2>2, <2>3, <2>4
<1>11. ASSUME NEW q \in Objs
       PROVE  /\ Withheld(t, q) = IF q = link[n] THEN rt[t].adjs ELSE 0
              /\ Withheld(t, q)' = IF q = link[n] THEN rt[t].adjs + 1 ELSE 0
              /\ t \in Active(q) <=> q = link[n]
              /\ t \in Active(q)' <=> q = link[n]
  <2>1. ~Adjusting(t)
    BY <1>1 DEF Adjusting
  <2>2. Withheld(t, q) = IF q = link[n] THEN rt[t].adjs ELSE 0
    BY <1>1, <1>3, <2>1 DEF Withheld
  <2>3. t \in Active(q) <=> q = link[n]
    BY <1>1, <1>3 DEF Active
  <2>4. q # NULL
    BY DEF Ptrs
  <2>5. t \in Active(q)' <=> q = link[n]
    BY <1>3, <1>4, <2>4 DEF Active
  <2>6. CASE pc'[t] \in {"rt_access", "rt_load"} /\ rt'[t].adjs = r.adjs
             /\ Retiring(t)' = Retiring(t)
    <3>1. ~Adjusting(t)'
      BY <2>6 DEF Adjusting
    <3>2. Withheld(t, q)' = IF q = link[n] THEN rt[t].adjs + 1 ELSE 0
      BY <1>1, <1>2, <1>3, <2>6, <3>1 DEF Withheld
    <3> QED
      BY <2>2, <2>3, <2>5, <3>2
  <2>7. CASE /\ pc'[t] = "rt_fin" /\ rt'[t].amt = r.adjs
             /\ Retiring(t)' = NULL /\ link'[rt'[t].node] = Retiring(t)
    <3>1. Adjusting(t)'
      BY <2>7 DEF Adjusting
    <3>2. Withheld(t, q)' = IF q = link[n] THEN rt[t].adjs + 1 ELSE 0
      BY <1>1, <1>2, <1>3, <2>4, <2>7, <3>1 DEF Withheld
    <3> QED
      BY <2>2, <2>3, <2>5, <3>2
  <2> QED
    BY <1>4, <2>6, <2>7
<1> QED
  BY <1>6, <1>7, <1>10, <1>11

\* The batches are the same.
LEMMA AddsStruct ==
  ASSUME Books, NEW t \in Tasks, NEW s, NEW n, NEW r, Adds(t, s, n, r)
  PROVE  Struct' /\ Lasts' = Lasts
<1>1. Lays(t, s, n) /\ Stays(t) /\ list' = list
  BY DEF Adds, Lays
<1>2. /\ InPlay' = InPlay \union {n}
      /\ \A q : Nodes(q)' = Nodes(q) \union (IF q = link[n] THEN {n} ELSE {})
  BY AddsPlay
<1>3. /\ n \in Objs /\ status[n] = "retired" /\ n \notin Lasts /\ link[n] \in Ending(t)
      /\ \A u \in Tasks : u # t => n \notin Fresh(u)
  BY <1>1, LaysNode
<1>4. /\ Fresh(t)' \subseteq Fresh(t) /\ n \notin Fresh(t)' /\ Ending(t)' = Ending(t)
  BY AddsLedger
<1>5. /\ \A u \in Tasks : /\ Growing(u)' = Growing(u)
                          /\ u # t => Ending(u)' = Ending(u) /\ rt'[u] = rt[u] /\ pc'[u] = pc[u]
      /\ batch' = batch
  BY <1>1, StaysFacts DEF SameLedger, Stays
<1>6. \A u \in Tasks : u # t => Fresh(u)' = Fresh(u)
  BY <1>5 DEF Fresh, Pushed
<1>7. Lasts \subseteq Lasts'
  <2>1. \A q : q \in Lasts' <=> \/ Nodes(q)' # {}
                                \/ \E u \in Tasks : q \in list'[u] \union Growing(u)' \union Ending(u)'
    BY DEF Lasts, Nodes
  <2>2. \A q : Nodes(q) # {} => Nodes(q)' # {}
    BY <1>2
  <2>3. \A u \in Tasks : list'[u] = list[u] /\ Growing(u)' = Growing(u) /\ Ending(u)' = Ending(u)
    BY <1>1, <1>4, <1>5
  <2> QED
    BY <2>1, <2>2, <2>3, LastsIs
<1> DEFINE N == {n}
           L == {}
<1>8. Struct /\ Stays(t)
  BY <1>1 DEF Books
<1>9. /\ InPlay' \subseteq InPlay \union N /\ list'[t] \subseteq list[t] \union L
      /\ Fresh(t)' \subseteq Fresh(t) /\ Ending(t)' \subseteq Ending(t)
  BY <1>1, <1>2, <1>4
<1>10. \A x \in N : /\ x \in Objs /\ status[x] = "retired" /\ x \notin Lasts
                    /\ link[x] \in Ending(t)
                    /\ \A u \in Tasks : x \notin Fresh(u)'
  BY <1>3, <1>4, <1>6
<1>11. \A q \in L : /\ q \in Lasts /\ (Nodes(q) # {} \/ Active(q) # {})
                    /\ Nodes(q)' = {} /\ Active(q)' = {}
  OBVIOUS
<1> HIDE DEF N, L
<1> QED
  BY <1>7, <1>8, <1>9, <1>10, <1>11, StructStep

-----------------------------------------------------------------------------
(***************************************************************************)
(* The counters after it: it keeps the invariant.                          *)
(***************************************************************************)

\* The counters count more than the threads.
LEMMA ManyCounts ==
  ASSUME Sound
  PROVE  TaskNum \in Nat /\ TaskNum < CounterMod
<1>1. build \in Builds
  BY DEF Sound, HyalineTypeOK
<1>2. PICK d \in 1 .. CounterMod : d > TaskNum * 2 ^ build.order
  BY <1>1, CountersAssumption
<1>3. 2 ^ build.order \in Nat \ {0} /\ TaskNum \in Nat
  BY <1>1
<1> DEFINE k == 2 ^ build.order
<1> HIDE DEF k
<1>4. \A a, b \in Nat : b # 0 => a * b >= a
  OBVIOUS
<1>5. TaskNum * k >= TaskNum /\ TaskNum * k \in Nat
  BY <1>3, <1>4 DEF k
<1>6. d \in Int /\ d <= CounterMod /\ d > TaskNum * k
  BY <1>2 DEF k
<1> QED
  BY <1>3, <1>5, <1>6

\* The batch has a debt more, and one more is withheld.
LEMMA AddsSums ==
  ASSUME Books, NEW t \in Tasks, NEW s, NEW n, NEW r, Adds(t, s, n, r), NEW q \in Objs
  PROVE  LET k == IF q = link[n] THEN 1 ELSE 0 IN
         /\ Cardinality(Debts(q)) \in Nat /\ Cardinality(Debts(q))' \in Nat
         /\ Cardinality(Debts(q))' - Cardinality(Debts(q)) = k
         /\ Cardinality(Late(q)) \in Nat /\ Cardinality(Late(q))' \in Nat
         /\ Cardinality(Late(q))' - Cardinality(Late(q)) = k
<1> DEFINE k == IF q = link[n] THEN 1 ELSE 0
<1>1. /\ Sound /\ Sound' /\ link' = link /\ IsFiniteSet(Objs) /\ n \notin AllOwed
      /\ \A u \in Tasks : u # t => SameLedger(u)
  BY BooksParts, StaysFacts, AddsPlay DEF Adds, Lays, Stays
<1>2. /\ Cardinality(Debts(q)) \in Nat /\ Cardinality(Debts(q))' \in Nat
      /\ Cardinality(Debts(q))' - Cardinality(Debts(q)) = k
  <2>1. PICK v \in Tasks : /\ Owed(v)' = Owed(v) \union {n}
                           /\ \A u \in Tasks : u # v => Owed(u)' = Owed(u)
    BY AddsPlay
  <2>2. \A u \in Tasks : u # v => OwedTo(u, q)' = OwedTo(u, q)
    BY <1>1, <2>1 DEF OwedTo
  <2>3. OwedTo(v, q)' = OwedTo(v, q) \union (IF q = link[n] THEN {n} ELSE {})
    BY <1>1, <2>1 DEF OwedTo
  <2>4. n \notin OwedTo(v, q) /\ IsFiniteSet(OwedTo(v, q))
    <3>1. n \notin Owed(v)
      BY <1>1 DEF AllOwed
    <3>2. OwedTo(v, q) \subseteq Objs
      BY <1>1, OwedType DEF OwedTo
    <3>3. IsFiniteSet(OwedTo(v, q))
      BY <1>1, <3>2, FS_Subset
    <3> QED
      BY <3>1, <3>3 DEF OwedTo
  <2> DEFINE C == Cardinality(OwedTo(v, q))
             E == Cardinality(OwedTo(v, q))'
  <2>5. C \in Nat /\ E = C + k
    <3>1. C \in Nat
      BY <2>4, FS_CardinalityType
    <3>2. CASE q = link[n]
      <4>1. Cardinality(OwedTo(v, q) \union {n}) = C + 1
        BY <2>4, FS_AddElement
      <4>2. OwedTo(v, q)' = OwedTo(v, q) \union {n}
        BY <2>3, <3>2
      <4> QED
        BY <3>1, <3>2, <4>1, <4>2
    <3>3. CASE q # link[n]
      BY <2>3, <3>1, <3>3
    <3> QED
      BY <3>2, <3>3
  <2>6. /\ Cardinality(Debts(q)) \in Nat /\ Cardinality(Debts(q))' \in Nat
        /\ Cardinality(Debts(q))' - Cardinality(Debts(q)) = E - C
    BY <1>1, <2>2, DebtsMove
  <2>7. k \in Int
    OBVIOUS
  <2> HIDE DEF C, E, k
  <2>8. E - C = k
    BY ONLY <2>5, <2>7
  <2> QED
    BY <2>6, <2>8
<1>3. /\ Cardinality(Late(q)) \in Nat /\ Cardinality(Late(q))' \in Nat
      /\ Cardinality(Late(q))' - Cardinality(Late(q)) = k
  <2>1. \A u \in Tasks : u # t => Withheld(u, q)' = Withheld(u, q)
    BY <1>1 DEF SameLedger
  <2> DEFINE a == Withheld(t, q)
             b == Withheld(t, q)'
  <2>2. /\ Cardinality(Late(q)) \in Nat /\ Cardinality(Late(q))' \in Nat
        /\ a \in Nat /\ b \in Nat /\ Cardinality(Late(q))' - Cardinality(Late(q)) = b - a
    BY <1>1, <2>1, LateMove
  <2>3. a = (IF q = link[n] THEN rt[t].adjs ELSE 0)
        /\ b = (IF q = link[n] THEN rt[t].adjs + 1 ELSE 0)
    BY AddsLedger
  <2>4. rt[t].adjs \in Nat
    <3>1. rt[t] \in Batches
      BY <1>1, SkippedType
    <3> QED
      BY <3>1 DEF Batches
  <2>5. b - a = k
    <3> HIDE DEF a, b
    <3> QED
      BY <2>3, <2>4
  <2> HIDE DEF a, b, k
  <2> QED
    BY <2>2, <2>5
<1> HIDE DEF k
<1> QED
  BY <1>2, <1>3 DEF k

\* Every counter is still exact.
LEMMA AddsBooks ==
  ASSUME Books, NEW t \in Tasks, NEW s, NEW n, NEW r, Adds(t, s, n, r)
  PROVE  Room' /\ Counted'
<1>1. /\ Sound /\ Sound' /\ build' = build /\ link' = link /\ build.words = 1
      /\ refs' = refs /\ n \in Objs /\ link[n] \in Objs /\ TaskNum \in Nat
      /\ t \in Active(link[n])
      /\ \A u \in Tasks : u # t => SameLedger(u)
  <2>1. Lays(t, s, n) /\ Stays(t) /\ build.words = 1 /\ refs' = refs
    BY DEF Adds, Lays
  <2>2. Sound /\ Sound' /\ link' = link
    BY <2>1, BooksParts DEF Stays
  <2>3. n \in Objs /\ link[n] \in Objs /\ t \in Active(link[n])
    BY <2>1, LaysNode
  <2>4. build' = build /\ \A u \in Tasks : u # t => SameLedger(u)
    BY <2>1, StaysFacts
  <2>5. TaskNum \in Nat
    BY <2>2, AtFacts
  <2> QED
    BY <2>1, <2>2, <2>3, <2>4, <2>5
<1>2. Lasts' = Lasts /\ Lasts \subseteq Objs
  BY AddsStruct, LastsObjs DEF Books
<1>3. ASSUME NEW q \in Lasts PROVE Settled(q)' /\ Roomy(q)'
  <2>0. q \in Objs
    BY <1>2
  <2>1. Settled(q) /\ Roomy(q)
    BY CountedIs DEF Books
  <2> DEFINE k == IF q = link[n] THEN 1 ELSE 0
             D == Cardinality(Debts(q))
             E == Cardinality(Debts(q))'
             L == Cardinality(Late(q))
             M == Cardinality(Late(q))'
  <2>2. D \in Nat /\ E \in Nat /\ E - D = k /\ L \in Nat /\ M \in Nat /\ M - L = k
    BY <2>0, AddsSums
  <2>3. k \in {0, 1}
    OBVIOUS
  <2>4. Worth(q)' = Worth(q)
    <3>1. Worth(q)' = E - M - 0 /\ Worth(q) = D - L - 0
      BY <1>1 DEF Worth
    <3> HIDE DEF k, D, E, L, M
    <3>2. E - M - 0 = D - L - 0
      BY ONLY <2>2, <2>3
    <3> QED
      BY <3>1, <3>2
  <2>5. Settled(q)'
    BY <1>1, <2>1, <2>4 DEF Settled
  <2>6. Active(q)' # {} => Active(q) # {}
    BY <1>1, <2>0, AddsLedger DEF SameLedger, Active
  <2>7. D <= TaskNum /\ (Active(q) # {} => D <= L)
    BY <1>1, <2>1 DEF Roomy
  <2>8. q = link[n] => L + 1 <= TaskNum /\ Active(q) # {}
    <3> SUFFICES ASSUME q = link[n] PROVE L + 1 <= TaskNum /\ Active(q) # {}
      OBVIOUS
    <3>1. t \in Active(q) /\ \A u, v \in Active(q) : u = v
      BY <1>1, <2>0 DEF Books, Struct, BatchesApart
    <3>2. L = Withheld(t, q)
      BY <1>1, <2>0, <3>1, LateSole
    <3>3. Withheld(t, q) = rt[t].adjs
      BY <2>0, AddsLedger
    <3>4. rt[t].adjs + 1 <= TaskNum
      BY <1>1 DEF Adds, Goes
    <3> QED
      BY <3>1, <3>2, <3>3, <3>4
  <2>9. E <= TaskNum /\ (Active(q)' # {} => E <= M)
    <3>1. CASE q = link[n]
      <4>1. k = 1
        BY <3>1
      <4> HIDE DEF k, D, E, L, M
      <4> QED
        BY <1>1, <2>2, <2>7, <2>8, <3>1, <4>1
    <3>2. CASE q # link[n]
      <4>1. k = 0
        BY <3>2
      <4> HIDE DEF k, D, E, L, M
      <4> QED
        BY <1>1, <2>2, <2>6, <2>7, <4>1
    <3> QED
      BY <3>1, <3>2
  <2>10. Roomy(q)'
    BY <1>1, <2>9 DEF Roomy
  <2> QED
    BY <2>5, <2>10
<1> QED
  BY <1>2, <1>3 DEF Counted, Room, Settled, Worth, Roomy

\* The compare-and-swap of retire with heads of one word.
LEMMA RtPush1Keeps ==
  ASSUME Books, NEW t \in Tasks, Good(t), Sound', RtPush1(t), Len(rt[t].todo) > 1
  PROVE  Books'
<1>1. Sound /\ Sited /\ Tidy(t) /\ AllTidy /\ Emptied
  BY BooksParts
<1> DEFINE n == Head(rt[t].todo)
           s == at[t]
           r == [rt[t] EXCEPT !.todo = Tail(@), !.prev = NULL, !.adjs = (@ + 1) % CounterMod]
<1>2. /\ UNCHANGED <<clientVars, build, link, refs, batch, vec, handle, list>>
      /\ Neat(t) /\ pc[t] = "rt_cas" /\ build.words = 1
      /\ rt[t].todo # <<>> /\ n \in Objs
      /\ head[s].ref # 0 /\ head[s].ptr = rt[t].prev
      /\ next' = [next EXCEPT ![n] = rt[t].prev]
      /\ head' = [head EXCEPT ![s].ptr = n]
      /\ Onward(t, r)
  BY <1>1, RtPush1Fx
<1>3. Sited' /\ Retired' = Retired
  BY <1>1, <1>2, SitedSame
<1>4. Stays(t)
  BY <1>1, <1>2, <1>3 DEF Stays
<1>5. /\ rt[t] \in Batches /\ rt[t].todo \in Seq(Objs) /\ Tail(rt[t].todo) \in Seq(Objs)
      /\ Len(Tail(rt[t].todo)) = Len(rt[t].todo) - 1
      /\ SMRBatch \in Nat /\ Len(rt[t].todo) \in Nat /\ TaskNum \in Nat
      /\ SMRBatch = TaskNum + 1 /\ TaskNum < CounterMod
  <2>1. SMRBatch = TaskNum + 1
    BY <1>2 DEF SMRBatch
  <2>2. TaskNum \in Nat /\ SMRBatch \in Nat
    BY <1>1, AtFacts
  <2>3. TaskNum < CounterMod
    BY <1>1, ManyCounts
  <2> QED
    BY <1>1, <1>2, <2>1, <2>2, <2>3, SoundParts, Fields
<1>6. rt[t].adjs = SMRBatch - Len(rt[t].todo) /\ Pushes(t)
  BY <1>2 DEF Books, AllAmounts, AllPushes, Amounts
<1>7. rt[t].adjs + 1 <= TaskNum /\ rt[t].adjs \in Nat
  <2>1. rt[t].adjs \in Nat
    BY <1>5 DEF Batches
  <2> QED
    BY <1>5, <1>6, <2>1
<1>8. (rt[t].adjs + 1) % CounterMod = rt[t].adjs + 1
  <2> DEFINE a == rt[t].adjs + 1
  <2>1. a \in Nat /\ a < CounterMod /\ CounterMod \in Nat
    BY <1>5, <1>7
  <2> HIDE DEF a
  <2>2. a % CounterMod = a
    BY <2>1
  <2> QED
    BY <2>2 DEF a
<1>9. /\ r \in Batches /\ r.first = rt[t].first /\ r.todo = Tail(rt[t].todo)
      /\ r.adjs = rt[t].adjs + 1
  <2> DEFINE q == [rt[t] EXCEPT !.todo = Tail(@)]
             p == [q EXCEPT !.prev = NULL]
             a == rt[t].adjs + 1
  <2>1. q \in Batches /\ q.first = rt[t].first /\ q.todo = Tail(rt[t].todo)
        /\ q.adjs = rt[t].adjs
    BY <1>5 DEF Batches
  <2>2. p \in Batches /\ p.first = rt[t].first /\ p.todo = Tail(rt[t].todo)
        /\ p.adjs = rt[t].adjs
    <3> HIDE DEF q
    <3>1. NULL \in Ptrs
      BY DEF Ptrs
    <3> QED
      BY <2>1, <3>1 DEF Batches
  <2>3. r = [p EXCEPT !.adjs = a]
    BY <1>5, <1>8 DEF Batches
  <2>4. a \in 0 .. CounterMod - 1
    BY <1>5, <1>7
  <2> HIDE DEF q, p, r, a
  <2>5. r \in Batches /\ r.first = p.first /\ r.todo = p.todo /\ r.adjs = a
    BY <2>2, <2>3, <2>4 DEF Batches
  <2> QED
    BY <2>2, <2>5 DEF a
<1>10. Onward(t, r)
  BY <1>2
<1> HIDE DEF r
<1>11. Inside(t)' /\ pc'[t] # "lv_cas" /\ wk'[t].segs = <<>>
  BY <1>10 DEF Onward
<1>12. Lays(t, s, n)
  BY <1>2, <1>4, <1>11 DEF Lays
<1>13. r.adjs = SMRBatch - Len(r.todo) /\ r.adjs <= TaskNum
  <2>1. Len(r.todo) = Len(rt[t].todo) - 1
    BY <1>5, <1>9
  <2>2. r.adjs = rt[t].adjs + 1 /\ rt[t].adjs \in Nat
    BY <1>7, <1>9
  <2>3. SMRBatch - (Len(rt[t].todo) - 1) = SMRBatch - Len(rt[t].todo) + 1
    BY <1>5
  <2> QED
    BY <1>6, <1>7, <2>1, <2>2, <2>3
<1>14. Goes(t, r)
  BY <1>2, <1>4, <1>6, <1>9, <1>10, <1>13 DEF Goes, Shifts
<1>15. Adds(t, s, n, r)
  BY <1>2, <1>9, <1>12, <1>14 DEF Adds
<1> HIDE DEF n, s
<1>16. Walked' /\ Places' /\ Struct' /\ Room' /\ Counted' /\ build' = build
  BY <1>2, <1>12, <1>15, LaysOwed, AddsPlaces, AddsStruct, AddsBooks
<1>17. Emptied' /\ Holds(t)'
  BY <1>2, <1>16 DEF Emptied, Holds
<1>18. Owns(t)'
  BY <1>14, <1>17, GoesOwn DEF Owns
<1>19. ASSUME NEW u \in Tasks, u # t, pc[u] \in Retires
       PROVE  (Owed(u) \union {head[vec[u]].ptr}) \ {NULL}
                \subseteq Owed(u)' \union {head'[vec'[u]].ptr}
  <2>1. vec[u] \in Slots /\ Inside(u) /\ vec' = vec
    BY <1>1, <1>2, <1>19, SoundParts, Fields DEF Inside, Retires
  <2>2. Owed(u) \subseteq Owed(u)'
    BY <1>15, AddsPlay
  <2>3. head[vec[u]].ptr # NULL => head[vec[u]].ptr \in Owed(u)
    BY <1>1, <1>2, <2>1, BooksParts, LineFacts DEF Owed, ToDrop
  <2> QED
    BY <2>2, <2>3
<1> QED
  BY <1>3, <1>4, <1>16, <1>17, <1>18, <1>19, BooksAfter DEF Books

-----------------------------------------------------------------------------
(***************************************************************************)
(* What a counter says when it is zero.                                    *)
(***************************************************************************)

\* A difference and so many addends come to nothing.
LEMMA Balance ==
  ASSUME NEW n \in Nat \ {0}, NEW d \in Nat \ {0}, NEW m, m = d * n,
         NEW e \in Int, e < d, 0 - d < e, NEW k \in 0 .. n, NEW a,
         a = IF n = 1 THEN 0 ELSE d, (e - a * k) % m = 0
  PROVE  e = 0 /\ k \in {0, n}
<1>1. m \in Nat \ {0} /\ a \in Int /\ k \in Int
  OBVIOUS
<1>2. a * k \in Int
  BY <1>1
<1> DEFINE v == e - a * k
<1>3. v \in Int
  BY <1>2
<1>4. \E q \in Int : v = q * m
  <2> HIDE DEF v
  <2>1. v \in Int /\ m \in Int /\ m > 0
    BY <1>1, <1>3
  <2>2. PICK q \in Int : v = q * m + (v % m)
    BY <2>1, Quotient
  <2>3. v % m = 0
    BY DEF v
  <2>4. q * m \in Int
    BY <1>1
  <2>5. v = q * m
    BY <2>2, <2>3, <2>4
  <2> QED
    BY <2>5
<1>5. PICK q \in Int : v = q * m
  BY <1>4
<1>6. CASE n = 1
  <2>1. a = 0 /\ m = d
    BY <1>6
  <2>2. a * k = 0
    BY <1>1, <2>1
  <2>3. v = e
    BY <1>2, <2>2
  <2>4. Even(e, d)
    BY <1>5, <2>1, <2>3 DEF Even
  <2>5. e = 0
    BY <2>4, EvenSmall
  <2> QED
    BY <1>6, <2>5
<1>7. CASE n # 1
  <2>1. a = d
    BY <1>7
  <2>2. e = (k + q * n) * d
    <3>1. e = v + d * k
      BY <1>2, <2>1
    <3>2. q * m = (q * n) * d
      OBVIOUS
    <3>3. q * n \in Int
      OBVIOUS
    <3> DEFINE x == q * n
    <3>4. (k + x) * d = x * d + d * k
      <4>1. x \in Int
        BY <3>3
      <4> HIDE DEF x
      <4> QED
        BY <1>1, <4>1
    <3> QED
      BY <1>5, <3>1, <3>2, <3>4
  <2>3. k + q * n \in Int
    BY <1>1
  <2>4. Even(e, d)
    BY <2>2, <2>3 DEF Even
  <2>5. e = 0
    BY <2>4, EvenSmall
  <2>6. k + q * n = 0
    <3> DEFINE y == k + q * n
    <3>1. y \in Int /\ y * d = 0
      BY <2>2, <2>3, <2>5
    <3> HIDE DEF y
    <3>2. y = 0
      BY <3>1
    <3> QED
      BY <3>2 DEF y
  <2>7. q \in {0, -1}
    <3>1. q * n = 0 - k
      BY <1>1, <2>6
    <3>2. \A x, y \in Int : y > 0 /\ x * y <= 0 /\ 0 - y <= x * y => x \in {0, -1}
      OBVIOUS
    <3>3. q * n <= 0 /\ 0 - n <= q * n
      BY <3>1
    <3> QED
      BY <3>2, <3>3
  <2>8. k = 0 \/ k = n
    <3>1. CASE q = 0
      BY <1>1, <2>6, <3>1
    <3>2. CASE q = -1
      BY <1>1, <2>6, <3>2
    <3> QED
      BY <2>7, <3>1, <3>2
  <2> QED
    BY <2>5, <2>8
<1> QED
  BY <1>6, <1>7

\* The nodes of a batch at the heads, and those whose adjustment is due.
LEMMA NodesSplit ==
  ASSUME IsFiniteSet(Objs), Sound, Places, build.words = 2, NEW r
  PROVE  /\ IsFiniteSet(Nodes(r)) /\ Cardinality(Nodes(r)) \in Nat
         /\ IsFiniteSet(HeadsOf(r)) /\ Cardinality(HeadsOf(r)) \in Nat
         /\ IsFiniteSet(DuesOf(r)) /\ Cardinality(DuesOf(r)) \in Nat
         /\ Cardinality(HeadsOf(r)) + Cardinality(DuesOf(r)) <= Cardinality(Nodes(r))
         /\ Cardinality(HeadsOf(r)) + Cardinality(DuesOf(r)) = Cardinality(Nodes(r))
               => Nodes(r) \subseteq Tops \union Buried
<1> DEFINE N == Nodes(r)
           T == Tops \intersect N
           B == Buried \intersect N
<1>1. IsFiniteSet(N) /\ Cardinality(N) \in Nat
  BY InPlayType, FS_Subset, FS_CardinalityType DEF Nodes
<1>2. IsFiniteSet(T) /\ IsFiniteSet(B) /\ T \intersect B = {} /\ T \union B \subseteq N
  <2>1. T \subseteq N /\ B \subseteq N
    OBVIOUS
  <2>2. T \intersect B = {}
    BY DEF Places
  <2> QED
    BY <1>1, <2>1, <2>2, FS_Subset
<1>3. IsFiniteSet(HeadsOf(r)) /\ Cardinality(HeadsOf(r)) <= Cardinality(T)
  <2> DEFINE f == [s \in HeadsOf(r) |-> head[s].ptr]
  <2>1. f \in [HeadsOf(r) -> T]
    BY DEF HeadsOf, Nodes, InPlay, Tops
  <2>2. \A x, y \in HeadsOf(r) : f[x] = f[y] => x = y
    BY DEF HeadsOf, Places
  <2> HIDE DEF f, T
  <2> QED
    BY <1>2, <2>1, <2>2, OneToOne
<1>4. IsFiniteSet(DuesOf(r)) /\ Cardinality(DuesOf(r)) <= Cardinality(B)
  <2> DEFINE f == [t \in DuesOf(r) |-> rt[t].node]
  <2>1. f \in [DuesOf(r) -> B]
    BY DEF DuesOf, Nodes, InPlay, Buried
  <2>2. \A x, y \in DuesOf(r) : f[x] = f[y] => x = y
    BY DEF DuesOf, Places
  <2> HIDE DEF f, B
  <2> QED
    BY <1>2, <2>1, <2>2, OneToOne
<1>5. Cardinality(HeadsOf(r)) \in Nat /\ Cardinality(DuesOf(r)) \in Nat
  BY <1>3, <1>4, FS_CardinalityType
<1> HIDE DEF N, T, B
<1>6. /\ Cardinality(T) \in Nat /\ Cardinality(B) \in Nat
      /\ Cardinality(T \union B) = Cardinality(T) + Cardinality(B)
  BY <1>2, Disjoint
<1>7. /\ Cardinality(T \union B) <= Cardinality(N)
      /\ Cardinality(T \union B) = Cardinality(N) => T \union B = N
  BY <1>1, <1>2, FS_Subset
<1>8. Cardinality(HeadsOf(r)) + Cardinality(DuesOf(r)) <= Cardinality(N)
  BY <1>1, <1>3, <1>4, <1>5, <1>6, <1>7
<1>9. Cardinality(HeadsOf(r)) + Cardinality(DuesOf(r)) = Cardinality(N) => T \union B = N
  BY <1>1, <1>3, <1>4, <1>5, <1>6, <1>7
<1>10. Cardinality(HeadsOf(r)) + Cardinality(DuesOf(r)) = Cardinality(N)
         => N \subseteq Tops \union Buried
  BY <1>9 DEF T, B
<1> QED
  BY <1>1, <1>3, <1>4, <1>5, <1>8, <1>10 DEF N

-----------------------------------------------------------------------------
(***************************************************************************)
(* A counter at zero, with heads of two words.                             *)
(***************************************************************************)

\* With heads of two words an adjustment is late only for its own batch, by no
\* more than there are threads.
LEMMA LateWide ==
  ASSUME Sound, Places, AllAmounts, build.words = 2, NEW r \in Objs, NEW u \in Tasks
  PROVE  /\ Withheld(u, r) \in Nat
         /\ Withheld(u, r) # 0 => u \in DuesOf(r)
         /\ Withheld(u, r) <= TaskNum
         /\ u \in DuesOf(r) => Withheld(u, r) = LateBy(u) /\ rt[u].node \in Objs
<1>1. Withheld(u, r) \in Nat
  BY WithheldType
<1>2. u \in DuesOf(r) => Withheld(u, r) = LateBy(u) /\ rt[u].node \in Objs
                         /\ Withheld(u, r) <= TaskNum
  <2> SUFFICES ASSUME u \in DuesOf(r)
               PROVE  Withheld(u, r) = LateBy(u) /\ rt[u].node \in Objs
                      /\ Withheld(u, r) <= TaskNum
    OBVIOUS
  <2>1. Due(u) /\ link[rt[u].node] = r
    BY DEF DuesOf
  <2>2. rt[u].node \in Objs
    <3>1. rt[u] \in Batches /\ Control(u)
      BY SoundParts, Fields
    <3>2. rt[u].node \in Ptrs /\ rt[u].node # NULL
      BY <2>1, <3>1 DEF Batches, Control, Due
    <3> QED
      BY <3>2 DEF Ptrs
  <2>3. LateBy(u) <= TaskNum
    BY <2>1, <2>2 DEF Places
  <2>4. CASE pc[u] = "rt_adj"
    BY <2>1, <2>2, <2>3, <2>4 DEF Withheld, Adjusting, LateBy
  <2>5. CASE pc[u] = "lv_adj"
    <3>1. rt[u].amt = Addend
      BY <2>5 DEF AllAmounts, Amounts
    <3>2. Addend \in Int
      BY SoundParts, SlotFacts
    <3>3. rt[u].amt - Addend = 0
      BY <3>1, <3>2
    <3>4. LateBy(u) = 0
      BY <3>3, NoRemainder DEF LateBy
    <3>5. Withheld(u, r) = 0
      BY <2>5 DEF Withheld
    <3> QED
      BY <2>2, <2>3, <3>4, <3>5
  <2> QED
    BY <2>1, <2>4, <2>5 DEF Due
<1>3. Withheld(u, r) # 0 => u \in DuesOf(r)
  BY DEF Withheld, Adjusting, DuesOf, Due
<1>4. Withheld(u, r) <= TaskNum
  BY <1>1, <1>2, <1>3, AtFacts
<1> QED
  BY <1>1, <1>2, <1>3, <1>4

\* What a batch with heads of two words can come to.
LEMMA SumsWide ==
  ASSUME IsFiniteSet(Objs), Sound, Places, AllPushes, AllAmounts, build.words = 2,
         NEW r \in Objs, Roomy(r)
  PROVE  /\ Cardinality(Debts(r)) \in Nat /\ Cardinality(Late(r)) \in Nat
         /\ Cardinality(Debts(r)) <= TaskNum * NumSlots
         /\ Cardinality(Late(r)) <= TaskNum * NumSlots
         /\ Missing(r) \in 0 .. NumSlots
         /\ DuesOf(r) = {} => Late(r) = {}
<1>1. /\ IsFiniteSet(Nodes(r)) /\ Cardinality(Nodes(r)) \in Nat
      /\ IsFiniteSet(DuesOf(r)) /\ Cardinality(DuesOf(r)) \in Nat
      /\ Cardinality(HeadsOf(r)) \in Nat
      /\ Cardinality(HeadsOf(r)) + Cardinality(DuesOf(r)) <= Cardinality(Nodes(r))
  BY NodesSplit
<1>2. TaskNum \in Nat /\ NumSlots \in Nat \ {0} /\ IsFiniteSet(Tasks) /\ Cardinality(Tasks) = TaskNum
  BY TasksFinite, SlotFacts DEF Sound, HyalineTypeOK
<1>3. Unadded(r) \in Nat
  <2> DEFINE F == [u \in Tasks |-> LackOf(u, r)]
  <2>1. F \in [Tasks -> SUBSET (1 .. NumSlots)]
    BY LackingType DEF LackOf
  <2>2. IsFiniteSet(1 .. NumSlots)
    BY <1>2, FS_Interval
  <2>3. Unadded(r) = Cardinality(Tokens(Tasks, F))
    BY LackForm DEF Unadded
  <2> HIDE DEF F
  <2> QED
    BY <1>2, <2>1, <2>2, <2>3, TokensFinite
<1>4. Unadded(r) + Cardinality(Nodes(r)) <= NumSlots
  BY DEF Roomy
<1>5. Missing(r) \in 0 .. NumSlots
  BY <1>1, <1>2, <1>3, <1>4, MissingIs
<1>6. \A a, b, c \in Nat : a <= b => c * a <= c * b
  OBVIOUS
<1>7. Cardinality(Debts(r)) <= TaskNum * NumSlots /\ Cardinality(Debts(r)) \in Nat
  <2>1. IsFiniteSet(Tasks \X Nodes(r))
        /\ Cardinality(Tasks \X Nodes(r)) = TaskNum * Cardinality(Nodes(r))
    BY <1>1, <1>2, FS_Product
  <2>2. Debts(r) \subseteq Tasks \X Nodes(r)
    BY DEF Debts, Nodes, InPlay, AllOwed
  <2>3. Cardinality(Debts(r)) <= TaskNum * Cardinality(Nodes(r))
    BY <2>1, <2>2, FS_Subset
  <2>4. Cardinality(Nodes(r)) <= NumSlots
    BY <1>1, <1>2, <1>3, <1>4
  <2>5. TaskNum * Cardinality(Nodes(r)) <= TaskNum * NumSlots
    BY <1>1, <1>2, <1>6, <2>4
  <2>6. Cardinality(Debts(r)) \in Nat
    BY DebtsFinite
  <2>7. TaskNum * Cardinality(Nodes(r)) \in Nat /\ TaskNum * NumSlots \in Nat
    BY <1>1, <1>2
  <2> QED
    BY <2>3, <2>5, <2>6, <2>7
<1>8. Late(r) \subseteq DuesOf(r) \X (1 .. TaskNum)
  <2> SUFFICES ASSUME NEW u \in Tasks, NEW i \in 1 .. Withheld(u, r)
               PROVE  u \in DuesOf(r) /\ i \in 1 .. TaskNum
    BY DEF Late
  <2>1. /\ Withheld(u, r) \in Nat /\ Withheld(u, r) <= TaskNum
        /\ Withheld(u, r) # 0 => u \in DuesOf(r)
    BY LateWide
  <2> QED
    BY <1>2, <2>1
<1>9. Cardinality(Late(r)) <= TaskNum * NumSlots /\ Cardinality(Late(r)) \in Nat
  <2>1. IsFiniteSet(1 .. TaskNum) /\ Cardinality(1 .. TaskNum) = TaskNum
    <3>1. 1 \in Int /\ TaskNum \in Int
      BY <1>2
    <3>2. IsFiniteSet(1 .. TaskNum)
          /\ Cardinality(1 .. TaskNum) = IF 1 > TaskNum THEN 0 ELSE TaskNum - 1 + 1
      BY <3>1, FS_Interval
    <3> QED
      BY <1>2, <3>2
  <2> DEFINE X == DuesOf(r) \X (1 .. TaskNum)
  <2>2. IsFiniteSet(X) /\ Cardinality(X) = Cardinality(DuesOf(r)) * TaskNum
    BY <1>1, <2>1, FS_Product
  <2>3. IsFiniteSet(Late(r)) /\ Cardinality(Late(r)) <= Cardinality(DuesOf(r)) * TaskNum
    <3> HIDE DEF X
    <3>1. Late(r) \in SUBSET X
      BY <1>8 DEF X
    <3> QED
      BY <2>2, <3>1, FS_Subset
  <2>4. Cardinality(DuesOf(r)) <= NumSlots
    BY <1>1, <1>2, <1>3, <1>4
  <2>5. TaskNum * Cardinality(DuesOf(r)) <= TaskNum * NumSlots
    BY <1>1, <1>2, <1>6, <2>4
  <2>6. Cardinality(DuesOf(r)) * TaskNum = TaskNum * Cardinality(DuesOf(r))
        /\ TaskNum * Cardinality(DuesOf(r)) \in Nat /\ TaskNum * NumSlots \in Nat
    BY <1>1, <1>2
  <2>7. Cardinality(Late(r)) \in Nat
    BY <2>3, FS_CardinalityType
  <2> QED
    BY <2>3, <2>5, <2>6, <2>7
<1>10. DuesOf(r) = {} => Late(r) = {}
  BY <1>8
<1> QED
  BY <1>5, <1>7, <1>9, <1>10

\* With heads of two words no addend is missing at zero, or all are.
LEMMA ZeroWide ==
  ASSUME IsFiniteSet(Objs), Sound, Places, AllPushes, AllAmounts, build.words = 2,
         NEW r \in Objs, Roomy(r), Settled(r), refs[r] = 0
  PROVE  /\ Cardinality(Debts(r)) = Cardinality(Late(r))
         /\ Missing(r) \in {0, NumSlots}
<1> DEFINE D == Cardinality(Debts(r))
           L == Cardinality(Late(r))
           M == Missing(r)
           e == D - L
           N == NumSlots
           X == TaskNum * NumSlots
<1>1. D \in Nat /\ L \in Nat /\ D <= X /\ L <= X /\ M \in 0 .. N /\ X \in Nat
  <2>1. TaskNum \in Nat /\ NumSlots \in Nat
    BY SlotFacts DEF Sound, HyalineTypeOK
  <2> QED
    BY <2>1, SumsWide
<1>2. PICK d \in Nat \ {0} : /\ CounterMod = d * N /\ d > X
                             /\ Addend = IF N = 1 THEN 0 ELSE d
  BY AddendIs DEF Sound, HyalineTypeOK
<1>3. e \in Int /\ e < d /\ 0 - d < e
  <2> HIDE DEF D, L, X
  <2> QED
    BY <1>1, <1>2
<1>4. (e - Addend * M) % CounterMod = 0
  BY DEF Settled, Worth
<1>5. N \in Nat \ {0}
  BY SlotFacts DEF Sound, HyalineTypeOK
<1> HIDE DEF e, M, N, X
<1>6. e = 0 /\ M \in {0, N}
  BY <1>1, <1>2, <1>3, <1>4, <1>5, Balance
<1>7. D = L
  <2> HIDE DEF D, L
  <2> QED
    BY <1>1, <1>6 DEF e
<1> QED
  BY <1>6, <1>7 DEF M, N

-----------------------------------------------------------------------------
(***************************************************************************)
(* A counter at zero, with heads of one word.                              *)
(***************************************************************************)

Sole(r) == \A u, v \in Active(r) : u = v

\* What a batch with heads of one word can come to.
LEMMA SumsNarrow ==
  ASSUME IsFiniteSet(Objs), Sound, AllAmounts, AllTidy, build.words = 1,
         NEW r \in Objs, Roomy(r), Sole(r)
  PROVE  /\ Cardinality(Debts(r)) \in 0 .. TaskNum /\ Cardinality(Late(r)) \in 0 .. TaskNum
         /\ Active(r) = {} => Cardinality(Late(r)) = 0
         /\ Active(r) # {} => Cardinality(Debts(r)) <= Cardinality(Late(r))
<1>1. TaskNum \in Nat /\ Cardinality(Debts(r)) \in Nat
  BY DebtsFinite, ManyCounts
<1>2. /\ Cardinality(Debts(r)) <= TaskNum
      /\ Active(r) # {} => Cardinality(Debts(r)) <= Cardinality(Late(r))
  BY DEF Roomy
<1>3. Active(r) = {} => Cardinality(Late(r)) = 0
  BY LateSole DEF Sole
<1>4. ASSUME NEW u \in Active(r) PROVE Cardinality(Late(r)) \in 0 .. TaskNum
  <2>1. u \in Tasks /\ Cardinality(Late(r)) = Withheld(u, r)
    BY LateSole DEF Sole, Active
  <2>2. Withheld(u, r) \in Nat
    BY <2>1, WithheldType
  <2>3. Tidy(u) /\ Control(u) /\ Amounts(u)
    BY <2>1, SoundParts DEF AllTidy, AllAmounts
  <2>4. CASE Retiring(u) = r
    <3>1. rt[u].first # NULL
      BY <2>4 DEF Ptrs, Retiring
    <3>2. pc[u] \in {"rt_access", "rt_load", "rt_cas", "rt_adj", "rt_count"}
      BY <2>3, <3>1 DEF Tidy, Retires
    <3>3. rt[u].adjs <= TaskNum
      BY <2>3, <3>2 DEF Amounts
    <3> QED
      BY <1>1, <2>1, <2>2, <2>4, <3>3 DEF Withheld
  <2>5. CASE Retiring(u) # r
    <3>1. pc[u] = "rt_fin" /\ link[rt[u].node] = r
      BY <2>5 DEF Active
    <3>2. rt[u].amt <= TaskNum
      BY <2>3, <3>1 DEF Amounts
    <3>3. Withheld(u, r) = rt[u].amt
      BY <2>5, <3>1 DEF Withheld, Adjusting
    <3> QED
      BY <1>1, <2>1, <2>2, <3>2, <3>3
  <2> QED
    BY <2>4, <2>5
<1> QED
  BY <1>1, <1>2, <1>3, <1>4

\* A difference within the bounds of the counters.
LEMMA Slight ==
  ASSUME NEW m \in Nat \ {0}, NEW e \in Int, e < m, 0 - m < e, e % m = 0
  PROVE  e = 0
<1>1. PICK q \in Int : e = q * m + (e % m)
  <2>1. m \in Int /\ m > 0
    OBVIOUS
  <2> QED
    BY <2>1, Quotient
<1>2. e = q * m
  BY <1>1
<1>3. Even(e, m)
  BY <1>2 DEF Even
<1> QED
  BY <1>3, EvenSmall

\* With heads of one word a debt is withheld for each at zero.
LEMMA ZeroNarrow ==
  ASSUME IsFiniteSet(Objs), Sound, AllAmounts, AllTidy, build.words = 1,
         NEW r \in Objs, Roomy(r), Sole(r), Settled(r), refs[r] = 0
  PROVE  Cardinality(Debts(r)) = Cardinality(Late(r))
<1> DEFINE D == Cardinality(Debts(r))
           L == Cardinality(Late(r))
           e == D - L
<1>1. D \in 0 .. TaskNum /\ L \in 0 .. TaskNum
  BY SumsNarrow
<1>2. TaskNum \in Nat /\ TaskNum < CounterMod
  BY ManyCounts
<1>3. (D - L - 0) % CounterMod = 0
  BY DEF Settled, Worth
<1>4. e % CounterMod = 0 /\ e \in Int /\ e < CounterMod /\ 0 - CounterMod < e
  <2>1. D \in Int /\ L \in Int /\ D - L - 0 = D - L
    BY <1>1
  <2>2. e % CounterMod = 0
    BY <1>3, <2>1
  <2> HIDE DEF D, L
  <2>3. e \in Int /\ e < CounterMod /\ 0 - CounterMod < e
    BY <1>1, <1>2
  <2> QED
    BY <2>2, <2>3
<1> HIDE DEF e
<1>5. e = 0
  BY <1>4, Slight
<1> HIDE DEF D, L
<1>6. D = L
  BY <1>1, <1>5 DEF e
<1> QED
  BY <1>6 DEF D, L

\* A batch that no thread will come past.
Gone(r) == Nodes(r) = {} /\ Active(r) = {}

\* There is nothing to drop when the sum of the references is zero.
LEMMA NoDebts ==
  ASSUME IsFiniteSet(Objs), Sound, NEW r, Cardinality(Debts(r)) = 0
  PROVE  \A n \in AllOwed : link[n] # r
<1>1. Debts(r) = {}
  BY DebtsFinite, FS_EmptySet
<1> SUFFICES ASSUME NEW n \in AllOwed, link[n] = r PROVE FALSE
  OBVIOUS
<1>2. PICK u \in Tasks : n \in Owed(u)
  BY DEF AllOwed
<1>3. <<u, n>> \in Debts(r)
  BY <1>2, DebtsFinite
<1> QED
  BY <1>1, <1>3

\* A batch that nobody pushes and whose counter is zero is gone.
LEMMA GoneNarrow ==
  ASSUME IsFiniteSet(Objs), Sound, Places, AllAmounts, AllTidy, build.words = 1,
         NEW r \in Objs, Roomy(r), Settled(r), refs[r] = 0, Active(r) = {}
  PROVE  Gone(r)
<1>1. Cardinality(Debts(r)) = 0
  <2>1. Sole(r)
    BY DEF Sole
  <2>2. Cardinality(Late(r)) = 0
    BY <2>1, SumsNarrow
  <2> QED
    BY <2>1, <2>2, ZeroNarrow
<1>2. \A n \in AllOwed : link[n] # r
  BY <1>1, NoDebts
<1>3. Buried = {}
  BY SoundParts DEF Control, Due, Buried
<1>4. Tops \subseteq AllOwed
  <2> SUFFICES ASSUME NEW s \in Slots, head[s].ptr # NULL PROVE head[s].ptr \in AllOwed
    BY DEF Tops
  <2>1. head[s].ref # 0
    BY DEF Places
  <2>2. PICK v \in Tasks : vec[v] = s /\ Inside(v)
    BY <2>1, Owner
  <2>3. head[s].ptr \in Line(v)
    BY <2>2, LineFacts
  <2> QED
    BY <2>3 DEF AllOwed, Owed, ToDrop
<1> QED
  BY <1>2, <1>3, <1>4 DEF Gone, Nodes, InPlay

\* A batch whose counter is zero and that does not miss all is gone.
LEMMA GoneWide ==
  ASSUME IsFiniteSet(Objs), Sound, Places, AllPushes, AllAmounts, AllHolds, AllTidy,
         build.words = 2, NEW r \in Objs, Roomy(r), Settled(r), refs[r] = 0,
         Missing(r) # NumSlots
  PROVE  Gone(r)
<1>1. Missing(r) = 0 /\ Cardinality(Debts(r)) = Cardinality(Late(r))
  BY ZeroWide
<1>2. /\ IsFiniteSet(DuesOf(r)) /\ Cardinality(DuesOf(r)) \in Nat
      /\ IsFiniteSet(HeadsOf(r)) /\ Cardinality(HeadsOf(r)) \in Nat
  BY NodesSplit
<1>3. NumSlots \in Nat \ {0} /\ SMRBatch \in Nat
  BY SlotFacts DEF Sound, HyalineTypeOK
<1> DEFINE F == [u \in Tasks |-> LackOf(u, r)]
<1>4. F \in [Tasks -> SUBSET (1 .. NumSlots)] /\ IsFiniteSet(1 .. NumSlots)
  <2>1. F \in [Tasks -> SUBSET (1 .. NumSlots)]
    BY LackingType DEF LackOf
  <2>2. 1 \in Int /\ NumSlots \in Int
    BY <1>3
  <2> QED
    BY <2>1, <2>2, FS_Interval
<1>5. Unadded(r) = Cardinality(Tokens(Tasks, F))
  BY LackForm DEF Unadded
<1> HIDE DEF F
<1>6. Unadded(r) \in Nat
  <2>1. IsFiniteSet(1 .. NumSlots) /\ IsFiniteSet(Tasks)
    BY <1>4, TasksFinite
  <2>2. Cardinality(Tokens(Tasks, F)) \in Nat
    BY <1>4, <2>1, TokensFinite
  <2> QED
    BY <1>5, <2>2
<1>7. Cardinality(HeadsOf(r)) = 0 /\ Cardinality(DuesOf(r)) = 0 /\ Unadded(r) = 0
  BY <1>1, <1>2, <1>6, MissingIs
<1>8. HeadsOf(r) = {} /\ DuesOf(r) = {}
  BY <1>2, <1>7, FS_EmptySet
<1>9. \A u \in Tasks : LackOf(u, r) = {}
  <2>1. \A u \in Tasks : F[u] = {}
    BY <1>4, <1>5, <1>7, TasksFinite, TokensNone
  <2> QED
    BY <2>1 DEF F
<1>10. Cardinality(Debts(r)) = 0
  BY <1>1, <1>8, SumsWide, FS_EmptySet
<1>11. Nodes(r) = {}
  <2>1. \A n \in AllOwed : link[n] # r
    BY <1>10, NoDebts
  <2>2. \A n \in Tops : link[n] # r
    BY <1>8 DEF Tops, HeadsOf
  <2>3. \A n \in Buried : link[n] # r
    BY <1>8 DEF Buried, DuesOf
  <2> QED
    BY <2>1, <2>2, <2>3 DEF Nodes, InPlay
<1>12. Active(r) = {}
  <2> SUFFICES ASSUME NEW u \in Active(r) PROVE FALSE
    OBVIOUS
  <2>1. u \in Tasks /\ Lacking(u) = {}
    BY <1>9 DEF Active, LackOf
  <2>2. Tidy(u) /\ Control(u) /\ Enough(u) /\ Holds(u)
    BY <2>1, SoundParts DEF AllTidy, AllHolds
  <2>3. CASE rt[u].first = NULL
    <3>1. 1 \in Lacking(u)
      BY <1>3, <2>3 DEF Lacking
    <3> QED
      BY <2>1, <3>1
  <2>4. CASE rt[u].first # NULL
    <3>1. pc[u] \in Retires
      BY <2>2, <2>4 DEF Tidy
    <3>2. Retiring(u) = r
      BY <3>1 DEF Retires, Active
    <3>3. /\ at[u] \in Nat /\ at[u] < NumSlots /\ Len(rt[u].todo) \in Nat
          /\ Len(rt[u].todo) + at[u] >= SMRBatch
      BY <2>1, <2>2, <3>1, AtFacts DEF Enough
    <3> DEFINE k == NumSlots - SMRBatch + Len(rt[u].todo) - Pushed(u)
    <3>4. Lacking(u) = 1 .. k
      BY <2>4 DEF Lacking, Pushed
    <3>5. k < 1
      <4>0. Pushed(u) \in {0, 1}
        BY DEF Pushed
      <4>1. k \in Int
        BY <1>3, <3>3, <4>0
      <4>3. 1 .. k = {}
        BY <2>1, <3>4
      <4> HIDE DEF k
      <4>2. k >= 1 => 1 \in 1 .. k
        BY <4>1
      <4> QED
        BY <4>1, <4>2, <4>3
    <3>6. pc[u] \in {"rt_adj", "rt_count"}
      <4> SUFFICES ASSUME Pushed(u) = 0 PROVE FALSE
        BY DEF Pushed
      <4> QED
        BY <1>3, <3>3, <3>5
    <3>7. at[u] = NumSlots - 1 /\ ~(Skips(u) > 0)
      BY <1>3, <3>3, <3>5, <3>6 DEF Pushed, Skips
    <3>8. vec[u] \in Slots /\ vec[u] <= at[u]
      BY <1>3, <2>1, <3>7, SoundParts, Fields DEF Slots
    <3>9. PICK n \in Owed(u) \union {head[vec[u]].ptr} : n # NULL /\ link[n] = Retiring(u)
      BY <2>2, <3>6, <3>7, <3>8 DEF Holds
    <3>10. n \in InPlay
      BY <2>1, <3>8, <3>9 DEF InPlay, AllOwed, Tops
    <3> QED
      BY <1>11, <3>2, <3>9, <3>10 DEF Nodes
  <2> QED
    BY <2>3, <2>4
<1> QED
  BY <1>11, <1>12 DEF Gone

-----------------------------------------------------------------------------
(***************************************************************************)
(* A counter at zero: nobody refers to the batch any more.                 *)
(***************************************************************************)

\* The elements of a set can be numbered.
LEMMA Numbered ==
  ASSUME NEW S, IsFiniteSet(S), NEW n \in Nat, Cardinality(S) <= n
  PROVE  \E f \in [S -> 1 .. n] : \A x, y \in S : f[x] = f[y] => x = y
<1> DEFINE k == Cardinality(S)
<1>1. k \in Nat /\ ExistsBijection(1 .. k, S)
  BY FS_CardinalityType
<1> HIDE DEF k
<1>2. PICK b \in [1 .. k -> S] : \A x \in S : \E i \in 1 .. k : b[i] = x
  BY <1>1 DEF ExistsBijection, Bijection, Injection, Surjection
<1> DEFINE f == [x \in S |-> CHOOSE i \in 1 .. k : b[i] = x]
<1>3. \A x \in S : f[x] \in 1 .. k /\ b[f[x]] = x
  BY <1>2
<1>4. k <= n
  BY DEF k
<1>5. f \in [S -> 1 .. n]
  BY <1>1, <1>3, <1>4
<1>6. \A x, y \in S : f[x] = f[y] => x = y
  <2> HIDE DEF f
  <2> QED
    BY <1>3
<1> QED
  BY <1>5, <1>6

\* Where every node of a batch is at a head or on its way from one, and a slot
\* has one of them, or will not have: all that threads owe is still late.
LEMMA DropsFull ==
  ASSUME IsFiniteSet(Objs), Sound, Places, AllPushes, AllAmounts, build.words = 2,
         NEW r \in Objs, Roomy(r), Missing(r) = NumSlots
  PROVE  Cardinality(Debts(r)) <= Cardinality(Late(r))
<1>1. /\ Cardinality(HeadsOf(r)) \in Nat /\ Cardinality(DuesOf(r)) \in Nat
      /\ Cardinality(Nodes(r)) \in Nat
      /\ Cardinality(HeadsOf(r)) + Cardinality(DuesOf(r)) <= Cardinality(Nodes(r))
      /\ Cardinality(HeadsOf(r)) + Cardinality(DuesOf(r)) = Cardinality(Nodes(r))
               => Nodes(r) \subseteq Tops \union Buried
  BY NodesSplit
<1>2. NumSlots \in Nat
  BY SlotFacts DEF Sound, HyalineTypeOK
<1>3. Unadded(r) \in Nat
  <2> DEFINE F == [u \in Tasks |-> LackOf(u, r)]
  <2>1. F \in [Tasks -> SUBSET (1 .. NumSlots)]
    BY LackingType DEF LackOf
  <2>2. 1 \in Int /\ NumSlots \in Int
    BY <1>2
  <2>3. IsFiniteSet(1 .. NumSlots) /\ IsFiniteSet(Tasks)
    BY <2>2, FS_Interval, TasksFinite
  <2>4. Unadded(r) = Cardinality(Tokens(Tasks, F))
    BY LackForm DEF Unadded
  <2> HIDE DEF F
  <2>5. Cardinality(Tokens(Tasks, F)) \in Nat
    BY <2>1, <2>3, TokensFinite
  <2> QED
    BY <2>4, <2>5
<1>4. Nodes(r) \subseteq Tops \union Buried
  <2>1. Unadded(r) + Cardinality(Nodes(r)) <= NumSlots
    BY DEF Roomy
  <2>2. Cardinality(HeadsOf(r)) + Cardinality(DuesOf(r)) + Unadded(r) = NumSlots
    BY MissingIs
  <2>3. Cardinality(HeadsOf(r)) + Cardinality(DuesOf(r)) = Cardinality(Nodes(r))
    BY <1>1, <1>2, <1>3, <2>1, <2>2
  <2> QED
    BY <1>1, <2>3
<1>5. \A u, m : <<u, m>> \in Debts(r) <=> u \in Tasks /\ m \in Owed(u) /\ link[m] = r
  BY DebtsFinite
<1>6. \A p \in Debts(r) : p = <<p[1], p[2]>>
  BY DEF Debts
<1>7. ASSUME NEW u \in Tasks, NEW m \in Owed(u), link[m] = r
      PROVE  \E v \in DuesOf(r) : rt[v].node = m
  <2>1. m \in AllOwed /\ m \in Nodes(r)
    BY <1>7 DEF Nodes, InPlay, AllOwed
  <2>2. m \in Buried
    BY <1>4, <2>1 DEF Places
  <2> QED
    BY <1>7, <2>2 DEF Buried, DuesOf
<1> DEFINE Numbers(v) == {f \in [Debtors(rt[v].node) -> 1 .. Withheld(v, r)] :
                             \A x, y \in Debtors(rt[v].node) : f[x] = f[y] => x = y}
<1>8. \A v \in DuesOf(r) : Numbers(v) # {}
  <2> TAKE v \in DuesOf(r)
  <2>1. v \in Tasks /\ Due(v)
    BY DEF DuesOf
  <2>2. rt[v].node \in Objs /\ Withheld(v, r) = LateBy(v) /\ Withheld(v, r) \in Nat
    BY <2>1, LateWide
  <2>3. Cardinality(Debtors(rt[v].node)) <= Withheld(v, r)
    BY <2>1, <2>2 DEF Places
  <2>4. IsFiniteSet(Debtors(rt[v].node))
    BY TasksFinite, FS_Subset DEF Debtors
  <2> QED
    BY <2>2, <2>3, <2>4, Numbered
<1> DEFINE g(v) == CHOOSE f \in Numbers(v) : TRUE
           w(m) == CHOOSE v \in DuesOf(r) : rt[v].node = m
<1>9. \A v \in DuesOf(r) : g(v) \in Numbers(v)
  BY <1>8
<1> HIDE DEF g
<1>10. \A v \in DuesOf(r) :
          /\ \A x \in Debtors(rt[v].node) : g(v)[x] \in 1 .. Withheld(v, r)
          /\ \A x, y \in Debtors(rt[v].node) : g(v)[x] = g(v)[y] => x = y
  BY <1>9
<1>11. \A u \in Tasks : \A m \in Owed(u) : link[m] = r =>
          w(m) \in DuesOf(r) /\ rt[w(m)].node = m /\ u \in Debtors(rt[w(m)].node)
  BY <1>7 DEF Debtors
<1> HIDE DEF w, Numbers
<1> DEFINE F == [p \in Debts(r) |-> <<w(p[2]), g(w(p[2]))[p[1]]>>]
<1>12. \A p \in Debts(r) : /\ p[1] \in Tasks /\ p[2] \in Owed(p[1]) /\ link[p[2]] = r
  BY <1>5, <1>6
<1>13. F \in [Debts(r) -> Late(r)]
  <2> SUFFICES ASSUME NEW p \in Debts(r) PROVE <<w(p[2]), g(w(p[2]))[p[1]]>> \in Late(r)
    OBVIOUS
  <2>1. w(p[2]) \in DuesOf(r) /\ p[1] \in Debtors(rt[w(p[2])].node)
    BY <1>11, <1>12
  <2>2. g(w(p[2]))[p[1]] \in 1 .. Withheld(w(p[2]), r) /\ w(p[2]) \in Tasks
    BY <1>10, <2>1 DEF DuesOf
  <2> QED
    BY <2>2 DEF Late
<1>14. ASSUME NEW p \in Debts(r), NEW q \in Debts(r), F[p] = F[q] PROVE p = q
  <2>1. w(p[2]) = w(q[2]) /\ g(w(p[2]))[p[1]] = g(w(q[2]))[q[1]]
    BY <1>14
  <2>2. p[2] = q[2]
    BY <1>11, <1>12, <2>1
  <2>3. p[1] = q[1]
    BY <1>10, <1>11, <1>12, <2>1, <2>2
  <2> QED
    BY <1>6, <2>2, <2>3
<1>15. IsFiniteSet(Late(r))
  <2> DEFINE G == [u \in Tasks |-> 1 .. Withheld(u, r)]
  <2>1. TaskNum \in Nat
    BY ManyCounts
  <2>2. G \in [Tasks -> SUBSET (1 .. TaskNum)]
    BY <2>1, LateWide
  <2>3. IsFiniteSet(1 .. TaskNum) /\ IsFiniteSet(Tasks)
    BY <2>1, FS_Interval, TasksFinite
  <2>4. Late(r) = Tokens(Tasks, G)
    BY SumForms
  <2> HIDE DEF G
  <2>5. IsFiniteSet(Tokens(Tasks, G))
    BY <2>2, <2>3, TokensFinite
  <2> QED
    BY <2>4, <2>5
<1> HIDE DEF F
<1> QED
  BY <1>13, <1>14, <1>15, OneToOne

-----------------------------------------------------------------------------
\* What holds of the sums, for the states before and after a step.
Base ==
    /\ Sound /\ Places /\ AllPushes /\ AllAmounts /\ AllHolds /\ AllTidy
Zeros ==
    \A r \in Objs :
        /\ Roomy(r) /\ Settled(r) /\ refs[r] = 0
        /\ IF build.words = 2 THEN Missing(r) # NumSlots ELSE Active(r) = {}
        => Gone(r)
Ends == \A r \in Objs : Gone(r) /\ Settled(r) => refs[r] = 0

\* A counter is zero after a change exactly when its batch is gone.
LEMMA ZerosHold == Base => Zeros
<1> SUFFICES ASSUME Base, NEW r \in Objs, Roomy(r), Settled(r), refs[r] = 0,
                    IF build.words = 2 THEN Missing(r) # NumSlots ELSE Active(r) = {}
             PROVE  Gone(r)
  BY DEF Zeros
<1>1. build.words \in {1, 2} /\ IsFiniteSet(Objs)
  BY SlotFacts, BlocksAssumption DEF Base, Sound, HyalineTypeOK
<1> QED
  BY <1>1, GoneNarrow, GoneWide DEF Base

\* A batch of which nothing is left.
Nulls ==
    \A r \in Objs : Gone(r) =>
        /\ Cardinality(Debts(r)) = 0 /\ Cardinality(Late(r)) = 0
        /\ Unadded(r) = 0 /\ Missing(r) = 0 /\ Worth(r) = 0

\* A batch that is gone has no debts, misses nothing and is worth nothing.
LEMMA NullsHold == Base => Nulls
<1> SUFFICES ASSUME Base, NEW r \in Objs, Nodes(r) = {}, Active(r) = {}
             PROVE  /\ Cardinality(Debts(r)) = 0 /\ Cardinality(Late(r)) = 0
                    /\ Unadded(r) = 0 /\ Missing(r) = 0 /\ Worth(r) = 0
  BY DEF Nulls, Gone
<1>1. Sound /\ Places /\ AllAmounts /\ build.words \in {1, 2} /\ IsFiniteSet(Objs)
  BY SlotFacts, BlocksAssumption DEF Base, Sound, HyalineTypeOK
<1>2. Debts(r) = {}
  BY DEF Debts, Nodes, InPlay, AllOwed
<1>3. Late(r) = {}
  <2> SUFFICES ASSUME NEW u \in Tasks PROVE Withheld(u, r) = 0
    BY DEF Late
  <2>1. Retiring(u) # r /\ ~(pc[u] = "rt_fin" /\ link[rt[u].node] = r)
    BY DEF Active
  <2>2. ~(Due(u) /\ link[rt[u].node] = r)
    BY DEF Nodes, InPlay, Buried
  <2> QED
    BY <2>1, <2>2 DEF Withheld, Adjusting, Due
<1>4. Cardinality(Debts(r)) = 0 /\ Cardinality(Late(r)) = 0
  BY <1>2, <1>3, FS_EmptySet
<1>5. HeadsOf(r) = {} /\ DuesOf(r) = {}
  BY DEF HeadsOf, DuesOf, Nodes, InPlay, Tops, Buried
<1>6. Unadded(r) = 0
  BY FS_EmptySet DEF Unadded
<1>7. Missing(r) = 0
  <2>1. Cardinality(HeadsOf(r)) = 0 /\ Cardinality(DuesOf(r)) = 0
    BY <1>5, FS_EmptySet
  <2> QED
    BY <1>6, <2>1, MissingIs
<1>8. Worth(r) = 0
  <2>1. Addend \in Int
    BY <1>1, SlotFacts DEF Sound, HyalineTypeOK
  <2>2. Addend * 0 = 0
    BY <2>1
  <2> QED
    BY <1>4, <1>7, <2>2 DEF Worth
<1> QED
  BY <1>4, <1>6, <1>7, <1>8

\* The counter of a batch that is gone is zero.
LEMMA EndsHold == Base => Ends
<1> SUFFICES ASSUME Base, NEW r \in Objs, Gone(r), Settled(r)
             PROVE  refs[r] = 0
  BY DEF Ends
<1>1. Worth(r) = 0
  BY NullsHold DEF Nulls
<1> QED
  BY <1>1, NoRemainder DEF Settled

-----------------------------------------------------------------------------
(***************************************************************************)
(* An adjustment is made.                                                  *)
(***************************************************************************)

\* An adjustment that was due, or the last one of retire, is made.
Adjusts(t) ==
    /\ Stays(t) /\ Calm /\ head' = head /\ vec' = vec
    /\ refs' = [refs EXCEPT ![link[rt[t].node]] = (@ + rt[t].amt) % CounterMod]
    /\ list' = [list EXCEPT ![t] = Adjusted(t, rt[t].node, rt[t].amt)]
    /\ \/ /\ pc[t] = "rt_adj" /\ pc'[t] = "rt_count" /\ at'[t] = at[t]
          /\ rt'[t].todo = rt[t].todo /\ rt'[t].first = rt[t].first
          /\ rt'[t].adjs = rt[t].adjs /\ rt'[t].skipped = rt[t].skipped
       \/ /\ pc[t] \in {"lv_adj", "rt_fin"}
          /\ pc'[t] \notin Retires \union {"rt_fin", "lv_adj", "lv_clear", "lv_cas"}

\* The node whose batch is adjusted.
LEMMA AdjustsNode ==
  ASSUME Books, NEW t \in Tasks, Adjusts(t)
  PROVE  /\ Sound /\ Sound' /\ Tidy(t) /\ Tidy(t)' /\ build' = build /\ link' = link
         /\ batch' = batch /\ Slots' = Slots /\ Addend' = Addend
         /\ NumSlots' = NumSlots /\ SMRBatch' = SMRBatch
         /\ rt[t].node \in Objs /\ link[rt[t].node] \in Objs
         /\ rt[t].amt \in 0 .. CounterMod - 1
         /\ rt[t].amt \in Int /\ build.words \in {1, 2}
         /\ pc[t] \in {"rt_adj", "lv_adj"} => build.words = 2
         /\ pc[t] \in {"lv_adj", "rt_fin"} =>
               rt[t].first = NULL /\ rt'[t].first = NULL
               /\ rt[t].todo = <<>> /\ rt'[t].todo = <<>>
         /\ pc[t] = "rt_adj" => rt[t].first \in Objs
         /\ pc[t] \in {"rt_adj", "lv_adj", "rt_fin"}
         /\ ~Due(t)' /\ (Due(t) <=> pc[t] # "rt_fin") /\ ~Adjusting(t)'
         /\ \A u \in Tasks : u # t => SameLedger(u) /\ list'[u] = list[u]
<1>1. /\ Stays(t) /\ Control(t) /\ rt[t] \in Batches /\ link \in [Objs -> Objs]
      /\ build \in Builds
  BY SoundParts, Fields, TypeParts DEF Adjusts, Books, Sound, SharedTypeOK
<1>2. /\ Sound /\ Sound' /\ Tidy(t) /\ Tidy(t)' /\ link' = link /\ batch' = batch
  BY <1>1 DEF Stays, Neat, AllTidy
<1>3. /\ build' = build /\ Slots' = Slots /\ Addend' = Addend
      /\ NumSlots' = NumSlots /\ SMRBatch' = SMRBatch
      /\ \A u \in Tasks : u # t => SameLedger(u) /\ list'[u] = list[u]
  BY <1>1, StaysFacts
<1>4. pc[t] \in {"rt_adj", "lv_adj", "rt_fin"}
  BY DEF Adjusts
<1>5. /\ rt[t].node \in Objs /\ (pc[t] = "rt_adj" => rt[t].first \in Objs)
      /\ (pc[t] \in {"rt_adj", "lv_adj"} => build.words = 2)
  BY <1>1, <1>4 DEF Batches, Control, Ptrs, Retires
<1>6. rt[t].amt \in 0 .. CounterMod - 1 /\ rt[t].amt \in Int
  BY <1>1 DEF Batches
<1>7. build.words \in {1, 2}
  BY <1>1, SlotFacts
<1>8. pc[t] \in {"lv_adj", "rt_fin"} =>
               rt[t].first = NULL /\ rt'[t].first = NULL
               /\ rt[t].todo = <<>> /\ rt'[t].todo = <<>>
  BY <1>2 DEF Tidy, Adjusts, Retires
<1>9. ~Due(t)' /\ (Due(t) <=> pc[t] # "rt_fin") /\ ~Adjusting(t)'
  BY <1>4 DEF Due, Adjusting, Adjusts, Retires
<1> QED
  BY <1>1, <1>2, <1>3, <1>4, <1>5, <1>6, <1>7, <1>8, <1>9

\* The node leaves the places of the nodes, and no other does.
LEMMA AdjustsPlay ==
  ASSUME Books, NEW t \in Tasks, Adjusts(t)
  PROVE  /\ AllOwed' = AllOwed /\ Tops' = Tops /\ Walked'
         /\ \A n : Debtors(n)' = Debtors(n)
         /\ Buried' \subseteq Buried /\ InPlay' \subseteq InPlay
         /\ InPlay \subseteq InPlay' \union {rt[t].node}
         /\ pc[t] # "rt_fin" => rt[t].node \in InPlay
         /\ pc[t] = "rt_fin" => InPlay' = InPlay
         /\ \A q : /\ Nodes(q)' \subseteq Nodes(q)
                   /\ q # link[rt[t].node] => Nodes(q)' = Nodes(q)
         /\ \A u \in Tasks : u # t => (Due(u)' <=> Due(u)) /\ rt'[u] = rt[u]
<1>1. /\ ~Due(t)' /\ (Due(t) <=> pc[t] # "rt_fin") /\ link' = link /\ Slots' = Slots
      /\ \A u \in Tasks : u # t => (Due(u)' <=> Due(u)) /\ rt'[u] = rt[u]
  BY AdjustsNode DEF SameLedger
<1>2. AllOwed' = AllOwed /\ Walked' /\ \A n : Debtors(n)' = Debtors(n)
  BY SameOwed DEF Adjusts
<1>3. Tops' = Tops
  BY <1>1 DEF Adjusts, Tops
<1>4. \A n : n \in Buried <=> \E u \in Tasks : Due(u) /\ n = rt[u].node
  BY DEF Buried
<1>5. \A n : n \in Buried' <=> \E u \in Tasks : Due(u)' /\ n = rt'[u].node
  BY DEF Buried
<1>6. Buried' \subseteq Buried /\ Buried \subseteq Buried' \union {rt[t].node}
  <2>1. \A n : n \in Buried' => n \in Buried
    BY <1>1, <1>4, <1>5
  <2>2. \A n : n \in Buried => n \in Buried' \/ n = rt[t].node
    BY <1>1, <1>4, <1>5
  <2> QED
    BY <2>1, <2>2
<1>7. pc[t] # "rt_fin" => rt[t].node \in Buried
  BY <1>1, <1>4
<1>8. pc[t] = "rt_fin" => Buried' = Buried
  BY <1>1, <1>4, <1>5
<1>9. /\ InPlay' \subseteq InPlay /\ InPlay \subseteq InPlay' \union {rt[t].node}
      /\ (pc[t] # "rt_fin" => rt[t].node \in InPlay)
      /\ (pc[t] = "rt_fin" => InPlay' = InPlay)
  BY <1>2, <1>3, <1>6, <1>7, <1>8 DEF InPlay
<1>10. \A q : /\ Nodes(q)' \subseteq Nodes(q)
              /\ q # link[rt[t].node] => Nodes(q)' = Nodes(q)
  BY <1>1, <1>9 DEF Nodes
<1> QED
  BY <1>1, <1>2, <1>3, <1>6, <1>9, <1>10

\* Every node is still in one place.
LEMMA AdjustsPlaces ==
  ASSUME Books, NEW t \in Tasks, Adjusts(t)
  PROVE  Places'
<1>1. /\ Slots' = Slots /\ Addend' = Addend /\ build' = build /\ ~Due(t)'
      /\ head' = head /\ Calm
  BY AdjustsNode DEF Adjusts
<1>2. /\ AllOwed' = AllOwed /\ Tops' = Tops /\ Buried' \subseteq Buried
      /\ \A n : Debtors(n)' = Debtors(n)
      /\ \A u \in Tasks : u # t => (Due(u)' <=> Due(u)) /\ rt'[u] = rt[u]
  BY AdjustsPlay
<1>3. Places
  BY DEF Books
<1>4. \A y, z \in Slots' : head'[y].ptr = head'[z].ptr /\ head'[y].ptr # NULL => y = z
  BY <1>1, <1>3 DEF Places
<1>5. ASSUME build.words = 2
      PROVE  /\ (Tops \intersect (AllOwed \union Buried))' = {}
             /\ \A u, v \in Tasks : Due(u)' /\ Due(v)' /\ rt'[u].node = rt'[v].node => u = v
             /\ \A u \in Tasks, n \in Objs : Due(u)' /\ rt'[u].node = n =>
                  Cardinality(Debtors(n))' <= LateBy(u)' /\ LateBy(u)' <= TaskNum
  <2>1. /\ Tops \intersect (AllOwed \union Buried) = {}
        /\ \A u, v \in Tasks : Due(u) /\ Due(v) /\ rt[u].node = rt[v].node => u = v
        /\ \A u \in Tasks, n \in Objs : Due(u) /\ rt[u].node = n =>
             Cardinality(Debtors(n)) <= LateBy(u) /\ LateBy(u) <= TaskNum
    BY <1>3, <1>5 DEF Places
  <2>2. (Tops \intersect (AllOwed \union Buried))' = {}
    BY <1>2, <2>1
  <2>3. \A u, v \in Tasks : Due(u)' /\ Due(v)' /\ rt'[u].node = rt'[v].node => u = v
    BY <1>1, <1>2, <2>1
  <2>4. ASSUME NEW u \in Tasks, NEW n \in Objs, Due(u)', rt'[u].node = n
        PROVE  Cardinality(Debtors(n))' <= LateBy(u)' /\ LateBy(u)' <= TaskNum
    <3>1. u # t /\ Due(u) /\ rt[u].node = n
      BY <1>1, <1>2, <2>4
    <3>2. LateBy(u)' = LateBy(u)
      BY <1>1, <1>2, <3>1 DEF LateBy
    <3> QED
      BY <1>2, <2>1, <3>1, <3>2
  <2> QED
    BY <2>2, <2>3, <2>4
<1>6. ASSUME build.words = 1
      PROVE  /\ \A u, v \in Tasks : (Owed(u) \intersect Owed(v))' # {} => u = v
             /\ \A s \in Slots' : head'[s].ref = 0 => head'[s].ptr = NULL
  BY <1>1, <1>3, <1>6 DEF Places, Calm
<1> QED
  BY <1>1, <1>4, <1>5, <1>6 DEF Places

\* The addends that the last adjustment brings.
LEMMA LastLacks ==
  ASSUME build \in Builds, build.words = 2, NEW t \in Tasks, Amounts(t), pc[t] = "rt_fin",
         rt[t].first = NULL
  PROVE  \E k \in 1 .. NumSlots : /\ rt[t].amt = (k * Addend) % CounterMod
                                  /\ Lacking(t) = 1 .. k
<1>1. PICK k \in 1 .. NumSlots : rt[t].amt = (k * Addend) % CounterMod
  BY DEF Amounts
<1>2. Lacking(t) = {j \in 1 .. NumSlots : \A i \in 1 .. j - 1 :
                         (i * Addend) % CounterMod # (k * Addend) % CounterMod}
  BY <1>1 DEF Lacking
<1>3. Lacking(t) = 1 .. k
  BY <1>2, Decode
<1> QED
  BY <1>1, <1>3

\* The thread withholds nothing more of the batch.
LEMMA AdjustsLedger ==
  ASSUME Books, NEW t \in Tasks, Adjusts(t)
  PROVE  LET r == link[rt[t].node] IN
         /\ Fresh(t)' \subseteq Fresh(t) /\ Ending(t)' \subseteq Ending(t)
         /\ \A q \in Objs : q \in Ending(t) \ Ending(t)' => q = r
         /\ \A q \in Objs :
               /\ t \in Active(q)' => t \in Active(q)
               /\ Withheld(t, q)' = 0
               /\ q # r => Withheld(t, q) = 0
               /\ q # r \/ pc[t] # "rt_fin" => LackOf(t, q)' = LackOf(t, q)
               /\ pc[t] = "rt_fin" => LackOf(t, q)' = {} /\ (t \in Active(q) <=> q = r)
         /\ pc[t] = "rt_fin" => /\ r \in Ending(t) /\ t \in Active(r)
                              /\ \A q \in Objs : t \notin Active(q)'
<1> DEFINE r == link[rt[t].node]
<1>1. /\ Tidy(t) /\ Tidy(t)' /\ build' = build /\ link' = link
      /\ batch' = batch /\ Slots' = Slots /\ Addend' = Addend
      /\ NumSlots' = NumSlots /\ SMRBatch' = SMRBatch
      /\ rt[t].node \in Objs /\ link[rt[t].node] \in Objs
      /\ build.words \in {1, 2}
      /\ pc[t] \in {"rt_adj", "lv_adj"} => build.words = 2
      /\ pc[t] \in {"lv_adj", "rt_fin"} =>
            rt[t].first = NULL /\ rt'[t].first = NULL
            /\ rt[t].todo = <<>> /\ rt'[t].todo = <<>>
      /\ pc[t] = "rt_adj" => rt[t].first \in Objs
      /\ pc[t] \in {"rt_adj", "lv_adj", "rt_fin"}
      /\ ~Adjusting(t)'
  BY AdjustsNode
<1>2. \A q \in Objs : q # NULL
  BY DEF Ptrs
<1>3. Adjusting(t)
  BY <1>1 DEF Adjusting
<1>4. CASE pc[t] = "rt_adj"
  <2>1. /\ pc'[t] = "rt_count" /\ rt'[t].todo = rt[t].todo /\ rt'[t].first = rt[t].first
        /\ build.words = 2 /\ rt[t].first # NULL
    BY <1>1, <1>2, <1>4 DEF Adjusts
  <2>2. Retiring(t)' = Retiring(t)
    BY <1>1, <2>1 DEF Retiring
  <2>3. Ending(t)' = Ending(t)
    BY <1>4, <2>1, <2>2 DEF Ending
  <2>4. Fresh(t)' = Fresh(t)
    BY <1>1, <1>4, <2>1 DEF Fresh, Pushed
  <2>5. \A q \in Objs : t \in Active(q)' <=> t \in Active(q)
    BY <1>4, <2>1, <2>2 DEF Active
  <2>6. Lacking(t)' = Lacking(t)
    BY <1>1, <1>4, <2>1 DEF Lacking
  <2>7. \A q \in Objs : LackOf(t, q)' = LackOf(t, q)
    BY <2>5, <2>6 DEF LackOf
  <2>8. \A q \in Objs : Withheld(t, q)' = 0 /\ (q # r => Withheld(t, q) = 0)
    BY <1>1, <2>1 DEF Withheld
  <2> QED
    BY <1>4, <2>3, <2>4, <2>5, <2>7, <2>8
<1>5. CASE pc[t] \in {"lv_adj", "rt_fin"}
  <2>1. /\ pc'[t] \notin Retires \union {"rt_fin", "lv_adj"}
        /\ rt[t].first = NULL /\ rt'[t].first = NULL
        /\ rt[t].todo = <<>> /\ rt'[t].todo = <<>>
    BY <1>1, <1>5 DEF Adjusts, Retires
  <2>2. Clear(t)'
    BY <1>1, <2>1 DEF Clear
  <2>3. /\ Ending(t)' = {} /\ Retiring(t)' = NULL
        /\ \A q \in Objs : Withheld(t, q)' = 0 /\ LackOf(t, q)' = {} /\ t \notin Active(q)'
    <3>1. Retiring(t)' = NULL
      BY <2>1 DEF Retiring
    <3>2. Ending(t)' = {} /\ \A q \in Objs : t \notin Active(q)'
      BY <1>2, <2>1, <3>1 DEF Ending, Active
    <3>3. \A q \in Objs : Withheld(t, q)' = 0
      BY <1>1, <1>2, <3>1 DEF Withheld
    <3> QED
      BY <3>1, <3>2, <3>3 DEF LackOf
  <2>4. Fresh(t)' = Fresh(t)
    BY <1>1, <2>1 DEF Fresh
  <2>5. Retiring(t) = NULL
    BY <2>1 DEF Retiring
  <2>6. Ending(t) = IF pc[t] = "rt_fin" THEN {r} ELSE {}
    BY <2>5 DEF Ending
  <2>7. \A q \in Objs : t \in Active(q) <=> pc[t] = "rt_fin" /\ q = r
    BY <1>2, <2>5 DEF Active
  <2>8. \A q \in Objs : q # r => Withheld(t, q) = 0 /\ LackOf(t, q) = {}
    BY <1>2, <2>5, <2>7 DEF Withheld, LackOf
  <2>9. r \in Objs /\ (pc[t] = "rt_fin" => r \in Ending(t) /\ t \in Active(r))
    <3>1. r \in Objs
      BY <1>1
    <3>3. pc[t] = "rt_fin" => r \in Ending(t) /\ t \in Active(r)
      <4> HIDE DEF r
      <4> QED
        BY <2>6, <2>7, <3>1
    <3> QED
      BY <3>1, <3>3
  <2>10. /\ Fresh(t)' \subseteq Fresh(t) /\ Ending(t)' \subseteq Ending(t)
         /\ \A q \in Objs : q \in Ending(t) \ Ending(t)' => q = r
    BY <2>3, <2>4, <2>6
  <2>11. \A q \in Objs :
               /\ t \in Active(q)' => t \in Active(q)
               /\ Withheld(t, q)' = 0
               /\ q # r => Withheld(t, q) = 0
               /\ q # r \/ pc[t] # "rt_fin" => LackOf(t, q)' = LackOf(t, q)
               /\ pc[t] = "rt_fin" => LackOf(t, q)' = {} /\ (t \in Active(q) <=> q = r)
    BY <2>3, <2>7, <2>8 DEF LackOf
  <2> HIDE DEF r
  <2> QED
    BY <2>3, <2>9, <2>10, <2>11 DEF r
<1> QED
  BY <1>1, <1>4, <1>5

-----------------------------------------------------------------------------
(***************************************************************************)
(* What it leaves to its thread and to the other batches.                  *)
(***************************************************************************)

\* The rest of the thread's own batch is as it was.
LEMMA AdjustsOwn ==
  ASSUME Books, NEW t \in Tasks, Adjusts(t)
  PROVE  Owns(t)'
<1>1. Stays(t) /\ Calm /\ head' = head /\ vec' = vec
  BY DEF Adjusts
<1>2. /\ build' = build /\ link' = link /\ Addend' = Addend
      /\ NumSlots' = NumSlots /\ SMRBatch' = SMRBatch
      /\ pc[t] \in {"rt_adj", "lv_adj", "rt_fin"} /\ rt[t].todo \in Seq(Objs)
      /\ \A o \in Objs : status'[o] = "retired" <=> status[o] = "retired"
  BY <1>1, AdjustsNode, StaysFacts, SoundParts, Fields
<1>3. CASE pc[t] # "rt_adj"
  BY <1>1, <1>2, <1>3, PlainOwn DEF Adjusts
<1>4. CASE pc[t] = "rt_adj"
  <2>1. /\ pc'[t] = "rt_count" /\ at'[t] = at[t]
        /\ rt'[t].todo = rt[t].todo /\ rt'[t].first = rt[t].first
        /\ rt'[t].adjs = rt[t].adjs /\ rt'[t].skipped = rt[t].skipped
    BY <1>4 DEF Adjusts
  <2>2. Pushes(t) /\ Amounts(t) /\ Holds(t)
    BY DEF Books, AllPushes, AllAmounts, AllHolds
  <2>3. Retiring(t)' = Retiring(t) /\ Skips(t)' = Skips(t)
    BY <1>2, <2>1 DEF Retiring, Skips
  <2>4. \A i \in DOMAIN rt[t].todo : rt[t].todo[i] \in Objs
    BY <1>2
  <2>5. Pushes(t)'
    BY <1>2, <2>1, <2>2, <2>3, <2>4 DEF Pushes
  <2>6. Amounts(t)'
    BY <1>2, <1>4, <2>1, <2>2, <2>3 DEF Amounts
  <2>7. Holds(t)'
    BY <1>1, <1>2, <1>4, <2>1, <2>2, <2>3 DEF Calm, Holds
  <2> QED
    BY <2>5, <2>6, <2>7 DEF Owns
<1> QED
  BY <1>3, <1>4

\* The sums of the other batches stay.
LEMMA AdjustsSums ==
  ASSUME Books, NEW t \in Tasks, Adjusts(t), AllPushes', NEW q \in Objs
  PROVE  /\ Cardinality(Debts(q)) \in Nat /\ Cardinality(Late(q)) \in Nat
         /\ Cardinality(Late(q))' \in Nat /\ Withheld(t, q) \in Nat
         /\ Cardinality(Debts(q))' = Cardinality(Debts(q))
         /\ Cardinality(Late(q))' = Cardinality(Late(q)) - Withheld(t, q)
         /\ Cardinality(LackOf(t, q)) \in Nat /\ Cardinality(LackOf(t, q))' \in Nat
         /\ Unadded(q) \in Nat /\ Unadded(q)' \in Nat
         /\ Unadded(q)' - Unadded(q) = Cardinality(LackOf(t, q))' - Cardinality(LackOf(t, q))
         /\ Cardinality(HeadsOf(q)) \in Nat /\ Cardinality(HeadsOf(q))' = Cardinality(HeadsOf(q))
<1>1. /\ Sound /\ Sound' /\ build' = build /\ link' = link /\ Slots' = Slots
      /\ \A u \in Tasks : u # t => SameLedger(u)
  BY AdjustsNode
<1>2. Calm /\ head' = head /\ AllPushes
  BY DEF Adjusts, Books
<1>3. /\ Cardinality(Debts(q)) \in Nat /\ Cardinality(Debts(q))' = Cardinality(Debts(q))
  <2>1. \A u \in Tasks : OwedTo(u, q)' = OwedTo(u, q)
    BY <1>1, <1>2 DEF Calm, OwedTo
  <2> QED
    BY <1>1, <2>1, DebtsMove
<1>4. /\ Cardinality(Late(q)) \in Nat /\ Withheld(t, q) \in Nat
      /\ Cardinality(Late(q))' \in Nat
      /\ Cardinality(Late(q))' = Cardinality(Late(q)) - Withheld(t, q)
  <2>1. \A u \in Tasks : u # t => Withheld(u, q)' = Withheld(u, q)
    BY <1>1 DEF SameLedger
  <2>2. Withheld(t, q)' = 0
    BY AdjustsLedger
  <2>3. /\ Cardinality(Late(q)) \in Nat /\ Cardinality(Late(q))' \in Nat
        /\ Withheld(t, q) \in Nat
        /\ Cardinality(Late(q))' - Cardinality(Late(q)) = Withheld(t, q)' - Withheld(t, q)
    BY <1>1, <2>1, LateMove
  <2> QED
    BY <2>2, <2>3
<1>5. /\ Cardinality(LackOf(t, q)) \in Nat /\ Cardinality(LackOf(t, q))' \in Nat
      /\ Unadded(q) \in Nat /\ Unadded(q)' \in Nat
      /\ Unadded(q)' - Unadded(q) = Cardinality(LackOf(t, q))' - Cardinality(LackOf(t, q))
  BY <1>1, <1>2, LackMove DEF SameLedger
<1>6. /\ Cardinality(HeadsOf(q)) \in Nat /\ Cardinality(HeadsOf(q))' = Cardinality(HeadsOf(q))
  <2>1. HeadsOf(q)' = HeadsOf(q)
    BY <1>1, <1>2 DEF HeadsOf
  <2>2. IsFiniteSet(HeadsOf(q))
    BY <1>1, SlotsFinite, FS_Subset DEF HeadsOf
  <2> QED
    BY <2>1, <2>2, FS_CardinalityType
<1> QED
  BY <1>3, <1>4, <1>5, <1>6

\* The sums of the other batches are the same.
LEMMA AdjustsOther ==
  ASSUME Books, NEW t \in Tasks, Adjusts(t), AllPushes', NEW q \in Objs,
         q # link[rt[t].node]
  PROVE  /\ Cardinality(Late(q))' = Cardinality(Late(q))
         /\ Unadded(q)' = Unadded(q) /\ Missing(q)' = Missing(q)
         /\ Active(q)' = Active(q)
<1>1. Withheld(t, q) = 0 /\ LackOf(t, q)' = LackOf(t, q)
  BY AdjustsLedger
<1>2. Cardinality(Late(q))' = Cardinality(Late(q)) /\ Unadded(q)' = Unadded(q)
  <2>1. Cardinality(LackOf(t, q))' = Cardinality(LackOf(t, q))
    BY <1>1
  <2> QED
    <3>1. /\ Cardinality(Late(q)) \in Nat
          /\ Cardinality(Late(q))' = Cardinality(Late(q)) - Withheld(t, q)
      BY AdjustsSums
    <3>2. /\ Cardinality(LackOf(t, q)) \in Nat
          /\ Unadded(q) \in Nat /\ Unadded(q)' \in Nat
          /\ Unadded(q)' - Unadded(q) = Cardinality(LackOf(t, q))' - Cardinality(LackOf(t, q))
      BY AdjustsSums
    <3>3. Cardinality(Late(q))' = Cardinality(Late(q))
      BY <1>1, <3>1
    <3>4. Unadded(q)' - Unadded(q) = 0
      BY <2>1, <3>2
    <3> QED
      BY <3>2, <3>3, <3>4
<1>3. DuesOf(q)' = DuesOf(q)
  <2>1. ~Due(t)' /\ link' = link
    BY AdjustsNode
  <2>2. \A u \in Tasks : u # t => (Due(u)' <=> Due(u)) /\ rt'[u] = rt[u]
    BY AdjustsPlay
  <2> QED
    BY <2>1, <2>2 DEF DuesOf
<1>4. Missing(q)' = Missing(q)
  <2>1. Missing(q)' = Cardinality(HeadsOf(q))' + Cardinality(DuesOf(q))' + Unadded(q)'
    BY DEF Missing, HeadsOf, DuesOf, Unadded, Due
  <2>2. Cardinality(HeadsOf(q))' = Cardinality(HeadsOf(q))
    BY AdjustsSums
  <2> QED
    BY <1>2, <1>3, <2>1, <2>2, MissingIs
<1>5. Active(q)' = Active(q)
  <2>1. \A u \in Tasks : u # t => (u \in Active(q)' <=> u \in Active(q))
    BY AdjustsNode DEF SameLedger
  <2>2. t \in Active(q)' <=> t \in Active(q)
    <3>1. t \in Active(q)' => t \in Active(q)
      BY AdjustsLedger
    <3>2. t \in Active(q) => t \in Active(q)'
      <4>1. CASE pc[t] = "rt_fin"
        BY <4>1, AdjustsLedger
      <4>2. CASE pc[t] = "rt_adj"
        BY <4>2, AdjustsNode DEF Adjusts, Retiring, Active
      <4>3. CASE pc[t] = "lv_adj"
        BY <4>3, AdjustsNode DEF Retiring, Ptrs, Active
      <4> QED
        BY <4>1, <4>2, <4>3, AdjustsNode
    <3> QED
      BY <3>1, <3>2
  <2> QED
    BY <2>1, <2>2 DEF Active
<1> QED
  BY <1>2, <1>4, <1>5

-----------------------------------------------------------------------------
(***************************************************************************)
(* What the batch still misses after it.                                   *)
(***************************************************************************)

\* An adjustment of one addend: the pushed node's, or the taken list's.
LEMMA AdjustsDue ==
  ASSUME Books, NEW t \in Tasks, Adjusts(t), AllPushes', pc[t] # "rt_fin", NEW q \in Objs,
         q = link[rt[t].node]
  PROVE  /\ Missing(q)' = Missing(q) - 1 /\ Unadded(q)' = Unadded(q)
         /\ Even(rt[t].amt - (Withheld(t, q) + Addend * 1), CounterMod)
<1>1. LackOf(t, q)' = LackOf(t, q)
  BY AdjustsLedger
<1>2. Unadded(q)' = Unadded(q) /\ Unadded(q) \in Nat
  <2>1. Cardinality(LackOf(t, q))' = Cardinality(LackOf(t, q))
    BY <1>1
  <2>2. /\ Cardinality(LackOf(t, q)) \in Nat
        /\ Unadded(q) \in Nat /\ Unadded(q)' \in Nat
        /\ Unadded(q)' - Unadded(q) = Cardinality(LackOf(t, q))' - Cardinality(LackOf(t, q))
    BY AdjustsSums
  <2>3. Unadded(q)' - Unadded(q) = 0
    BY <2>1, <2>2
  <2> QED
    BY <2>2, <2>3
<1>3. /\ Due(t) /\ ~Due(t)' /\ link' = link /\ Addend' = Addend
      /\ pc[t] \in {"rt_adj", "lv_adj"} /\ build.words = 2 /\ rt[t].amt \in Int
      /\ Sound
  BY AdjustsNode DEF Due
<1>4. /\ Cardinality(DuesOf(q)) \in Nat /\ Cardinality(DuesOf(q))' \in Nat
      /\ Cardinality(DuesOf(q))' - Cardinality(DuesOf(q)) = 0 - 1
  <2>1. \A u \in Tasks : u # t => (u \in DuesOf(q) <=> u \in DuesOf(q)')
    BY <1>3, AdjustsPlay DEF DuesOf
  <2>2. t \in DuesOf(q) /\ t \notin DuesOf(q)'
    BY <1>3 DEF DuesOf
  <2>3. One(t \in DuesOf(q)') = 0 /\ One(t \in DuesOf(q)) = 1
    BY <2>2 DEF One
  <2>4. /\ Cardinality(DuesOf(q)) \in Nat /\ Cardinality(DuesOf(q))' \in Nat
        /\ Cardinality(DuesOf(q))' - Cardinality(DuesOf(q))
              = One(t \in DuesOf(q)') - One(t \in DuesOf(q))
    BY <2>1, DuesMove
  <2> QED
    BY <2>3, <2>4
<1>5. Missing(q)' = Missing(q) - 1
  <2>1. Missing(q)' = Cardinality(HeadsOf(q))' + Cardinality(DuesOf(q))' + Unadded(q)'
    BY DEF Missing, HeadsOf, DuesOf, Unadded, Due
  <2>2. Cardinality(HeadsOf(q))' = Cardinality(HeadsOf(q)) /\ Cardinality(HeadsOf(q)) \in Nat
    BY AdjustsSums
  <2>3. Missing(q) = Cardinality(HeadsOf(q)) + Cardinality(DuesOf(q)) + Unadded(q)
    BY MissingIs
  <2> QED
    BY <1>2, <1>4, <2>1, <2>2, <2>3
<1>6. Addend \in Int /\ CounterMod \in Nat \ {0}
  BY <1>3, SoundParts, SlotFacts
<1>7. Even(rt[t].amt - (Withheld(t, q) + Addend * 1), CounterMod)
  <2> DEFINE a == rt[t].amt
             d == Addend
             w == Withheld(t, q)
  <2>1. a \in Int /\ d \in Int
    BY <1>3, <1>6
  <2>2. CASE pc[t] = "rt_adj"
    <3>1. w = (a - d) % CounterMod
      BY <1>3, <2>2 DEF Adjusting, Withheld
    <3>2. a - d \in Int
      BY <2>1
    <3> HIDE DEF a, d, w
    <3>3. Even(((a - d) % CounterMod) - (a - d), CounterMod) /\ (a - d) % CounterMod \in Int
      BY <3>2, EvenMod
    <3>4. Even(0 - (w - (a - d)), CounterMod)
      <4>1. w - (a - d) \in Int /\ 0 \in Int /\ Even(w - (a - d), CounterMod)
        BY <2>1, <3>1, <3>3
      <4>2. Even(0, CounterMod)
        BY NoMove
      <4> QED
        BY <4>1, <4>2, EvenSum
    <3>5. 0 - (w - (a - d)) = a - (w + d * 1)
      BY <2>1, <3>1, <3>3
    <3> QED
      BY <3>4, <3>5 DEF a, d, w
  <2>3. CASE pc[t] = "lv_adj"
    <3>1. a = d
      BY <2>3 DEF Books, AllAmounts, Amounts
    <3>2. w = 0
      BY <1>3, <2>3, AdjustsNode DEF Ptrs, Withheld, Retiring
    <3> HIDE DEF a, d, w
    <3>3. a - (w + d * 1) = 0
      BY <2>1, <3>1, <3>2
    <3>4. Even(a - (w + d * 1), CounterMod)
      BY <3>3, NoMove
    <3> QED
      BY <3>4 DEF a, d, w
  <2> QED
    BY <1>3, <2>2, <2>3
<1> QED
  BY <1>2, <1>5, <1>7

\* The last adjustment of retire.
LEMMA AdjustsLast ==
  ASSUME Books, NEW t \in Tasks, Adjusts(t), AllPushes', pc[t] = "rt_fin", NEW q \in Objs,
         q = link[rt[t].node], build.words = 2
  PROVE  \E k \in 1 .. NumSlots :
            /\ Missing(q)' = Missing(q) - k /\ Unadded(q)' <= Unadded(q)
            /\ Even(rt[t].amt - (Withheld(t, q) + Addend * k), CounterMod)
<1>1. /\ Sound /\ rt[t].first = NULL /\ build \in Builds /\ link' = link
      /\ rt[t].amt \in Int /\ ~Due(t) /\ ~Due(t)'
  BY AdjustsNode, SoundParts
<1>2. PICK k \in 1 .. NumSlots : /\ rt[t].amt = (k * Addend) % CounterMod
                                 /\ Lacking(t) = 1 .. k
  BY <1>1, LastLacks DEF Books, AllAmounts
<1>3. k \in Nat /\ Addend \in Nat /\ k \in Int /\ k >= 1
  BY <1>1, <1>2, SlotFacts
<1>4. LackOf(t, q) = 1 .. k /\ LackOf(t, q)' = {}
  BY <1>2, AdjustsLedger DEF LackOf
<1>5. Cardinality(LackOf(t, q)) = k /\ Cardinality(LackOf(t, q))' = 0
  <2>1. Cardinality(1 .. k) = k
    <3>1. Cardinality(1 .. k) = IF 1 > k THEN 0 ELSE k - 1 + 1
      BY <1>3, FS_Interval
    <3> QED
      BY <1>3, <3>1
  <2>2. Cardinality({}) = 0
    BY FS_EmptySet
  <2> QED
    BY <1>4, <2>1, <2>2
<1>6. Unadded(q)' = Unadded(q) - k /\ Unadded(q) \in Nat /\ Unadded(q)' \in Nat
  <2>1. /\ Unadded(q) \in Nat /\ Unadded(q)' \in Nat
        /\ Unadded(q)' - Unadded(q) = Cardinality(LackOf(t, q))' - Cardinality(LackOf(t, q))
    BY AdjustsSums
  <2>2. Unadded(q)' - Unadded(q) = 0 - k
    BY <1>5, <2>1
  <2> QED
    BY <1>3, <2>1, <2>2
<1>7. DuesOf(q)' = DuesOf(q)
  BY <1>1, AdjustsPlay DEF DuesOf
<1>8. Missing(q)' = Missing(q) - k
  <2>1. Missing(q)' = Cardinality(HeadsOf(q))' + Cardinality(DuesOf(q))' + Unadded(q)'
    BY DEF Missing, HeadsOf, DuesOf, Unadded, Due
  <2>2. Cardinality(HeadsOf(q))' = Cardinality(HeadsOf(q)) /\ Cardinality(HeadsOf(q)) \in Nat
    BY AdjustsSums
  <2>3. Missing(q) = Cardinality(HeadsOf(q)) + Cardinality(DuesOf(q)) + Unadded(q)
    BY MissingIs
  <2>4. IsFiniteSet(DuesOf(q)) /\ Cardinality(DuesOf(q)) \in Nat
    BY TasksFinite, FS_Subset, FS_CardinalityType DEF DuesOf
  <2>5. Cardinality(DuesOf(q))' = Cardinality(DuesOf(q))
    BY <1>7
  <2> QED
    BY <1>3, <1>6, <2>1, <2>2, <2>3, <2>4, <2>5
<1>9. Withheld(t, q) = 0
  BY <1>1 DEF Ptrs, Withheld, Retiring
<1>10. Even(rt[t].amt - (Withheld(t, q) + Addend * k), CounterMod)
  <2> DEFINE a == Addend
             x == rt[t].amt
             w == Withheld(t, q)
  <2>1. a \in Int /\ x = (k * a) % CounterMod /\ x \in Int /\ w = 0 /\ k \in Int
    BY <1>1, <1>2, <1>3, <1>9
  <2> HIDE DEF a, x, w
  <2>2. k * a \in Int /\ CounterMod \in Int /\ CounterMod > 0
    BY <2>1
  <2>3. Even(x - k * a, CounterMod)
    BY <2>1, <2>2, EvenMod
  <2>4. x - k * a = x - (w + a * k)
    BY <2>1
  <2> QED
    BY <2>3, <2>4 DEF a, x, w
<1> QED
  BY <1>2, <1>3, <1>6, <1>8, <1>10

\* With heads of one word the amount is what was withheld.
LEMMA AdjustsNarrow ==
  ASSUME Books, NEW t \in Tasks, Adjusts(t), NEW q \in Objs,
         q = link[rt[t].node], build.words = 1
  PROVE  Withheld(t, q) = rt[t].amt /\ Active(q)' = {}
<1>1. pc[t] = "rt_fin" /\ rt[t].first = NULL /\ q # NULL
  BY AdjustsNode DEF Ptrs
<1>2. Withheld(t, q) = rt[t].amt
  BY <1>1 DEF Withheld, Retiring, Adjusting
<1>3. t \in Active(q) /\ t \notin Active(q)'
  BY <1>1, AdjustsLedger
<1>4. \A u, v \in Active(q) : u = v
  BY DEF Books, Struct, BatchesApart
<1>5. \A u \in Tasks : u # t => (u \in Active(q)' <=> u \in Active(q))
  BY AdjustsNode DEF SameLedger
<1> QED
  BY <1>2, <1>3, <1>4, <1>5 DEF Active

-----------------------------------------------------------------------------
(***************************************************************************)
(* The counter after it.                                                   *)
(***************************************************************************)

\* The worth of the batch changes by the amount of the adjustment.
LEMMA AdjustsWorth ==
  ASSUME Books, NEW t \in Tasks, Adjusts(t), AllPushes', NEW q \in Objs,
         q = link[rt[t].node]
  PROVE  /\ Worth(q) \in Int /\ Worth(q)' \in Int
         /\ Even(rt[t].amt - (Worth(q)' - Worth(q)), CounterMod)
<1>1. /\ Sound /\ build' = build /\ Addend' = Addend /\ build.words \in {1, 2}
      /\ rt[t].amt \in Int /\ build \in Builds
  BY AdjustsNode, SoundParts
<1> DEFINE D == Cardinality(Debts(q))
           E == Cardinality(Debts(q))'
           L == Cardinality(Late(q))
           M == Cardinality(Late(q))'
           w == Withheld(t, q)
           x == rt[t].amt
           a == Addend
<1>2. D \in Nat /\ E = D /\ L \in Nat /\ M \in Nat /\ w \in Nat /\ M = L - w
  BY AdjustsSums
<1>3. a \in Int /\ x \in Int
  BY <1>1, SlotFacts
<1>4. CASE build.words = 1
  <2>1. w = x
    BY <1>4, AdjustsNarrow
  <2>2. Worth(q) = D - L - 0 /\ Worth(q)' = E - M - 0
    BY <1>1, <1>4 DEF Worth
  <2> HIDE DEF D, E, L, M, w, x
  <2>3. /\ D - L - 0 \in Int /\ E - M - 0 \in Int
        /\ x - ((E - M - 0) - (D - L - 0)) = 0
    BY ONLY <1>2, <1>3, <2>1
  <2>4. Even(0, CounterMod)
    BY NoMove
  <2> QED
    BY <2>2, <2>3, <2>4 DEF x
<1>5. CASE build.words = 2
  <2> DEFINE P == Missing(q)
             Q == Missing(q)'
  <2>1. \E k \in 1 .. NumSlots : Q = P - k /\ Even(x - (w + a * k), CounterMod)
    <3>1. CASE pc[t] = "rt_fin"
      BY <1>5, <3>1, AdjustsLast
    <3>2. CASE pc[t] # "rt_fin"
      <4>1. Q = P - 1 /\ Even(x - (w + a * 1), CounterMod)
        BY <3>2, AdjustsDue
      <4>2. 1 \in 1 .. NumSlots
        BY <1>1, SlotFacts
      <4> QED
        BY <4>1, <4>2
    <3> QED
      BY <3>1, <3>2
  <2>2. PICK k \in 1 .. NumSlots : Q = P - k /\ Even(x - (w + a * k), CounterMod)
    BY <2>1
  <2>3. k \in Int /\ P \in Int
    <3>1. Roomy(q)
      <4>1. q \in Lasts
        <5>1. rt[t].node \in InPlay => q \in Lasts
          BY DEF Lasts
        <5>2. pc[t] = "rt_fin" => q \in Lasts
          BY AdjustsLedger DEF Lasts
        <5> QED
          BY <5>1, <5>2, AdjustsPlay
      <4> QED
        BY <4>1, CountedIs DEF Books
    <3>2. Missing(q) \in 0 .. NumSlots
      BY <1>1, <1>5, <3>1, SumsWide, BooksParts
    <3> QED
      BY <1>1, <3>2, SlotFacts
  <2>4. Worth(q) = D - L - a * P /\ Worth(q)' = E - M - a * Q
    BY <1>1, <1>5 DEF Worth
  <2> HIDE DEF D, E, L, M, w, x, a, P, Q
  <2>5. a * P \in Int /\ a * k \in Int /\ a * (P - k) = a * P - a * k
    BY ONLY <1>3, <2>3
  <2>6. a * Q = a * P - a * k
    BY <2>2, <2>5
  <2>7. /\ D - L - a * P \in Int /\ E - M - a * Q \in Int
        /\ x - ((E - M - a * Q) - (D - L - a * P)) = x - (w + a * k)
    BY ONLY <1>2, <1>3, <2>5, <2>6
  <2> QED
    BY <2>2, <2>4, <2>7 DEF x
<1> QED
  BY <1>1, <1>4, <1>5

\* The batch is one that is in play or being pushed.
LEMMA AdjustsLasts ==
  ASSUME Books, NEW t \in Tasks, Adjusts(t)
  PROVE  /\ link[rt[t].node] \in Lasts
         /\ Nodes(link[rt[t].node]) # {} \/ Active(link[rt[t].node]) # {}
<1>1. CASE pc[t] = "rt_fin"
  BY <1>1, AdjustsLedger, LastsIs
<1>2. CASE pc[t] # "rt_fin"
  BY <1>2, AdjustsPlay, LastsIs DEF Nodes
<1> QED
  BY <1>1, <1>2

\* The counter of the batch is exact after the adjustment.
LEMMA AdjustsBooks ==
  ASSUME Books, NEW t \in Tasks, Adjusts(t), AllPushes', NEW q \in Lasts
  PROVE  /\ Settled(q)' /\ Roomy(q)'
         /\ q = link[rt[t].node] =>
               IF build.words = 2 THEN Missing(q)' # NumSlots ELSE Active(q)' = {}
<1>1. /\ Sound /\ Sound' /\ build' = build /\ Addend' = Addend /\ NumSlots' = NumSlots
      /\ build.words \in {1, 2} /\ q \in Objs /\ IsFiniteSet(Objs)
      /\ rt[t].amt \in Int /\ link[rt[t].node] \in Objs /\ build \in Builds
      /\ refs \in [Objs -> 0 .. CounterMod - 1]
      /\ refs' = [refs EXCEPT ![link[rt[t].node]] = (@ + rt[t].amt) % CounterMod]
  BY AdjustsNode, LastsObjs, BooksParts, SoundParts, TypeParts DEF Books, Adjusts, SharedTypeOK
<1>2. Settled(q) /\ Roomy(q)
  BY CountedIs DEF Books
<1>3. /\ Cardinality(Debts(q)) \in Nat
      /\ Cardinality(Debts(q))' = Cardinality(Debts(q))
  BY <1>1, AdjustsSums
<1>4. Cardinality(Nodes(q))' <= Cardinality(Nodes(q))
  <2>1. Nodes(q)' \subseteq Nodes(q)
    BY AdjustsPlay
  <2>2. IsFiniteSet(Nodes(q))
    BY <1>1, InPlayType, FS_Subset DEF Nodes
  <2> QED
    BY <2>1, <2>2, FS_Subset
<1>5. CASE q # link[rt[t].node]
  <2>1. /\ Cardinality(Late(q))' = Cardinality(Late(q))
        /\ Unadded(q)' = Unadded(q) /\ Missing(q)' = Missing(q)
        /\ Active(q)' = Active(q)
    BY <1>1, <1>5, AdjustsOther
  <2>2. refs'[q] = refs[q]
    BY <1>1, <1>5
  <2>3. Worth(q)' = Worth(q)
    BY <1>1, <1>3, <2>1 DEF Worth
  <2>4. Settled(q)'
    BY <1>2, <2>2, <2>3 DEF Settled
  <2>5. Roomy(q)'
    <3>1. CASE build.words = 2
      <4>1. Cardinality(Nodes(q)) \in Nat /\ Cardinality(Nodes(q))' \in Nat
        BY <1>1, InPlayType, AdjustsPlay, FS_Subset, FS_CardinalityType DEF Nodes
      <4>2. Unadded(q) \in Nat /\ NumSlots \in Nat
        BY <1>1, AdjustsSums, SlotFacts
      <4>3. Unadded(q) + Cardinality(Nodes(q)) <= NumSlots
        BY <1>2, <3>1 DEF Roomy
      <4>4. Unadded(q)' + Cardinality(Nodes(q))' <= NumSlots
        BY <1>4, <2>1, <4>1, <4>2, <4>3
      <4> QED
        BY <1>1, <3>1, <4>4 DEF Roomy
    <3>2. CASE build.words = 1
      BY <1>1, <1>2, <1>3, <2>1, <3>2 DEF Roomy
    <3> QED
      BY <1>1, <3>1, <3>2
  <2> QED
    BY <1>5, <2>4, <2>5
<1>6. CASE q = link[rt[t].node]
  <2>1. Settled(q)'
    <3> DEFINE f == refs[q]
               g == refs'[q]
               v == Worth(q)
               w == Worth(q)'
               x == rt[t].amt
    <3>1. f = v % CounterMod
      BY <1>2 DEF Settled
    <3>2. g = (f + x) % CounterMod
      BY <1>1, <1>6
    <3>3. v \in Int /\ w \in Int /\ x \in Int
      BY <1>1, <1>6, AdjustsWorth
    <3>4. Even(x - (w - v), CounterMod)
      BY <1>1, <1>6, AdjustsWorth
    <3>5. CounterMod \in Nat \ {0}
      OBVIOUS
    <3> HIDE DEF f, g, v, w, x
    <3>6. g = w % CounterMod
      BY <3>1, <3>2, <3>3, <3>4, <3>5, SettledMove, ZenonT(40)
    <3> QED
      BY <3>6 DEF g, w, Settled
  <2>2. CASE build.words = 2
    <3>1. \E k \in 1 .. NumSlots : Missing(q)' = Missing(q) - k /\ Unadded(q)' <= Unadded(q)
      <4>1. CASE pc[t] = "rt_fin"
        BY <1>1, <1>6, <2>2, <4>1, AdjustsLast
      <4>2. CASE pc[t] # "rt_fin"
        <5>1. Missing(q)' = Missing(q) - 1 /\ Unadded(q)' = Unadded(q)
          BY <1>1, <1>6, <4>2, AdjustsDue
        <5>2. Unadded(q) \in Nat
          BY <1>1, AdjustsSums
        <5>3. 1 \in 1 .. NumSlots
          BY <1>1, SlotFacts
        <5> QED
          BY <5>1, <5>2, <5>3
      <4> QED
        BY <4>1, <4>2
    <3>2. Missing(q) \in 0 .. NumSlots /\ NumSlots \in Nat
      BY <1>1, <1>2, <2>2, SumsWide, BooksParts, SlotFacts
    <3>3. Missing(q)' # NumSlots
      BY <3>1, <3>2
    <3>4. Roomy(q)'
      <4>1. Cardinality(Nodes(q)) \in Nat /\ Cardinality(Nodes(q))' \in Nat
        BY <1>1, InPlayType, AdjustsPlay, FS_Subset, FS_CardinalityType DEF Nodes
      <4>2. Unadded(q) \in Nat /\ Unadded(q)' \in Nat
        BY <1>1, AdjustsSums
      <4>3. Unadded(q) + Cardinality(Nodes(q)) <= NumSlots
        BY <1>2, <2>2 DEF Roomy
      <4>4. Unadded(q)' <= Unadded(q)
        BY <3>1
      <4>5. Unadded(q)' + Cardinality(Nodes(q))' <= NumSlots
        BY <1>4, <3>2, <4>1, <4>2, <4>3, <4>4
      <4> QED
        BY <1>1, <2>2, <4>5 DEF Roomy
    <3> QED
      BY <2>1, <2>2, <3>3, <3>4
  <2>3. CASE build.words = 1
    <3>1. Active(q)' = {}
      BY <1>1, <1>6, <2>3, AdjustsNarrow
    <3>2. Roomy(q)'
      BY <1>1, <1>2, <1>3, <2>3, <3>1 DEF Roomy
    <3> QED
      BY <2>1, <2>3, <3>1, <3>2
  <2> QED
    BY <1>1, <2>2, <2>3
<1> QED
  BY <1>5, <1>6

-----------------------------------------------------------------------------
(***************************************************************************)
(* The batch is taken exactly when its counter becomes zero.               *)
(***************************************************************************)

\* What the zeros of a step need.
LEMMA BaseAfter ==
  ASSUME NEW t \in Tasks, Stays(t), AllPushes, AllAmounts, AllHolds,
         Places', Owns(t)',
         \A u \in Tasks : u # t /\ pc[u] \in Retires =>
            (Owed(u) \union {head[vec[u]].ptr}) \ {NULL}
               \subseteq Owed(u)' \union {head'[vec'[u]].ptr}
  PROVE  Base' /\ Zeros' /\ Ends'
<1>1. Sound' /\ AllTidy'
  BY StaysFacts DEF Stays
<1>2. \A u \in Tasks : Pushes(u)' /\ Amounts(u)' /\ Holds(u)'
  <2> TAKE u \in Tasks
  <2>1. CASE u = t
    BY <2>1 DEF Owns
  <2>2. CASE u # t
    BY <2>2, OthersOwn, OthersHold DEF AllPushes, AllAmounts, AllHolds
  <2> QED
    BY <2>1, <2>2
<1>3. AllPushes' /\ AllAmounts' /\ AllHolds'
  BY <1>2 DEF AllPushes, AllAmounts, AllHolds
<1>4. Base'
  BY <1>1, <1>3 DEF Base
<1>5. Zeros'
  BY <1>4, ZerosHold, PTL
<1>6. Ends'
  BY <1>4, EndsHold, PTL
<1> QED
  BY <1>4, <1>5, <1>6

\* The counter is zero when nothing is left of the batch, and only then.
LEMMA ZeroAfter ==
  ASSUME Zeros', Ends', build' = build, NumSlots' = NumSlots, NEW q \in Objs,
         Settled(q)', Roomy(q)',
         refs'[q] = 0 => IF build.words = 2 THEN Missing(q)' # NumSlots ELSE Active(q)' = {}
  PROVE  refs'[q] = 0 <=> Gone(q)'
<1>1. \A r \in Objs :
        /\ Roomy(r)' /\ Settled(r)' /\ refs'[r] = 0
        /\ IF build'.words = 2 THEN Missing(r)' # NumSlots' ELSE Active(r)' = {}
        => Gone(r)'
  BY DEF Zeros
<1>2. \A r \in Objs : Gone(r)' /\ Settled(r)' => refs'[r] = 0
  BY DEF Ends
<1> QED
  BY <1>1, <1>2

\* The batches that others push keep their references.
LEMMA AdjustsIncl ==
  ASSUME Books, NEW t \in Tasks, Adjusts(t)
  PROVE  \A u \in Tasks : u # t /\ pc[u] \in Retires =>
            (Owed(u) \union {head[vec[u]].ptr}) \ {NULL}
               \subseteq Owed(u)' \union {head'[vec'[u]].ptr}
BY DEF Adjusts, Calm

\* The thread takes the batch exactly when it is gone.
LEMMA AdjustsZero ==
  ASSUME Books, NEW t \in Tasks, Adjusts(t), NEW q, q = link[rt[t].node]
  PROVE  /\ q \in Lasts /\ q \in Objs
         /\ refs'[q] = 0 <=> Gone(q)'
         /\ list'[t] = IF refs'[q] = 0 THEN list[t] \union {q} ELSE list[t]
<1>1. /\ build' = build /\ NumSlots' = NumSlots /\ q \in Objs /\ Stays(t)
      /\ refs \in [Objs -> 0 .. CounterMod - 1] /\ list \in [Tasks -> SUBSET Objs]
  BY AdjustsNode, SoundParts, TypeParts DEF Adjusts, SharedTypeOK, LocalTypeOK
<1>2. q \in Lasts
  BY AdjustsLasts
<1>3. Owns(t)' /\ AllPushes'
  BY <1>1, AdjustsOwn, PushesAfter DEF Owns, Books
<1>4. Zeros' /\ Ends'
  BY <1>1, <1>3, AdjustsPlaces, AdjustsIncl, BaseAfter DEF Books
<1>5. /\ Settled(q)' /\ Roomy(q)'
      /\ IF build.words = 2 THEN Missing(q)' # NumSlots ELSE Active(q)' = {}
  BY <1>2, <1>3, AdjustsBooks
<1>6. refs'[q] = 0 <=> Gone(q)'
  BY <1>1, <1>4, <1>5, ZeroAfter
<1>7. list'[t] = IF refs'[q] = 0 THEN list[t] \union {q} ELSE list[t]
  <2>1. refs'[q] = (refs[q] + rt[t].amt) % CounterMod
    BY <1>1 DEF Adjusts
  <2>2. list'[t] = Adjusted(t, rt[t].node, rt[t].amt)
    BY <1>1 DEF Adjusts
  <2> QED
    BY <2>1, <2>2 DEF Adjusted, AllReleased
<1> QED
  BY <1>1, <1>2, <1>6, <1>7

\* A batch goes to the list of the thread as the last of it leaves the game.
LEMMA TakenStruct ==
  ASSUME Books, NEW t \in Tasks, Stays(t), NEW q \in Lasts,
         Nodes(q) # {} \/ Active(q) # {},
         InPlay' \subseteq InPlay, Fresh(t)' \subseteq Fresh(t),
         Ending(t)' \subseteq Ending(t), \A r \in Ending(t) \ Ending(t)' : r = q,
         \A r : r # q => Nodes(r)' = Nodes(r),
         list'[t] = IF Gone(q)' THEN list[t] \union {q} ELSE list[t]
  PROVE  Struct' /\ Lasts' = Lasts
<1>1. /\ \A u \in Tasks : /\ Growing(u)' = Growing(u)
                          /\ u # t => Ending(u)' = Ending(u) /\ list'[u] = list[u]
      /\ AllTidy' /\ Struct
  BY StaysFacts DEF SameLedger, Books
<1>2. q \in Objs
  BY LastsObjs DEF Books
<1>3. Lasts \subseteq Lasts'
  <2>1. \A r : r \in Lasts' <=> \/ Nodes(r)' # {}
                                \/ \E u \in Tasks : r \in list'[u] \union Growing(u)' \union Ending(u)'
    BY DEF Lasts, Nodes
  <2>2. q \in Lasts'
    <3>1. CASE Gone(q)'
      BY <2>1, <3>1
    <3>2. CASE Nodes(q)' # {}
      BY <2>1, <3>2
    <3>3. CASE Active(q)' # {}
      <4>1. PICK u \in Tasks : u \in Active(q)'
        BY <3>3 DEF Active
      <4>2. \A v \in Tasks : Tidy(v)' => (v \in Active(q)' <=> q \in Ending(v)')
        <5> SUFFICES ASSUME NEW v \in Tasks, Tidy(v)' PROVE v \in Active(q)' <=> q \in Ending(v)'
          OBVIOUS
        <5>1. q # NULL
          BY <1>2 DEF Ptrs
        <5>2. rt'[v].first = NULL => Retiring(v)' = NULL
          BY DEF Retiring
        <5>3. pc'[v] = "rt_fin" => rt'[v].first = NULL
          BY DEF Tidy, Retires
        <5> QED
          BY <5>1, <5>2, <5>3 DEF Active, Ending
      <4>3. q \in Ending(u)'
        BY <1>1, <4>1, <4>2 DEF AllTidy
      <4> QED
        BY <2>1, <4>3
    <3> QED
      BY <3>1, <3>2, <3>3 DEF Gone
  <2>3. ASSUME NEW r \in Lasts, r # q PROVE r \in Lasts'
    <3>1. \A u \in Tasks : r \in list[u] => r \in list'[u]
      BY <1>1
    <3>2. \A u \in Tasks : r \in Ending(u) => r \in Ending(u)'
      BY <1>1, <2>3
    <3> QED
      BY <1>1, <2>1, <2>3, <3>1, <3>2, LastsIs
  <2> QED
    BY <2>2, <2>3
<1> DEFINE N == {}
           L == IF Gone(q)' THEN {q} ELSE {}
<1>4. InPlay' \subseteq InPlay \union N /\ list'[t] \subseteq list[t] \union L
  OBVIOUS
<1>5. \A n \in N : /\ n \in Objs /\ status[n] = "retired" /\ n \notin Lasts
                   /\ link[n] \in Ending(t)
                   /\ \A u \in Tasks : n \notin Fresh(u)'
  OBVIOUS
<1>6. \A r \in L : r = q /\ Gone(q)'
  OBVIOUS
<1>7. \A r \in L : /\ r \in Lasts /\ (Nodes(r) # {} \/ Active(r) # {})
                   /\ Nodes(r)' = {} /\ Active(r)' = {}
  BY <1>6 DEF Gone
<1> HIDE DEF N, L
<1> QED
  BY <1>1, <1>3, <1>4, <1>5, <1>7, StructStep

\* An adjustment keeps the invariant.
LEMMA AdjustsKeeps ==
  ASSUME Books, NEW t \in Tasks, Adjusts(t), Sited'
  PROVE  Books'
<1>1. Stays(t)
  BY DEF Adjusts
<1>2. PICK q \in Objs : q = link[rt[t].node]
  BY AdjustsNode
<1>3. /\ q \in Lasts /\ (Nodes(q) # {} \/ Active(q) # {})
      /\ list'[t] = IF Gone(q)' THEN list[t] \union {q} ELSE list[t]
  BY <1>2, AdjustsZero, AdjustsLasts
<1>4. /\ InPlay' \subseteq InPlay /\ Walked' /\ \A r : r # q => Nodes(r)' = Nodes(r)
  BY <1>2, AdjustsPlay
<1>5. /\ Fresh(t)' \subseteq Fresh(t) /\ Ending(t)' \subseteq Ending(t)
      /\ \A r \in Ending(t) \ Ending(t)' : r = q
  BY <1>2, SoundParts, LastsType, AdjustsLedger DEF Books, AllTidy
<1>6. Struct' /\ Lasts' = Lasts
  BY <1>1, <1>3, <1>4, <1>5, TakenStruct
<1>7. Owns(t)' /\ AllPushes'
  BY <1>1, AdjustsOwn, PushesAfter DEF Owns, Books
<1>8. \A r \in Lasts : Settled(r)' /\ Roomy(r)'
  BY <1>7, AdjustsBooks
<1>9. Room' /\ Counted'
  BY <1>6, <1>8 DEF Counted, Room, Settled, Worth, Roomy
<1>10. Emptied'
  <2> SUFFICES ASSUME NEW s \in Slots, build.words = 2, head'[s].ref = 0, head'[s].ptr # NULL
               PROVE  head'[s] = head[s] /\ ~(pc[t] = "lv_clear" /\ vec[t] = s
                                              /\ rt[t].node = head[s].ptr)
    BY <1>1, EmptiedStep DEF Books
  <2> QED
    BY AdjustsNode DEF Adjusts
<1> QED
  BY <1>1, <1>4, <1>6, <1>7, <1>9, <1>10, AdjustsPlaces, AdjustsIncl, BooksAfter DEF Books

-----------------------------------------------------------------------------
(***************************************************************************)
(* A thread drops a node of its walk.                                      *)
(***************************************************************************)

\* The adjustments of retire and of leave keep the invariant.
LEMMA AdjustKeeps ==
  ASSUME Books, NEW t \in Tasks, Good(t), Sound',
         RtAdjust(t) \/ LeaveAdjust(t) \/ RtFin(t)
  PROVE  Books'
<1>1. Sound /\ Sited /\ Walked /\ Tidy(t) /\ AllTidy
  BY BooksParts
<1>2. Calm
  BY <1>1, StillCalm
<1>3. CASE RtAdjust(t)
  <2>1. /\ UNCHANGED <<clientVars, build, next, link, batch, vec, head, handle>>
        /\ Neat(t) /\ pc[t] = "rt_adj" /\ pc'[t] = "rt_count"
        /\ refs' = [refs EXCEPT ![link[rt[t].node]] = (@ + rt[t].amt) % CounterMod]
        /\ list' = [list EXCEPT ![t] = Adjusted(t, rt[t].node, rt[t].amt)]
        /\ at'[t] = at[t]
        /\ rt'[t].todo = rt[t].todo /\ rt'[t].first = rt[t].first
        /\ rt'[t].adjs = rt[t].adjs /\ rt'[t].skipped = rt[t].skipped
    BY <1>1, <1>3, RtAdjustFx
  <2>2. Sited' /\ Retired' = Retired
    BY <1>1, <2>1, SitedSame
  <2>3. Stays(t)
    BY <1>1, <2>1, <2>2 DEF Stays
  <2>4. Adjusts(t)
    BY <1>2, <2>1, <2>3 DEF Adjusts
  <2> QED
    BY <2>2, <2>4, AdjustsKeeps
<1>4. CASE LeaveAdjust(t) \/ RtFin(t)
  <2>1. /\ UNCHANGED <<clientVars, build, next, link, batch, vec, head, handle>>
        /\ Neat(t) /\ pc[t] \in {"lv_adj", "rt_fin"}
        /\ refs' = [refs EXCEPT ![link[rt[t].node]] = (@ + rt[t].amt) % CounterMod]
        /\ list' = [list EXCEPT ![t] = Adjusted(t, rt[t].node, rt[t].amt)]
        /\ pc'[t] \in {"trav", "ack", "free", "look", "add", "out", "in"}
    BY <1>1, <1>4, LastAdjustFx
  <2>2. Sited' /\ Retired' = Retired
    BY <1>1, <2>1, SitedSame
  <2>3. Stays(t)
    BY <1>1, <2>1, <2>2 DEF Stays
  <2>4. pc'[t] \notin Retires \union {"rt_fin", "lv_adj", "lv_clear", "lv_cas"}
    BY <2>1 DEF Retires
  <2>5. Adjusts(t)
    BY <1>2, <2>1, <2>3, <2>4 DEF Adjusts
  <2> QED
    BY <2>2, <2>5, AdjustsKeeps
<1> QED
  BY <1>3, <1>4

\* A thread drops its reference on account of node n.
Drops(t, n) ==
    /\ Stays(t) /\ head' = head /\ vec' = vec /\ rt' = rt /\ pc[t] = "trav"
    /\ n \in Owed(t) /\ Owed(t)' = Owed(t) \ {n}
    /\ \A u \in Tasks : u # t => Owed(u)' = Owed(u)
    /\ Walked'
    /\ refs' = [refs EXCEPT ![link[n]] = (@ - 1) % CounterMod]
    /\ list' = [list EXCEPT ![t] = IF refs[link[n]] = 1 THEN @ \union {link[n]} ELSE @]
    /\ pc'[t] \notin Retires \union {"rt_fin", "lv_adj", "lv_clear", "lv_cas"}

Clean ==
    \A u \in Tasks : Clear(u) =>
        /\ Ending(u) = {} /\ ~Due(u)
        /\ \A r \in Objs : Withheld(u, r) = 0 /\ LackOf(u, r) = {} /\ u \notin Active(r)

\* A thread that walks keeps no ledger.
LEMMA CleanHolds == Clean
BY ClearFacts DEF Clean

\* Nor after the step.
LEMMA CleanAfter == Clean'
BY CleanHolds, PTL

\* The node that is dropped, and all that the step leaves alone.
LEMMA DropsNode ==
  ASSUME Books, NEW t \in Tasks, NEW n, Drops(t, n)
  PROVE  /\ Sound /\ Sound' /\ build' = build /\ link' = link
         /\ Slots' = Slots /\ Addend' = Addend
         /\ NumSlots' = NumSlots /\ SMRBatch' = SMRBatch
         /\ n \in Objs /\ link[n] \in Objs /\ n \in InPlay /\ link[n] \in Lasts
         /\ build.words \in {1, 2} /\ build \in Builds /\ IsFiniteSet(Objs)
         /\ Fresh(t)' = Fresh(t) /\ Ending(t) = {} /\ Ending(t)' = {}
         /\ \A u \in Tasks : u # t => list'[u] = list[u]
         /\ \A u \in Tasks : /\ Due(u)' <=> Due(u)
                             /\ \A r \in Objs : /\ Withheld(u, r)' = Withheld(u, r)
                                                /\ LackOf(u, r)' = LackOf(u, r)
                                                /\ u \in Active(r)' <=> u \in Active(r)
<1>1. /\ Stays(t) /\ link \in [Objs -> Objs] /\ build \in Builds
      /\ build.words \in {1, 2} /\ IsFiniteSet(Objs) /\ AllTidy
  BY SoundParts, TypeParts, BooksParts DEF Drops, Books, Sound, SharedTypeOK
<1>2. /\ Sound /\ Sound' /\ Tidy(t) /\ Tidy(t)' /\ link' = link /\ batch' = batch
  BY <1>1 DEF Stays, Neat, AllTidy
<1>3. /\ build' = build /\ Slots' = Slots /\ Addend' = Addend
      /\ NumSlots' = NumSlots /\ SMRBatch' = SMRBatch
      /\ \A u \in Tasks : u # t => SameLedger(u) /\ list'[u] = list[u]
  BY <1>1, StaysFacts
<1>4. n \in Objs /\ n \in InPlay
  <2>1. n \in AllOwed
    BY DEF Drops, AllOwed
  <2>2. AllOwed \subseteq Objs
    BY <1>2, InPlayType
  <2> QED
    BY <2>1, <2>2 DEF InPlay
<1>5. Clear(t) /\ Clear(t)'
  BY <1>2 DEF Tidy, Drops, Retires, Clear, Adjusting
<1>6. /\ Ending(t) = {} /\ Ending(t)' = {} /\ ~Due(t) /\ ~Due(t)'
      /\ \A r \in Objs : /\ Withheld(t, r) = 0 /\ LackOf(t, r) = {} /\ t \notin Active(r)
                         /\ Withheld(t, r)' = 0 /\ LackOf(t, r)' = {} /\ t \notin Active(r)'
  BY <1>5, CleanHolds, CleanAfter DEF Clean
<1>7. \A u \in Tasks : /\ Due(u)' <=> Due(u)
                       /\ \A r \in Objs : /\ Withheld(u, r)' = Withheld(u, r)
                                          /\ LackOf(u, r)' = LackOf(u, r)
                                          /\ u \in Active(r)' <=> u \in Active(r)
  <2> TAKE u \in Tasks
  <2>1. CASE u = t
    BY <1>6, <2>1
  <2>2. CASE u # t
    BY <1>3, <2>2 DEF SameLedger
  <2> QED
    BY <2>1, <2>2
<1>8. Fresh(t)' = Fresh(t)
  BY <1>2 DEF Pushed, Drops, Retires, Fresh
<1>9. link[n] \in Objs /\ link[n] \in Lasts
  BY <1>1, <1>4 DEF Lasts
<1> QED
  BY <1>1, <1>2, <1>3, <1>4, <1>6, <1>7, <1>8, <1>9

\* The node may leave the nodes in play, and no other does.
LEMMA DropsPlay ==
  ASSUME Books, NEW t \in Tasks, NEW n, Drops(t, n)
  PROVE  /\ AllOwed' \subseteq AllOwed /\ Tops' = Tops /\ Buried' = Buried
         /\ \A m : Debtors(m)' \subseteq Debtors(m)
         /\ InPlay' \subseteq InPlay /\ InPlay \subseteq InPlay' \union {n}
         /\ \A q : /\ Nodes(q)' \subseteq Nodes(q)
                   /\ q # link[n] => Nodes(q)' = Nodes(q)
<1>1. /\ link' = link /\ Slots' = Slots /\ head' = head /\ rt' = rt
      /\ \A u \in Tasks : Due(u)' <=> Due(u)
  BY DropsNode DEF Drops
<1>2. /\ Owed(t)' = Owed(t) \ {n} /\ \A u \in Tasks : u # t => Owed(u)' = Owed(u)
  BY DEF Drops
<1>3. \A m : m \in AllOwed <=> \E u \in Tasks : m \in Owed(u)
  BY DEF AllOwed
<1>4. \A m : m \in AllOwed' <=> \E u \in Tasks : m \in Owed(u)'
  BY DEF AllOwed
<1>5. AllOwed' \subseteq AllOwed /\ AllOwed \subseteq AllOwed' \union {n}
  <2>1. \A m : m \in AllOwed' => m \in AllOwed
    BY <1>2, <1>3, <1>4
  <2>2. \A m : m \in AllOwed => m \in AllOwed' \/ m = n
    BY <1>2, <1>3, <1>4
  <2> QED
    BY <2>1, <2>2
<1>6. Tops' = Tops /\ Buried' = Buried
  BY <1>1 DEF Tops, Buried
<1>7. \A m : Debtors(m)' \subseteq Debtors(m)
  <2> TAKE m
  <2>1. \A u \in Tasks : u \in Debtors(m)' => u \in Debtors(m)
    BY <1>2 DEF Debtors
  <2> QED
    BY <2>1 DEF Debtors
<1>8. InPlay' \subseteq InPlay /\ InPlay \subseteq InPlay' \union {n}
  BY <1>5, <1>6 DEF InPlay
<1>9. \A q : /\ Nodes(q)' \subseteq Nodes(q)
             /\ q # link[n] => Nodes(q)' = Nodes(q)
  BY <1>1, <1>8 DEF Nodes
<1> QED
  BY <1>5, <1>6, <1>7, <1>8, <1>9

\* Every node is still in one place.
LEMMA DropsPlaces ==
  ASSUME Books, NEW t \in Tasks, NEW n, Drops(t, n)
  PROVE  Places'
<1>1. /\ Slots' = Slots /\ Addend' = Addend /\ build' = build /\ head' = head /\ rt' = rt
      /\ \A u \in Tasks : Due(u)' <=> Due(u)
  BY DropsNode DEF Drops
<1>2. /\ AllOwed' \subseteq AllOwed /\ Tops' = Tops /\ Buried' = Buried
      /\ \A m : Debtors(m)' \subseteq Debtors(m)
  BY DropsPlay
<1>3. Places
  BY DEF Books
<1>4. \A y, z \in Slots' : head'[y].ptr = head'[z].ptr /\ head'[y].ptr # NULL => y = z
  BY <1>1, <1>3 DEF Places
<1>5. ASSUME build.words = 2
      PROVE  /\ (Tops \intersect (AllOwed \union Buried))' = {}
             /\ \A u, v \in Tasks : Due(u)' /\ Due(v)' /\ rt'[u].node = rt'[v].node => u = v
             /\ \A u \in Tasks, m \in Objs : Due(u)' /\ rt'[u].node = m =>
                  Cardinality(Debtors(m))' <= LateBy(u)' /\ LateBy(u)' <= TaskNum
  <2>1. /\ Tops \intersect (AllOwed \union Buried) = {}
        /\ \A u, v \in Tasks : Due(u) /\ Due(v) /\ rt[u].node = rt[v].node => u = v
        /\ \A u \in Tasks, m \in Objs : Due(u) /\ rt[u].node = m =>
             Cardinality(Debtors(m)) <= LateBy(u) /\ LateBy(u) <= TaskNum
    BY <1>3, <1>5 DEF Places
  <2>2. (Tops \intersect (AllOwed \union Buried))' = {}
    BY <1>2, <2>1
  <2>3. \A u, v \in Tasks : Due(u)' /\ Due(v)' /\ rt'[u].node = rt'[v].node => u = v
    BY <1>1, <2>1
  <2>4. ASSUME NEW u \in Tasks, NEW m \in Objs, Due(u)', rt'[u].node = m
        PROVE  Cardinality(Debtors(m))' <= LateBy(u)' /\ LateBy(u)' <= TaskNum
    <3>1. Due(u) /\ rt[u].node = m
      BY <1>1, <2>4
    <3>2. LateBy(u)' = LateBy(u)
      BY <1>1 DEF LateBy
    <3>3. Cardinality(Debtors(m)) <= LateBy(u) /\ LateBy(u) <= TaskNum
      BY <2>1, <3>1
    <3>4. /\ Cardinality(Debtors(m))' <= Cardinality(Debtors(m))
          /\ Cardinality(Debtors(m)) \in Nat /\ Cardinality(Debtors(m))' \in Nat
      BY <1>2, TasksFinite, FS_Subset, FS_CardinalityType DEF Debtors
    <3>5. LateBy(u) \in Int
      <4>1. /\ rt[u].amt \in Int /\ Addend \in Int /\ CounterMod \in Int /\ CounterMod > 0
        BY SoundParts, Fields, SlotFacts DEF Books, Batches
      <4> QED
        BY <4>1 DEF LateBy
    <3> HIDE DEF LateBy
    <3> QED
      BY <3>2, <3>3, <3>4, <3>5
  <2> QED
    BY <2>2, <2>3, <2>4
<1>6. ASSUME build.words = 1
      PROVE  /\ \A u, v \in Tasks : (Owed(u) \intersect Owed(v))' # {} => u = v
             /\ \A s \in Slots' : head'[s].ref = 0 => head'[s].ptr = NULL
  <2>1. \A u \in Tasks : Owed(u)' \subseteq Owed(u)
    BY DEF Drops
  <2>2. /\ \A u, v \in Tasks : Owed(u) \intersect Owed(v) # {} => u = v
        /\ \A s \in Slots : head[s].ref = 0 => head[s].ptr = NULL
    BY <1>3, <1>6 DEF Places
  <2>3. \A u, v \in Tasks : (Owed(u) \intersect Owed(v))' # {} => u = v
    <3> SUFFICES ASSUME NEW u \in Tasks, NEW v \in Tasks, (Owed(u) \intersect Owed(v))' # {}
                 PROVE  u = v
      OBVIOUS
    <3>1. Owed(u) \intersect Owed(v) # {}
      BY <2>1
    <3> QED
      BY <2>2, <3>1
  <2> QED
    BY <1>1, <2>2, <2>3
<1> QED
  BY <1>1, <1>4, <1>5, <1>6 DEF Places

-----------------------------------------------------------------------------
(***************************************************************************)
(* The counter after it.                                                   *)
(***************************************************************************)

\* Its batch has one debt less.
LEMMA DropsDebts ==
  ASSUME Books, NEW t \in Tasks, NEW n, Drops(t, n), NEW q \in Objs
  PROVE  /\ Cardinality(Debts(q)) \in Nat /\ Cardinality(Debts(q))' \in Nat
         /\ Cardinality(Debts(q))' = Cardinality(Debts(q)) - (IF q = link[n] THEN 1 ELSE 0)
<1>1. Sound /\ Sound' /\ link' = link /\ IsFiniteSet(Objs)
  BY DropsNode
<1>2. /\ n \in Owed(t) /\ Owed(t)' = Owed(t) \ {n}
      /\ \A u \in Tasks : u # t => Owed(u)' = Owed(u)
  BY DEF Drops
<1>3. \A u \in Tasks : u # t => OwedTo(u, q)' = OwedTo(u, q)
  BY <1>1, <1>2 DEF OwedTo
<1>4. /\ Cardinality(Debts(q)) \in Nat /\ Cardinality(Debts(q))' \in Nat
      /\ Cardinality(OwedTo(t, q)) \in Nat /\ Cardinality(OwedTo(t, q))' \in Nat
      /\ Cardinality(Debts(q))' - Cardinality(Debts(q))
              = Cardinality(OwedTo(t, q))' - Cardinality(OwedTo(t, q))
  BY <1>1, <1>3, DebtsMove
<1>5. Cardinality(OwedTo(t, q))' = Cardinality(OwedTo(t, q)) - (IF q = link[n] THEN 1 ELSE 0)
  <2>1. CASE q # link[n]
    <3>1. OwedTo(t, q)' = OwedTo(t, q)
      BY <1>1, <1>2, <2>1 DEF OwedTo
    <3> QED
      BY <1>4, <2>1, <3>1
  <2>2. CASE q = link[n]
    <3>1. OwedTo(t, q)' = OwedTo(t, q) \ {n} /\ n \in OwedTo(t, q)
      BY <1>1, <1>2, <2>2 DEF OwedTo
    <3>2. IsFiniteSet(OwedTo(t, q))
      BY <1>1, OwedType, FS_Subset DEF OwedTo
    <3>3. Cardinality(OwedTo(t, q) \ {n}) = Cardinality(OwedTo(t, q)) - 1
      BY <3>1, <3>2, FS_RemoveElement
    <3> QED
      BY <2>2, <3>1, <3>3
  <2> QED
    BY <2>1, <2>2
<1> QED
  <2> DEFINE D == Cardinality(Debts(q))
             E == Cardinality(Debts(q))'
             A == Cardinality(OwedTo(t, q))
             B == Cardinality(OwedTo(t, q))'
             k == IF q = link[n] THEN 1 ELSE 0
  <2>1. D \in Nat /\ E \in Nat /\ A \in Nat /\ B \in Nat /\ E - D = B - A /\ B = A - k /\ k \in Int
    BY <1>4, <1>5
  <2> HIDE DEF D, E, A, B, k
  <2>2. E = D - k
    BY ONLY <2>1
  <2> QED
    BY <2>1, <2>2 DEF D, E, k

\* All other sums are the same.
LEMMA DropsSums ==
  ASSUME Books, NEW t \in Tasks, NEW n, Drops(t, n), AllPushes', NEW q \in Objs
  PROVE  /\ Cardinality(Late(q)) \in Nat /\ Cardinality(Late(q))' = Cardinality(Late(q))
         /\ Unadded(q) \in Nat /\ Unadded(q)' = Unadded(q) /\ Missing(q)' = Missing(q)
         /\ Active(q)' = Active(q)
<1>1. /\ Sound /\ Sound' /\ build' = build /\ link' = link /\ Slots' = Slots
      /\ \A u \in Tasks : /\ Due(u)' <=> Due(u)
                          /\ Withheld(u, q)' = Withheld(u, q)
                          /\ LackOf(u, q)' = LackOf(u, q)
                          /\ u \in Active(q)' <=> u \in Active(q)
  BY DropsNode
<1>2. head' = head /\ rt' = rt /\ AllPushes
  BY DEF Drops, Books
<1>3. /\ Cardinality(Late(q)) \in Nat /\ Cardinality(Late(q))' = Cardinality(Late(q))
  BY <1>1, LateMove
<1>4. /\ Unadded(q) \in Nat /\ Unadded(q)' = Unadded(q)
  <2>1. /\ Unadded(q) \in Nat /\ Unadded(q)' \in Nat
        /\ Cardinality(LackOf(t, q)) \in Nat /\ Cardinality(LackOf(t, q))' \in Nat
        /\ Unadded(q)' - Unadded(q) = Cardinality(LackOf(t, q))' - Cardinality(LackOf(t, q))
    BY <1>1, <1>2, LackMove
  <2>2. Cardinality(LackOf(t, q))' = Cardinality(LackOf(t, q))
    BY <1>1
  <2> QED
    BY <2>1, <2>2
<1>5. HeadsOf(q)' = HeadsOf(q) /\ DuesOf(q)' = DuesOf(q)
  BY <1>1, <1>2 DEF HeadsOf, DuesOf
<1>6. Missing(q)' = Missing(q)
  BY <1>4, <1>5, MissingIs DEF Missing, HeadsOf, DuesOf, Unadded, Due
<1>7. Active(q)' = Active(q)
  BY <1>1 DEF Active
<1> QED
  BY <1>3, <1>4, <1>6, <1>7

\* Every counter is still exact.
LEMMA DropsBooks ==
  ASSUME Books, NEW t \in Tasks, NEW n, Drops(t, n), AllPushes', NEW q \in Lasts
  PROVE  Settled(q)' /\ Roomy(q)'
<1>1. /\ Sound /\ Sound' /\ build' = build /\ Addend' = Addend /\ NumSlots' = NumSlots
      /\ build.words \in {1, 2} /\ q \in Objs /\ IsFiniteSet(Objs)
      /\ link[n] \in Objs /\ build \in Builds
      /\ refs \in [Objs -> 0 .. CounterMod - 1]
      /\ refs' = [refs EXCEPT ![link[n]] = (@ - 1) % CounterMod]
      /\ Addend \in Int /\ NumSlots \in Nat
  <2>1. Sound /\ q \in Objs /\ build \in Builds
    BY DropsNode, LastsObjs DEF Books
  <2>2. refs \in [Objs -> 0 .. CounterMod - 1]
    BY <2>1, SoundParts, TypeParts DEF SharedTypeOK
  <2>3. Addend \in Int /\ NumSlots \in Nat
    BY <2>1, SlotFacts
  <2> QED
    BY <2>1, <2>2, <2>3, DropsNode DEF Drops
<1>2. Settled(q) /\ Roomy(q)
  BY CountedIs DEF Books
<1>3. /\ Cardinality(Debts(q)) \in Nat /\ Cardinality(Debts(q))' \in Nat
      /\ Cardinality(Debts(q))' = Cardinality(Debts(q)) - (IF q = link[n] THEN 1 ELSE 0)
  BY <1>1, DropsDebts
<1>4. /\ Cardinality(Late(q)) \in Nat /\ Cardinality(Late(q))' = Cardinality(Late(q))
      /\ Unadded(q) \in Nat /\ Unadded(q)' = Unadded(q) /\ Missing(q)' = Missing(q)
      /\ Active(q)' = Active(q)
  BY <1>1, DropsSums
<1>5. Roomy(q)'
  <2>1. CASE build.words = 2
    <3>1. /\ Cardinality(Nodes(q)) \in Nat /\ Cardinality(Nodes(q))' \in Nat
          /\ Cardinality(Nodes(q))' <= Cardinality(Nodes(q))
      BY <1>1, InPlayType, DropsPlay, FS_Subset, FS_CardinalityType DEF Nodes
    <3>2. Unadded(q) + Cardinality(Nodes(q)) <= NumSlots
      BY <1>2, <2>1 DEF Roomy
    <3>3. Unadded(q)' + Cardinality(Nodes(q))' <= NumSlots
      BY <1>1, <1>4, <3>1, <3>2
    <3> QED
      BY <1>1, <2>1, <3>3 DEF Roomy
  <2>2. CASE build.words = 1
    <3>1. /\ Cardinality(Debts(q)) <= TaskNum
          /\ Active(q) # {} => Cardinality(Debts(q)) <= Cardinality(Late(q))
      BY <1>2, <2>2 DEF Roomy
    <3>2. Cardinality(Debts(q))' <= Cardinality(Debts(q))
      BY <1>3
    <3>3. /\ Cardinality(Debts(q))' <= TaskNum
          /\ Active(q)' # {} => Cardinality(Debts(q))' <= Cardinality(Late(q))'
      BY <1>3, <1>4, <3>1, <3>2, TasksFinite, FS_CardinalityType
    <3> QED
      BY <1>1, <2>2, <3>3 DEF Roomy
  <2> QED
    BY <1>1, <2>1, <2>2
<1>6. Settled(q)'
  <2> DEFINE f == refs[q]
             g == refs'[q]
             v == Worth(q)
             w == Worth(q)'
             D == Cardinality(Debts(q))
             E == Cardinality(Debts(q))'
             L == Cardinality(Late(q))
             z == IF build.words = 1 THEN 0 ELSE Addend * Missing(q)
             k == IF q = link[n] THEN 1 ELSE 0
             x == 0 - k
  <2>1. f = v % CounterMod
    BY <1>2 DEF Settled
  <2>2. v = D - L - z /\ w = E - L - z
    BY <1>1, <1>4 DEF Worth
  <2>3. z \in Int
    <3>1. CASE build.words = 1
      BY <3>1
    <3>2. CASE build.words = 2
      <4>1. Missing(q) \in 0 .. NumSlots
        BY <1>1, <1>2, <3>2, SumsWide, BooksParts
      <4>2. Missing(q) \in Int
        BY <1>1, <4>1
      <4> QED
        BY <1>1, <3>2, <4>2
    <3> QED
      BY <1>1, <3>1, <3>2
  <2>4. D \in Nat /\ E \in Nat /\ L \in Nat /\ E = D - k /\ k \in {0, 1} /\ x = 0 - k
    BY <1>3, <1>4
  <2>5. g = (f + x) % CounterMod
    <3>1. CASE q = link[n]
      BY <1>1, <3>1
    <3>2. CASE q # link[n]
      <4>1. x = 0 /\ g = f /\ f \in 0 .. CounterMod - 1
        <5>1. refs'[q] = refs[q] /\ refs[q] \in 0 .. CounterMod - 1
          BY <1>1, <3>2
        <5>2. x = 0
          <6>1. k = 0
            BY <3>2
          <6> HIDE DEF k
          <6> QED
            BY <6>1
        <5> QED
          BY <5>1, <5>2
      <4>2. f % CounterMod = f /\ f + x = f
        BY <4>1
      <4> QED
        BY <4>1, <4>2
    <3> QED
      BY <3>1, <3>2
  <2>6. CounterMod \in Nat \ {0}
    OBVIOUS
  <2> HIDE DEF f, g, v, w, D, E, L, z, k, x
  <2>7. v \in Int /\ w \in Int /\ x \in Int /\ x - (w - v) = 0
    BY ONLY <2>2, <2>3, <2>4
  <2>8. Even(x - (w - v), CounterMod)
    BY <2>6, <2>7, NoMove
  <2>9. g = w % CounterMod
    BY <2>1, <2>5, <2>6, <2>7, <2>8, SettledMove, ZenonT(40)
  <2> QED
    BY <2>9 DEF g, w, Settled
<1> QED
  BY <1>5, <1>6

-----------------------------------------------------------------------------
(***************************************************************************)
(* The batch is taken exactly when its counter becomes zero.               *)
(***************************************************************************)

\* A counter at zero: as many references are late as are still to be dropped.
Evens ==
    \A r \in Objs : Roomy(r) /\ Sole(r) /\ Settled(r) /\ refs[r] = 0
                       => Cardinality(Debts(r)) = Cardinality(Late(r))

\* At zero as many references are withheld as there are debts.
LEMMA EvensHold == Base => Evens
<1> SUFFICES ASSUME Base, NEW r \in Objs, Roomy(r), Sole(r), Settled(r), refs[r] = 0
             PROVE  Cardinality(Debts(r)) = Cardinality(Late(r))
  BY DEF Evens
<1>1. build.words \in {1, 2} /\ IsFiniteSet(Objs)
  BY SlotFacts, BlocksAssumption DEF Base, Sound, HyalineTypeOK
<1>2. Sound /\ Places /\ AllPushes /\ AllAmounts /\ AllTidy
  BY DEF Base
<1>3. CASE build.words = 2
  BY <1>1, <1>2, <1>3, ZeroWide
<1>4. CASE build.words = 1
  BY <1>1, <1>2, <1>4, ZeroNarrow
<1> QED
  BY <1>1, <1>3, <1>4

\* The thread takes the batch exactly when it is gone.
LEMMA DropsZero ==
  ASSUME Books, NEW t \in Tasks, NEW n, Drops(t, n), NEW q, q = link[n]
  PROVE  /\ q \in Lasts /\ q \in Objs
         /\ refs'[q] = 0 <=> Gone(q)'
         /\ list'[t] = IF refs'[q] = 0 THEN list[t] \union {q} ELSE list[t]
<1>1. /\ build' = build /\ NumSlots' = NumSlots /\ q \in Objs /\ q \in Lasts
      /\ Sound /\ build.words \in {1, 2} /\ IsFiniteSet(Objs)
  BY DropsNode
<1>2. Stays(t)
  BY DEF Drops
<1>3. /\ refs \in [Objs -> 0 .. CounterMod - 1] /\ list \in [Tasks -> SUBSET Objs]
  BY <1>1, SoundParts, TypeParts DEF SharedTypeOK, LocalTypeOK
<1>4. Owns(t)' /\ AllPushes'
  <2>1. /\ Stays(t)
        /\ pc'[t] \notin Retires \union {"rt_fin"}
        /\ pc'[t] \in {"lv_clear", "lv_adj"} => rt'[t].amt = Addend
    BY <1>2 DEF Drops
  <2>2. Owns(t)'
    BY <2>1, PlainOwn
  <2> QED
    BY <2>1, <2>2, PushesAfter DEF Owns, Books
<1>5. \A u \in Tasks : u # t /\ pc[u] \in Retires =>
            (Owed(u) \union {head[vec[u]].ptr}) \ {NULL}
               \subseteq Owed(u)' \union {head'[vec'[u]].ptr}
  BY DEF Drops
<1>6. Base' /\ Zeros' /\ Ends'
  BY <1>2, <1>4, <1>5, DropsPlaces, BaseAfter DEF Books
<1>7. Evens'
  BY <1>6, EvensHold, PTL
<1>8. Settled(q)' /\ Roomy(q)'
  BY <1>1, <1>4, DropsBooks
<1>9. /\ Cardinality(Debts(q)) \in Nat /\ Cardinality(Late(q)) \in Nat
      /\ Cardinality(Debts(q))' = Cardinality(Debts(q)) - 1
      /\ Cardinality(Late(q))' = Cardinality(Late(q))
      /\ Missing(q)' = Missing(q) /\ Active(q)' = Active(q)
  <2>1. /\ Cardinality(Debts(q)) \in Nat
        /\ Cardinality(Debts(q))' = Cardinality(Debts(q)) - (IF q = link[n] THEN 1 ELSE 0)
    BY <1>1, DropsDebts
  <2>2. Cardinality(Debts(q))' = Cardinality(Debts(q)) - 1
    BY <2>1
  <2>3. /\ Cardinality(Late(q)) \in Nat /\ Cardinality(Late(q))' = Cardinality(Late(q))
        /\ Missing(q)' = Missing(q) /\ Active(q)' = Active(q)
    BY <1>1, <1>4, DropsSums
  <2> QED
    BY <2>1, <2>2, <2>3
<1>10. Roomy(q) /\ Sole(q) /\ Sole(q)'
  <2>1. Roomy(q)
    BY <1>1, CountedIs DEF Books
  <2>2. \A u, v \in Active(q) : u = v
    BY <1>1 DEF Books, Struct, BatchesApart
  <2> QED
    BY <1>9, <2>1, <2>2 DEF Sole
<1>11. refs'[q] = 0 => Cardinality(Debts(q))' = Cardinality(Late(q))'
  BY <1>1, <1>7, <1>8, <1>10 DEF Evens
<1>12. refs'[q] = 0 => IF build.words = 2 THEN Missing(q)' # NumSlots ELSE Active(q)' = {}
  <2>1. SUFFICES ASSUME refs'[q] = 0,
                        IF build.words = 2 THEN Missing(q)' = NumSlots ELSE Active(q)' # {}
                 PROVE  FALSE
    OBVIOUS
  <2>2. Cardinality(Debts(q)) <= Cardinality(Late(q))
    <3>1. CASE build.words = 2
      BY <1>1, <1>9, <1>10, <2>1, <3>1, DropsFull, BooksParts
    <3>2. CASE build.words = 1
      BY <1>9, <1>10, <2>1, <3>2 DEF Roomy
    <3> QED
      BY <1>1, <3>1, <3>2
  <2>3. Cardinality(Debts(q))' = Cardinality(Late(q))'
    BY <1>11, <2>1
  <2> QED
    BY <1>9, <2>2, <2>3
<1>13. refs'[q] = 0 <=> Gone(q)'
  BY <1>1, <1>6, <1>8, <1>12, ZeroAfter
<1>14. list'[t] = IF refs'[q] = 0 THEN list[t] \union {q} ELSE list[t]
  <2>1. refs'[q] = (refs[q] - 1) % CounterMod
    BY <1>1, <1>3 DEF Drops
  <2>2. list'[t] = IF refs[q] = 1 THEN list[t] \union {q} ELSE list[t]
    BY <1>3 DEF Drops
  <2>3. (refs[q] - 1) % CounterMod = 0 <=> refs[q] = 1
    <3> DEFINE f == refs[q]
    <3>1. f \in 0 .. CounterMod - 1 /\ CounterMod \in Nat /\ CounterMod > 1
      BY <1>1, <1>3, ManyCounts, TasksFinite, FS_EmptySet
    <3> HIDE DEF f
    <3>2. CASE f = 0
      BY <3>1, <3>2 DEF f
    <3>3. CASE f # 0
      <4>1. f - 1 \in 0 .. CounterMod - 1
        BY <3>1, <3>3
      <4>2. (f - 1) % CounterMod = f - 1
        BY <3>1, <4>1
      <4> QED
        BY <3>1, <3>3, <4>2 DEF f
    <3> QED
      BY <3>2, <3>3
  <2> QED
    BY <2>1, <2>2, <2>3
<1> QED
  BY <1>1, <1>13, <1>14

\* Dropping a node keeps the invariant.
LEMMA DropsKeeps ==
  ASSUME Books, NEW t \in Tasks, NEW n, Drops(t, n), Sited'
  PROVE  Books'
<1>1. Stays(t)
  BY DEF Drops
<1>2. PICK q \in Objs : q = link[n]
  BY DropsNode
<1>3. /\ q \in Lasts /\ Nodes(q) # {}
      /\ list'[t] = IF Gone(q)' THEN list[t] \union {q} ELSE list[t]
  BY <1>2, DropsNode, DropsZero DEF Nodes
<1>4. /\ InPlay' \subseteq InPlay /\ Walked' /\ \A r : r # q => Nodes(r)' = Nodes(r)
  BY <1>2, DropsPlay DEF Drops
<1>5. /\ Fresh(t)' \subseteq Fresh(t) /\ Ending(t)' \subseteq Ending(t)
      /\ \A r \in Ending(t) \ Ending(t)' : r = q
  BY DropsNode
<1>6. Struct' /\ Lasts' = Lasts
  BY <1>1, <1>3, <1>4, <1>5, TakenStruct
<1>7. Owns(t)' /\ AllPushes'
  <2>1. /\ pc'[t] \notin Retires \union {"rt_fin"}
        /\ pc'[t] \in {"lv_clear", "lv_adj"} => rt'[t].amt = Addend
    BY DEF Drops
  <2>2. Owns(t)'
    BY <1>1, <2>1, PlainOwn
  <2> QED
    BY <1>1, <2>2, PushesAfter DEF Owns, Books
<1>8. \A r \in Lasts : Settled(r)' /\ Roomy(r)'
  BY <1>7, DropsBooks
<1>9. Room' /\ Counted'
  BY <1>6, <1>8 DEF Counted, Room, Settled, Worth, Roomy
<1>10. Emptied'
  <2> SUFFICES ASSUME NEW s \in Slots, build.words = 2, head'[s].ref = 0, head'[s].ptr # NULL
               PROVE  head'[s] = head[s] /\ ~(pc[t] = "lv_clear" /\ vec[t] = s
                                              /\ rt[t].node = head[s].ptr)
    BY <1>1, EmptiedStep DEF Books
  <2> QED
    BY DEF Drops
<1>11. \A u \in Tasks : u # t /\ pc[u] \in Retires =>
            (Owed(u) \union {head[vec[u]].ptr}) \ {NULL}
               \subseteq Owed(u)' \union {head'[vec'[u]].ptr}
  BY DEF Drops
<1> QED
  BY <1>1, <1>4, <1>6, <1>7, <1>9, <1>10, <1>11, DropsPlaces, BooksAfter DEF Books

\* A step of the walk keeps the invariant.
LEMMA TraverseKeeps ==
  ASSUME Books, NEW t \in Tasks, Good(t), Sound', Traverse(t)
  PROVE  Books'
<1>1. Sound /\ Sited /\ Walked /\ Tidy(t) /\ AllTidy /\ IsFiniteSet(Objs)
  BY BooksParts
<1>2. PICK n : n = Head(wk[t].segs).cur
  OBVIOUS
<1>3. /\ n \in Owed(t) /\ Owed(t)' = Owed(t) \ {n} /\ Paths(t)'
      /\ \A u \in Tasks : u # t => Owed(u)' = Owed(u) /\ Paths(u)'
  BY <1>1, <1>2, TraversePaths
<1>4. /\ UNCHANGED <<clientVars, build, next, link, batch, vec, head, handle, rt>>
      /\ Neat(t) /\ pc[t] = "trav"
      /\ refs' = [refs EXCEPT ![link[n]] = (@ - 1) % CounterMod]
      /\ list' = [list EXCEPT ![t] = IF refs[link[n]] = 1 THEN @ \union {link[n]} ELSE @]
      /\ pc'[t] \in {"trav", "ack", "free", "look", "add", "out", "in", "leave"}
  BY <1>1, <1>2, TraverseFx, Zenon DEF LastReference
<1>5. Sited' /\ Retired' = Retired
  BY <1>1, <1>4, SitedSame
<1>6. Stays(t)
  BY <1>1, <1>4, <1>5 DEF Stays
<1>7. Walked'
  BY <1>3 DEF Walked
<1>8. pc'[t] \notin Retires \union {"rt_fin", "lv_adj", "lv_clear", "lv_cas"}
  BY <1>4 DEF Retires
<1>9. Drops(t, n)
  BY <1>3, <1>4, <1>6, <1>7, <1>8 DEF Drops
<1> QED
  BY <1>5, <1>9, DropsKeeps

-----------------------------------------------------------------------------
(***************************************************************************)
(* The batches that a thread has taken are freed.                          *)
(***************************************************************************)

\* A batch whose sums stay.
LEMMA BookStays ==
  ASSUME Sound, Sound', AllPushes, AllPushes', build' = build, NEW r \in Objs,
         \A u \in Tasks : /\ OwedTo(u, r)' = OwedTo(u, r) /\ Withheld(u, r)' = Withheld(u, r)
                          /\ LackOf(u, r)' = LackOf(u, r)
                          /\ u \in Active(r)' <=> u \in Active(r),
         HeadsOf(r)' = HeadsOf(r), DuesOf(r)' = DuesOf(r), Nodes(r)' = Nodes(r),
         refs'[r] = refs[r], Settled(r), Roomy(r)
  PROVE  Settled(r)' /\ Roomy(r)'
<1>1. PICK t \in Tasks : TRUE
  BY TasksFinite, FS_EmptySet
<1>2. Addend' = Addend /\ NumSlots' = NumSlots
  BY SameBuild
<1>3. Cardinality(Debts(r))' = Cardinality(Debts(r))
  <2>1. /\ Cardinality(Debts(r)) \in Nat /\ Cardinality(Debts(r))' \in Nat
        /\ Cardinality(OwedTo(t, r)) \in Nat /\ Cardinality(OwedTo(t, r))' \in Nat
        /\ Cardinality(Debts(r))' - Cardinality(Debts(r))
              = Cardinality(OwedTo(t, r))' - Cardinality(OwedTo(t, r))
    BY DebtsMove
  <2>2. Cardinality(OwedTo(t, r))' = Cardinality(OwedTo(t, r))
    OBVIOUS
  <2> QED
    BY <2>1, <2>2
<1>4. Cardinality(Late(r))' = Cardinality(Late(r))
  BY LateMove
<1>5. Unadded(r)' = Unadded(r)
  <2>1. /\ Unadded(r) \in Nat /\ Unadded(r)' \in Nat
        /\ Cardinality(LackOf(t, r)) \in Nat /\ Cardinality(LackOf(t, r))' \in Nat
        /\ Unadded(r)' - Unadded(r) = Cardinality(LackOf(t, r))' - Cardinality(LackOf(t, r))
    BY LackMove
  <2>2. Cardinality(LackOf(t, r))' = Cardinality(LackOf(t, r))
    OBVIOUS
  <2> QED
    BY <2>1, <2>2
<1>6. Missing(r)' = Missing(r)
  BY <1>5, MissingIs DEF Missing, HeadsOf, DuesOf, Unadded, Due
<1>7. Active(r)' = Active(r)
  BY DEF Active
<1>8. Worth(r)' = Worth(r)
  BY <1>2, <1>3, <1>4, <1>6 DEF Worth
<1>9. Settled(r)'
  BY <1>8 DEF Settled
<1>10. Roomy(r)'
  BY <1>2, <1>3, <1>4, <1>5, <1>7 DEF Roomy
<1> QED
  BY <1>9, <1>10

\* A thread frees the batches on its list.
Frees(t) ==
    /\ Sound /\ Sound' /\ Good(t) /\ Neat(t) /\ Calm
    /\ UNCHANGED <<cell, mine, build, link, batch, head, vec, rt, refs>>
    /\ pc[t] = "free"
    /\ pc'[t] \notin Retires \union {"rt_fin", "lv_adj", "lv_clear", "lv_cas"}
    /\ status' = [o \in Objs |-> IF o \in Members(list[t]) THEN "free" ELSE status[o]]
    /\ list' = [list EXCEPT ![t] = {}]

\* The nodes of those batches are nobody's.
LEMMA FreesMembers ==
  ASSUME Books, NEW t \in Tasks
  PROVE  /\ \A r \in Lasts \ list[t] : /\ r \notin Members(list[t])
                                       /\ link[r] \notin Members(list[t])
         /\ \A n : link[n] \in Lasts \ list[t] => n \notin Members(list[t])
         /\ \A n \in InPlay : link[n] \in Lasts \ list[t]
         /\ \A u \in Tasks : /\ Growing(u) \subseteq Lasts \ list[t]
                             /\ Ending(u) \subseteq Lasts \ list[t]
         /\ list[t] \subseteq Lasts
<1>1. /\ Struct /\ Sound /\ AllTidy /\ Lasts \subseteq Objs /\ InPlay \subseteq Objs
  BY LastsObjs, InPlayType DEF Books
<1>2. \A r \in Lasts :
          /\ link[link[r]] = r
          /\ link[r] \in Lasts => link[r] = r
  BY <1>1 DEF Struct, BatchesApart
<1>3. list[t] \subseteq Lasts
  BY LastsIs
<1>4. \A r \in list[t] : /\ Nodes(r) = {} /\ Active(r) = {}
                         /\ \A u \in Tasks : r \notin Growing(u)
  BY <1>1 DEF Struct, AllQueued, Queued
<1>5. \A n : link[n] \in Lasts \ list[t] => n \notin Members(list[t])
  BY <1>2, <1>3 DEF Members
<1>6. \A r \in Lasts \ list[t] : /\ r \notin Members(list[t])
                                 /\ link[r] \notin Members(list[t])
  BY <1>2, <1>3 DEF Members
<1>7. \A n \in InPlay : link[n] \in Lasts \ list[t]
  <2> TAKE n \in InPlay
  <2>1. link[n] \in Lasts
    BY DEF Lasts
  <2>2. n \in Nodes(link[n])
    BY DEF Nodes
  <2> QED
    BY <1>4, <2>1, <2>2
<1>8. \A u \in Tasks : Growing(u) \subseteq Lasts \ list[t]
  BY <1>4, LastsIs
<1>9. \A u \in Tasks : Ending(u) \subseteq Lasts \ list[t]
  <2> SUFFICES ASSUME NEW u \in Tasks, NEW r \in Ending(u) PROVE r \in Lasts /\ r \notin list[t]
    OBVIOUS
  <2>1. r \in Lasts
    BY LastsIs
  <2>2. u \in Active(r)
    BY <1>1, <2>1, ActiveIs DEF AllTidy
  <2> QED
    BY <1>4, <2>1, <2>2
<1> QED
  BY <1>3, <1>5, <1>6, <1>7, <1>8, <1>9

\* What freeing leaves alone.
LEMMA FreesNode ==
  ASSUME Books, NEW t \in Tasks, Frees(t)
  PROVE  /\ Slots' = Slots /\ Addend' = Addend /\ NumSlots' = NumSlots
         /\ SMRBatch' = SMRBatch /\ AllTidy' /\ IsFiniteSet(Objs)
         /\ Fresh(t)' = Fresh(t)
         /\ \A u \in Tasks : u # t => list'[u] = list[u]
         /\ \A u \in Tasks : Growing(u)' = Growing(u)
         /\ \A u \in Tasks : u # t => pc'[u] = pc[u] /\ at'[u] = at[u]
         /\ \A u \in Tasks : /\ Due(u)' <=> Due(u)
                             /\ Ending(u)' = Ending(u)
                             /\ \A r \in Objs : /\ Withheld(u, r)' = Withheld(u, r)
                                                /\ LackOf(u, r)' = LackOf(u, r)
                                                /\ u \in Active(r)' <=> u \in Active(r)
<1>1. /\ Sound /\ Sound' /\ Good(t) /\ Neat(t) /\ link' = link /\ batch' = batch /\ rt' = rt
      /\ build' = build /\ Tidy(t) /\ AllTidy /\ IsFiniteSet(Objs)
  BY BooksParts DEF Frees
<1>2. /\ Slots' = Slots /\ Addend' = Addend /\ NumSlots' = NumSlots /\ SMRBatch' = SMRBatch
  BY <1>1, SameBuild
<1>3. \A u \in Tasks : u # t => SameLedger(u)
  BY <1>1, OtherLedgers
<1>4. Clear(t) /\ Clear(t)'
  BY <1>1 DEF Tidy, Frees, Retires, Clear, Adjusting
<1>5. /\ Ending(t) = {} /\ Ending(t)' = {} /\ ~Due(t) /\ ~Due(t)'
      /\ \A r \in Objs : /\ Withheld(t, r) = 0 /\ LackOf(t, r) = {} /\ t \notin Active(r)
                         /\ Withheld(t, r)' = 0 /\ LackOf(t, r)' = {} /\ t \notin Active(r)'
  BY <1>4, CleanHolds, CleanAfter DEF Clean
<1>6. \A u \in Tasks : /\ Due(u)' <=> Due(u)
                       /\ Ending(u)' = Ending(u)
                       /\ \A r \in Objs : /\ Withheld(u, r)' = Withheld(u, r)
                                          /\ LackOf(u, r)' = LackOf(u, r)
                                          /\ u \in Active(r)' <=> u \in Active(r)
  <2> TAKE u \in Tasks
  <2>1. CASE u = t
    BY <1>5, <2>1
  <2>2. CASE u # t
    BY <1>3, <2>2 DEF SameLedger
  <2> QED
    BY <2>1, <2>2
<1>7. Fresh(t)' = Fresh(t)
  BY <1>1 DEF Pushed, Frees, Retires, Fresh
<1>8. \A u \in Tasks : Growing(u)' = Growing(u)
  BY <1>1 DEF Growing
<1>9. AllTidy'
  <2> SUFFICES ASSUME NEW u \in Tasks PROVE Tidy(u)'
    BY DEF AllTidy
  <2>1. CASE u = t
    BY <1>1, <2>1 DEF Neat
  <2>2. CASE u # t
    BY <1>1, <2>2 DEF Neat, Good, Kept, AllTidy, Tidy
  <2> QED
    BY <2>1, <2>2
<1>10. \A u \in Tasks : u # t => list'[u] = list[u] /\ pc'[u] = pc[u] /\ at'[u] = at[u]
  BY <1>1, <1>3 DEF Neat, SameLedger
<1> QED
  BY <1>1, <1>2, <1>6, <1>7, <1>8, <1>9, <1>10

\* No node in play is freed.
LEMMA FreesPlay ==
  ASSUME Books, NEW t \in Tasks, Frees(t)
  PROVE  /\ InPlay' = InPlay /\ AllOwed' = AllOwed /\ Tops' = Tops /\ Buried' = Buried
         /\ \A m : Debtors(m)' = Debtors(m)
         /\ \A q : Nodes(q)' = Nodes(q)
         /\ Walked' /\ Lasts' = Lasts \ list[t]
         /\ \A u \in Tasks : Fresh(u)' = Fresh(u)
<1>1. /\ link' = link /\ head' = head /\ rt' = rt /\ batch' = batch /\ Slots' = Slots /\ Calm
      /\ \A u \in Tasks : /\ Due(u)' <=> Due(u)
                          /\ Growing(u)' = Growing(u) /\ Ending(u)' = Ending(u)
      /\ \A u \in Tasks : u # t => list'[u] = list[u] /\ pc'[u] = pc[u]
      /\ Fresh(t)' = Fresh(t) /\ list \in [Tasks -> SUBSET Objs]
  BY FreesNode, SoundParts, TypeParts DEF Frees, LocalTypeOK
<1>2. AllOwed' = AllOwed /\ Walked' /\ \A m : Debtors(m)' = Debtors(m)
  BY <1>1, SameOwed
<1>3. Tops' = Tops /\ Buried' = Buried
  BY <1>1 DEF Tops, Buried
<1>4. InPlay' = InPlay
  BY <1>2, <1>3 DEF InPlay
<1>5. \A q : Nodes(q)' = Nodes(q)
  BY <1>1, <1>4 DEF Nodes
<1>6. \A u \in Tasks : Fresh(u)' = Fresh(u)
  <2> TAKE u \in Tasks
  <2>1. CASE u = t
    BY <1>1, <2>1
  <2>2. CASE u # t
    BY <1>1, <2>2 DEF Fresh, Pushed
  <2> QED
    BY <2>1, <2>2
<1>7. Lasts' = Lasts \ list[t]
  <2>1. \A r : r \in Lasts' <=> \/ Nodes(r)' # {}
                                \/ \E u \in Tasks : r \in list'[u] \union Growing(u)' \union Ending(u)'
    BY DEF Lasts, Nodes
  <2>2. \A u \in Tasks : list'[u] = IF u = t THEN {} ELSE list[u]
    BY <1>1 DEF Frees
  <2>3. \A r \in list[t] : /\ Nodes(r) = {}
                           /\ \A u \in Tasks : r \notin Growing(u) /\ (u # t => r \notin list[u])
    BY DEF Books, Struct, AllQueued, Queued
  <2>4. \A u \in Tasks : Ending(u) \intersect list[t] = {}
    BY FreesMembers
  <2>5. ASSUME NEW r PROVE r \in Lasts' <=> r \in Lasts /\ r \notin list[t]
    BY <1>1, <1>5, <2>1, <2>2, <2>3, <2>4, LastsIs
  <2> QED
    BY <2>5
<1> QED
  BY <1>2, <1>3, <1>4, <1>5, <1>6, <1>7

-----------------------------------------------------------------------------
(***************************************************************************)
(* They keep the invariant.                                                *)
(***************************************************************************)

\* Every node is still in one place.
LEMMA FreesPlaces ==
  ASSUME Books, NEW t \in Tasks, Frees(t)
  PROVE  Places'
<1>1. /\ Slots' = Slots /\ Addend' = Addend /\ build' = build /\ head' = head /\ rt' = rt
      /\ \A u \in Tasks : Due(u)' <=> Due(u)
      /\ Calm /\ Places
  BY FreesNode DEF Frees, Books
<1>2. /\ AllOwed' = AllOwed /\ Tops' = Tops /\ Buried' = Buried
      /\ \A m : Debtors(m)' = Debtors(m)
  BY FreesPlay
<1>3. \A u \in Tasks : Owed(u)' = Owed(u) /\ LateBy(u)' = LateBy(u)
  BY <1>1 DEF Calm, LateBy
<1>4. \A y, z \in Slots' : head'[y].ptr = head'[z].ptr /\ head'[y].ptr # NULL => y = z
  BY <1>1 DEF Places
<1>5. ASSUME build.words = 2
      PROVE  /\ (Tops \intersect (AllOwed \union Buried))' = {}
             /\ \A u, v \in Tasks : Due(u)' /\ Due(v)' /\ rt'[u].node = rt'[v].node => u = v
             /\ \A u \in Tasks, m \in Objs : Due(u)' /\ rt'[u].node = m =>
                  Cardinality(Debtors(m))' <= LateBy(u)' /\ LateBy(u)' <= TaskNum
  BY <1>1, <1>2, <1>3, <1>5 DEF Places
<1>6. ASSUME build.words = 1
      PROVE  /\ \A u, v \in Tasks : (Owed(u) \intersect Owed(v))' # {} => u = v
             /\ \A s \in Slots' : head'[s].ref = 0 => head'[s].ptr = NULL
  BY <1>1, <1>3, <1>6 DEF Places
<1> QED
  BY <1>1, <1>4, <1>5, <1>6 DEF Places

\* The blocks of the taken batches are retired no more.
LEMMA FreesStatus ==
  ASSUME Books, NEW t \in Tasks, Frees(t)
  PROVE  /\ \A o \in Objs : status'[o] = "retired" <=>
                              status[o] = "retired" /\ o \notin Members(list[t])
         /\ Lasts \subseteq Objs /\ InPlay \subseteq Objs /\ link \in [Objs -> Objs]
BY LastsObjs, InPlayType, SoundParts, TypeParts DEF Frees, Books, SharedTypeOK

\* The other batches are the same.
LEMMA FreesStruct ==
  ASSUME Books, NEW t \in Tasks, Frees(t)
  PROVE  Struct'
<1> DEFINE M == Members(list[t])
<1>1. /\ link' = link /\ batch' = batch /\ SMRBatch' = SMRBatch
      /\ list' = [list EXCEPT ![t] = {}] /\ list \in [Tasks -> SUBSET Objs]
      /\ \A u \in Tasks : Growing(u)' = Growing(u)
      /\ \A r \in Objs : Active(r)' = Active(r)
  <2>1. \A r \in Objs : \A u \in Tasks : u \in Active(r)' <=> u \in Active(r)
    BY FreesNode
  <2>2. \A r \in Objs : Active(r)' = Active(r)
    BY <2>1 DEF Active
  <2> QED
    BY <2>2, FreesNode, SoundParts, TypeParts DEF Frees, LocalTypeOK
<1>2. /\ InPlay' = InPlay /\ Lasts' = Lasts \ list[t]
      /\ \A q : Nodes(q)' = Nodes(q)
      /\ \A u \in Tasks : Fresh(u)' = Fresh(u)
  BY FreesPlay
<1>3. /\ \A o \in Objs : status'[o] = "retired" <=> status[o] = "retired" /\ o \notin M
      /\ Lasts \subseteq Objs /\ InPlay \subseteq Objs /\ link \in [Objs -> Objs]
  BY FreesStatus
<1>4. /\ \A r \in Lasts \ list[t] : r \notin M /\ link[r] \notin M
      /\ \A n : link[n] \in Lasts \ list[t] => n \notin M
      /\ \A n \in InPlay : link[n] \in Lasts \ list[t]
      /\ \A u \in Tasks : Growing(u) \subseteq Lasts \ list[t]
      /\ list[t] \subseteq Lasts
  BY FreesMembers
<1>5. M = list[t] \union {o \in Objs : status[o] = "retired" /\ link[o] \in list[t]}
  BY DEF Members
<1> HIDE DEF M
<1>6. AllGrows /\ AllQueued /\ BatchesApart /\ Known
  BY DEF Books, Struct
<1>7. AllGrows'
  <2> SUFFICES ASSUME NEW u \in Tasks PROVE Grows(u)'
    BY DEF AllGrows
  <2>1. Grows(u)
    BY <1>6 DEF AllGrows
  <2>2. batch[u] \in Seq(Objs)
    BY SoundParts, Fields DEF Books
  <2>3. \A i \in DOMAIN batch[u] : batch[u][i] \in Objs
    BY <2>2
  <2>4. \A i \in DOMAIN batch[u] : /\ status[batch[u][i]] = "retired"
                                   /\ {link[batch[u][i]]} = Growing(u)
    BY <2>1 DEF Grows
  <2>5. \A i \in DOMAIN batch[u] : batch[u][i] \notin M
    BY <1>4, <2>4
  <2>6. \A i \in DOMAIN batch'[u] : /\ status'[batch'[u][i]] = "retired"
                                    /\ {link'[batch'[u][i]]} = Growing(u)'
    BY <1>1, <1>3, <2>3, <2>4, <2>5
  <2>7. \A r \in Growing(u)' : Nodes(r)' = {} /\ Active(r)' = {}
                               /\ \A w \in Tasks : w # u => r \notin Growing(w)'
    <3>1. Growing(u) \subseteq Objs
      BY <1>3, <1>4
    <3>2. \A r \in Growing(u) : Nodes(r) = {} /\ Active(r) = {}
                               /\ \A w \in Tasks : w # u => r \notin Growing(w)
      BY <2>1 DEF Grows
    <3> QED
      BY <1>1, <1>2, <3>1, <3>2
  <2>8. /\ Len(batch'[u]) < SMRBatch'
        /\ \A i, j \in DOMAIN batch'[u] : batch'[u][i] = batch'[u][j] => i = j
    BY <1>1, <2>1 DEF Grows
  <2> QED
    BY <2>6, <2>7, <2>8 DEF Grows
<1>8. AllQueued'
  <2> SUFFICES ASSUME NEW u \in Tasks, NEW r \in list'[u]
               PROVE  /\ Nodes(r)' = {} /\ Active(r)' = {}
                      /\ \A w \in Tasks : r \notin Growing(w)' /\ (w # u => r \notin list'[w])
    BY DEF AllQueued, Queued
  <2>1. u # t /\ r \in list[u] /\ r \in Objs /\ \A w \in Tasks : list'[w] \subseteq list[w]
    BY <1>1
  <2>2. /\ Nodes(r) = {} /\ Active(r) = {}
        /\ \A w \in Tasks : r \notin Growing(w) /\ (w # u => r \notin list[w])
    BY <1>6, <2>1 DEF AllQueued, Queued
  <2> QED
    BY <1>1, <1>2, <2>1, <2>2
<1>9. BatchesApart'
  <2>1. /\ \A r \in Lasts :
          /\ status[r] = "retired" /\ status[link[r]] = "retired"
          /\ link[link[r]] = r
          /\ link[r] \in Lasts => link[r] = r
          /\ link[r] = r => \E u \in Tasks : r \in Growing(u)
        /\ \A n \in InPlay : status[n] = "retired" /\ n \notin Lasts
        /\ \A u \in Tasks : Fresh(u) \intersect InPlay = {}
        /\ \A r \in Objs : \A v, u \in Active(r) : v = u
    BY <1>6 DEF BatchesApart
  <2>2. \A r \in Lasts' :
          /\ status'[r] = "retired" /\ status'[link'[r]] = "retired"
          /\ link'[link'[r]] = r
          /\ link'[r] \in Lasts' => link'[r] = r
          /\ link'[r] = r => \E u \in Tasks : r \in Growing(u)'
    <3> SUFFICES ASSUME NEW r \in Lasts, r \notin list[t]
                 PROVE  /\ status'[r] = "retired" /\ status'[link[r]] = "retired"
                        /\ link[link[r]] = r
                        /\ link[r] \in Lasts => link[r] = r
                        /\ link[r] = r => \E u \in Tasks : r \in Growing(u)
      BY <1>1, <1>2
    <3>1. r \in Objs /\ link[r] \in Objs /\ r \notin M /\ link[r] \notin M
      BY <1>3, <1>4
    <3> QED
      BY <1>3, <2>1, <3>1
  <2>3. \A n \in InPlay' : status'[n] = "retired" /\ n \notin Lasts'
    <3> SUFFICES ASSUME NEW n \in InPlay PROVE status'[n] = "retired" /\ n \notin Lasts
      BY <1>2
    <3>1. n \in Objs /\ n \notin M
      BY <1>3, <1>4
    <3> QED
      BY <1>3, <2>1, <3>1
  <2>4. \A u \in Tasks : Fresh(u)' \intersect InPlay' = {}
    BY <1>2, <2>1
  <2>5. \A r \in Objs : \A v, u \in Active(r)' : v = u
    BY <1>1, <2>1
  <2> QED
    BY <2>2, <2>3, <2>4, <2>5 DEF BatchesApart
<1>10. Known'
  <2> SUFFICES ASSUME NEW o \in Objs, status'[o] = "retired"
               PROVE  \/ \E u \in Tasks : \E i \in DOMAIN batch'[u] : batch'[u][i] = o
                      \/ \E r \in Lasts' : (r = o \/ link'[o] = r)
                                           /\ \A u \in Tasks : r \notin Growing(u)'
    BY DEF Known
  <2>1. status[o] = "retired" /\ o \notin M
    BY <1>3
  <2>2. CASE \E u \in Tasks : \E i \in DOMAIN batch[u] : batch[u][i] = o
    BY <1>1, <2>2
  <2>3. CASE \E r \in Lasts : (r = o \/ link[o] = r) /\ \A u \in Tasks : r \notin Growing(u)
    <3>1. PICK r \in Lasts : (r = o \/ link[o] = r) /\ \A u \in Tasks : r \notin Growing(u)
      BY <2>3
    <3>2. r \notin list[t]
      BY <1>5, <2>1, <3>1
    <3> QED
      BY <1>1, <1>2, <3>1, <3>2
  <2> QED
    BY <1>6, <2>1, <2>2, <2>3 DEF Known
<1> QED
  BY <1>7, <1>8, <1>9, <1>10 DEF Struct

\* The batches that are pushed are none of the freed ones.
LEMMA FreesOwn ==
  ASSUME Books, NEW t \in Tasks, Frees(t), NEW u \in Tasks
  PROVE  Pushes(u)' /\ Amounts(u)' /\ Holds(u)'
<1> DEFINE M == Members(list[t])
<1>1. /\ rt' = rt /\ link' = link /\ head' = head /\ vec' = vec /\ build' = build
      /\ SMRBatch' = SMRBatch /\ NumSlots' = NumSlots /\ Addend' = Addend
      /\ u # t => pc'[u] = pc[u] /\ at'[u] = at[u]
      /\ pc[t] = "free"
      /\ pc'[t] \notin Retires \union {"rt_fin", "lv_adj", "lv_clear", "lv_cas"}
      /\ Owed(u)' = Owed(u) /\ Sound /\ AllTidy
  BY FreesNode DEF Frees, Calm, Books
<1>2. Pushes(u) /\ Amounts(u) /\ Holds(u)
  BY DEF Books, AllPushes, AllAmounts, AllHolds
<1>3. Retiring(u)' = Retiring(u)
  BY <1>1 DEF Retiring
<1>4. /\ \A o \in Objs : status'[o] = "retired" <=> status[o] = "retired" /\ o \notin M
      /\ Lasts \subseteq Objs /\ link \in [Objs -> Objs]
  BY FreesStatus
<1>5. /\ \A r \in Lasts \ list[t] : r \notin M /\ link[r] \notin M
      /\ \A n : link[n] \in Lasts \ list[t] => n \notin M
      /\ Ending(u) \subseteq Lasts \ list[t]
  BY FreesMembers
<1> HIDE DEF M
<1>6. Pushes(u)'
  <2>1. rt[u].todo \in Seq(Objs) /\ Tidy(u)
    BY <1>1, SoundParts, Fields DEF AllTidy
  <2>2. \A i \in DOMAIN rt[u].todo : rt[u].todo[i] \in Objs
    BY <2>1
  <2>3. rt[u].first = NULL => rt[u].todo = <<>>
    BY <1>1, SoundParts, <2>1 DEF Control, Tidy, Retires
  <2>4. \A i \in DOMAIN rt[u].todo : rt[u].todo[i] \notin M
    <3> SUFFICES ASSUME NEW i \in DOMAIN rt[u].todo PROVE rt[u].todo[i] \notin M
      OBVIOUS
    <3>1. rt[u].first # NULL
      BY <2>3
    <3>2. Retiring(u) \in Ending(u)
      <4>1. Retiring(u) # NULL
        <5>1. rt[u].first \in Objs
          BY <1>1, <3>1, SoundParts, Fields DEF Batches, Ptrs
        <5> QED
          BY <1>4, <3>1, <5>1 DEF Retiring
      <4> QED
        BY <4>1 DEF Ending
    <3>3. rt[u].todo[i] = Retiring(u) \/ link[rt[u].todo[i]] = Retiring(u)
      BY <1>2 DEF Pushes
    <3> QED
      BY <1>5, <3>2, <3>3
  <2> QED
    BY <1>1, <1>2, <1>3, <1>4, <2>2, <2>4 DEF Pushes
<1>7. Amounts(u)' /\ Holds(u)'
  <2>1. CASE u = t
    <3>1. Amounts(u)'
      BY <1>1, <2>1 DEF Amounts, Retires
    <3>2. Holds(u)'
      BY <1>1, <2>1 DEF Holds, Retires
    <3> QED
      BY <3>1, <3>2
  <2>2. CASE u # t
    <3>1. Skips(u)' = Skips(u)
      BY <1>1, <2>2 DEF Skips
    <3>2. Amounts(u)'
      BY <1>1, <1>2, <2>2, <3>1 DEF Amounts
    <3>3. Holds(u)'
      BY <1>1, <1>2, <1>3, <2>2, <3>1 DEF Holds
    <3> QED
      BY <3>2, <3>3
  <2> QED
    BY <2>1, <2>2
<1> QED
  BY <1>6, <1>7

\* The counters of the other batches are exact.
LEMMA FreesBooks ==
  ASSUME Books, NEW t \in Tasks, Frees(t)
  PROVE  Room' /\ Counted' /\ AllPushes' /\ AllAmounts' /\ AllHolds'
<1>1. AllPushes' /\ AllAmounts' /\ AllHolds'
  BY FreesOwn DEF AllPushes, AllAmounts, AllHolds
<1>2. /\ Sound /\ Sound' /\ AllPushes /\ build' = build /\ link' = link /\ head' = head
      /\ rt' = rt /\ refs' = refs /\ Calm /\ Slots' = Slots
      /\ \A u \in Tasks : Due(u)' <=> Due(u)
      /\ Lasts \subseteq Objs
  BY FreesNode, FreesStatus DEF Frees, Books
<1>3. Lasts' \subseteq Lasts /\ \A q : Nodes(q)' = Nodes(q)
  BY FreesPlay
<1>4. ASSUME NEW r \in Lasts PROVE Settled(r)' /\ Roomy(r)'
  <2>1. r \in Objs
    BY <1>2
  <2>2. \A u \in Tasks : /\ OwedTo(u, r)' = OwedTo(u, r) /\ Withheld(u, r)' = Withheld(u, r)
                         /\ LackOf(u, r)' = LackOf(u, r)
                         /\ u \in Active(r)' <=> u \in Active(r)
    <3>1. \A u \in Tasks : /\ Withheld(u, r)' = Withheld(u, r)
                           /\ LackOf(u, r)' = LackOf(u, r)
                           /\ u \in Active(r)' <=> u \in Active(r)
      BY <2>1, FreesNode
    <3>2. \A u \in Tasks : OwedTo(u, r)' = OwedTo(u, r)
      BY <1>2 DEF OwedTo, Calm
    <3> QED
      BY <3>1, <3>2
  <2>3. HeadsOf(r)' = HeadsOf(r) /\ DuesOf(r)' = DuesOf(r)
    BY <1>2 DEF HeadsOf, DuesOf
  <2>4. Settled(r) /\ Roomy(r)
    BY CountedIs DEF Books
  <2> QED
    BY <1>1, <1>2, <1>3, <2>1, <2>2, <2>3, <2>4, BookStays
<1>5. Room' /\ Counted'
  BY <1>3, <1>4 DEF Counted, Room, Settled, Worth, Roomy
<1> QED
  BY <1>1, <1>5

\* Freeing keeps the invariant.
LEMMA FreesKeeps ==
  ASSUME Books, NEW t \in Tasks, Frees(t)
  PROVE  Books'
<1>1. Sited'
  <2>1. /\ cell' = cell /\ mine' = mine /\ Sited /\ Sound
        /\ status' = [o \in Objs |-> IF o \in Members(list[t]) THEN "free" ELSE status[o]]
    BY DEF Frees, Books
  <2>2. cell \in [Cells -> Ptrs] /\ mine \in [Tasks -> Ptrs]
    BY <2>1, SoundParts DEF HyalineTypeOK, ClientTypeOK
  <2>3. \A o \in Members(list[t]) : status[o] = "retired"
    BY FreesMembers DEF Books, Struct, BatchesApart, Members
  <2>4. \A o \in Objs : status[o] \in {"linked", "private"} => status'[o] = status[o]
    BY <2>1, <2>3
  <2>5. /\ \A c \in Cells : cell[c] # NULL => cell[c] \in Objs
        /\ \A u \in Tasks : mine[u] # NULL => mine[u] \in Objs
    BY <2>2 DEF Ptrs
  <2> QED
    BY <2>1, <2>4, <2>5 DEF Sited
<1>2. Emptied'
  <2>1. /\ head' = head /\ vec' = vec /\ rt' = rt /\ build' = build /\ Slots' = Slots
        /\ \A u \in Tasks : u # t => pc'[u] = pc[u]
        /\ pc[t] = "free" /\ Emptied
    BY FreesNode DEF Frees, Books
  <2>2. \A u \in Tasks : pc[u] = "lv_clear" => pc'[u] = "lv_clear"
    BY <2>1
  <2> QED
    BY <2>1, <2>2 DEF Emptied
<1>3. Walked' /\ Sound' /\ AllTidy'
  BY FreesPlay, FreesNode DEF Frees
<1> QED
  BY <1>1, <1>2, <1>3, FreesPlaces, FreesStruct, FreesBooks DEF Books

\* free_list keeps the invariant.
LEMMA FreeListKeeps ==
  ASSUME Books, NEW t \in Tasks, Good(t), Sound', FreeList(t)
  PROVE  Books'
<1>1. Sound /\ Sited /\ Walked /\ Tidy(t)
  BY BooksParts
<1>2. Calm
  BY <1>1, StillCalm
<1>3. /\ UNCHANGED <<cell, mine, victim, build, next, link, refs, batch, vec,
                     head, handle, rt>>
      /\ Neat(t) /\ pc[t] = "free"
      /\ status' = [o \in Objs |-> IF o \in Members(list[t]) THEN "free" ELSE status[o]]
      /\ list' = [list EXCEPT ![t] = {}]
      /\ pc'[t] \in {"trav", "ack", "free", "look", "add", "out", "in"}
  BY <1>1, FreeFx
<1>4. pc'[t] \notin Retires \union {"rt_fin", "lv_adj", "lv_clear", "lv_cas"}
  BY <1>3 DEF Retires
<1>5. Frees(t)
  BY <1>1, <1>2, <1>3, <1>4 DEF Frees
<1> QED
  BY <1>5, FreesKeeps

-----------------------------------------------------------------------------
(***************************************************************************)
(* retire collects a node.                                                 *)
(***************************************************************************)

\* The thread retires o, which completes its batch or not; r is the last node.
Full(t) == Len(batch[t]) + 1 >= SMRBatch
Gathers(t, o, r) ==
    /\ Sound /\ Sound' /\ Good(t) /\ Neat(t) /\ Calm /\ Sited'
    /\ UNCHANGED <<build, vec, head, list>>
    /\ pc[t] = "in" /\ o \in Objs /\ o \notin Retired /\ Retired' = Retired \union {o}
    /\ r = IF batch[t] = <<>> THEN o ELSE batch[t][Len(batch[t])]
    /\ refs' = [refs EXCEPT ![o] = 0]
    /\ link' = IF Full(t) THEN [link EXCEPT ![o] = r, ![r] = o] ELSE [link EXCEPT ![o] = r]
    /\ batch'[t] = IF Full(t) THEN <<>> ELSE <<o>> \o batch[t]
    /\ rt[t].first = NULL
    /\ IF Full(t)
       THEN /\ pc'[t] \in {"rt_access", "rt_load"} /\ at'[t] = 0
            /\ rt'[t] = [NoRetire EXCEPT !.todo = <<o>> \o batch[t], !.first = o]
       ELSE rt'[t] = rt[t] /\ pc'[t] = "in"

\* A batch has two nodes or more.
LEMMA BatchTwo ==
  ASSUME Sound
  PROVE  SMRBatch \in Nat /\ SMRBatch >= 2 /\ NumSlots \in Nat /\ NumSlots >= 1
<1>1. build \in Builds
  BY DEF Sound, HyalineTypeOK
<1>2. NumSlots \in Nat \ {0} /\ TaskNum \in Nat \ {0}
  BY <1>1, SlotFacts
<1> QED
  BY <1>2 DEF SMRBatch

\* The node is new to everybody, its batch is the thread's alone.
LEMMA GathersNode ==
  ASSUME Books, NEW t \in Tasks, NEW o, NEW r, Gathers(t, o, r)
  PROVE  /\ o \in Objs /\ r \in Objs /\ o \notin InPlay /\ o \notin Lasts /\ r \notin InPlay
         /\ \A q \in Lasts \union InPlay : q \in Objs /\ link[q] \in Objs /\ link[q] # o
         /\ batch[t] \in Seq(Objs)
         /\ batch[t] = <<>> => r = o /\ Growing(t) = {} /\ ~Full(t)
         /\ batch[t] # <<>> => /\ Growing(t) = {r} /\ r \in Lasts /\ link[r] = r /\ r # o
                               /\ Nodes(r) = {} /\ Active(r) = {}
                               /\ \A u \in Tasks : r \notin list[u] /\ (u # t => r \notin Growing(u))
         /\ Full(t) => Len(batch[t]) + 1 = SMRBatch
         /\ \A n : n # o /\ n # r => link'[n] = link[n]
         /\ r # o => link'[r] = IF Full(t) THEN o ELSE link[r]
         /\ link'[o] = r
<1>1. /\ Struct /\ Sound /\ AllTidy /\ Lasts \subseteq Objs /\ InPlay \subseteq Objs
      /\ link \in [Objs -> Objs] /\ batch[t] \in Seq(Objs)
      /\ o \in Objs /\ status[o] # "retired"
  BY LastsObjs, InPlayType, SoundParts, TypeParts, Fields
     DEF Books, SharedTypeOK, Gathers, Retired
<1>2. /\ \A q \in Lasts :
          /\ status[q] = "retired" /\ status[link[q]] = "retired"
          /\ link[q] \in Lasts => link[q] = q
      /\ \A n \in InPlay : status[n] = "retired" /\ n \notin Lasts
  BY <1>1 DEF Struct, BatchesApart
<1>3. \A n \in InPlay : link[n] \in Lasts
  BY DEF Lasts
<1>4. /\ o \notin InPlay /\ o \notin Lasts
      /\ \A q \in Lasts \union InPlay : q \in Objs /\ link[q] \in Objs /\ link[q] # o
  BY <1>1, <1>2, <1>3
<1>5. r = IF batch[t] = <<>> THEN o ELSE batch[t][Len(batch[t])]
  BY DEF Gathers
<1>6. Grows(t)
  BY <1>1 DEF Struct, AllGrows
<1>7. SMRBatch \in Nat /\ SMRBatch >= 2 /\ Len(batch[t]) \in Nat
  BY <1>1, BatchTwo
<1>8. batch[t] = <<>> => r = o /\ Growing(t) = {} /\ ~Full(t)
  <2> SUFFICES ASSUME batch[t] = <<>> PROVE r = o /\ Growing(t) = {} /\ ~Full(t)
    OBVIOUS
  <2>1. Len(batch[t]) = 0
    OBVIOUS
  <2> QED
    BY <1>5, <1>7, <2>1 DEF Growing, Full
<1>9. ASSUME batch[t] # <<>>
      PROVE  /\ Growing(t) = {r} /\ r \in Lasts /\ link[r] = r /\ r # o
             /\ Nodes(r) = {} /\ Active(r) = {}
             /\ \A u \in Tasks : r \notin list[u] /\ (u # t => r \notin Growing(u))
  <2>1. Growing(t) = {r}
    BY <1>5, <1>9 DEF Growing
  <2>2. r \in Lasts
    BY <2>1, LastsIs
  <2>3. link[r] = r
    <3>1. Len(batch[t]) \in DOMAIN batch[t]
      BY <1>1, <1>9
    <3>2. {link[batch[t][Len(batch[t])]]} = Growing(t)
      BY <1>6, <3>1 DEF Grows
    <3> QED
      BY <1>5, <1>9, <2>1, <3>2
  <2>4. Nodes(r) = {} /\ Active(r) = {} /\ \A u \in Tasks : u # t => r \notin Growing(u)
    BY <1>6, <2>1 DEF Grows
  <2>5. \A u \in Tasks : r \notin list[u]
    BY <1>1, <2>1 DEF Struct, AllQueued, Queued
  <2> QED
    BY <1>4, <2>1, <2>2, <2>3, <2>4, <2>5
<1>10. Full(t) => Len(batch[t]) + 1 = SMRBatch
  BY <1>6, <1>7 DEF Full, Grows
<1>11. r \in Objs /\ r \notin InPlay
  BY <1>1, <1>2, <1>4, <1>8, <1>9
<1>12. /\ \A n : n # o /\ n # r => link'[n] = link[n]
       /\ r # o => link'[r] = IF Full(t) THEN o ELSE link[r]
       /\ link'[o] = r
  <2>1. CASE Full(t)
    <3>1. link' = [link EXCEPT ![o] = r, ![r] = o] /\ r # o
      BY <1>8, <1>9, <2>1 DEF Gathers
    <3> DEFINE g == [link EXCEPT ![o] = r]
    <3>2. g \in [Objs -> Objs] /\ g[o] = r /\ \A n : n # o => g[n] = link[n]
      BY <1>1, <1>11
    <3>3. link' = [g EXCEPT ![r] = o]
      BY <3>1
    <3> HIDE DEF g
    <3>4. link'[r] = o /\ \A n : n # r => link'[n] = g[n]
      BY <1>11, <3>2, <3>3
    <3> QED
      BY <2>1, <3>1, <3>2, <3>4
  <2>2. CASE ~Full(t)
    BY <1>1, <1>11, <2>2 DEF Gathers
  <2> QED
    BY <2>1, <2>2
<1> QED
  BY <1>1, <1>4, <1>8, <1>9, <1>10, <1>11, <1>12

\* The nodes of the batches that the others push are other ones.
LEMMA GathersOthers ==
  ASSUME Books, NEW t \in Tasks, NEW o, NEW r, Gathers(t, o, r),
         NEW u \in Tasks, u # t
  PROVE  /\ SameLedger(u)
         /\ \A i \in DOMAIN rt[u].todo : rt[u].todo[i] \in Objs /\ rt[u].todo[i] \notin {o, r}
         /\ rt[u].first # NULL => /\ rt[u].first \notin {o, r}
                                  /\ link[rt[u].first] \notin {o, r}
         /\ pc[u] = "rt_fin" => /\ rt[u].node \notin {o, r}
                                /\ link[rt[u].node] \notin {o, r}
<1>1. /\ rt'[u] = rt[u] /\ pc'[u] = pc[u] /\ build' = build /\ at'[u] = at[u]
  BY DEF Gathers, Good, Kept
<1>2. NumSlots' = NumSlots /\ SMRBatch' = SMRBatch /\ Addend' = Addend
  BY <1>1, SameBuild
<1>3. /\ o \in Objs /\ r \in Objs /\ o \notin InPlay /\ o \notin Lasts /\ r \notin InPlay
      /\ \A q \in Lasts \union InPlay : q \in Objs /\ link[q] \in Objs /\ link[q] # o
      /\ r # o => r \in Lasts /\ link[r] = r /\ Active(r) = {}
      /\ \A n : n # o /\ n # r => link'[n] = link[n]
  BY GathersNode
<1>4. /\ Struct /\ Sound /\ Tidy(u) /\ Pushes(u) /\ status[o] # "retired"
      /\ rt[u] \in Batches /\ rt[u].todo \in Seq(Objs) /\ Control(u)
  BY SoundParts, Fields DEF Books, AllTidy, AllPushes, Gathers, Retired
<1>5. /\ \A q \in Lasts : link[q] \in Lasts => link[q] = q
  BY <1>4 DEF Struct, BatchesApart
<1>6. Ending(u) \subseteq Lasts /\ \A q \in Ending(u) : q # o /\ q # r
  <2>1. Ending(u) \subseteq Lasts
    BY LastsIs
  <2>2. \A q \in Ending(u) : q \in Objs /\ u \in Active(q)
    BY <1>3, <1>4, <2>1, ActiveIs
  <2> QED
    BY <1>3, <2>1, <2>2
<1>7. ASSUME rt[u].first # NULL
      PROVE  /\ rt[u].first \notin {o, r} /\ link[rt[u].first] \notin {o, r}
             /\ Retiring(u) \in Ending(u)
  <2>1. Retiring(u) = link[rt[u].first]
    BY <1>7 DEF Retiring
  <2>2. rt[u].first \in Objs /\ link[rt[u].first] \in Objs
    <3>1. rt[u].first \in Objs
      BY <1>4, <1>7 DEF Batches, Ptrs
    <3>2. link \in [Objs -> Objs]
      BY <1>4, TypeParts DEF Sound, SharedTypeOK
    <3> QED
      BY <3>1, <3>2
  <2>3. Retiring(u) \in Ending(u)
    BY <2>1, <2>2 DEF Ending
  <2>4. link[Retiring(u)] = rt[u].first
    BY <1>4, <1>7, <2>1 DEF Pushes
  <2>5. rt[u].first # o
    BY <1>3, <1>6, <2>3, <2>4
  <2>6. rt[u].first # r
    BY <1>3, <1>5, <1>6, <2>3, <2>4, <2>5
  <2> QED
    BY <1>6, <2>1, <2>3, <2>5, <2>6
<1>8. ASSUME pc[u] = "rt_fin"
      PROVE  /\ rt[u].node \notin {o, r} /\ link[rt[u].node] \notin {o, r}
  <2>1. rt[u].first = NULL /\ Retiring(u) = NULL
    BY <1>4, <1>8 DEF Tidy, Retires, Retiring
  <2>2. link[rt[u].node] \in Ending(u)
    BY <1>8, <2>1 DEF Ending
  <2>3. link[link[rt[u].node]] = rt[u].node
    BY <1>4, <1>8 DEF Pushes
  <2>4. rt[u].node # o
    BY <1>3, <1>6, <2>2, <2>3
  <2>5. rt[u].node # r
    BY <1>3, <1>5, <1>6, <2>2, <2>3, <2>4
  <2> QED
    BY <1>6, <2>2, <2>4, <2>5
<1>9. ASSUME Due(u) PROVE rt[u].node \notin {o, r}
  BY <1>3, <1>9 DEF InPlay, Buried
<1>10. ASSUME NEW i \in DOMAIN rt[u].todo
       PROVE  rt[u].todo[i] \in Objs /\ rt[u].todo[i] \notin {o, r}
  <2>1. rt[u].todo[i] \in Objs /\ status[rt[u].todo[i]] = "retired"
    BY <1>4 DEF Pushes
  <2>2. rt[u].first # NULL
    BY <1>4 DEF Tidy, Control
  <2>3. rt[u].todo[i] = Retiring(u) \/ link[rt[u].todo[i]] = Retiring(u)
    BY <1>4 DEF Pushes
  <2>4. rt[u].todo[i] # r
    BY <1>3, <1>4, <1>6, <1>7, <2>1, <2>2, <2>3
  <2> QED
    BY <1>4, <2>1, <2>4
<1>11. Retiring(u)' = Retiring(u)
  BY <1>1, <1>3, <1>7 DEF Retiring
<1>12. Ending(u)' = Ending(u)
  BY <1>1, <1>3, <1>8, <1>11 DEF Ending
<1>13. (Due(u)' <=> Due(u)) /\ (Adjusting(u)' <=> Adjusting(u))
  BY <1>1 DEF Due, Adjusting
<1>14. Lacking(u)' = Lacking(u)
  BY <1>1, <1>2 DEF Lacking
<1>15. Adjusting(u) => link'[rt[u].node] = link[rt[u].node]
  BY <1>3, <1>8, <1>9 DEF Adjusting, Due
<1>16. ASSUME NEW q \in Objs
       PROVE  /\ Withheld(u, q)' = Withheld(u, q) /\ LackOf(u, q)' = LackOf(u, q)
              /\ u \in Active(q)' <=> u \in Active(q)
  <2>1. u \in Active(q)' <=> u \in Active(q)
    BY <1>1, <1>11, <1>15 DEF Active, Adjusting
  <2>2. Withheld(u, q)' = Withheld(u, q)
    BY <1>1, <1>2, <1>11, <1>13, <1>15 DEF Withheld
  <2> QED
    BY <1>14, <2>1, <2>2 DEF LackOf
<1> QED
  BY <1>1, <1>7, <1>8, <1>10, <1>11, <1>12, <1>13, <1>16 DEF SameLedger

-----------------------------------------------------------------------------
(***************************************************************************)
(* What the collected node changes.                                        *)
(***************************************************************************)

\* A full batch is one that its thread pushes and that lacks all slots.
LEMMA GathersLedger ==
  ASSUME Books, NEW t \in Tasks, NEW o, NEW r, Gathers(t, o, r)
  PROVE  /\ ~Due(t) /\ ~Due(t)' /\ Ending(t) = {}
         /\ \A q \in Objs : /\ Withheld(t, q) = 0 /\ Withheld(t, q)' = 0
                            /\ LackOf(t, q) = {} /\ t \notin Active(q)
                            /\ t \in Active(q)' <=> Full(t) /\ q = r
                            /\ LackOf(t, q)' = IF Full(t) /\ q = r THEN 1 .. NumSlots ELSE {}
         /\ Full(t) => Retiring(t)' = r
         /\ Ending(t)' = IF Full(t) THEN {r} ELSE {}
         /\ Fresh(t)' \subseteq Fresh(t) \union {o}
         /\ Growing(t)' = IF Full(t) THEN {} ELSE {r}
<1>1. /\ Sound /\ Tidy(t) /\ Tidy(t)' /\ build' = build /\ pc[t] = "in" /\ rt[t].first = NULL
      /\ o \in Objs /\ r \in Objs /\ batch[t] \in Seq(Objs) /\ link'[o] = r
      /\ batch'[t] = IF Full(t) THEN <<>> ELSE <<o>> \o batch[t]
      /\ batch[t] = <<>> => r = o /\ ~Full(t)
      /\ r = IF batch[t] = <<>> THEN o ELSE batch[t][Len(batch[t])]
      /\ Full(t) => Len(batch[t]) + 1 = SMRBatch
      /\ rt[t].todo = <<>>
  <2>1. /\ Sound /\ Tidy(t) /\ Tidy(t)' /\ build' = build /\ pc[t] = "in" /\ rt[t].first = NULL
        /\ batch'[t] = IF Full(t) THEN <<>> ELSE <<o>> \o batch[t]
        /\ r = IF batch[t] = <<>> THEN o ELSE batch[t][Len(batch[t])]
    BY DEF Gathers, Books, AllTidy, Neat
  <2>2. rt[t].todo = <<>>
    BY <2>1 DEF Tidy, Retires
  <2>3. /\ o \in Objs /\ r \in Objs /\ batch[t] \in Seq(Objs) /\ link'[o] = r
        /\ batch[t] = <<>> => r = o /\ ~Full(t)
        /\ Full(t) => Len(batch[t]) + 1 = SMRBatch
    BY GathersNode
  <2> QED
    BY <2>1, <2>2, <2>3
<1>2. /\ NumSlots' = NumSlots /\ SMRBatch' = SMRBatch /\ Addend' = Addend
      /\ NumSlots \in Nat /\ SMRBatch \in Nat /\ Len(batch[t]) \in Nat
  BY <1>1, SameBuild, BatchTwo
<1>3. Clear(t)
  BY <1>1 DEF Clear, Adjusting
<1>4. /\ Ending(t) = {} /\ ~Due(t)
      /\ \A q \in Objs : Withheld(t, q) = 0 /\ LackOf(t, q) = {} /\ t \notin Active(q)
  BY <1>3, CleanHolds DEF Clean
<1>5. Fresh(t) = {batch[t][i] : i \in DOMAIN batch[t]}
  BY <1>1 DEF Fresh
<1> DEFINE chain == <<o>> \o batch[t]
<1>6. /\ chain \in Seq(Objs) /\ Len(chain) = Len(batch[t]) + 1 /\ chain # <<>>
      /\ chain[Len(chain)] = r
      /\ \A i \in DOMAIN chain : chain[i] \in Fresh(t) \union {o}
  <2>1. /\ chain \in Seq(Objs) /\ Len(chain) = Len(batch[t]) + 1 /\ chain # <<>>
    BY <1>1
  <2>2. chain[Len(chain)] = r
    BY <1>1, <2>1
  <2>3. \A i \in DOMAIN chain : chain[i] = o \/ \E j \in DOMAIN batch[t] : chain[i] = batch[t][j]
    BY <1>1
  <2> QED
    BY <1>5, <2>1, <2>2, <2>3
<1> HIDE DEF chain
<1>7. CASE Full(t)
  <2>1. /\ pc'[t] \in {"rt_access", "rt_load"} /\ at'[t] = 0
        /\ rt'[t].todo = chain /\ rt'[t].first = o /\ rt'[t].adjs = 0
        /\ batch'[t] = <<>>
    BY <1>1, <1>7 DEF Gathers, NoRetire, chain
  <2>2. Retiring(t)' = r /\ r # NULL
    BY <1>1, <2>1 DEF Retiring
  <2>3. Ending(t)' = {r}
    BY <2>2 DEF Ending
  <2>4. ~Due(t)' /\ ~Adjusting(t)'
    BY <2>1 DEF Due, Adjusting
  <2>5. Lacking(t)' = 1 .. NumSlots
    <3>1. Lacking(t)' = 1 .. NumSlots' - SMRBatch' + Len(rt'[t].todo)
              - (IF pc'[t] \in {"rt_adj", "rt_count"} THEN 1 ELSE 0)
      BY <1>1, <2>1 DEF Lacking
    <3>2. NumSlots' - SMRBatch' + Len(rt'[t].todo)
              - (IF pc'[t] \in {"rt_adj", "rt_count"} THEN 1 ELSE 0) = NumSlots
      BY <1>1, <1>2, <1>6, <1>7, <2>1
    <3> QED
      BY <3>1, <3>2
  <2>6. \A q \in Objs : /\ Withheld(t, q)' = 0
                        /\ t \in Active(q)' <=> Full(t) /\ q = r
    BY <1>7, <2>1, <2>2, <2>4 DEF Withheld, Active
  <2>7. \A q \in Objs : LackOf(t, q)' = IF Full(t) /\ q = r THEN 1 .. NumSlots ELSE {}
    BY <1>7, <2>5, <2>6 DEF LackOf
  <2>8. Fresh(t)' \subseteq Fresh(t) \union {o}
    BY <1>6, <2>1 DEF Fresh
  <2>9. Growing(t)' = {}
    BY <2>1 DEF Growing
  <2> QED
    BY <1>4, <1>7, <2>2, <2>3, <2>4, <2>6, <2>7, <2>8, <2>9
<1>8. CASE ~Full(t)
  <2>1. pc'[t] = "in" /\ rt'[t].first = NULL /\ rt'[t].todo = <<>> /\ batch'[t] = chain
    BY <1>1, <1>8 DEF Gathers, chain
  <2>2. Clear(t)'
    BY <2>1 DEF Clear, Adjusting
  <2>3. /\ Ending(t)' = {} /\ ~Due(t)'
        /\ \A q \in Objs : Withheld(t, q)' = 0 /\ LackOf(t, q)' = {} /\ t \notin Active(q)'
    BY <2>2, CleanAfter DEF Clean
  <2>4. Fresh(t)' \subseteq Fresh(t) \union {o}
    BY <1>6, <2>1 DEF Fresh
  <2>5. Growing(t)' = {r}
    BY <1>6, <2>1 DEF Growing
  <2> QED
    BY <1>4, <1>8, <2>3, <2>4, <2>5
<1> QED
  BY <1>7, <1>8

\* The collected node is not in play.
LEMMA GathersPlay ==
  ASSUME Books, NEW t \in Tasks, NEW o, NEW r, Gathers(t, o, r)
  PROVE  /\ InPlay' = InPlay /\ AllOwed' = AllOwed /\ Tops' = Tops /\ Buried' = Buried
         /\ \A m : Debtors(m)' = Debtors(m)
         /\ \A n \in InPlay : link'[n] = link[n]
         /\ \A q : Nodes(q)' = Nodes(q)
         /\ Walked' /\ Lasts' = Lasts \union {r}
         /\ \A u \in Tasks : u # t => Fresh(u)' = Fresh(u) /\ Growing(u)' = Growing(u)
<1>1. /\ head' = head /\ Slots' = Slots /\ Calm /\ list' = list
      /\ \A u \in Tasks : u # t => /\ SameLedger(u) /\ batch'[u] = batch[u]
      /\ ~Due(t) /\ ~Due(t)'
  <2>1. Slots' = Slots
    BY SameBuild DEF Gathers
  <2>2. head' = head /\ Calm /\ list' = list /\ \A u \in Tasks : u # t => batch'[u] = batch[u]
    BY DEF Gathers, Neat
  <2>3. \A u \in Tasks : u # t => SameLedger(u)
    BY GathersOthers
  <2>4. ~Due(t) /\ ~Due(t)'
    BY GathersLedger
  <2> QED
    BY <2>1, <2>2, <2>3, <2>4
<1>2. AllOwed' = AllOwed /\ Walked' /\ \A m : Debtors(m)' = Debtors(m)
  BY <1>1, SameOwed
<1>3. Tops' = Tops /\ Buried' = Buried
  BY <1>1, SameBuried DEF Tops
<1>4. InPlay' = InPlay
  BY <1>2, <1>3 DEF InPlay
<1>5. \A n \in InPlay : link'[n] = link[n]
  <2>1. \A n : n # o /\ n # r => link'[n] = link[n]
    BY GathersNode
  <2>2. o \notin InPlay /\ r \notin InPlay
    BY GathersNode
  <2> QED
    BY <2>1, <2>2
<1>6. \A q : Nodes(q)' = Nodes(q)
  BY <1>4, <1>5 DEF Nodes
<1>7. \A u \in Tasks : u # t => Fresh(u)' = Fresh(u) /\ Growing(u)' = Growing(u)
  <2> SUFFICES ASSUME NEW u \in Tasks, u # t
               PROVE  Fresh(u)' = Fresh(u) /\ Growing(u)' = Growing(u)
    OBVIOUS
  <2>1. batch'[u] = batch[u] /\ rt'[u] = rt[u] /\ pc'[u] = pc[u]
    BY <1>1 DEF SameLedger
  <2> QED
    BY <2>1 DEF Fresh, Growing, Pushed
<1>8. Lasts' = Lasts \union {r}
  <2>1. \A q : q \in Lasts' <=> \/ Nodes(q)' # {}
                                \/ \E u \in Tasks : q \in list'[u] \union Growing(u)' \union Ending(u)'
    BY DEF Lasts, Nodes
  <2>2. \A u \in Tasks : u # t => Ending(u)' = Ending(u)
    BY <1>1 DEF SameLedger
  <2>3. Ending(t) = {} /\ Growing(t)' \union Ending(t)' = {r} /\ Growing(t) \subseteq {r}
    BY GathersLedger, GathersNode
  <2>4. ASSUME NEW q PROVE q \in Lasts' <=> q \in Lasts \/ q = r
    BY <1>1, <1>6, <1>7, <2>1, <2>2, <2>3, LastsIs
  <2> QED
    BY <2>4
<1> QED
  BY <1>2, <1>3, <1>4, <1>5, <1>6, <1>7, <1>8

\* Every node is still in one place.
LEMMA GathersPlaces ==
  ASSUME Books, NEW t \in Tasks, NEW o, NEW r, Gathers(t, o, r)
  PROVE  Places'
<1>1. /\ Slots' = Slots /\ Addend' = Addend /\ build' = build /\ head' = head
      /\ Calm /\ Places
  BY SameBuild DEF Gathers, Books
<1>2. \A u \in Tasks : /\ Due(u)' <=> Due(u)
                       /\ Due(u) => rt'[u] = rt[u] /\ LateBy(u)' = LateBy(u)
  <2> TAKE u \in Tasks
  <2>1. CASE u = t
    BY <2>1, GathersLedger
  <2>2. CASE u # t
    BY <1>1, <2>2, GathersOthers DEF SameLedger, LateBy
  <2> QED
    BY <2>1, <2>2
<1>3. /\ AllOwed' = AllOwed /\ Tops' = Tops /\ Buried' = Buried
      /\ \A m : Debtors(m)' = Debtors(m)
  BY GathersPlay
<1>4. \A u \in Tasks : Owed(u)' = Owed(u)
  BY <1>1 DEF Calm
<1>5. \A y, z \in Slots' : head'[y].ptr = head'[z].ptr /\ head'[y].ptr # NULL => y = z
  BY <1>1 DEF Places
<1>6. ASSUME build.words = 2
      PROVE  /\ (Tops \intersect (AllOwed \union Buried))' = {}
             /\ \A u, v \in Tasks : Due(u)' /\ Due(v)' /\ rt'[u].node = rt'[v].node => u = v
             /\ \A u \in Tasks, m \in Objs : Due(u)' /\ rt'[u].node = m =>
                  Cardinality(Debtors(m))' <= LateBy(u)' /\ LateBy(u)' <= TaskNum
  BY <1>1, <1>2, <1>3, <1>6 DEF Places
<1>7. ASSUME build.words = 1
      PROVE  /\ \A u, v \in Tasks : (Owed(u) \intersect Owed(v))' # {} => u = v
             /\ \A s \in Slots' : head'[s].ref = 0 => head'[s].ptr = NULL
  BY <1>1, <1>4, <1>7 DEF Places
<1> QED
  BY <1>1, <1>5, <1>6, <1>7 DEF Places

\* Nobody else pushes the batch.
LEMMA GathersActive ==
  ASSUME Books, NEW t \in Tasks, NEW o, NEW r, Gathers(t, o, r), NEW q \in Objs
  PROVE  Active(q)' = IF Full(t) /\ q = r THEN {t} ELSE Active(q)
<1>1. \A u \in Tasks : u # t => (u \in Active(q)' <=> u \in Active(q))
  BY GathersOthers DEF SameLedger
<1>2. t \notin Active(q) /\ (t \in Active(q)' <=> Full(t) /\ q = r)
  BY GathersLedger
<1>3. Full(t) => Active(r) = {}
  BY GathersNode
<1> QED
  BY <1>1, <1>2, <1>3 DEF Active

\* The batches that others push are the same.
LEMMA GathersOwn ==
  ASSUME Books, NEW t \in Tasks, NEW o, NEW r, Gathers(t, o, r), NEW u \in Tasks
  PROVE  Pushes(u)' /\ Amounts(u)' /\ Holds(u)'
<1>1. /\ build' = build /\ head' = head /\ vec' = vec /\ Calm /\ Retired' = Retired \union {o}
      /\ NumSlots' = NumSlots /\ SMRBatch' = SMRBatch /\ Addend' = Addend
      /\ Sound /\ Sound' /\ AllTidy
  BY SameBuild DEF Gathers, Books
<1>2. Pushes(u) /\ Amounts(u) /\ Holds(u)
  BY DEF Books, AllPushes, AllAmounts, AllHolds
<1>3. /\ \A n : n # o /\ n # r => link'[n] = link[n]
      /\ r # o => link'[r] = IF Full(t) THEN o ELSE link[r]
      /\ link'[o] = r /\ o \in Objs /\ r \in Objs /\ batch[t] \in Seq(Objs)
      /\ batch[t] = <<>> => ~Full(t)
      /\ batch[t] # <<>> => r # o
      /\ Full(t) => Len(batch[t]) + 1 = SMRBatch
      /\ r = IF batch[t] = <<>> THEN o ELSE batch[t][Len(batch[t])]
  <2>1. r = IF batch[t] = <<>> THEN o ELSE batch[t][Len(batch[t])]
    BY DEF Gathers
  <2> QED
    BY <2>1, GathersNode
<1>4. \A x \in Objs : status[x] = "retired" \/ x = o => status'[x] = "retired"
  BY <1>1 DEF Retired
<1>5. CASE u # t
  <2>1. /\ rt'[u] = rt[u] /\ pc'[u] = pc[u] /\ at'[u] = at[u]
        /\ Retiring(u)' = Retiring(u)
    BY <1>5, GathersOthers DEF SameLedger
  <2>2. /\ \A i \in DOMAIN rt[u].todo : rt[u].todo[i] \in Objs /\ rt[u].todo[i] \notin {o, r}
        /\ rt[u].first # NULL => /\ rt[u].first \notin {o, r}
                                 /\ link[rt[u].first] \notin {o, r}
        /\ pc[u] = "rt_fin" => /\ rt[u].node \notin {o, r}
                               /\ link[rt[u].node] \notin {o, r}
    BY <1>5, GathersOthers
  <2>3. Pushes(u)'
    BY <1>1, <1>2, <1>3, <1>4, <2>1, <2>2 DEF Pushes
  <2>4. Skips(u)' = Skips(u)
    BY <1>1, <2>1 DEF Skips
  <2>5. Amounts(u)'
    BY <1>1, <1>2, <2>1, <2>4 DEF Amounts
  <2>6. Holds(u)'
    <3>1. Owed(u)' = Owed(u)
      BY <1>1 DEF Calm
    <3>2. vec[u] \in Slots
      BY <1>1, SoundParts, Fields
    <3>3. \A n \in Owed(u) \union {head[vec[u]].ptr} : n # NULL => link'[n] = link[n]
      BY <3>2, GathersPlay DEF InPlay, AllOwed, Tops
    <3> QED
      BY <1>1, <1>2, <2>1, <2>4, <3>1, <3>3 DEF Holds
  <2> QED
    BY <2>3, <2>5, <2>6
<1>6. CASE u = t /\ ~Full(t)
  <2>1. pc'[t] = "in" /\ rt'[t] = rt[t] /\ rt[t].first = NULL /\ rt[t].todo = <<>> /\ pc[t] = "in"
    BY <1>1, <1>6 DEF Gathers, AllTidy, Tidy, Retires
  <2>2. SMRBatch \in Nat
    BY <1>1, BatchTwo
  <2>3. Pushes(t)'
    BY <1>1, <2>1, <2>2 DEF Pushes
  <2> QED
    BY <1>6, <2>1, <2>3 DEF Amounts, Holds
<1>7. CASE u = t /\ Full(t)
  <2> DEFINE chain == <<o>> \o batch[t]
  <2>1. /\ pc'[t] \in {"rt_access", "rt_load"} /\ at'[t] = 0
        /\ rt'[t].todo = chain /\ rt'[t].first = o /\ rt'[t].adjs = 0
        /\ rt'[t].skipped = FALSE
    BY <1>7 DEF Gathers, NoRetire
  <2>2. Retiring(t)' = r
    BY <1>7, GathersLedger
  <2>3. /\ SMRBatch \in Nat /\ Len(batch[t]) \in Nat /\ Len(batch[t]) > 0 /\ TaskNum \in Nat
        /\ batch[t] # <<>>
    BY <1>1, <1>3, <1>7, BatchTwo
  <2>4. /\ \A i \in DOMAIN batch[t] : status[batch[t][i]] = "retired" /\ batch[t][i] \in Objs
                                      /\ link[batch[t][i]] = r
        /\ \A i, j \in DOMAIN batch[t] : batch[t][i] = batch[t][j] => i = j
    <3>1. Growing(t) = {r} /\ Grows(t)
      BY <2>3, GathersNode DEF Books, Struct, AllGrows
    <3>2. \A i \in DOMAIN batch[t] : status[batch[t][i]] = "retired" /\ {link[batch[t][i]]} = {r}
      BY <3>1 DEF Grows
    <3>3. \A i, j \in DOMAIN batch[t] : batch[t][i] = batch[t][j] => i = j
      BY <3>1 DEF Grows
    <3>4. \A i \in DOMAIN batch[t] : batch[t][i] \in Objs
      BY <1>3
    <3>5. \A i \in DOMAIN batch[t] : link[batch[t][i]] = r
      BY <3>2
    <3> QED
      BY <3>2, <3>3, <3>4, <3>5
  <2>5. /\ DOMAIN chain = 1 .. Len(batch[t]) + 1 /\ Len(chain) = Len(batch[t]) + 1
        /\ chain[1] = o
        /\ \A i \in DOMAIN chain : i # 1 => i - 1 \in DOMAIN batch[t] /\ chain[i] = batch[t][i - 1]
    BY <1>3
  <2> HIDE DEF chain
  <2>6. /\ status[o] # "retired"
    BY DEF Gathers, Retired
  <2>7. Len(rt'[t].todo) = SMRBatch' /\ Len(rt'[t].todo) <= SMRBatch'
    BY <1>1, <1>3, <1>7, <2>1, <2>3, <2>5
  <2>8. \A i, j \in DOMAIN chain : chain[i] = chain[j] => i = j
    <3> SUFFICES ASSUME NEW i \in DOMAIN chain, NEW j \in DOMAIN chain, chain[i] = chain[j]
                 PROVE  i = j
      OBVIOUS
    <3>1. i \in Int /\ j \in Int
      BY <2>5
    <3>2. CASE i = 1 \/ j = 1
      BY <2>4, <2>5, <2>6, <3>2
    <3>3. CASE i # 1 /\ j # 1
      BY <2>4, <2>5, <3>1, <3>3
    <3> QED
      BY <3>2, <3>3
  <2>9. \A i \in DOMAIN chain :
          /\ status'[chain[i]] = "retired"
          /\ IF i = Len(chain) THEN chain[i] = r ELSE link'[chain[i]] = r
    <3> SUFFICES ASSUME NEW i \in DOMAIN chain
                 PROVE  /\ status'[chain[i]] = "retired"
                        /\ IF i = Len(chain) THEN chain[i] = r ELSE link'[chain[i]] = r
      OBVIOUS
    <3>1. CASE i = 1
      BY <1>3, <1>4, <2>3, <2>5, <3>1
    <3>2. CASE i # 1
      <4>1. i - 1 \in DOMAIN batch[t] /\ chain[i] = batch[t][i - 1] /\ i \in Int
        BY <2>5, <3>2
      <4>2. status'[chain[i]] = "retired" /\ chain[i] # o
        BY <1>4, <2>4, <2>6, <4>1
      <4>3. i = Len(chain) => chain[i] = r
        BY <1>3, <2>3, <2>5, <4>1
      <4>4. ASSUME i # Len(chain) PROVE link'[chain[i]] = r
        <5>1. i - 1 # Len(batch[t]) /\ Len(batch[t]) \in DOMAIN batch[t]
          BY <1>3, <2>3, <2>5, <4>1, <4>4
        <5>2. batch[t][i - 1] # batch[t][Len(batch[t])]
          BY <2>4, <4>1, <5>1
        <5>3. chain[i] # r
          BY <1>3, <2>3, <4>1, <5>2
        <5> QED
          BY <1>3, <2>4, <4>1, <4>2, <5>3
      <4> QED
        BY <4>2, <4>3, <4>4
    <3> QED
      BY <3>1, <3>2
  <2>10. link'[link'[o]] = o
    BY <1>3, <1>7, <2>3
  <2>11. Pushes(t)'
    BY <2>1, <2>2, <2>7, <2>8, <2>9, <2>10 DEF Pushes
  <2>12. Skips(t)' = 0
    BY <1>1, <2>1, <2>3, <2>7 DEF Skips
  <2>13. Amounts(t)'
    <3>1. Addend \in Int /\ CounterMod \in Nat \ {0}
      BY <1>1, SlotFacts DEF Sound, HyalineTypeOK
    <3>2. (0 * Addend) % CounterMod = 0
      BY <3>1, NoRemainder
    <3>3. SMRBatch' - Len(rt'[t].todo) = 0
      BY <1>1, <2>3, <2>7
    <3> QED
      BY <1>1, <2>1, <2>3, <2>12, <3>2, <3>3 DEF Amounts
  <2>14. Holds(t)'
    BY <1>1, <2>1, SoundParts, Fields DEF Slots, Holds
  <2> QED
    BY <1>7, <2>11, <2>13, <2>14
<1> QED
  BY <1>5, <1>6, <1>7

-----------------------------------------------------------------------------
(***************************************************************************)
(* The last nodes of the batches after it.                                 *)
(***************************************************************************)

\* The batch with the node collected is well formed.
LEMMA GathersStruct ==
  ASSUME Books, NEW t \in Tasks, NEW o, NEW r, Gathers(t, o, r)
  PROVE  Struct'
<1>1. /\ Sound /\ build' = build /\ list' = list /\ SMRBatch' = SMRBatch
      /\ Retired' = Retired \union {o} /\ status[o] # "retired"
      /\ \A u \in Tasks : u # t => batch'[u] = batch[u]
      /\ AllTidy
  BY SameBuild DEF Gathers, Books, Retired, Neat
<1>2. /\ o \in Objs /\ r \in Objs /\ o \notin InPlay /\ o \notin Lasts /\ r \notin InPlay
      /\ \A q \in Lasts \union InPlay : q \in Objs /\ link[q] \in Objs /\ link[q] # o
      /\ batch[t] \in Seq(Objs)
      /\ batch[t] = <<>> => r = o /\ Growing(t) = {} /\ ~Full(t)
      /\ batch[t] # <<>> => /\ Growing(t) = {r} /\ r \in Lasts /\ link[r] = r /\ r # o
                            /\ Nodes(r) = {} /\ Active(r) = {}
                            /\ \A u \in Tasks : r \notin list[u] /\ (u # t => r \notin Growing(u))
      /\ \A n : n # o /\ n # r => link'[n] = link[n]
      /\ r # o => link'[r] = IF Full(t) THEN o ELSE link[r]
      /\ link'[o] = r
  BY GathersNode
<1>3. /\ InPlay' = InPlay /\ \A n \in InPlay : link'[n] = link[n]
      /\ \A q : Nodes(q)' = Nodes(q)
      /\ Lasts' = Lasts \union {r}
      /\ \A u \in Tasks : u # t => Fresh(u)' = Fresh(u) /\ Growing(u)' = Growing(u)
  BY GathersPlay
<1>4. /\ Fresh(t)' \subseteq Fresh(t) \union {o}
      /\ Growing(t)' = IF Full(t) THEN {} ELSE {r}
  BY GathersLedger
<1>5. \A q \in Objs : Active(q)' = IF Full(t) /\ q = r THEN {t} ELSE Active(q)
  BY GathersActive
<1>6. \A x \in Objs : status'[x] = "retired" <=> status[x] = "retired" \/ x = o
  BY <1>1 DEF Retired
<1>7. AllGrows /\ AllQueued /\ BatchesApart /\ Known
  BY DEF Books, Struct
<1>8. batch'[t] = IF Full(t) THEN <<>> ELSE <<o>> \o batch[t]
  BY DEF Gathers
<1>9. /\ \A q \in Lasts :
          /\ status[q] = "retired" /\ status[link[q]] = "retired"
          /\ link[link[q]] = q
          /\ link[q] \in Lasts => link[q] = q
          /\ link[q] = q => \E u \in Tasks : q \in Growing(u)
      /\ \A n \in InPlay : status[n] = "retired" /\ n \notin Lasts
      /\ \A u \in Tasks : Fresh(u) \intersect InPlay = {}
      /\ \A q \in Objs : \A v, u \in Active(q) : v = u
  BY <1>7 DEF BatchesApart
<1>10. \A u \in Tasks : Growing(u) \subseteq Lasts /\ Ending(u) \subseteq Lasts /\ list[u] \subseteq Lasts
  BY LastsIs
<1>11. Nodes(o) = {} /\ Active(o) = {}
  <2>1. Nodes(o) = {}
    BY <1>2 DEF Nodes
  <2>2. \A u \in Tasks : u \notin Active(o)
    BY <1>1, <1>2, <1>10, ActiveIs DEF AllTidy
  <2> QED
    BY <2>1, <2>2 DEF Active
<1>12. ASSUME NEW u \in Tasks, u # t PROVE Grows(u)'
  <2>1. Grows(u) /\ batch[u] \in Seq(Objs)
    BY <1>1, <1>7, SoundParts, Fields DEF AllGrows
  <2>2. \A i \in DOMAIN batch[u] : /\ status[batch[u][i]] = "retired" /\ batch[u][i] \in Objs
                                   /\ {link[batch[u][i]]} = Growing(u)
    BY <2>1 DEF Grows
  <2>3. \A i \in DOMAIN batch[u] : batch[u][i] # o /\ (r # o => batch[u][i] # r)
    <3> SUFFICES ASSUME NEW i \in DOMAIN batch[u], r # o, batch[u][i] = r PROVE FALSE
      BY <1>1, <2>2
    <3>1. link[r] = r /\ r \notin Growing(u)
      BY <1>2, <1>12
    <3>2. {link[r]} = Growing(u)
      BY <2>2
    <3> QED
      BY <3>1, <3>2
  <2>4. \A i \in DOMAIN batch'[u] : /\ status'[batch'[u][i]] = "retired"
                                    /\ {link'[batch'[u][i]]} = Growing(u)'
    BY <1>1, <1>2, <1>3, <1>6, <1>12, <2>2, <2>3
  <2>5. \A q \in Growing(u) : q # o /\ (r # o => q # r) /\ q \in Objs
    BY <1>2, <1>10, <1>12
  <2>6. \A q \in Growing(u)' : Nodes(q)' = {} /\ Active(q)' = {}
                               /\ \A w \in Tasks : w # u => q \notin Growing(w)'
    <3> SUFFICES ASSUME NEW q \in Growing(u)
                 PROVE  Nodes(q)' = {} /\ Active(q)' = {}
                        /\ \A w \in Tasks : w # u => q \notin Growing(w)'
      BY <1>3, <1>12
    <3>1. Nodes(q) = {} /\ Active(q) = {} /\ \A w \in Tasks : w # u => q \notin Growing(w)
      BY <2>1 DEF Grows
    <3>2. q # r /\ q \in Objs
      BY <2>5
    <3>3. Nodes(q)' = {} /\ Active(q)' = {}
      BY <1>3, <1>5, <3>1, <3>2
    <3>4. \A w \in Tasks : w # u => q \notin Growing(w)'
      BY <1>3, <1>4, <3>1, <3>2
    <3> QED
      BY <3>3, <3>4
  <2>7. /\ Len(batch'[u]) < SMRBatch'
        /\ \A i, j \in DOMAIN batch'[u] : batch'[u][i] = batch'[u][j] => i = j
    BY <1>1, <1>12, <2>1 DEF Grows
  <2> QED
    BY <2>4, <2>6, <2>7 DEF Grows
<1>13. Grows(t)'
  <2>1. CASE Full(t)
    <3>1. batch'[t] = <<>> /\ Growing(t)' = {} /\ Len(<<>>) = 0
      BY <1>4, <1>8, <2>1
    <3>2. 0 < SMRBatch'
      BY <1>1, BatchTwo
    <3> QED
      BY <3>1, <3>2 DEF Grows
  <2>2. CASE ~Full(t)
    <3> DEFINE chain == <<o>> \o batch[t]
    <3>1. /\ batch'[t] = chain /\ Growing(t)' = {r}
          /\ DOMAIN chain = 1 .. Len(batch[t]) + 1 /\ Len(chain) = Len(batch[t]) + 1
          /\ chain[1] = o
          /\ \A i \in DOMAIN chain : i # 1 => i - 1 \in DOMAIN batch[t] /\ chain[i] = batch[t][i - 1]
      BY <1>2, <1>4, <1>8, <2>2
    <3> HIDE DEF chain
    <3>2. Len(chain) < SMRBatch
      BY <1>1, <1>2, <2>2, <3>1, BatchTwo DEF Full
    <3>3. /\ \A i \in DOMAIN batch[t] : /\ status[batch[t][i]] = "retired"
                                        /\ batch[t][i] \in Objs
                                        /\ {link[batch[t][i]]} = Growing(t)
          /\ \A i, j \in DOMAIN batch[t] : batch[t][i] = batch[t][j] => i = j
      BY <1>2, <1>7 DEF AllGrows, Grows
    <3>4. \A i \in DOMAIN batch[t] : link'[batch[t][i]] = r /\ batch[t][i] # o
      <4> SUFFICES ASSUME NEW i \in DOMAIN batch[t]
                   PROVE  link'[batch[t][i]] = r /\ batch[t][i] # o
        OBVIOUS
      <4>1. batch[t] # <<>>
        OBVIOUS
      <4>2. link[batch[t][i]] = r /\ batch[t][i] # o
        <5>1. status[batch[t][i]] = "retired" /\ {link[batch[t][i]]} = Growing(t)
          BY <3>3
        <5>2. Growing(t) = {r}
          BY <1>2, <4>1
        <5>3. link[batch[t][i]] = r
          BY <5>1, <5>2
        <5>4. batch[t][i] # o
          BY <1>1, <5>1
        <5> QED
          BY <5>3, <5>4
      <4> QED
        BY <1>2, <2>2, <4>1, <4>2
    <3>5. \A i \in DOMAIN chain : /\ status'[chain[i]] = "retired" /\ link'[chain[i]] = r
      BY <1>2, <1>6, <3>1, <3>3, <3>4
    <3>6. \A i, j \in DOMAIN chain : chain[i] = chain[j] => i = j
      <4> SUFFICES ASSUME NEW i \in DOMAIN chain, NEW j \in DOMAIN chain, chain[i] = chain[j]
                   PROVE  i = j
        OBVIOUS
      <4>1. i \in Int /\ j \in Int
        BY <3>1
      <4>2. CASE i = 1 \/ j = 1
        BY <3>1, <3>4, <4>2
      <4>3. CASE i # 1 /\ j # 1
        BY <3>1, <3>3, <4>1, <4>3
      <4> QED
        BY <4>2, <4>3
    <3>7. /\ Nodes(r)' = {} /\ Active(r)' = {}
          /\ \A w \in Tasks : w # t => r \notin Growing(w)'
      <4>1. Nodes(r) = {} /\ Active(r) = {}
        BY <1>2, <1>11
      <4>2. \A w \in Tasks : w # t => r \notin Growing(w)
        BY <1>2, <1>10
      <4> QED
        BY <1>2, <1>3, <1>5, <2>2, <4>1, <4>2
    <3> QED
      BY <1>1, <3>1, <3>2, <3>5, <3>6, <3>7 DEF Grows
  <2> QED
    BY <2>1, <2>2
<1>14. AllGrows'
  BY <1>12, <1>13 DEF AllGrows
<1>15. AllQueued'
  <2> SUFFICES ASSUME NEW u \in Tasks, NEW q \in list[u]
               PROVE  /\ Nodes(q)' = {} /\ Active(q)' = {}
                      /\ \A w \in Tasks : q \notin Growing(w)' /\ (w # u => q \notin list[w])
    BY <1>1 DEF AllQueued, Queued
  <2>1. /\ Nodes(q) = {} /\ Active(q) = {}
        /\ \A w \in Tasks : q \notin Growing(w) /\ (w # u => q \notin list[w])
    BY <1>7 DEF AllQueued, Queued
  <2>2. q # r /\ q \in Objs
    BY <1>2, <1>10
  <2> QED
    BY <1>3, <1>4, <1>5, <2>1, <2>2
<1>16. BatchesApart'
  <2>1. ASSUME NEW q \in Lasts, q # r
        PROVE  /\ status'[q] = "retired" /\ status'[link'[q]] = "retired"
               /\ link'[link'[q]] = q
               /\ link'[q] \in Lasts' => link'[q] = q
               /\ link'[q] = q => \E u \in Tasks : q \in Growing(u)'
    <3>1. q # o /\ q \in Objs /\ link[q] \in Objs /\ link[q] # o /\ link'[q] = link[q]
      BY <1>2, <2>1
    <3>2. link[q] # r
      BY <1>2, <1>9, <2>1, <3>1
    <3>3. link'[link[q]] = link[link[q]]
      BY <1>2, <3>1, <3>2
    <3>4. link[q] = q => \E u \in Tasks : q \in Growing(u)'
      <4> SUFFICES ASSUME link[q] = q PROVE \E u \in Tasks : q \in Growing(u)'
        OBVIOUS
      <4>1. PICK u \in Tasks : q \in Growing(u)
        BY <1>9
      <4>2. u # t
        BY <1>2, <2>1, <4>1
      <4> QED
        BY <1>3, <4>1, <4>2
    <3> QED
      BY <1>3, <1>6, <1>9, <3>1, <3>2, <3>3, <3>4
  <2>2. /\ status'[r] = "retired" /\ status'[link'[r]] = "retired"
        /\ link'[link'[r]] = r
        /\ link'[r] \in Lasts' => link'[r] = r
        /\ link'[r] = r => \E u \in Tasks : r \in Growing(u)'
    <3>1. status'[r] = "retired" /\ status'[o] = "retired"
      BY <1>2, <1>6, <1>9
    <3>2. CASE Full(t)
      BY <1>2, <1>3, <3>1, <3>2
    <3>3. CASE ~Full(t)
      BY <1>2, <1>4, <3>1, <3>3
    <3> QED
      BY <3>2, <3>3
  <2>3. \A q \in Lasts' : /\ status'[q] = "retired" /\ status'[link'[q]] = "retired"
                          /\ link'[link'[q]] = q
                          /\ link'[q] \in Lasts' => link'[q] = q
                          /\ link'[q] = q => \E u \in Tasks : q \in Growing(u)'
    BY <1>3, <2>1, <2>2
  <2>4. \A n \in InPlay' : status'[n] = "retired" /\ n \notin Lasts'
    BY <1>2, <1>3, <1>6, <1>9
  <2>5. \A u \in Tasks : Fresh(u)' \intersect InPlay' = {}
    BY <1>2, <1>3, <1>4, <1>9
  <2>6. \A q \in Objs : \A v, u \in Active(q)' : v = u
    BY <1>5, <1>9
  <2> QED
    BY <2>3, <2>4, <2>5, <2>6 DEF BatchesApart
<1>17. Known'
  <2> SUFFICES ASSUME NEW x \in Objs, status'[x] = "retired"
               PROVE  \/ \E u \in Tasks : \E i \in DOMAIN batch'[u] : batch'[u][i] = x
                      \/ \E q \in Lasts' : (q = x \/ link'[x] = q)
                                           /\ \A u \in Tasks : q \notin Growing(u)'
    BY DEF Known
  <2>1. Full(t) => r \in Lasts' /\ \A u \in Tasks : r \notin Growing(u)'
    BY <1>2, <1>3, <1>4
  <2>2. ~Full(t) => /\ 1 \in DOMAIN batch'[t] /\ batch'[t][1] = o
                    /\ \A i \in DOMAIN batch[t] : /\ i + 1 \in DOMAIN batch'[t]
                                                  /\ batch'[t][i + 1] = batch[t][i]
    BY <1>2, <1>8
  <2>3. CASE x = o
    BY <1>2, <2>1, <2>2, <2>3
  <2>4. CASE x # o /\ \E u \in Tasks : \E i \in DOMAIN batch[u] : batch[u][i] = x
    <3>1. PICK u \in Tasks : \E i \in DOMAIN batch[u] : batch[u][i] = x
      BY <2>4
    <3>2. PICK i \in DOMAIN batch[u] : batch[u][i] = x
      BY <3>1
    <3>3. CASE u # t
      BY <1>1, <3>2, <3>3
    <3>4. CASE u = t /\ ~Full(t)
      BY <2>2, <3>2, <3>4
    <3>5. CASE u = t /\ Full(t)
      <4>1. Growing(t) = {r}
        BY <1>2, <3>5
      <4>2. {link[x]} = Growing(t)
        BY <1>7, <3>2, <3>5 DEF AllGrows, Grows
      <4>3. r = x \/ link'[x] = r
        BY <1>2, <2>4, <4>1, <4>2
      <4> QED
        BY <2>1, <3>5, <4>3
    <3> QED
      BY <3>3, <3>4, <3>5
  <2>5. CASE x # o /\ \E q \in Lasts : (q = x \/ link[x] = q) /\ \A u \in Tasks : q \notin Growing(u)
    <3>1. PICK q \in Lasts : (q = x \/ link[x] = q) /\ \A u \in Tasks : q \notin Growing(u)
      BY <2>5
    <3>2. q # r
      BY <1>2, <3>1
    <3>3. q = x \/ link'[x] = q
      BY <1>2, <2>5, <3>1, <3>2
    <3>4. \A u \in Tasks : q \notin Growing(u)'
      BY <1>3, <1>4, <3>1, <3>2
    <3> QED
      BY <1>3, <3>3, <3>4
  <2>6. x = o \/ status[x] = "retired"
    BY <1>6
  <2> QED
    BY <1>7, <2>3, <2>4, <2>5, <2>6 DEF Known
<1> QED
  BY <1>14, <1>15, <1>16, <1>17 DEF Struct

-----------------------------------------------------------------------------
(***************************************************************************)
(* The counts of the other batches after it.                               *)
(***************************************************************************)

\* What the zeros of the step need.
LEMMA GathersBase ==
  ASSUME Books, NEW t \in Tasks, NEW o, NEW r, Gathers(t, o, r)
  PROVE  /\ AllTidy' /\ Nulls /\ Nulls' /\ Ends
         /\ AllPushes' /\ AllAmounts' /\ AllHolds' /\ AllPushes
<1>1. /\ Sound /\ Sound' /\ Good(t) /\ Neat(t) /\ AllTidy /\ Base
  BY DEF Gathers, Books, Base
<1>2. AllTidy'
  <2> SUFFICES ASSUME NEW u \in Tasks PROVE Tidy(u)'
    BY DEF AllTidy
  <2>1. CASE u = t
    BY <1>1, <2>1 DEF Neat
  <2>2. CASE u # t
    BY <1>1, <2>2 DEF Neat, Good, Kept, AllTidy, Tidy
  <2> QED
    BY <2>1, <2>2
<1>3. AllPushes' /\ AllAmounts' /\ AllHolds'
  BY GathersOwn DEF AllPushes, AllAmounts, AllHolds
<1>4. Base'
  BY <1>1, <1>2, <1>3, GathersPlaces DEF Base
<1>5. Nulls'
  BY <1>4, NullsHold, PTL
<1>6. Nulls
  BY <1>1, NullsHold
<1>7. Ends
  BY <1>1, EndsHold
<1>8. AllPushes
  BY <1>1 DEF Base
<1> QED
  BY <1>2, <1>3, <1>5, <1>6, <1>7, <1>8

\* What is owed to a batch, and to be added to it, but for its own lack.
LEMMA GathersSums ==
  ASSUME Books, NEW t \in Tasks, NEW o, NEW r, Gathers(t, o, r), NEW q
  PROVE  /\ \A u \in Tasks : OwedTo(u, q)' = OwedTo(u, q)
         /\ HeadsOf(q)' = HeadsOf(q) /\ DuesOf(q)' = DuesOf(q)
<1>1. /\ head' = head /\ Slots' = Slots /\ Calm
      /\ \A n \in InPlay : link'[n] = link[n]
  BY SameBuild, GathersPlay DEF Gathers
<1>2. \A u \in Tasks : /\ Due(u)' <=> Due(u)
                       /\ Due(u) => rt'[u] = rt[u]
  <2> TAKE u \in Tasks
  <2>1. CASE u = t
    BY <2>1, GathersLedger
  <2>2. CASE u # t
    BY <2>2, GathersOthers DEF SameLedger
  <2> QED
    BY <2>1, <2>2
<1>3. \A u \in Tasks : OwedTo(u, q)' = OwedTo(u, q)
  <2> TAKE u \in Tasks
  <2>1. Owed(u)' = Owed(u) /\ \A n \in Owed(u) : n \in InPlay
    BY <1>1 DEF Calm, InPlay, AllOwed
  <2> QED
    BY <1>1, <2>1 DEF OwedTo
<1>4. HeadsOf(q)' = HeadsOf(q)
  BY <1>1 DEF InPlay, Tops, HeadsOf
<1>5. DuesOf(q)' = DuesOf(q)
  <2>1. \A u \in Tasks : Due(u) => rt[u].node \in InPlay
    BY DEF InPlay, Buried
  <2>2. \A u \in Tasks : Due(u)' /\ link'[rt'[u].node] = q <=> Due(u) /\ link[rt[u].node] = q
    BY <1>1, <1>2, <2>1
  <2> QED
    BY <2>2 DEF DuesOf
<1> QED
  BY <1>3, <1>4, <1>5

\* The batches that the step leaves as they were.
LEMMA GathersOld ==
  ASSUME Books, NEW t \in Tasks, NEW o, NEW r, Gathers(t, o, r),
         NEW q \in Lasts, ~Full(t) \/ q # r
  PROVE  Settled(q)' /\ Roomy(q)'
<1>1. /\ Sound /\ Sound' /\ build' = build /\ q \in Objs /\ q # o
      /\ refs' = [refs EXCEPT ![o] = 0] /\ refs \in [Objs -> 0 .. CounterMod - 1]
  <2>1. Sound /\ Sound' /\ build' = build /\ refs' = [refs EXCEPT ![o] = 0]
    BY DEF Gathers
  <2>2. q \in Objs /\ q # o
    BY GathersNode
  <2> QED
    BY <2>1, <2>2, SoundParts, TypeParts DEF SharedTypeOK
<1>2. refs'[q] = refs[q]
  BY <1>1
<1>3. Settled(q) /\ Roomy(q)
  BY CountedIs DEF Books
<1>4. \A u \in Tasks : /\ Withheld(u, q)' = Withheld(u, q)
                       /\ LackOf(u, q)' = LackOf(u, q)
                       /\ u \in Active(q)' <=> u \in Active(q)
  <2> TAKE u \in Tasks
  <2>1. CASE u = t
    <3>1. /\ Withheld(t, q) = 0 /\ Withheld(t, q)' = 0
          /\ LackOf(t, q) = {} /\ t \notin Active(q)
          /\ t \in Active(q)' <=> Full(t) /\ q = r
          /\ LackOf(t, q)' = IF Full(t) /\ q = r THEN 1 .. NumSlots ELSE {}
      BY <1>1, GathersLedger
    <3>2. ~(Full(t) /\ q = r)
      OBVIOUS
    <3> QED
      BY <2>1, <3>1, <3>2
  <2>2. CASE u # t
    BY <1>1, <2>2, GathersOthers DEF SameLedger
  <2> QED
    BY <2>1, <2>2
<1>5. \A u \in Tasks : /\ OwedTo(u, q)' = OwedTo(u, q) /\ Withheld(u, q)' = Withheld(u, q)
                       /\ LackOf(u, q)' = LackOf(u, q)
                       /\ u \in Active(q)' <=> u \in Active(q)
  BY <1>4, GathersSums
<1>6. HeadsOf(q)' = HeadsOf(q) /\ DuesOf(q)' = DuesOf(q) /\ Nodes(q)' = Nodes(q)
  BY GathersSums, GathersPlay
<1>7. AllPushes /\ AllPushes'
  BY GathersBase
<1> QED
  BY <1>1, <1>2, <1>3, <1>5, <1>6, <1>7, BookStays

\* A batch that begins.
LEMMA GathersNew ==
  ASSUME Books, NEW t \in Tasks, NEW o, NEW r, Gathers(t, o, r), r \notin Lasts
  PROVE  Settled(r)' /\ Roomy(r)'
<1>1. r = o /\ ~Full(t) /\ o \in Objs /\ o \notin Lasts
      /\ \A q \in Lasts \union InPlay : link[q] # o
  BY GathersNode
<1>2. /\ Sound /\ Sound' /\ build' = build /\ AllTidy
      /\ refs' = [refs EXCEPT ![o] = 0] /\ refs \in [Objs -> 0 .. CounterMod - 1]
      /\ NumSlots \in Nat /\ NumSlots' = NumSlots /\ TaskNum \in Nat
  BY SoundParts, TypeParts, BatchTwo, SameBuild DEF Gathers, Books, SharedTypeOK
<1>3. Nodes(o)' = {} /\ Active(o)' = {}
  <2>1. Nodes(o)' = {}
    BY <1>1, GathersPlay DEF Nodes
  <2>2. \A u \in Tasks : u \notin Active(o)
    BY <1>1, <1>2, LastsIs, ActiveIs DEF AllTidy
  <2> QED
    BY <1>1, <2>1, <2>2, GathersActive DEF Active
<1>4. /\ Cardinality(Debts(o))' = 0 /\ Unadded(o)' = 0 /\ Worth(o)' = 0
  <2>1. \A q \in Objs : Gone(q)' => /\ Cardinality(Debts(q))' = 0 /\ Unadded(q)' = 0
                                    /\ Worth(q)' = 0
    BY GathersBase DEF Nulls
  <2>2. Gone(o)'
    BY <1>3 DEF Gone
  <2> QED
    BY <1>1, <2>1, <2>2
<1>5. Settled(o)'
  BY <1>1, <1>2, <1>4, NoRemainder DEF Settled
<1>6. Roomy(o)'
  <2>1. Cardinality(Nodes(o))' = 0
    BY <1>3, FS_EmptySet
  <2>2. Unadded(o)' + Cardinality(Nodes(o))' <= NumSlots'
    BY <1>2, <1>4, <2>1
  <2>3. Cardinality(Debts(o))' <= TaskNum
    BY <1>2, <1>4
  <2> QED
    BY <1>3, <2>2, <2>3 DEF Roomy
<1> QED
  BY <1>1, <1>5, <1>6

-----------------------------------------------------------------------------
(***************************************************************************)
(* A full batch starts with all of its addends missing.                    *)
(***************************************************************************)

\* A batch that is complete has all the slots to be added.
LEMMA GathersLack ==
  ASSUME Books, NEW t \in Tasks, NEW o, NEW r, Gathers(t, o, r), Full(t)
  PROVE  /\ r \in Lasts /\ r \in Objs /\ r # o /\ Nodes(r)' = {}
         /\ Cardinality(Debts(r))' = 0 /\ Cardinality(Late(r))' = 0
         /\ Unadded(r)' = NumSlots /\ Missing(r)' = NumSlots /\ refs[r] = 0
<1>1. /\ r \in Lasts /\ r \in Objs /\ r # o /\ Nodes(r) = {} /\ Active(r) = {} /\ Gone(r)
  BY GathersNode DEF Gone
<1>2. /\ Sound /\ Sound' /\ build' = build /\ NumSlots \in Nat
      /\ AllPushes /\ AllPushes' /\ Nodes(r)' = {}
  BY <1>1, GathersBase, BatchTwo, GathersPlay DEF Gathers
<1>3. Settled(r)
  BY <1>1, CountedIs DEF Books
<1>4. /\ Cardinality(Debts(r)) = 0 /\ Cardinality(Late(r)) = 0 /\ Unadded(r) = 0
      /\ refs[r] = 0
  BY <1>1, <1>3, GathersBase DEF Nulls, Ends
<1>5. Cardinality(Debts(r))' = 0
  <2>1. \A u \in Tasks : OwedTo(u, r)' = OwedTo(u, r)
    BY GathersSums
  <2>2. /\ Cardinality(Debts(r)) \in Nat /\ Cardinality(Debts(r))' \in Nat
        /\ Cardinality(OwedTo(t, r)) \in Nat /\ Cardinality(OwedTo(t, r))' \in Nat
        /\ Cardinality(Debts(r))' - Cardinality(Debts(r))
              = Cardinality(OwedTo(t, r))' - Cardinality(OwedTo(t, r))
    BY <1>2, <2>1, DebtsMove
  <2>3. Cardinality(OwedTo(t, r))' = Cardinality(OwedTo(t, r))
    BY <2>1
  <2> QED
    BY <1>4, <2>2, <2>3
<1>6. \A u \in Tasks : u # t => /\ Withheld(u, r)' = Withheld(u, r)
                                /\ LackOf(u, r)' = LackOf(u, r)
  BY <1>1, GathersOthers DEF SameLedger
<1>7. /\ Withheld(t, r) = 0 /\ Withheld(t, r)' = 0
      /\ LackOf(t, r) = {} /\ LackOf(t, r)' = 1 .. NumSlots
  BY <1>1, GathersLedger
<1>8. Cardinality(Late(r))' = 0
  BY <1>1, <1>2, <1>4, <1>6, <1>7, LateMove
<1>9. Unadded(r)' = NumSlots
  <2>1. /\ Unadded(r) \in Nat /\ Unadded(r)' \in Nat
        /\ Unadded(r)' - Unadded(r) = Cardinality(LackOf(t, r))' - Cardinality(LackOf(t, r))
    BY <1>2, <1>6, LackMove
  <2>2. Cardinality(LackOf(t, r)) = 0
    BY <1>7, FS_EmptySet
  <2>3. Cardinality(1 .. NumSlots) = NumSlots
    BY <1>2, FS_Interval
  <2>4. Cardinality(LackOf(t, r))' = NumSlots
    BY <1>7, <2>3
  <2> QED
    BY <1>2, <1>4, <2>1, <2>2, <2>4
<1>10. Missing(r)' = NumSlots
  <2>1. HeadsOf(r)' = {} /\ DuesOf(r)' = {}
    <3>1. HeadsOf(r) = {} /\ DuesOf(r) = {}
      BY <1>1 DEF HeadsOf, DuesOf, Nodes, InPlay, Tops, Buried
    <3> QED
      BY <3>1, GathersSums
  <2>2. Cardinality(HeadsOf(r))' = 0 /\ Cardinality(DuesOf(r))' = 0
    BY <2>1, FS_EmptySet
  <2>3. Missing(r)' = Cardinality(HeadsOf(r))' + Cardinality(DuesOf(r))' + Unadded(r)'
    BY DEF Missing, HeadsOf, DuesOf, Unadded, Due
  <2> QED
    BY <1>2, <1>9, <2>2, <2>3
<1> QED
  BY <1>1, <1>2, <1>4, <1>5, <1>8, <1>9, <1>10

\* The full batch has the counter zero, with all addends missing.
LEMMA GathersFull ==
  ASSUME Books, NEW t \in Tasks, NEW o, NEW r, Gathers(t, o, r), Full(t)
  PROVE  Settled(r)' /\ Roomy(r)'
<1>1. /\ r \in Lasts /\ r \in Objs /\ r # o /\ Nodes(r)' = {}
      /\ Cardinality(Debts(r))' = 0 /\ Cardinality(Late(r))' = 0
      /\ Unadded(r)' = NumSlots /\ Missing(r)' = NumSlots /\ refs[r] = 0
  BY GathersLack
<1>2. /\ build' = build /\ build \in Builds /\ NumSlots \in Nat /\ NumSlots' = NumSlots
      /\ Addend' = Addend /\ TaskNum \in Nat /\ CounterMod \in Nat \ {0}
      /\ refs' = [refs EXCEPT ![o] = 0] /\ refs \in [Objs -> 0 .. CounterMod - 1]
  BY SoundParts, TypeParts, BatchTwo, SameBuild DEF Gathers, SharedTypeOK
<1>3. refs'[r] = 0
  BY <1>1, <1>2
<1>4. 0 = (0 - 0 - (IF build.words = 1 THEN 0 ELSE Addend * NumSlots)) % CounterMod
  <2> DEFINE b == IF build.words = 1 THEN 0 ELSE Addend * NumSlots
  <2>1. \E k \in {0, 1} : b = k * CounterMod
    <3>1. PICK d \in Nat \ {0} : /\ CounterMod = d * NumSlots
                                 /\ Addend = IF NumSlots = 1 THEN 0 ELSE d
      BY <1>2, AddendIs
    <3>2. CASE build.words = 1
      BY <3>2
    <3>3. CASE build.words # 1 /\ NumSlots = 1
      BY <3>1, <3>3
    <3>4. CASE build.words # 1 /\ NumSlots # 1
      BY <1>2, <3>1, <3>4
    <3> QED
      BY <3>2, <3>3, <3>4
  <2> HIDE DEF b
  <2>2. PICK k \in {0, 1} : b = k * CounterMod
    BY <2>1
  <2>3. b \in Int /\ 0 - 0 - b \in Int /\ 0 - (0 - 0 - b) = k * CounterMod /\ k \in Int
    BY <1>2, <2>2
  <2>4. Even(0 - (0 - 0 - b), CounterMod)
    BY <1>2, <2>3, EvenMultiple
  <2>5. 0 \in 0 .. CounterMod - 1
    BY <1>2
  <2>6. 0 = (0 - 0 - b) % CounterMod
    BY <1>2, <2>3, <2>4, <2>5, EvenSame
  <2> QED
    BY <2>6 DEF b
<1>5. Settled(r)'
  <2>1. Worth(r)' = Cardinality(Debts(r))' - Cardinality(Late(r))'
                    - (IF build'.words = 1 THEN 0 ELSE Addend' * Missing(r)')
    BY DEF Worth
  <2>2. Worth(r)' = 0 - 0 - (IF build.words = 1 THEN 0 ELSE Addend * NumSlots)
    BY <1>1, <1>2, <2>1
  <2> QED
    BY <1>3, <1>4, <2>2 DEF Settled
<1>6. Roomy(r)'
  <2>1. Cardinality(Nodes(r))' = 0
    BY <1>1, FS_EmptySet
  <2>2. Unadded(r)' + Cardinality(Nodes(r))' <= NumSlots'
    BY <1>1, <1>2, <2>1
  <2>3. /\ Cardinality(Debts(r))' <= TaskNum
        /\ Cardinality(Debts(r))' <= Cardinality(Late(r))'
    BY <1>1, <1>2
  <2> QED
    BY <2>2, <2>3 DEF Roomy
<1> QED
  BY <1>5, <1>6

\* Collecting a node keeps the invariant.
LEMMA GathersKeeps ==
  ASSUME Books, NEW t \in Tasks, NEW o, NEW r, Gathers(t, o, r)
  PROVE  Books'
<1>1. Lasts' = Lasts \union {r} /\ Walked'
  BY GathersPlay
<1>2. \A q \in Lasts' : Settled(q)' /\ Roomy(q)'
  <2> SUFFICES ASSUME NEW q \in Lasts' PROVE Settled(q)' /\ Roomy(q)'
    OBVIOUS
  <2>1. CASE q \in Lasts /\ (~Full(t) \/ q # r)
    BY <2>1, GathersOld
  <2>2. CASE Full(t) /\ q = r
    BY <2>2, GathersFull
  <2>3. CASE q = r /\ r \notin Lasts
    BY <2>3, GathersNew
  <2> QED
    BY <1>1, <2>1, <2>2, <2>3
<1>3. Room' /\ Counted'
  BY <1>2 DEF Counted, Room, Settled, Worth, Roomy
<1>4. Emptied'
  <2>1. /\ head' = head /\ vec' = vec /\ build' = build /\ Slots' = Slots
        /\ pc[t] = "in" /\ Emptied
    BY SameBuild DEF Gathers, Books
  <2>2. \A u \in Tasks : pc[u] = "lv_clear" => pc'[u] = "lv_clear" /\ rt'[u] = rt[u]
    <3> SUFFICES ASSUME NEW u \in Tasks, pc[u] = "lv_clear"
                 PROVE  pc'[u] = "lv_clear" /\ rt'[u] = rt[u]
      OBVIOUS
    <3>1. u # t
      BY <2>1
    <3> QED
      BY <3>1, GathersOthers DEF SameLedger
  <2> QED
    BY <2>1, <2>2 DEF Emptied
<1>5. Sound' /\ Sited'
  BY DEF Gathers
<1>6. AllTidy' /\ AllPushes' /\ AllAmounts' /\ AllHolds'
  BY GathersBase
<1> QED
  BY <1>1, <1>3, <1>4, <1>5, <1>6, GathersPlaces, GathersStruct DEF Books

\* retire, before its first push, keeps the invariant.
LEMMA RetireKeeps ==
  ASSUME Books, NEW t \in Tasks, Good(t), Sound', NEW c \in Cells, Retire(t, c)
  PROVE  Books'
<1> DEFINE o == cell[c]
           chain == <<o>> \o batch[t]
           r == chain[Len(chain)]
<1>1. Sound /\ Sited /\ Walked /\ Tidy(t)
  BY BooksParts
<1>2. Calm
  BY <1>1, StillCalm
<1>3. /\ UNCHANGED <<build, next, vec, head, handle, list>>
      /\ Neat(t) /\ pc[t] = "in" /\ Sited'
      /\ o \in Objs /\ o \notin Retired /\ Retired' = Retired \union {o}
      /\ refs' = [refs EXCEPT ![o] = 0]
      /\ link' = IF Len(chain) >= SMRBatch THEN [link EXCEPT ![o] = r, ![r] = o]
                 ELSE [link EXCEPT ![o] = r]
      /\ batch'[t] = IF Len(chain) >= SMRBatch THEN <<>> ELSE chain
  BY <1>1, RetireFx
<1>4. /\ rt[t].first = NULL
      /\ IF Len(chain) >= SMRBatch
         THEN /\ pc'[t] \in {"rt_access", "rt_load"} /\ at'[t] = 0
              /\ rt'[t] = [NoRetire EXCEPT !.todo = chain, !.first = o]
         ELSE rt'[t] = rt[t] /\ pc'[t] = "in"
  BY <1>1, RetireFx
<1>5. batch[t] \in Seq(Objs)
  BY <1>1, SoundParts, Fields
<1>6. Len(chain) = Len(batch[t]) + 1
  BY <1>3, <1>5
<1>7. r = IF batch[t] = <<>> THEN o ELSE batch[t][Len(batch[t])]
  BY <1>3, <1>5, <1>6
<1>8. Full(t) <=> Len(chain) >= SMRBatch
  BY <1>6 DEF Full
<1>9. batch'[t] = IF Full(t) THEN <<>> ELSE <<o>> \o batch[t]
  BY <1>3, <1>8
<1>10. IF Full(t)
       THEN /\ pc'[t] \in {"rt_access", "rt_load"} /\ at'[t] = 0
            /\ rt'[t] = [NoRetire EXCEPT !.todo = <<o>> \o batch[t], !.first = o]
       ELSE rt'[t] = rt[t] /\ pc'[t] = "in"
  BY <1>4, <1>8
<1>11. link' = IF Full(t) THEN [link EXCEPT ![o] = r, ![r] = o] ELSE [link EXCEPT ![o] = r]
  BY <1>3, <1>8
<1> HIDE DEF o, chain, r
<1>12. Gathers(t, o, r)
  BY <1>1, <1>2, <1>3, <1>4, <1>7, <1>9, <1>10, <1>11 DEF Gathers
<1> QED
  BY <1>12, GathersKeeps

-----------------------------------------------------------------------------
(***************************************************************************)
(* Every step keeps the invariant.                                         *)
(***************************************************************************)

\* At first nothing is retired.
LEMMA InitBooks == HyalineInit => Books
<1> SUFFICES ASSUME HyalineInit PROVE Books
  OBVIOUS
<1>1. /\ Sound /\ build.words \in {1, 2} /\ build \in Builds
  <2>1. Sound
    BY InitSound
  <2> QED
    BY <2>1, SlotFacts DEF Sound, HyalineTypeOK
<1>2. /\ \A t \in Tasks : /\ pc[t] = "out" /\ batch[t] = <<>> /\ list[t] = {}
                          /\ wk[t].segs = <<>> /\ rt[t].first = NULL /\ rt[t].todo = <<>>
      /\ \A s \in Slots : head[s].ptr = NULL
      /\ \A o \in Objs : status[o] = "free"
      /\ \A c \in Cells : cell[c] = NULL
      /\ \A t \in Tasks : mine[t] = NULL
  BY BlankFields DEF HyalineInit, ClientInit
<1>3. \A t \in Tasks : ~Inside(t) /\ ~Due(t) /\ Line(t) = {} /\ ToDrop(t) = {}
  BY <1>2 DEF Inside, Due, Line, ToDrop
<1>4. \A t \in Tasks : Owed(t) = {}
  BY <1>2, <1>3 DEF Owed
<1>5. InPlay = {}
  BY <1>2, <1>3, <1>4 DEF InPlay, AllOwed, Tops, Buried
<1>6. \A t \in Tasks : /\ Growing(t) = {} /\ Retiring(t) = NULL /\ Ending(t) = {}
                       /\ Fresh(t) = {}
  BY <1>2 DEF Growing, Retiring, Ending, Fresh
<1>7. Lasts = {}
  BY <1>2, <1>5, <1>6 DEF Lasts
<1>8. AllTidy
  BY <1>2 DEF AllTidy, Tidy, Walking, Retires
<1>9. Sited
  BY <1>2 DEF Sited
<1>10. Walked
  BY <1>2, <1>3 DEF Walked, Paths, Laid
<1>11. Places
  BY <1>2, <1>3, <1>4 DEF Places, Tops, AllOwed
<1>12. Struct
  <2>1. SMRBatch > 0
    BY <1>1, BatchTwo
  <2>2. AllGrows
    BY <1>2, <1>6, <2>1 DEF AllGrows, Grows
  <2>3. AllQueued
    BY <1>2 DEF AllQueued, Queued
  <2>4. BatchesApart
    BY <1>2, <1>5, <1>6, <1>7 DEF Active, BatchesApart
  <2>5. Known
    BY <1>2 DEF Known
  <2> QED
    BY <2>2, <2>3, <2>4, <2>5 DEF Struct
<1>13. AllPushes /\ AllAmounts /\ AllHolds
  <2>1. SMRBatch \in Nat
    BY <1>1, BatchTwo
  <2>2. AllPushes
    BY <1>2, <2>1 DEF AllPushes, Pushes
  <2>3. AllAmounts
    BY <1>2 DEF AllAmounts, Amounts
  <2>4. AllHolds
    BY <1>2 DEF AllHolds, Holds
  <2> QED
    BY <2>2, <2>3, <2>4
<1>14. Emptied
  BY <1>2 DEF Emptied
<1>15. Room /\ Counted
  BY <1>7 DEF Room, Counted
<1> QED
  BY <1>1, <1>8, <1>9, <1>10, <1>11, <1>12, <1>13, <1>14, <1>15 DEF Books

\* Stuttering keeps the invariant.
LEMMA StutterBooks ==
  ASSUME Books, UNCHANGED vars, Sound'
  PROVE  Books'
<1>1. /\ UNCHANGED <<status, cell, mine, build, head, next, link, refs, batch,
                     vec, handle, pc, at, wk, list, rt>>
  BY DEF vars, clientVars, mem, own, locals, epochs, nodes
<1>2. /\ Slots' = Slots /\ NumSlots' = NumSlots /\ SMRBatch' = SMRBatch /\ Addend' = Addend
  BY <1>1, SameBuild
<1>3. \A t \in Tasks : /\ Inside(t)' <=> Inside(t)
                       /\ Due(t)' <=> Due(t)
                       /\ Adjusting(t)' <=> Adjusting(t)
  BY <1>1 DEF Inside, Due, Adjusting
<1>4. \A t \in Tasks : Line(t)' = Line(t)
  BY <1>1, <1>3 DEF Line, Chain
<1>5. \A t \in Tasks : ToDrop(t)' = ToDrop(t)
  BY <1>1, <1>4 DEF ToDrop
<1>6. \A t \in Tasks : Owed(t)' = Owed(t)
  BY <1>1, <1>5 DEF Owed, Chain
<1>7. /\ AllOwed' = AllOwed /\ Tops' = Tops /\ Buried' = Buried
      /\ \A n : Debtors(n)' = Debtors(n)
  BY <1>1, <1>2, <1>3, <1>6 DEF AllOwed, Tops, Buried, Debtors
<1>8. InPlay' = InPlay
  BY <1>7 DEF InPlay
<1>9. \A t \in Tasks : /\ Growing(t)' = Growing(t) /\ Retiring(t)' = Retiring(t)
                       /\ Pushed(t)' = Pushed(t) /\ LateBy(t)' = LateBy(t)
                       /\ Skips(t)' = Skips(t) /\ Lacking(t)' = Lacking(t)
  BY <1>1, <1>2 DEF Growing, Retiring, Pushed, LateBy, Skips, Lacking
<1>10. \A t \in Tasks : Ending(t)' = Ending(t) /\ Fresh(t)' = Fresh(t)
  BY <1>1, <1>9 DEF Ending, Fresh
<1>11. \A r : Nodes(r)' = Nodes(r) /\ Active(r)' = Active(r)
  BY <1>1, <1>8, <1>9 DEF Nodes, Active
<1>12. Lasts' = Lasts
  BY <1>1, <1>8, <1>9, <1>10 DEF Lasts
<1>13. AllTidy'
  BY <1>1 DEF Books, AllTidy, Tidy
<1>14. Sited'
  BY <1>1 DEF Books, Sited
<1>15. Walked'
  <2> SUFFICES ASSUME NEW t \in Tasks PROVE Paths(t)'
    BY DEF Walked
  <2>1. Paths(t)
    BY DEF Books, Walked
  <2> QED
    BY <1>1, <1>3, <1>4, <1>5, <2>1 DEF Paths
<1>16. Places'
  BY <1>1, <1>2, <1>3, <1>6, <1>7, <1>9 DEF Books, Places
<1>17. Struct'
  <2>1. AllGrows /\ AllQueued /\ BatchesApart /\ Known
    BY DEF Books, Struct
  <2>2. AllGrows'
    <3> SUFFICES ASSUME NEW t \in Tasks PROVE Grows(t)'
      BY DEF AllGrows
    <3>1. Grows(t)
      BY <2>1 DEF AllGrows
    <3> QED
      BY <1>1, <1>2, <1>9, <1>11, <3>1 DEF Grows
  <2>3. AllQueued'
    <3> SUFFICES ASSUME NEW t \in Tasks PROVE Queued(t)'
      BY DEF AllQueued
    <3>1. Queued(t)
      BY <2>1 DEF AllQueued
    <3> QED
      BY <1>1, <1>9, <1>11, <3>1 DEF Queued
  <2>4. BatchesApart'
    BY <1>1, <1>8, <1>9, <1>10, <1>11, <1>12, <2>1 DEF BatchesApart
  <2>5. Known'
    BY <1>1, <1>9, <1>12, <2>1 DEF Known
  <2> QED
    BY <2>2, <2>3, <2>4, <2>5 DEF Struct
<1>18. \A t \in Tasks : Pushes(t)' /\ Amounts(t)' /\ Holds(t)'
  <2> TAKE t \in Tasks
  <2>1. Pushes(t) /\ Amounts(t) /\ Holds(t)
    BY DEF Books, AllPushes, AllAmounts, AllHolds
  <2>2. Pushes(t)'
    BY <1>1, <1>2, <1>9, <2>1 DEF Pushes
  <2>3. Amounts(t)'
    BY <1>1, <1>2, <1>9, <2>1 DEF Amounts
  <2>4. Holds(t)'
    BY <1>1, <1>6, <1>9, <2>1 DEF Holds
  <2> QED
    BY <2>2, <2>3, <2>4
<1>19. AllPushes' /\ AllAmounts' /\ AllHolds'
  BY <1>18 DEF AllPushes, AllAmounts, AllHolds
<1>20. Emptied'
  BY <1>1, <1>2 DEF Books, Emptied
<1>21. \A r : /\ Debts(r)' = Debts(r) /\ Late(r)' = Late(r)
              /\ Unadded(r)' = Unadded(r) /\ Missing(r)' = Missing(r)
  <2> TAKE r
  <2>1. Debts(r)' = Debts(r)
    BY <1>1, <1>6 DEF Debts
  <2>2. \A t \in Tasks : Withheld(t, r)' = Withheld(t, r)
    BY <1>1, <1>2, <1>3, <1>9 DEF Withheld
  <2>3. Late(r)' = Late(r)
    BY <2>2 DEF Late
  <2>4. UNION {{t} \X Lacking(t)' : t \in Active(r)'} = UNION {{t} \X Lacking(t) : t \in Active(r)}
    BY <1>9, <1>11 DEF Active
  <2>5. Unadded(r)' = Unadded(r)
    BY <2>4 DEF Unadded
  <2>6. HeadsOf(r)' = HeadsOf(r) /\ DuesOf(r)' = DuesOf(r)
    BY <1>1, <1>2, <1>3 DEF HeadsOf, DuesOf
  <2>7. Missing(r)' = Cardinality(HeadsOf(r))' + Cardinality(DuesOf(r))' + Unadded(r)'
    BY DEF Missing, HeadsOf, DuesOf, Unadded, Due
  <2>8. Missing(r)' = Missing(r)
    BY <2>5, <2>6, <2>7, MissingIs
  <2> QED
    BY <2>1, <2>3, <2>5, <2>8
<1>22. Room' /\ Counted'
  BY <1>1, <1>2, <1>11, <1>12, <1>21 DEF Books, Room, Counted
<1> QED
  BY <1>13, <1>14, <1>15, <1>16, <1>17, <1>19, <1>20, <1>22 DEF Books

\* Every step of a thread keeps the invariant.
LEMMA BooksTask ==
  ASSUME Books, CounterNodeSpared, NEW t \in Tasks, Good(t), Sound', Calls(t) \/ Steps(t)
  PROVE  Books'
<1>1. CASE Calls(t)
  <2>1. CASE Enter1(t)
    BY <2>1, EnterKeeps
  <2>2. CASE Enter2(t)
    BY <2>2, IdleKeeps
  <2>3. CASE Leave1(t)
    BY <2>3, TakeListKeeps
  <2>4. CASE Leave2(t)
    BY <2>4, LoadHeadKeeps
  <2>5. CASE Trim(t)
    BY <2>5, AckTrimKeeps
  <2>6. CASE Alloc(t) \/ Rideable(t) \/ \E c \in Cells : Read(t, c) \/ Deref(t, c)
    BY <2>6, IdleKeeps
  <2>7. CASE \E c \in Cells : Retire(t, c)
    BY <2>7, RetireKeeps
  <2> QED
    BY <1>1, <2>1, <2>2, <2>3, <2>4, <2>5, <2>6, <2>7 DEF Calls
<1>2. CASE Steps(t)
  <2>1. CASE EnterLook(t) \/ DerefValue(t) \/ DerefGlobal(t) \/ DerefAccess1(t) \/ DerefAccess2(t)
    BY <2>1, IdleKeeps
  <2>2. CASE EnterAdd(t)
    BY <2>2, EnterKeeps
  <2>3. CASE RtAccess(t) \/ RtLoad(t) \/ RtRetry(t)
    BY <2>3, RtLookKeeps
  <2>4. CASE RtPush1(t) \/ RtPush2(t)
    <3>1. pc[t] = "rt_cas"
      BY <2>4 DEF RtPush1, RtPush2, Push
    <3>2. Len(rt[t].todo) > 1
      BY <3>1 DEF CounterNodeSpared
    <3> QED
      BY <2>4, <3>2, RtPush1Keeps, RtPush2Keeps
  <2>5. CASE RtAdjust(t) \/ LeaveAdjust(t) \/ RtFin(t)
    BY <2>5, AdjustKeeps
  <2>6. CASE RtCount(t)
    BY <2>6, RtCountKeeps
  <2>7. CASE LeaveTrim1(t)
    BY <2>7, TakeListKeeps
  <2>8. CASE LeaveTrim2(t) \/ LeaveRetry(t)
    BY <2>8, LoadHeadKeeps
  <2>9. CASE LeaveCas(t)
    BY <2>9, LeaveCasKeeps, LeaveTakeKeeps
  <2>10. CASE LeaveClear(t)
    BY <2>10, LeaveHitKeeps, LeaveMissKeeps
  <2>11. CASE Traverse(t)
    BY <2>11, TraverseKeeps
  <2>12. CASE Ack(t)
    BY <2>12, AckTrimKeeps
  <2>13. CASE FreeList(t)
    BY <2>13, FreeListKeeps
  <2> QED
    BY <1>2, <2>1, <2>2, <2>3, <2>4, <2>5, <2>6, <2>7, <2>8, <2>9, <2>10, <2>11,
       <2>12, <2>13 DEF Steps
<1> QED
  BY <1>1, <1>2

-----------------------------------------------------------------------------
(***************************************************************************)
(* What the invariant says of the properties.                              *)
(***************************************************************************)

\* What the threads look at.
LEMMA BusyIs ==
  ASSUME NEW n
  PROVE  n \in Busy <=> \/ n \in AllOwed \/ \E s \in Slots : n = head[s].ptr
                        \/ \E t \in Tasks : Adjusting(t) /\ n = rt[t].node
                        \/ \E t \in Tasks : n = rt[t].first
BY DEF Busy, AllOwed

\* A node in use is in play or held by retire.
LEMMA BusyParts ==
  ASSUME NEW n, n \in Busy, n # NULL
  PROVE  \/ n \in InPlay
         \/ \E t \in Tasks : pc[t] = "rt_fin" /\ n = rt[t].node
         \/ \E t \in Tasks : n = rt[t].first
<1>1. CASE n \in AllOwed
  BY <1>1 DEF InPlay
<1>2. CASE \E s \in Slots : n = head[s].ptr
  BY <1>2 DEF InPlay, Tops
<1>3. CASE \E t \in Tasks : Adjusting(t) /\ n = rt[t].node
  <2>1. PICK t \in Tasks : Adjusting(t) /\ n = rt[t].node
    BY <1>3
  <2>2. CASE pc[t] = "rt_fin"
    BY <2>1, <2>2
  <2>3. CASE pc[t] # "rt_fin"
    <3>1. Due(t)
      BY <2>1, <2>3 DEF Due, Adjusting
    <3>2. n \in Buried
      BY <2>1, <3>1 DEF Buried
    <3> QED
      BY <3>2 DEF InPlay
  <2> QED
    BY <2>2, <2>3
<1> QED
  BY <1>1, <1>2, <1>3, BusyIs

\* What the threads look at is of a batch that is in play, or that is retired.
LEMMA BusyFacts ==
  ASSUME Books, NEW n \in Busy, n # NULL
  PROVE  /\ n \in Objs /\ link[n] \in Lasts
         /\ status[n] = "retired" /\ status[link[n]] = "retired"
<1>1. /\ Sound /\ Struct /\ AllPushes /\ InPlay \subseteq Objs /\ link \in [Objs -> Objs]
      /\ Lasts \subseteq Objs
  <2>1. Sound /\ Struct /\ AllPushes
    BY DEF Books
  <2>2. link \in [Objs -> Objs]
    BY <2>1, TypeParts DEF Sound, SharedTypeOK
  <2> QED
    BY <2>1, <2>2, InPlayType, LastsObjs DEF Books
<1>2. /\ \A r \in Lasts : status[r] = "retired" /\ status[link[r]] = "retired"
      /\ \A m \in InPlay : status[m] = "retired"
  BY <1>1 DEF Struct, BatchesApart
<1>3. CASE n \in InPlay
  BY <1>1, <1>2, <1>3 DEF Lasts
<1>4. CASE \E t \in Tasks : pc[t] = "rt_fin" /\ n = rt[t].node
  <2>1. PICK t \in Tasks : pc[t] = "rt_fin" /\ n = rt[t].node
    BY <1>4
  <2>2. Tidy(t) /\ Pushes(t)
    BY BooksParts, <1>1 DEF AllPushes
  <2>3. Retiring(t) = NULL
    BY <2>1, <2>2 DEF Tidy, Retires, Retiring
  <2>4. link[n] \in Ending(t)
    BY <2>1, <2>3 DEF Ending
  <2>5. link[n] \in Lasts
    BY <2>4, LastsIs
  <2>6. link[link[n]] = n
    BY <2>1, <2>2 DEF Pushes
  <2>7. rt[t] \in Batches
    BY <1>1, SoundParts, Fields
  <2>8. n \in Objs
    BY <2>1, <2>7 DEF Batches, Ptrs
  <2> QED
    BY <1>2, <2>5, <2>6, <2>8
<1>5. CASE \E t \in Tasks : n = rt[t].first
  <2>1. PICK t \in Tasks : n = rt[t].first
    BY <1>5
  <2>2. rt[t] \in Batches
    BY <1>1, SoundParts, Fields
  <2>3. n \in Objs
    BY <2>1, <2>2 DEF Batches, Ptrs
  <2>4. link[n] \in Objs /\ link[n] # NULL
    BY <1>1, <2>3
  <2>5. Retiring(t) = link[n]
    BY <2>1 DEF Retiring
  <2>6. link[n] \in Lasts
    BY <2>4, <2>5, LastsIs DEF Ending
  <2>7. link[link[n]] = n
    BY <1>1, <2>1 DEF AllPushes, Pushes
  <2> QED
    BY <1>2, <2>3, <2>6, <2>7
<1>6. n \in InPlay \/ (\E t \in Tasks : pc[t] = "rt_fin" /\ n = rt[t].node)
                   \/ \E t \in Tasks : n = rt[t].first
  BY BusyParts
<1> QED
  BY <1>3, <1>4, <1>5, <1>6

\* What a thread has to walk is retired and not taken.
LEMMA WalkIsSafe == Books => WalkSafe
<1> SUFFICES ASSUME Books PROVE WalkSafe
  OBVIOUS
<1>1. \A n \in Busy \ {NULL} : status[n] = "retired" /\ status[link[n]] = "retired"
  BY BusyFacts
<1>2. \A t \in Tasks : \A i \in DOMAIN rt[t].todo : status[rt[t].todo[i]] = "retired"
  BY DEF Books, AllPushes, Pushes
<1> QED
  BY <1>1, <1>2 DEF WalkSafe

\* Every counter has the value that its references give.
LEMMA RefsAreExact == Books => RefsExact
<1> SUFFICES ASSUME Books, NEW n \in Busy \ {NULL}
             PROVE  refs[link[n]] = (Cardinality(Debts(link[n])) - Cardinality(Late(link[n]))
                                     - IF build.words = 1 THEN 0 ELSE Addend * Missing(link[n]))
                                    % CounterMod
  BY DEF RefsExact
<1>1. link[n] \in Lasts
  BY BusyFacts
<1> QED
  BY <1>1 DEF Books, Counted

\* Nobody refers to a batch that is about to be freed.
LEMMA QueuedIsUntouched == Books => QueuedUntouched
<1> SUFFICES ASSUME Books, NEW t \in Tasks, NEW r \in list[t]
             PROVE  /\ \A n \in Busy \ {NULL} : n \notin BatchOf(r)
                    /\ \A u \in Tasks : r \in list[u] => u = t
  BY DEF QueuedUntouched
<1>1. /\ Sound /\ Struct /\ AllTidy /\ r \in Lasts
  BY LastsIs DEF Books
<1>2. /\ Nodes(r) = {} /\ Active(r) = {}
      /\ \A u \in Tasks : r \notin Growing(u) /\ (u # t => r \notin list[u])
  BY <1>1 DEF Struct, AllQueued, Queued
<1>3. /\ link[link[r]] = r
      /\ link[r] \in Lasts => link[r] = r
      /\ link[r] = r => \E u \in Tasks : r \in Growing(u)
      /\ \A m \in InPlay : m \notin Lasts
  BY <1>1 DEF Struct, BatchesApart
<1>4. link[r] \notin Lasts
  BY <1>2, <1>3
<1>5. \A n \in Busy \ {NULL} : link[n] # r
  <2> SUFFICES ASSUME NEW n \in Busy, n # NULL, link[n] = r PROVE FALSE
    OBVIOUS
  <2>1. n \in Objs /\ r \in Objs
    BY BusyFacts, <1>1, LastsObjs
  <2>2. n \notin InPlay
    BY <1>2 DEF Nodes
  <2>3. \/ \E u \in Tasks : pc[u] = "rt_fin" /\ n = rt[u].node
        \/ \E u \in Tasks : n = rt[u].first
    BY <2>2, BusyParts
  <2>4. \E u \in Tasks : u \in Active(r)
    BY <2>3 DEF Active, Retiring
  <2> QED
    BY <1>2, <2>4
<1>6. ASSUME NEW n \in Busy \ {NULL}, n \in BatchOf(r) PROVE FALSE
  <2>1. link[n] \in Lasts /\ link[n] # r
    BY <1>5, <1>6, BusyFacts
  <2>2. n = r \/ link[n] = link[r] \/ link[n] = r \/ link[r] = n
    BY <1>6 DEF BatchOf
  <2> QED
    BY <1>3, <1>4, <2>1, <2>2
<1> QED
  BY <1>2, <1>6

\* Every retired node is in a batch that somebody will free.
LEMMA NothingIsLost == Books => NothingLost
<1> DEFINE cleared(s) == \E t \in Tasks : /\ pc[t] = "lv_clear" /\ vec[t] = s
                                          /\ rt[t].node = head[s].ptr
           live == {s \in Slots : head[s].ref > 0 \/ cleared(s)}
           own0(t) == Owed(t) \union list[t] \union {rt[t].first}
           walked == UNION {own0(t) : t \in Tasks}
           adjusted == {rt[t].node : t \in {u \in Tasks : Adjusting(u)}}
           topped == {head[s].ptr : s \in live}
           kept == walked \union adjusted \union topped
<1> SUFFICES ASSUME Books, NEW o \in Objs, status[o] = "retired"
             PROVE  \/ \E t \in Tasks : \E i \in DOMAIN batch[t] : batch[t][i] = o
                    \/ BatchOf(o) \intersect kept # {}
  BY DEF NothingLost
<1>1. /\ Sound /\ Struct /\ Places /\ Emptied /\ InPlay \subseteq Objs /\ Lasts \subseteq Objs
      /\ build.words \in {1, 2}
  BY BooksParts, InPlayType, LastsObjs DEF Books
<1>2. /\ \A r \in Lasts : status[r] = "retired"
      /\ \A n \in InPlay : status[n] = "retired"
  BY <1>1 DEF Struct, BatchesApart
<1>3. \A s \in Slots : head[s].ptr # NULL => s \in live
  <2> SUFFICES ASSUME NEW s \in Slots, head[s].ptr # NULL PROVE head[s].ref > 0 \/ cleared(s)
    OBVIOUS
  <2>1. head[s].ref \in Nat
    BY <1>1, SoundParts, TypeParts DEF SharedTypeOK, Sound
  <2>2. CASE build.words = 1
    BY <1>1, <2>1, <2>2 DEF Places
  <2>3. CASE build.words = 2 /\ head[s].ref = 0
    BY <1>1, <2>3 DEF Emptied
  <2> QED
    BY <1>1, <2>1, <2>2, <2>3
<1>0. /\ \A t \in Tasks : /\ Owed(t) \subseteq kept /\ list[t] \subseteq kept
                          /\ rt[t].first \in kept
                          /\ Adjusting(t) => rt[t].node \in kept
      /\ \A s \in live : head[s].ptr \in kept
  <2>1. ASSUME NEW t \in Tasks
        PROVE  /\ Owed(t) \subseteq walked /\ list[t] \subseteq walked
               /\ rt[t].first \in walked
    <3>1. own0(t) \subseteq walked
      <4> HIDE DEF own0
      <4> QED
        OBVIOUS
    <3> HIDE DEF walked
    <3> QED
      BY <3>1
  <2>2. \A t \in Tasks : Adjusting(t) => rt[t].node \in adjusted
    OBVIOUS
  <2>3. \A s \in live : head[s].ptr \in topped
    OBVIOUS
  <2> HIDE DEF walked, adjusted, topped, live
  <2> QED
    BY <2>1, <2>2, <2>3
<1> HIDE DEF own0, walked, adjusted, topped, kept
<1>4. InPlay \subseteq kept
  <2> SUFFICES ASSUME NEW n \in InPlay PROVE n \in kept
    OBVIOUS
  <2>1. CASE n \in AllOwed
    <3>1. PICK t \in Tasks : n \in Owed(t)
      BY <2>1 DEF AllOwed
    <3> HIDE DEF live
    <3> QED
      BY <1>0, <3>1
  <2>2. CASE n \in Tops
    <3>1. PICK s \in Slots : n = head[s].ptr /\ n # NULL
      BY <2>2 DEF Tops
    <3>2. s \in live
      BY <1>3, <3>1
    <3> HIDE DEF live
    <3> QED
      BY <1>0, <3>1, <3>2
  <2>3. CASE n \in Buried
    BY <1>0, <2>3 DEF Buried, Due, Adjusting
  <2> QED
    BY <2>1, <2>2, <2>3 DEF InPlay
<1>5. ASSUME NEW r \in Lasts, r = o \/ link[o] = r, \A t \in Tasks : r \notin Growing(t)
      PROVE  BatchOf(o) \intersect kept # {}
  <2>1. \/ \E n \in Nodes(r) : TRUE
        \/ \E u \in Tasks : r \in list[u] \/ r \in Ending(u)
    BY <1>5, LastsIs
  <2>2. ASSUME NEW n, n \in Objs, status[n] = "retired", link[n] = r
        PROVE  n \in BatchOf(o)
    BY <1>5, <2>2 DEF BatchOf
  <2>3. ASSUME NEW n \in Nodes(r) PROVE BatchOf(o) \intersect kept # {}
    BY <1>1, <1>2, <1>4, <2>2 DEF Nodes
  <2>4. ASSUME NEW u \in Tasks, r \in list[u] PROVE BatchOf(o) \intersect kept # {}
    <3>1. r \in BatchOf(o)
      BY <1>1, <1>2, <1>5 DEF BatchOf
    <3>2. r \in kept
      BY <1>0, <2>4
    <3> QED
      BY <3>1, <3>2
  <2>5. ASSUME NEW u \in Tasks, r \in Ending(u) PROVE BatchOf(o) \intersect kept # {}
    <3>1. r \in Objs /\ NULL \notin Objs
      BY <1>1, HyalineAssumption, ClientAssumption
    <3>2. \/ rt[u].first # NULL /\ link[rt[u].first] = r
          \/ pc[u] = "rt_fin" /\ link[rt[u].node] = r
      BY <2>5, <3>1 DEF Ending, Retiring
    <3>3. CASE rt[u].first # NULL /\ link[rt[u].first] = r
      <4>1. rt[u].first \in Busy
        BY BusyIs
      <4>2. rt[u].first \in Objs /\ status[rt[u].first] = "retired"
        BY <3>3, <4>1, BusyFacts
      <4>3. rt[u].first \in BatchOf(o)
        BY <2>2, <3>3, <4>2
      <4> QED
        BY <1>0, <4>3
    <3>4. CASE pc[u] = "rt_fin" /\ link[rt[u].node] = r
      <4>1. Adjusting(u) /\ rt[u].node # NULL
        BY <1>1, <3>4, SoundParts DEF Adjusting, Control
      <4>2. rt[u].node \in Busy
        BY <4>1, BusyIs
      <4>3. rt[u].node \in Objs /\ status[rt[u].node] = "retired"
        BY <4>1, <4>2, BusyFacts
      <4>4. rt[u].node \in BatchOf(o)
        BY <2>2, <3>4, <4>3
      <4> QED
        BY <1>0, <4>1, <4>4
    <3> QED
      BY <3>2, <3>3, <3>4
  <2> QED
    BY <2>1, <2>3, <2>4, <2>5
<1>6. \/ \E t \in Tasks : \E i \in DOMAIN batch[t] : batch[t][i] = o
      \/ \E r \in Lasts : (r = o \/ link[o] = r) /\ \A t \in Tasks : r \notin Growing(t)
  BY <1>1 DEF Struct, Known
<1> QED
  BY <1>5, <1>6

-----------------------------------------------------------------------------
(***************************************************************************)
(* What threads may look at: the inductive invariant of the protection.    *)
(***************************************************************************)

\* The epochs of a run in their order.
Age(e) == (e - StartEpoch) % EpochMod
Before(x, y) == Age(x) <= Age(y)

\* No epoch is ahead of the global one, and deref does not set the epoch of its
\* slot back.
Clock ==
    /\ Age(global) <= MaxAdvance
    /\ \A s \in Slots : Before(access[s], global)
    /\ \A o \in Objs : Before(birth[o], global)
    /\ \A t \in Tasks : Before(minEpoch[t], global)
    /\ \A t \in Tasks : pc[t] \in {"value", "global", "access"} =>
          Before(rd[t].access, access[vec[t]])
    /\ \A t \in Tasks : pc[t] = "access" =>
          /\ Before(rd[t].access, rd[t].global) /\ Before(rd[t].global, global)
          /\ build.words = 1 => Before(access[vec[t]], rd[t].global)

\* The nodes of a batch, and those that a thread collects.
Whole(r) == {o \in Objs : status[o] = "retired" /\ (o = r \/ link[o] = r)}
Gathered(u) == {batch[u][i] : i \in DOMAIN batch[u]}

\* The call of retire has slot s still before it.
Ahead(u, s) ==
    \/ pc[u] \in {"rt_access", "rt_load", "rt_cas"} /\ at[u] <= s
    \/ pc[u] \in {"rt_adj", "rt_count"} /\ at[u] < s

\* Batch r will not be freed before thread t leaves: t has a node of it in its
\* list, or the thread that pushes it will come to the slot of t.
Hooked(t, r) ==
    \/ \E n \in Line(t) : link[n] = r
    \/ \E u \in Tasks : Retiring(u) = r /\ Ahead(u, vec[t])

\* Block o is one that thread t may look at.
Guarded(t, o) ==
    /\ build.robust => Before(birth[o], access[vec[t]])
    /\ \/ status[o] = "linked"
       \/ \E u \in Tasks : o \in Gathered(u)
       \/ \E r \in Objs : o \in Whole(r) /\ Hooked(t, r)

\* Where a thread may hold references.
Holding(t) ==
    /\ pc[t] \in {"in", "value", "global", "access", "rt_access", "rt_load", "rt_cas",
                  "rt_adj", "rt_count", "rt_fin", "free"}
    /\ Inside(t)

\* deref is about to return its pointer.
Loaded(t) == pc[t] = "global" /\ rd[t].ptr # NULL /\ rd[t].access = global

\* What a thread holds, and what deref is about to return, is guarded.
HeldGuarded ==
    \A t \in Tasks :
        /\ held[t] # {} => Holding(t)
        /\ \A o \in held[t] : Guarded(t, o)
        /\ Loaded(t) => Guarded(t, rd[t].ptr)

\* The min_epoch of a batch is the least epoch of its nodes.
Pool(u) == Gathered(u) \union (IF Retiring(u) = NULL THEN {} ELSE Whole(Retiring(u)))
Youngest(u) ==
    /\ Retiring(u) # NULL => batch[u] = <<>>
    /\ \A o \in Pool(u) : Before(minEpoch[u], birth[o])
    /\ Pool(u) # {} => \E o \in Pool(u) : minEpoch[u] = birth[o]
    /\ pc[u] \in {"rt_load", "rt_cas"} => Before(minEpoch[u], access[at[u]])

\* A node was pushed on a slot for a node of its batch that the slot covers.
Aged(n, s) == \E m \in Whole(link[n]) : Before(birth[m], access[s])
Stalls ==
    /\ \A t \in Tasks : \A n \in Line(t) : Aged(n, vec[t])
    /\ \A s \in Slots : head[s].ptr # NULL => Aged(head[s].ptr, s)

\* retire of Hyaline looks at no epoch.
Paced == \A t \in Tasks : pc[t] = "rt_access" => build.robust

\* The invariant.
Shield ==
    /\ Clock /\ HeldGuarded /\ Paced
    /\ build.robust => Stalls /\ \A u \in Tasks : Youngest(u)

-----------------------------------------------------------------------------
(***************************************************************************)
(* No epoch is ahead of the global one.                                    *)
(***************************************************************************)

\* The age of an epoch is a number of epochs.
LEMMA AgeType ==
  ASSUME NEW e \in 0 .. EpochMod - 1
  PROVE  /\ Age(e) \in 0 .. EpochMod - 1 /\ Age(e) \in Int
         /\ Even(Age(e) - (e - StartEpoch), EpochMod)
<1>1. e - StartEpoch \in Int /\ EpochMod \in Int /\ EpochMod > 0
  OBVIOUS
<1> QED
  BY <1>1, EvenMod DEF Age

\* The first epoch has no age.
LEMMA AgeStart == Age(StartEpoch) = 0
<1>1. StartEpoch - StartEpoch = 0 /\ EpochMod \in Nat \ {0}
  OBVIOUS
<1> QED
  BY <1>1, NoRemainder DEF Age

\* The comparison of epochs by their difference is one by age.
LEMMA AgeGeq ==
  ASSUME NEW x \in 0 .. EpochMod - 1, NEW y \in 0 .. EpochMod - 1,
         Age(x) <= MaxAdvance, Age(y) <= MaxAdvance
  PROVE  EpochGeq(x, y) <=> Before(y, x)
<1> DEFINE a == Age(x)
           b == Age(y)
           d == (x - y) % EpochMod
<1>1. /\ a \in Nat /\ b \in Nat /\ a <= MaxAdvance /\ b <= MaxAdvance
      /\ MaxAdvance \in Nat /\ EpochMod \in Nat \ {0} /\ 2 * MaxAdvance < EpochMod
      /\ StartEpoch \in Int
  BY AgeType, EpochsAssumption
<1>2. /\ Even(a - (x - StartEpoch), EpochMod) /\ Even(b - (y - StartEpoch), EpochMod)
  BY AgeType
<1> HIDE DEF a, b
<1>3. Even((a - b) - (x - y), EpochMod)
  <2>1. (a - (x - StartEpoch)) - (b - (y - StartEpoch)) = (a - b) - (x - y)
    BY <1>1
  <2>2. a - (x - StartEpoch) \in Int /\ b - (y - StartEpoch) \in Int
    BY <1>1
  <2>3. Even((a - (x - StartEpoch)) - (b - (y - StartEpoch)), EpochMod)
    BY <1>1, <1>2, <2>2, EvenSum
  <2> QED
    BY <2>1, <2>3
<1>4. CASE b <= a
  <2>1. a - b \in 0 .. EpochMod - 1 /\ x - y \in Int
    BY <1>1, <1>4
  <2>2. a - b = d
    BY <1>1, <1>3, <2>1, EvenSame
  <2>3. 2 * (a - b) < EpochMod
    BY <1>1, <1>4
  <2> QED
    BY <1>4, <2>2, <2>3 DEF EpochGeq, Before, a, b
<1>5. CASE ~(b <= a)
  <2>1. (a - b) + EpochMod \in 0 .. EpochMod - 1 /\ x - y \in Int
    BY <1>1, <1>5
  <2>2. Even(EpochMod, EpochMod)
    BY <1>1 DEF Even
  <2>3. Even(((a - b) - (x - y)) + EpochMod, EpochMod)
    BY <1>1, <1>3, <2>2, EvenSum
  <2>4. ((a - b) - (x - y)) + EpochMod = ((a - b) + EpochMod) - (x - y)
    BY <1>1
  <2>5. (a - b) + EpochMod = d
    BY <1>1, <2>1, <2>3, <2>4, EvenSame
  <2>6. ~(2 * ((a - b) + EpochMod) < EpochMod)
    BY <1>1, <1>5
  <2> QED
    BY <1>5, <2>5, <2>6 DEF EpochGeq, Before, a, b
<1> QED
  BY <1>4, <1>5

\* The next epoch is one older, as long as they do not wrap.
LEMMA AgeNext ==
  ASSUME NEW g \in 0 .. EpochMod - 1, Age(g) < MaxAdvance
  PROVE  Age((g + 1) % EpochMod) = Age(g) + 1
<1> DEFINE a == Age(g)
           h == (g + 1) % EpochMod
<1>1. /\ a \in Nat /\ a < MaxAdvance /\ MaxAdvance \in Nat
      /\ EpochMod \in Nat \ {0} /\ 2 * MaxAdvance < EpochMod /\ StartEpoch \in Int
      /\ EpochMod \in Int /\ EpochMod > 0
  BY AgeType, EpochsAssumption
<1>2. Even(a - (g - StartEpoch), EpochMod)
  BY AgeType
<1>3. Even(h - (g + 1), EpochMod) /\ h \in Int
  BY <1>1, EvenMod
<1> HIDE DEF a, h
<1>4. (a - (g - StartEpoch)) - (h - (g + 1)) = (a + 1) - (h - StartEpoch)
  BY <1>1, <1>3
<1>5. Even((a + 1) - (h - StartEpoch), EpochMod)
  BY <1>1, <1>2, <1>3, <1>4, EvenSum
<1>6. a + 1 \in 0 .. EpochMod - 1 /\ h - StartEpoch \in Int
  BY <1>1, <1>3
<1>7. a + 1 = (h - StartEpoch) % EpochMod
  BY <1>1, <1>5, <1>6, EvenSame
<1> QED
  BY <1>7 DEF Age, a, h

\* The values of an epoch.
Epochs == 0 .. EpochMod - 1

\* The order of the epochs is one.
LEMMA BeforeOrder ==
  /\ \A x \in Epochs : Before(x, x)
  /\ \A x, y, z \in Epochs : Before(x, y) /\ Before(y, z) => Before(x, z)
  /\ \A x, y \in Epochs : Before(x, y) \/ Before(y, x)
<1>1. \A x \in Epochs : Age(x) \in Int
  BY AgeType DEF Epochs
<1> QED
  BY <1>1 DEF Before

\* The epochs are epochs.
LEMMA EpochTypes ==
  ASSUME Sound
  PROVE  /\ access \in [Slots -> Epochs] /\ global \in Epochs /\ birth \in [Objs -> Epochs]
         /\ minEpoch \in [Tasks -> Epochs] /\ vec \in [Tasks -> Slots]
         /\ rd \in [Tasks -> Derefs] /\ at \in [Tasks -> Slots]
         /\ \A t \in Tasks : /\ rd[t].global \in Epochs /\ rd[t].access \in Epochs
                             /\ rd[t].ptr \in Ptrs
         /\ pc \in [Tasks -> PC] /\ held \in [Tasks -> SUBSET Objs]
<1>1. SharedTypeOK /\ OwnTypeOK /\ LocalTypeOK
  BY TypeParts DEF Sound
<1>2. rd \in [Tasks -> Derefs]
  BY <1>1 DEF LocalTypeOK
<1>3. \A t \in Tasks : /\ rd[t].global \in Epochs /\ rd[t].access \in Epochs
                       /\ rd[t].ptr \in Ptrs
  BY <1>2 DEF Derefs, Epochs
<1> QED
  BY <1>1, <1>2, <1>3 DEF SharedTypeOK, OwnTypeOK, LocalTypeOK, Epochs

\* The steps that do not read or write an epoch.
Plain(t) ==
    \/ Enter1(t) \/ Enter2(t) \/ EnterLook(t) \/ EnterAdd(t) \/ Rideable(t)
    \/ \E c \in Cells : Read(t, c)
    \/ RtAccess(t) \/ RtLoad(t) \/ RtRetry(t) \/ RtPush1(t) \/ RtPush2(t)
    \/ RtAdjust(t) \/ RtCount(t) \/ RtFin(t)
    \/ Leave1(t) \/ Leave2(t) \/ LeaveTrim1(t) \/ LeaveTrim2(t) \/ LeaveRetry(t)
    \/ LeaveCas(t) \/ LeaveClear(t) \/ LeaveAdjust(t)
    \/ Traverse(t) \/ Ack(t) \/ FreeList(t) \/ Trim(t)

\* The places inside deref.
Derefing == {"value", "global", "access"}

\* They leave the epochs as they are.
LEMMA PlainEpochs ==
  ASSUME NEW t \in Tasks, Plain(t)
  PROVE  UNCHANGED <<access, global, birth, minEpoch, rd>>
<1> USE DEF own, mem, epochs, nodes, locals
<1>1. CASE Enter1(t) \/ Enter2(t) \/ EnterLook(t) \/ EnterAdd(t) \/ Rideable(t)
           \/ \E c \in Cells : Read(t, c)
  BY <1>1 DEF Enter1, Enter2, EnterLook, EnterAdd, Rideable, Read
<1>2. CASE RtAccess(t) \/ RtLoad(t) \/ RtRetry(t) \/ RtPush1(t) \/ RtPush2(t)
           \/ RtAdjust(t) \/ RtCount(t) \/ RtFin(t)
  BY <1>2 DEF RtAccess, RtLoad, RtRetry, RtPush1, RtPush2, RtAdjust, RtCount, RtFin
<1>3. CASE Leave1(t) \/ Leave2(t) \/ LeaveTrim1(t) \/ LeaveTrim2(t) \/ LeaveRetry(t)
           \/ LeaveCas(t) \/ LeaveClear(t) \/ LeaveAdjust(t)
  BY <1>3 DEF Leave1, Leave2, LeaveTrim1, LeaveTrim2, LeaveRetry, LeaveCas, LeaveClear,
              LeaveAdjust, TakeList
<1>4. CASE Traverse(t) \/ Ack(t) \/ FreeList(t) \/ Trim(t)
  BY <1>4, Zenon DEF Traverse, Ack, FreeList, Trim
<1> QED
  BY <1>1, <1>2, <1>3, <1>4 DEF Plain

\* They do not enter deref.
LEMMA PlainPlace ==
  ASSUME Sound, Sited, NEW t \in Tasks, Tidy(t), Plain(t)
  PROVE  pc'[t] \notin Derefing
<1> USE DEF Derefing
<1>0. pc \in [Tasks -> PC]
  BY EpochTypes
<1>1. CASE Enter1(t) \/ EnterAdd(t)
  BY <1>1, EnterFx
<1>2. CASE Enter2(t) \/ EnterLook(t) \/ Rideable(t) \/ \E c \in Cells : Read(t, c)
  BY <1>0, <1>2 DEF Enter2, EnterLook, Rideable, Read, Goto, Entry
<1>3. CASE RtAccess(t) \/ RtLoad(t) \/ RtRetry(t)
  BY <1>3, RtLookFx DEF Onward
<1>4. CASE RtPush1(t)
  BY <1>4, RtPush1Fx DEF Onward
<1>5. CASE RtPush2(t)
  BY <1>5, RtPush2Fx
<1>6. CASE RtAdjust(t)
  BY <1>6, RtAdjustFx
<1>7. CASE RtCount(t)
  BY <1>7, RtCountFx DEF Onward
<1>8. CASE RtFin(t) \/ LeaveAdjust(t)
  BY <1>8, LastAdjustFx
<1>9. CASE Leave1(t) \/ LeaveTrim1(t)
  BY <1>9, TakeListFx
<1>10. CASE Leave2(t) \/ LeaveTrim2(t) \/ LeaveRetry(t)
  BY <1>10, LoadHeadFx
<1>11. CASE LeaveCas(t)
  BY <1>11, LeaveCasFx
<1>12. CASE LeaveClear(t)
  BY <1>12, LeaveClearFx
<1>13. CASE Traverse(t)
  BY <1>13, TraverseFx
<1>14. CASE Ack(t)
  BY <1>14, AckFx
<1>15. CASE FreeList(t)
  BY <1>15, FreeFx
<1>16. CASE Trim(t)
  BY <1>16, TrimFx
<1> QED
  BY <1>1, <1>2, <1>3, <1>4, <1>5, <1>6, <1>7, <1>8, <1>9, <1>10, <1>11, <1>12,
     <1>13, <1>14, <1>15, <1>16 DEF Plain

\* The epoch of no slot is set back, and a block keeps its birth epoch.
Raised == \A s \in Slots : Before(access[s], access'[s])
Born == \A o \in Objs : status[o] # "free" => birth'[o] = birth[o]

\* Without a change of the epochs the clocks stay.
LEMMA PlainClock ==
  ASSUME Books, Clock, NEW t \in Tasks, Good(t), Plain(t)
  PROVE  Clock' /\ Raised /\ Born
<1>1. UNCHANGED <<access, global, birth, minEpoch, rd>>
  BY PlainEpochs
<1>2. pc'[t] \notin Derefing
  BY PlainPlace DEF Books, AllTidy
<1>3. build' = build /\ Slots' = Slots
  BY SameBuild DEF Good
<1>4. \A u \in Tasks : u # t => pc'[u] = pc[u] /\ vec'[u] = vec[u]
  BY DEF Good, Kept
<1>5. Raised /\ Born
  BY <1>1, EpochTypes, BeforeOrder DEF Raised, Born, Books
<1>6. Age(global)' = Age(global)
  BY <1>1 DEF Age
<1>7. \A u \in Tasks : pc'[u] \in Derefing => u # t
  BY <1>2
<1> QED
  BY <1>1, <1>3, <1>4, <1>5, <1>6, <1>7 DEF Clock, Derefing

\* The global epoch advances at most once.
LEMMA InitNodeEpochs ==
  ASSUME Sound, Clock, NEW t \in Tasks, NEW o \in Objs, InitNode(t, o), Good(t)
  PROVE  /\ Before(global, global')
         /\ Age(global') <= MaxAdvance
         /\ global' # global => Age(global') > Age(global)
         /\ birth' = [birth EXCEPT ![o] = global']
<1>1. global \in Epochs /\ global' \in Epochs
  BY EpochTypes DEF Good, SharedTypeOK, Epochs
<1>2. birth' = [birth EXCEPT ![o] = global']
  BY DEF InitNode
<1>3. Age(global) <= MaxAdvance
  BY DEF Clock
<1>4. CASE global' = global
  BY <1>1, <1>2, <1>3, <1>4, BeforeOrder
<1>5. CASE global' # global
  <2>1. Age(global) < MaxAdvance /\ global' = (global + 1) % EpochMod
    BY <1>5 DEF InitNode, Age
  <2>2. Age(global') = Age(global) + 1
    BY <1>1, <2>1, AgeNext DEF Epochs
  <2>3. Age(global) \in Int /\ MaxAdvance \in Int
    BY <1>1, AgeType DEF Epochs
  <2> QED
    BY <1>2, <2>1, <2>2, <2>3 DEF Before
<1> QED
  BY <1>4, <1>5

\* An allocation.
LEMMA AllocClock ==
  ASSUME Books, Clock, NEW t \in Tasks, Good(t), Sound', Alloc(t)
  PROVE  Clock' /\ Raised /\ Born
<1>1. Sound
  BY DEF Books
<1>2. PICK o \in Objs : /\ Malloc(t, o)
                        /\ \/ build.robust /\ InitNode(t, o)
                           \/ ~build.robust /\ UNCHANGED <<allocs, global, birth>>
  BY DEF Alloc
<1>3. /\ UNCHANGED <<access, minEpoch, rd, pc, vec, build>>
  BY DEF Alloc, locals
<1>4. Slots' = Slots
  BY <1>3, SameBuild
<1>5. status[o] = "free"
  BY <1>2 DEF Malloc
<1>6. /\ Before(global, global') /\ Age(global') <= MaxAdvance
      /\ \A p \in Objs : p # o => birth'[p] = birth[p]
      /\ birth'[o] \in {birth[o], global'}
      /\ birth'[o] = global' \/ (global' = global /\ birth'[o] = birth[o])
  <2>1. CASE build.robust /\ InitNode(t, o)
    <3>1. /\ Before(global, global') /\ Age(global') <= MaxAdvance
          /\ birth' = [birth EXCEPT ![o] = global']
      BY <1>1, <2>1, InitNodeEpochs
    <3>2. birth \in [Objs -> Epochs]
      BY <1>1, EpochTypes
    <3>3. birth'[o] = global'
      BY <3>1, <3>2
    <3>4. \A p \in Objs : p # o => birth'[p] = birth[p]
      BY <3>1, <3>2
    <3> QED
      BY <3>1, <3>3, <3>4
  <2>2. CASE ~build.robust /\ UNCHANGED <<allocs, global, birth>>
    BY <1>1, <2>2, EpochTypes, BeforeOrder DEF Clock
  <2> QED
    BY <1>2, <2>1, <2>2
<1>7. Raised /\ Born
  BY <1>1, <1>3, <1>5, <1>6, EpochTypes, BeforeOrder DEF Raised, Born
<1>8. /\ access \in [Slots -> Epochs] /\ global \in Epochs /\ birth \in [Objs -> Epochs]
      /\ minEpoch \in [Tasks -> Epochs] /\ global' \in Epochs
      /\ \A u \in Tasks : /\ rd[u].global \in Epochs /\ rd[u].access \in Epochs
  BY <1>1, EpochTypes DEF Good, SharedTypeOK, Epochs
<1>9. /\ \A s \in Slots : Before(access'[s], global')
      /\ \A u \in Tasks : Before(minEpoch'[u], global')
      /\ \A p \in Objs : Before(birth'[p], global')
      /\ \A u \in Tasks : pc'[u] = "access" => Before(rd'[u].global, global')
  BY <1>3, <1>6, <1>8, BeforeOrder DEF Clock
<1>10. Age(global)' = Age(global')
  BY DEF Age
<1>11. /\ \A u \in Tasks : pc'[u] \in Derefing => Before(rd'[u].access, access'[vec'[u]])
       /\ \A u \in Tasks : pc'[u] = "access" =>
            /\ Before(rd'[u].access, rd'[u].global) /\ Before(rd'[u].global, global')
            /\ build'.words = 1 => Before(access'[vec'[u]], rd'[u].global)
  BY <1>3, <1>9 DEF Clock, Derefing
<1> QED
  BY <1>4, <1>6, <1>7, <1>9, <1>10, <1>11 DEF Clock, Derefing

\* deref loads the pointer and the epochs.
LEMMA DerefClock ==
  ASSUME Books, Clock, NEW t \in Tasks, Good(t),
         (\E c \in Cells : Deref(t, c)) \/ DerefValue(t) \/ DerefGlobal(t)
  PROVE  Clock' /\ Raised /\ Born
<1>1. Sound
  BY DEF Books
<1>2. UNCHANGED <<access, global, birth, minEpoch, vec, build>>
  BY DEF Deref, DerefValue, DerefGlobal, mem, own, epochs, nodes
<1>3. /\ pc \in [Tasks -> PC] /\ rd \in [Tasks -> Derefs] /\ vec \in [Tasks -> Slots]
      /\ access \in [Slots -> Epochs] /\ global \in Epochs /\ birth \in [Objs -> Epochs]
      /\ \A u \in Tasks : rd[u].global \in Epochs /\ rd[u].access \in Epochs
  BY <1>1, EpochTypes
<1>4. Slots' = Slots /\ Age(global)' = Age(global)
  BY <1>2, SameBuild DEF Age
<1>5. Raised /\ Born
  BY <1>2, <1>3, BeforeOrder DEF Raised, Born
<1>6. \A u \in Tasks : u # t => pc'[u] = pc[u] /\ vec'[u] = vec[u] /\ rd'[u] = rd[u]
  BY DEF Good, Kept
<1>7. /\ pc'[t] \in Derefing => Before(rd'[t].access, access[vec[t]])
      /\ pc'[t] = "access" =>
            /\ Before(rd'[t].access, rd'[t].global) /\ Before(rd'[t].global, global)
            /\ build.words = 1 => Before(access[vec[t]], rd'[t].global)
  <2>0. /\ Before(access[vec[t]], global) /\ access[vec[t]] \in Epochs
        /\ pc[t] \in Derefing => Before(rd[t].access, access[vec[t]])
    BY <1>3 DEF Clock, Derefing
  <2>1. CASE \E c \in Cells : Deref(t, c)
    <3>1. PICK c \in Cells : Deref(t, c)
      BY <2>1
    <3>2. rd'[t].access = access[vec[t]] /\ pc'[t] = "global"
      BY <1>3, <3>1 DEF Deref, Goto, NoDeref
    <3> QED
      BY <1>3, <2>0, <3>2, BeforeOrder
  <2>2. CASE DerefValue(t)
    BY <1>3, <2>0, <2>2 DEF DerefValue, Goto, Derefs, Derefing
  <2>3. CASE DerefGlobal(t)
    <3>1. pc[t] = "global"
      BY <2>3 DEF DerefGlobal
    <3>2. \/ pc'[t] = "in"
          \/ pc'[t] = "access" /\ rd'[t].access = rd[t].access /\ rd'[t].global = global
      BY <1>3, <2>3 DEF DerefGlobal, Goto, Derefs
    <3>3. Before(rd[t].access, global)
      BY <1>3, <2>0, <3>1, BeforeOrder DEF Derefing
    <3> QED
      BY <1>3, <2>0, <3>1, <3>2, <3>3, BeforeOrder DEF Derefing
  <2> QED
    BY <2>1, <2>2, <2>3
<1> QED
  BY <1>2, <1>4, <1>5, <1>6, <1>7 DEF Clock, Derefing

\* deref raises the epoch of its slot.
LEMMA AccessClock ==
  ASSUME Books, Clock, NEW t \in Tasks, Good(t), DerefAccess1(t) \/ DerefAccess2(t)
  PROVE  Clock' /\ Raised /\ Born
<1>1. Sound
  BY DEF Books
<1>2. UNCHANGED <<global, birth, minEpoch, vec, build>> /\ pc[t] = "access"
  BY DEF DerefAccess1, DerefAccess2, own, nodes
<1>3. /\ pc \in [Tasks -> PC] /\ rd \in [Tasks -> Derefs] /\ vec \in [Tasks -> Slots]
      /\ access \in [Slots -> Epochs] /\ global \in Epochs /\ birth \in [Objs -> Epochs]
      /\ \A u \in Tasks : rd[u].global \in Epochs /\ rd[u].access \in Epochs
  BY <1>1, EpochTypes
<1>4. Slots' = Slots /\ Age(global)' = Age(global)
  BY <1>2, SameBuild DEF Age
<1>6. \A u \in Tasks : u # t => pc'[u] = pc[u] /\ vec'[u] = vec[u] /\ rd'[u] = rd[u]
  BY DEF Good, Kept
<1> DEFINE s == vec[t]
           a == access[s]
           e == rd[t].global
<1>7. /\ Before(a, global) /\ Before(rd[t].access, a)
      /\ Before(rd[t].access, e) /\ Before(e, global)
      /\ build.words = 1 => Before(a, e)
      /\ s \in Slots /\ a \in Epochs /\ e \in Epochs
  BY <1>2, <1>3 DEF Clock
<1>8. \E x \in {a, e} : /\ access' = [access EXCEPT ![s] = x]
                        /\ Before(a, x)
                        /\ Before(rd'[t].access, x) /\ pc'[t] \in {"value", "access"}
                        /\ pc'[t] = "access" => /\ Before(rd'[t].access, e)
                                                /\ build.words = 2
                                                /\ rd'[t].global = e
  <2>1. CASE DerefAccess1(t)
    BY <1>3, <1>7, <2>1, BeforeOrder DEF DerefAccess1, Goto, AfterAccess, Derefs
  <2>2. CASE DerefAccess2(t) /\ a = rd[t].access
    BY <1>3, <1>7, <2>2, BeforeOrder DEF DerefAccess2, Goto, AfterAccess, Derefs, Swap
  <2>3. CASE DerefAccess2(t) /\ a # rd[t].access
    <3>1. /\ access' = [access EXCEPT ![s] = a] /\ build.words = 2
          /\ rd'[t].access = a /\ rd'[t].global = e
          /\ \/ pc'[t] = "value"
             \/ pc'[t] = "access" /\ ~EpochGeq(a, e)
      BY <1>2, <1>3, <2>3 DEF DerefAccess2, Goto, AfterAccess, Derefs, Swap
    <3>2. ASSUME ~EpochGeq(a, e) PROVE Before(a, e)
      <4>1. Age(a) <= MaxAdvance /\ Age(e) <= MaxAdvance
        <5>1. Age(a) \in Int /\ Age(e) \in Int /\ Age(global) \in Int /\ MaxAdvance \in Int
          BY <1>3, <1>7, AgeType DEF Epochs
        <5>2. Age(global) <= MaxAdvance
          BY DEF Clock
        <5>3. Age(a) <= Age(global) /\ Age(e) <= Age(global)
          BY <1>7 DEF Before
        <5> QED
          BY <5>1, <5>2, <5>3
      <4>2. ~Before(e, a)
        BY <1>7, <3>2, <4>1, AgeGeq DEF Epochs
      <4> QED
        BY <1>7, <4>2, BeforeOrder
    <3> QED
      BY <1>7, <3>1, <3>2, BeforeOrder
  <2> QED
    BY <2>1, <2>2, <2>3
<1> HIDE DEF s, a, e
<1>9. PICK x \in {a, e} : /\ access' = [access EXCEPT ![s] = x]
                          /\ Before(a, x)
                          /\ Before(rd'[t].access, x) /\ pc'[t] \in {"value", "access"}
                          /\ pc'[t] = "access" => /\ Before(rd'[t].access, e)
                                                  /\ build.words = 2
                                                  /\ rd'[t].global = e
  BY <1>8
<1>10. /\ access'[s] = x /\ \A z \in Slots : z # s => access'[z] = access[z]
       /\ x \in Epochs /\ Before(x, global)
  <2>1. access' = [access EXCEPT ![s] = x]
    BY <1>9
  <2>2. s \in Slots
    BY <1>3 DEF s
  <2>3. access'[s] = x
    BY <1>3, <2>1, <2>2
  <2>4. \A z \in Slots : z # s => access'[z] = access[z]
    BY <1>3, <2>1, <2>2
  <2>5. x \in Epochs /\ Before(x, global)
    BY <1>7, <1>9
  <2> QED
    BY <2>3, <2>4, <2>5
<1>11. Raised /\ Born
  <2>1. \A z \in Slots : Before(access[z], access'[z])
    <3>1. access[s] = a /\ Before(a, x)
      BY <1>9 DEF a
    <3>2. \A z \in Slots : access[z] \in Epochs
      BY <1>3
    <3> QED
      BY <1>10, <3>1, <3>2, BeforeOrder
  <2> QED
    BY <1>2, <2>1 DEF Raised, Born
<1>12. \A z \in Slots : Before(access'[z], global)
  BY <1>10 DEF Clock
<1>13. \A u \in Tasks : u # t /\ build.words = 1 => vec[u] # s
  BY <1>1, Alone DEF s
<1>14. ASSUME NEW u \in Tasks, u # t
       PROVE  /\ pc[u] \in Derefing => Before(rd[u].access, access'[vec[u]])
              /\ pc[u] = "access" /\ build.words = 1 => Before(access'[vec[u]], rd[u].global)
  <2>1. vec[u] \in Slots /\ access[vec[u]] \in Epochs /\ access'[vec[u]] \in Epochs
    BY <1>3, <1>10
  <2>2. Before(access[vec[u]], access'[vec[u]])
    BY <1>11, <2>1 DEF Raised
  <2>3. pc[u] \in Derefing => Before(rd[u].access, access'[vec[u]])
    BY <1>3, <1>14, <2>1, <2>2, BeforeOrder DEF Clock, Derefing
  <2>4. build.words = 1 => access'[vec[u]] = access[vec[u]]
    BY <1>10, <1>13, <1>14, <2>1
  <2> QED
    BY <2>3, <2>4 DEF Clock
<1>15. /\ pc'[t] \in Derefing => Before(rd'[t].access, access'[s])
       /\ pc'[t] = "access" =>
            /\ Before(rd'[t].access, rd'[t].global) /\ Before(rd'[t].global, global)
            /\ build.words # 1
  <2>1. access'[s] = x
    BY <1>10
  <2>2. Before(rd'[t].access, x)
    BY <1>9
  <2>3. Before(rd'[t].access, access'[s])
    BY <2>1, <2>2
  <2>4. pc'[t] = "access" =>
            /\ Before(rd'[t].access, rd'[t].global) /\ Before(rd'[t].global, global)
            /\ build.words # 1
    BY <1>7, <1>9
  <2> QED
    BY <2>3, <2>4
<1> QED
  <2>1. \A u \in Tasks : pc'[u] \in Derefing => Before(rd'[u].access, access'[vec'[u]])
    BY <1>2, <1>6, <1>14, <1>15 DEF s
  <2>2. \A u \in Tasks : pc'[u] = "access" =>
            /\ Before(rd'[u].access, rd'[u].global) /\ Before(rd'[u].global, global')
            /\ build'.words = 1 => Before(access'[vec'[u]], rd'[u].global)
    BY <1>2, <1>6, <1>14, <1>15 DEF s, Clock
  <2>3. /\ \A z \in Slots' : Before(access'[z], global')
        /\ Age(global)' <= MaxAdvance
        /\ \A p \in Objs : Before(birth'[p], global')
        /\ \A u \in Tasks : Before(minEpoch'[u], global')
    BY <1>2, <1>4, <1>12 DEF Clock
  <2> QED
    BY <1>11, <2>1, <2>2, <2>3 DEF Clock, Derefing

\* retire takes the epoch of the node for the batch's if it is older.
LEMMA RetireClock ==
  ASSUME Books, Clock, NEW t \in Tasks, Good(t), NEW c \in Cells, Retire(t, c)
  PROVE  Clock' /\ Raised /\ Born
<1>1. Sound /\ Sited /\ Tidy(t)
  BY DEF Books, AllTidy
<1>2. UNCHANGED <<access, global, birth, vec, build, rd>> /\ pc[t] = "in"
      /\ minEpoch' = [minEpoch EXCEPT ![t] = MinEpoch(batch[t] = <<>>, @, birth[cell[c]])]
  BY DEF Retire, epochs
<1>3. cell[c] \in Objs /\ pc'[t] \in {"in", "rt_access", "rt_load"}
  BY <1>1, RetireFx
<1>4. /\ minEpoch \in [Tasks -> Epochs] /\ access \in [Slots -> Epochs]
  BY <1>1, EpochTypes
<1>5. Slots' = Slots /\ Age(global)' = Age(global)
  BY <1>2, SameBuild DEF Age
<1>6. Raised /\ Born
  BY <1>2, <1>4, BeforeOrder DEF Raised, Born
<1>7. \A u \in Tasks : Before(minEpoch'[u], global)
  BY <1>2, <1>3, <1>4 DEF Clock, MinEpoch
<1>8. \A u \in Tasks : u # t => pc'[u] = pc[u]
  BY DEF Good, Kept
<1>9. \A u \in Tasks : pc'[u] \in Derefing => u # t
  BY <1>3 DEF Derefing
<1> QED
  BY <1>2, <1>5, <1>6, <1>7, <1>8, <1>9 DEF Clock, Derefing

\* Every step keeps the clocks.
LEMMA ClockTask ==
  ASSUME Books, Clock, NEW t \in Tasks, Good(t), Sound', Calls(t) \/ Steps(t)
  PROVE  Clock' /\ Raised /\ Born
<1>1. CASE Plain(t)
  BY <1>1, PlainClock
<1>2. CASE ~Plain(t)
  BY <1>2, AllocClock, DerefClock, AccessClock, RetireClock DEF Plain, Calls, Steps
<1> QED
  BY <1>1, <1>2

-----------------------------------------------------------------------------
(***************************************************************************)
(* What a step leaves of the batches.                                      *)
(***************************************************************************)

\* The steps by kind.
Lookups(t) ==
    \/ Enter2(t) \/ EnterLook(t)
    \/ Alloc(t) \/ Rideable(t) \/ (\E c \in Cells : Read(t, c)) \/ (\E c \in Cells : Deref(t, c))
    \/ DerefValue(t) \/ DerefGlobal(t) \/ DerefAccess1(t) \/ DerefAccess2(t)
Entries(t) == Enter1(t) \/ EnterAdd(t)
Pushing(t) ==
    \/ RtAccess(t) \/ RtLoad(t) \/ RtRetry(t) \/ RtPush1(t) \/ RtPush2(t)
    \/ RtAdjust(t) \/ RtCount(t)
Exits(t) ==
    \/ Leave1(t) \/ Leave2(t) \/ LeaveTrim1(t) \/ LeaveTrim2(t) \/ LeaveRetry(t)
    \/ LeaveCas(t) \/ LeaveClear(t) \/ LeaveAdjust(t)
Walkings(t) == RtFin(t) \/ Traverse(t) \/ Ack(t) \/ Trim(t)

\* There is no other.
LEMMA Kinds ==
  ASSUME NEW t \in Tasks, Calls(t) \/ Steps(t)
  PROVE  \/ Lookups(t) \/ Entries(t) \/ Pushing(t) \/ Exits(t) \/ Walkings(t)
         \/ FreeList(t) \/ \E c \in Cells : Retire(t, c)
  BY DEF Calls, Steps, Lookups, Entries, Pushing, Exits, Walkings

\* Of these, none links or retires a node.
LEMMA KindsStay ==
  ASSUME Books, NEW t \in Tasks,
         Lookups(t) \/ Entries(t) \/ Pushing(t) \/ Exits(t) \/ Walkings(t)
  PROVE  link' = link /\ Retired' = Retired /\ batch' = batch /\ Neat(t)
<1>1. Sound /\ Sited /\ Tidy(t)
  BY DEF Books, AllTidy
<1>2. CASE Lookups(t)
  BY <1>1, <1>2, IdleFx DEF Lookups
<1>3. CASE Entries(t)
  BY <1>1, <1>3, EnterFx, SitedSame DEF Entries
<1>4. CASE Pushing(t)
  <2>1. CASE RtAccess(t) \/ RtLoad(t) \/ RtRetry(t)
    BY <1>1, <2>1, RtLookFx, SitedSame DEF Untouched
  <2>2. CASE RtPush1(t)
    BY <1>1, <2>2, RtPush1Fx, SitedSame
  <2>3. CASE RtPush2(t)
    BY <1>1, <2>3, RtPush2Fx, SitedSame
  <2>4. CASE RtAdjust(t)
    BY <1>1, <2>4, RtAdjustFx, SitedSame
  <2>5. CASE RtCount(t)
    BY <1>1, <2>5, RtCountFx, SitedSame DEF Untouched
  <2> QED
    BY <1>4, <2>1, <2>2, <2>3, <2>4, <2>5 DEF Pushing
<1>5. CASE Exits(t)
  <2>1. CASE Leave1(t) \/ LeaveTrim1(t)
    BY <1>1, <2>1, TakeListFx, SitedSame DEF Untouched
  <2>2. CASE Leave2(t) \/ LeaveTrim2(t) \/ LeaveRetry(t)
    BY <1>1, <2>2, LoadHeadFx, SitedSame DEF Untouched
  <2>3. CASE LeaveCas(t)
    BY <1>1, <2>3, LeaveCasFx, SitedSame DEF Untouched
  <2>4. CASE LeaveClear(t)
    BY <1>1, <2>4, LeaveClearFx, SitedSame DEF Untouched
  <2>5. CASE LeaveAdjust(t)
    BY <1>1, <2>5, LastAdjustFx, SitedSame
  <2> QED
    BY <1>5, <2>1, <2>2, <2>3, <2>4, <2>5 DEF Exits
<1>6. CASE Walkings(t)
  <2>1. CASE RtFin(t)
    BY <1>1, <2>1, LastAdjustFx, SitedSame
  <2>2. CASE Traverse(t)
    BY <1>1, <2>2, TraverseFx, SitedSame
  <2>3. CASE Ack(t)
    BY <1>1, <2>3, AckFx, SitedSame DEF Untouched
  <2>4. CASE Trim(t)
    BY <1>1, <2>4, TrimFx, SitedSame DEF Untouched
  <2> QED
    BY <1>6, <2>1, <2>2, <2>3, <2>4 DEF Walkings
<1> QED
  BY <1>2, <1>3, <1>4, <1>5, <1>6

\* A batch that threads have still to do with.
Live(q) == Nodes(q) # {} \/ Active(q) # {}

\* What a step leaves of the nodes: those in play, the batches in use, and what
\* the other threads collect and push.
Handled(t) ==
    /\ \A n \in InPlay : link'[n] = link[n]
    /\ \A u \in Tasks : u # t =>
          /\ Retiring(u)' = Retiring(u) /\ batch'[u] = batch[u]
          /\ pc'[u] = pc[u] /\ at'[u] = at[u]
    /\ \A q \in Objs : Live(q) => Whole(q)' = Whole(q)

\* A step that links nothing.
LEMMA StayHandled ==
  ASSUME NEW t \in Tasks, Good(t), link' = link, Retired' = Retired, Neat(t)
  PROVE  Handled(t)
<1>1. \A u \in Tasks : u # t => SameLedger(u)
  BY OtherLedgers
<1>2. \A o \in Objs : status'[o] = "retired" <=> status[o] = "retired"
  BY DEF Retired
<1>3. \A q : Whole(q)' = Whole(q)
  BY <1>2 DEF Whole
<1> QED
  BY <1>1, <1>3 DEF Handled, SameLedger, Neat

\* free takes no node of a batch in use.
LEMMA FreeHandled ==
  ASSUME Books, NEW t \in Tasks, Good(t), FreeList(t)
  PROVE  /\ Handled(t) /\ batch' = batch /\ link' = link
         /\ \A o \in Objs : status'[o] = IF o \in Members(list[t]) THEN "free" ELSE status[o]
<1>1. Sound /\ Tidy(t)
  BY DEF Books, AllTidy
<1>2. /\ link' = link /\ batch' = batch /\ Neat(t)
      /\ status' = [o \in Objs |-> IF o \in Members(list[t]) THEN "free" ELSE status[o]]
  BY <1>1, FreeFx
<1>3. \A u \in Tasks : u # t => SameLedger(u)
  BY <1>2, OtherLedgers
<1>4. ASSUME NEW q \in Objs, Live(q)
      PROVE  Whole(q)' = Whole(q)
  <2>1. q \in Lasts \ list[t]
    <3>1. CASE Nodes(q) # {}
      BY <3>1, FreesMembers DEF Nodes
    <3>2. CASE Active(q) # {}
      <4>1. PICK u \in Tasks : u \in Active(q)
        BY <3>2 DEF Active
      <4>2. q \in Ending(u)
        BY <4>1, ActiveIs DEF Books, AllTidy
      <4> QED
        BY <4>2, FreesMembers
    <3> QED
      BY <1>4, <3>1, <3>2 DEF Live
  <2>2. q \notin Members(list[t]) /\ \A o : link[o] = q => o \notin Members(list[t])
    BY <2>1, FreesMembers
  <2>3. \A o \in Objs : o = q \/ link[o] = q => status'[o] = status[o]
    BY <1>2, <2>2
  <2> QED
    BY <1>2, <2>3 DEF Whole
<1> QED
  BY <1>2, <1>3, <1>4 DEF Handled, SameLedger, Neat

\* retire collects the node that it has taken out.
LEMMA RetireGathers ==
  ASSUME Books, NEW t \in Tasks, Good(t), Sound', NEW c \in Cells, Retire(t, c)
  PROVE  \E r : /\ Gathers(t, cell[c], r) /\ cell[c] \in held[t] /\ held' = held
                /\ UNCHANGED <<vec, handle, head, next, build>>
                /\ build.robust => pc'[t] \in {"in", "rt_access"}
<1> DEFINE o == cell[c]
           chain == <<o>> \o batch[t]
           r == chain[Len(chain)]
<1>1. Sound /\ Sited /\ Walked /\ Tidy(t)
  BY BooksParts
<1>2. Calm
  BY <1>1, StillCalm
<1>3. /\ UNCHANGED <<build, next, vec, head, handle, list>>
      /\ Neat(t) /\ pc[t] = "in" /\ Sited'
      /\ o \in Objs /\ o \notin Retired /\ Retired' = Retired \union {o}
      /\ refs' = [refs EXCEPT ![o] = 0]
      /\ link' = IF Len(chain) >= SMRBatch THEN [link EXCEPT ![o] = r, ![r] = o]
                 ELSE [link EXCEPT ![o] = r]
      /\ batch'[t] = IF Len(chain) >= SMRBatch THEN <<>> ELSE chain
  BY <1>1, RetireFx
<1>4. /\ rt[t].first = NULL
      /\ IF Len(chain) >= SMRBatch
         THEN /\ pc'[t] \in {"rt_access", "rt_load"} /\ at'[t] = 0
              /\ rt'[t] = [NoRetire EXCEPT !.todo = chain, !.first = o]
         ELSE rt'[t] = rt[t] /\ pc'[t] = "in"
  BY <1>1, RetireFx
<1>5. batch[t] \in Seq(Objs)
  BY <1>1, SoundParts, Fields
<1>6. Len(chain) = Len(batch[t]) + 1
  BY <1>3, <1>5
<1>7. r = IF batch[t] = <<>> THEN o ELSE batch[t][Len(batch[t])]
  BY <1>3, <1>5, <1>6
<1>8. Full(t) <=> Len(chain) >= SMRBatch
  BY <1>6 DEF Full
<1>9. batch'[t] = IF Full(t) THEN <<>> ELSE <<o>> \o batch[t]
  BY <1>3, <1>8
<1>10. IF Full(t)
       THEN /\ pc'[t] \in {"rt_access", "rt_load"} /\ at'[t] = 0
            /\ rt'[t] = [NoRetire EXCEPT !.todo = <<o>> \o batch[t], !.first = o]
       ELSE rt'[t] = rt[t] /\ pc'[t] = "in"
  BY <1>4, <1>8
<1>11. link' = IF Full(t) THEN [link EXCEPT ![o] = r, ![r] = o] ELSE [link EXCEPT ![o] = r]
  BY <1>3, <1>8
<1>13. /\ o \in held[t] /\ held' = held /\ UNCHANGED <<vec, handle, head, next, build>>
       /\ pc[t] = "in" /\ pc' \in {pc, [pc EXCEPT ![t] = IF build.robust THEN "rt_access" ELSE "rt_load"]}
  BY DEF Retire, Goto
<1>14. build.robust => pc'[t] \in {"in", "rt_access"}
  BY <1>1, <1>13, EpochTypes
<1> HIDE DEF o, chain, r
<1>12. Gathers(t, o, r)
  BY <1>1, <1>2, <1>3, <1>4, <1>7, <1>9, <1>10, <1>11 DEF Gathers
<1> QED
  BY <1>12, <1>13, <1>14 DEF o

\* Nodes and batches that are in play, whatever is collected.
LEMMA GathersHandled ==
  ASSUME Books, NEW t \in Tasks, NEW o, NEW r, Gathers(t, o, r)
  PROVE  Handled(t)
<1>1. /\ o \in Objs /\ r \in Objs /\ o \notin Lasts /\ r \notin InPlay
      /\ batch[t] = <<>> => r = o
      /\ batch[t] # <<>> => r \in Lasts /\ link[r] = r /\ Nodes(r) = {} /\ Active(r) = {}
      /\ \A n : n # o /\ n # r => link'[n] = link[n]
      /\ link'[o] = r
      /\ r # o => link'[r] = IF Full(t) THEN o ELSE link[r]
  BY GathersNode
<1>2. \A n \in InPlay : link'[n] = link[n]
  BY GathersPlay
<1>3. \A u \in Tasks : u # t => SameLedger(u)
  BY GathersOthers
<1>4. \A u \in Tasks : u # t => batch'[u] = batch[u]
  BY DEF Gathers, Neat
<1>5. ASSUME NEW q \in Objs, Live(q)
      PROVE  Whole(q)' = Whole(q)
  <2>1. q \in Lasts
    <3>1. CASE Nodes(q) # {}
      BY <3>1, LastsIs
    <3>2. CASE Active(q) # {}
      <4>1. PICK u \in Tasks : u \in Active(q)
        BY <3>2 DEF Active
      <4>2. q \in Ending(u)
        BY <4>1, ActiveIs DEF Books, AllTidy
      <4> QED
        BY <4>2, LastsIs
    <3> QED
      BY <1>5, <3>1, <3>2 DEF Live
  <2>2. q # o /\ q # r
    BY <1>1, <1>5, <2>1 DEF Live
  <2>3. \A x \in Objs : x # o => (status'[x] = "retired" <=> status[x] = "retired")
    BY DEF Gathers, Retired
  <2>4. status[o] # "retired"
    BY <1>1 DEF Gathers, Retired
  <2>5. \A x \in Objs : link'[x] = q /\ x # o <=> link[x] = q /\ x # o
    BY <1>1, <2>2
  <2>6. link'[o] # q
    BY <1>1, <2>2
  <2> QED
    BY <2>2, <2>3, <2>4, <2>5, <2>6 DEF Whole
<1> QED
  BY <1>2, <1>3, <1>4, <1>5 DEF Handled, SameLedger

\* What a thread collects are retired nodes of its growing batch, ...
LEMMA GatheredFacts ==
  ASSUME Books, NEW u \in Tasks
  PROVE  /\ Gathered(u) \subseteq Objs
         /\ \A x \in Gathered(u) : status[x] = "retired" /\ {link[x]} = Growing(u)
         /\ Gathered(u) = {} <=> batch[u] = <<>>
         /\ \A r \in Growing(u) : r \in Gathered(u)
<1>1. Sound /\ Grows(u)
  BY DEF Books, Struct, AllGrows
<1>2. batch[u] \in Seq(Objs)
  BY <1>1, SoundParts, Fields
<1>3. \A i \in DOMAIN batch[u] : batch[u][i] \in Objs
  BY <1>2
<1>4. batch[u] # <<>> => Len(batch[u]) \in DOMAIN batch[u]
  BY <1>2
<1>5. batch[u] = <<>> => DOMAIN batch[u] = {}
  BY <1>2
<1>6. Gathered(u) \subseteq Objs
  BY <1>3 DEF Gathered
<1>7. \A x \in Gathered(u) : status[x] = "retired" /\ {link[x]} = Growing(u)
  BY <1>1 DEF Gathered, Grows
<1>8. Gathered(u) = {} <=> batch[u] = <<>>
  BY <1>4, <1>5 DEF Gathered
<1>9. \A r \in Growing(u) : r \in Gathered(u)
  BY <1>4 DEF Gathered, Growing
<1> QED
  BY <1>6, <1>7, <1>8, <1>9

\* ... and all of those.
LEMMA GatheredAll ==
  ASSUME Books, NEW u \in Tasks, NEW r \in Growing(u), NEW x \in Whole(r)
  PROVE  x \in Gathered(u)
<1>1. r \in Gathered(u) /\ r \in Lasts
  BY GatheredFacts, LastsIs
<1>2. x \in Objs /\ status[x] = "retired" /\ (x = r \/ link[x] = r)
  BY DEF Whole
<1>3. \A v \in Tasks : v # u => r \notin Growing(v)
  BY DEF Books, Struct, AllGrows, Grows
<1>4. CASE x # r
  <2>1. CASE \E v \in Tasks : \E i \in DOMAIN batch[v] : batch[v][i] = x
    <3>1. PICK v \in Tasks : x \in Gathered(v)
      BY <2>1 DEF Gathered
    <3>2. r \in Growing(v)
      BY <1>2, <1>4, <3>1, GatheredFacts
    <3> QED
      BY <1>3, <3>1, <3>2
  <2>2. CASE \E q \in Lasts : (q = x \/ link[x] = q) /\ \A v \in Tasks : q \notin Growing(v)
    <3>1. x \in Lasts
      BY <1>2, <1>4, <2>2
    <3>2. link[x] = x
      BY <1>1, <1>2, <1>4, <3>1 DEF Books, Struct, BatchesApart
    <3> QED
      BY <1>2, <1>4, <3>2
  <2> QED
    BY <1>2, <2>1, <2>2 DEF Books, Struct, Known
<1> QED
  BY <1>1, <1>4

-----------------------------------------------------------------------------
(***************************************************************************)
(* What it leaves of the lists.                                            *)
(***************************************************************************)

\* What a full batch has after its last node, and one that is not full yet.
LEMMA GathersWhole ==
  ASSUME Books, NEW t \in Tasks, NEW o, NEW r, Gathers(t, o, r)
  PROVE  /\ Retiring(t) = NULL
         /\ Full(t) => /\ Retiring(t)' = r /\ r \in Objs /\ Gathered(t)' = {} /\ batch'[t] = <<>>
                       /\ Whole(r)' = Gathered(t) \union {o}
                       /\ pc'[t] \in {"rt_access", "rt_load"} /\ at'[t] = 0
         /\ ~Full(t) => /\ Retiring(t)' = NULL
                        /\ Gathered(t)' = Gathered(t) \union {o} /\ pc'[t] = "in"
<1>1. /\ o \in Objs /\ r \in Objs /\ o \notin Lasts
      /\ batch[t] \in Seq(Objs)
      /\ batch[t] = <<>> => r = o /\ ~Full(t)
      /\ batch[t] # <<>> => /\ Growing(t) = {r} /\ link[r] = r /\ r # o
      /\ \A n : n # o /\ n # r => link'[n] = link[n]
      /\ link'[o] = r
  BY GathersNode
<1>2. Retiring(t) = NULL
  BY DEF Gathers, Retiring
<1>3. ASSUME Full(t)
      PROVE  /\ Retiring(t)' = r /\ Gathered(t)' = {} /\ batch'[t] = <<>>
             /\ Whole(r)' = Gathered(t) \union {o}
             /\ pc'[t] \in {"rt_access", "rt_load"} /\ at'[t] = 0
  <2>1. Retiring(t)' = r
    BY <1>3, GathersLedger
  <2>2. /\ batch'[t] = <<>>
        /\ pc'[t] \in {"rt_access", "rt_load"} /\ at'[t] = 0
    BY <1>3 DEF Gathers
  <2>3. Gathered(t)' = {}
    BY <2>2 DEF Gathered
  <2>4. Growing(t) = {r} /\ link[r] = r /\ r # o
    BY <1>1, <1>3
  <2>5. \A x \in Objs : status'[x] = "retired" <=> status[x] = "retired" \/ x = o
    BY DEF Gathers, Retired
  <2>6. ASSUME NEW x, x \in Whole(r)', x # o
        PROVE  x \in Gathered(t)
    <3>1. x \in Objs /\ status[x] = "retired" /\ (x = r \/ link[x] = r)
      BY <1>1, <2>5, <2>6 DEF Whole
    <3>2. x \in Whole(r)
      BY <3>1 DEF Whole
    <3> QED
      BY <2>4, <3>2, GatheredAll
  <2>7. ASSUME NEW x, x \in Gathered(t)
        PROVE  x \in Whole(r)'
    <3>1. x \in Objs /\ status[x] = "retired" /\ link[x] = r
      BY <2>4, <2>7, GatheredFacts
    <3>2. x # o
      BY <3>1 DEF Gathers, Retired
    <3>3. x = r \/ link'[x] = r
      BY <1>1, <3>1, <3>2
    <3> QED
      BY <2>5, <3>1, <3>3 DEF Whole
  <2>8. o \in Whole(r)'
    BY <1>1, <2>5 DEF Whole
  <2>9. Whole(r)' = Gathered(t) \union {o}
    BY <2>6, <2>7, <2>8
  <2> QED
    BY <2>1, <2>2, <2>3, <2>9
<1>4. ASSUME ~Full(t)
      PROVE  /\ Retiring(t)' = NULL
             /\ Gathered(t)' = Gathered(t) \union {o} /\ pc'[t] = "in"
  <2>1. /\ batch'[t] = <<o>> \o batch[t] /\ rt'[t] = rt[t] /\ pc'[t] = "in"
        /\ rt[t].first = NULL
    BY <1>4 DEF Gathers
  <2>2. Retiring(t)' = NULL
    BY <2>1 DEF Retiring
  <2> DEFINE b == batch[t]
             d == <<o>> \o b
  <2>3. b \in Seq(Objs) /\ o \in Objs
    BY <1>1
  <2> HIDE DEF b
  <2>4. /\ Len(d) = Len(b) + 1 /\ d[1] = o
        /\ \A i \in 1 .. Len(b) : d[i + 1] = b[i]
        /\ DOMAIN d = 1 .. Len(d) /\ DOMAIN b = 1 .. Len(b) /\ Len(b) \in Nat
    BY <2>3
  <2> HIDE DEF d
  <2>5. \A i \in DOMAIN d : i = 1 \/ (i - 1 \in DOMAIN b /\ d[i] = b[i - 1])
    <3> TAKE i \in DOMAIN d
    <3>1. CASE i # 1
      BY <2>4, <3>1
    <3> QED
      BY <3>1
  <2>6. \A i \in DOMAIN b : i + 1 \in DOMAIN d /\ d[i + 1] = b[i]
    BY <2>4
  <2>7. {d[i] : i \in DOMAIN d} = {b[i] : i \in DOMAIN b} \union {o}
    <3>1. 1 \in DOMAIN d
      BY <2>4
    <3> QED
      BY <2>4, <2>5, <2>6, <3>1
  <2>8. Gathered(t)' = {d[i] : i \in DOMAIN d}
    BY <2>1 DEF Gathered, b, d
  <2>9. Gathered(t) = {b[i] : i \in DOMAIN b}
    BY DEF Gathered, b
  <2> QED
    BY <2>1, <2>2, <2>7, <2>8, <2>9
<1> QED
  BY <1>1, <1>2, <1>3, <1>4

\* What a thread sees of its list when nothing is pushed: it comes in and starts
\* at the head, or is inside and keeps its head.
Viewed(u) ==
    Inside(u)' =>
        \/ /\ Inside(u) /\ vec'[u] = vec[u] /\ head'[vec[u]].ptr = head[vec[u]].ptr
           /\ handle'[u] \in {handle[u], head[vec[u]].ptr}
        \/ ~Inside(u) /\ handle'[u] = head'[vec'[u]].ptr
Views ==
    /\ next' = next /\ \A u \in Tasks : Viewed(u)
    /\ \A s \in Slots : head'[s].ptr \in {head[s].ptr, NULL}

\* The others are inside as before.
LEMMA OthersViewed ==
  ASSUME NEW t \in Tasks, Good(t), next' = next, Viewed(t),
         \A u \in Tasks : u # t /\ Inside(u) => head'[vec[u]].ptr = head[vec[u]].ptr,
         \A s \in Slots : head'[s].ptr \in {head[s].ptr, NULL}
  PROVE  Views
<1>1. ASSUME NEW u \in Tasks, u # t
      PROVE  Viewed(u)
  <2>1. pc'[u] = pc[u] /\ wk'[u] = wk[u] /\ vec'[u] = vec[u] /\ handle'[u] = handle[u]
    BY <1>1 DEF Good, Kept
  <2>2. Inside(u)' <=> Inside(u)
    BY <2>1 DEF Inside
  <2> QED
    BY <1>1, <2>1, <2>2 DEF Viewed
<1> QED
  BY <1>1 DEF Views

\* The steps that push nothing.
LEMMA KindsView ==
  ASSUME Books, NEW t \in Tasks, Good(t), Sound',
         \/ Lookups(t) \/ Entries(t) \/ Exits(t) \/ Walkings(t) \/ FreeList(t)
         \/ RtAccess(t) \/ RtLoad(t) \/ RtRetry(t) \/ RtAdjust(t) \/ RtCount(t)
         \/ \E c \in Cells : Retire(t, c)
  PROVE  Views
<1>1. Sound /\ Sited /\ Tidy(t)
  BY DEF Books, AllTidy
<1>2. CASE Lookups(t)
  <2>1. /\ UNCHANGED <<next, vec, head, handle>>
        /\ \/ pc[t] \in Reads /\ pc'[t] \in Reads
           \/ pc[t] \in Rests /\ pc'[t] \in Rests
    BY <1>1, <1>2, IdleFx DEF Lookups
  <2>2. Inside(t)' <=> Inside(t)
    BY <2>1 DEF Inside, Reads, Rests
  <2> QED
    BY <2>1, <2>2, OthersViewed DEF Viewed
<1>3. CASE Entries(t)
  <2>1. /\ next' = next /\ pc[t] \in Rests
        /\ vec'[t] \in Slots
        /\ build.words = 1 => vec'[t] = vec[t] /\ head'[vec'[t]].ptr = NULL
        /\ build.words = 2 => head'[vec'[t]].ptr = head[vec'[t]].ptr
        /\ \A s \in Slots : s # vec'[t] => head'[s] = head[s]
        /\ handle'[t] = head'[vec'[t]].ptr
    BY <1>1, <1>3, EnterFx DEF Entries
  <2>2. ~Inside(t)
    BY <2>1 DEF Inside, Rests
  <2>3. build.words \in {1, 2}
    BY BooksParts
  <2>4. \A s \in Slots : head'[s].ptr \in {head[s].ptr, NULL}
    BY <2>1, <2>3
  <2>5. ASSUME NEW u \in Tasks, u # t
        PROVE  head'[vec[u]].ptr = head[vec[u]].ptr
    <3>1. vec[u] \in Slots
      BY <1>1, EpochTypes
    <3>2. build.words = 1 => vec[u] # vec[t]
      BY <1>1, <2>5, Alone
    <3> QED
      BY <2>1, <2>3, <3>1, <3>2
  <2> QED
    BY <2>1, <2>2, <2>4, <2>5, OthersViewed DEF Viewed
<1>4. CASE Exits(t)
  <2>1. CASE Leave1(t) \/ LeaveTrim1(t)
    <3>1. /\ next' = next /\ build.words = 1 /\ ~Inside(t)'
          /\ head' = [head EXCEPT ![vec[t]] = [ref |-> 0, ptr |-> NULL]]
      BY <1>1, <2>1, TakeListFx DEF Untouched
    <3>2. \A u \in Tasks : u # t => vec[u] # vec[t] /\ vec[u] \in Slots
      BY <1>1, <3>1, Alone, EpochTypes
    <3>3. head \in [Slots -> [ref : 0 .. TaskNum, ptr : Ptrs]]
      BY <1>1, SoundParts DEF SharedTypeOK
    <3>4. \A s \in Slots : head'[s].ptr = IF s = vec[t] THEN NULL ELSE head[s].ptr
      BY <3>1, <3>3
    <3> QED
      BY <3>1, <3>2, <3>4, OthersViewed DEF Viewed
  <2>2. CASE Leave2(t) \/ LeaveTrim2(t) \/ LeaveRetry(t)
    <3>1. UNCHANGED <<next, vec, head, handle>> /\ pc[t] \in {"in", "leave", "lv_cas"}
      BY <1>1, <2>2, LoadHeadFx DEF Untouched
    <3>2. Inside(t)
      BY <3>1 DEF Inside
    <3> QED
      BY <3>1, <3>2, OthersViewed DEF Viewed
  <2>3. CASE LeaveCas(t)
    <3> DEFINE p == IF head[vec[t]].ref = 1 /\ build.full THEN NULL ELSE wk[t].curr
    <3>1. /\ next' = next /\ ~Inside(t)' /\ pc[t] = "lv_cas" /\ head[vec[t]].ptr = wk[t].curr
          /\ head' = [head EXCEPT ![vec[t]] = [ref |-> head[vec[t]].ref - 1, ptr |-> p]]
      BY <1>1, <2>3, LeaveCasFx DEF Untouched
    <3>2. Inside(t)
      BY <3>1 DEF Inside
    <3>3. \A u \in Tasks : u # t /\ Inside(u) /\ vec[u] = vec[t] => head[vec[t]].ref # 1
      BY <1>1, <3>2, Alone
    <3>4. head \in [Slots -> [ref : 0 .. TaskNum, ptr : Ptrs]] /\ vec \in [Tasks -> Slots]
      BY <1>1, SoundParts, EpochTypes DEF SharedTypeOK
    <3>5. \A s \in Slots : head'[s].ptr = IF s = vec[t] THEN p ELSE head[s].ptr
      <4> HIDE DEF p
      <4> QED
        BY <3>1, <3>4
    <3>6. \A u \in Tasks : u # t /\ Inside(u) => head'[vec[u]].ptr = head[vec[u]].ptr
      BY <3>1, <3>3, <3>4, <3>5
    <3>7. \A s \in Slots : head'[s].ptr \in {head[s].ptr, NULL}
      BY <3>1, <3>5
    <3> QED
      BY <3>1, <3>6, <3>7, OthersViewed DEF Viewed
  <2>4. CASE LeaveClear(t)
    <3>1. /\ next' = next /\ ~Inside(t)'
          /\ \/ head[vec[t]].ref = 0 /\ head' = [head EXCEPT ![vec[t]].ptr = NULL]
             \/ head' = head
      BY <1>1, <2>4, LeaveClearFx DEF Untouched
    <3>2. head \in [Slots -> [ref : 0 .. TaskNum, ptr : Ptrs]] /\ vec \in [Tasks -> Slots]
      BY <1>1, SoundParts, EpochTypes DEF SharedTypeOK
    <3>3. CASE head[vec[t]].ref = 0 /\ head' = [head EXCEPT ![vec[t]].ptr = NULL]
      <4>1. \A u \in Tasks : Inside(u) => vec[u] # vec[t]
        BY <1>1, <3>3, HeadFacts
      <4>2. \A s \in Slots : head'[s].ptr = IF s = vec[t] THEN NULL ELSE head[s].ptr
        BY <3>2, <3>3
      <4> QED
        BY <3>1, <3>2, <4>1, <4>2, OthersViewed DEF Viewed
    <3>4. CASE head' = head
      BY <3>1, <3>4, OthersViewed DEF Viewed
    <3> QED
      BY <3>1, <3>3, <3>4
  <2>5. CASE LeaveAdjust(t)
    BY <1>1, <2>5, LastAdjustFx, OthersViewed DEF Viewed
  <2> QED
    BY <1>4, <2>1, <2>2, <2>3, <2>4, <2>5 DEF Exits
<1>5. CASE Walkings(t) \/ FreeList(t)
  <2>1. CASE Trim(t)
    <3>1. /\ UNCHANGED <<next, vec, head>> /\ pc[t] = "in"
          /\ handle' = [handle EXCEPT ![t] = head[vec[t]].ptr]
      BY <1>1, <2>1, TrimFx DEF Untouched
    <3>2. Inside(t) /\ handle \in [Tasks -> Ptrs]
      BY <1>1, <3>1, SoundParts DEF Inside, OwnTypeOK
    <3> QED
      BY <3>1, <3>2, OthersViewed DEF Viewed
  <2>2. CASE RtFin(t) \/ Traverse(t) \/ Ack(t) \/ FreeList(t)
    BY <1>1, <2>2, LastAdjustFx, TraverseFx, AckFx, FreeFx, OthersViewed DEF Untouched, Viewed
  <2> QED
    BY <1>5, <2>1, <2>2 DEF Walkings
<1>6. CASE RtAccess(t) \/ RtLoad(t) \/ RtRetry(t) \/ RtAdjust(t) \/ RtCount(t)
  <2>1. /\ UNCHANGED <<next, vec, head, handle>>
        /\ pc[t] \in {"rt_access", "rt_load", "rt_cas", "rt_adj", "rt_count"}
    BY <1>1, <1>6, RtLookFx, RtAdjustFx, RtCountFx DEF Untouched
  <2>2. Inside(t)
    BY <2>1 DEF Inside
  <2> QED
    BY <2>1, <2>2, OthersViewed DEF Viewed
<1>7. CASE \E c \in Cells : Retire(t, c)
  <2>1. UNCHANGED <<next, vec, head, handle>> /\ pc[t] = "in"
    BY <1>1, <1>7, RetireFx
  <2>2. Inside(t)
    BY <2>1 DEF Inside
  <2> QED
    BY <2>1, <2>2, OthersViewed DEF Viewed
<1> QED
  BY <1>2, <1>3, <1>4, <1>5, <1>6, <1>7

\* The nodes of a thread's list are in play.
LEMMA LineInPlay ==
  ASSUME Books, NEW u \in Tasks
  PROVE  /\ Line(u) \subseteq InPlay /\ InPlay \subseteq Objs
         /\ \A s \in Slots : head[s].ptr # NULL => head[s].ptr \in InPlay
         /\ \A n \in Line(u) : Inside(u) /\ n # NULL /\ Live(link[n]) /\ link[n] \in Objs
<1>1. Sound /\ IsFiniteSet(Objs)
  BY BooksParts
<1>2. InPlay \subseteq Objs
  BY <1>1, InPlayType
<1>3. \A s \in Slots : head[s].ptr # NULL => head[s].ptr \in InPlay
  BY DEF InPlay, Tops
<1>4. vec[u] \in Slots /\ ToDrop(u) \subseteq Line(u) /\ Line(u) \subseteq Objs
  BY <1>1, LineFacts
<1>5. ASSUME NEW n \in Line(u)
      PROVE  n \in InPlay
  <2>1. n # NULL
    BY <1>4, <1>5
  <2>2. CASE n \in ToDrop(u)
    BY <2>2 DEF Owed, AllOwed, InPlay
  <2>3. CASE n \notin ToDrop(u)
    BY <1>3, <1>4, <1>5, <2>1, <2>3 DEF ToDrop
  <2> QED
    BY <2>2, <2>3
<1>6. link \in [Objs -> Objs]
  BY <1>1, SoundParts DEF SharedTypeOK
<1>7. ASSUME NEW n \in Line(u)
      PROVE  Inside(u) /\ n # NULL /\ Live(link[n]) /\ link[n] \in Objs
  BY <1>2, <1>5, <1>6, <1>7 DEF Live, Nodes, Line
<1> QED
  BY <1>2, <1>3, <1>5, <1>7

\* What a step makes of the lists: a thread that stays inside loses no node of
\* its list, and what comes into it is at the head.
Follows ==
    \A u \in Tasks :
        /\ Inside(u) /\ Inside(u)' /\ vec'[u] = vec[u] /\ handle'[u] = handle[u]
              => Line(u) \subseteq Line(u)'
        /\ \A n \in Line(u)' : \/ vec'[u] = vec[u] /\ n \in Line(u)
                               \/ n = head'[vec'[u]].ptr /\ n # NULL

\* Of steps that push nothing.
LEMMA ViewsFollow ==
  ASSUME Books, NEW t \in Tasks, Good(t), Views
  PROVE  Follows
<1>1. IsFiniteSet(Objs) /\ next' = next /\ Sound
  BY BooksParts DEF Views
<1> SUFFICES ASSUME NEW u \in Tasks
             PROVE  /\ Inside(u) /\ Inside(u)' /\ vec'[u] = vec[u] /\ handle'[u] = handle[u]
                          => Line(u) \subseteq Line(u)'
                    /\ \A n \in Line(u)' : \/ vec'[u] = vec[u] /\ n \in Line(u)
                                           \/ n = head'[vec'[u]].ptr /\ n # NULL
  BY DEF Follows
<1>2. next \in [Objs -> Ptrs] /\ head[vec[u]].ptr \in Ptrs /\ vec[u] \in Slots
  BY <1>1, LineFacts
<1>3. Line(u)' = IF Inside(u)' THEN Trail(next, head'[vec'[u]].ptr, handle'[u]) ELSE {}
  BY <1>1 DEF Line, Chain
<1>4. Line(u) = IF Inside(u) THEN Trail(next, head[vec[u]].ptr, handle[u]) ELSE {}
  BY DEF Line, Chain
<1>5. Viewed(u)
  BY DEF Views
<1>6. CASE ~Inside(u)'
  BY <1>3, <1>6
<1>7. CASE /\ Inside(u)' /\ Inside(u) /\ vec'[u] = vec[u]
           /\ head'[vec[u]].ptr = head[vec[u]].ptr /\ handle'[u] = handle[u]
  BY <1>3, <1>4, <1>7
<1>8. \A h : Trail(next, h, h) \subseteq {h} \ {NULL} \/ h \notin Ptrs
  <2> TAKE h
  <2>1. CASE h = NULL
    BY <1>1, <1>2, <2>1, TrailNull
  <2>2. CASE h \in Objs
    BY <1>1, <1>2, <2>2, TrailSplit
  <2> QED
    BY <2>1, <2>2 DEF Ptrs
<1>9. CASE /\ Inside(u)' /\ Inside(u) /\ vec'[u] = vec[u] /\ handle'[u] # handle[u]
           /\ head'[vec[u]].ptr = head[vec[u]].ptr /\ handle'[u] = head[vec[u]].ptr
  BY <1>2, <1>3, <1>8, <1>9
<1>10. CASE Inside(u)' /\ ~Inside(u) /\ handle'[u] = head'[vec'[u]].ptr
  <2>1. /\ vec' \in [Tasks -> Slots'] /\ Slots' = Slots
        /\ head' \in [Slots' -> [ref : 0 .. TaskNum, ptr : Ptrs]]
    BY SameBuild DEF Good, SharedTypeOK, OwnTypeOK
  <2>2. head'[vec'[u]].ptr \in Ptrs
    BY <2>1
  <2> QED
    BY <1>3, <1>8, <1>10, <2>2
<1> QED
  BY <1>5, <1>6, <1>7, <1>9, <1>10 DEF Viewed
\* retire pushes the first of its nodes.
LEMMA PushLays ==
  ASSUME Books, CounterNodeSpared, NEW t \in Tasks, Good(t), Sound', RtPush1(t) \/ RtPush2(t)
  PROVE  Lays(t, at[t], Head(rt[t].todo))
<1>1. Sound /\ Tidy(t)
  BY DEF Books, AllTidy
<1>2. /\ pc[t] = "rt_cas" /\ rt[t].todo # <<>> /\ head[at[t]].ref # 0
      /\ next' = [next EXCEPT ![Head(rt[t].todo)] = rt[t].prev] /\ head[at[t]].ptr = rt[t].prev
      /\ head' = [head EXCEPT ![at[t]].ptr = Head(rt[t].todo)]
      /\ UNCHANGED <<clientVars, link, vec, handle, list, refs, batch>>
      /\ wk'[t].segs = <<>> /\ Neat(t) /\ pc'[t] # "lv_cas" /\ Inside(t)'
  <2>1. CASE RtPush1(t)
    BY <1>1, <2>1, RtPush1Fx DEF Onward
  <2>2. CASE RtPush2(t)
    BY <1>1, <2>2, RtPush2Fx DEF Inside
  <2> QED
    BY <2>1, <2>2
<1>3. Len(rt[t].todo) > 1
  BY <1>2 DEF CounterNodeSpared
<1>4. Retired' = Retired
  BY <1>2 DEF Retired, clientVars
<1>5. Stays(t)
  BY <1>1, <1>2, <1>4 DEF Stays, Books
<1> QED
  BY <1>2, <1>3, <1>5 DEF Lays

\* Who is in the slot has the node in his list.
LEMMA LaysFollow ==
  ASSUME Books, NEW t \in Tasks, NEW s, NEW n, Lays(t, s, n)
  PROVE  /\ Follows /\ s \in Slots /\ n \in Objs /\ link[n] = Retiring(t)
         /\ Retiring(t) \in Objs /\ t \in Active(Retiring(t))
         /\ \A u \in Tasks : Inside(u) /\ vec[u] = s => n \in Line(u)'
         /\ \A z \in Slots : head'[z].ptr = IF z = s THEN n ELSE head[z].ptr
<1>1. /\ s \in Slots /\ n \in Objs /\ n \notin InPlay /\ link[n] = Retiring(t)
      /\ Retiring(t) \in Objs /\ t \in Active(Retiring(t))
  BY LaysNode
<1>2. /\ Sound /\ Sound' /\ IsFiniteSet(Objs) /\ Walked /\ Good(t)
      /\ next' = [next EXCEPT ![n] = head[s].ptr] /\ head' = [head EXCEPT ![s].ptr = n]
      /\ vec' = vec /\ handle' = handle /\ pc[t] = "rt_cas" /\ Inside(t)'
  BY BooksParts DEF Lays, Stays
<1>3. head \in [Slots -> [ref : 0 .. TaskNum, ptr : Ptrs]]
  BY <1>2, SoundParts DEF SharedTypeOK
<1>4. \A z \in Slots : head'[z].ptr = IF z = s THEN n ELSE head[z].ptr
  BY <1>1, <1>2, <1>3
<1>5. \A u \in Tasks : (Inside(u)' <=> Inside(u)) /\ n \notin Line(u)
  <2> TAKE u \in Tasks
  <2>1. CASE u = t
    BY <1>1, <1>2, <2>1, LineInPlay DEF Inside
  <2>2. CASE u # t
    BY <1>1, <1>2, <2>2, LineInPlay DEF Good, Kept, Inside
  <2> QED
    BY <2>1, <2>2
<1>6. ASSUME NEW u \in Tasks
      PROVE  /\ Inside(u) /\ vec[u] = s =>
                   /\ Line(u)' = Line(u) \union {n}
                   /\ head'[vec'[u]].ptr = n
             /\ ~(Inside(u) /\ vec[u] = s) =>
                   /\ Line(u)' = Line(u)
                   /\ Inside(u) => head'[vec'[u]].ptr = head[vec[u]].ptr
             /\ Inside(u)' => /\ Straight(next', head'[vec'[u]].ptr, handle'[u])
                              /\ handle'[u] \in Line(u)' \union {NULL}
  <2>1. (Inside(u)' <=> Inside(u)) /\ n \notin Line(u)
    BY <1>5
  <2>2. n \in Objs /\ s \in Slots
    BY <1>1
  <2>3. /\ IsFiniteSet(Objs) /\ Sound /\ Sound' /\ Walked
        /\ next' = [next EXCEPT ![n] = head[s].ptr] /\ head' = [head EXCEPT ![s].ptr = n]
        /\ vec' = vec /\ handle' = handle
    BY <1>2
  <2> QED
    BY <2>1, <2>2, <2>3, PushLine
<1>7. n # NULL
  BY <1>1
<1>8. Follows
  BY <1>2, <1>6, <1>7 DEF Follows
<1> QED
  BY <1>1, <1>4, <1>6, <1>8

-----------------------------------------------------------------------------
(***************************************************************************)
(* A block that a thread may look at stays one.                            *)
(***************************************************************************)

\* A call of retire that has slot s before it pushes its node there, comes
\* nearer, or passes the slot by for a reason.
LEMMA Advances ==
  ASSUME Books, NEW t \in Tasks, Good(t), Pushing(t), NEW s \in Slots, Ahead(t, s)
  PROVE  \/ /\ rt'[t].first = rt[t].first
            /\ \/ pc'[t] \in {"rt_access", "rt_load", "rt_cas"} /\ at'[t] <= s
               \/ pc'[t] \in {"rt_adj", "rt_count"} /\ at'[t] < s
         \/ at[t] = s /\ (RtPush1(t) \/ RtPush2(t))
         \/ at[t] = s /\ head[s].ref = 0
         \/ at[t] = s /\ pc[t] = "rt_access" /\ ~EpochGeq(access[s], minEpoch[t])
<1>1. Sound /\ Tidy(t)
  BY DEF Books, AllTidy
<1>2. /\ at[t] \in Slots /\ rt \in [Tasks -> Batches] /\ pc \in [Tasks -> PC]
      /\ rt[t] \in Batches /\ NumSlots \in Nat /\ at \in [Tasks -> Slots]
  BY <1>1, SoundParts, Fields, SlotFacts DEF LocalTypeOK
<1>3. CASE RtAccess(t) \/ RtLoad(t) \/ RtRetry(t)
  <2>1. pc[t] \in {"rt_access", "rt_load", "rt_cas"} /\ at[t] <= s
    BY <1>1, <1>3, RtLookFx DEF Ahead
  <2>2. CASE at[t] = s
    <3>1. CASE RtAccess(t)
      <4>1. CASE EpochGeq(access[at[t]], minEpoch[t])
        <5>1. pc' = [pc EXCEPT ![t] = "rt_load"] /\ rt' = rt /\ at' = at
          BY <3>1, <4>1 DEF RtAccess, Goto
        <5>2. pc'[t] = "rt_load"
          BY <1>2, <5>1
        <5> QED
          BY <2>1, <5>1, <5>2
      <4>2. CASE ~EpochGeq(access[at[t]], minEpoch[t])
        BY <2>2, <3>1, <4>2 DEF RtAccess
      <4> QED
        BY <4>1, <4>2
    <3>2. CASE RtLoad(t) /\ head[s].ref # 0
      <4>1. /\ pc' = [pc EXCEPT ![t] = "rt_cas"] /\ at' = at
            /\ rt' = [rt EXCEPT ![t].prev = head[at[t]].ptr]
        BY <2>2, <3>2 DEF RtLoad, Goto
      <4>2. rt'[t] = [rt[t] EXCEPT !.prev = head[at[t]].ptr] /\ pc'[t] = "rt_cas"
        BY <1>2, <4>1
      <4>3. rt'[t].first = rt[t].first
        BY <1>2, <4>2 DEF Batches
      <4> QED
        BY <2>1, <4>1, <4>2, <4>3
    <3>3. CASE RtRetry(t) /\ head[s].ref # 0
      <4>1. /\ pc' = pc /\ at' = at
            /\ rt' = [rt EXCEPT ![t].prev = head[at[t]].ptr]
        BY <2>2, <3>3 DEF RtRetry
      <4>2. rt'[t] = [rt[t] EXCEPT !.prev = head[at[t]].ptr]
        BY <1>2, <4>1
      <4>3. rt'[t].first = rt[t].first
        BY <1>2, <4>2 DEF Batches
      <4> QED
        BY <2>1, <4>1, <4>3
    <3> QED
      BY <1>3, <2>2, <3>1, <3>2, <3>3
  <2>3. CASE at[t] # s
    <3>1. at[t] + 1 <= s /\ at[t] + 1 < NumSlots /\ at[t] + 1 # NumSlots /\ at[t] <= s
      BY <1>2, <2>1, <2>3 DEF Slots
    <3>2. \/ /\ pc'[t] \in {"rt_load", "rt_cas"} /\ at'[t] = at[t]
             /\ \E p \in Ptrs : rt'[t] = [rt[t] EXCEPT !.prev = p]
          \/ Onward(t, IF build.words = 1 THEN rt[t] ELSE Skipped(t))
      BY <1>1, <1>3, RtLookFx
    <3>3. Skipped(t).first = rt[t].first
      BY <1>2 DEF Skipped, Batches
    <3>4. CASE /\ pc'[t] \in {"rt_load", "rt_cas"} /\ at'[t] = at[t]
               /\ \E p \in Ptrs : rt'[t] = [rt[t] EXCEPT !.prev = p]
      <4>1. PICK p \in Ptrs : rt'[t] = [rt[t] EXCEPT !.prev = p]
        BY <3>4
      <4>2. rt'[t].first = rt[t].first
        BY <1>2, <4>1 DEF Batches
      <4> QED
        BY <3>1, <3>4, <4>2
    <3>5. CASE Onward(t, IF build.words = 1 THEN rt[t] ELSE Skipped(t))
      BY <3>1, <3>3, <3>5 DEF Onward
    <3> QED
      BY <3>1, <3>2, <3>4, <3>5
  <2> QED
    BY <2>2, <2>3
<1>4. CASE RtPush1(t)
  <2>1. pc[t] = "rt_cas" /\ at[t] <= s
    BY <1>1, <1>4, RtPush1Fx DEF Ahead
  <2>2. CASE at[t] # s
    <3>1. at[t] + 1 <= s /\ at[t] + 1 < NumSlots /\ at[t] + 1 # NumSlots
      BY <1>2, <2>1, <2>2 DEF Slots
    <3> DEFINE r == [rt[t] EXCEPT !.todo = Tail(@), !.prev = NULL,
                                  !.adjs = (@ + 1) % CounterMod]
    <3>2. r.first = rt[t].first
      BY <1>2 DEF Batches
    <3>3. Onward(t, r)
      BY <1>1, <1>4, RtPush1Fx
    <3> HIDE DEF r
    <3> QED
      BY <3>1, <3>2, <3>3 DEF Onward
  <2> QED
    BY <1>4, <2>2
<1>5. CASE RtPush2(t)
  <2>1. /\ pc[t] = "rt_cas" /\ at[t] <= s /\ at'[t] = at[t] /\ pc'[t] \in {"rt_adj", "rt_count"}
        /\ rt'[t].first = rt[t].first
    BY <1>1, <1>5, RtPush2Fx DEF Ahead
  <2>2. CASE at[t] # s
    BY <1>2, <2>1, <2>2 DEF Slots
  <2> QED
    BY <1>5, <2>2
<1>6. CASE RtAdjust(t)
  BY <1>1, <1>6, RtAdjustFx DEF Ahead
<1>7. CASE RtCount(t)
  <2>1. pc[t] = "rt_count" /\ at[t] < s
    BY <1>1, <1>7, RtCountFx DEF Ahead
  <2>2. at[t] + 1 <= s /\ at[t] + 1 < NumSlots /\ at[t] + 1 # NumSlots
    BY <1>2, <2>1 DEF Slots
  <2> DEFINE r == [rt[t] EXCEPT !.todo = Tail(@), !.refs = 0]
  <2>3. r.first = rt[t].first
    BY <1>2 DEF Batches
  <2>4. Onward(t, r)
    BY <1>1, <1>7, RtCountFx
  <2> HIDE DEF r
  <2> QED
    BY <2>2, <2>3, <2>4 DEF Onward
<1> QED
  BY <1>3, <1>4, <1>5, <1>6, <1>7 DEF Pushing
\* Block o is one that thread t may look at, but for its age.
Claimed(t, o) ==
    \/ status[o] = "linked"
    \/ \E u \in Tasks : o \in Gathered(u)
    \/ \E r \in Objs : o \in Whole(r) /\ Hooked(t, r)

\* A claim stays, but for what the thread does that takes the step.
LEMMA ClaimStays ==
  ASSUME Books, NEW t \in Tasks, Good(t), Handled(t), Follows, NEW u \in Tasks, NEW o \in Objs,
         Claimed(u, o), Inside(u), Inside(u)', vec'[u] = vec[u], handle'[u] = handle[u],
         status[o] = "linked" => Claimed(u, o)',
         o \in Gathered(t) => Claimed(u, o)',
         \A r \in Objs : o \in Whole(r) /\ Retiring(t) = r /\ Ahead(t, vec[u]) => Claimed(u, o)'
  PROVE  Claimed(u, o)'
<1>1. CASE status[o] = "linked"
  BY <1>1
<1>2. ASSUME NEW v \in Tasks, o \in Gathered(v)
      PROVE  Claimed(u, o)'
  <2>1. CASE v = t
    BY <1>2, <2>1
  <2>2. CASE v # t
    BY <1>2, <2>2 DEF Handled, Gathered, Claimed
  <2> QED
    BY <2>1, <2>2
<1>3. ASSUME NEW r \in Objs, o \in Whole(r), Hooked(u, r)
      PROVE  Claimed(u, o)'
  <2>1. ASSUME NEW n \in Line(u), link[n] = r
        PROVE  Claimed(u, o)'
    <3>1. Live(r) /\ n \in InPlay
      BY <2>1, LineInPlay
    <3>2. Whole(r)' = Whole(r) /\ link'[n] = r
      BY <2>1, <3>1 DEF Handled
    <3>3. n \in Line(u)'
      BY <2>1 DEF Follows
    <3>4. Hooked(u, r)'
      BY <3>2, <3>3 DEF Hooked
    <3> QED
      BY <1>3, <3>2, <3>4 DEF Claimed
  <2>2. ASSUME NEW v \in Tasks, Retiring(v) = r, Ahead(v, vec[u])
        PROVE  Claimed(u, o)'
    <3>1. CASE v = t
      BY <1>3, <2>2, <3>1
    <3>2. CASE v # t
      <4>1. v \in Active(r)
        BY <2>2 DEF Active
      <4>2. /\ Whole(r)' = Whole(r) /\ Retiring(v)' = r
            /\ pc'[v] = pc[v] /\ at'[v] = at[v]
        BY <2>2, <3>2, <4>1 DEF Handled, Live
      <4>3. Hooked(u, r)'
        BY <2>2, <4>2 DEF Hooked, Ahead
      <4> QED
        BY <1>3, <4>2, <4>3 DEF Claimed
    <3> QED
      BY <3>1, <3>2
  <2> QED
    BY <1>3, <2>1, <2>2 DEF Hooked
<1> QED
  BY <1>1, <1>2, <1>3 DEF Claimed

\* What is guarded is not free.
LEMMA ClaimedAlive ==
  ASSUME Books, NEW u \in Tasks, NEW o, Claimed(u, o)
  PROVE  status[o] \in {"linked", "retired"}
<1>1. \A v \in Tasks : \A x \in Gathered(v) : status[x] = "retired"
  BY GatheredFacts
<1> QED
  BY <1>1 DEF Claimed, Whole

\* The steps in which a thread neither pushes nor collects a node.
Others(t) == Lookups(t) \/ Entries(t) \/ Exits(t) \/ Walkings(t) \/ FreeList(t)

\* They are outside retire.
LEMMA OthersPlace ==
  ASSUME Books, NEW t \in Tasks, Others(t)
  PROVE  /\ pc[t] \notin Retires /\ pc'[t] \notin Retires
         /\ Retiring(t) = NULL /\ Retiring(t)' = NULL
<1>1. Sound /\ Sited /\ Tidy(t)
  BY DEF Books, AllTidy
<1>2. pc[t] \notin Retires /\ pc'[t] \notin Retires
  <2> USE DEF Retires
  <2>2. CASE Lookups(t)
    BY <1>1, <2>2, IdleFx DEF Lookups, Reads, Rests
  <2>3. CASE Entries(t)
    BY <1>1, <2>3, EnterFx DEF Entries, Rests
  <2>4. CASE Exits(t)
    <3>1. CASE Leave1(t) \/ LeaveTrim1(t)
      BY <1>1, <3>1, TakeListFx
    <3>2. CASE Leave2(t) \/ LeaveTrim2(t) \/ LeaveRetry(t)
      BY <1>1, <3>2, LoadHeadFx
    <3>3. CASE LeaveCas(t)
      BY <1>1, <3>3, LeaveCasFx
    <3>4. CASE LeaveClear(t)
      BY <1>1, <3>4, LeaveClearFx
    <3>5. CASE LeaveAdjust(t)
      BY <1>1, <3>5, LastAdjustFx
    <3> QED
      BY <2>4, <3>1, <3>2, <3>3, <3>4, <3>5 DEF Exits
  <2>5. CASE Walkings(t) \/ FreeList(t)
    <3>1. CASE RtFin(t)
      BY <1>1, <3>1, LastAdjustFx
    <3>2. CASE Traverse(t)
      BY <1>1, <3>2, TraverseFx
    <3>3. CASE Ack(t)
      BY <1>1, <3>3, AckFx
    <3>4. CASE Trim(t)
      BY <1>1, <3>4, TrimFx
    <3>5. CASE FreeList(t)
      BY <1>1, <3>5, FreeFx
    <3> QED
      BY <2>5, <3>1, <3>2, <3>3, <3>4, <3>5 DEF Walkings
  <2> QED
    BY <2>2, <2>3, <2>4, <2>5 DEF Others
<1>3. Neat(t)
  BY KindsStay, FreeFx, <1>1 DEF Others
<1> QED
  BY <1>1, <1>2, <1>3 DEF Neat, Tidy, Retiring

\* A node in the structure is taken out by retire alone.
LEMMA LinkedStays ==
  ASSUME Books, NEW t \in Tasks, Good(t), Others(t) \/ Pushing(t), NEW o \in Objs,
         status[o] = "linked"
  PROVE  status'[o] = "linked"
<1>1. Sound /\ Sited /\ Tidy(t)
  BY DEF Books, AllTidy
<1>2. status \in [Objs -> Status] /\ mine \in [Tasks -> Ptrs]
  BY <1>1, SoundParts DEF SharedTypeOK, ClientTypeOK
<1>3. CASE Alloc(t)
  <2>1. PICK p \in Objs : Malloc(t, p)
    BY <1>3 DEF Alloc
  <2>2. status[p] = "free" /\ status' = [status EXCEPT ![p] = "private"]
    BY <2>1 DEF Malloc
  <2> QED
    BY <1>2, <2>2
<1>4. CASE Rideable(t)
  <2>1. mine[t] # NULL => status[mine[t]] = "private"
    BY <1>1 DEF Sited
  <2>2. CASE Discard(t)
    BY <1>2, <2>1, <2>2 DEF Discard
  <2>3. CASE \E c \in Cells : Link(t, c)
    BY <1>2, <2>3 DEF Link
  <2> QED
    BY <1>4, <2>2, <2>3 DEF Rideable
<1>5. CASE FreeList(t)
  <2>1. status'[o] = IF o \in Members(list[t]) THEN "free" ELSE status[o]
    BY <1>5, FreeHandled
  <2>2. \A r \in Lasts : status[r] = "retired"
    BY BooksParts DEF Struct, BatchesApart
  <2>3. list[t] \subseteq Lasts
    BY DEF Lasts
  <2>4. o \notin Members(list[t])
    BY <2>2, <2>3 DEF Members
  <2> QED
    BY <2>1, <2>4
<1>6. CASE UNCHANGED clientVars
  BY <1>6 DEF clientVars
<1>7. ASSUME Pushing(t)
      PROVE  UNCHANGED clientVars
  BY <1>7 DEF Pushing, RtAccess, RtLoad, RtRetry, RtPush1, RtPush2, RtAdjust, RtCount
<1>8. ASSUME Entries(t) \/ Exits(t) \/ Walkings(t)
      PROVE  UNCHANGED clientVars
  BY <1>8, Zenon DEF Entries, Exits, Walkings, Enter1, EnterAdd, Leave1, TakeList, Leave2, LeaveTrim1,
              LeaveTrim2, LeaveRetry, LeaveCas, LeaveClear, LeaveAdjust, RtFin, Traverse, Ack, Trim
<1>9. ASSUME Lookups(t), ~Alloc(t), ~Rideable(t)
      PROVE  UNCHANGED clientVars
  BY <1>9 DEF Lookups, Enter2, EnterLook, Read, Deref, DerefValue, DerefGlobal, DerefAccess1,
              DerefAccess2
<1> QED
  BY <1>3, <1>4, <1>5, <1>6, <1>7, <1>8, <1>9 DEF Others

\* What every step leaves of the nodes and of the lists.
LEMMA StepHandled ==
  ASSUME Books, CounterNodeSpared, NEW t \in Tasks, Good(t), Sound', Calls(t) \/ Steps(t)
  PROVE  /\ Handled(t) /\ Follows
         /\ Others(t) \/ Pushing(t) \/ \E c \in Cells : Retire(t, c)
<1>1. Others(t) \/ Pushing(t) \/ \E c \in Cells : Retire(t, c)
  BY Kinds DEF Others
<1>2. CASE Others(t)
  <2>1. Views
    BY <1>2, KindsView DEF Others
  <2>2. Follows
    BY <2>1, ViewsFollow
  <2>3. CASE FreeList(t)
    BY <1>2, <2>2, <2>3, FreeHandled
  <2>4. CASE ~FreeList(t)
    BY <1>2, <2>2, <2>4, KindsStay, StayHandled DEF Others
  <2> QED
    BY <2>3, <2>4
<1>3. CASE Pushing(t)
  <2>1. Handled(t)
    BY <1>3, KindsStay, StayHandled
  <2>2. CASE RtPush1(t) \/ RtPush2(t)
    BY <1>3, <2>1, <2>2, PushLays, LaysFollow
  <2>3. CASE ~(RtPush1(t) \/ RtPush2(t))
    BY <1>3, <2>1, <2>3, KindsView, ViewsFollow DEF Pushing
  <2> QED
    BY <2>2, <2>3
<1>4. ASSUME NEW c \in Cells, Retire(t, c)
      PROVE  Handled(t) /\ Follows
  <2>1. PICK r : Gathers(t, cell[c], r)
    BY <1>4, RetireGathers
  <2>2. Handled(t)
    BY <2>1, GathersHandled
  <2>3. Views
    BY <1>4, KindsView
  <2> QED
    BY <2>2, <2>3, ViewsFollow
<1> QED
  BY <1>1, <1>2, <1>3, <1>4
\* A block that a call of retire has still to push for a thread stays with it.
LEMMA PushingClaims ==
  ASSUME Books, CounterNodeSpared, Shield, NEW t \in Tasks, Good(t), Sound', Pushing(t), Handled(t),
         NEW u \in Tasks, NEW o \in Objs, NEW r \in Objs, Inside(u), vec'[u] = vec[u],
         Guarded(u, o), o \in Whole(r), Retiring(t) = r, Ahead(t, vec[u])
  PROVE  Claimed(u, o)'
<1>1. Sound /\ Tidy(t)
  BY DEF Books, AllTidy
<1>2. vec[u] \in Slots
  BY <1>1, EpochTypes
<1>3. PICK s \in Slots : s = vec[u]
  BY <1>2
<1>4. link' = link /\ t \in Active(r)
  BY KindsStay DEF Active
<1>5. Whole(r)' = Whole(r)
  BY <1>4 DEF Handled, Live
<1>6. CASE /\ rt'[t].first = rt[t].first
           /\ \/ pc'[t] \in {"rt_access", "rt_load", "rt_cas"} /\ at'[t] <= s
              \/ pc'[t] \in {"rt_adj", "rt_count"} /\ at'[t] < s
  <2>1. Retiring(t)' = r
    BY <1>4, <1>6 DEF Retiring
  <2>2. Hooked(u, r)'
    BY <1>3, <1>6, <2>1 DEF Hooked, Ahead
  <2> QED
    BY <1>5, <2>2 DEF Claimed
<1>7. CASE at[t] = s /\ (RtPush1(t) \/ RtPush2(t))
  <2>1. Lays(t, at[t], Head(rt[t].todo))
    BY <1>7, PushLays
  <2>2. Head(rt[t].todo) \in Line(u)' /\ link[Head(rt[t].todo)] = Retiring(t)
    BY <1>3, <1>7, <2>1, LaysFollow
  <2>3. Hooked(u, r)'
    BY <1>4, <2>2 DEF Hooked
  <2> QED
    BY <1>5, <2>3 DEF Claimed
<1>8. CASE at[t] = s /\ head[s].ref = 0
  BY <1>1, <1>3, <1>8, HeadFacts
<1>9. CASE at[t] = s /\ pc[t] = "rt_access" /\ ~EpochGeq(access[s], minEpoch[t])
  <2>1. build.robust
    BY <1>9 DEF Shield, Paced
  <2>2. Before(birth[o], access[s]) /\ Clock /\ Youngest(t)
    BY <1>3, <2>1 DEF Shield, Guarded
  <2>3. Before(minEpoch[t], birth[o])
    BY <2>2 DEF Youngest, Pool
  <2>4. /\ access[s] \in Epochs /\ minEpoch[t] \in Epochs /\ birth[o] \in Epochs /\ global \in Epochs
    BY <1>1, EpochTypes
  <2>5. /\ Age(access[s]) \in Int /\ Age(minEpoch[t]) \in Int /\ Age(birth[o]) \in Int
        /\ Age(global) \in Int /\ MaxAdvance \in Int
    BY <2>4, AgeType DEF Epochs
  <2>6. Age(access[s]) <= MaxAdvance /\ Age(minEpoch[t]) <= MaxAdvance
    BY <2>2, <2>5 DEF Clock, Before
  <2>7. Before(minEpoch[t], access[s])
    BY <2>2, <2>3, <2>5 DEF Before
  <2>8. EpochGeq(access[s], minEpoch[t])
    BY <2>4, <2>6, <2>7, AgeGeq DEF Epochs
  <2> QED
    BY <1>9, <2>8
<1> QED
  BY <1>3, <1>6, <1>7, <1>8, <1>9, Advances

\* A block that is retired goes to the batch of the thread.
LEMMA RetireClaims ==
  ASSUME Books, NEW t \in Tasks, Good(t), Sound', NEW c \in Cells, Retire(t, c),
         NEW u \in Tasks, NEW o \in Objs, Inside(u), vec'[u] = vec[u],
         status[o] = "linked" \/ o \in Gathered(t)
  PROVE  Claimed(u, o)'
<1>1. Sound /\ Tidy(t)
  BY DEF Books, AllTidy
<1>2. PICK r : Gathers(t, cell[c], r)
  BY RetireGathers
<1>3. status' = [status EXCEPT ![cell[c]] = "retired"]
  BY DEF Retire
<1>4. status \in [Objs -> Status] /\ vec[u] \in Slots /\ \A s \in Slots : 0 <= s
  BY <1>1, SoundParts, EpochTypes DEF SharedTypeOK, ClientTypeOK, Slots
<1>5. CASE o \notin Gathered(t) \union {cell[c]}
  BY <1>3, <1>4, <1>5 DEF Claimed
<1>6. CASE o \in Gathered(t) \union {cell[c]} /\ ~Full(t)
  BY <1>2, <1>6, GathersWhole DEF Claimed
<1>7. CASE o \in Gathered(t) \union {cell[c]} /\ Full(t)
  <2>1. /\ Retiring(t)' = r /\ r \in Objs /\ o \in Whole(r)'
        /\ pc'[t] \in {"rt_access", "rt_load"} /\ at'[t] = 0
    BY <1>2, <1>7, GathersWhole
  <2>2. Hooked(u, r)'
    BY <1>4, <2>1 DEF Hooked, Ahead
  <2> QED
    BY <2>1, <2>2 DEF Claimed
<1> QED
  BY <1>5, <1>6, <1>7

\* What is guarded stays claimed in every step.
LEMMA ClaimTask ==
  ASSUME Books, CounterNodeSpared, Shield, NEW t \in Tasks, Good(t), Sound', Calls(t) \/ Steps(t),
         NEW u \in Tasks, NEW o \in Objs, Guarded(u, o),
         Inside(u), Inside(u)', vec'[u] = vec[u], handle'[u] = handle[u]
  PROVE  Claimed(u, o)'
<1>1. /\ Handled(t) /\ Follows
      /\ Others(t) \/ Pushing(t) \/ \E c \in Cells : Retire(t, c)
  BY StepHandled
<1>2. Claimed(u, o)
  BY DEF Guarded, Claimed
<1>3. CASE Others(t)
  <2>1. batch' = batch
    BY <1>3, KindsStay, FreeHandled DEF Others
  <2>2. o \in Gathered(t) => Claimed(u, o)'
    BY <2>1 DEF Gathered, Claimed
  <2>3. status[o] = "linked" => Claimed(u, o)'
    BY <1>3, LinkedStays DEF Claimed
  <2>4. Retiring(t) \notin Objs
    BY <1>3, OthersPlace
  <2> QED
    BY <1>1, <1>2, <2>2, <2>3, <2>4, ClaimStays
<1>4. CASE Pushing(t)
  <2>1. batch' = batch
    BY <1>4, KindsStay
  <2>2. o \in Gathered(t) => Claimed(u, o)'
    BY <2>1 DEF Gathered, Claimed
  <2>3. status[o] = "linked" => Claimed(u, o)'
    BY <1>4, LinkedStays DEF Claimed
  <2>4. \A r \in Objs : o \in Whole(r) /\ Retiring(t) = r /\ Ahead(t, vec[u]) => Claimed(u, o)'
    BY <1>1, <1>4, PushingClaims
  <2> QED
    BY <1>1, <1>2, <2>2, <2>3, <2>4, ClaimStays
<1>5. ASSUME NEW c \in Cells, Retire(t, c)
      PROVE  Claimed(u, o)'
  <2>1. PICK r : Gathers(t, cell[c], r)
    BY <1>5, RetireGathers
  <2>2. Retiring(t) \notin Objs
    BY <2>1, GathersWhole
  <2>3. status[o] = "linked" \/ o \in Gathered(t) => Claimed(u, o)'
    BY <1>5, RetireClaims
  <2> QED
    BY <1>1, <1>2, <2>2, <2>3, ClaimStays
<1> QED
  BY <1>1, <1>3, <1>4, <1>5

\* A guarded block stays so, as long as the thread stays inside.
LEMMA GuardTask ==
  ASSUME Books, CounterNodeSpared, Shield, NEW t \in Tasks, Good(t), Sound', Calls(t) \/ Steps(t),
         NEW u \in Tasks, NEW o \in Objs, Guarded(u, o),
         Inside(u), Inside(u)', vec'[u] = vec[u], handle'[u] = handle[u]
  PROVE  Guarded(u, o)'
<1>1. Claimed(u, o)'
  BY ClaimTask
<1>2. Clock /\ Raised /\ Born /\ Sound
  BY ClockTask DEF Shield, Books
<1>3. birth'[o] = birth[o]
  BY <1>2, ClaimedAlive DEF Born, Guarded, Claimed
<1>4. vec[u] \in Slots /\ build' = build /\ Slots' = Slots
  BY <1>2, EpochTypes, SameBuild DEF Good
<1>5. Before(access[vec[u]], access'[vec[u]])
  BY <1>2, <1>4 DEF Raised
<1>6. access[vec[u]] \in Epochs /\ access'[vec[u]] \in Epochs /\ birth[o] \in Epochs
  BY <1>2, <1>4, EpochTypes DEF Good, SharedTypeOK, Epochs
<1>7. Before(birth[o], access[vec[u]]) => Before(birth[o], access'[vec[u]])
  BY <1>5, <1>6, BeforeOrder
<1>8. build'.robust => Before(birth'[o], access'[vec'[u]])
  BY <1>3, <1>4, <1>7 DEF Guarded
<1> QED
  BY <1>1, <1>8 DEF Guarded, Claimed, Before, Age

-----------------------------------------------------------------------------
(***************************************************************************)
(* A thread holds references to such blocks.                               *)
(***************************************************************************)

\* The places where a thread holds references.
Stands == {"in", "value", "global", "access", "rt_access", "rt_load", "rt_cas",
           "rt_adj", "rt_count", "rt_fin", "free"}

\* Where references stay: the thread keeps its slot and its handle.
Remains(t) ==
    /\ pc[t] \in Stands /\ pc'[t] \in Stands
    /\ Inside(t) => Inside(t)'
    /\ vec'[t] = vec[t] /\ handle'[t] = handle[t]

\* Reads and allocations.
LEMMA LookupRemains ==
  ASSUME Books, NEW t \in Tasks, Lookups(t)
  PROVE  Remains(t) \/ pc[t] \in Rests
<1>1. Sound /\ Sited /\ Tidy(t)
  BY DEF Books, AllTidy
<1>2. /\ UNCHANGED <<vec, handle>>
      /\ \/ pc[t] \in Reads /\ pc'[t] \in Reads
         \/ pc[t] \in Rests /\ pc'[t] \in Rests
  BY <1>1, IdleFx DEF Lookups
<1>3. CASE pc[t] \in Reads /\ pc'[t] \in Reads
  BY <1>2, <1>3 DEF Reads, Inside, Stands, Remains
<1> QED
  BY <1>2, <1>3

\* The steps of retire.
LEMMA PushingRemains ==
  ASSUME Books, NEW t \in Tasks, Good(t), Pushing(t)
  PROVE  Remains(t)
<1> USE DEF Stands
<1>1. Sound /\ Tidy(t)
  BY DEF Books, AllTidy
<1>2. pc[t] \in Stands /\ pc'[t] \in Stands
  <2>1. CASE RtAccess(t) \/ RtLoad(t) \/ RtRetry(t)
    BY <1>1, <2>1, RtLookFx DEF Onward
  <2>2. CASE RtPush1(t)
    BY <1>1, <2>2, RtPush1Fx DEF Onward
  <2>3. CASE RtPush2(t)
    BY <1>1, <2>3, RtPush2Fx
  <2>4. CASE RtAdjust(t)
    BY <1>1, <2>4, RtAdjustFx
  <2>5. CASE RtCount(t)
    BY <1>1, <2>5, RtCountFx DEF Onward
  <2> QED
    BY <2>1, <2>2, <2>3, <2>4, <2>5 DEF Pushing
<1>3. Inside(t)'
  <2>1. CASE RtAccess(t) \/ RtLoad(t) \/ RtRetry(t)
    BY <1>1, <2>1, RtLookFx DEF Onward, Inside
  <2>2. CASE RtPush1(t)
    BY <1>1, <2>2, RtPush1Fx DEF Onward
  <2>3. CASE RtPush2(t)
    BY <1>1, <2>3, RtPush2Fx DEF Inside
  <2>4. CASE RtAdjust(t)
    BY <1>1, <2>4, RtAdjustFx DEF Inside
  <2>5. CASE RtCount(t)
    BY <1>1, <2>5, RtCountFx DEF Onward
  <2> QED
    BY <2>1, <2>2, <2>3, <2>4, <2>5 DEF Pushing
<1>4. vec' = vec /\ handle' = handle
  BY DEF Pushing, RtAccess, RtLoad, RtRetry, RtPush1, RtPush2, RtAdjust, RtCount, own
<1> QED
  BY <1>2, <1>3, <1>4 DEF Remains

\* The last adjustment of retire, and free.
LEMMA FinRemains ==
  ASSUME Books, NEW t \in Tasks, Good(t), RtFin(t) \/ FreeList(t)
  PROVE  Inside(t) => Remains(t)
<1> USE DEF Stands
<1>1. Sound /\ Tidy(t)
  BY DEF Books, AllTidy
<1>2. /\ pc'[t] \in {"trav", "ack", "free", "look", "add", "out", "in"}
      /\ wk'[t].segs = <<>> /\ UNCHANGED <<vec, handle>> /\ (Inside(t)' <=> Inside(t))
      /\ pc[t] \in {"rt_fin", "free"}
  <2>1. CASE RtFin(t)
    <3>1. pc[t] = "rt_fin"
      BY <2>1 DEF RtFin
    <3>2. wk[t].segs = <<>>
      BY <1>1, <3>1 DEF Tidy, Walking
    <3> QED
      BY <1>1, <2>1, <3>1, <3>2, LastAdjustFx
  <2>2. CASE FreeList(t)
    BY <1>1, <2>2, FreeFx
  <2> QED
    BY <2>1, <2>2
<1>3. pc'[t] \notin {"trav", "ack"}
  <2>1. Control(t)'
    BY DEF Good, Thread
  <2>2. pc'[t] \in {"trav", "ack"} => wk'[t].segs # <<>>
    BY <2>1 DEF Control
  <2> QED
    BY <1>2, <2>2
<1>4. Inside(t)' => pc'[t] \in {"free", "in"}
  BY <1>2, <1>3 DEF Inside
<1> QED
  BY <1>2, <1>4 DEF Remains

\* retire of a node.
LEMMA RetireRemains ==
  ASSUME Books, NEW t \in Tasks, Good(t), Sound', NEW c \in Cells, Retire(t, c)
  PROVE  Remains(t)
<1>1. PICK r : Gathers(t, cell[c], r) /\ UNCHANGED <<vec, handle>>
  BY RetireGathers
<1>2. pc[t] = "in" /\ pc'[t] \in {"in", "rt_access", "rt_load"}
  BY <1>1 DEF Gathers
<1>3. Inside(t)' /\ pc[t] \in Stands /\ pc'[t] \in Stands
  BY <1>2 DEF Inside, Stands
<1> QED
  BY <1>1, <1>3 DEF Remains
\* The references of the threads: the others keep theirs, and the thread gets
\* only what it has read.
LEMMA HeldStep ==
  ASSUME Books, NEW t \in Tasks, Good(t), Sound', Calls(t) \/ Steps(t),
         held[t] # {} => Holding(t)
  PROVE  /\ \A u \in Tasks : u # t => held'[u] = held[u]
         /\ held'[t] # {} =>
               /\ Remains(t) /\ Inside(t)
               /\ \A o \in held'[t] : \/ o \in held[t]
                                      \/ \E c \in Cells : Read(t, c) /\ o = cell[c]
                                      \/ Loaded(t) /\ o = rd[t].ptr
<1>1. Sound /\ Sited /\ Tidy(t) /\ held \in [Tasks -> SUBSET Objs]
  BY EpochTypes DEF Books, AllTidy
<1>2. held[t] # {} => pc[t] \in Stands /\ Inside(t)
  BY DEF Holding, Stands
<1>3. CASE held'[t] = {} /\ held' = [held EXCEPT ![t] = {}]
  BY <1>1, <1>3
<1>4. CASE held' = held /\ (pc[t] \notin Stands \/ (Inside(t) => Remains(t)))
  BY <1>2, <1>4 DEF Remains
<1>5. ASSUME NEW c \in Cells, Read(t, c)
      PROVE  /\ held' = [held EXCEPT ![t] = @ \union ({cell[c]} \ {NULL})] /\ Inside(t)
             /\ Remains(t)
  BY <1>5, LookupRemains DEF Read, Lookups, Inside, Rests
<1>6. ASSUME NEW c \in Cells, Read(t, c)
      PROVE  /\ \A u \in Tasks : u # t => held'[u] = held[u]
             /\ Remains(t) /\ Inside(t)
             /\ \A o \in held'[t] : o \in held[t] \/ o = cell[c]
  BY <1>1, <1>5, <1>6
<1>7. CASE DerefGlobal(t)
  <2>1. Lookups(t) /\ pc[t] = "global"
    BY <1>7 DEF Lookups, DerefGlobal
  <2>2. Remains(t) /\ Inside(t)
    BY <2>1, LookupRemains DEF Inside, Rests
  <2>3. CASE held' = held
    BY <2>2, <2>3
  <2>4. CASE rd[t].access = global /\ held' = [held EXCEPT ![t] = @ \union ({rd[t].ptr} \ {NULL})]
    BY <1>1, <2>1, <2>2, <2>4 DEF Loaded
  <2> QED
    BY <1>7, <2>3, <2>4 DEF DerefGlobal
<1>8. CASE Lookups(t) /\ ~DerefGlobal(t) /\ ~\E c \in Cells : Read(t, c)
  <2>1. held' = held
    BY <1>8 DEF Lookups, Enter2, EnterLook, Alloc, Rideable, Deref, DerefValue, DerefAccess1,
                DerefAccess2
  <2>2. pc[t] \in Rests => pc[t] \notin Stands
    BY DEF Rests, Stands
  <2> QED
    BY <1>4, <1>8, <2>1, <2>2, LookupRemains
<1>9. CASE Entries(t)
  BY <1>1, <1>4, <1>9, EnterFx DEF Entries, Enter1, EnterAdd, Rests, Stands
<1>10. CASE Leave1(t) \/ Leave2(t) \/ Trim(t)
  BY <1>1, <1>3, <1>10 DEF Leave1, Leave2, Trim
<1>11. CASE LeaveTrim1(t) \/ LeaveTrim2(t) \/ LeaveRetry(t) \/ LeaveCas(t) \/ LeaveClear(t)
            \/ LeaveAdjust(t) \/ Traverse(t) \/ Ack(t)
  <2>1. held' = held
    BY <1>11, ZenonT(60) DEF LeaveTrim1, LeaveTrim2, LeaveRetry, LeaveCas, LeaveClear, LeaveAdjust, Traverse,
                 Ack
  <2>2. pc[t] \in {"leave", "lv_cas", "lv_clear", "lv_adj", "trav", "ack"}
    BY <1>11, Zenon DEF LeaveTrim1, LeaveTrim2, LeaveRetry, LeaveCas, LeaveClear, LeaveAdjust, Traverse,
                 Ack
  <2> QED
    BY <1>4, <2>1, <2>2 DEF Stands
<1>12. CASE RtFin(t) \/ FreeList(t)
  BY <1>4, <1>12, FinRemains DEF RtFin, FreeList
<1>13. CASE Pushing(t)
  BY <1>4, <1>13, PushingRemains, ZenonT(60) DEF Pushing, RtAccess, RtLoad, RtRetry, RtPush1, RtPush2,
     RtAdjust, RtCount
<1>14. ASSUME NEW c \in Cells, Retire(t, c)
       PROVE  held' = held /\ Remains(t)
  BY <1>14, RetireRemains DEF Retire
<1>15. CASE \E c \in Cells : Retire(t, c)
  BY <1>4, <1>14, <1>15
<1>16. CASE \E c \in Cells : Read(t, c)
  BY <1>6, <1>16
<1> QED
  BY <1>7, <1>8, <1>9, <1>10, <1>11, <1>12, <1>13, <1>15, <1>16, Kinds DEF Exits, Walkings
\* What deref is about to return was loaded after its slot had the epoch.
LEMMA LoadedGuarded ==
  ASSUME Books, Clock, NEW t \in Tasks, Good(t), Sound', Calls(t) \/ Steps(t), Loaded(t)'
  PROVE  Guarded(t, rd[t].ptr)'
<1>1. Sound /\ Sited /\ Tidy(t)
  BY DEF Books, AllTidy
<1>2. /\ rd \in [Tasks -> Derefs] /\ pc \in [Tasks -> PC]
      /\ access \in [Slots -> Epochs] /\ global \in Epochs /\ birth \in [Objs -> Epochs]
      /\ vec[t] \in Slots /\ rd[t].access \in Epochs
  BY <1>1, EpochTypes
<1>3. pc'[t] = "global" /\ rd'[t].ptr # NULL /\ rd'[t].access = global'
  BY DEF Loaded
<1>4. (\E c \in Cells : Deref(t, c)) \/ DerefValue(t)
  <2>1. ~Plain(t)
    BY <1>1, <1>3, PlainPlace DEF Derefing
  <2>2. ~Alloc(t)
    BY <1>3 DEF Alloc
  <2>3. ~DerefGlobal(t) /\ ~DerefAccess1(t) /\ ~DerefAccess2(t)
    BY <1>2, <1>3 DEF DerefGlobal, DerefAccess1, DerefAccess2, Goto, AfterAccess
  <2>4. ASSUME NEW c \in Cells, Retire(t, c)
        PROVE  FALSE
    BY <1>3, <2>4, RetireGathers DEF Gathers
  <2> QED
    BY <2>1, <2>2, <2>3, <2>4 DEF Calls, Steps, Plain
<1>5. UNCHANGED <<status, cell, access, global, birth, vec, build>>
  BY <1>4 DEF Deref, DerefValue, mem, own, epochs, nodes, clientVars
<1>6. /\ \E c \in Cells : rd'[t].ptr = cell[c]
      /\ Before(rd'[t].access, access[vec[t]])
  <2>1. ASSUME NEW c \in Cells, Deref(t, c)
        PROVE  rd'[t].ptr = cell[c] /\ rd'[t].access = access[vec[t]]
    BY <1>2, <2>1 DEF Deref, NoDeref
  <2>2. CASE DerefValue(t)
    <3>1. pc[t] = "value" /\ rd' = [rd EXCEPT ![t].ptr = cell[rd[t].src]]
      BY <2>2 DEF DerefValue
    <3>2. rd[t].src \in Cells
      BY <1>1, <3>1, SoundParts DEF Control
    <3>3. rd'[t] = [rd[t] EXCEPT !.ptr = cell[rd[t].src]]
      BY <1>2, <3>1
    <3>4. rd'[t].ptr = cell[rd[t].src] /\ rd'[t].access = rd[t].access
      BY <1>2, <3>3 DEF Derefs
    <3> QED
      BY <3>1, <3>2, <3>4 DEF Clock
  <2>3. Before(access[vec[t]], access[vec[t]])
    BY <1>2, BeforeOrder
  <2> QED
    BY <1>4, <2>1, <2>2, <2>3
<1>7. PICK c \in Cells : rd'[t].ptr = cell[c]
  BY <1>6
<1>8. status[rd'[t].ptr] = "linked" /\ rd'[t].ptr \in Objs
  BY <1>1, <1>3, <1>7, SoundParts DEF SharedTypeOK, ClientTypeOK, Sited, Ptrs
<1>9. Before(birth[rd'[t].ptr], access[vec[t]])
  <2>1. Before(birth[rd'[t].ptr], global) /\ Before(global, access[vec[t]])
    BY <1>3, <1>5, <1>6, <1>8 DEF Clock
  <2>2. birth[rd'[t].ptr] \in Epochs /\ access[vec[t]] \in Epochs
    BY <1>2, <1>8
  <2> QED
    BY <1>2, <2>1, <2>2, BeforeOrder
<1>10. status'[rd'[t].ptr] = "linked" /\ Before(birth'[rd'[t].ptr], access'[vec'[t]])
  BY <1>5, <1>8, <1>9
<1> QED
  BY <1>10 DEF Guarded, Before, Age

\* The global epoch only grows.
LEMMA GlobalTask ==
  ASSUME Books, Clock, NEW t \in Tasks, Good(t), Calls(t) \/ Steps(t)
  PROVE  global' = global \/ Age(global') > Age(global)
<1>1. Sound
  BY DEF Books
<1>2. CASE Alloc(t)
  BY <1>1, <1>2, InitNodeEpochs DEF Alloc
<1>3. CASE Plain(t)
  BY <1>3, PlainEpochs
<1>4. CASE ~Alloc(t) /\ ~Plain(t)
  BY <1>4 DEF Calls, Steps, Plain, Deref, DerefValue, DerefGlobal, DerefAccess1, DerefAccess2, Retire,
              mem, epochs
<1> QED
  BY <1>2, <1>3, <1>4

\* What another thread has loaded stays guarded.
LEMMA LoadedTask ==
  ASSUME Books, CounterNodeSpared, Shield, NEW t \in Tasks, Good(t), Sound', Calls(t) \/ Steps(t),
         NEW u \in Tasks, u # t, Loaded(u)'
  PROVE  Guarded(u, rd[u].ptr)'
<1>1. Sound
  BY DEF Books
<1>2. pc'[u] = pc[u] /\ rd'[u] = rd[u] /\ vec'[u] = vec[u] /\ handle'[u] = handle[u]
  BY DEF Good, Kept
<1>3. pc[u] = "global" /\ rd[u].ptr # NULL /\ rd[u].access = global'
  BY <1>2 DEF Loaded
<1>4. Clock
  BY DEF Shield
<1>5. Before(rd[u].access, global)
  BY <1>1, <1>3, <1>4, EpochTypes, BeforeOrder DEF Clock
<1>6. global' = global
  <2>1. global \in Epochs /\ global' \in Epochs
    BY <1>1, <1>3, EpochTypes
  <2>2. ~(Age(global') > Age(global))
    BY <1>3, <1>5, <2>1, AgeType DEF Before, Epochs
  <2> QED
    BY <1>4, <2>2, GlobalTask
<1>7. Loaded(u)
  BY <1>3, <1>6 DEF Loaded
<1>8. PICK o \in Objs : o = rd[u].ptr
  BY <1>1, <1>3, EpochTypes DEF Ptrs
<1>9. Guarded(u, o) /\ Inside(u) /\ Inside(u)'
  BY <1>2, <1>3, <1>7, <1>8 DEF Shield, HeldGuarded, Inside
<1>10. Guarded(u, o)'
  BY <1>2, <1>9, GuardTask
<1> QED
  BY <1>2, <1>8, <1>10 DEF Guarded, Before, Age

\* What the threads hold stays guarded.
LEMMA HeldTask ==
  ASSUME Books, CounterNodeSpared, Shield, NEW t \in Tasks, Good(t), Sound', Calls(t) \/ Steps(t)
  PROVE  HeldGuarded'
<1>1. Sound /\ Sited /\ HeldGuarded /\ Clock
  BY DEF Books, Shield
<1>2. /\ \A u \in Tasks : u # t => held'[u] = held[u]
      /\ held'[t] # {} =>
            /\ Remains(t) /\ Inside(t)
            /\ \A o \in held'[t] : \/ o \in held[t]
                                   \/ \E c \in Cells : Read(t, c) /\ o = cell[c]
                                   \/ Loaded(t) /\ o = rd[t].ptr
  BY <1>1, HeldStep DEF HeldGuarded
<1>3. held' \in [Tasks -> SUBSET Objs]
  BY DEF Good, OwnTypeOK
<1>4. ASSUME NEW u \in Tasks, u # t
      PROVE  /\ held'[u] # {} => Holding(u)'
             /\ \A o \in held'[u] : Guarded(u, o)'
             /\ Loaded(u)' => Guarded(u, rd[u].ptr)'
  <2>1. pc'[u] = pc[u] /\ wk'[u] = wk[u] /\ vec'[u] = vec[u] /\ handle'[u] = handle[u]
    BY <1>4 DEF Good, Kept
  <2>2. Inside(u)' <=> Inside(u)
    BY <2>1 DEF Inside
  <2>3. held'[u] # {} => Holding(u) /\ Holding(u)'
    BY <1>1, <1>2, <1>4, <2>1, <2>2 DEF HeldGuarded, Holding
  <2>4. ASSUME NEW o \in held'[u]
        PROVE  Guarded(u, o)'
    BY <1>1, <1>2, <1>3, <1>4, <2>1, <2>2, <2>3, <2>4, GuardTask DEF HeldGuarded, Holding
  <2> QED
    BY <1>4, <2>3, <2>4, LoadedTask
<1>5. held'[t] # {} => Holding(t)'
  BY <1>2 DEF Remains, Holding, Stands
<1>6. ASSUME NEW o \in held'[t]
      PROVE  Guarded(t, o)'
  <2>1. Remains(t) /\ Inside(t) /\ Inside(t)' /\ o \in Objs
    BY <1>2, <1>3, <1>6 DEF Remains
  <2>2. CASE Guarded(t, o)
    BY <2>1, <2>2, GuardTask DEF Remains
  <2>3. ASSUME NEW c \in Cells, Read(t, c), o = cell[c]
        PROVE  Guarded(t, o)'
    <3>1. status' = status /\ ~build.robust /\ build' = build
      BY <2>3 DEF Read, clientVars, mem
    <3>2. status[o] = "linked"
      BY <1>1, <2>1, <2>3 DEF Sited
    <3> QED
      BY <3>1, <3>2 DEF Guarded
  <2> QED
    BY <1>1, <1>2, <1>6, <2>2, <2>3 DEF HeldGuarded
<1>7. Loaded(t)' => Guarded(t, rd[t].ptr)'
  BY <1>1, LoadedGuarded
<1>8. \A u \in Tasks : /\ held'[u] # {} => Holding(u)'
                       /\ \A o \in held'[u] : Guarded(u, o)'
                       /\ Loaded(u)' => Guarded(u, rd[u].ptr)'
  BY <1>4, <1>5, <1>6, <1>7
<1> QED
  BY <1>8 DEF HeldGuarded
\* Where the steps of retire lead.
LEMMA RtPlaces ==
  ASSUME Books, NEW t \in Tasks, Good(t), Pushing(t), pc[t] = "rt_access" => build.robust
  PROVE  /\ pc'[t] = "rt_access" => build.robust
         /\ build.robust /\ pc'[t] \in {"rt_load", "rt_cas"} =>
               /\ at'[t] = at[t]
               /\ \/ pc[t] \in {"rt_load", "rt_cas"}
                  \/ EpochGeq(access[at[t]], minEpoch[t])
         /\ rt'[t].first \in {rt[t].first, NULL}
<1>1. Sound /\ Tidy(t)
  BY DEF Books, AllTidy
<1>2. /\ rt \in [Tasks -> Batches] /\ pc \in [Tasks -> PC] /\ at \in [Tasks -> Slots]
      /\ rt[t] \in Batches
  BY <1>1, SoundParts, Fields DEF LocalTypeOK
<1>3. ASSUME NEW r \in Batches, NextSlot(t, r), list' = list, pc[t] \in Retires,
             r.first = rt[t].first
      PROVE  /\ pc'[t] = "rt_access" => build.robust
             /\ build.robust => pc'[t] \notin {"rt_load", "rt_cas"}
             /\ rt'[t].first \in {rt[t].first, NULL}
  <2>1. Onward(t, r)
    BY <1>1, <1>3, NextSlotFx
  <2>2. /\ rt'[t].first \in {rt[t].first, NULL}
        /\ pc'[t] \in {"rt_access", "rt_load", "rt_fin", "free", "in"}
    BY <1>3, <2>1, BlankFields DEF Onward
  <2>3. CASE at[t] + 1 # NumSlots
    <3>1. pc' = [pc EXCEPT ![t] = IF build.robust THEN "rt_access" ELSE "rt_load"]
      BY <1>3, <2>3 DEF NextSlot, Goto
    <3>2. pc'[t] = IF build.robust THEN "rt_access" ELSE "rt_load"
      BY <1>2, <3>1
    <3> QED
      BY <2>2, <3>2
  <2>4. CASE at[t] + 1 = NumSlots
    BY <1>1, <2>1, <2>2, <2>4, SoundParts, SlotFacts DEF Onward
  <2> QED
    BY <2>3, <2>4
<1>4. ASSUME SkipSlot(t), pc[t] \in Retires
      PROVE  /\ pc'[t] = "rt_access" => build.robust
             /\ build.robust => pc'[t] \notin {"rt_load", "rt_cas"}
             /\ rt'[t].first \in {rt[t].first, NULL}
  <2> DEFINE r == IF build.words = 1 THEN rt[t] ELSE Skipped(t)
  <2>1. NextSlot(t, r) /\ list' = list
    BY <1>4 DEF SkipSlot, Skipped
  <2>2. r \in Batches /\ r.first = rt[t].first
    <3>1. Addend \in Int /\ CounterMod \in Nat \ {0} /\ rt[t].adjs \in Int
      BY <1>1, <1>2, SoundParts, SlotFacts DEF Batches
    <3>2. (rt[t].adjs + Addend) % CounterMod \in 0 .. CounterMod - 1
      <4>1. rt[t].adjs + Addend \in Int
        BY <3>1
      <4> QED
        BY <3>1, <4>1, ModRange
    <3> QED
      BY <1>2, <3>2 DEF Skipped, Batches
  <2> HIDE DEF r
  <2> QED
    BY <1>3, <1>4, <2>1, <2>2
<1>5. CASE RtAccess(t)
  <2>1. CASE SkipSlot(t)
    BY <1>4, <1>5, <2>1 DEF RtAccess, Retires
  <2>2. CASE ~SkipSlot(t)
    <3>1. /\ EpochGeq(access[at[t]], minEpoch[t]) /\ pc' = [pc EXCEPT ![t] = "rt_load"]
          /\ at' = at /\ rt' = rt
      BY <1>5, <2>2 DEF RtAccess, Goto
    <3>2. pc'[t] = "rt_load"
      BY <1>2, <3>1
    <3> QED
      BY <3>1, <3>2
  <2> QED
    BY <2>1, <2>2
<1>6. CASE RtLoad(t) \/ RtRetry(t)
  <2>1. pc[t] \in {"rt_load", "rt_cas"}
    BY <1>6 DEF RtLoad, RtRetry
  <2>2. CASE SkipSlot(t)
    BY <1>4, <2>1, <2>2 DEF Retires
  <2>3. CASE ~SkipSlot(t)
    <3>1. /\ at' = at /\ \E p : rt' = [rt EXCEPT ![t].prev = p]
          /\ pc' \in {pc, [pc EXCEPT ![t] = "rt_cas"]}
      BY <1>6, <2>3 DEF RtLoad, RtRetry, Goto
    <3>2. PICK p : rt' = [rt EXCEPT ![t].prev = p]
      BY <3>1
    <3>3. rt'[t] = [rt[t] EXCEPT !.prev = p]
      BY <1>2, <3>2
    <3>4. rt'[t].first = rt[t].first
      BY <1>2, <3>3 DEF Batches
    <3>5. pc'[t] \in {"rt_load", "rt_cas"}
      BY <1>2, <2>1, <3>1
    <3> QED
      BY <2>1, <3>1, <3>4, <3>5
  <2> QED
    BY <2>2, <2>3
<1>7. CASE RtPush1(t)
  <2> DEFINE r == [rt[t] EXCEPT !.todo = Tail(@), !.prev = NULL, !.adjs = (@ + 1) % CounterMod]
  <2>1. NextSlot(t, r) /\ list' = list /\ pc[t] = "rt_cas" /\ rt[t].todo # <<>>
    BY <1>1, <1>7, RtPush1Fx DEF RtPush1
  <2>2. r \in Batches /\ r.first = rt[t].first
    <3>1. (rt[t].adjs + 1) % CounterMod \in 0 .. CounterMod - 1
      <4>1. rt[t].adjs + 1 \in Int /\ CounterMod \in Nat \ {0}
        BY <1>2 DEF Batches
      <4> QED
        BY <4>1, ModRange
    <3>2. Tail(rt[t].todo) \in Seq(Objs)
      BY <1>2, <2>1 DEF Batches
    <3> QED
      BY <1>2, <3>1, <3>2 DEF Batches, Ptrs
  <2> HIDE DEF r
  <2> QED
    BY <1>3, <2>1, <2>2 DEF Retires
<1>8. CASE RtPush2(t)
  BY <1>1, <1>8, RtPush2Fx
<1>9. CASE RtAdjust(t)
  BY <1>1, <1>9, RtAdjustFx
<1>10. CASE RtCount(t)
  <2> DEFINE r == [rt[t] EXCEPT !.todo = Tail(@), !.refs = 0]
  <2>1. NextSlot(t, r) /\ list' = list /\ pc[t] = "rt_count" /\ rt[t].todo # <<>>
    BY <1>1, <1>10, RtCountFx DEF RtCount
  <2>2. r \in Batches /\ r.first = rt[t].first
    <3>2. Tail(rt[t].todo) \in Seq(Objs) /\ 0 \in 0 .. TaskNum
      BY <1>2, <2>1 DEF Batches
    <3> QED
      BY <1>2, <3>2 DEF Batches
  <2> HIDE DEF r
  <2> QED
    BY <1>3, <2>1, <2>2 DEF Retires
<1> QED
  BY <1>5, <1>6, <1>7, <1>8, <1>9, <1>10 DEF Pushing

-----------------------------------------------------------------------------
(***************************************************************************)
(* The least epoch of a batch.                                             *)
(***************************************************************************)

\* retire of Hyaline looks at no epoch, after every step.
LEMMA PacedTask ==
  ASSUME Books, CounterNodeSpared, Paced, NEW t \in Tasks, Good(t), Sound', Calls(t) \/ Steps(t)
  PROVE  Paced'
<1>1. build' = build /\ \A u \in Tasks : u # t => pc'[u] = pc[u]
  BY DEF Good, Kept
<1>2. pc'[t] = "rt_access" => build.robust
  <2>1. CASE Others(t)
    BY <2>1, OthersPlace DEF Retires
  <2>2. CASE Pushing(t)
    BY <2>2, RtPlaces DEF Paced
  <2>3. ASSUME NEW c \in Cells, Retire(t, c)
        PROVE  pc'[t] = "rt_access" => build.robust
    <3>1. pc' \in {pc, [pc EXCEPT ![t] = IF build.robust THEN "rt_access" ELSE "rt_load"]}
      BY <2>3 DEF Retire, Goto
    <3>2. pc \in [Tasks -> PC] /\ pc[t] = "in"
      BY <2>3, EpochTypes DEF Books, Retire
    <3> QED
      BY <3>1, <3>2
  <2> QED
    BY <2>1, <2>2, <2>3, StepHandled
<1> QED
  BY <1>1, <1>2 DEF Paced

\* The step of a thread leaves the batches of the others as they are.
LEMMA YoungOthers ==
  ASSUME Books, Clock, NEW t \in Tasks, Good(t), Handled(t), Raised, Born,
         NEW u \in Tasks, Youngest(u), Retiring(u)' = Retiring(u), batch'[u] = batch[u],
         minEpoch'[u] = minEpoch[u],
         Retiring(u) # NULL => Whole(Retiring(u))' = Whole(Retiring(u)),
         pc'[u] \in {"rt_load", "rt_cas"} => Before(minEpoch[u], access[at[u]]) /\ at'[u] = at[u]
  PROVE  Youngest(u)'
<1>1. Sound /\ at[u] \in Slots /\ access \in [Slots -> Epochs] /\ minEpoch[u] \in Epochs
  BY EpochTypes DEF Books
<1>2. Gathered(u)' = Gathered(u)
  BY DEF Gathered
<1>3. Pool(u)' = Pool(u)
  BY <1>2 DEF Pool, Whole
<1>4. \A o \in Pool(u) : o \in Objs /\ birth'[o] = birth[o]
  BY GatheredFacts DEF Pool, Whole, Born
<1>5. access' \in [Slots -> Epochs]
  BY SameBuild DEF Good, SharedTypeOK, Epochs
<1>6. pc'[u] \in {"rt_load", "rt_cas"} => Before(minEpoch'[u], access'[at'[u]])
  <2>1. Before(access[at[u]], access'[at[u]])
    BY <1>1 DEF Raised
  <2>2. access[at[u]] \in Epochs /\ access'[at[u]] \in Epochs
    BY <1>1, <1>5
  <2> QED
    BY <1>1, <2>1, <2>2, BeforeOrder
<1> QED
  BY <1>3, <1>4, <1>6 DEF Youngest, Before, Age

\* The epoch of a batch after one more node.
LEMMA YoungRetire ==
  ASSUME Books, Clock, build.robust, NEW t \in Tasks, Good(t), Sound', Born, Youngest(t),
         NEW c \in Cells, Retire(t, c)
  PROVE  Youngest(t)'
<1> DEFINE o == cell[c]
           min == minEpoch[t]
           e == birth[o]
<1>1. PICK r : Gathers(t, o, r) /\ (build.robust => pc'[t] \in {"in", "rt_access"})
  BY RetireGathers
<1>2. o \in Objs /\ status[o] # "free" /\ Sound
  BY <1>1 DEF Gathers, Books, Sited
<1>3. /\ minEpoch \in [Tasks -> Epochs] /\ birth \in [Objs -> Epochs] /\ global \in Epochs
      /\ min \in Epochs /\ e \in Epochs
  BY <1>2, EpochTypes
<1>4. minEpoch'[t] = MinEpoch(batch[t] = <<>>, min, e)
  BY <1>3 DEF Retire
<1>5. EpochGeq(min, e) <=> Before(e, min)
  <2>1. Age(min) <= MaxAdvance /\ Age(e) <= MaxAdvance
    BY <1>2, <1>3, AgeType DEF Epochs, Clock, Before
  <2> QED
    BY <1>3, <2>1, AgeGeq DEF Epochs
<1>6. minEpoch'[t] = IF batch[t] = <<>> \/ Before(e, min) THEN e ELSE min
  BY <1>4, <1>5 DEF MinEpoch
<1>7. Pool(t) = Gathered(t) /\ (Gathered(t) = {} <=> batch[t] = <<>>) /\ Gathered(t) \subseteq Objs
      /\ \A x \in Gathered(t) : status[x] = "retired"
  BY <1>1, GathersWhole, GatheredFacts DEF Pool
<1>8. Pool(t)' = Gathered(t) \union {o} /\ (Retiring(t)' # NULL => batch'[t] = <<>>)
  BY <1>1, GathersWhole DEF Pool, Whole
<1>9. /\ birth'[o] = e
      /\ \A x \in Gathered(t) : birth'[x] = birth[x] /\ birth[x] \in Epochs
  BY <1>2, <1>3, <1>7 DEF Born
<1>10. /\ \A x \in Gathered(t) : Before(min, birth[x])
       /\ Gathered(t) # {} => \E x \in Gathered(t) : min = birth[x]
  BY <1>7 DEF Youngest
<1> HIDE DEF o, min, e
<1>11. \A x \in Gathered(t) \union {o} : Before(minEpoch'[t], birth'[x])
  <2>1. Before(minEpoch'[t], e)
    BY <1>3, <1>6, BeforeOrder
  <2>2. ASSUME NEW x \in Gathered(t)
        PROVE  Before(minEpoch'[t], birth[x])
    BY <1>3, <1>6, <1>7, <1>9, <1>10, <2>2, BeforeOrder
  <2> QED
    BY <1>9, <2>1, <2>2
<1>12. \E x \in Gathered(t) \union {o} : minEpoch'[t] = birth'[x]
  BY <1>6, <1>7, <1>9, <1>10
<1>13. pc'[t] \notin {"rt_load", "rt_cas"}
  BY <1>1
<1> QED
  BY <1>8, <1>11, <1>12, <1>13 DEF Youngest, Before, Age

\* Every batch keeps the least epoch of its nodes.
LEMMA YoungTask ==
  ASSUME Books, CounterNodeSpared, Shield, build.robust, NEW t \in Tasks, Good(t), Sound',
         Calls(t) \/ Steps(t), NEW u \in Tasks
  PROVE  Youngest(u)'
<1>1. /\ Handled(t) /\ Follows
      /\ Others(t) \/ Pushing(t) \/ \E c \in Cells : Retire(t, c)
  BY StepHandled
<1>2. Clock /\ Paced /\ Youngest(u) /\ Sound
  BY DEF Shield, Books
<1>3. Raised /\ Born
  BY <1>2, ClockTask
<1>4. minEpoch \in [Tasks -> Epochs] /\ link \in [Objs -> Objs]
  BY <1>2, EpochTypes, SoundParts DEF SharedTypeOK
<1>5. ASSUME NEW v \in Tasks, Retiring(v) # NULL
      PROVE  Whole(Retiring(v))' = Whole(Retiring(v)) \/ ~(Retiring(v)' = Retiring(v))
  <2>1. v \in Active(Retiring(v))
    BY DEF Active
  <2>2. PICK q : q = Retiring(v)
    OBVIOUS
  <2>3. q \in Objs
    BY <1>2, <1>4, <1>5, <2>2, Fields, SoundParts DEF Batches, Retiring, Ptrs
  <2>4. Whole(q)' = Whole(q)
    BY <1>1, <2>1, <2>2, <2>3 DEF Handled, Live
  <2> QED
    BY <2>2, <2>4 DEF Whole
<1>6. CASE u # t
  <2>1. Retiring(u)' = Retiring(u) /\ batch'[u] = batch[u] /\ pc'[u] = pc[u] /\ at'[u] = at[u]
    BY <1>1, <1>6 DEF Handled
  <2>2. minEpoch'[u] = minEpoch[u]
    <3>1. CASE Others(t) \/ Pushing(t)
      BY <3>1, Zenon DEF Others, Pushing, Lookups, Entries, Exits, Walkings,
         Enter1, Enter2, EnterLook, EnterAdd, Alloc, Rideable, Read, Deref, DerefValue, DerefGlobal,
         DerefAccess1, DerefAccess2, RtAccess, RtLoad, RtRetry, RtPush1, RtPush2, RtAdjust, RtCount,
         RtFin, Leave1, Leave2, LeaveTrim1, LeaveTrim2, LeaveRetry, LeaveCas, LeaveClear,
         LeaveAdjust, TakeList, Traverse, Ack, FreeList, Trim, own
    <3>2. CASE \E c \in Cells : Retire(t, c)
      BY <1>4, <1>6, <3>2 DEF Retire
    <3> QED
      BY <1>1, <3>1, <3>2
  <2> QED
    BY <1>2, <1>1, <1>3, <1>5, <2>1, <2>2, YoungOthers DEF Youngest
<1>7. CASE u = t /\ (Others(t) \/ Pushing(t))
  <2>1. minEpoch' = minEpoch
    BY <1>7, Zenon DEF Others, Pushing, Lookups, Entries, Exits, Walkings,
       Enter1, Enter2, EnterLook, EnterAdd, Alloc, Rideable, Read, Deref, DerefValue, DerefGlobal,
       DerefAccess1, DerefAccess2, RtAccess, RtLoad, RtRetry, RtPush1, RtPush2, RtAdjust, RtCount,
       RtFin, Leave1, Leave2, LeaveTrim1, LeaveTrim2, LeaveRetry, LeaveCas, LeaveClear,
       LeaveAdjust, TakeList, Traverse, Ack, FreeList, Trim, own
  <2>2. batch' = batch
    BY <1>7, KindsStay, FreeHandled DEF Others
  <2>3. Retiring(t)' \in {Retiring(t), NULL}
    <3>1. CASE Others(t)
      BY <3>1, OthersPlace
    <3>2. CASE Pushing(t)
      BY <1>2, <3>2, RtPlaces, KindsStay DEF Retiring, Paced
    <3> QED
      BY <1>7, <3>1, <3>2
  <2>4. /\ pc'[t] \in {"rt_load", "rt_cas"} => at'[t] = at[t]
        /\ pc'[t] \in {"rt_load", "rt_cas"} => Before(minEpoch[t], access[at[t]])
    <3>1. CASE Others(t)
      BY <3>1, OthersPlace DEF Retires
    <3>2. CASE Pushing(t)
      <4>1. /\ access[at[t]] \in Epochs /\ minEpoch[t] \in Epochs /\ global \in Epochs
            /\ at[t] \in Slots
        BY <1>2, EpochTypes
      <4>2. /\ Age(access[at[t]]) \in Int /\ Age(minEpoch[t]) \in Int /\ Age(global) \in Int
            /\ MaxAdvance \in Int
        BY <4>1, AgeType DEF Epochs
      <4>3. Age(access[at[t]]) <= MaxAdvance /\ Age(minEpoch[t]) <= MaxAdvance
        BY <1>2, <4>1, <4>2 DEF Clock, Before
      <4>4. EpochGeq(access[at[t]], minEpoch[t]) => Before(minEpoch[t], access[at[t]])
        BY <4>1, <4>3, AgeGeq DEF Epochs
      <4> QED
        BY <1>2, <1>7, <3>2, <4>4, RtPlaces DEF Paced, Youngest
    <3> QED
      BY <1>7, <3>1, <3>2
  <2>5. CASE Retiring(t)' = Retiring(t)
    BY <1>1, <1>2, <1>3, <1>5, <1>7, <2>1, <2>2, <2>4, <2>5, YoungOthers
  <2>6. CASE Retiring(t) # NULL /\ Retiring(t)' = NULL
    <3>1. batch[t] = <<>> /\ Gathered(t) = {}
      BY <1>2, <1>7, <2>6, GatheredFacts DEF Youngest
    <3>2. Pool(t)' = {}
      BY <2>2, <2>6, <3>1 DEF Pool, Gathered
    <3>3. pc'[t] \in {"rt_load", "rt_cas"} => Before(minEpoch'[t], access'[at'[t]])
      <4>1. pc'[t] \notin {"rt_load", "rt_cas"}
        <5>1. pc'[t] \in Retires => rt'[t].first # NULL
          BY DEF Good, Thread, Control
        <5>2. link' = link \/ Others(t)
          BY <1>7, KindsStay
        <5>3. ~Others(t)
          BY <2>6, OthersPlace
        <5>4. rt'[t].first \in {rt[t].first, NULL} /\ rt[t].first # NULL
          BY <1>2, <1>7, <2>6, <5>3, RtPlaces DEF Paced, Retiring
        <5>5. rt'[t].first = NULL
          BY <2>6, <5>2, <5>3, <5>4 DEF Retiring
        <5> QED
          BY <5>1, <5>5 DEF Retires
      <4> QED
        BY <4>1
    <3> QED
      BY <1>7, <2>6, <3>2, <3>3 DEF Youngest, Before, Age
  <2> QED
    BY <2>3, <2>5, <2>6
<1>8. CASE u = t /\ \E c \in Cells : Retire(t, c)
  BY <1>2, <1>3, <1>8, YoungRetire
<1> QED
  BY <1>1, <1>6, <1>7, <1>8

-----------------------------------------------------------------------------
(***************************************************************************)
(* The slots cover a node of each batch that was pushed there.             *)
(***************************************************************************)

\* A node that was pushed for a node of its batch stays so.
LEMMA AgedStays ==
  ASSUME Books, NEW t \in Tasks, Good(t), Handled(t), Raised, Born, NEW s \in Slots,
         NEW n \in InPlay, Live(link[n]), link[n] \in Objs, Aged(n, s)
  PROVE  Aged(n, s)'
<1>1. Sound /\ access[s] \in Epochs /\ birth \in [Objs -> Epochs]
  BY EpochTypes DEF Books
<1>2. PICK m \in Whole(link[n]) : Before(birth[m], access[s])
  BY DEF Aged
<1>3. Whole(link[n])' = Whole(link[n])
  <2>1. PICK q \in Objs : q = link[n]
    OBVIOUS
  <2>2. Whole(q)' = Whole(q) /\ link'[n] = q
    BY <2>1 DEF Handled
  <2> QED
    BY <2>1, <2>2 DEF Whole
<1>4. m \in Objs /\ birth'[m] = birth[m]
  BY <1>2 DEF Whole, Born
<1>5. access'[s] \in Epochs /\ birth[m] \in Epochs
  BY <1>1, <1>4, SameBuild DEF Good, SharedTypeOK, Epochs
<1>6. Before(birth[m], access'[s])
  BY <1>1, <1>2, <1>5, BeforeOrder DEF Raised
<1> QED
  BY <1>2, <1>3, <1>4, <1>6 DEF Aged, Before, Age

\* The nodes at the heads are of batches with a node that the slot covers.
LEMMA HeadsAged ==
  ASSUME Books, CounterNodeSpared, Shield, build.robust, NEW t \in Tasks, Good(t), Sound',
         Calls(t) \/ Steps(t), NEW s \in Slots, head'[s].ptr # NULL
  PROVE  Aged(head[s].ptr, s)'
<1>1. /\ Handled(t) /\ Follows
      /\ Others(t) \/ Pushing(t) \/ \E c \in Cells : Retire(t, c)
  BY StepHandled
<1>2. Clock /\ Raised /\ Born /\ Sound /\ Stalls /\ Youngest(t)
  BY ClockTask DEF Shield, Books
<1>3. ASSUME head'[s].ptr = head[s].ptr
      PROVE  Aged(head[s].ptr, s)'
  <2>1. PICK n \in InPlay : n = head[s].ptr
    BY <1>3, LineInPlay
  <2>2. n \in Objs /\ Live(link[n]) /\ link[n] \in Objs
    <3>1. n \in Objs
      BY LineInPlay
    <3>2. link \in [Objs -> Objs]
      BY <1>2, SoundParts DEF SharedTypeOK
    <3> QED
      BY <3>1, <3>2 DEF Live, Nodes
  <2>3. Aged(n, s)
    BY <1>2, <1>3, <2>1 DEF Stalls
  <2>4. Aged(n, s)'
    BY <1>1, <1>2, <2>2, <2>3, AgedStays
  <2> QED
    BY <1>3, <2>1, <2>4 DEF Aged, Before, Age
<1>4. CASE RtPush1(t) \/ RtPush2(t)
  <2>1. PICK n : n = Head(rt[t].todo)
    OBVIOUS
  <2>2. Lays(t, at[t], n)
    BY <1>4, <2>1, PushLays
  <2>3. /\ n \in Objs /\ link[n] = Retiring(t) /\ Retiring(t) \in Objs /\ t \in Active(Retiring(t))
        /\ at[t] \in Slots /\ head'[s].ptr = IF s = at[t] THEN n ELSE head[s].ptr
    BY <2>2, LaysFollow
  <2>4. status[n] = "retired" /\ link' = link /\ pc[t] = "rt_cas"
    BY <2>2, LaysNode DEF Lays, Stays
  <2>5. CASE s = at[t]
    <3>1. n \in Pool(t) /\ Gathered(t) = {}
      BY <1>2, <2>3, <2>4, GatheredFacts DEF Pool, Whole, Youngest
    <3>2. PICK m \in Pool(t) : minEpoch[t] = birth[m]
      BY <1>2, <3>1 DEF Youngest
    <3>3. m \in Whole(Retiring(t)) /\ Before(birth[m], access[s])
      BY <1>2, <2>3, <2>4, <2>5, <3>1, <3>2 DEF Pool, Youngest
    <3>4. PICK q \in Objs : q = Retiring(t)
      BY <2>3
    <3>5. Whole(q)' = Whole(q) /\ m \in Objs /\ birth'[m] = birth[m]
      BY <1>1, <1>2, <2>3, <3>3, <3>4 DEF Handled, Live, Whole, Born
    <3>6. Before(birth[m], access'[s])
      <4>1. /\ access[s] \in Epochs /\ birth[m] \in Epochs
        BY <1>2, <3>5, EpochTypes
      <4>2. access'[s] \in Epochs
        BY SameBuild DEF Good, SharedTypeOK, Epochs
      <4> QED
        BY <1>2, <3>3, <4>1, <4>2, BeforeOrder DEF Raised
    <3>7. head'[s].ptr = n /\ link'[n] = q
      BY <2>3, <2>4, <2>5, <3>4
    <3>8. m \in Whole(q)'
      BY <3>3, <3>4, <3>5
    <3> QED
      BY <3>5, <3>6, <3>7, <3>8 DEF Aged, Before, Age, Whole
  <2>6. CASE s # at[t]
    BY <1>3, <2>3, <2>6
  <2> QED
    BY <2>5, <2>6
<1>5. CASE ~(RtPush1(t) \/ RtPush2(t))
  <2>1. Views
    BY <1>1, <1>5, KindsView DEF Others, Pushing
  <2>2. head'[s].ptr = head[s].ptr
    BY <2>1 DEF Views
  <2> QED
    BY <1>3, <2>2
<1> QED
  BY <1>4, <1>5

\* So are the nodes in the lists of the threads.
LEMMA StallsTask ==
  ASSUME Books, CounterNodeSpared, Shield, build.robust, NEW t \in Tasks, Good(t), Sound',
         Calls(t) \/ Steps(t)
  PROVE  Stalls'
<1>1. Handled(t) /\ Follows
  BY StepHandled
<1>2. Clock /\ Raised /\ Born /\ Sound /\ Stalls
  BY ClockTask DEF Shield, Books
<1>3. Slots' = Slots
  BY SameBuild DEF Good
<1>4. \A s \in Slots : head'[s].ptr # NULL => Aged(head[s].ptr, s)'
  BY HeadsAged
<1>5. ASSUME NEW u \in Tasks, NEW n \in Line(u)'
      PROVE  Aged(n, vec[u])'
  <2>0. vec \in [Tasks -> Slots] /\ vec' \in [Tasks -> Slots]
    BY <1>2, <1>3, EpochTypes DEF Good, OwnTypeOK
  <2>1. PICK s \in Slots : s = vec'[u]
    BY <2>0
  <2>2. CASE vec'[u] = vec[u] /\ n \in Line(u)
    <3>1. n \in InPlay /\ Live(link[n]) /\ link[n] \in Objs
      BY <2>2, LineInPlay
    <3>2. Aged(n, s)
      BY <1>2, <2>1, <2>2 DEF Stalls
    <3>3. Aged(n, s)'
      BY <1>1, <1>2, <3>1, <3>2, AgedStays
    <3> QED
      BY <2>1, <3>3 DEF Aged, Before, Age
  <2>3. CASE n = head'[vec'[u]].ptr /\ n # NULL
    BY <1>4, <2>1, <2>3 DEF Aged, Before, Age, Whole
  <2> QED
    BY <1>1, <1>5, <2>2, <2>3 DEF Follows
<1> QED
  BY <1>3, <1>4, <1>5 DEF Stalls

\* Every step keeps the shield.
LEMMA ShieldTask ==
  ASSUME Books, CounterNodeSpared, Shield, NEW t \in Tasks, Good(t), Sound', Calls(t) \/ Steps(t)
  PROVE  Shield'
<1>1. Clock' /\ HeldGuarded' /\ Paced'
  BY ClockTask, HeldTask, PacedTask DEF Shield
<1>2. build' = build
  BY DEF Good
<1>3. build'.robust => Stalls' /\ \A u \in Tasks : Youngest(u)'
  BY <1>2, StallsTask, YoungTask
<1> QED
  BY <1>1, <1>3 DEF Shield

\* It is up when the run starts.
LEMMA ShieldInit ==
  ASSUME HyalineInit
  PROVE  Shield
<1>1. build \in Builds /\ Slots \subseteq Int
  BY DEF HyalineInit, Slots
<1>2. /\ \A s \in Slots : head[s].ptr = NULL /\ access[s] = StartEpoch
      /\ global = StartEpoch /\ \A o \in Objs : birth[o] = StartEpoch
      /\ \A t \in Tasks : /\ minEpoch[t] = StartEpoch /\ pc[t] = "out" /\ held[t] = {}
                          /\ batch[t] = <<>> /\ rt[t] = NoRetire
  BY DEF HyalineInit
<1>3. Age(StartEpoch) = 0 /\ 0 <= MaxAdvance
  BY AgeStart
<1>4. \A t \in Tasks : ~Inside(t) /\ Line(t) = {}
  BY <1>2 DEF Inside, Line
<1>5. Clock
  BY <1>2, <1>3 DEF Clock, Before
<1>6. HeldGuarded /\ Paced
  BY <1>2 DEF HeldGuarded, Paced, Loaded
<1>7. \A t \in Tasks : Pool(t) = {} /\ Retiring(t) = NULL
  BY <1>2 DEF Pool, Gathered, Retiring, NoRetire
<1>8. \A t \in Tasks : Youngest(t)
  BY <1>2, <1>7 DEF Youngest
<1>9. Stalls
  BY <1>2, <1>4 DEF Stalls
<1> QED
  BY <1>5, <1>6, <1>8, <1>9 DEF Shield

-----------------------------------------------------------------------------
(***************************************************************************)
(* What the threads of Hyaline-S have still to acknowledge, step by step.  *)
(***************************************************************************)

\* A thread that looks at the same nodes.
LEMMA SameBehind ==
  ASSUME NEW u \in Tasks, build' = build, next' = next, vec'[u] = vec[u],
         handle'[u] = handle[u], Inside(u)' <=> Inside(u),
         Inside(u) => head'[vec[u]].ptr = head[vec[u]].ptr,
         wk'[u].segs = wk[u].segs
  PROVE  Behind(u)' = Behind(u) /\ (Walker(u) => Walker(u)')
<1>1. Line(u)' = Line(u)
  BY SameView
<1>2. Behind(u)' = Behind(u)
  BY <1>1 DEF Behind
<1>3. Walker(u) => Walker(u)'
  BY DEF Walker
<1> QED
  BY <1>2, <1>3

\* A thread that is not in retire's walk or in leave is where it was, or comes in.
LEMMA StillBehind ==
  ASSUME Books, NEW t \in Tasks, Good(t), Sound', Walker(t),
         \/ Lookups(t) \/ Entries(t) \/ FreeList(t) \/ RtFin(t)
         \/ LeaveClear(t) \/ LeaveAdjust(t) \/ Leave2(t) \/ LeaveTrim2(t) \/ LeaveRetry(t)
         \/ RtAccess(t) \/ RtLoad(t) \/ RtRetry(t) \/ RtAdjust(t) \/ RtCount(t)
         \/ \E c \in Cells : Retire(t, c)
  PROVE  Behind(t)' = Behind(t) /\ Walker(t)' /\ (vec'[t] = vec[t] \/ Behind(t) = 0)
<1>1. Sound /\ Sited /\ Tidy(t) /\ IsFiniteSet(Objs)
  BY BooksParts DEF Books, AllTidy
<1>2. build' = build
  BY DEF Good
<1>3. Views
  BY KindsView DEF Exits, Walkings
<1>4. CASE ~Entries(t)
  <2>1. /\ vec' = vec /\ handle' = handle /\ wk'[t].segs = wk[t].segs
        /\ Inside(t)' <=> Inside(t)
    <3>1. CASE Lookups(t)
      BY <1>1, <3>1, IdleFx DEF Lookups, Inside, Reads, Rests
    <3>2. CASE FreeList(t) \/ RtFin(t) \/ LeaveAdjust(t) \/ LeaveClear(t)
      BY <1>1, <3>2, FreeFx, LastAdjustFx, LeaveClearFx DEF Untouched
    <3>3. CASE Leave2(t) \/ LeaveTrim2(t) \/ LeaveRetry(t)
      BY <1>1, <3>3, LoadHeadFx DEF Untouched, Inside
    <3>4. CASE RtAccess(t) \/ RtLoad(t) \/ RtRetry(t) \/ RtAdjust(t) \/ RtCount(t)
      <4>1. /\ vec' = vec /\ handle' = handle /\ wk'[t].segs = <<>> /\ Inside(t)'
            /\ pc[t] \in Retires
        <5>1. CASE RtAccess(t) \/ RtLoad(t) \/ RtRetry(t)
          BY <1>1, <5>1, RtLookFx DEF Untouched, Onward, Inside, Retires
        <5>2. CASE RtAdjust(t)
          BY <1>1, <5>2, RtAdjustFx DEF Inside, Retires
        <5>3. CASE RtCount(t)
          BY <1>1, <5>3, RtCountFx DEF Untouched, Onward, Retires
        <5> QED
          BY <3>4, <5>1, <5>2, <5>3
      <4>2. Inside(t) /\ wk[t].segs = <<>>
        BY <1>1, <4>1 DEF Inside, Retires, Tidy, Walking
      <4> QED
        BY <4>1, <4>2
    <3>5. CASE \E c \in Cells : Retire(t, c)
      BY <1>1, <3>5, RetireFx DEF Inside
    <3> QED
      BY <1>4, <3>1, <3>2, <3>3, <3>4, <3>5
  <2>2. next' = next /\ (Inside(t) => head'[vec[t]].ptr = head[vec[t]].ptr)
    BY <1>3, <2>1 DEF Views, Viewed
  <2> QED
    BY <1>2, <2>1, <2>2, SameBehind
<1>5. CASE Entries(t)
  <2>1. /\ next' = next /\ wk' = wk /\ pc[t] \in Rests /\ pc'[t] = "in"
        /\ handle'[t] = head'[vec'[t]].ptr
    BY <1>1, <1>5, EnterFx DEF Entries
  <2>2. ~Inside(t) /\ Inside(t)' /\ wk[t].segs = <<>>
    BY <1>1, <2>1 DEF Inside, Rests, Tidy, Walking
  <2>3. next \in [Objs -> Ptrs] /\ wk[t].segs \in Seq(Segment)
    BY <1>1, LineFacts
  <2>4. Total(next, <<>>) = 0
    BY <1>1, <2>2, <2>3, TotalType
  <2>5. Line(t) = {} /\ Cardinality({}) = 0
    BY <2>2, FS_EmptySet DEF Line
  <2>6. Line(t)' \ {handle'[t]} = {}
    <3>1. handle'[t] \in Ptrs /\ Line(t)' = Trail(next, handle'[t], handle'[t])
      BY <2>1, <2>2 DEF Good, OwnTypeOK, Line, Chain
    <3> QED
      BY <1>1, <2>3, <3>1, TrailSame
  <2>7. Behind(t) = 0
    BY <2>2, <2>4, <2>5 DEF Behind
  <2>8. Behind(t)' = 0
    <3>1. Behind(t)' = Cardinality(Line(t)' \ {handle'[t]}) + Total(next, <<>>)
      BY <2>1, <2>2 DEF Behind
    <3>2. Cardinality(Line(t)' \ {handle'[t]}) = 0
      BY <2>5, <2>6, Zenon
    <3> QED
      BY <2>4, <3>1, <3>2
  <2>9. Walker(t)'
    BY <2>1, <2>2 DEF Walker
  <2> QED
    BY <2>7, <2>8, <2>9
<1> QED
  BY <1>4, <1>5

\* Who is in the slot has one more node behind him after a push.
LEMMA PushBehind ==
  ASSUME Books, CounterNodeSpared, NEW t \in Tasks, Good(t), Sound', RtPush2(t),
         NEW u \in Tasks, Walker(u)
  PROVE  Behind(u)' = Behind(u) + One(Inside(u) /\ vec[u] = at[t]) /\ Walker(u)'
<1> DEFINE s == at[t]
           n == Head(rt[t].todo)
           S == wk[u].segs
<1>1. Sound /\ Walked /\ Tidy(t) /\ IsFiniteSet(Objs)
  BY BooksParts DEF Books
<1>2. Lays(t, s, n)
  BY PushLays
<1>3. s \in Slots /\ n \in Objs /\ n \notin InPlay /\ n # NULL
  BY <1>2, LaysNode
<1>4. /\ next' = [next EXCEPT ![n] = head[s].ptr] /\ head' = [head EXCEPT ![s].ptr = n]
      /\ vec' = vec /\ handle' = handle
  BY <1>2 DEF Lays
<1>5. (Inside(u)' <=> Inside(u)) /\ wk'[u].segs = S
  <2>1. CASE u = t
    BY <1>1, <1>2, <2>1 DEF Lays, Inside, Tidy, Walking
  <2>2. CASE u # t
    BY <1>1, <2>2, KeptThreads DEF Good, Kept, Sound, Thread
  <2> QED
    BY <2>1, <2>2
<1>6. /\ next \in [Objs -> Ptrs] /\ handle[u] \in Ptrs /\ S \in Seq(Segment)
      /\ Line(u) \subseteq Objs /\ (Inside(u) => handle[u] \in Line(u) \union {NULL})
      /\ (~Inside(u) => Line(u) = {})
  BY <1>1, LineFacts, PathParts, Outsider
<1>7. Line(u) \subseteq InPlay /\ Rest(next, S) \subseteq InPlay
  BY LineInPlay, OwedIs DEF InPlay, AllOwed
<1>8. n \notin Line(u) /\ next' \in [Objs -> Ptrs]
  BY <1>3, <1>7 DEF Sound, HyalineTypeOK
<1>9. Line(u)' = Line(u) \union (IF Inside(u) /\ vec[u] = s THEN {n} ELSE {})
  <2>1. /\ Inside(u) /\ vec[u] = s => Line(u)' = Line(u) \union {n}
        /\ ~(Inside(u) /\ vec[u] = s) => Line(u)' = Line(u)
    <3> HIDE DEF s, n, S
    <3> QED
      BY <1>1, <1>3, <1>4, <1>5, <1>8, PushLine
  <2>2. CASE Inside(u) /\ vec[u] = s
    BY <2>1, <2>2
  <2>3. CASE ~(Inside(u) /\ vec[u] = s)
    BY <2>1, <2>3
  <2> QED
    BY <2>2, <2>3
<1>10. /\ IsFiniteSet(Line(u) \ {handle[u]}) /\ Cardinality(Line(u) \ {handle[u]}) \in Nat
       /\ Total(next, S) \in Nat
  BY <1>1, <1>6, FS_Subset, FS_CardinalityType, TotalType
<1>11. Total(next', S) = Total(next, S) /\ (Walker(u) => Walker(u)')
  <2>1. \A m \in Rest(next, S) : next'[m] = next[m]
    BY <1>3, <1>4, <1>6, <1>7, LineInPlay
  <2> HIDE DEF S
  <2>2. /\ Total(next', S) = Total(next, S)
        /\ \A i \in DOMAIN S : Closes(next, S[i]) => Closes(next', S[i])
    BY <1>1, <1>6, <1>8, <2>1, TotalFrame
  <2> QED
    BY <1>5, <2>2 DEF Walker, S
<1> HIDE DEF n, s
<1>12. Cardinality(Line(u)' \ {handle'[u]})
         = Cardinality(Line(u) \ {handle[u]}) + One(Inside(u) /\ vec[u] = s)
  <2> DEFINE A == Line(u) \ {handle[u]}
  <2>1. CASE Inside(u) /\ vec[u] = s
    <3>1. n # handle[u]
      BY <1>3, <1>6, <1>8, <2>1
    <3>2. Line(u)' \ {handle'[u]} = A \union {n} /\ n \notin A
      BY <1>4, <1>8, <1>9, <2>1, <3>1
    <3> HIDE DEF A
    <3>3. Cardinality(A \union {n}) = Cardinality(A) + 1
      BY <1>10, <3>2, FS_AddElement DEF A
    <3>4. Cardinality(Line(u)' \ {handle'[u]}) = Cardinality(A \union {n})
      BY <3>2, Zenon
    <3> QED
      BY <2>1, <3>3, <3>4 DEF A, One
  <2>2. CASE ~(Inside(u) /\ vec[u] = s)
    <3>1. Line(u)' \ {handle'[u]} = A
      BY <1>4, <1>9, <2>2
    <3>2. Cardinality(Line(u)' \ {handle'[u]}) = Cardinality(A)
      BY <3>1, Zenon
    <3> QED
      BY <1>10, <2>2, <3>2 DEF One
  <2> QED
    BY <2>1, <2>2
<1>13. Behind(u)' = Cardinality(Line(u)' \ {handle'[u]}) + Total(next', S)
  BY <1>5 DEF Behind
<1>14. Behind(u) = Cardinality(Line(u) \ {handle[u]}) + Total(next, S)
  BY DEF Behind
<1> HIDE DEF S
<1> QED
  BY <1>10, <1>11, <1>12, <1>13, <1>14 DEF s, One

-----------------------------------------------------------------------------
(***************************************************************************)
(* The counters of the slots.                                              *)
(***************************************************************************)
Tallied(s) ==
    counter[s] = Cardinality(Sum([u \in Tasks |-> Unacked(u, s)]))
                 - Cardinality(Sum([u \in Tasks |-> Uncounted(u, s)]))
Acked == Acks => (\A t \in Tasks : Walker(t)) /\ \A s \in Slots : Tallied(s)

\* What is summed up are numbers.
Quantities ==
    \A u \in Tasks :
        /\ Behind(u) \in Nat
        /\ \A s \in Slots : /\ Unacked(u, s) = IF vec[u] = s THEN Behind(u) ELSE 0
                            /\ Unacked(u, s) \in Nat /\ Uncounted(u, s) \in Nat
LEMMA QuantitiesHold == Sound => Quantities
<1> SUFFICES ASSUME Sound, NEW u \in Tasks
             PROVE  /\ Behind(u) \in Nat
                    /\ \A s \in Slots : /\ Unacked(u, s) = IF vec[u] = s THEN Behind(u) ELSE 0
                                        /\ Unacked(u, s) \in Nat /\ Uncounted(u, s) \in Nat
  BY DEF Quantities
<1> DEFINE S == wk[u].segs
           C == Cardinality(Line(u) \ {handle[u]})
<1>2. /\ IsFiniteSet(Objs) /\ next \in [Objs -> Ptrs] /\ S \in Seq(Segment)
      /\ Line(u) \ {handle[u]} \subseteq Objs
  BY BlocksAssumption, LineFacts
<1>3. C \in Nat
  BY <1>2, FS_Subset, FS_CardinalityType
<1>4. Part(next, S, 1) \in Nat /\ Part(next, S, 2) \in Nat
  BY <1>2, SizeType DEF Part
<1>5. \A s : Unacked(u, s) = IF vec[u] = s THEN C + Part(next, S, 1) + Part(next, S, 2) ELSE 0
  BY DEF Unacked, Part, Size, Chain, One
<1>6. Behind(u) = C + (Part(next, S, 1) + Part(next, S, 2))
  BY DEF Behind, Total
<1>7. \A s : Uncounted(u, s) \in Nat
  BY Fields, ClientAssumption DEF Sound, Uncounted, Batches
<1> HIDE DEF C, S
<1> QED
  BY <1>3, <1>4, <1>5, <1>6, <1>7

\* A step changes what one thread has to acknowledge.
LEMMA OneTallied ==
  ASSUME Sound, Sound', build' = build, NEW s \in Slots, Tallied(s), NEW t \in Tasks,
         \A u \in Tasks \ {t} : Unacked(u, s)' = Unacked(u, s) /\ Uncounted(u, s)' = Uncounted(u, s),
         counter'[s] = counter[s] + (Unacked(t, s)' - Unacked(t, s))
                       - (Uncounted(t, s)' - Uncounted(t, s))
  PROVE  Tallied(s)'
<1> DEFINE A == [u \in Tasks |-> Unacked(u, s)]
           B == [u \in Tasks |-> Uncounted(u, s)]
           G == [u \in Tasks |-> Unacked(u, s)']
           H == [u \in Tasks |-> Uncounted(u, s)']
<1>1. A \in [Tasks -> Nat] /\ B \in [Tasks -> Nat]
  BY QuantitiesHold DEF Quantities
<1>2. G \in [Tasks -> Nat] /\ H \in [Tasks -> Nat]
  <2>1. Quantities' /\ Slots' = Slots
    <3>1. Quantities'
      BY QuantitiesHold, PTL
    <3> QED
      BY <3>1, SameBuild
  <2> QED
    BY <2>1 DEF Quantities
<1>3. /\ \A u \in Tasks \ {t} : G[u] = A[u] /\ H[u] = B[u]
      /\ A[t] = Unacked(t, s) /\ B[t] = Uncounted(t, s)
      /\ G[t] = Unacked(t, s)' /\ H[t] = Uncounted(t, s)'
  OBVIOUS
<1>4. counter[s] = Cardinality(Sum(A)) - Cardinality(Sum(B))
  BY DEF Tallied
<1>5. counter'[s] = Cardinality(Sum(G)) - Cardinality(Sum(H)) => Tallied(s)'
  BY DEF Tallied
<1> HIDE DEF A, B, G, H
<1>6. /\ Cardinality(Sum(A)) \in Nat /\ Cardinality(Sum(G)) \in Nat
      /\ Cardinality(Sum(G)) = Cardinality(Sum(A)) + G[t] - A[t]
  BY <1>1, <1>2, <1>3, SumChange
<1>7. /\ Cardinality(Sum(B)) \in Nat /\ Cardinality(Sum(H)) \in Nat
      /\ Cardinality(Sum(H)) = Cardinality(Sum(B)) + H[t] - B[t]
  BY <1>1, <1>2, <1>3, SumChange, ZenonT(60)
<1>8. G[t] \in Nat /\ A[t] \in Nat /\ H[t] \in Nat /\ B[t] \in Nat
  BY <1>1, <1>2
<1> QED
  BY <1>3, <1>4, <1>5, <1>6, <1>7, <1>8

\* The push of retire: those inside have one node more, which is not counted yet.
LEMMA PushTallied ==
  ASSUME Books, CounterNodeSpared, Acked, Acks, NEW t \in Tasks, Good(t), Sound', RtPush2(t)
  PROVE  /\ \A u \in Tasks : Walker(u)'
         /\ \A s \in Slots : Tallied(s)'
<1>1. Sound /\ Walked /\ Tidy(t) /\ IsFiniteSet(Objs) /\ build' = build /\ Slots' = Slots
  BY BooksParts, SameBuild DEF Books, Good
<1>2. \A u \in Tasks : /\ Walker(u)'
                       /\ Behind(u)' = Behind(u) + One(Inside(u) /\ vec[u] = at[t])
  BY PushBehind DEF Acked
<1>3. /\ vec' = vec /\ counter' = counter /\ at'[t] = at[t] /\ pc[t] = "rt_cas"
      /\ pc'[t] \in {"rt_adj", "rt_count"} /\ rt'[t].refs = head[at[t]].ref
      /\ Acks' /\ at[t] \in Slots
  <2>1. /\ vec' = vec /\ at'[t] = at[t] /\ pc[t] = "rt_cas" /\ pc'[t] \in {"rt_adj", "rt_count"}
    BY <1>1, RtPush2Fx
  <2>2. counter' = counter
    BY DEF RtPush2, epochs
  <2>3. rt'[t].refs = head[at[t]].ref
    <3>1. rt[t] \in Batches /\ rt \in [Tasks -> Batches]
      BY <1>1, Fields DEF Sound
    <3>2. PICK r : /\ rt' = [rt EXCEPT ![t] = r] /\ r.refs = head[at[t]].ref
      <4> DEFINE n == head[at[t]].ref
                 r == [rt[t] EXCEPT !.refs = IF Acks THEN n ELSE 0, !.prev = NULL]
                 q == [r EXCEPT !.node = rt[t].prev, !.amt = (Addend + n) % CounterMod]
      <4>1. r.refs = n /\ q.refs = n
        BY <3>1 DEF Batches
      <4>2. rt' = [rt EXCEPT ![t] = r] \/ rt' = [rt EXCEPT ![t] = q]
        BY DEF RtPush2
      <4> HIDE DEF r, q
      <4> QED
        BY <4>1, <4>2
    <3> QED
      BY <3>1, <3>2
  <2> QED
    BY <1>1, <2>1, <2>2, <2>3, SameBuild, Fields DEF Sound
<1>4. ASSUME NEW s \in Slots
      PROVE  Tallied(s)'
  <2> DEFINE S == IF s = at[t] THEN Within(s) ELSE {}
             A == [u \in Tasks |-> Unacked(u, s)]
             B == [u \in Tasks |-> Uncounted(u, s)]
             G == [u \in Tasks |-> Unacked(u, s)']
             H == [u \in Tasks |-> Uncounted(u, s)']
  <2>1. Quantities /\ Quantities'
    BY <1>1, QuantitiesHold, PTL
  <2>2. A \in [Tasks -> Nat] /\ B \in [Tasks -> Nat] /\ G \in [Tasks -> Nat] /\ H \in [Tasks -> Nat]
    BY <1>1, <2>1 DEF Quantities
  <2>3. S \in SUBSET Tasks
    BY DEF Within
  <2>4. \A u \in Tasks : G[u] = A[u] + One(u \in S)
    <3>1. \A u \in Tasks : /\ Unacked(u, s) = IF vec[u] = s THEN Behind(u) ELSE 0
                           /\ Unacked(u, s)' = IF vec'[u] = s THEN Behind(u)' ELSE 0
                           /\ Behind(u) \in Nat
      BY <1>1, <2>1 DEF Quantities
    <3>2. \A u \in Tasks : u \in S <=> vec[u] = s /\ Inside(u) /\ vec[u] = at[t]
      BY DEF Within
    <3> HIDE DEF S
    <3> QED
      BY <1>2, <1>3, <3>1, <3>2 DEF One
  <2>5. \A u \in Tasks \ {t} : H[u] = B[u]
    BY DEF Good, Kept, Uncounted
  <2>6. B[t] = 0 /\ H[t] = Cardinality(S)
    BY <1>1, <1>3, FS_EmptySet DEF Uncounted, Sound, HeadsCount, Within
  <2>7. counter[s] = Cardinality(Sum(A)) - Cardinality(Sum(B))
    BY DEF Tallied, Acked
  <2>8. counter'[s] = Cardinality(Sum(G)) - Cardinality(Sum(H)) => Tallied(s)'
    BY DEF Tallied
  <2> HIDE DEF A, B, G, H, S
  <2>9. Cardinality(Sum(G)) = Cardinality(Sum(A)) + Cardinality(S) /\ Cardinality(Sum(A)) \in Nat
    BY <2>2, <2>3, <2>4, SumGrow, SumChange, ZenonT(60)
  <2>10. /\ Cardinality(Sum(B)) \in Nat /\ Cardinality(Sum(H)) \in Nat
         /\ Cardinality(Sum(H)) = Cardinality(Sum(B)) + Cardinality(S) - 0
    BY <2>2, <2>5, <2>6, SumChange
  <2>11. Cardinality(S) \in Nat
    BY <2>2, <2>6
  <2> QED
    BY <1>3, <2>7, <2>8, <2>9, <2>10, <2>11
<1> QED
  BY <1>2, <1>4

Counting == {"rt_adj", "rt_count"}
\* The steps of one thread that leave the counters alone.
Silences(t) ==
    \/ Lookups(t) \/ Entries(t) \/ FreeList(t) \/ RtFin(t)
    \/ LeaveClear(t) \/ LeaveAdjust(t) \/ Leave2(t) \/ LeaveTrim2(t) \/ LeaveRetry(t)
    \/ RtAccess(t) \/ RtLoad(t) \/ RtRetry(t) \/ RtAdjust(t)
    \/ LeaveCas(t) \/ Trim(t) \/ Traverse(t)
    \/ \E c \in Cells : Retire(t, c)

\* They do so, ...
LEMMA SilencesCounter ==
  ASSUME NEW t \in Tasks, Silences(t)
  PROVE  counter' = counter
<1> USE DEF mem, epochs
<1>1. CASE Lookups(t)
  BY <1>1 DEF Lookups, Enter2, EnterLook, Alloc, Rideable, Read, Deref, DerefValue, DerefGlobal,
              DerefAccess1, DerefAccess2
<1>2. CASE Entries(t) \/ FreeList(t) \/ RtFin(t) \/ Trim(t) \/ Traverse(t)
  BY <1>2, Zenon DEF Entries, Enter1, EnterAdd, FreeList, RtFin, Trim, Traverse
<1>3. CASE \/ LeaveClear(t) \/ LeaveAdjust(t) \/ Leave2(t) \/ LeaveTrim2(t) \/ LeaveRetry(t)
           \/ LeaveCas(t)
  BY <1>3 DEF LeaveClear, LeaveAdjust, Leave2, LeaveTrim2, LeaveRetry, LeaveCas
<1>4. CASE RtAccess(t) \/ RtLoad(t) \/ RtRetry(t) \/ RtAdjust(t) \/ \E c \in Cells : Retire(t, c)
  BY <1>4 DEF RtAccess, RtLoad, RtRetry, RtAdjust, Retire
<1> QED
  BY <1>1, <1>2, <1>3, <1>4 DEF Silences

\* ... and nothing that is pushed is counted by them.
LEMMA SilencesCount ==
  ASSUME Sound, Sited, NEW t \in Tasks, Tidy(t), Silences(t), NEW s
  PROVE  Uncounted(t, s)' = Uncounted(t, s)
<1>1. CASE RtAdjust(t)
  <2>1. pc[t] = "rt_adj" /\ pc'[t] = "rt_count" /\ at'[t] = at[t]
    BY <1>1, RtAdjustFx
  <2>2. rt'[t].refs = rt[t].refs
    BY <1>1, Fields DEF Sound, RtAdjust, Batches
  <2> QED
    BY <2>1, <2>2 DEF Uncounted
<1>2. ASSUME ~RtAdjust(t)
      PROVE  pc[t] \notin Counting /\ pc'[t] \notin Counting
  <2>1. CASE Lookups(t)
    BY <2>1, IdleFx DEF Lookups, Reads, Rests, Counting
  <2>2. CASE Entries(t)
    BY <2>2, EnterFx DEF Entries, Rests, Counting
  <2>3. CASE FreeList(t)
    BY <2>3, FreeFx DEF Counting
  <2>4. CASE RtFin(t) \/ LeaveAdjust(t)
    BY <2>4, LastAdjustFx DEF Counting
  <2>5. CASE LeaveClear(t)
    BY <2>5, LeaveClearFx DEF Counting
  <2>6. CASE Leave2(t) \/ LeaveTrim2(t) \/ LeaveRetry(t)
    BY <2>6, LoadHeadFx DEF Counting
  <2>7. CASE RtAccess(t) \/ RtLoad(t) \/ RtRetry(t)
    BY <2>7, RtLookFx DEF Onward, Counting
  <2>8. CASE LeaveCas(t)
    BY <2>8, LeaveCasFx DEF Counting
  <2>9. CASE Trim(t)
    BY <2>9, TrimFx DEF Counting
  <2>10. CASE Traverse(t)
    BY <2>10, TraverseFx DEF Counting
  <2>11. CASE \E c \in Cells : Retire(t, c)
    BY <2>11, RetireFx DEF Counting
  <2> QED
    BY <1>2, <2>1, <2>2, <2>3, <2>4, <2>5, <2>6, <2>7, <2>8, <2>9, <2>10, <2>11 DEF Silences
<1> QED
  BY <1>1, <1>2 DEF Uncounted, Counting

\* Every other thread has as much to acknowledge as before, unless a node is pushed.
LEMMA OthersBehind ==
  ASSUME Books, NEW t \in Tasks, Good(t), Sound', Views, NEW u \in Tasks \ {t}
  PROVE  /\ Behind(u)' = Behind(u) /\ (Walker(u) => Walker(u)')
         /\ vec'[u] = vec[u] /\ \A s : Uncounted(u, s)' = Uncounted(u, s)
<1>1. /\ vec'[u] = vec[u] /\ handle'[u] = handle[u] /\ wk'[u] = wk[u] /\ build' = build
      /\ pc'[u] = pc[u] /\ at'[u] = at[u] /\ rt'[u] = rt[u] /\ next' = next
      /\ (Inside(u)' <=> Inside(u))
  BY KeptThreads DEF Good, Kept, Views, Books, Sound, Thread
<1>2. Inside(u) => head'[vec[u]].ptr = head[vec[u]].ptr
  BY <1>1 DEF Views, Viewed
<1>3. Behind(u)' = Behind(u) /\ (Walker(u) => Walker(u)')
  BY <1>1, <1>2, SameBehind
<1>4. \A s : Uncounted(u, s)' = Uncounted(u, s)
  BY <1>1 DEF Uncounted
<1> QED
  BY <1>1, <1>3, <1>4

\* The step of one thread that pushes nothing: what it counts is what it acknowledges.
LEMMA OneAcked ==
  ASSUME Books, Acked, Acks, NEW t \in Tasks, Good(t), Sound', Views, Walker(t)',
         \A s \in Slots : counter'[s] = counter[s] + (Unacked(t, s)' - Unacked(t, s))
                                        - (Uncounted(t, s)' - Uncounted(t, s))
  PROVE  /\ \A u \in Tasks : Walker(u)'
         /\ \A s \in Slots : Tallied(s)'
<1>1. Sound /\ build' = build /\ Slots' = Slots
  BY SameBuild DEF Books, Good
<1>2. \A u \in Tasks : Walker(u)'
  BY OthersBehind DEF Acked
<1>3. Quantities /\ Quantities'
  BY <1>1, QuantitiesHold, PTL
<1>4. ASSUME NEW s \in Slots
      PROVE  Tallied(s)'
  <2>1. \A u \in Tasks \ {t} : Unacked(u, s)' = Unacked(u, s) /\ Uncounted(u, s)' = Uncounted(u, s)
    <3>1. ASSUME NEW u \in Tasks \ {t}
          PROVE  Unacked(u, s)' = Unacked(u, s) /\ Uncounted(u, s)' = Uncounted(u, s)
      BY <1>1, <1>3, OthersBehind DEF Quantities
    <3> QED
      BY <3>1
  <2> QED
    BY <1>1, <2>1, OneTallied DEF Acked
<1> QED
  BY <1>2, <1>4

\* Every step keeps the counters of Hyaline-S exact.
LEMMA AckedTask ==
  ASSUME Books, CounterNodeSpared, Acked, NEW t \in Tasks, Good(t), Sound', Calls(t) \/ Steps(t)
  PROVE  Acked'
<1>1. /\ Sound /\ Sited /\ Tidy(t) /\ build' = build /\ Slots' = Slots /\ Acks' = Acks
  BY BooksParts, SameBuild DEF Books, Good
<1> SUFFICES ASSUME Acks
             PROVE  (\A u \in Tasks : Walker(u)') /\ \A s \in Slots : Tallied(s)'
  BY <1>1 DEF Acked
<1>2. Walker(t) /\ Quantities /\ Quantities'
  <2>1. Quantities /\ Quantities'
    BY <1>1, QuantitiesHold, PTL
  <2> QED
    BY <2>1 DEF Acked
<1>3. /\ \A s \in Slots : /\ Unacked(t, s) = IF vec[t] = s THEN Behind(t) ELSE 0
                          /\ Unacked(t, s)' = IF vec'[t] = s THEN Behind(t)' ELSE 0
                          /\ Uncounted(t, s) \in Nat /\ Uncounted(t, s)' \in Nat
      /\ Behind(t) \in Nat /\ Behind(t)' \in Nat
  BY <1>1, <1>2 DEF Quantities
<1>4. counter \in [Slots -> Int] /\ vec[t] \in Slots
  BY <1>1 DEF Sound, HyalineTypeOK
<1>5. CASE RtPush2(t)
  BY <1>5, PushTallied
<1>6. CASE Ack(t)
  <2>1. Views
    BY <1>6, KindsView DEF Walkings
  <2> DEFINE n == Head(wk[t].segs).n
  <2>2. /\ n \in Nat /\ Behind(t)' = Behind(t) - n /\ Walker(t)'
        /\ counter' = [counter EXCEPT ![vec[t]] = @ - n]
    BY <1>2, <1>6, AckBehind
  <2>3. /\ vec' = vec /\ \A s \in Slots : Uncounted(t, s)' = Uncounted(t, s)
    BY <1>1, <1>6, AckFx DEF Untouched, Uncounted
  <2> HIDE DEF n
  <2>4. \A s \in Slots : counter'[s] = counter[s] + (Unacked(t, s)' - Unacked(t, s))
                                       - (Uncounted(t, s)' - Uncounted(t, s))
    BY <1>3, <1>4, <2>2, <2>3
  <2> QED
    BY <2>1, <2>2, <2>4, OneAcked
<1>7. CASE RtCount(t)
  <2>1. Views
    BY <1>7, KindsView
  <2>2. Behind(t)' = Behind(t) /\ Walker(t)' /\ (vec'[t] = vec[t] \/ Behind(t) = 0)
    BY <1>2, <1>7, StillBehind
  <2>3. /\ pc[t] = "rt_count" /\ pc'[t] \notin Counting /\ at[t] \in Slots
        /\ counter' = [counter EXCEPT ![at[t]] = @ + rt[t].refs]
    BY <1>1, <1>7, RtCountFx, Fields DEF Onward, Counting, RtCount, Sound
  <2>4. \A s \in Slots : /\ Uncounted(t, s) = IF at[t] = s THEN rt[t].refs ELSE 0
                         /\ Uncounted(t, s)' = 0
    BY <2>3 DEF Uncounted, Counting
  <2>5. rt[t].refs \in Nat
    BY <1>3, <2>3, <2>4
  <2>6. \A s \in Slots : counter'[s] = counter[s] + (Unacked(t, s)' - Unacked(t, s))
                                       - (Uncounted(t, s)' - Uncounted(t, s))
    BY <1>3, <1>4, <2>2, <2>3, <2>4, <2>5
  <2> QED
    BY <2>1, <2>2, <2>6, OneAcked
<1>8. CASE Silences(t)
  <2>1. Views
    BY <1>8, KindsView DEF Silences, Exits, Walkings
  <2>2. Behind(t)' = Behind(t) /\ Walker(t)' /\ (vec'[t] = vec[t] \/ Behind(t) = 0)
    <3>1. CASE LeaveCas(t)
      BY <1>1, <1>2, <3>1, LeaveCasBehind, LeaveCasFx DEF Untouched
    <3>2. CASE Trim(t)
      BY <1>1, <1>2, <3>2, TrimBehind, TrimFx DEF Untouched
    <3>3. CASE Traverse(t)
      BY <1>1, <1>2, <3>3, TraverseBehind, TraverseFx
    <3> QED
      BY <1>2, <1>8, <3>1, <3>2, <3>3, StillBehind DEF Silences
  <2>3. counter' = counter /\ \A s \in Slots : Uncounted(t, s)' = Uncounted(t, s)
    BY <1>1, <1>8, SilencesCounter, SilencesCount
  <2>4. \A s \in Slots : counter'[s] = counter[s] + (Unacked(t, s)' - Unacked(t, s))
                                       - (Uncounted(t, s)' - Uncounted(t, s))
    BY <1>3, <1>4, <2>2, <2>3
  <2> QED
    BY <2>1, <2>2, <2>4, OneAcked
<1>9. ~Leave1(t) /\ ~LeaveTrim1(t) /\ ~RtPush1(t)
  BY DEF Acks, Leave1, LeaveTrim1, RtPush1
<1> QED
  BY <1>5, <1>6, <1>7, <1>8, <1>9, Kinds DEF Silences, Pushing, Exits, Walkings

-----------------------------------------------------------------------------
(***************************************************************************)
(* Hyaline-S with a slot more than there are threads.                      *)
(***************************************************************************)

\* A batch has no node besides those for the slots.
Narrow == Acks /\ TaskNum < NumSlots

\* Then no thread moves from its slot, and retire stops only at slots of threads.
Solo(t) ==
    /\ vec[t] = t - 1
    /\ pc[t] \in {"look", "add"} => at[t] = vec[t]
    /\ pc[t] \in {"rt_cas", "rt_adj", "rt_count"} => at[t] < TaskNum
Lonely == Narrow => \A t \in Tasks : Solo(t)

\* So there is a node more than the slots that are left where retire may stop.
LEMMA SparedHolds ==
  ASSUME Sound, Lonely
  PROVE  CounterNodeSpared
<1> SUFFICES ASSUME NEW t \in Tasks, pc[t] = "rt_cas"
             PROVE  Len(rt[t].todo) > 1
  BY DEF CounterNodeSpared
<1>1. CASE ~Narrow
  BY <1>1, EnoughNodes DEF Narrow
<1>2. CASE Narrow
  BY <1>2, AtFacts DEF Narrow, Lonely, Solo, Acks, SMRBatch, Sound, Enough, Retires
<1> QED
  BY <1>1, <1>2

\* Threads are only inside the slots that are their own.
LEMMA Attended ==
  ASSUME Sound, Lonely, Narrow, NEW s \in Slots, head[s].ref # 0
  PROVE  s < TaskNum
<1>1. Cardinality({u \in Tasks : vec[u] = s /\ Inside(u)}) # 0
  BY DEF Sound, HeadsCount
<1>2. PICK u \in Tasks : vec[u] = s
  BY <1>1, FS_EmptySet
<1> QED
  BY <1>2 DEF Lonely, Solo, Tasks

\* The ways out of leave, of a walk and of free lead to enter with the thread's own slot.
LEMMA ExitsSettle ==
  ASSUME Sound, NEW t \in Tasks, Tidy(t), Acks, Exits(t) \/ Walkings(t) \/ FreeList(t)
  PROVE  /\ vec' = vec /\ pc'[t] \notin Retires
         /\ pc'[t] \in {"look", "add"} => at'[t] = vec[t]
<1> DEFINE Moved == at' = [at EXCEPT ![t] = vec[t]]
<1>1. at \in [Tasks -> Slots]
  BY DEF Sound, HyalineTypeOK
<1>2. CASE LeaveAdjust(t) \/ RtFin(t)
  BY <1>1, <1>2, LastAdjustFx DEF LeaveAdjust, RtFin, Proceed, Retires
<1>3. CASE LeaveClear(t)
  BY <1>1, <1>3, LeaveClearFx DEF LeaveClear, Proceed, Retires, Untouched
<1>4. CASE Leave2(t) \/ LeaveTrim2(t) \/ LeaveRetry(t)
  BY <1>4, LoadHeadFx DEF Retires, Untouched
<1>5. CASE LeaveCas(t)
  BY <1>1, <1>5, LeaveCasFx, ZenonT(60) DEF Retires, Untouched, LeaveCas, Proceed
<1>6. CASE Trim(t)
  BY <1>1, <1>6, TrimFx, Zenon DEF Trim, Proceed, Retires, Untouched
<1>7. CASE Traverse(t)
  <2>1. /\ vec' = vec
        /\ pc'[t] \in {"trav", "ack", "free", "look", "add", "out", "in", "leave"}
    BY <1>7, TraverseFx, Zenon
  <2>2. Moved \/ pc' = [pc EXCEPT ![t] = "leave"]
    BY <1>7, Zenon DEF Traverse, Proceed, Goto
  <2>3. pc \in [Tasks -> PC]
    BY DEF Sound, HyalineTypeOK
  <2> QED
    BY <1>1, <2>1, <2>2, <2>3 DEF Retires
<1>8. CASE Ack(t)
  BY <1>1, <1>8, AckFx DEF Ack, Proceed, Retires, Untouched
<1>9. CASE FreeList(t)
  BY <1>1, <1>9, FreeFx DEF FreeList, Proceed, Retires
<1>10. ~Leave1(t) /\ ~LeaveTrim1(t)
  BY DEF Acks, Leave1, LeaveTrim1
<1> QED
  BY <1>2, <1>3, <1>4, <1>5, <1>6, <1>7, <1>8, <1>9, <1>10 DEF Exits, Walkings

\* retire stops only at a slot that has threads.
LEMMA StopsAttended ==
  ASSUME Sound, Lonely, Narrow, NEW t \in Tasks, Tidy(t), Pushing(t)
  PROVE  /\ vec' = vec /\ pc'[t] \notin {"look", "add"}
         /\ pc'[t] \in {"rt_cas", "rt_adj", "rt_count"} => at'[t] < TaskNum
<1>1. CASE RtAccess(t) \/ RtLoad(t) \/ RtRetry(t)
  <2>1. CASE Onward(t, IF build.words = 1 THEN rt[t] ELSE Skipped(t))
    BY <1>1, <2>1, RtLookFx DEF Onward, Untouched
  <2>2. CASE pc'[t] \in {"rt_load", "rt_cas"} /\ at'[t] = at[t]
    <3>1. pc'[t] = "rt_cas" => head[at[t]].ref # 0
      <4>1. pc \in [Tasks -> PC]
        BY DEF Sound, HyalineTypeOK
      <4>2. CASE RtAccess(t)
        BY <2>2, <4>1, <4>2 DEF RtAccess, SkipSlot, NextSlot, Proceed, Goto
      <4>3. CASE RtLoad(t)
        BY <2>2, <4>1, <4>3 DEF RtLoad, SkipSlot, NextSlot, Proceed, Goto
      <4>4. CASE RtRetry(t)
        BY <2>2, <4>1, <4>4 DEF RtRetry, SkipSlot, NextSlot, Proceed, Goto
      <4> QED
        BY <1>1, <4>2, <4>3, <4>4
    <3> QED
      BY <1>1, <2>2, <3>1, RtLookFx, AtFacts, Attended, Fields DEF Untouched, Sound
  <2> QED
    BY <1>1, <2>1, <2>2, RtLookFx
<1>2. CASE RtPush2(t)
  BY <1>2, RtPush2Fx DEF Lonely, Solo
<1>3. CASE RtAdjust(t)
  BY <1>3, RtAdjustFx DEF Lonely, Solo
<1>4. CASE RtCount(t)
  BY <1>4, RtCountFx DEF Onward, Untouched
<1>5. ~RtPush1(t)
  BY DEF Narrow, Acks, RtPush1
<1> QED
  BY <1>1, <1>2, <1>3, <1>4, <1>5 DEF Pushing

\* A thread that is not inside has nothing to acknowledge, and nobody else is in its slot.
LEMMA NothingToAck ==
  ASSUME Books, Acked, Lonely, Narrow, NEW t \in Tasks, pc[t] = "look"
  PROVE  counter[vec[t]] <= 0
<1> DEFINE s == vec[t]
           A == [u \in Tasks |-> Unacked(u, s)]
           B == [u \in Tasks |-> Uncounted(u, s)]
<1>1. Sound /\ Tidy(t) /\ s \in Slots /\ Acks /\ IsFiniteSet(Objs)
  BY BooksParts, Fields DEF Sound, Narrow
<1>2. Quantities
  BY <1>1, QuantitiesHold
<1>3. A \in [Tasks -> Nat] /\ B \in [Tasks -> Nat]
  BY <1>1, <1>2 DEF Quantities
<1>4. \A u \in Tasks : A[u] = 0
  <2>1. \A u \in Tasks \ {t} : vec[u] # s
    BY DEF Lonely, Solo, Tasks
  <2>2. Behind(t) = 0
    <3>1. Line(t) = {} /\ wk[t].segs = <<>>
      BY <1>1 DEF Line, Inside, Tidy, Walking
    <3>2. Cardinality(Line(t) \ {handle[t]}) = 0
      BY <3>1, FS_EmptySet
    <3>3. Total(next, <<>>) = 0
      BY <1>1, TotalType DEF Sound, HyalineTypeOK
    <3> QED
      BY <3>1, <3>2, <3>3 DEF Behind
  <2> QED
    BY <1>1, <1>2, <2>1, <2>2 DEF Quantities
<1>5. counter[s] = Cardinality(Sum(A)) - Cardinality(Sum(B))
  BY <1>1 DEF Tallied, Acked
<1> HIDE DEF A, B
<1>6. Cardinality(Sum(A)) = 0
  BY <1>4, FS_EmptySet DEF Sum
<1>7. Cardinality(Sum(B)) \in Nat
  BY <1>3, SumChange
<1> QED
  BY <1>5, <1>6, <1>7

\* No thread moves from its slot: enter finds it without nodes to acknowledge.
LEMMA EntersOwn ==
  ASSUME Books, Acked, Lonely, Narrow, NEW t \in Tasks, Tidy(t), Lookups(t) \/ Entries(t)
  PROVE  /\ vec'[t] = vec[t] /\ pc'[t] \notin Retires
         /\ pc'[t] \in {"look", "add"} => at'[t] = vec[t]
<1>1. Sound /\ Sited
  BY BooksParts
<1>2. CASE Entries(t)
  <2>1. pc'[t] = "in"
    BY <1>1, <1>2, EnterFx DEF Entries
  <2>2. EnterAdd(t)
    BY <1>2 DEF Entries, Enter1, Narrow, Acks
  <2>3. vec' = [vec EXCEPT ![t] = at[t]] /\ at[t] = vec[t] /\ vec \in [Tasks -> Slots]
    BY <1>1, <2>2 DEF EnterAdd, Lonely, Solo, Sound, HyalineTypeOK
  <2> QED
    BY <2>1, <2>3 DEF Retires
<1>3. CASE Lookups(t)
  <2>1. /\ vec' = vec
        /\ \/ pc[t] \in Reads /\ pc'[t] \in Reads
           \/ pc[t] \in Rests /\ pc'[t] \in Rests
    BY <1>1, <1>3, IdleFx DEF Lookups
  <2>2. ASSUME pc'[t] \in {"look", "add"}
        PROVE  at'[t] = vec[t]
    <3>1. at[t] = vec[t]
      BY <1>1, <2>1, <2>2 DEF Reads, Sound, Homely, Retires, Rests, Lonely, Solo
    <3>2. at' = at
      <4>1. CASE EnterLook(t)
        BY <1>1, <3>1, <4>1, NothingToAck, Fields DEF EnterLook, Sound, HyalineTypeOK
      <4>2. CASE Enter2(t) \/ Alloc(t) \/ Rideable(t) \/ \E c \in Cells : Read(t, c) \/ Deref(t, c)
        BY <4>2 DEF Enter2, Alloc, Rideable, Read, Deref, locals
      <4>3. CASE \/ DerefValue(t) \/ DerefGlobal(t) \/ DerefAccess1(t) \/ DerefAccess2(t)
        BY <4>3 DEF DerefValue, DerefGlobal, DerefAccess1, DerefAccess2
      <4> QED
        BY <1>3, <4>1, <4>2, <4>3 DEF Lookups
    <3> QED
      BY <3>1, <3>2
  <2> QED
    BY <2>1, <2>2 DEF Reads, Rests, Retires
<1> QED
  BY <1>2, <1>3

\* No step moves a thread.
LEMMA LonelyTask ==
  ASSUME Books, Acked, Lonely, NEW t \in Tasks, Good(t), Calls(t) \/ Steps(t)
  PROVE  Lonely'
<1>1. Sound /\ Sited /\ Tidy(t) /\ build' = build /\ (Narrow' <=> Narrow)
  BY BooksParts, SameBuild DEF Books, Good, Narrow
<1> SUFFICES ASSUME Narrow
             PROVE  \A u \in Tasks : Solo(u)'
  BY <1>1 DEF Lonely
<1>2. \A u \in Tasks : Solo(u)
  BY DEF Lonely
<1>3. \A u \in Tasks : u # t => Solo(u)'
  BY <1>2 DEF Good, Kept, Solo
<1>4. Acks
  BY DEF Narrow
<1>5. Solo(t)'
  <2>1. CASE Lookups(t) \/ Entries(t)
    BY <1>1, <1>2, <2>1, EntersOwn DEF Solo, Retires
  <2>2. CASE Pushing(t)
    BY <1>1, <1>2, <2>2, StopsAttended DEF Solo
  <2>3. CASE Exits(t) \/ Walkings(t) \/ FreeList(t)
    BY <1>1, <1>2, <1>4, <2>3, ExitsSettle DEF Solo, Retires
  <2>4. CASE \E c \in Cells : Retire(t, c)
    BY <1>1, <1>2, <2>4, RetireFx DEF Solo
  <2> QED
    BY <2>1, <2>2, <2>3, <2>4, Kinds
<1> QED
  BY <1>3, <1>5

-----------------------------------------------------------------------------
\* In the beginning nobody has anything to acknowledge.
LEMMA AckedInit ==
  ASSUME HyalineInit, Sound
  PROVE  Acked /\ Lonely
<1>1. /\ IsFiniteSet(Objs) /\ next \in [Objs -> Ptrs]
      /\ \A t \in Tasks : /\ pc[t] = "out" /\ wk[t].segs = <<>> /\ vec[t] = (t - 1) % NumSlots
                          /\ wk[t] = NoWalk
      /\ \A s \in Slots : counter[s] = 0
  BY BlocksAssumption DEF HyalineInit, NoWalk, Sound, HyalineTypeOK
<1>2. \A t \in Tasks : Walker(t)
  BY <1>1 DEF Walker
<1>3. ASSUME NEW s \in Slots
      PROVE  Tallied(s)
  <2> DEFINE A == [u \in Tasks |-> Unacked(u, s)]
             B == [u \in Tasks |-> Uncounted(u, s)]
  <2>1. \A u \in Tasks : A[u] = 0
    <3> SUFFICES ASSUME NEW u \in Tasks
                 PROVE  Unacked(u, s) = 0
      OBVIOUS
    <3>1. Line(u) = {}
      BY <1>1 DEF Line, Inside
    <3>2. Cardinality(Line(u) \ {handle[u]}) = 0
      BY <3>1, FS_EmptySet
    <3>3. Total(next, <<>>) = 0
      <4>1. <<>> \in Seq(Segment)
        OBVIOUS
      <4> QED
        BY <1>1, <4>1, TotalType
    <3>4. Behind(u) = 0
      BY <1>1, <3>2, <3>3 DEF Behind
    <3> QED
      BY <3>4, QuantitiesHold DEF Quantities
  <2>2. \A u \in Tasks : B[u] = 0
    BY <1>1 DEF Uncounted
  <2>3. Tallied(s) <=> counter[s] = Cardinality(Sum(A)) - Cardinality(Sum(B))
    BY DEF Tallied
  <2> HIDE DEF A, B
  <2>4. Cardinality(Sum(A)) = 0 /\ Cardinality(Sum(B)) = 0
    <3>1. Sum(A) = {}
      BY <2>1 DEF Sum
    <3>2. Sum(B) = {}
      BY <2>2 DEF Sum
    <3> QED
      BY <3>1, <3>2, FS_EmptySet
  <2> QED
    BY <1>1, <2>3, <2>4
<1>4. Narrow => \A t \in Tasks : Solo(t)
  <2>1. ASSUME Narrow, NEW t \in Tasks
        PROVE  (t - 1) % NumSlots = t - 1
    <3>1. NumSlots \in Nat \ {0} /\ TaskNum < NumSlots /\ t \in 1 .. TaskNum
      BY <2>1, SlotFacts DEF Narrow, Sound, HyalineTypeOK, Tasks
    <3>2. t - 1 \in 0 .. NumSlots - 1
      BY <3>1
    <3> QED
      BY <3>1, <3>2
  <2> QED
    BY <1>1, <2>1 DEF Solo
<1> QED
  BY <1>2, <1>3, <1>4 DEF Acked, Lonely

\* A step that changes nothing.
LEMMA StutterAcked ==
  ASSUME Acked, Lonely, UNCHANGED vars
  PROVE  Acked' /\ Lonely'
<1>1. /\ vec' = vec /\ handle' = handle /\ wk' = wk /\ build' = build /\ counter' = counter
      /\ pc' = pc /\ at' = at /\ rt' = rt /\ next' = next /\ head' = head
  BY DEF vars, mem, own, locals, epochs, nodes
<1>2. Acks' = Acks /\ Slots' = Slots
  BY <1>1, SameBuild
<1>3. \A u : Walker(u)' = Walker(u)
  BY <1>1 DEF Walker, Closes, Inside
<1>4. \A u, s : Unacked(u, s)' = Unacked(u, s) /\ Uncounted(u, s)' = Uncounted(u, s)
  BY <1>1 DEF Line, Chain, Inside, Unacked, Uncounted
<1>5. ASSUME NEW s, Tallied(s)
      PROVE  Tallied(s)'
  <2> DEFINE A == [u \in Tasks |-> Unacked(u, s)]
             B == [u \in Tasks |-> Uncounted(u, s)]
             G == [u \in Tasks |-> Unacked(u, s)']
             H == [u \in Tasks |-> Uncounted(u, s)']
  <2>1. A = G /\ B = H
    BY <1>4
  <2>2. counter[s] = Cardinality(Sum(A)) - Cardinality(Sum(B))
    BY <1>5 DEF Tallied
  <2>3. counter'[s] = Cardinality(Sum(G)) - Cardinality(Sum(H)) => Tallied(s)'
    BY DEF Tallied
  <2> HIDE DEF A, B, G, H
  <2> QED
    BY <1>1, <2>1, <2>2, <2>3
<1>6. Acked'
  BY <1>2, <1>3, <1>5 DEF Acked
<1>7. Lonely'
  BY <1>1, <1>2, SameBuild DEF Lonely, Narrow, Solo
<1> QED
  BY <1>6, <1>7

-----------------------------------------------------------------------------
(***************************************************************************)
(* Everything in every state.                                              *)
(***************************************************************************)

\* The counters of batches and slots.
Balanced == Sound /\ Books /\ Acked /\ Lonely

\* Every step keeps them: Lonely leaves retire a node for the counter, which
\* Books needs, and the counters of Hyaline-S keep its threads where they are.
LEMMA BooksStep ==
  ASSUME Balanced, [Next]_vars
  PROVE  Balanced'
<1>1. Sound /\ Sound' /\ Books /\ Acked /\ Lonely
  BY SoundStep DEF Balanced
<1>2. CASE UNCHANGED vars
  BY <1>1, <1>2, StutterBooks, StutterAcked DEF Balanced
<1>3. ASSUME NEW t \in Tasks, Calls(t) \/ Steps(t)
      PROVE  Balanced'
  <2>1. Good(t) /\ CounterNodeSpared
    BY <1>1, <1>3, StepGood, SparedHolds
  <2>2. Books' /\ Acked'
    BY <1>1, <1>3, <2>1, BooksTask, AckedTask
  <2>3. Lonely'
    BY <1>1, <1>3, <2>1, LonelyTask
  <2> QED
    BY <1>1, <2>2, <2>3 DEF Balanced
<1> QED
  BY <1>2, <1>3 DEF Next

\* The first state has them.
LEMMA BooksInit ==
  ASSUME HyalineInit
  PROVE  Balanced
BY InitBooks, InitSound, AckedInit DEF Balanced

\* So every state has.
LEMMA BooksAlways == Spec => []Balanced
<1>1. HyalineInit => Balanced
  BY BooksInit
<1>2. Balanced /\ [Next]_vars => Balanced'
  BY BooksStep
<1> QED
  BY <1>1, <1>2, PTL DEF Spec

\* And the shield.
Shielded == Balanced /\ Shield

\* A step that changes nothing keeps the shield.
LEMMA StutterShield ==
  ASSUME Shield, UNCHANGED vars
  PROVE  Shield'
<1>1. /\ UNCHANGED <<status, build, head, access, global, next, link, birth, batch, minEpoch>>
      /\ UNCHANGED <<vec, handle, held, pc, at, rd, wk, rt>>
  BY DEF vars, clientVars, mem, epochs, nodes, own, locals
<1>2. Slots' = Slots
  BY <1>1, SameBuild
<1>3. /\ \A t : Inside(t)' <=> Inside(t)
      /\ \A t : Line(t)' = Line(t)
  BY <1>1 DEF Inside, Line, Chain, Trail
<1>4. /\ \A t : Retiring(t)' = Retiring(t)
      /\ \A t : Gathered(t)' = Gathered(t)
      /\ \A r : Whole(r)' = Whole(r)
      /\ \A u, s : Ahead(u, s)' <=> Ahead(u, s)
  BY <1>1 DEF Retiring, Gathered, Whole, Ahead
<1>5. Clock'
  BY <1>1, <1>2 DEF Shield, Clock
<1>6. HeldGuarded' /\ Paced'
  BY <1>1, <1>3, <1>4 DEF Shield, HeldGuarded, Paced, Guarded, Hooked, Holding, Loaded
<1>7. build.robust => Stalls'
  BY <1>1, <1>2, <1>3, <1>4 DEF Shield, Stalls, Aged
<1>8. build.robust => \A u \in Tasks : Youngest(u)'
  BY <1>1, <1>4 DEF Shield, Youngest, Pool
<1> QED
  BY <1>1, <1>5, <1>6, <1>7, <1>8 DEF Shield

\* Every step keeps both.
LEMMA ShieldStep ==
  ASSUME Shielded, [Next]_vars
  PROVE  Shielded'
<1>1. Balanced' /\ Sound /\ Sound' /\ Books /\ Lonely /\ Shield
  BY BooksStep, SoundStep DEF Shielded, Balanced
<1>2. CASE UNCHANGED vars
  BY <1>1, <1>2, StutterShield DEF Shielded
<1>3. ASSUME NEW t \in Tasks, Calls(t) \/ Steps(t)
      PROVE  Shielded'
  BY <1>1, <1>3, StepGood, SparedHolds, ShieldTask DEF Shielded
<1> QED
  BY <1>2, <1>3 DEF Next

\* The first state has both.
LEMMA ShieldedInit ==
  ASSUME HyalineInit
  PROVE  Shielded
BY BooksInit, ShieldInit DEF Shielded

\* So every state has.
LEMMA ShieldAlways == Spec => [](Books /\ Shield)
<1>1. HyalineInit => Shielded
  BY ShieldedInit
<1>2. Shielded /\ [Next]_vars => Shielded'
  BY ShieldStep
<1>3. Shielded => Books /\ Shield
  BY DEF Shielded, Balanced
<1> QED
  BY <1>1, <1>2, <1>3, PTL DEF Spec

-----------------------------------------------------------------------------
(***************************************************************************)
(* What the shield says of the properties.                                 *)
(***************************************************************************)

\* A reference is to a node that is linked or retired.
Alive == \A t \in Tasks : \A o \in held[t] : status[o] \in {"linked", "retired"}
LEMMA HeldAlive == Books /\ HeldGuarded => Alive
BY ClaimedAlive DEF HeldGuarded, Guarded, Claimed, Alive

\* The slot covers what is held.
LEMMA ShieldCovers == Books /\ Shield => EraCovers
<1> SUFFICES ASSUME Books, Shield, build.robust, NEW t \in Tasks, NEW o \in held[t]
             PROVE  EpochGeq(access[vec[t]], birth[o])
  BY DEF EraCovers
<1>1. Sound /\ Clock /\ Before(birth[o], access[vec[t]])
  BY DEF Books, Shield, HeldGuarded, Guarded
<1>2. /\ access \in [Slots -> Epochs] /\ birth \in [Objs -> Epochs] /\ global \in Epochs
      /\ vec \in [Tasks -> Slots] /\ held \in [Tasks -> SUBSET Objs]
  BY <1>1, EpochTypes
<1>3. PICK s \in Slots : s = vec[t]
  BY <1>2
<1>4. access[s] \in Epochs /\ birth[o] \in Epochs
  BY <1>2
<1>5. Age(access[s]) <= MaxAdvance /\ Age(birth[o]) <= MaxAdvance
  <2>1. /\ Age(access[s]) <= Age(global) /\ Age(birth[o]) <= Age(global)
        /\ Age(global) <= MaxAdvance
    BY <1>1, <1>2 DEF Clock, Before
  <2>2. Age(access[s]) \in Int /\ Age(birth[o]) \in Int /\ Age(global) \in Int
    BY <1>2, <1>4, AgeType DEF Epochs
  <2> QED
    BY <2>1, <2>2
<1> QED
  BY <1>1, <1>3, <1>4, <1>5, AgeGeq DEF Epochs

\* A stalled thread holds back only batches with a node that its slot covers.
LEMMA ShieldBounds == Books /\ Shield => StallBounded
<1> SUFFICES ASSUME Books, Shield, build.robust, NEW t \in Tasks, NEW n \in ToDrop(t)
             PROVE  \E m \in BatchOf(n) : EpochGeq(access[vec[t]], birth[m])
  BY DEF StallBounded
<1>1. Sound /\ Clock /\ Aged(n, vec[t]) /\ n \in Line(t)
  BY DEF Books, Shield, Stalls, ToDrop
<1>2. /\ access \in [Slots -> Epochs] /\ birth \in [Objs -> Epochs] /\ global \in Epochs
      /\ vec \in [Tasks -> Slots]
  BY <1>1, EpochTypes
<1>3. PICK s \in Slots : s = vec[t]
  BY <1>2
<1>4. PICK m \in Whole(link[n]) : Before(birth[m], access[s])
  BY <1>1, <1>3 DEF Aged
<1>5. access[s] \in Epochs /\ birth[m] \in Epochs /\ m \in Objs
  BY <1>2 DEF Whole
<1>6. Age(access[s]) <= MaxAdvance /\ Age(birth[m]) <= MaxAdvance
  <2>1. /\ Age(access[s]) <= Age(global) /\ Age(birth[m]) <= Age(global)
        /\ Age(global) <= MaxAdvance
    BY <1>1, <1>2, <1>5 DEF Clock, Before
  <2>2. Age(access[s]) \in Int /\ Age(birth[m]) \in Int /\ Age(global) \in Int
    BY <1>2, <1>5, AgeType DEF Epochs
  <2> QED
    BY <2>1, <2>2
<1>7. EpochGeq(access[s], birth[m])
  BY <1>4, <1>5, <1>6, AgeGeq DEF Epochs
<1>8. m \in BatchOf(n)
  BY <1>4 DEF Whole, BatchOf
<1> QED
  BY <1>3, <1>7, <1>8

-----------------------------------------------------------------------------
(***************************************************************************)
(* Every step is one of the promise.                                       *)
(***************************************************************************)

\* What the rideable does to the blocks, the promise allows.
LEMMA RefineRideable ==
  ASSUME Books, HeldGuarded, NEW t \in Tasks, Rideable(t)
  PROVE  Scheme!Next \/ UNCHANGED <<Life, held>>
<1>1. Sound /\ Sited /\ held' = held
  BY DEF Books, Rideable
<1>2. status \in [Objs -> Status] /\ mine \in [Tasks -> Ptrs]
  BY <1>1, SoundParts DEF HyalineTypeOK, ClientTypeOK
<1>3. CASE Discard(t)
  <2>1. PICK o \in Objs : o = mine[t] /\ status[o] = "private"
    BY <1>1, <1>2, <1>3 DEF Discard, Sited, Ptrs
  <2>2. \A u \in Tasks : o \notin held[u]
    BY <2>1, HeldAlive DEF Alive
  <2>3. Life' = [Life EXCEPT ![o] = "free"]
    BY <1>2, <1>3, <2>1 DEF Discard, Life
  <2>4. Scheme!Discard(o)
    BY <1>1, <2>1, <2>2, <2>3 DEF Scheme!Discard, Life
  <2> QED
    BY <2>4 DEF Scheme!Next
<1>4. ASSUME NEW c \in Cells, Link(t, c)
      PROVE  UNCHANGED <<Life, held>>
  BY <1>1, <1>2, <1>4 DEF Link, Sited, Life
<1> QED
  BY <1>3, <1>4 DEF Rideable

\* So it does what retire and alloc do.
LEMMA RefineClient ==
  ASSUME Books, NEW t \in Tasks, Alloc(t) \/ \E c \in Cells : Retire(t, c)
  PROVE  Scheme!Next
<1>1. Sound /\ Sited
  BY DEF Books
<1>2. status \in [Objs -> Status] /\ cell \in [Cells -> Ptrs] /\ held \in [Tasks -> SUBSET Objs]
  BY <1>1, SoundParts DEF HyalineTypeOK, ClientTypeOK
<1>3. CASE Alloc(t)
  <2>1. PICK o \in Objs : Malloc(t, o)
    BY <1>3 DEF Alloc
  <2>2. held' = held
    BY <1>3 DEF Alloc
  <2>3. Life' = [Life EXCEPT ![o] = "live"] /\ Life[o] = "free"
    BY <1>2, <2>1 DEF Malloc, Life
  <2>4. Scheme!Alloc(o)
    BY <2>2, <2>3 DEF Scheme!Alloc
  <2> QED
    BY <2>4 DEF Scheme!Next
<1>4. ASSUME NEW c \in Cells, Retire(t, c)
      PROVE  Scheme!Next
  <2>1. cell[c] \in held[t] /\ status' = [status EXCEPT ![cell[c]] = "retired"] /\ held' = held
    BY <1>4 DEF Retire
  <2>2. PICK o \in Objs : o = cell[c]
    BY <1>2, <2>1
  <2>3. status[o] = "linked"
    BY <1>1, <2>2 DEF Sited
  <2>4. Life' = [Life EXCEPT ![o] = "retired"] /\ Life[o] = "live"
    BY <1>2, <2>1, <2>2, <2>3 DEF Life
  <2>5. Scheme!Retire(o)
    BY <2>1, <2>4 DEF Scheme!Retire
  <2> QED
    BY <2>5 DEF Scheme!Next
<1> QED
  BY <1>3, <1>4

\* A read acquires a block that is not free.
LEMMA RefineRead ==
  ASSUME Books', HeldGuarded', Sound, NEW t \in Tasks,
         DerefGlobal(t) \/ \E c \in Cells : Read(t, c)
  PROVE  Scheme!Next \/ UNCHANGED <<Life, held>>
<1>1. /\ status \in [Objs -> Status] /\ cell \in [Cells -> Ptrs] /\ held \in [Tasks -> SUBSET Objs]
      /\ rd[t].ptr \in Ptrs
  BY SoundParts, EpochTypes DEF HyalineTypeOK, ClientTypeOK
<1>2. status' = status
  BY DEF DerefGlobal, Read, clientVars
<1>3. Life' = Life
  BY <1>2 DEF Life
<1>4. PICK p \in Ptrs : held' = held \/ held' = [held EXCEPT ![t] = @ \union ({p} \ {NULL})]
  BY <1>1 DEF DerefGlobal, Read
<1>5. CASE held' # held /\ p # NULL
  <2>1. PICK o \in Objs : o = p
    BY <1>5 DEF Ptrs
  <2>2. held' = [held EXCEPT ![t] = @ \union {o}]
    BY <1>4, <1>5, <2>1
  <2>3. o \in held'[t]
    BY <1>1, <2>2
  <2>4. Alive'
    BY HeldAlive, PTL
  <2>5. status[o] \in {"linked", "retired"}
    BY <1>2, <2>3, <2>4 DEF Alive
  <2>6. Life[o] # "free"
    BY <2>5 DEF Life
  <2>7. Scheme!Acquire(t, o)
    BY <1>3, <2>2, <2>6 DEF Scheme!Acquire
  <2> QED
    BY <2>7 DEF Scheme!Next
<1>6. CASE held' # held /\ p = NULL
  <2>1. {p} \ {NULL} = {}
    BY <1>6
  <2>2. held' = [held EXCEPT ![t] = @ \union {}]
    BY <1>4, <1>6, <2>1
  <2>3. held' = held
    BY <1>1, <2>2
  <2> QED
    BY <1>6, <2>3
<1> QED
  BY <1>3, <1>5, <1>6

\* The batches that are freed are retired and no thread refers to their nodes.
LEMMA RefineFree ==
  ASSUME Books, Books', HeldGuarded', NEW t \in Tasks, FreeList(t)
  PROVE  Scheme!Next
<1>1. Sound /\ BatchesApart
  BY DEF Books, Struct
<1>2. /\ status' = [o \in Objs |-> IF o \in Members(list[t]) THEN "free" ELSE status[o]]
      /\ held' = held
  BY DEF FreeList, Free
<1>3. PICK S : S = Members(list[t])
  OBVIOUS
<1>4. S \subseteq Objs /\ \A o \in S : status[o] = "retired"
  <2>1. list[t] \subseteq Lasts
    BY DEF Lasts
  <2>2. Lasts \subseteq Objs
    BY <1>1, LastsObjs DEF Books
  <2> QED
    BY <1>1, <1>3, <2>1, <2>2 DEF Members, BatchesApart
<1>5. \A u \in Tasks : held[u] \intersect S = {}
  <2>1. Alive'
    BY HeldAlive, PTL
  <2>2. \A o \in S : status'[o] = "free"
    BY <1>2, <1>3, <1>4
  <2> QED
    BY <1>2, <2>1, <2>2 DEF Alive
<1>6. Life' = [o \in Objs |-> IF o \in S THEN "free" ELSE Life[o]]
  BY <1>2, <1>3 DEF Life
<1>7. \A o \in S : Life[o] = "retired"
  BY <1>4 DEF Life
<1>8. Scheme!Reclaim(S)
  BY <1>2, <1>5, <1>6, <1>7 DEF Scheme!Reclaim
<1> QED
  BY <1>4, <1>8 DEF Scheme!Next

\* leave and trim give the references up; what is left touches neither.
LEMMA RefineRest ==
  ASSUME Sound, NEW t \in Tasks,
         \/ Enter1(t) \/ Enter2(t) \/ Leave1(t) \/ Leave2(t) \/ Trim(t)
         \/ (\E c \in Cells : Deref(t, c)) \/ EnterLook(t) \/ EnterAdd(t)
         \/ DerefValue(t) \/ DerefAccess1(t) \/ DerefAccess2(t) \/ Pushing(t)
         \/ RtFin(t) \/ LeaveTrim1(t) \/ LeaveTrim2(t) \/ LeaveRetry(t) \/ LeaveCas(t)
         \/ LeaveClear(t) \/ LeaveAdjust(t) \/ Traverse(t) \/ Ack(t)
  PROVE  Scheme!Next \/ UNCHANGED <<Life, held>>
<1>1. status' = status
  BY Zenon DEF Enter1, Enter2, Leave1, Leave2, Trim, Deref, EnterLook, EnterAdd, DerefValue,
         DerefAccess1, DerefAccess2, Pushing, RtAccess, RtLoad, RtRetry, RtPush1, RtPush2,
         RtAdjust, RtCount, RtFin, LeaveTrim1, LeaveTrim2, LeaveRetry, LeaveCas, LeaveClear,
         LeaveAdjust, Traverse, Ack, TakeList, clientVars
<1>2. Life' = Life
  BY <1>1 DEF Life
<1>3. CASE Leave1(t) \/ Leave2(t) \/ Trim(t)
  <2>1. held \in [Tasks -> SUBSET Objs] /\ held' = [held EXCEPT ![t] = {}]
    BY <1>3, EpochTypes DEF Leave1, Leave2, Trim
  <2>2. PICK S \in SUBSET Objs : S = held[t]
    BY <2>1
  <2>3. held' = [held EXCEPT ![t] = @ \ S]
    BY <2>1, <2>2
  <2>4. Scheme!Release(t, S)
    BY <1>2, <2>3 DEF Scheme!Release
  <2> QED
    BY <2>4 DEF Scheme!Next
<1>4. CASE ~(Leave1(t) \/ Leave2(t) \/ Trim(t))
  BY <1>2, <1>4, Zenon DEF Enter1, Enter2, Deref, EnterLook, EnterAdd, DerefValue, DerefAccess1,
     DerefAccess2, Pushing, RtAccess, RtLoad, RtRetry, RtPush1, RtPush2, RtAdjust, RtCount, RtFin,
     LeaveTrim1, LeaveTrim2, LeaveRetry, LeaveCas, LeaveClear, LeaveAdjust, Traverse, Ack
<1> QED
  BY <1>3, <1>4

\* Every step is one that module Reclamation allows.
LEMMA RefineNext ==
  Books /\ Shield /\ Books' /\ Shield' /\ [Next]_vars => [Scheme!Next]_(Scheme!vars)
<1> SUFFICES ASSUME Books, Shield, Books', Shield', [Next]_vars
             PROVE  Scheme!Next \/ UNCHANGED <<Life, held>>
  BY DEF Scheme!vars
<1>1. Sound /\ HeldGuarded /\ HeldGuarded'
  BY DEF Books, Shield
<1>2. CASE UNCHANGED vars
  BY <1>2 DEF vars, clientVars, Life
<1>3. ASSUME NEW t \in Tasks, Calls(t) \/ Steps(t)
      PROVE  Scheme!Next \/ UNCHANGED <<Life, held>>
  <2>1. CASE Rideable(t)
    BY <1>1, <2>1, RefineRideable
  <2>2. CASE Alloc(t) \/ \E c \in Cells : Retire(t, c)
    BY <2>2, RefineClient
  <2>3. CASE DerefGlobal(t) \/ \E c \in Cells : Read(t, c)
    BY <1>1, <2>3, RefineRead
  <2>4. CASE FreeList(t)
    BY <1>1, <2>4, RefineFree
  <2> QED
    BY <1>1, <1>3, <2>1, <2>2, <2>3, <2>4, RefineRest DEF Calls, Steps, Pushing
<1> QED
  BY <1>2, <1>3 DEF Next

\* The initial states are initial states of the promise.
LEMMA RefineInit ==
  ASSUME HyalineInit
  PROVE  Scheme!Init
<1>1. Life = [o \in Objs |-> "free"] /\ held = [t \in Tasks |-> {}]
  BY DEF HyalineInit, ClientInit, Life
<1> QED
  BY <1>1 DEF Scheme!Init

-----------------------------------------------------------------------------
(***************************************************************************)
(* The theorems.                                                           *)
(***************************************************************************)

\* The node with the counter of a batch is never pushed. Hyaline-S with more slots
\* than threads has no node besides those for the slots, but there no thread
\* moves from its slot, so that a slot of the batch is always passed by.
THEOREM CounterSpared == Spec => []CounterNodeSpared
<1>1. Balanced => CounterNodeSpared
  BY SparedHolds DEF Balanced
<1> QED
  BY <1>1, BooksAlways, PTL

\* The counter of a slot of Hyaline-S is the number of nodes that its threads have
\* still to acknowledge, less those that retire has pushed and not counted.
THEOREM AcksAreExact == Spec => []AckExact
<1>1. Balanced => AckExact
  BY DEF Balanced, Acked, Tallied, AckExact
<1> QED
  BY <1>1, BooksAlways, PTL

\* leave, trim, traverse and retire read no node after it was freed.
THEOREM WalksAreSafe == Spec => []WalkSafe
<1>1. Balanced => WalkSafe
  BY WalkIsSafe DEF Balanced
<1> QED
  BY <1>1, BooksAlways, PTL

\* The counter of a batch is always the number of references that have still
\* to be dropped, less what is withheld and missing.
THEOREM CountersAreExact == Spec => []RefsExact
<1>1. Balanced => RefsExact
  BY RefsAreExact DEF Balanced
<1> QED
  BY <1>1, BooksAlways, PTL

\* When a batch is taken to be freed nobody reaches it any more, and nobody
\* else takes it: adjust_refs and traverse see the counter at zero once.
THEOREM FreedOnce == Spec => []QueuedUntouched
<1>1. Balanced => QueuedUntouched
  BY QueuedIsUntouched DEF Balanced
<1> QED
  BY <1>1, BooksAlways, PTL

\* Every retired node belongs to a batch that its thread still collects, that
\* some thread will still drop, or that is on its way to be freed.
THEOREM NoneLost == Spec => []NothingLost
<1>1. Balanced => NothingLost
  BY NothingIsLost DEF Balanced
<1> QED
  BY <1>1, BooksAlways, PTL

\* While a thread of Hyaline-S is inside, the epoch of its slot covers every
\* block that deref has returned to it.
THEOREM SlotsCover == Spec => []EraCovers
<1> QED
  BY ShieldAlways, ShieldCovers, PTL

\* A thread that stalls in Hyaline-S holds back only batches with a node that is
\* not younger than the last deref in its slot.
THEOREM StallsAreBounded == Spec => []StallBounded
<1> QED
  BY ShieldAlways, ShieldBounds, PTL

\* Hyaline implements the promise of a reclamation scheme to the data structures: a
\* block goes back to the allocator once, after it was retired, and while no
\* thread holds a reference to it.
THEOREM Implementation == Spec => Refines
<1>1. Books /\ Shield /\ (Books /\ Shield)' /\ [Next]_vars
        => [Scheme!Next]_(Scheme!vars)
  BY RefineNext
<1>2. HyalineInit => Scheme!Init /\ Shielded
  BY RefineInit, ShieldedInit
<1>3. Shielded /\ [Next]_vars => Shielded'
  BY ShieldStep
<1>4. Shielded => Books /\ Shield
  BY DEF Shielded, Balanced
<1> QED
  BY <1>1, <1>2, <1>3, <1>4, PTL DEF Refines, Scheme!Spec, Spec

=============================================================================
