----------------------------- MODULE LfSmrProofs -----------------------------
(***************************************************************************)
(* Proofs about the Hyaline library, for any number of threads, slots,     *)
(* blocks, cells and epochs and for every build of it: type correctness;   *)
(* the counter in the head of a slot is the number of threads inside. Both *)
(* follow from Sound, whose parts say what a call has set up for the steps *)
(* it has yet to make (Control), which slot a thread works on (Homely),    *)
(* that the nodes of a batch suffice for the slots to come (Enough), that  *)
(* heads count the threads inside (HeadsCount) and that the list of a slot *)
(* with threads inside is not taken away (Anchored). The second half       *)
(* defines Books, the invariant of the counters, with the lemmas on lists, *)
(* counts and steps that LfSmrBooks uses, and shows that it is kept by the *)
(* steps that move no node, by those of leave that take a list (Buries)    *)
(* and by those of retire that push nothing (Goes), and what a push does   *)
(* to the lists (Covers). The last part counts what a thread of Hyaline-S  *)
(* has still to acknowledge (Behind) while it leaves, trims and walks.     *)
(***************************************************************************)
EXTENDS LfSmr, FiniteSetTheorems, WellFoundedInduction, TLAPS

-----------------------------------------------------------------------------
(***************************************************************************)
(* Arithmetic modulo the width of a counter.                               *)
(***************************************************************************)

\* A multiple of m.
Even(a, m) == \E q \in Int : a = q * m

\* Division with remainder.
LEMMA Quotient ==
  ASSUME NEW a \in Int, NEW m \in Int, m > 0
  PROVE  \E q \in Int : a = q * m + (a % m)
BY SMTT(30)

\* A number differs from its remainder by a multiple.
LEMMA EvenMod ==
  ASSUME NEW a \in Int, NEW m \in Int, m > 0
  PROVE  Even((a % m) - a, m) /\ a % m \in 0 .. m - 1
<1>1. a % m \in 0 .. m - 1
  OBVIOUS
<1>2. \E q \in Int : a = q * m + (a % m)
  BY Quotient
<1>3. PICK q \in Int : a = q * m + (a % m)
  BY <1>2
<1> DEFINE x == a % m
<1>4. x \in Int /\ a = q * m + x
  BY <1>1, <1>3
<1> HIDE DEF x
<1>5. x - a = (0 - q) * m /\ 0 - q \in Int
  BY <1>4
<1> QED
  BY <1>1, <1>5 DEF Even, x

\* Multiples add up.
LEMMA EvenSum ==
  ASSUME NEW m \in Nat, NEW a \in Int, NEW b \in Int, Even(a, m), Even(b, m)
  PROVE  Even(a + b, m) /\ Even(a - b, m)
<1>1. PICK p \in Int : a = p * m
  BY DEF Even
<1>2. PICK q \in Int : b = q * m
  BY DEF Even
<1>3. a + b = (p + q) * m /\ p + q \in Int
  BY <1>1, <1>2
<1>4. a - b = (p - q) * m /\ p - q \in Int
  BY <1>1, <1>2
<1> QED
  BY <1>3, <1>4 DEF Even

\* A multiple below the modulus is zero.
LEMMA EvenSmall ==
  ASSUME NEW m \in Nat, NEW a \in Int, Even(a, m), a < m, 0 - m < a
  PROVE  a = 0
<1>1. PICK q \in Int : a = q * m
  BY DEF Even
<1>2. CASE q >= 1
  BY <1>1, <1>2
<1>3. CASE q <= -1
  BY <1>1, <1>3
<1>4. CASE q = 0
  BY <1>1, <1>4
<1> QED
  BY <1>2, <1>3, <1>4

\* Multiples are multiples.
LEMMA EvenMultiple ==
  ASSUME NEW m \in Nat, NEW q \in Int
  PROVE  Even(q * m, m)
BY DEF Even

\* Remainders that differ by a multiple are the same.
LEMMA EvenSame ==
  ASSUME NEW m \in Nat \ {0}, NEW a \in 0 .. m - 1, NEW b \in Int, Even(a - b, m)
  PROVE  a = b % m
<1>0. m \in Int /\ m > 0
  OBVIOUS
<1>1. Even((b % m) - b, m) /\ b % m \in 0 .. m - 1
  BY <1>0, EvenMod
<1> DEFINE x == b % m
<1>2. x \in 0 .. m - 1 /\ Even(x - b, m)
  BY <1>1
<1> HIDE DEF x
<1>3. Even((x - b) - (a - b), m) /\ (x - b) - (a - b) = x - a
  BY <1>2, EvenSum
<1>4. Even(x - a, m)
  BY <1>3
<1>5. x - a = 0
  BY <1>2, <1>4, EvenSmall
<1> QED
  BY <1>2, <1>5 DEF x

\* What adds up to a multiple of all the slots.
LEMMA AddendParts ==
  ASSUME NEW n \in Nat \ {0}, NEW d \in Nat \ {0}, NEW m, m = d * n
  PROVE  ((m - 1) \div n + 1) % m = IF n = 1 THEN 0 ELSE d
<1>1. m \in Nat \ {0} /\ m >= d
  BY SMTT(30)
<1>2. (m - 1) \div n = d - 1
  <2>1. m - 1 = (d - 1) * n + (n - 1)
    BY <1>1
  <2> QED
    BY <2>1, SMTT(30)
<1>3. (m - 1) \div n + 1 = d
  BY <1>2
<1>4. CASE n = 1
  <2>1. m = d
    BY <1>4
  <2>2. d % d = 0
    OBVIOUS
  <2> QED
    BY <1>3, <1>4, <2>1, <2>2
<1>5. CASE n # 1
  <2>1. d < m
    BY <1>1, <1>5
  <2>2. d % m = d
    BY <1>1, <2>1
  <2> QED
    BY <1>3, <1>5, <2>2
<1> QED
  BY <1>4, <1>5

-----------------------------------------------------------------------------
USE ClientAssumption, HyalineAssumption

\* The steps of a call of retire before its last adjustment.
Retires == {"rt_access", "rt_load", "rt_cas", "rt_adj", "rt_count"}

\* What a call has set up for the steps it has yet to make.
Control(t) ==
    /\ pc[t] \in Retires \union {"rt_fin"} => wk[t].ret = "in"
    /\ pc[t] = "leave" => wk[t].ret = "enter"
    /\ pc[t] \in {"lv_cas", "lv_clear", "lv_adj"} =>
          build.words = 2 /\ wk[t].ret \in {"out", "enter"}
    /\ pc[t] \in {"rt_adj", "rt_count"} => build.words = 2
    /\ pc[t] \in {"trav", "ack"} => wk[t].segs # <<>>
    /\ pc[t] = "trav" => Head(wk[t].segs).cur # NULL
    /\ wk[t].left > 0 => wk[t].ret = "in"
    /\ pc[t] \in {"value", "global", "access"} => rd[t].src \in Cells
    /\ pc[t] \in {"lv_clear", "lv_adj", "rt_adj", "rt_fin"} =>
          rt[t].node # NULL
    /\ pc[t] \in Retires => rt[t].first # NULL

\* Only enter of Hyaline-S looks at other slots than the thread's, and only
\* there a thread moves to another slot.
Homely(t) ==
    /\ pc[t] = "look" => Acks
    /\ pc[t] \notin Retires \union {"look", "add"} => at[t] = vec[t]
    /\ ~Acks => /\ vec[t] = (t - 1) % NumSlots
                /\ pc[t] \notin Retires => at[t] = vec[t]

\* The nodes of a batch suffice for the slots that are left, and retire stops
\* at a slot only if it has threads.
Enough(t) ==
    /\ pc[t] \in Retires => Len(rt[t].todo) + at[t] >= SMRBatch
    /\ pc[t] \in {"rt_cas", "rt_adj", "rt_count"} /\ ~Acks => at[t] < TaskNum

\* A slot counts the threads inside.
HeadsCount ==
    \A s \in Slots :
        head[s].ref = Cardinality({t \in Tasks : vec[t] = s /\ Inside(t)})

\* The list of a slot is not taken away as long as a thread is inside.
Anchored ==
    \A t \in Tasks : Inside(t) /\ handle[t] # NULL => head[vec[t]].ptr # NULL

Sound ==
    /\ HyalineTypeOK /\ HeadsCount /\ Anchored
    /\ \A t \in Tasks : Control(t) /\ Homely(t) /\ Enough(t)

-----------------------------------------------------------------------------
\* The records of the threads.
Derefs == [src : Cells \union {NULL}, ptr : Ptrs, global : 0 .. EpochMod - 1,
           access : 0 .. EpochMod - 1]
Walks == [curr : Ptrs, next : Ptrs, segs : Seq(Segment), left : 0 .. FlushLimit,
          ret : {"out", "in", "enter"}]
Batches == [todo : Seq(Objs), prev : Ptrs, node : Ptrs,
            amt : 0 .. CounterMod - 1, refs : 0 .. TaskNum,
            adjs : 0 .. CounterMod - 1, skipped : BOOLEAN, first : Ptrs]

\* A remainder is in range.
LEMMA ModRange ==
  ASSUME NEW a \in Int, NEW m \in Nat \ {0}
  PROVE  a % m \in 0 .. m - 1
OBVIOUS

\* There are slots, and the thread's own is one of them.
LEMMA SlotFacts ==
  ASSUME build \in Builds
  PROVE  /\ NumSlots \in Nat \ {0} /\ build \in Build
         /\ build.robust \in BOOLEAN /\ build.words \in {1, 2}
         /\ build.words = 1 => TaskNum <= NumSlots
         /\ Addend \in 0 .. CounterMod - 1
         /\ SMRBatch \in Nat /\ SMRBatch >= 1
         /\ build.words = 2 => SMRBatch >= NumSlots
         /\ \A t \in Tasks : /\ (t - 1) % NumSlots \in Slots
                             /\ (t - 1) % NumSlots < TaskNum
<1>1. /\ NumSlots \in Nat \ {0} /\ build \in Build
      /\ build.robust \in BOOLEAN /\ build.words \in {1, 2}
      /\ build.words = 1 => TaskNum <= NumSlots
  BY DEF NumSlots, Build
<1>2. Addend \in 0 .. CounterMod - 1
  BY <1>1, ModRange DEF Addend
<1>3. /\ SMRBatch \in Nat /\ SMRBatch >= 1
      /\ build.words = 2 => SMRBatch >= NumSlots
  BY <1>1 DEF SMRBatch
<1>4. ASSUME NEW t \in Tasks
      PROVE  (t - 1) % NumSlots \in Slots /\ (t - 1) % NumSlots < TaskNum
  <2>1. t - 1 \in Int /\ t - 1 \in Nat /\ t - 1 < TaskNum
    BY DEF Tasks
  <2>2. (t - 1) % NumSlots \in 0 .. NumSlots - 1
    BY <1>1, <2>1, ModRange
  <2>3. (t - 1) % NumSlots <= t - 1
    BY <1>1, <2>1
  <2> QED
    BY <1>1, <2>1, <2>2, <2>3 DEF Slots
<1> QED
  BY <1>1, <1>2, <1>3, <1>4

\* With heads of one word every thread has a slot of its own.
LEMMA OwnSlot ==
  ASSUME build \in Builds, build.words = 1, NEW t \in Tasks
  PROVE  (t - 1) % NumSlots = t - 1
<1>1. NumSlots \in Nat \ {0} /\ TaskNum <= NumSlots
  BY SlotFacts
<1>2. t - 1 \in Nat /\ t - 1 < NumSlots
  BY <1>1 DEF Tasks
<1> QED
  BY <1>1, <1>2

\* The fields of the threads' records.
LEMMA Fields ==
  ASSUME HyalineTypeOK, NEW t \in Tasks
  PROVE  /\ rd \in [Tasks -> Derefs] /\ rd[t] \in Derefs
         /\ wk \in [Tasks -> Walks] /\ wk[t] \in Walks
         /\ rt \in [Tasks -> Batches] /\ rt[t] \in Batches
         /\ wk[t].segs \in Seq(Segment) /\ rt[t].todo \in Seq(Objs)
         /\ vec[t] \in Slots /\ at[t] \in Slots /\ pc[t] \in PC
         /\ handle[t] \in Ptrs /\ list[t] \in SUBSET Objs
         /\ batch[t] \in Seq(Objs) /\ mine[t] \in Ptrs
BY DEF HyalineTypeOK, ClientTypeOK, Derefs, Walks, Batches

\* The records at rest.
LEMMA Blank ==
  ASSUME StartEpoch \in 0 .. EpochMod - 1
  PROVE  NoDeref \in Derefs /\ NoWalk \in Walks /\ NoRetire \in Batches
<1>1. NoDeref \in Derefs
  BY DEF NoDeref, Derefs, Ptrs
<1>2. NoWalk \in Walks
  BY DEF NoWalk, Walks, Ptrs
<1>3. NoRetire \in Batches
  BY DEF NoRetire, Batches, Ptrs
<1> QED
  BY <1>1, <1>2, <1>3

\* The steps between calls, inside one, and on the way out of it.
Walking == {"trav", "ack", "free"}

\* What walk starts is a list of at most one segment: of a finished walk, ...
LEMMA DoneType ==
  ASSUME NEW n \in Nat
  PROVE  Done(n) \in Seq(Segment)
<1>1. [cur |-> NULL, end |-> NULL, n |-> n] \in Segment
  BY DEF Segment, Ptrs
<1> QED
  BY <1>1 DEF Done

\* ... and of one that has not met the end of the list.
LEMMA WalkType ==
  ASSUME NEW c \in Ptrs, NEW e \in Ptrs, NEW n \in Nat
  PROVE  Walk(c, e, n) \in Seq(Segment)
<1>1. Done(n + 1) \in Seq(Segment)
  BY DoneType
<1>2. [cur |-> c, end |-> e, n |-> IF Acks THEN n ELSE 0] \in Segment
  BY DEF Segment
<1> QED
  BY <1>1, <1>2 DEF Walk

\* Where a walk goes on: to the next segment, to free, or back.  The thread
\* is inside its slot if it returns there.
LEMMA ProceedFacts ==
  ASSUME HyalineTypeOK, NEW t \in Tasks, NEW w \in Walks,
         NEW l \in SUBSET Objs, Proceed(t, w, l), w.left > 0 => w.ret = "in"
  PROVE  /\ wk' \in [Tasks -> Walks] /\ list' \in [Tasks -> SUBSET Objs]
         /\ at' \in [Tasks -> Slots] /\ pc' \in [Tasks -> PC]
         /\ \A u \in Tasks : u # t =>
               /\ wk'[u] = wk[u] /\ list'[u] = list[u]
               /\ at'[u] = at[u] /\ pc'[u] = pc[u]
         /\ at'[t] = vec[t]
         /\ pc'[t] \in {"trav", "ack", "free", "look", "add", "out", "in"}
         /\ pc'[t] \in {"trav", "ack"} => wk'[t].segs # <<>>
         /\ pc'[t] = "trav" => Head(wk'[t].segs).cur # NULL
         /\ wk'[t].left > 0 => wk'[t].ret = "in"
         /\ pc'[t] = "look" => Acks
         /\ \/ pc'[t] = "in"
            \/ pc'[t] \in Walking /\ wk'[t].ret = "in"
            => w.ret = "in"
         /\ w.ret = "in" =>
            \/ pc'[t] = "in"
            \/ pc'[t] \in Walking /\ wk'[t].ret = "in"
<1>1. /\ wk \in [Tasks -> Walks] /\ list \in [Tasks -> SUBSET Objs]
      /\ at \in [Tasks -> Slots] /\ pc \in [Tasks -> PC] /\ vec[t] \in Slots
      /\ StartEpoch \in 0 .. EpochMod - 1
  BY Fields DEF HyalineTypeOK
<1>2. NoWalk \in Walks /\ NoWalk.left = 0 /\ NoWalk.ret = "out"
  BY <1>1, Blank DEF NoWalk
<1>3. /\ wk' = [wk EXCEPT ![t] = IF w.segs = <<>> /\ l = {} THEN NoWalk ELSE w]
      /\ list' = [list EXCEPT ![t] = l]
      /\ at' = [at EXCEPT ![t] = vec[t]]
      /\ pc' = [pc EXCEPT ![t] =
                   IF w.segs # <<>>
                   THEN IF Head(w.segs).cur # NULL THEN "trav" ELSE "ack"
                   ELSE IF l # {} THEN "free"
                   ELSE IF w.ret = "enter" THEN Entry ELSE w.ret]
  BY DEF Proceed, Goto
<1>4. /\ wk' \in [Tasks -> Walks] /\ list' \in [Tasks -> SUBSET Objs]
      /\ at' \in [Tasks -> Slots]
      /\ \A u \in Tasks : u # t =>
            /\ wk'[u] = wk[u] /\ list'[u] = list[u]
            /\ at'[u] = at[u] /\ pc'[u] = pc[u]
      /\ at'[t] = vec[t]
      /\ wk'[t] = IF w.segs = <<>> /\ l = {} THEN NoWalk ELSE w
  BY <1>1, <1>2, <1>3
<1>5. w.ret \in {"out", "in", "enter"}
  BY DEF Walks
<1>6. pc'[t] = IF w.segs # <<>>
               THEN IF Head(w.segs).cur # NULL THEN "trav" ELSE "ack"
               ELSE IF l # {} THEN "free"
               ELSE IF w.ret = "enter" THEN Entry ELSE w.ret
  BY <1>1, <1>3
<1>7. Entry \in {"look", "add"} /\ (Entry = "look" => Acks)
  BY DEF Entry
<1>8. pc' \in [Tasks -> PC]
  BY <1>1, <1>3, <1>5, <1>7 DEF PC
<1>9. CASE w.segs # <<>>
  BY <1>4, <1>5, <1>6, <1>8, <1>9 DEF Walking
<1>10. CASE w.segs = <<>> /\ l # {}
  BY <1>4, <1>5, <1>6, <1>8, <1>10 DEF Walking
<1>11. CASE w.segs = <<>> /\ l = {}
  BY <1>2, <1>4, <1>5, <1>6, <1>7, <1>8, <1>11 DEF Walking
<1> QED
  BY <1>9, <1>10, <1>11

\* The way of retire to the next slot or out of its loop.
LEMMA NextSlotFacts ==
  ASSUME HyalineTypeOK, NEW t \in Tasks, NEW r \in Batches, Control(t),
         NextSlot(t, r), list' = list, pc[t] \in Retires, r.first # NULL,
         Len(r.todo) + at[t] + 1 >= SMRBatch
  PROVE  /\ wk' \in [Tasks -> Walks] /\ list' \in [Tasks -> SUBSET Objs]
         /\ at' \in [Tasks -> Slots] /\ pc' \in [Tasks -> PC]
         /\ rt' \in [Tasks -> Batches]
         /\ \A u \in Tasks : u # t =>
               /\ wk'[u] = wk[u] /\ list'[u] = list[u]
               /\ at'[u] = at[u] /\ pc'[u] = pc[u] /\ rt'[u] = rt[u]
         /\ \/ /\ pc'[t] \in {"rt_access", "rt_load"} /\ wk'[t] = wk[t]
               /\ rt'[t].first # NULL
               /\ Len(rt'[t].todo) + at'[t] >= SMRBatch
            \/ /\ pc'[t] = "rt_fin" /\ wk'[t] = wk[t] /\ at'[t] = vec[t]
               /\ rt'[t].node # NULL
            \/ /\ pc'[t] \in {"trav", "ack", "free", "in"} /\ at'[t] = vec[t]
               /\ pc'[t] \in {"trav", "ack"} => wk'[t].segs # <<>>
               /\ pc'[t] = "trav" => Head(wk'[t].segs).cur # NULL
               /\ wk'[t].left > 0 => wk'[t].ret = "in"
               /\ pc'[t] \in Walking => wk'[t].ret = "in"
<1>1. /\ wk \in [Tasks -> Walks] /\ wk[t] \in Walks
      /\ rt \in [Tasks -> Batches] /\ list[t] \in SUBSET Objs
      /\ at \in [Tasks -> Slots] /\ pc \in [Tasks -> PC] /\ vec[t] \in Slots
      /\ list \in [Tasks -> SUBSET Objs] /\ at[t] \in Slots
  BY Fields DEF HyalineTypeOK
<1>2. NumSlots \in Nat \ {0}
  BY SlotFacts DEF HyalineTypeOK
<1>3. /\ r.first \in Ptrs /\ r.adjs \in 0 .. CounterMod - 1
      /\ r.todo \in Seq(Objs)
  BY DEF Batches
<1>4. wk[t].ret = "in"
  BY DEF Control
<1>5. CASE /\ at[t] + 1 # NumSlots
           /\ rt' = [rt EXCEPT ![t] = r]
           /\ at' = [at EXCEPT ![t] = @ + 1]
           /\ Goto(t, IF build.robust THEN "rt_access" ELSE "rt_load")
           /\ UNCHANGED wk
  <2>1. at[t] + 1 \in Slots /\ at[t] \in Nat
    BY <1>1, <1>2, <1>5 DEF Slots
  <2>2. pc' = [pc EXCEPT ![t] = IF build.robust THEN "rt_access" ELSE "rt_load"]
    BY <1>5 DEF Goto
  <2>3. pc' \in [Tasks -> PC] /\ pc'[t] \in {"rt_access", "rt_load"}
    BY <1>1, <2>2 DEF PC
  <2>4. /\ \A u \in Tasks : u # t =>
            /\ wk'[u] = wk[u] /\ list'[u] = list[u]
            /\ at'[u] = at[u] /\ pc'[u] = pc[u] /\ rt'[u] = rt[u]
        /\ rt' \in [Tasks -> Batches] /\ at' \in [Tasks -> Slots]
        /\ rt'[t] = r /\ at'[t] = at[t] + 1
    BY <1>1, <1>5, <2>1, <2>2
  <2>5. Len(rt'[t].todo) + at'[t] >= SMRBatch
    <3>1. Len(r.todo) + (at[t] + 1) = Len(r.todo) + at[t] + 1
      BY <1>3, <2>1
    <3> QED
      BY <2>4, <3>1
  <2> QED
    BY <1>1, <1>5, <2>3, <2>4, <2>5
<1>6. CASE /\ rt' = [rt EXCEPT ![t] = [NoRetire EXCEPT !.node = r.first,
                                                  !.amt = r.adjs]]
           /\ at' = [at EXCEPT ![t] = vec[t]]
           /\ Goto(t, "rt_fin")
           /\ UNCHANGED wk
  <2>1. [NoRetire EXCEPT !.node = r.first, !.amt = r.adjs] \in Batches
    BY <1>3, Blank DEF Batches
  <2>2. [NoRetire EXCEPT !.node = r.first, !.amt = r.adjs].node # NULL
    BY DEF NoRetire
  <2>3. pc' = [pc EXCEPT ![t] = "rt_fin"]
    BY <1>6 DEF Goto
  <2>4. pc' \in [Tasks -> PC] /\ pc'[t] = "rt_fin"
    BY <1>1, <2>3 DEF PC
  <2>5. /\ \A u \in Tasks : u # t =>
            /\ wk'[u] = wk[u] /\ list'[u] = list[u]
            /\ at'[u] = at[u] /\ pc'[u] = pc[u] /\ rt'[u] = rt[u]
        /\ rt' \in [Tasks -> Batches] /\ at' \in [Tasks -> Slots]
        /\ rt'[t].node # NULL /\ at'[t] = vec[t]
    BY <1>1, <1>6, <2>1, <2>2, <2>3
  <2> QED
    BY <1>1, <1>6, <2>4, <2>5
<1>7. CASE rt' = [rt EXCEPT ![t] = NoRetire] /\ Proceed(t, wk[t], list'[t])
  <2>1. Proceed(t, wk[t], list[t])
    BY <1>7
  <2>2. wk[t].left > 0 => wk[t].ret = "in"
    BY DEF Control
  <2>3. NoRetire \in Batches
    BY Blank
  <2>4. /\ rt' \in [Tasks -> Batches]
        /\ \A u \in Tasks : u # t => rt'[u] = rt[u]
    BY <1>1, <1>7, <2>3
  <2> QED
    BY <1>1, <1>4, <2>1, <2>2, <2>4, ProceedFacts DEF Walking
<1> QED
  BY <1>5, <1>6, <1>7 DEF NextSlot

SharedTypeOK ==
    /\ ClientTypeOK /\ build \in Builds
    /\ head \in [Slots -> [ref : 0 .. TaskNum, ptr : Ptrs]]
    /\ access \in [Slots -> 0 .. EpochMod - 1]
    /\ counter \in [Slots -> Int] /\ global \in 0 .. EpochMod - 1
    /\ next \in [Objs -> Ptrs] /\ link \in [Objs -> Objs]
    /\ refs \in [Objs -> 0 .. CounterMod - 1]
    /\ birth \in [Objs -> 0 .. EpochMod - 1]
OwnTypeOK ==
    /\ allocs \in [Tasks -> 0 .. EpochFreq - 1]
    /\ batch \in [Tasks -> Seq(Objs)]
    /\ minEpoch \in [Tasks -> 0 .. EpochMod - 1]
    /\ vec \in [Tasks -> Slots] /\ handle \in [Tasks -> Ptrs]
    /\ held \in [Tasks -> SUBSET Objs]
LocalTypeOK ==
    /\ at \in [Tasks -> Slots] /\ pc \in [Tasks -> PC]
    /\ rd \in [Tasks -> Derefs] /\ wk \in [Tasks -> Walks]
    /\ list \in [Tasks -> SUBSET Objs] /\ rt \in [Tasks -> Batches]

\* The type invariant by groups of variables, before a step, ...
LEMMA TypeParts == HyalineTypeOK => SharedTypeOK /\ OwnTypeOK /\ LocalTypeOK
BY DEF HyalineTypeOK, SharedTypeOK, OwnTypeOK, LocalTypeOK, Derefs, Walks,
       Batches

\* ... after it.
LEMMA TypePartsAfter ==
  ASSUME SharedTypeOK', OwnTypeOK', LocalTypeOK'
  PROVE  HyalineTypeOK'
BY DEF HyalineTypeOK, SharedTypeOK, OwnTypeOK, LocalTypeOK, Derefs, Walks,
       Batches

\* What depends on the build alone does not change.
LEMMA SameBuild ==
  ASSUME build' = build
  PROVE  /\ Slots' = Slots /\ NumSlots' = NumSlots /\ Acks' = Acks
         /\ SMRBatch' = SMRBatch /\ Addend' = Addend
BY DEF Slots, NumSlots, Acks, SMRBatch, Addend

\* The rest of the threads are where they were.
Kept(t) ==
    \A u \in Tasks : u # t =>
        /\ pc'[u] = pc[u] /\ wk'[u] = wk[u] /\ rd'[u] = rd[u]
        /\ rt'[u] = rt[u] /\ at'[u] = at[u] /\ vec'[u] = vec[u]
        /\ handle'[u] = handle[u]

Thread(t) == Control(t) /\ Homely(t) /\ Enough(t)

\* The other threads are as sound as before.
LEMMA KeptThreads ==
  ASSUME build' = build, NEW t \in Tasks, Kept(t),
         NEW u \in Tasks, u # t, Thread(u)
  PROVE  Thread(u)' /\ (Inside(u)' <=> Inside(u))
<1>1. /\ pc'[u] = pc[u] /\ wk'[u] = wk[u] /\ rd'[u] = rd[u]
      /\ rt'[u] = rt[u] /\ at'[u] = at[u] /\ vec'[u] = vec[u]
  BY DEF Kept
<1>2. Control(u)'
  BY <1>1 DEF Thread, Control
<1>3. Homely(u)'
  BY <1>1, SameBuild DEF Thread, Homely
<1>4. Enough(u)'
  BY <1>1, SameBuild DEF Thread, Enough
<1> QED
  BY <1>1, <1>2, <1>3, <1>4 DEF Thread, Inside

\* What a step makes of the heads, as far as the counters and the threads
\* inside are concerned.
Quiet(t) ==
    /\ \A s \in Slots : /\ head'[s].ref = head[s].ref
                        /\ head[s].ptr # NULL => head'[s].ptr # NULL
    /\ vec'[t] = vec[t] /\ (Inside(t)' <=> Inside(t))
    /\ handle'[t] \in {handle[t], head'[vec[t]].ptr}
Enters(t) ==
    /\ ~Inside(t) /\ Inside(t)'
    /\ head[vec'[t]].ref < TaskNum
    /\ \/ /\ head' = [head EXCEPT ![vec'[t]].ref = @ + 1]
          /\ handle'[t] = head'[vec'[t]].ptr
       \/ /\ head' = [head EXCEPT ![vec'[t]] = [ref |-> 1, ptr |-> NULL]]
          /\ head[vec'[t]].ref = 0 /\ vec'[t] = vec[t] /\ handle'[t] = NULL
Leaving(t) ==
    /\ Inside(t) /\ ~Inside(t)' /\ vec'[t] = vec[t]
    /\ \E p \in Ptrs : head' = [head EXCEPT ![vec[t]] =
                                   [ref |-> head[vec[t]].ref - 1, ptr |-> p]]
                       /\ (head[vec[t]].ref # 1 => p = head[vec[t]].ptr)
Clears(t) ==
    /\ vec'[t] = vec[t] /\ ~Inside(t) /\ ~Inside(t)'
    /\ head[vec[t]].ref = 0
    /\ head' = [head EXCEPT ![vec[t]].ptr = NULL]
Counts(t) == Quiet(t) \/ Enters(t) \/ Leaving(t) \/ Clears(t)

Good(t) ==
    /\ SharedTypeOK' /\ OwnTypeOK' /\ LocalTypeOK'
    /\ build' = build /\ Kept(t) /\ Thread(t)' /\ Counts(t)

\* The parts of the invariant, for one thread.
LEMMA SoundParts ==
  ASSUME Sound, NEW t \in Tasks
  PROVE  /\ HyalineTypeOK /\ SharedTypeOK /\ OwnTypeOK /\ LocalTypeOK
         /\ Thread(t) /\ Control(t) /\ Homely(t) /\ Enough(t)
         /\ build \in Builds
BY TypeParts DEF Sound, Thread, HyalineTypeOK

\* The threads that a slot counts.
LEMMA HeadFacts ==
  ASSUME Sound, NEW t \in Tasks
  PROVE  /\ Inside(t) => head[vec[t]].ref >= 1
         /\ ~Inside(t) => \A s \in Slots : head[s].ref < TaskNum
         /\ build.words = 1 => head[vec[t]].ref = IF Inside(t) THEN 1 ELSE 0
<1> DEFINE In(s) == {u \in Tasks : vec[u] = s /\ Inside(u)}
<1>1. /\ vec[t] \in Slots /\ \A s \in Slots : head[s].ref = Cardinality(In(s))
      /\ \A s \in Slots : head[s].ref \in Int
  <2>1. vec[t] \in Slots /\ SharedTypeOK
    BY Fields, SoundParts
  <2>2. ASSUME NEW s \in Slots PROVE head[s].ref \in Int
    BY <2>1 DEF SharedTypeOK
  <2>3. \A s \in Slots : head[s].ref = Cardinality(In(s))
    BY DEF Sound, HeadsCount
  <2> QED
    BY <2>1, <2>2, <2>3
<1>2. IsFiniteSet(Tasks) /\ Cardinality(Tasks) = TaskNum
  BY FS_Interval DEF Tasks
<1>3. ASSUME Inside(t)
      PROVE  head[vec[t]].ref >= 1
  <2>1. t \in In(vec[t])
    BY <1>3
  <2>2. IsFiniteSet(In(vec[t]))
    BY <1>2, FS_Subset
  <2>3. Cardinality(In(vec[t])) # 0 /\ Cardinality(In(vec[t])) \in Nat
    BY <2>1, <2>2, FS_EmptySet, FS_CardinalityType
  <2>4. head[vec[t]].ref = Cardinality(In(vec[t]))
    BY <1>1
  <2> HIDE DEF In
  <2> QED
    BY <2>3, <2>4
<1>4. ASSUME ~Inside(t), NEW s \in Slots
      PROVE  head[s].ref < TaskNum
  <2>1. In(s) \subseteq Tasks \ {t} /\ Tasks \ {t} \subseteq Tasks
    BY <1>4
  <2>2. IsFiniteSet(Tasks \ {t}) /\ Cardinality(Tasks \ {t}) = TaskNum - 1
    BY <1>2, FS_RemoveElement
  <2>3. Cardinality(In(s)) <= TaskNum - 1 /\ Cardinality(In(s)) \in Nat
    BY <2>1, <2>2, FS_Subset, FS_CardinalityType
  <2>4. head[s].ref = Cardinality(In(s))
    BY <1>1
  <2> HIDE DEF In
  <2> QED
    BY <2>3, <2>4
<1>5. ASSUME build.words = 1
      PROVE  head[vec[t]].ref = IF Inside(t) THEN 1 ELSE 0
  <2>1. ~Acks
    BY <1>5 DEF Acks
  <2>2. \A u \in Tasks : vec[u] = u - 1
    <3>1. TAKE u \in Tasks
    <3>2. vec[u] = (u - 1) % NumSlots
      BY <2>1 DEF Sound, Homely
    <3> QED
      BY <1>5, <3>2, OwnSlot, SoundParts
  <2>3. \A u \in Tasks : vec[u] = vec[t] => u = t
    BY <2>2 DEF Tasks
  <2>4. CASE Inside(t)
    <3>1. In(vec[t]) = {t}
      BY <2>3, <2>4
    <3> QED
      BY <1>1, <2>4, <3>1, FS_Singleton
  <2>5. CASE ~Inside(t)
    BY <1>1, <2>3, <2>5, FS_EmptySet
  <2> QED
    BY <2>4, <2>5
<1> QED
  BY <1>3, <1>4, <1>5

\* A step of a thread's own locals.
LEMMA LocalGood ==
  ASSUME Sound, NEW t \in Tasks, UNCHANGED <<clientVars, mem, own>>,
         held' \in [Tasks -> SUBSET Objs], LocalTypeOK',
         \A u \in Tasks : u # t =>
            /\ pc'[u] = pc[u] /\ wk'[u] = wk[u] /\ rd'[u] = rd[u]
            /\ rt'[u] = rt[u] /\ at'[u] = at[u],
         Thread(t)', Inside(t)' <=> Inside(t)
  PROVE  Good(t)
<1>1. SharedTypeOK /\ OwnTypeOK
  BY SoundParts
<1>2. UNCHANGED <<build, head, access, counter, global, next, link, refs,
                  birth, allocs, batch, minEpoch, vec, handle>>
  BY DEF mem, own, epochs, nodes
<1>3. Slots' = Slots
  BY <1>2, SameBuild
<1>4. SharedTypeOK'
  BY <1>1, <1>2, <1>3 DEF SharedTypeOK, ClientTypeOK, clientVars
<1>5. OwnTypeOK'
  BY <1>1, <1>2, <1>3 DEF OwnTypeOK
<1>6. Counts(t)
  BY <1>2 DEF Counts, Quiet
<1> QED
  BY <1>2, <1>4, <1>5, <1>6 DEF Good, Kept

-----------------------------------------------------------------------------
\* The steps that only change the thread's own locals: the entry, ...
LEMMA Enter2Good ==
  ASSUME Sound, NEW t \in Tasks, Enter2(t)
  PROVE  Good(t)
<1>1. /\ UNCHANGED <<clientVars, mem, own, held, at, rd, wk, list, rt>>
      /\ pc' = [pc EXCEPT ![t] = Entry] /\ pc[t] = "out"
      /\ build' = build
  BY DEF Enter2, Goto, locals, mem
<1>2. /\ LocalTypeOK /\ Control(t) /\ Homely(t) /\ OwnTypeOK
  BY SoundParts
<1>3. Entry \in {"look", "add"} /\ (Entry = "look" => Acks)
  BY DEF Entry
<1>4. /\ pc' \in [Tasks -> PC] /\ pc'[t] \in {"look", "add"}
      /\ pc'[t] = "look" => Acks
      /\ \A u \in Tasks : u # t => pc'[u] = pc[u]
  BY <1>1, <1>2, <1>3 DEF LocalTypeOK, PC
<1>5. LocalTypeOK' /\ held' \in [Tasks -> SUBSET Objs]
  BY <1>1, <1>2, <1>4, SameBuild DEF LocalTypeOK, OwnTypeOK
<1>6. Control(t)' /\ Enough(t)'
  BY <1>1, <1>2, <1>4 DEF Control, Enough, Retires
<1>7. Homely(t)'
  BY <1>1, <1>2, <1>4, SameBuild DEF Homely, Retires, own
<1>8. Inside(t)' <=> Inside(t)
  BY <1>1, <1>4 DEF Inside
<1> QED
  BY <1>1, <1>4, <1>5, <1>6, <1>7, <1>8, LocalGood DEF Thread

\* ... the look for a slot, ...
LEMMA EnterLookGood ==
  ASSUME Sound, NEW t \in Tasks, EnterLook(t)
  PROVE  Good(t)
<1>1. /\ UNCHANGED <<clientVars, mem, own, held, rd, wk, list, rt>>
      /\ pc[t] = "look" /\ build' = build
      /\ \/ pc' = [pc EXCEPT ![t] = "add"] /\ at' = at
         \/ pc' = pc /\ at' = [at EXCEPT ![t] = (at[t] + 1) % NumSlots]
  BY DEF EnterLook, Goto, mem
<1>2. /\ LocalTypeOK /\ Control(t) /\ Homely(t) /\ OwnTypeOK
      /\ NumSlots \in Nat \ {0} /\ at[t] \in Slots
  BY SoundParts, SlotFacts, Fields
<1>3. (at[t] + 1) % NumSlots \in Slots
  <2>1. at[t] + 1 \in Int
    BY <1>2 DEF Slots
  <2> QED
    BY <1>2, <2>1, ModRange DEF Slots
<1>4. /\ pc' \in [Tasks -> PC] /\ pc'[t] \in {"look", "add"}
      /\ at' \in [Tasks -> Slots]
      /\ \A u \in Tasks : u # t => pc'[u] = pc[u] /\ at'[u] = at[u]
  BY <1>1, <1>2, <1>3 DEF LocalTypeOK, PC
<1>5. LocalTypeOK' /\ held' \in [Tasks -> SUBSET Objs]
  BY <1>1, <1>2, <1>4, SameBuild DEF LocalTypeOK, OwnTypeOK
<1>6. Control(t)' /\ Enough(t)'
  BY <1>1, <1>2, <1>4 DEF Control, Enough, Retires
<1>7. Homely(t)'
  BY <1>1, <1>2, <1>4, SameBuild DEF Homely, Retires
<1>8. Inside(t)' <=> Inside(t)
  BY <1>1, <1>4 DEF Inside
<1> QED
  BY <1>1, <1>4, <1>5, <1>6, <1>7, <1>8, LocalGood DEF Thread

\* ... the reads, ...
LEMMA ReadGood ==
  ASSUME Sound, NEW t \in Tasks, NEW c \in Cells, Read(t, c)
  PROVE  Good(t)
<1>1. /\ UNCHANGED <<clientVars, mem, own, pc, at, rd, wk, list, rt>>
      /\ held' = [held EXCEPT ![t] = @ \union ({cell[c]} \ {NULL})]
      /\ UNCHANGED <<build, vec>>
  BY DEF Read, locals, mem, own
<1>2. LocalTypeOK /\ OwnTypeOK /\ SharedTypeOK /\ Thread(t)
  BY SoundParts
<1>3. cell[c] \in Ptrs
  BY <1>2 DEF SharedTypeOK, ClientTypeOK
<1>4. held' \in [Tasks -> SUBSET Objs]
  BY <1>1, <1>2, <1>3 DEF OwnTypeOK, Ptrs
<1>5. LocalTypeOK'
  BY <1>1, <1>2, SameBuild DEF LocalTypeOK
<1>6. Thread(t)' /\ (Inside(t)' <=> Inside(t))
  BY <1>1, <1>2, SameBuild DEF Thread, Control, Homely, Enough, Inside
<1> QED
  BY <1>1, <1>4, <1>5, <1>6, LocalGood

\* ... and deref.
LEMMA DerefGood ==
  ASSUME Sound, NEW t \in Tasks, NEW r \in Derefs, NEW l \in {"in", "global",
         "access", "value"},
         UNCHANGED <<clientVars, mem, own, at, wk, list, rt>>,
         held' \in [Tasks -> SUBSET Objs],
         rd' = [rd EXCEPT ![t] = r], pc' = [pc EXCEPT ![t] = l],
         pc[t] \in {"in", "global", "access", "value"},
         l # "in" => r.src \in Cells
  PROVE  Good(t)
<1>1. build' = build /\ vec' = vec
  BY DEF mem, own
<1>2. LocalTypeOK /\ Control(t) /\ Homely(t)
  BY SoundParts
<1>3. /\ pc' \in [Tasks -> PC] /\ pc'[t] = l
      /\ rd' \in [Tasks -> Derefs] /\ rd'[t] = r
      /\ \A u \in Tasks : u # t => pc'[u] = pc[u] /\ rd'[u] = rd[u]
  BY <1>2 DEF LocalTypeOK, PC
<1>4. LocalTypeOK'
  BY <1>1, <1>2, <1>3, SameBuild DEF LocalTypeOK
<1>5. Control(t)' /\ Enough(t)'
  BY <1>1, <1>2, <1>3 DEF Control, Enough, Retires
<1>6. Homely(t)'
  BY <1>1, <1>2, <1>3, SameBuild DEF Homely, Retires
<1>7. Inside(t)' <=> Inside(t)
  BY <1>3 DEF Inside
<1> QED
  BY <1>3, <1>4, <1>5, <1>6, <1>7, LocalGood DEF Thread

\* The loads of deref.
LEMMA DerefStepsGood ==
  ASSUME Sound, NEW t \in Tasks,
         \/ \E c \in Cells : Deref(t, c)
         \/ DerefValue(t) \/ DerefGlobal(t)
  PROVE  Good(t)
<1>1. /\ SharedTypeOK /\ OwnTypeOK /\ Control(t)
      /\ rd[t] \in Derefs /\ vec[t] \in Slots /\ NoDeref \in Derefs
  BY SoundParts, Fields, Blank
<1>2. /\ \A c \in Cells : cell[c] \in Ptrs
      /\ access[vec[t]] \in 0 .. EpochMod - 1 /\ global \in 0 .. EpochMod - 1
      /\ \A c \in Cells : c # NULL \/ c = NULL
  BY <1>1 DEF SharedTypeOK, ClientTypeOK
<1>3. ASSUME NEW c \in Cells, Deref(t, c)
      PROVE  Good(t)
  <2> DEFINE r == [NoDeref EXCEPT !.src = c, !.ptr = cell[c],
                                  !.access = access[vec[t]]]
  <2>1. r \in Derefs /\ r.src = c
    BY <1>1, <1>2 DEF NoDeref, Derefs
  <2>2. /\ UNCHANGED <<clientVars, mem, own, held, at, wk, list, rt>>
        /\ pc[t] = "in" /\ pc' = [pc EXCEPT ![t] = "global"]
        /\ rd' = [rd EXCEPT ![t] = r]
    BY <1>3 DEF Deref, Goto
  <2>3. held' \in [Tasks -> SUBSET Objs]
    BY <1>1, <2>2 DEF OwnTypeOK
  <2> QED
    BY <2>1, <2>2, <2>3, DerefGood
<1>4. CASE DerefValue(t)
  <2> DEFINE r == [rd[t] EXCEPT !.ptr = cell[rd[t].src]]
  <2>1. rd[t].src \in Cells
    BY <1>1, <1>4 DEF DerefValue, Control
  <2>2. r \in Derefs /\ r.src = rd[t].src
    BY <1>1, <1>2, <2>1 DEF Derefs
  <2>3. /\ UNCHANGED <<clientVars, mem, own, held, at, wk, list, rt>>
        /\ pc[t] = "value" /\ pc' = [pc EXCEPT ![t] = "global"]
        /\ rd' = [rd EXCEPT ![t] = r]
    BY <1>4 DEF DerefValue, Goto
  <2>4. held' \in [Tasks -> SUBSET Objs]
    BY <1>1, <2>3 DEF OwnTypeOK
  <2> QED
    BY <2>1, <2>2, <2>3, <2>4, DerefGood
<1>5. CASE DerefGlobal(t)
  <2>1. rd[t].src \in Cells /\ rd[t].ptr \in Ptrs /\ pc[t] = "global"
    BY <1>1, <1>5 DEF DerefGlobal, Control, Derefs
  <2>2. UNCHANGED <<clientVars, mem, own, at, wk, list, rt>>
    BY <1>5 DEF DerefGlobal
  <2>3. CASE /\ held' = [held EXCEPT ![t] = @ \union ({rd[t].ptr} \ {NULL})]
             /\ rd' = [rd EXCEPT ![t] = NoDeref]
             /\ Goto(t, "in")
    BY <1>1, <2>1, <2>2, <2>3, DerefGood DEF OwnTypeOK, Ptrs, Goto
  <2>4. CASE /\ rd' = [rd EXCEPT ![t].global = global]
             /\ Goto(t, "access")
             /\ UNCHANGED held
    <3> DEFINE r == [rd[t] EXCEPT !.global = global]
    <3>1. r \in Derefs /\ r.src = rd[t].src
      BY <1>1, <1>2 DEF Derefs
    <3>2. rd' = [rd EXCEPT ![t] = r] /\ pc' = [pc EXCEPT ![t] = "access"]
      BY <2>4 DEF Goto
    <3>3. held' \in [Tasks -> SUBSET Objs]
      BY <1>1, <2>4 DEF OwnTypeOK
    <3> QED
      BY <2>1, <2>2, <3>1, <3>2, <3>3, DerefGood
  <2> QED
    BY <1>5, <2>3, <2>4 DEF DerefGlobal
<1> QED
  BY <1>3, <1>4, <1>5

\* retire on its way to the next slot or out of the loop is as it should be.
LEMMA NextGood ==
  ASSUME Sound, NEW t \in Tasks, NEW r \in Batches, NextSlot(t, r),
         UNCHANGED <<build, vec, handle, rd, list>>, pc[t] \in Retires,
         r.first # NULL, Len(r.todo) + at[t] + 1 >= SMRBatch
  PROVE  /\ LocalTypeOK' /\ Kept(t) /\ Thread(t)' /\ Inside(t) /\ Inside(t)'
         /\ \A u \in Tasks : u # t =>
               /\ pc'[u] = pc[u] /\ wk'[u] = wk[u] /\ rd'[u] = rd[u]
               /\ rt'[u] = rt[u] /\ at'[u] = at[u]
<1>1. HyalineTypeOK /\ Control(t) /\ Homely(t) /\ LocalTypeOK
  BY SoundParts
<1>2. /\ wk' \in [Tasks -> Walks] /\ list' \in [Tasks -> SUBSET Objs]
      /\ at' \in [Tasks -> Slots] /\ pc' \in [Tasks -> PC]
      /\ rt' \in [Tasks -> Batches]
      /\ \A u \in Tasks : u # t =>
            /\ wk'[u] = wk[u] /\ list'[u] = list[u]
            /\ at'[u] = at[u] /\ pc'[u] = pc[u] /\ rt'[u] = rt[u]
      /\ \/ /\ pc'[t] \in {"rt_access", "rt_load"} /\ wk'[t] = wk[t]
            /\ rt'[t].first # NULL
            /\ Len(rt'[t].todo) + at'[t] >= SMRBatch
         \/ /\ pc'[t] = "rt_fin" /\ wk'[t] = wk[t] /\ at'[t] = vec[t]
            /\ rt'[t].node # NULL
         \/ /\ pc'[t] \in {"trav", "ack", "free", "in"} /\ at'[t] = vec[t]
            /\ pc'[t] \in {"trav", "ack"} => wk'[t].segs # <<>>
            /\ pc'[t] = "trav" => Head(wk'[t].segs).cur # NULL
            /\ wk'[t].left > 0 => wk'[t].ret = "in"
            /\ pc'[t] \in Walking => wk'[t].ret = "in"
  BY <1>1, NextSlotFacts
<1>3. LocalTypeOK'
  BY <1>1, <1>2, SameBuild DEF LocalTypeOK
<1>4. Kept(t)
  BY <1>2 DEF Kept
<1>5. Inside(t)
  BY DEF Inside, Retires
<1>6. Inside(t)'
  BY <1>2 DEF Inside, Walking
<1>7. wk[t].ret = "in" /\ rd'[t] = rd[t] /\ vec'[t] = vec[t]
  BY <1>1 DEF Control
<1>8. Control(t)'
  BY <1>1, <1>2, <1>7 DEF Control, Retires, Walking
<1>9. Homely(t)'
  BY <1>1, <1>2, <1>7, SameBuild DEF Homely, Retires
<1>10. Enough(t)'
  BY <1>2, SameBuild DEF Enough, Retires
<1> QED
  BY <1>2, <1>3, <1>4, <1>5, <1>6, <1>8, <1>9, <1>10 DEF Thread

\* A slot that retire passes by.
LEMMA SkipGood ==
  ASSUME Sound, NEW t \in Tasks, SkipSlot(t), UNCHANGED <<clientVars, mem, own,
         held, rd>>, pc[t] \in {"rt_access", "rt_load", "rt_cas"}
  PROVE  Good(t)
<1>1. /\ HyalineTypeOK /\ Control(t) /\ Enough(t) /\ OwnTypeOK
      /\ rt[t] \in Batches /\ at[t] \in Slots /\ build \in Builds
  BY SoundParts, Fields
<1>2. /\ Addend \in 0 .. CounterMod - 1 /\ NumSlots \in Nat \ {0}
      /\ SMRBatch \in Nat
  BY <1>1, SlotFacts
<1>3. rt[t].first # NULL /\ Len(rt[t].todo) + at[t] >= SMRBatch
  BY <1>1 DEF Control, Enough, Retires
<1>4. UNCHANGED <<build, vec, handle>> /\ held' \in [Tasks -> SUBSET Objs]
  BY <1>1 DEF mem, own, OwnTypeOK
<1> DEFINE r == IF build.words = 1 THEN rt[t]
                ELSE [rt[t] EXCEPT !.adjs = (@ + Addend) % CounterMod,
                                   !.skipped = TRUE]
<1>5. (rt[t].adjs + Addend) % CounterMod \in 0 .. CounterMod - 1
  <2>1. rt[t].adjs + Addend \in Int
    BY <1>1, <1>2 DEF Batches
  <2> QED
    BY <2>1, ModRange
<1>6. r \in Batches /\ r.first = rt[t].first /\ r.todo = rt[t].todo
  BY <1>1, <1>5 DEF Batches
<1>7. NextSlot(t, r) /\ list' = list
  BY DEF SkipSlot
<1>8. Len(r.todo) + at[t] + 1 >= SMRBatch
  <2>1. rt[t].todo \in Seq(Objs) /\ at[t] \in Int
    BY <1>1, <1>2 DEF Batches, Slots
  <2>2. Len(rt[t].todo) \in Nat
    BY <2>1
  <2>3. Len(r.todo) = Len(rt[t].todo)
    BY <1>6
  <2> HIDE DEF r
  <2> QED
    BY <1>2, <1>3, <2>1, <2>2, <2>3
<1>9. pc[t] \in Retires /\ r.first # NULL
  BY <1>3, <1>6 DEF Retires
<1> HIDE DEF r
<1>10. /\ LocalTypeOK' /\ Kept(t) /\ Thread(t)' /\ Inside(t) /\ Inside(t)'
       /\ \A u \in Tasks : u # t =>
             /\ pc'[u] = pc[u] /\ wk'[u] = wk[u] /\ rd'[u] = rd[u]
             /\ rt'[u] = rt[u] /\ at'[u] = at[u]
  BY <1>4, <1>6, <1>7, <1>8, <1>9, NextGood
<1> QED
  BY <1>4, <1>10, LocalGood

\* retire looks at a slot, ...
LEMMA RtLookGood ==
  ASSUME Sound, NEW t \in Tasks, RtAccess(t) \/ RtLoad(t) \/ RtRetry(t)
  PROVE  Good(t)
<1>1. /\ UNCHANGED <<clientVars, mem, own, held, rd>>
      /\ pc[t] \in {"rt_access", "rt_load", "rt_cas"}
  BY DEF RtAccess, RtLoad, RtRetry
<1>2. CASE SkipSlot(t)
  BY <1>1, <1>2, SkipGood
<1>3. CASE ~SkipSlot(t)
  <2>1. /\ SharedTypeOK /\ OwnTypeOK /\ LocalTypeOK /\ Control(t) /\ Homely(t)
        /\ Enough(t) /\ rt[t] \in Batches /\ at[t] \in Slots
        /\ build \in Builds
    BY SoundParts, Fields
  <2>2. UNCHANGED <<build, head, vec, handle, held, rd>>
    BY <1>1 DEF mem, own
  <2>3. /\ UNCHANGED <<wk, at, list>>
        /\ \/ pc' = [pc EXCEPT ![t] = "rt_load"] /\ rt' = rt
           \/ /\ rt' = [rt EXCEPT ![t].prev = head[at[t]].ptr]
              /\ pc' = [pc EXCEPT ![t] = "rt_cas"] \/ pc' = pc
              /\ head[at[t]].ref # 0
    BY <1>3 DEF RtAccess, RtLoad, RtRetry, Goto
  <2>4. head[at[t]].ptr \in Ptrs
    BY <2>1 DEF SharedTypeOK
  <2>5. /\ rt' \in [Tasks -> Batches] /\ rt'[t].todo = rt[t].todo
        /\ rt'[t].first = rt[t].first
        /\ \A u \in Tasks : u # t => rt'[u] = rt[u]
    <3> DEFINE r == [rt[t] EXCEPT !.prev = head[at[t]].ptr]
    <3>1. r \in Batches /\ r.todo = rt[t].todo /\ r.first = rt[t].first
      BY <2>1, <2>4 DEF Batches
    <3>2. rt' = rt \/ rt' = [rt EXCEPT ![t] = r]
      BY <2>3
    <3>3. rt \in [Tasks -> Batches]
      BY <2>1 DEF LocalTypeOK
    <3> HIDE DEF r
    <3> QED
      BY <3>1, <3>2, <3>3
  <2>6. /\ pc' \in [Tasks -> PC] /\ pc'[t] \in {"rt_access", "rt_load", "rt_cas"}
        /\ \A u \in Tasks : u # t => pc'[u] = pc[u]
        /\ pc'[t] = "rt_cas" => head[at[t]].ref # 0
    BY <1>1, <2>1, <2>3 DEF LocalTypeOK, PC
  <2>7. LocalTypeOK'
    BY <2>1, <2>2, <2>3, <2>5, <2>6, SameBuild DEF LocalTypeOK
  <2>8. Control(t)'
    BY <1>1, <2>1, <2>2, <2>3, <2>5, <2>6 DEF Control, Retires
  <2>9. Homely(t)'
    BY <2>1, <2>2, <2>3, <2>6, SameBuild DEF Homely, Retires
  <2>10. ASSUME head[at[t]].ref # 0, ~Acks
         PROVE  at[t] < TaskNum
    <3>1. /\ head[at[t]].ref =
                Cardinality({u \in Tasks : vec[u] = at[t] /\ Inside(u)})
      BY <2>1 DEF Sound, HeadsCount
    <3>2. PICK u \in Tasks : vec[u] = at[t]
      BY <2>10, <3>1, FS_EmptySet
    <3>3. vec[u] = (u - 1) % NumSlots
      BY <2>10 DEF Sound, Homely
    <3> QED
      BY <2>1, <3>2, <3>3, SlotFacts
  <2>11. Enough(t)'
    BY <1>1, <2>1, <2>2, <2>3, <2>5, <2>6, <2>10, SameBuild DEF Enough, Retires
  <2>12. Inside(t) /\ Inside(t)'
    BY <1>1, <2>6 DEF Inside
  <2>13. held' \in [Tasks -> SUBSET Objs]
    BY <2>1, <2>2 DEF OwnTypeOK
  <2> QED
    BY <1>1, <2>2, <2>3, <2>5, <2>6, <2>7, <2>8, <2>9, <2>11, <2>12, <2>13,
       LocalGood DEF Thread
<1> QED
  BY <1>2, <1>3

\* ... and leave at its own.
LEMMA LoadHeadGood ==
  ASSUME Sound, NEW t \in Tasks, Leave2(t) \/ LeaveTrim2(t) \/ LeaveRetry(t)
  PROVE  Good(t)
<1>1. PICK w \in Walks :
         /\ LoadHead(t, w) /\ w.ret \in {"out", "enter"}
         /\ w.left > 0 => w.ret = "in"
  <2>1. /\ HyalineTypeOK /\ Control(t) /\ wk[t] \in Walks /\ NoWalk \in Walks
    BY SoundParts, Fields, Blank
  <2>2. CASE Leave2(t)
    BY <2>1, <2>2 DEF NoWalk, Leave2
  <2>3. CASE LeaveTrim2(t) \/ LeaveRetry(t)
    <3>1. LoadHead(t, wk[t]) /\ pc[t] \in {"leave", "lv_cas"}
      BY <2>3 DEF LeaveTrim2, LeaveRetry
    <3>2. wk[t].ret \in {"out", "enter"}
      BY <2>1, <3>1 DEF Control
    <3> QED
      BY <2>1, <3>1, <3>2 DEF Control
  <2> QED
    BY <2>2, <2>3
<1>2. /\ UNCHANGED <<clientVars, mem, own, at, rd, list, rt>>
      /\ held' = held \/ held' = [held EXCEPT ![t] = {}]
      /\ pc[t] \in {"in", "leave", "lv_cas"}
      /\ build.words = 2
  BY SoundParts DEF Leave2, LeaveTrim2, LeaveRetry, Control
<1>3. /\ SharedTypeOK /\ OwnTypeOK /\ LocalTypeOK /\ Control(t) /\ Homely(t)
      /\ vec[t] \in Slots /\ handle[t] \in Ptrs
  BY SoundParts, Fields
<1>4. UNCHANGED <<build, vec, handle>> /\ held' \in [Tasks -> SUBSET Objs]
  BY <1>2, <1>3 DEF mem, own, OwnTypeOK
<1> DEFINE c == head[vec[t]].ptr
           x == [w EXCEPT !.curr = c,
                          !.next = IF c = handle[t] THEN NULL ELSE next[c]]
<1>5. wk' = [wk EXCEPT ![t] = x] /\ pc' = [pc EXCEPT ![t] = "lv_cas"]
  BY <1>1 DEF LoadHead, Goto
<1>6. c \in Ptrs
  BY <1>3 DEF SharedTypeOK
<1>7. Inside(t)
  BY <1>2 DEF Inside
<1>8. c # handle[t] => c \in Objs
  BY <1>3, <1>6, <1>7 DEF Sound, Anchored, Ptrs
<1>9. (IF c = handle[t] THEN NULL ELSE next[c]) \in Ptrs
  BY <1>3, <1>8 DEF SharedTypeOK, Ptrs
<1>10. x \in Walks /\ x.ret = w.ret /\ x.left = w.left
  BY <1>1, <1>6, <1>9 DEF Walks
<1> HIDE DEF x
<1>11. /\ wk' \in [Tasks -> Walks] /\ wk'[t] = x
       /\ pc' \in [Tasks -> PC] /\ pc'[t] = "lv_cas"
       /\ \A u \in Tasks : u # t => wk'[u] = wk[u] /\ pc'[u] = pc[u]
  BY <1>3, <1>5, <1>10 DEF LocalTypeOK, PC
<1>12. LocalTypeOK'
  BY <1>2, <1>3, <1>4, <1>11, SameBuild DEF LocalTypeOK
<1>13. Control(t)'
  BY <1>1, <1>2, <1>4, <1>10, <1>11 DEF Control, Retires
<1>14. Homely(t)'
  BY <1>2, <1>3, <1>4, <1>11, SameBuild DEF Homely, Retires
<1>15. Enough(t)'
  BY <1>11 DEF Enough, Retires
<1>16. Inside(t)'
  BY <1>11 DEF Inside
<1> QED
  BY <1>2, <1>4, <1>7, <1>11, <1>12, <1>13, <1>14, <1>15, <1>16, LocalGood
     DEF Thread

\* The types of a head.
LEMMA HeadType ==
  ASSUME SharedTypeOK, NEW s \in Slots
  PROVE  /\ head[s] \in [ref : 0 .. TaskNum, ptr : Ptrs]
         /\ head[s].ref \in 0 .. TaskNum /\ head[s].ptr \in Ptrs
<1>1. head[s] \in [ref : 0 .. TaskNum, ptr : Ptrs]
  BY DEF SharedTypeOK
<1> QED
  BY <1>1

\* A thread counts itself in.
LEMMA EnterGood ==
  ASSUME Sound, NEW t \in Tasks, Enter1(t) \/ EnterAdd(t)
  PROVE  Good(t)
<1>1. /\ SharedTypeOK /\ OwnTypeOK /\ LocalTypeOK /\ Control(t) /\ Homely(t)
      /\ vec[t] \in Slots /\ at[t] \in Slots /\ pc[t] \in PC
      /\ TaskNum >= 1 /\ TaskNum \in Nat
  BY SoundParts, Fields
<1>2. /\ UNCHANGED <<clientVars, build, epochs, nodes, allocs, batch, minEpoch,
                     held, locals>>
      /\ pc[t] \in {"out", "add"} /\ pc' = [pc EXCEPT ![t] = "in"]
  BY DEF Enter1, EnterAdd, Goto
<1>3. /\ UNCHANGED <<clientVars, build, access, counter, global, next, link,
                     refs, birth, allocs, batch, minEpoch, held, at, rd, wk,
                     list, rt>>
      /\ Slots' = Slots
  BY <1>2, SameBuild DEF epochs, nodes, locals
<1>4. /\ pc' \in [Tasks -> PC] /\ pc'[t] = "in"
      /\ \A u \in Tasks : u # t => pc'[u] = pc[u]
  BY <1>1, <1>2 DEF LocalTypeOK, PC
<1>5. ~Inside(t) /\ Inside(t)' /\ \A s \in Slots : head[s].ref < TaskNum
  BY <1>2, <1>4, HeadFacts DEF Inside
<1>6. Control(t)' /\ Enough(t)'
  BY <1>1, <1>3, <1>4 DEF Control, Enough, Retires
<1>7. LocalTypeOK'
  BY <1>1, <1>3, <1>4 DEF LocalTypeOK
<1>8. CASE Enter1(t)
  <2>1. /\ head' = [head EXCEPT ![vec[t]] = [ref |-> 1, ptr |-> NULL]]
        /\ handle' = [handle EXCEPT ![t] = NULL]
        /\ vec' = vec /\ build.words = 1
    BY <1>8 DEF Enter1
  <2>2. [ref |-> 1, ptr |-> NULL] \in [ref : 0 .. TaskNum, ptr : Ptrs]
    BY <1>1 DEF Ptrs
  <2>3. head' \in [Slots -> [ref : 0 .. TaskNum, ptr : Ptrs]]
    BY <1>1, <2>1, <2>2 DEF SharedTypeOK
  <2>4. SharedTypeOK'
    BY <1>1, <1>3, <2>3 DEF SharedTypeOK, ClientTypeOK, clientVars
  <2>5. /\ handle' \in [Tasks -> Ptrs] /\ handle'[t] = NULL
        /\ \A u \in Tasks : u # t => handle'[u] = handle[u]
    BY <1>1, <2>1 DEF OwnTypeOK, Ptrs
  <2>6. OwnTypeOK'
    BY <1>1, <1>3, <2>1, <2>5 DEF OwnTypeOK
  <2>7. head[vec[t]].ref = 0
    BY <1>5, <2>1, HeadFacts
  <2>8. Counts(t)
    BY <1>1, <1>5, <2>1, <2>5, <2>7 DEF Counts, Enters
  <2>9. Kept(t)
    BY <1>3, <1>4, <2>1, <2>5 DEF Kept
  <2>10. Homely(t)'
    BY <1>1, <1>2, <1>3, <1>4, <2>1, SameBuild DEF Acks, Homely, Retires
  <2> QED
    BY <1>3, <1>6, <1>7, <2>4, <2>6, <2>8, <2>9, <2>10 DEF Good, Thread
<1>9. CASE EnterAdd(t)
  <2>1. /\ head' = [head EXCEPT ![at[t]].ref = @ + 1]
        /\ handle' = [handle EXCEPT ![t] = head[at[t]].ptr]
        /\ vec' = [vec EXCEPT ![t] = at[t]]
    BY <1>9 DEF EnterAdd
  <2>2. head[at[t]].ref \in 0 .. TaskNum /\ head[at[t]].ptr \in Ptrs
    BY <1>1, HeadType
  <2>3. head[at[t]].ref + 1 \in 0 .. TaskNum
    BY <1>1, <1>5, <2>2
  <2>4. head' \in [Slots -> [ref : 0 .. TaskNum, ptr : Ptrs]]
    BY <1>1, <2>1, <2>3 DEF SharedTypeOK
  <2>5. SharedTypeOK'
    BY <1>1, <1>3, <2>4 DEF SharedTypeOK, ClientTypeOK, clientVars
  <2>6. /\ handle' \in [Tasks -> Ptrs] /\ handle'[t] = head[at[t]].ptr
        /\ vec' \in [Tasks -> Slots] /\ vec'[t] = at[t]
        /\ \A u \in Tasks : u # t => handle'[u] = handle[u] /\ vec'[u] = vec[u]
    BY <1>1, <2>1, <2>2 DEF OwnTypeOK
  <2>7. OwnTypeOK'
    BY <1>1, <1>3, <2>6 DEF OwnTypeOK
  <2>8. head'[at[t]].ptr = head[at[t]].ptr
    BY <1>1, <2>1 DEF SharedTypeOK
  <2>9. Counts(t)
    BY <1>1, <1>5, <2>1, <2>6, <2>8 DEF Counts, Enters
  <2>10. Kept(t)
    BY <1>3, <1>4, <2>6 DEF Kept
  <2>11. Homely(t)'
    <3>1. Acks' = Acks /\ NumSlots' = NumSlots
      BY <1>3, SameBuild
    <3>2. pc[t] \notin Retires
      BY <1>2 DEF Retires
    <3> QED
      BY <1>1, <1>2, <1>3, <1>4, <2>6, <3>1, <3>2 DEF Homely, Retires
  <2> QED
    BY <1>3, <1>6, <1>7, <2>5, <2>7, <2>9, <2>10, <2>11 DEF Good, Thread
<1> QED
  BY <1>8, <1>9

\* A walk that goes on.
LEMMA WalkGood ==
  ASSUME Sound, NEW t \in Tasks, NEW w \in Walks, NEW l \in SUBSET Objs,
         Proceed(t, w, l), UNCHANGED <<build, vec, rd>>,
         rt' = rt \/ rt' = [rt EXCEPT ![t] = NoRetire],
         handle' \in [Tasks -> Ptrs],
         \A u \in Tasks : u # t => handle'[u] = handle[u],
         w.left > 0 => w.ret = "in"
  PROVE  /\ LocalTypeOK' /\ Kept(t) /\ Thread(t)'
         /\ Inside(t)' <=> w.ret = "in"
<1>1. /\ LocalTypeOK /\ Control(t) /\ Homely(t) /\ HyalineTypeOK
      /\ NoRetire \in Batches
  BY SoundParts, Blank
<1>2. /\ wk' \in [Tasks -> Walks] /\ list' \in [Tasks -> SUBSET Objs]
      /\ at' \in [Tasks -> Slots] /\ pc' \in [Tasks -> PC]
      /\ \A u \in Tasks : u # t =>
            /\ wk'[u] = wk[u] /\ list'[u] = list[u]
            /\ at'[u] = at[u] /\ pc'[u] = pc[u]
      /\ at'[t] = vec[t]
      /\ pc'[t] \in {"trav", "ack", "free", "look", "add", "out", "in"}
      /\ pc'[t] \in {"trav", "ack"} => wk'[t].segs # <<>>
      /\ pc'[t] = "trav" => Head(wk'[t].segs).cur # NULL
      /\ wk'[t].left > 0 => wk'[t].ret = "in"
      /\ pc'[t] = "look" => Acks
      /\ \/ pc'[t] = "in"
         \/ pc'[t] \in Walking /\ wk'[t].ret = "in"
         => w.ret = "in"
      /\ w.ret = "in" =>
         \/ pc'[t] = "in"
         \/ pc'[t] \in Walking /\ wk'[t].ret = "in"
  BY <1>1, ProceedFacts
<1>3. rt' \in [Tasks -> Batches] /\ \A u \in Tasks : u # t => rt'[u] = rt[u]
  BY <1>1 DEF LocalTypeOK
<1>4. LocalTypeOK'
  BY <1>1, <1>2, <1>3, SameBuild DEF LocalTypeOK
<1>5. Kept(t)
  BY <1>2, <1>3 DEF Kept
<1>6. Control(t)'
  BY <1>2 DEF Control, Retires
<1>7. Homely(t)'
  BY <1>1, <1>2, SameBuild DEF Homely
<1>8. Enough(t)'
  BY <1>2 DEF Enough, Retires
<1>9. Inside(t)' <=> w.ret = "in"
  BY <1>2 DEF Inside, Walking
<1> QED
  BY <1>4, <1>5, <1>6, <1>7, <1>8, <1>9 DEF Thread

\* Segments before segments.
LEMMA JoinType ==
  ASSUME NEW a \in Seq(Segment), NEW b \in Seq(Segment)
  PROVE  a \o b \in Seq(Segment)
OBVIOUS

\* leave takes the list of a slot that only the thread itself counts for.
LEMMA TakeListGood ==
  ASSUME Sound, NEW t \in Tasks, Leave1(t) \/ LeaveTrim1(t)
  PROVE  Good(t)
<1>1. PICK w \in Walks :
         /\ TakeList(t, w) /\ w.ret \in {"out", "enter"}
         /\ w.left > 0 => w.ret = "in"
  <2>1. Control(t) /\ wk[t] \in Walks /\ NoWalk \in Walks
    BY SoundParts, Fields, Blank
  <2>2. CASE Leave1(t)
    BY <2>1, <2>2 DEF NoWalk, Leave1
  <2>3. CASE LeaveTrim1(t)
    BY <2>1, <2>3 DEF LeaveTrim1, Control
  <2> QED
    BY <2>2, <2>3
<1>2. /\ SharedTypeOK /\ OwnTypeOK /\ LocalTypeOK /\ Control(t) /\ Homely(t)
      /\ vec[t] \in Slots /\ handle[t] \in Ptrs /\ list[t] \in SUBSET Objs
  BY SoundParts, Fields
<1>3. /\ UNCHANGED <<clientVars, build, access, counter, global, next, link,
                     refs, birth, allocs, batch, minEpoch, vec, handle, rd,
                     rt>>
      /\ Slots' = Slots
      /\ head' = [head EXCEPT ![vec[t]] = [ref |-> 0, ptr |-> NULL]]
  BY <1>1, SameBuild DEF TakeList, epochs, nodes, own
<1>4. /\ held' = held \/ held' = [held EXCEPT ![t] = {}]
      /\ pc[t] \in {"in", "leave"} /\ build.words = 1
  BY DEF Leave1, LeaveTrim1
<1>5. held' \in [Tasks -> SUBSET Objs]
  BY <1>2, <1>4 DEF OwnTypeOK
<1>6. Inside(t) /\ head[vec[t]].ref = 1
  BY <1>4, HeadFacts DEF Inside
<1>7. head' \in [Slots -> [ref : 0 .. TaskNum, ptr : Ptrs]]
  BY <1>2, <1>3 DEF Ptrs, SharedTypeOK
<1>8. SharedTypeOK'
  BY <1>2, <1>3, <1>7 DEF SharedTypeOK, ClientTypeOK, clientVars
<1>9. OwnTypeOK'
  BY <1>2, <1>3, <1>5 DEF OwnTypeOK
<1> DEFINE segs == IF head[vec[t]].ptr = NULL THEN w.segs
                   ELSE Walk(head[vec[t]].ptr, handle[t], 0) \o w.segs
           x == [w EXCEPT !.segs = segs]
<1>10. x \in Walks /\ x.ret = w.ret /\ x.left = w.left
  <2>1. w.segs \in Seq(Segment) /\ head[vec[t]].ptr \in Ptrs
    BY <1>2, HeadType DEF Walks
  <2>2. Walk(head[vec[t]].ptr, handle[t], 0) \in Seq(Segment)
    BY <1>2, <2>1, WalkType
  <2>3. segs \in Seq(Segment)
    BY <2>1, <2>2, JoinType
  <2> HIDE DEF segs
  <2> QED
    BY <2>3 DEF Walks
<1>11. Proceed(t, x, list[t])
  BY <1>1 DEF TakeList
<1> HIDE DEF x
<1>12. /\ LocalTypeOK' /\ Kept(t) /\ Thread(t)'
       /\ Inside(t)' <=> x.ret = "in"
  BY <1>1, <1>2, <1>3, <1>10, <1>11, WalkGood DEF OwnTypeOK
<1>13. Leaving(t)
  <2>1. [ref |-> head[vec[t]].ref - 1, ptr |-> NULL] = [ref |-> 0, ptr |-> NULL]
    BY <1>6
  <2>2. NULL \in Ptrs
    BY DEF Ptrs
  <2> QED
    BY <1>1, <1>3, <1>6, <1>10, <1>12, <2>1, <2>2 DEF Leaving
<1> QED
  BY <1>3, <1>8, <1>9, <1>12, <1>13 DEF Good, Counts

\* leave with heads of two words counts the thread out, ...
LEMMA LeaveCasGood ==
  ASSUME Sound, NEW t \in Tasks, LeaveCas(t)
  PROVE  Good(t)
<1> DEFINE s == vec[t]
           c == wk[t].curr
           last == head[s].ref = 1
           segs == IF c = handle[t] THEN <<>> ELSE Walk(wk[t].next, handle[t], 0)
           w == [wk[t] EXCEPT !.curr = NULL, !.next = NULL, !.segs = segs \o @]
<1>1. /\ SharedTypeOK /\ OwnTypeOK /\ LocalTypeOK /\ Control(t) /\ Homely(t)
      /\ vec[t] \in Slots /\ handle[t] \in Ptrs /\ list[t] \in SUBSET Objs
      /\ wk[t] \in Walks /\ rt[t] \in Batches /\ build \in Builds
  BY SoundParts, Fields
<1>2. /\ UNCHANGED <<clientVars, build, access, counter, global, next, link,
                     refs, birth, allocs, batch, minEpoch, vec, handle, held,
                     rd>>
      /\ Slots' = Slots
  BY SameBuild DEF LeaveCas, epochs, nodes, own
<1>3. /\ pc[t] = "lv_cas" /\ wk[t].ret \in {"out", "enter"}
      /\ wk[t].left > 0 => wk[t].ret = "in"
      /\ build.words = 2
  BY <1>1 DEF LeaveCas, Control
<1>4. /\ Inside(t) /\ head[s].ref \in 0 .. TaskNum /\ head[s].ref >= 1
      /\ c \in Ptrs /\ wk[t].next \in Ptrs
  BY <1>1, <1>3, HeadFacts, HeadType DEF Inside, Walks
<1> DEFINE p == IF last /\ build.full THEN NULL ELSE c
<1>5. /\ head' = [head EXCEPT ![s] = [ref |-> head[s].ref - 1, ptr |-> p]]
      /\ p \in Ptrs /\ (head[s].ref # 1 => p = head[s].ptr)
  BY <1>1, <1>4 DEF LeaveCas, Ptrs
<1> HIDE DEF p
<1>6. head' \in [Slots -> [ref : 0 .. TaskNum, ptr : Ptrs]]
  BY <1>1, <1>4, <1>5 DEF SharedTypeOK
<1>7. SharedTypeOK'
  BY <1>1, <1>2, <1>6 DEF SharedTypeOK, ClientTypeOK, clientVars
<1>8. OwnTypeOK'
  BY <1>1, <1>2 DEF OwnTypeOK
<1>9. w \in Walks /\ w.ret = wk[t].ret /\ w.left = wk[t].left
  <2>1. wk[t].segs \in Seq(Segment)
    BY <1>1 DEF Walks
  <2>2. Walk(wk[t].next, handle[t], 0) \in Seq(Segment)
    BY <1>1, <1>4, WalkType
  <2>3. segs \in Seq(Segment)
    BY <2>2
  <2>4. segs \o wk[t].segs \in Seq(Segment)
    BY <2>1, <2>3, JoinType
  <2> HIDE DEF segs
  <2> QED
    BY <1>1, <2>4 DEF Walks, Ptrs
<1>10. ASSUME LocalTypeOK', Kept(t), Thread(t)', ~Inside(t)'
       PROVE  Good(t)
  BY <1>2, <1>4, <1>5, <1>7, <1>8, <1>10 DEF Leaving, Good, Counts
<1>11. CASE ~(last /\ c # NULL)
  <2>1. Proceed(t, w, list[t]) /\ rt' = rt
    BY <1>11 DEF LeaveCas
  <2>2. /\ handle' \in [Tasks -> Ptrs]
        /\ \A u \in Tasks : u # t => handle'[u] = handle[u]
    BY <1>1, <1>2 DEF OwnTypeOK
  <2> HIDE DEF w
  <2>3. /\ LocalTypeOK' /\ Kept(t) /\ Thread(t)'
        /\ Inside(t)' <=> w.ret = "in"
    BY <1>1, <1>2, <1>3, <1>9, <2>1, <2>2, WalkGood
  <2> QED
    BY <1>3, <1>9, <1>10, <2>3
<1>12. CASE last /\ c # NULL
  <2> DEFINE r == [rt[t] EXCEPT !.node = c, !.amt = Addend]
             l == IF build.full THEN "lv_adj" ELSE "lv_clear"
  <2>1. /\ rt' = [rt EXCEPT ![t].node = c, ![t].amt = Addend]
        /\ wk' = [wk EXCEPT ![t] = w]
        /\ pc' = [pc EXCEPT ![t] = l]
        /\ at' = at /\ list' = list
    BY <1>12 DEF LeaveCas, Goto
  <2>2. Addend \in 0 .. CounterMod - 1
    BY <1>1, SlotFacts
  <2>3. r \in Batches /\ r.node = c
    BY <1>1, <1>4, <2>2 DEF Batches
  <2>4. /\ rt' \in [Tasks -> Batches] /\ rt'[t] = r
        /\ \A u \in Tasks : u # t => rt'[u] = rt[u]
    <3>1. rt' = [rt EXCEPT ![t] = r]
      BY <1>1, <2>1 DEF LocalTypeOK
    <3> HIDE DEF r
    <3> QED
      BY <1>1, <2>3, <3>1 DEF LocalTypeOK
  <2> HIDE DEF r, w
  <2>5. /\ wk' \in [Tasks -> Walks] /\ wk'[t] = w
        /\ pc' \in [Tasks -> PC] /\ pc'[t] \in {"lv_adj", "lv_clear"}
        /\ \A u \in Tasks : u # t => wk'[u] = wk[u] /\ pc'[u] = pc[u]
    BY <1>1, <1>9, <2>1 DEF LocalTypeOK, PC
  <2>6. LocalTypeOK'
    BY <1>1, <1>2, <2>1, <2>4, <2>5 DEF LocalTypeOK
  <2>7. Kept(t)
    BY <1>2, <2>1, <2>4, <2>5 DEF Kept
  <2>8. Control(t)'
    BY <1>2, <1>3, <1>9, <1>12, <2>3, <2>4, <2>5 DEF Control, Retires
  <2>9. Homely(t)'
    BY <1>1, <1>2, <1>3, <2>1, <2>5, SameBuild DEF Homely, Retires
  <2>10. Enough(t)'
    BY <2>5 DEF Enough, Retires
  <2>11. ~Inside(t)'
    BY <2>5 DEF Inside
  <2> QED
    BY <1>10, <2>6, <2>7, <2>8, <2>9, <2>10, <2>11 DEF Thread
<1> QED
  BY <1>11, <1>12

\* ... takes the list of an empty slot, ...
LEMMA LeaveClearGood ==
  ASSUME Sound, NEW t \in Tasks, LeaveClear(t)
  PROVE  Good(t)
<1>1. /\ SharedTypeOK /\ OwnTypeOK /\ LocalTypeOK /\ Control(t) /\ Homely(t)
      /\ vec[t] \in Slots /\ list[t] \in SUBSET Objs /\ wk[t] \in Walks
  BY SoundParts, Fields
<1>2. /\ UNCHANGED <<clientVars, build, access, counter, global, next, link,
                     refs, birth, allocs, batch, minEpoch, vec, handle, held,
                     rd>>
      /\ Slots' = Slots
  BY SameBuild DEF LeaveClear, epochs, nodes, own
<1>3. /\ pc[t] = "lv_clear" /\ wk[t].ret \in {"out", "enter"}
      /\ wk[t].left > 0 => wk[t].ret = "in"
      /\ rt[t].node # NULL /\ build.words = 2
      /\ ~Inside(t)
  BY <1>1 DEF LeaveClear, Control, Inside
<1>4. OwnTypeOK'
  BY <1>1, <1>2 DEF OwnTypeOK
<1>5. CASE /\ head[vec[t]] = [ref |-> 0, ptr |-> rt[t].node]
           /\ head' = [head EXCEPT ![vec[t]].ptr = NULL]
           /\ Goto(t, "lv_adj")
           /\ UNCHANGED <<at, wk, list, rt>>
  <2>1. pc' = [pc EXCEPT ![t] = "lv_adj"]
    BY <1>5 DEF Goto
  <2>2. /\ pc' \in [Tasks -> PC] /\ pc'[t] = "lv_adj"
        /\ \A u \in Tasks : u # t => pc'[u] = pc[u]
    BY <1>1, <2>1 DEF LocalTypeOK, PC
  <2>3. head' \in [Slots -> [ref : 0 .. TaskNum, ptr : Ptrs]]
    BY <1>1, <1>5 DEF SharedTypeOK, Ptrs
  <2>4. SharedTypeOK'
    BY <1>1, <1>2, <2>3 DEF SharedTypeOK, ClientTypeOK, clientVars
  <2>5. LocalTypeOK'
    BY <1>1, <1>2, <1>5, <2>2 DEF LocalTypeOK
  <2>6. Kept(t)
    BY <1>2, <1>5, <2>2 DEF Kept
  <2>7. Control(t)' /\ Enough(t)'
    BY <1>2, <1>3, <1>5, <2>2 DEF Control, Enough, Retires
  <2>8. Homely(t)'
    BY <1>1, <1>2, <1>3, <1>5, <2>2, SameBuild DEF Homely, Retires
  <2>9. ~Inside(t)'
    BY <2>2 DEF Inside
  <2>10. Clears(t)
    BY <1>2, <1>3, <1>5, <2>9 DEF Clears
  <2> QED
    BY <1>2, <1>4, <2>4, <2>5, <2>6, <2>7, <2>8, <2>10 DEF Good, Counts, Thread
<1>6. CASE /\ rt' = [rt EXCEPT ![t] = NoRetire]
           /\ Proceed(t, wk[t], list[t])
           /\ UNCHANGED head
  <2>1. SharedTypeOK'
    BY <1>1, <1>2, <1>6 DEF SharedTypeOK, ClientTypeOK, clientVars
  <2>2. /\ LocalTypeOK' /\ Kept(t) /\ Thread(t)'
        /\ Inside(t)' <=> wk[t].ret = "in"
    BY <1>1, <1>2, <1>3, <1>6, WalkGood DEF OwnTypeOK
  <2>3. Quiet(t)
    BY <1>2, <1>3, <1>6, <2>2 DEF Quiet
  <2> QED
    BY <1>2, <1>4, <2>1, <2>2, <2>3 DEF Good, Counts
<1> QED
  BY <1>5, <1>6 DEF LeaveClear

\* adjust_refs of a node's batch.
LEMMA AdjustType ==
  ASSUME HyalineTypeOK, NEW t \in Tasks, NEW n \in Objs,
         NEW amt \in 0 .. CounterMod - 1
  PROVE  /\ AdjustRefs(n, amt) => refs' \in [Objs -> 0 .. CounterMod - 1]
         /\ Adjusted(t, n, amt) \in SUBSET Objs
<1>1. /\ refs \in [Objs -> 0 .. CounterMod - 1] /\ link[n] \in Objs
      /\ list[t] \in SUBSET Objs
  BY DEF HyalineTypeOK
<1>2. (refs[link[n]] + amt) % CounterMod \in 0 .. CounterMod - 1
  <2>1. refs[link[n]] + amt \in Int
    BY <1>1
  <2> QED
    BY <2>1, ModRange
<1> QED
  BY <1>1, <1>2 DEF AdjustRefs, Adjusted

\* The adjustments that end a call of leave or of retire.
LEMMA LastAdjustGood ==
  ASSUME Sound, NEW t \in Tasks, LeaveAdjust(t) \/ RtFin(t)
  PROVE  Good(t)
<1>1. /\ SharedTypeOK /\ OwnTypeOK /\ LocalTypeOK /\ Control(t)
      /\ wk[t] \in Walks /\ rt[t] \in Batches /\ HyalineTypeOK
  BY SoundParts, Fields
<1>2. /\ UNCHANGED <<clientVars, build, head, access, counter, global, next,
                     link, birth, allocs, batch, minEpoch, vec, handle, held,
                     rd>>
      /\ Slots' = Slots
  BY SameBuild DEF LeaveAdjust, RtFin, epochs, own
<1>3. /\ AdjustRefs(rt[t].node, rt[t].amt)
      /\ rt' = [rt EXCEPT ![t] = NoRetire]
      /\ Proceed(t, wk[t], Adjusted(t, rt[t].node, rt[t].amt))
      /\ pc[t] \in {"lv_adj", "rt_fin"}
  BY DEF LeaveAdjust, RtFin
<1>4. /\ rt[t].node \in Objs /\ rt[t].amt \in 0 .. CounterMod - 1
      /\ wk[t].left > 0 => wk[t].ret = "in"
  BY <1>1, <1>3 DEF Control, Batches, Ptrs
<1>5. /\ refs' \in [Objs -> 0 .. CounterMod - 1]
      /\ Adjusted(t, rt[t].node, rt[t].amt) \in SUBSET Objs
  BY <1>1, <1>3, <1>4, AdjustType
<1>6. SharedTypeOK'
  BY <1>1, <1>2, <1>5 DEF SharedTypeOK, ClientTypeOK, clientVars
<1>7. OwnTypeOK'
  BY <1>1, <1>2 DEF OwnTypeOK
<1>8. /\ LocalTypeOK' /\ Kept(t) /\ Thread(t)'
      /\ Inside(t)' <=> wk[t].ret = "in"
  BY <1>1, <1>2, <1>3, <1>4, <1>5, WalkGood DEF OwnTypeOK
<1>9. Inside(t) <=> wk[t].ret = "in"
  BY <1>1, <1>3 DEF Control, Inside
<1>10. Quiet(t)
  BY <1>2, <1>8, <1>9 DEF Quiet
<1> QED
  BY <1>2, <1>6, <1>7, <1>8, <1>10 DEF Good, Counts

\* The walk that drops references: one node, ...
LEMMA TraverseGood ==
  ASSUME Sound, NEW t \in Tasks, Traverse(t)
  PROVE  Good(t)
<1> DEFINE w == wk[t]
           g == Head(w.segs)
           r == link[g.cur]
           rest == IF g.cur = g.end THEN Done(g.n + 1)
                   ELSE Walk(next[g.cur], g.end, g.n + 1)
           l == IF LastReference(r) THEN list[t] \union {r} ELSE list[t]
           left == IF LastReference(r) /\ w.left > 0 THEN w.left - 1 ELSE w.left
           flush == w.left = 1 /\ left = 0
           walk == [w EXCEPT !.segs = rest \o Tail(@), !.left = left]
<1>1. /\ SharedTypeOK /\ OwnTypeOK /\ LocalTypeOK /\ Control(t) /\ Homely(t)
      /\ wk[t] \in Walks /\ list[t] \in SUBSET Objs /\ FlushLimit \in Nat
  BY SoundParts, Fields
<1>2. /\ UNCHANGED <<clientVars, build, head, access, counter, global, next,
                     link, birth, allocs, batch, minEpoch, vec, handle, held,
                     rd, rt>>
      /\ Slots' = Slots /\ pc[t] = "trav"
  BY SameBuild DEF Traverse, epochs, own
<1>3. /\ w.segs # <<>> /\ g.cur # NULL /\ (w.left > 0 => w.ret = "in")
      /\ w.segs \in Seq(Segment) /\ w.left \in 0 .. FlushLimit
  BY <1>1, <1>2 DEF Control, Walks
<1>4. g \in Segment /\ Tail(w.segs) \in Seq(Segment)
  BY <1>3
<1>5. g.cur \in Objs /\ g.end \in Ptrs /\ g.n + 1 \in Nat
  BY <1>3, <1>4 DEF Segment, Ptrs
<1>6. r \in Objs /\ next[g.cur] \in Ptrs /\ refs[r] \in 0 .. CounterMod - 1
  BY <1>1, <1>5 DEF SharedTypeOK
<1>7. refs' \in [Objs -> 0 .. CounterMod - 1]
  <2>1. refs' = [refs EXCEPT ![r] = (@ - 1) % CounterMod]
    BY DEF Traverse
  <2>2. (refs[r] - 1) % CounterMod \in 0 .. CounterMod - 1
    <3>1. refs[r] - 1 \in Int
      BY <1>6
    <3> QED
      BY <3>1, ModRange
  <2> HIDE DEF r
  <2> QED
    BY <1>1, <2>1, <2>2 DEF SharedTypeOK
<1>8. rest \in Seq(Segment)
  <2>1. Done(g.n + 1) \in Seq(Segment)
    BY <1>5, DoneType
  <2>2. Walk(next[g.cur], g.end, g.n + 1) \in Seq(Segment)
    BY <1>5, <1>6, WalkType
  <2> QED
    BY <2>1, <2>2
<1>9. left \in 0 .. FlushLimit /\ (left > 0 => w.left > 0)
  BY <1>1, <1>3
<1>10. walk \in Walks /\ walk.ret = w.ret /\ walk.left = left
  <2>1. rest \o Tail(w.segs) \in Seq(Segment)
    BY <1>4, <1>8, JoinType
  <2> HIDE DEF rest, left
  <2> QED
    BY <1>1, <1>9, <2>1 DEF Walks
<1>11. l \in SUBSET Objs
  BY <1>1, <1>6
<1>12. SharedTypeOK'
  BY <1>1, <1>2, <1>7 DEF SharedTypeOK, ClientTypeOK, clientVars
<1>13. OwnTypeOK'
  BY <1>1, <1>2 DEF OwnTypeOK
<1>14. Inside(t) <=> w.ret = "in"
  BY <1>2 DEF Inside
<1>15. ASSUME LocalTypeOK', Kept(t), Thread(t)', Inside(t)' <=> Inside(t)
       PROVE  Good(t)
  BY <1>2, <1>12, <1>13, <1>15 DEF Quiet, Good, Counts
<1>16. CASE Proceed(t, walk, l)
  <2>1. /\ handle' \in [Tasks -> Ptrs]
        /\ \A u \in Tasks : u # t => handle'[u] = handle[u]
    BY <1>1, <1>2 DEF OwnTypeOK
  <2> HIDE DEF walk, l, left
  <2>2. /\ LocalTypeOK' /\ Kept(t) /\ Thread(t)'
        /\ Inside(t)' <=> walk.ret = "in"
    BY <1>1, <1>2, <1>3, <1>9, <1>10, <1>11, <1>16, <2>1, WalkGood
  <2> QED
    BY <1>10, <1>14, <1>15, <2>2
<1>17. CASE /\ flush
            /\ wk' = [wk EXCEPT ![t] = [walk EXCEPT !.ret = "enter"]]
            /\ list' = [list EXCEPT ![t] = l]
            /\ Goto(t, "leave")
            /\ UNCHANGED at
  <2> DEFINE x == [walk EXCEPT !.ret = "enter"]
  <2>1. left = 0 /\ w.left > 0
    BY <1>17
  <2> HIDE DEF walk, l, left
  <2>2. x \in Walks /\ x.ret = "enter" /\ x.left = 0
    BY <1>10, <2>1 DEF Walks
  <2> HIDE DEF x
  <2>3. wk' = [wk EXCEPT ![t] = x] /\ pc' = [pc EXCEPT ![t] = "leave"]
    BY <1>17 DEF x, Goto
  <2>4. /\ wk' \in [Tasks -> Walks] /\ wk'[t] = x
        /\ pc' \in [Tasks -> PC] /\ pc'[t] = "leave"
        /\ list' \in [Tasks -> SUBSET Objs]
        /\ \A u \in Tasks : u # t => wk'[u] = wk[u] /\ pc'[u] = pc[u]
    BY <1>1, <1>11, <1>17, <2>2, <2>3 DEF LocalTypeOK, PC
  <2>5. LocalTypeOK'
    BY <1>1, <1>2, <1>17, <2>4 DEF LocalTypeOK
  <2>6. Kept(t)
    BY <1>2, <1>17, <2>4 DEF Kept
  <2>7. Control(t)' /\ Enough(t)'
    BY <2>2, <2>4 DEF Control, Enough, Retires
  <2>8. Homely(t)'
    BY <1>1, <1>2, <1>17, <2>4, SameBuild DEF Homely, Retires
  <2>9. Inside(t) /\ Inside(t)'
    <3>1. Inside(t)
      BY <1>3, <1>14, <2>1
    <3>2. Inside(t)'
      BY <2>4 DEF Inside
    <3> QED
      BY <3>1, <3>2
  <2> QED
    BY <1>15, <2>5, <2>6, <2>7, <2>8, <2>9 DEF Thread
<1> QED
  BY <1>16, <1>17 DEF Traverse

\* ... the acknowledgement, and free.
LEMMA AckFreeGood ==
  ASSUME Sound, NEW t \in Tasks, Ack(t) \/ FreeList(t)
  PROVE  Good(t)
<1>1. /\ SharedTypeOK /\ OwnTypeOK /\ LocalTypeOK /\ Control(t)
      /\ wk[t] \in Walks /\ list[t] \in SUBSET Objs /\ vec[t] \in Slots
      /\ wk[t].segs \in Seq(Segment)
  BY SoundParts, Fields
<1>2. /\ UNCHANGED <<cell, mine, victim, build, head, access, global, next,
                     link, refs, birth, allocs, batch, minEpoch, vec, handle,
                     held, rd, rt>>
      /\ Slots' = Slots
  BY SameBuild DEF Ack, FreeList, Free, mem, epochs, clientVars, nodes, own
<1>3. /\ status' \in [Objs -> Status] /\ counter' \in [Slots -> Int]
  <2>1. CASE Ack(t)
    <3>1. wk[t].segs # <<>>
      BY <1>1, <2>1 DEF Ack, Control
    <3>2. Head(wk[t].segs) \in Segment
      BY <1>1, <3>1
    <3>3. Head(wk[t].segs).n \in Int
      BY <3>2 DEF Segment
    <3>4. /\ counter' = [counter EXCEPT ![vec[t]] = @ - Head(wk[t].segs).n]
          /\ status' = status
      BY <2>1 DEF Ack, clientVars
    <3> QED
      BY <1>1, <3>3, <3>4 DEF SharedTypeOK, ClientTypeOK
  <2>2. CASE FreeList(t)
    BY <1>1, <2>2 DEF FreeList, Free, mem, epochs, SharedTypeOK, ClientTypeOK, Status
  <2> QED
    BY <2>1, <2>2
<1>4. SharedTypeOK'
  BY <1>1, <1>2, <1>3 DEF SharedTypeOK, ClientTypeOK
<1>5. OwnTypeOK'
  BY <1>1, <1>2 DEF OwnTypeOK
<1>6. PICK w \in Walks, l \in SUBSET Objs :
         Proceed(t, w, l) /\ w.ret = wk[t].ret /\ w.left = wk[t].left
  <2>1. CASE Ack(t)
    <3>1. wk[t].segs # <<>>
      BY <1>1, <2>1 DEF Ack, Control
    <3>2. Tail(wk[t].segs) \in Seq(Segment)
      BY <1>1, <3>1
    <3> DEFINE w == [wk[t] EXCEPT !.segs = Tail(@)]
    <3>3. w \in Walks /\ w.ret = wk[t].ret /\ w.left = wk[t].left
      BY <1>1, <3>2 DEF Walks
    <3>4. Proceed(t, w, list[t])
      BY <2>1 DEF Ack
    <3> QED
      BY <1>1, <3>3, <3>4
  <2>2. CASE FreeList(t)
    BY <1>1, <2>2 DEF FreeList
  <2> QED
    BY <2>1, <2>2
<1>7. w.left > 0 => w.ret = "in"
  BY <1>1, <1>6 DEF Control
<1>8. /\ LocalTypeOK' /\ Kept(t) /\ Thread(t)'
      /\ Inside(t)' <=> w.ret = "in"
  BY <1>1, <1>2, <1>6, <1>7, WalkGood DEF OwnTypeOK
<1>9. Inside(t) <=> wk[t].ret = "in"
  BY DEF Ack, FreeList, Inside
<1>10. Quiet(t)
  BY <1>2, <1>6, <1>8, <1>9 DEF Quiet
<1> QED
  BY <1>2, <1>4, <1>5, <1>8, <1>10 DEF Good, Counts

\* The walk that trim starts.
LEMMA TrimWalk ==
  ASSUME NEW q, NEW k
  PROVE  [NoWalk EXCEPT !.segs = q, !.left = k, !.ret = "in"] =
         [curr |-> NULL, next |-> NULL, segs |-> q, left |-> k, ret |-> "in"]
<1> DEFINE x == [NoWalk EXCEPT !.segs = q]
           y == [x EXCEPT !.left = k]
<1>1. x = [curr |-> NULL, next |-> NULL, segs |-> q, left |-> 0, ret |-> "out"]
  BY DEF NoWalk
<1> HIDE DEF x
<1>2. y = [curr |-> NULL, next |-> NULL, segs |-> q, left |-> k, ret |-> "out"]
  BY <1>1
<1> HIDE DEF y
<1>3. [y EXCEPT !.ret = "in"] =
         [curr |-> NULL, next |-> NULL, segs |-> q, left |-> k, ret |-> "in"]
  BY <1>2
<1>4. [NoWalk EXCEPT !.segs = q, !.left = k, !.ret = "in"] =
         [y EXCEPT !.ret = "in"]
  BY DEF x, y
<1> QED
  BY <1>3, <1>4

\* trim takes the present head for the handle.
LEMMA TrimGood ==
  ASSUME Sound, NEW t \in Tasks, Trim(t)
  PROVE  Good(t)
<1> DEFINE new == head[vec[t]].ptr
           old == handle[t]
           segs == IF new = old THEN <<>> ELSE Walk(next[new], old, 0)
           w == [NoWalk EXCEPT !.segs = segs, !.left = FlushLimit, !.ret = "in"]
<1>1. /\ SharedTypeOK /\ OwnTypeOK /\ LocalTypeOK
      /\ vec[t] \in Slots /\ old \in Ptrs /\ NoWalk \in Walks
      /\ FlushLimit \in Nat
  BY SoundParts, Fields, Blank
<1>2. /\ UNCHANGED <<clientVars, build, head, access, counter, global, next,
                     link, refs, birth, allocs, batch, minEpoch, vec, rd, rt>>
      /\ Slots' = Slots /\ pc[t] = "in"
      /\ held' = [held EXCEPT ![t] = {}]
      /\ handle' = [handle EXCEPT ![t] = new]
      /\ Proceed(t, w, {})
  <2>1. UNCHANGED <<clientVars, mem, allocs, batch, minEpoch, vec, rd, rt>>
    BY DEF Trim
  <2>2. build' = build
    BY <2>1 DEF mem
  <2> QED
    BY <2>1, <2>2, SameBuild DEF epochs, nodes, mem, Trim
<1>3. new \in Ptrs /\ Inside(t)
  BY <1>1, <1>2, HeadType DEF Inside
<1>4. segs \in Seq(Segment)
  <2>1. CASE new # old
    <3>1. new \in Objs
      BY <1>1, <1>3, <2>1 DEF Sound, Anchored, Ptrs
    <3>2. next[new] \in Ptrs
      BY <1>1, <3>1 DEF SharedTypeOK
    <3> QED
      BY <1>1, <2>1, <3>2, WalkType
  <2> QED
    BY <2>1
<1>5. w \in Walks /\ w.ret = "in"
  <2> HIDE DEF segs
  <2>1. w = [curr |-> NULL, next |-> NULL, segs |-> segs, left |-> FlushLimit,
             ret |-> "in"]
    BY TrimWalk
  <2>2. FlushLimit \in 0 .. FlushLimit /\ NULL \in Ptrs
    BY <1>1 DEF Ptrs
  <2> QED
    BY <1>4, <2>1, <2>2 DEF Walks
<1>6. /\ handle' \in [Tasks -> Ptrs] /\ handle'[t] = new
      /\ held' \in [Tasks -> SUBSET Objs]
      /\ \A u \in Tasks : u # t => handle'[u] = handle[u]
  BY <1>1, <1>2, <1>3 DEF OwnTypeOK
<1>7. SharedTypeOK'
  BY <1>1, <1>2 DEF SharedTypeOK, ClientTypeOK, clientVars
<1>8. OwnTypeOK'
  BY <1>1, <1>2, <1>6 DEF OwnTypeOK
<1> HIDE DEF w
<1>9. /\ LocalTypeOK' /\ Kept(t) /\ Thread(t)'
      /\ Inside(t)' <=> w.ret = "in"
  BY <1>2, <1>5, <1>6, WalkGood
<1>10. Quiet(t)
  BY <1>2, <1>3, <1>5, <1>6, <1>9 DEF Quiet
<1> QED
  BY <1>2, <1>7, <1>8, <1>9, <1>10 DEF Good, Counts

\* deref raises the epoch of the thread's slot.
LEMMA DerefAccessGood ==
  ASSUME Sound, NEW t \in Tasks, DerefAccess1(t) \/ DerefAccess2(t)
  PROVE  Good(t)
<1>1. /\ SharedTypeOK /\ OwnTypeOK /\ LocalTypeOK /\ Control(t) /\ Homely(t)
      /\ vec[t] \in Slots /\ rd[t] \in Derefs
  BY SoundParts, Fields
<1>2. /\ UNCHANGED <<clientVars, build, head, counter, global, next, link,
                     refs, birth, allocs, batch, minEpoch, vec, handle, held,
                     at, wk, list, rt>>
      /\ Slots' = Slots /\ pc[t] = "access"
  BY SameBuild DEF DerefAccess1, DerefAccess2, nodes, own
<1>3. /\ rd[t].src \in Cells /\ rd[t].global \in 0 .. EpochMod - 1
      /\ access[vec[t]] \in 0 .. EpochMod - 1
  BY <1>1, <1>2 DEF Control, Derefs, SharedTypeOK
<1>4. PICK a \in 0 .. EpochMod - 1, e \in 0 .. EpochMod - 1 :
         /\ access' = [access EXCEPT ![vec[t]] = a]
         /\ rd' = [rd EXCEPT ![t].access = e]
         /\ pc' = [pc EXCEPT ![t] = "value"] \/ pc' = pc
  <2>1. CASE DerefAccess1(t)
    BY <1>3, <2>1 DEF DerefAccess1, Goto, AfterAccess
  <2>2. CASE DerefAccess2(t)
    BY <1>3, <2>2 DEF Swap, DerefAccess2, Goto, AfterAccess
  <2> QED
    BY <2>1, <2>2
<1>5. access' \in [Slots -> 0 .. EpochMod - 1]
  BY <1>1, <1>4 DEF SharedTypeOK
<1>6. SharedTypeOK'
  BY <1>1, <1>2, <1>5 DEF SharedTypeOK, ClientTypeOK, clientVars
<1>7. OwnTypeOK'
  BY <1>1, <1>2 DEF OwnTypeOK
<1> DEFINE r == [rd[t] EXCEPT !.access = e]
<1>8. r \in Derefs /\ r.src \in Cells
  BY <1>1, <1>3 DEF Derefs
<1>9. rd' = [rd EXCEPT ![t] = r]
  BY <1>4
<1> HIDE DEF r
<1>10. /\ rd' \in [Tasks -> Derefs] /\ rd'[t] = r
       /\ pc' \in [Tasks -> PC] /\ pc'[t] \in {"value", "access"}
       /\ \A u \in Tasks : u # t => rd'[u] = rd[u] /\ pc'[u] = pc[u]
  BY <1>1, <1>2, <1>4, <1>8, <1>9 DEF LocalTypeOK, PC
<1>11. LocalTypeOK'
  BY <1>1, <1>2, <1>10 DEF LocalTypeOK
<1>12. Kept(t)
  BY <1>2, <1>10 DEF Kept
<1>13. Control(t)' /\ Enough(t)'
  BY <1>1, <1>2, <1>8, <1>10 DEF Control, Enough, Retires
<1>14. Homely(t)'
  BY <1>1, <1>2, <1>10, SameBuild DEF Homely, Retires
<1>15. Inside(t) /\ Inside(t)'
  BY <1>2, <1>10 DEF Inside
<1>16. Quiet(t)
  BY <1>2, <1>15 DEF Quiet
<1> QED
  BY <1>2, <1>6, <1>7, <1>11, <1>12, <1>13, <1>14, <1>16
     DEF Good, Counts, Thread

\* A step that leaves the thread's locals and the heads alone.
LEMMA OutsideGood ==
  ASSUME Sound, NEW t \in Tasks, SharedTypeOK', OwnTypeOK',
         UNCHANGED <<build, head, vec, handle, pc, at, rd, wk, list, rt>>
  PROVE  Good(t)
<1>1. LocalTypeOK /\ Thread(t)
  BY SoundParts
<1>2. LocalTypeOK' /\ Kept(t)
  BY <1>1, SameBuild DEF LocalTypeOK, Kept
<1>3. Thread(t)' /\ (Inside(t)' <=> Inside(t))
  BY <1>1, SameBuild DEF Thread, Control, Homely, Enough, Inside
<1>4. Quiet(t)
  BY <1>3 DEF Quiet
<1> QED
  BY <1>2, <1>3, <1>4 DEF Good, Counts

\* The rideable's own steps and alloc.
LEMMA RideableGood ==
  ASSUME Sound, NEW t \in Tasks, Rideable(t) \/ Alloc(t)
  PROVE  Good(t)
<1>1. /\ SharedTypeOK /\ OwnTypeOK /\ ClientTypeOK /\ mine[t] \in Ptrs
      /\ EpochFreq \in Nat \ {0} /\ EpochMod \in Nat \ {0}
  BY SoundParts, Fields DEF SharedTypeOK
<1>2. CASE Rideable(t)
  <2>1. /\ UNCHANGED <<build, head, access, counter, global, next, link, refs,
                       birth, allocs, batch, minEpoch, vec, handle, held, pc,
                       at, rd, wk, list, rt>>
        /\ Discard(t) \/ \E c \in Cells : Link(t, c)
    BY <1>2 DEF Rideable, mem, own, locals, epochs, nodes
  <2>2. ClientTypeOK'
    BY <1>1, <2>1 DEF Discard, Link, ClientTypeOK, Ptrs, Status
  <2>3. SharedTypeOK'
    BY <1>1, <2>1, <2>2, SameBuild DEF SharedTypeOK
  <2>4. OwnTypeOK'
    BY <1>1, <2>1, SameBuild DEF OwnTypeOK
  <2> QED
    BY <2>1, <2>3, <2>4, OutsideGood
<1>3. CASE Alloc(t)
  <2>1. PICK o \in Objs :
           /\ Malloc(t, o)
           /\ \/ InitNode(t, o)
              \/ UNCHANGED <<allocs, global, birth>>
    BY <1>3 DEF Alloc
  <2>2. UNCHANGED <<build, head, access, counter, next, link, refs, batch,
                    minEpoch, vec, handle, held, pc, at, rd, wk, list, rt>>
    BY <1>3 DEF Alloc, locals
  <2>3. ClientTypeOK'
    BY <1>1, <2>1 DEF Malloc, ClientTypeOK, Ptrs, Status
  <2>4. /\ allocs' \in [Tasks -> 0 .. EpochFreq - 1]
        /\ global' \in 0 .. EpochMod - 1
        /\ birth' \in [Objs -> 0 .. EpochMod - 1]
    <3>1. CASE UNCHANGED <<allocs, global, birth>>
      BY <1>1, <3>1 DEF SharedTypeOK, OwnTypeOK
    <3>2. CASE InitNode(t, o)
      <4>1. (allocs[t] + 1) % EpochFreq \in 0 .. EpochFreq - 1
        <5>1. allocs[t] \in 0 .. EpochFreq - 1
          BY <1>1 DEF OwnTypeOK
        <5>2. allocs[t] + 1 \in Int
          BY <5>1
        <5> QED
          BY <1>1, <5>2, ModRange
      <4>2. (global + 1) % EpochMod \in 0 .. EpochMod - 1
        BY <1>1, ModRange DEF SharedTypeOK
      <4>3. /\ allocs' = [allocs EXCEPT ![t] = (@ + 1) % EpochFreq]
            /\ global' = global \/ global' = (global + 1) % EpochMod
            /\ birth' = [birth EXCEPT ![o] = global']
        BY <3>2 DEF InitNode
      <4>4. global' \in 0 .. EpochMod - 1
        BY <1>1, <4>2, <4>3 DEF SharedTypeOK
      <4> QED
        BY <1>1, <4>1, <4>3, <4>4 DEF SharedTypeOK, OwnTypeOK
    <3> QED
      BY <2>1, <3>1, <3>2
  <2>5. SharedTypeOK'
    BY <1>1, <2>2, <2>3, <2>4, SameBuild DEF SharedTypeOK
  <2>6. OwnTypeOK'
    BY <1>1, <2>2, <2>4, SameBuild DEF OwnTypeOK
  <2> QED
    BY <2>2, <2>5, <2>6, OutsideGood
<1> QED
  BY <1>2, <1>3

\* retire collects a node, and starts with the batch when it is full.
LEMMA RetireGood ==
  ASSUME Sound, NEW t \in Tasks, NEW c \in Cells, Retire(t, c)
  PROVE  Good(t)
<1> DEFINE o == cell[c]
           chain == <<o>> \o batch[t]
           r == chain[Len(chain)]
           full == Len(chain) >= SMRBatch
<1>1. /\ SharedTypeOK /\ OwnTypeOK /\ LocalTypeOK /\ Homely(t) /\ Control(t)
      /\ batch[t] \in Seq(Objs) /\ build \in Builds /\ ClientTypeOK
      /\ NoWalk \in Walks /\ NoRetire \in Batches
      /\ CounterMod \in Nat \ {0} /\ EpochMod \in Nat \ {0}
  BY SoundParts, Fields, Blank DEF SharedTypeOK
<1>2. /\ NumSlots \in Nat \ {0} /\ SMRBatch \in Nat
  BY <1>1, SlotFacts
<1>3. /\ UNCHANGED <<mine, victim, build, head, access, counter, global, next,
                     birth, allocs, vec, handle, held, rd, list>>
      /\ Slots' = Slots /\ pc[t] = "in" /\ o \in held[t]
      /\ cell' = [cell EXCEPT ![c] = NULL]
      /\ status' = [status EXCEPT ![o] = "retired"]
      /\ minEpoch' = [minEpoch EXCEPT ![t] =
                         MinEpoch(batch[t] = <<>>, @, birth[o])]
      /\ refs' = [refs EXCEPT ![o] = 0]
      /\ link' = IF full THEN [link EXCEPT ![o] = r, ![r] = o]
                 ELSE [link EXCEPT ![o] = r]
      /\ batch' = [batch EXCEPT ![t] = IF full THEN <<>> ELSE chain]
  BY SameBuild DEF Retire, epochs
<1>4. o \in Objs
  BY <1>1, <1>3 DEF OwnTypeOK
<1>5. chain \in Seq(Objs) /\ Len(chain) \in Nat /\ Len(chain) >= 1
  BY <1>1, <1>4
<1>6. r \in Objs
  BY <1>5
<1> HIDE DEF r, chain, o
<1>7. ClientTypeOK'
  BY <1>1, <1>3 DEF ClientTypeOK, Ptrs, Status
<1>8. link' \in [Objs -> Objs]
  BY <1>1, <1>3, <1>4, <1>6 DEF SharedTypeOK
<1>9. refs' \in [Objs -> 0 .. CounterMod - 1]
  <2>1. refs \in [Objs -> 0 .. CounterMod - 1] /\ 0 \in 0 .. CounterMod - 1
    BY <1>1 DEF SharedTypeOK
  <2>2. refs' = [refs EXCEPT ![o] = 0]
    BY <1>3
  <2> QED
    BY <2>1, <2>2
<1>10. SharedTypeOK'
  BY <1>1, <1>3, <1>7, <1>8, <1>9 DEF SharedTypeOK
<1>11. minEpoch' \in [Tasks -> 0 .. EpochMod - 1]
  <2>1. minEpoch[t] \in 0 .. EpochMod - 1 /\ birth[o] \in 0 .. EpochMod - 1
    BY <1>1, <1>4 DEF SharedTypeOK, OwnTypeOK
  <2>2. MinEpoch(batch[t] = <<>>, minEpoch[t], birth[o]) \in 0 .. EpochMod - 1
    BY <2>1 DEF MinEpoch
  <2> QED
    BY <1>1, <1>3, <2>2 DEF OwnTypeOK
<1>12. batch' \in [Tasks -> Seq(Objs)]
  BY <1>1, <1>3, <1>5 DEF OwnTypeOK
<1>13. OwnTypeOK'
  BY <1>1, <1>3, <1>11, <1>12 DEF OwnTypeOK
<1>14. CASE UNCHANGED <<rt, wk, at, pc>>
  BY <1>3, <1>10, <1>13, <1>14, OutsideGood
<1>15. CASE /\ full
            /\ rt' = [rt EXCEPT ![t] = [NoRetire EXCEPT !.todo = chain,
                                                       !.first = o]]
            /\ wk' = [wk EXCEPT ![t] = [NoWalk EXCEPT !.ret = "in"]]
            /\ at' = [at EXCEPT ![t] = 0]
            /\ Goto(t, IF build.robust THEN "rt_access" ELSE "rt_load")
  <2> DEFINE x == [NoRetire EXCEPT !.todo = chain, !.first = o]
             y == [NoWalk EXCEPT !.ret = "in"]
  <2>1. x \in Batches /\ x.first = o /\ x.todo = chain
    <3>1. /\ x.first = o /\ x.todo = chain /\ x.prev = NULL /\ x.node = NULL
          /\ x = [NoRetire EXCEPT !.todo = chain, !.first = o]
      BY DEF NoRetire
    <3>2. o \in Ptrs
      BY <1>4 DEF Ptrs
    <3> QED
      BY <1>1, <1>5, <3>1, <3>2 DEF Batches
  <2>2. y \in Walks /\ y.ret = "in" /\ y.left = 0
    BY <1>1 DEF NoWalk, Walks
  <2>3. 0 \in Slots
    BY <1>2 DEF Slots
  <2> HIDE DEF x, y
  <2>4. /\ rt' = [rt EXCEPT ![t] = x] /\ wk' = [wk EXCEPT ![t] = y]
        /\ pc' = [pc EXCEPT ![t] = IF build.robust THEN "rt_access"
                                   ELSE "rt_load"]
    BY <1>15 DEF x, y, Goto
  <2>5. /\ rt' \in [Tasks -> Batches] /\ rt'[t] = x
        /\ wk' \in [Tasks -> Walks] /\ wk'[t] = y
        /\ at' \in [Tasks -> Slots] /\ at'[t] = 0
        /\ pc' \in [Tasks -> PC] /\ pc'[t] \in {"rt_access", "rt_load"}
        /\ \A u \in Tasks : u # t =>
              rt'[u] = rt[u] /\ wk'[u] = wk[u] /\ at'[u] = at[u]
              /\ pc'[u] = pc[u]
    BY <1>1, <1>15, <2>1, <2>2, <2>3, <2>4 DEF LocalTypeOK, PC
  <2>6. LocalTypeOK'
    BY <1>1, <1>3, <2>5 DEF LocalTypeOK
  <2>7. Kept(t)
    BY <1>3, <2>5 DEF Kept
  <2>8. Control(t)'
    BY <1>4, <2>1, <2>2, <2>5 DEF Control, Retires
  <2>9. Homely(t)'
    BY <1>1, <1>3, <2>5, SameBuild DEF Homely, Retires
  <2>10. Enough(t)'
    BY <1>2, <1>3, <1>5, <1>15, <2>1, <2>5, SameBuild DEF Enough, Retires
  <2>11. Inside(t) /\ Inside(t)'
    BY <1>3, <2>5 DEF Inside
  <2>12. Quiet(t)
    BY <1>3, <2>11 DEF Quiet
  <2> QED
    BY <1>3, <1>10, <1>13, <2>6, <2>7, <2>8, <2>9, <2>10, <2>12
       DEF Good, Counts, Thread
<1> QED
  BY <1>14, <1>15 DEF Retire, o, chain

\* The slot that retire works on.
LEMMA AtFacts ==
  ASSUME Sound, NEW t \in Tasks
  PROVE  /\ at[t] \in Nat /\ at[t] < NumSlots /\ NumSlots \in Nat \ {0}
         /\ SMRBatch \in Nat /\ TaskNum \in Nat /\ rt[t].todo \in Seq(Objs)
         /\ Len(rt[t].todo) \in Nat
<1>1. build \in Builds /\ at[t] \in Slots /\ rt[t].todo \in Seq(Objs)
  BY SoundParts, Fields
<1>2. NumSlots \in Nat \ {0} /\ SMRBatch \in Nat
  BY <1>1, SlotFacts
<1> QED
  BY <1>1, <1>2 DEF Slots

\* There is a node for every slot where retire stops, and one more unless
\* threads move in Hyaline-S.
LEMMA EnoughNodes ==
  ASSUME Sound, NEW t \in Tasks, pc[t] \in {"rt_cas", "rt_adj", "rt_count"}
  PROVE  /\ rt[t].todo # <<>>
         /\ ~(Acks /\ TaskNum < NumSlots) => Len(rt[t].todo) > 1
<1>1. /\ at[t] \in Nat /\ at[t] < NumSlots /\ NumSlots \in Nat \ {0}
      /\ SMRBatch \in Nat /\ TaskNum \in Nat /\ rt[t].todo \in Seq(Objs)
      /\ Len(rt[t].todo) \in Nat
  BY AtFacts
<1>2. /\ Len(rt[t].todo) + at[t] >= SMRBatch
      /\ ~Acks => at[t] < TaskNum
  BY SoundParts DEF Enough, Retires
<1>3. build \in Builds /\ build.words \in {1, 2} /\
      (build.words = 1 => TaskNum <= NumSlots)
  BY SoundParts, SlotFacts
<1>4. Len(rt[t].todo) >= 1
  <2>1. CASE build.words = 1
    BY <1>1, <1>2, <2>1 DEF SMRBatch, Acks
  <2>2. CASE build.words = 2
    BY <1>1, <1>2, <2>2 DEF SMRBatch
  <2> QED
    BY <1>3, <2>1, <2>2
<1>5. ASSUME ~(Acks /\ TaskNum < NumSlots)
      PROVE  Len(rt[t].todo) > 1
  <2>1. CASE build.words = 1
    BY <1>1, <1>2, <2>1 DEF SMRBatch, Acks
  <2>2. CASE build.words = 2 /\ TaskNum < NumSlots
    BY <1>1, <1>2, <1>5, <2>2 DEF SMRBatch
  <2>3. CASE build.words = 2 /\ ~(TaskNum < NumSlots)
    BY <1>1, <1>2, <2>3 DEF SMRBatch
  <2> QED
    BY <1>3, <2>1, <2>2, <2>3
<1> QED
  BY <1>1, <1>4, <1>5

\* The push on a slot that has threads.
LEMMA PushFacts ==
  ASSUME Sound, NEW t \in Tasks, Push(t), Slots' = Slots
  PROVE  /\ head' \in [Slots -> [ref : 0 .. TaskNum, ptr : Ptrs]]
         /\ next' \in [Objs -> Ptrs]
         /\ \A s \in Slots : /\ head'[s].ref = head[s].ref
                             /\ head[s].ptr # NULL => head'[s].ptr # NULL
         /\ rt[t].todo # <<>> /\ Tail(rt[t].todo) \in Seq(Objs)
         /\ Len(Tail(rt[t].todo)) = Len(rt[t].todo) - 1
<1>1. /\ SharedTypeOK /\ rt[t] \in Batches /\ rt[t].todo \in Seq(Objs)
      /\ at[t] \in Slots
  BY SoundParts, Fields
<1>2. pc[t] = "rt_cas"
  BY DEF Push
<1>3. rt[t].todo # <<>>
  BY <1>2, EnoughNodes
<1>4. Head(rt[t].todo) \in Objs /\ Tail(rt[t].todo) \in Seq(Objs)
      /\ Len(Tail(rt[t].todo)) = Len(rt[t].todo) - 1
  BY <1>1, <1>3
<1> DEFINE n == Head(rt[t].todo)
<1>5. /\ next' = [next EXCEPT ![n] = rt[t].prev]
      /\ head' = [head EXCEPT ![at[t]].ptr = n]
  BY DEF Push
<1>6. rt[t].prev \in Ptrs /\ n \in Objs /\ n \in Ptrs /\ n # NULL
  BY <1>1, <1>4 DEF Batches, Ptrs
<1> HIDE DEF n
<1>7. next' \in [Objs -> Ptrs]
  BY <1>1, <1>5, <1>6 DEF SharedTypeOK
<1>8. head' \in [Slots -> [ref : 0 .. TaskNum, ptr : Ptrs]]
  BY <1>1, <1>5, <1>6, ZenonT(40) DEF SharedTypeOK
<1>9. ASSUME NEW s \in Slots
      PROVE  /\ head'[s].ref = head[s].ref
             /\ head[s].ptr # NULL => head'[s].ptr # NULL
  <2>1. head[s] \in [ref : 0 .. TaskNum, ptr : Ptrs]
    BY <1>1 DEF SharedTypeOK
  <2>2. head'[s] = IF s = at[t] THEN [head[s] EXCEPT !.ptr = n] ELSE head[s]
    BY <1>1, <1>5 DEF SharedTypeOK
  <2> QED
    BY <1>6, <2>1, <2>2
<1> QED
  BY <1>3, <1>4, <1>7, <1>8, <1>9

\* __retire pushes a node: with heads of one word, ...
LEMMA Push1Good ==
  ASSUME Sound, NEW t \in Tasks, RtPush1(t)
  PROVE  Good(t)
<1>1. /\ SharedTypeOK /\ OwnTypeOK /\ Control(t) /\ Enough(t)
      /\ rt[t] \in Batches /\ CounterMod \in Nat \ {0}
  BY SoundParts, Fields
<1>2. /\ UNCHANGED <<clientVars, build, access, counter, global, link, refs,
                     birth, allocs, batch, minEpoch, vec, handle, held, rd,
                     list>>
      /\ Slots' = Slots /\ Push(t) /\ pc[t] = "rt_cas" /\ build.words = 1
  BY SameBuild DEF RtPush1, Push, epochs, own
<1>3. /\ head' \in [Slots -> [ref : 0 .. TaskNum, ptr : Ptrs]]
      /\ next' \in [Objs -> Ptrs]
      /\ \A s \in Slots : /\ head'[s].ref = head[s].ref
                          /\ head[s].ptr # NULL => head'[s].ptr # NULL
      /\ Tail(rt[t].todo) \in Seq(Objs)
      /\ Len(Tail(rt[t].todo)) = Len(rt[t].todo) - 1
  BY <1>2, PushFacts
<1>4. SharedTypeOK'
  BY <1>1, <1>2, <1>3 DEF SharedTypeOK, ClientTypeOK, clientVars
<1>5. OwnTypeOK'
  BY <1>1, <1>2 DEF OwnTypeOK
<1> DEFINE r == [rt[t] EXCEPT !.todo = Tail(@), !.prev = NULL,
                              !.adjs = (@ + 1) % CounterMod]
<1>6. /\ r \in Batches /\ r.todo = Tail(rt[t].todo)
      /\ r.first = rt[t].first
  <2>1. (rt[t].adjs + 1) % CounterMod \in 0 .. CounterMod - 1
    <3>1. rt[t].adjs + 1 \in Int
      BY <1>1 DEF Batches
    <3> QED
      BY <1>1, <3>1, ModRange
  <2> QED
    BY <1>1, <1>3, <2>1 DEF Batches, Ptrs
<1>7. NextSlot(t, r)
  BY DEF RtPush1
<1> HIDE DEF r
<1>8. rt[t].first # NULL /\ Len(rt[t].todo) + at[t] >= SMRBatch
      /\ pc[t] \in Retires
  BY <1>1, <1>2 DEF Control, Enough, Retires
<1>9. Len(r.todo) + at[t] + 1 >= SMRBatch
  <2>1. /\ at[t] \in Nat /\ SMRBatch \in Nat /\ Len(rt[t].todo) \in Nat
    BY AtFacts
  <2>2. Len(r.todo) = Len(rt[t].todo) - 1
    BY <1>3, <1>6
  <2> QED
    BY <1>8, <2>1, <2>2
<1>10. LocalTypeOK' /\ Kept(t) /\ Thread(t)' /\ Inside(t) /\ Inside(t)'
  BY <1>2, <1>6, <1>7, <1>8, <1>9, NextGood
<1>11. Quiet(t)
  BY <1>2, <1>3, <1>10 DEF Quiet
<1> QED
  BY <1>2, <1>4, <1>5, <1>10, <1>11 DEF Good, Counts

\* ... after a push on a head of two words, with its acknowledgement, ...
LEMMA CountGood ==
  ASSUME Sound, NEW t \in Tasks, RtCount(t)
  PROVE  Good(t)
<1>1. /\ SharedTypeOK /\ OwnTypeOK /\ Control(t) /\ Enough(t)
      /\ rt[t] \in Batches /\ at[t] \in Slots
  BY SoundParts, Fields
<1>2. /\ UNCHANGED <<clientVars, build, head, access, global, next, link, refs,
                     birth, allocs, batch, minEpoch, vec, handle, held, rd,
                     list>>
      /\ Slots' = Slots /\ pc[t] = "rt_count"
      /\ counter' = [counter EXCEPT ![at[t]] = @ + rt[t].refs]
  BY SameBuild DEF RtCount, nodes, own
<1>3. /\ rt[t].todo \in Seq(Objs) /\ rt[t].todo # <<>>
      /\ rt[t].refs \in Int
  BY <1>1, <1>2, EnoughNodes DEF Batches
<1>4. /\ Tail(rt[t].todo) \in Seq(Objs)
      /\ Len(Tail(rt[t].todo)) = Len(rt[t].todo) - 1
  BY <1>3
<1>5. counter' \in [Slots -> Int]
  BY <1>1, <1>2, <1>3, SMTT(30) DEF SharedTypeOK
<1>6. SharedTypeOK'
  BY <1>1, <1>2, <1>5 DEF SharedTypeOK, ClientTypeOK, clientVars
<1>7. OwnTypeOK'
  BY <1>1, <1>2 DEF OwnTypeOK
<1> DEFINE r == [rt[t] EXCEPT !.todo = Tail(@), !.refs = 0]
<1>8. /\ r \in Batches /\ r.todo = Tail(rt[t].todo)
      /\ r.first = rt[t].first
  <2>1. 0 \in 0 .. TaskNum
    OBVIOUS
  <2> QED
    BY <1>1, <1>4, <2>1 DEF Batches
<1>9. NextSlot(t, r)
  BY DEF RtCount
<1> HIDE DEF r
<1>10. rt[t].first # NULL /\ Len(rt[t].todo) + at[t] >= SMRBatch
       /\ pc[t] \in Retires
  BY <1>1, <1>2 DEF Control, Enough, Retires
<1>11. Len(r.todo) + at[t] + 1 >= SMRBatch
  <2>1. /\ at[t] \in Nat /\ SMRBatch \in Nat /\ Len(rt[t].todo) \in Nat
    BY AtFacts
  <2>2. Len(r.todo) = Len(rt[t].todo) - 1
    BY <1>4, <1>8
  <2> QED
    BY <1>10, <2>1, <2>2
<1>12. LocalTypeOK' /\ Kept(t) /\ Thread(t)' /\ Inside(t) /\ Inside(t)'
  BY <1>2, <1>8, <1>9, <1>10, <1>11, NextGood
<1>13. Quiet(t)
  BY <1>2, <1>12 DEF Quiet
<1> QED
  BY <1>2, <1>6, <1>7, <1>12, <1>13 DEF Good, Counts

\* The two steps of retire between a push and its acknowledgement.
LEMMA BuryGood ==
  ASSUME Sound, NEW t \in Tasks, SharedTypeOK', OwnTypeOK',
         UNCHANGED <<build, vec, handle, at, rd, wk>>, build.words = 2,
         pc[t] \in {"rt_cas", "rt_adj"}, list' \in [Tasks -> SUBSET Objs],
         \A s \in Slots : /\ head'[s].ref = head[s].ref
                          /\ head[s].ptr # NULL => head'[s].ptr # NULL,
         NEW r \in Batches, rt' = [rt EXCEPT ![t] = r], r.todo = rt[t].todo,
         r.first = rt[t].first, NEW l \in {"rt_adj", "rt_count"},
         l = "rt_adj" => r.node # NULL, pc' = [pc EXCEPT ![t] = l]
  PROVE  Good(t)
<1>1. LocalTypeOK /\ Control(t) /\ Homely(t) /\ Enough(t)
  BY SoundParts
<1>2. /\ rt' \in [Tasks -> Batches] /\ rt'[t] = r
      /\ pc' \in [Tasks -> PC] /\ pc'[t] = l
      /\ \A u \in Tasks : u # t => rt'[u] = rt[u] /\ pc'[u] = pc[u]
  BY <1>1 DEF LocalTypeOK, PC
<1>3. LocalTypeOK'
  BY <1>1, <1>2, SameBuild DEF LocalTypeOK
<1>4. Kept(t)
  BY <1>2 DEF Kept
<1>5. Control(t)'
  BY <1>1, <1>2 DEF Control, Retires
<1>6. Homely(t)'
  BY <1>1, <1>2, SameBuild DEF Homely, Retires
<1>7. Enough(t)'
  BY <1>1, <1>2, SameBuild DEF Enough, Retires
<1>8. Inside(t) /\ Inside(t)'
  BY <1>2 DEF Inside
<1>9. Quiet(t)
  BY <1>8 DEF Quiet
<1> QED
  BY <1>3, <1>4, <1>5, <1>6, <1>7, <1>9 DEF Good, Counts, Thread

\* ... the push itself, ...
LEMMA Push2Good ==
  ASSUME Sound, NEW t \in Tasks, RtPush2(t)
  PROVE  Good(t)
<1>1. /\ SharedTypeOK /\ OwnTypeOK /\ LocalTypeOK /\ rt[t] \in Batches
      /\ at[t] \in Slots /\ build \in Builds /\ CounterMod \in Nat \ {0}
  BY SoundParts, Fields
<1>2. /\ UNCHANGED <<clientVars, build, access, counter, global, link, refs,
                     birth, allocs, batch, minEpoch, vec, handle, held, at, rd,
                     wk, list>>
      /\ Slots' = Slots /\ Push(t) /\ pc[t] = "rt_cas" /\ build.words = 2
  BY SameBuild DEF RtPush2, Push, epochs, own
<1>3. /\ head' \in [Slots -> [ref : 0 .. TaskNum, ptr : Ptrs]]
      /\ next' \in [Objs -> Ptrs]
      /\ \A s \in Slots : /\ head'[s].ref = head[s].ref
                          /\ head[s].ptr # NULL => head'[s].ptr # NULL
  BY <1>2, PushFacts
<1>4. SharedTypeOK'
  BY <1>1, <1>2, <1>3 DEF SharedTypeOK, ClientTypeOK, clientVars
<1>5. OwnTypeOK'
  BY <1>1, <1>2 DEF OwnTypeOK
<1>6. list' \in [Tasks -> SUBSET Objs]
  BY <1>1, <1>2 DEF LocalTypeOK
<1> DEFINE n == head[at[t]].ref
           r == [rt[t] EXCEPT !.refs = IF Acks THEN n ELSE 0, !.prev = NULL]
           buried == rt[t].prev
           q == [r EXCEPT !.node = buried, !.amt = (Addend + n) % CounterMod]
<1>7. /\ n \in 0 .. TaskNum /\ 0 \in 0 .. TaskNum /\ buried \in Ptrs
      /\ (Addend + n) % CounterMod \in 0 .. CounterMod - 1
  <2>1. n \in 0 .. TaskNum /\ Addend \in 0 .. CounterMod - 1
    BY <1>1, HeadType, SlotFacts
  <2>2. Addend + n \in Int
    BY <2>1
  <2> HIDE DEF n
  <2>3. (Addend + n) % CounterMod \in 0 .. CounterMod - 1
    BY <1>1, <2>2, ModRange
  <2> QED
    BY <1>1, <2>1, <2>3 DEF Batches
<1> HIDE DEF n
<1>8. r \in Batches /\ r.todo = rt[t].todo /\ r.first = rt[t].first
  BY <1>1, <1>7 DEF Batches, Ptrs
<1> HIDE DEF r
<1>9. /\ q \in Batches /\ q.todo = r.todo /\ q.first = r.first
      /\ q.node = buried
  BY <1>7, <1>8 DEF Batches
<1> HIDE DEF q
<1>10. \/ rt' = [rt EXCEPT ![t] = q] /\ pc' = [pc EXCEPT ![t] = "rt_adj"]
          /\ buried # NULL
       \/ rt' = [rt EXCEPT ![t] = r] /\ pc' = [pc EXCEPT ![t] = "rt_count"]
  BY DEF RtPush2, Goto, n, r, q
<1>11. CASE rt' = [rt EXCEPT ![t] = q] /\ pc' = [pc EXCEPT ![t] = "rt_adj"]
            /\ buried # NULL
  BY <1>2, <1>3, <1>4, <1>5, <1>6, <1>8, <1>9, <1>11, BuryGood
<1>12. CASE rt' = [rt EXCEPT ![t] = r] /\ pc' = [pc EXCEPT ![t] = "rt_count"]
  BY <1>2, <1>3, <1>4, <1>5, <1>6, <1>8, <1>12, BuryGood
<1> QED
  BY <1>10, <1>11, <1>12

\* ... and the adjustment for the node it has buried.
LEMMA RtAdjustGood ==
  ASSUME Sound, NEW t \in Tasks, RtAdjust(t)
  PROVE  Good(t)
<1>1. /\ SharedTypeOK /\ OwnTypeOK /\ LocalTypeOK /\ rt[t] \in Batches
      /\ HyalineTypeOK /\ Control(t) /\ CounterMod \in Nat \ {0}
  BY SoundParts, Fields
<1>2. /\ UNCHANGED <<clientVars, build, head, access, counter, global, next,
                     link, birth, allocs, batch, minEpoch, vec, handle, held,
                     at, rd, wk>>
      /\ Slots' = Slots /\ pc[t] = "rt_adj"
      /\ AdjustRefs(rt[t].node, rt[t].amt)
      /\ list' = [list EXCEPT ![t] = Adjusted(t, rt[t].node, rt[t].amt)]
      /\ rt' = [rt EXCEPT ![t].node = NULL, ![t].amt = 0]
      /\ pc' = [pc EXCEPT ![t] = "rt_count"]
  BY SameBuild DEF RtAdjust, epochs, own, Goto
<1>3. /\ rt[t].node \in Objs /\ rt[t].amt \in 0 .. CounterMod - 1
      /\ build.words = 2
  BY <1>1, <1>2 DEF Control, Batches, Ptrs
<1>4. /\ refs' \in [Objs -> 0 .. CounterMod - 1]
      /\ Adjusted(t, rt[t].node, rt[t].amt) \in SUBSET Objs
  BY <1>1, <1>2, <1>3, AdjustType
<1>5. SharedTypeOK'
  BY <1>1, <1>2, <1>4 DEF SharedTypeOK, ClientTypeOK, clientVars
<1>6. OwnTypeOK'
  BY <1>1, <1>2 DEF OwnTypeOK
<1>7. list' \in [Tasks -> SUBSET Objs]
  BY <1>1, <1>2, <1>4 DEF LocalTypeOK
<1> DEFINE r == [rt[t] EXCEPT !.node = NULL, !.amt = 0]
<1>8. r \in Batches /\ r.todo = rt[t].todo /\ r.first = rt[t].first
  <2>1. 0 \in 0 .. CounterMod - 1
    BY <1>1
  <2> QED
    BY <1>1, <2>1 DEF Batches, Ptrs
<1>9. rt' = [rt EXCEPT ![t] = r]
  BY <1>1, <1>2 DEF LocalTypeOK
<1> HIDE DEF r
<1> QED
  BY <1>2, <1>3, <1>5, <1>6, <1>7, <1>8, <1>9, BuryGood

-----------------------------------------------------------------------------
\* Every step is as it should be.
LEMMA StepGood ==
  ASSUME Sound, NEW t \in Tasks, Calls(t) \/ Steps(t)
  PROVE  Good(t)
<1>1. CASE Calls(t)
  BY <1>1, EnterGood, Enter2Good, TakeListGood, LoadHeadGood, TrimGood,
     ReadGood, DerefStepsGood, RideableGood, RetireGood DEF Calls
<1>2. CASE Steps(t)
  BY <1>2, EnterLookGood, EnterGood, DerefStepsGood, DerefAccessGood,
     RtLookGood, Push1Good, Push2Good, RtAdjustGood, CountGood, LastAdjustGood,
     TakeListGood, LoadHeadGood, LeaveCasGood, LeaveClearGood, TraverseGood,
     AckFreeGood DEF Steps
<1> QED
  BY <1>1, <1>2

\* The initial states are sound.
LEMMA InitSound == HyalineInit => Sound
<1> SUFFICES ASSUME HyalineInit PROVE Sound
  OBVIOUS
<1>1. /\ build \in Builds /\ CounterMod \in Nat \ {0}
      /\ EpochMod \in Nat \ {0} /\ EpochFreq \in Nat \ {0}
      /\ NoDeref \in Derefs /\ NoWalk \in Walks /\ NoRetire \in Batches
      /\ StartEpoch \in 0 .. EpochMod - 1
  BY Blank DEF HyalineInit
<1>2. \A t \in Tasks : (t - 1) % NumSlots \in Slots
  BY <1>1, SlotFacts
<1>3. ClientTypeOK
  BY DEF HyalineInit, ClientInit, ClientTypeOK, Ptrs, Status
<1>4. head \in [Slots -> [ref : 0 .. TaskNum, ptr : Ptrs]]
  BY DEF Ptrs, HyalineInit
<1>5. SharedTypeOK
  BY <1>1, <1>3, <1>4 DEF SharedTypeOK, HyalineInit, Ptrs
<1>6. OwnTypeOK
  <2>1. 0 \in 0 .. EpochFreq - 1
    BY <1>1
  <2>2. <<>> \in Seq(Objs)
    OBVIOUS
  <2> QED
    BY <1>1, <1>2, <2>1, <2>2 DEF OwnTypeOK, HyalineInit, Ptrs
<1>7. LocalTypeOK
  BY <1>1, <1>2 DEF LocalTypeOK, HyalineInit, PC
<1>8. HyalineTypeOK
  BY <1>5, <1>6, <1>7 DEF HyalineTypeOK, SharedTypeOK, OwnTypeOK, LocalTypeOK,
     Derefs, Walks, Batches
<1>9. \A t \in Tasks : pc[t] = "out" /\ ~Inside(t) /\ wk[t] = NoWalk
  BY DEF HyalineInit, Inside
<1>10. HeadsCount
  <2>1. ASSUME NEW s \in Slots
        PROVE  head[s].ref = Cardinality({t \in Tasks : vec[t] = s /\ Inside(t)})
    <3>1. {t \in Tasks : vec[t] = s /\ Inside(t)} = {}
      BY <1>9
    <3>2. head[s].ref = 0
      BY DEF HyalineInit
    <3> QED
      BY <3>1, <3>2, FS_EmptySet
  <2> QED
    BY <2>1 DEF HeadsCount
<1>11. Anchored
  BY <1>9 DEF Anchored
<1>12. ASSUME NEW t \in Tasks
       PROVE  Control(t) /\ Homely(t) /\ Enough(t)
  <2>1. Control(t)
    BY <1>9 DEF Control, Retires, NoWalk
  <2>2. Homely(t)
    BY <1>9 DEF Homely, HyalineInit
  <2>3. Enough(t)
    BY <1>9 DEF Enough, Retires
  <2> QED
    BY <2>1, <2>2, <2>3
<1> QED
  BY <1>8, <1>10, <1>11, <1>12 DEF Sound

\* The heads count what a step makes of the threads inside.
LEMMA HeadsCountStep ==
  ASSUME Sound, NEW t \in Tasks, Good(t)
  PROVE  HeadsCount'
<1> DEFINE In(s) == {u \in Tasks : vec[u] = s /\ Inside(u)}
           After(s) == {u \in Tasks : vec'[u] = s /\ Inside(u)'}
<1>1. /\ \A u \in Tasks : u # t =>
            vec'[u] = vec[u] /\ (Inside(u)' <=> Inside(u))
      /\ build' = build /\ Slots' = Slots
      /\ vec[t] \in Slots /\ vec'[t] \in Slots /\ SharedTypeOK
  <2>1. build' = build /\ Slots' = Slots /\ Kept(t) /\ OwnTypeOK'
    BY SameBuild DEF Good
  <2>2. ASSUME NEW u \in Tasks, u # t
        PROVE  vec'[u] = vec[u] /\ (Inside(u)' <=> Inside(u))
    BY <2>1, <2>2, SoundParts, KeptThreads DEF Kept
  <2> QED
    BY <2>1, <2>2, SoundParts, Fields DEF OwnTypeOK
<1>2. \A s \in Slots : /\ head[s].ref = Cardinality(In(s))
                       /\ head[s].ref \in Nat
                       /\ IsFiniteSet(In(s))
  <2>1. IsFiniteSet(Tasks)
    BY FS_Interval DEF Tasks
  <2>2. ASSUME NEW s \in Slots
        PROVE  head[s].ref \in Nat /\ IsFiniteSet(In(s))
    BY <1>1, <2>1, <2>2, HeadType, FS_Subset
  <2> QED
    BY <2>2 DEF Sound, HeadsCount
<1>3. \A s \in Slots : head[s] \in [ref : 0 .. TaskNum, ptr : Ptrs]
  BY <1>1 DEF SharedTypeOK
<1>4. ASSUME NEW s \in Slots
      PROVE  head'[s].ref = Cardinality(After(s))
  <2>1. CASE Quiet(t)
    <3>1. After(s) = In(s)
      BY <1>1, <2>1 DEF Quiet
    <3>2. head'[s].ref = head[s].ref
      BY <2>1 DEF Quiet
    <3> QED
      BY <1>2, <3>1, <3>2
  <2>2. CASE Enters(t)
    <3>1. ~Inside(t) /\ Inside(t)'
      BY <2>2 DEF Enters
    <3>2. head'[s].ref = IF s = vec'[t] THEN head[s].ref + 1 ELSE head[s].ref
      BY <1>1, <1>3, <2>2 DEF Enters, SharedTypeOK
    <3>3. CASE s = vec'[t]
      <4>1. After(s) = In(s) \union {t} /\ t \notin In(s)
        BY <1>1, <3>1, <3>3
      <4>2. Cardinality(In(s) \union {t}) = Cardinality(In(s)) + 1
        BY <1>2, <4>1, FS_AddElement
      <4> QED
        BY <1>2, <3>2, <3>3, <4>1, <4>2
    <3>4. CASE s # vec'[t]
      BY <1>1, <1>2, <3>1, <3>2, <3>4
    <3> QED
      BY <3>3, <3>4
  <2>3. CASE Leaving(t)
    <3>1. Inside(t) /\ ~Inside(t)' /\ vec'[t] = vec[t]
      BY <2>3 DEF Leaving
    <3>2. PICK p : head' = [head EXCEPT ![vec[t]] =
                               [ref |-> head[vec[t]].ref - 1, ptr |-> p]]
      BY <2>3 DEF Leaving
    <3>3. head'[s].ref = IF s = vec[t] THEN head[s].ref - 1 ELSE head[s].ref
      BY <1>1, <3>2 DEF SharedTypeOK
    <3>4. CASE s = vec[t]
      <4>1. After(s) = In(s) \ {t} /\ t \in In(s)
        BY <1>1, <3>1, <3>4
      <4>2. Cardinality(In(s) \ {t}) = Cardinality(In(s)) - 1
        BY <1>2, <4>1, FS_RemoveElement
      <4> QED
        BY <1>2, <3>3, <3>4, <4>1, <4>2
    <3>5. CASE s # vec[t]
      BY <1>1, <1>2, <3>1, <3>3, <3>5
    <3> QED
      BY <3>4, <3>5
  <2>4. CASE Clears(t)
    <3>1. ~Inside(t) /\ ~Inside(t)' /\ head' = [head EXCEPT ![vec[t]].ptr = NULL]
      BY <2>4 DEF Clears
    <3>2. After(s) = In(s)
      BY <1>1, <3>1
    <3>3. head'[s].ref = head[s].ref
      BY <1>1, <1>3, <3>1 DEF SharedTypeOK
    <3> QED
      BY <1>2, <3>2, <3>3
  <2> QED
    BY <2>1, <2>2, <2>3, <2>4 DEF Good, Counts
<1> QED
  BY <1>1, <1>4 DEF HeadsCount

\* A list stays with the threads inside.
LEMMA AnchoredStep ==
  ASSUME Sound, NEW t \in Tasks, Good(t)
  PROVE  Anchored'
<1>1. /\ build' = build /\ Kept(t) /\ Counts(t) /\ SharedTypeOK
      /\ vec[t] \in Slots /\ OwnTypeOK' /\ Slots' = Slots
  BY SoundParts, Fields, SameBuild DEF Good
<1>2. \A s \in Slots : head[s] \in [ref : 0 .. TaskNum, ptr : Ptrs]
  BY <1>1 DEF SharedTypeOK
<1>3. ASSUME NEW u \in Tasks, Inside(u)', handle'[u] # NULL, u # t
      PROVE  head'[vec'[u]].ptr # NULL
  <2>1. /\ vec'[u] = vec[u] /\ handle'[u] = handle[u] /\ Inside(u)
        /\ vec[u] \in Slots
    BY <1>1, <1>3, SoundParts, KeptThreads, Fields DEF Kept
  <2>2. head[vec[u]].ptr # NULL /\ head[vec[u]].ref >= 1
    BY <1>3, <2>1, HeadFacts DEF Sound, Anchored
  <2>3. CASE Quiet(t)
    BY <2>1, <2>2, <2>3 DEF Quiet
  <2>4. CASE Enters(t)
    BY <1>1, <1>2, <2>1, <2>2, <2>4 DEF Enters, SharedTypeOK
  <2>5. CASE Leaving(t)
    <3>1. PICK p \in Ptrs : /\ head' = [head EXCEPT ![vec[t]] =
                                 [ref |-> head[vec[t]].ref - 1, ptr |-> p]]
                            /\ (head[vec[t]].ref # 1 => p = head[vec[t]].ptr)
      BY <2>5 DEF Leaving
    <3>2. CASE vec[u] # vec[t]
      BY <1>1, <2>1, <2>2, <3>1, <3>2 DEF SharedTypeOK
    <3>3. CASE vec[u] = vec[t]
      <4>1. head[vec[t]].ref # 1
        <5> DEFINE In == {v \in Tasks : vec[v] = vec[t] /\ Inside(v)}
        <5>1. IsFiniteSet(In)
          <6>1. IsFiniteSet(Tasks)
            BY FS_Interval DEF Tasks
          <6> QED
            BY <6>1, FS_Subset
        <5>2. t \in In /\ u \in In
          BY <2>1, <2>5, <3>3 DEF Leaving
        <5>3. head[vec[t]].ref = Cardinality(In)
          BY <1>1 DEF Sound, HeadsCount
        <5>4. ASSUME Cardinality(In) = 1 PROVE FALSE
          <6> HIDE DEF In
          <6>1. Cardinality(In \ {t}) = 0 /\ IsFiniteSet(In \ {t})
            BY <5>1, <5>2, <5>4, FS_RemoveElement
          <6>2. In \ {t} = {}
            BY <6>1, FS_EmptySet
          <6> QED
            BY <1>3, <5>2, <6>2
        <5> HIDE DEF In
        <5> QED
          BY <5>3, <5>4
      <4> QED
        BY <1>1, <2>1, <2>2, <3>1, <3>3, <4>1 DEF SharedTypeOK
    <3> QED
      BY <3>2, <3>3
  <2>6. CASE Clears(t)
    BY <1>1, <2>1, <2>2, <2>6 DEF Clears, SharedTypeOK
  <2> QED
    BY <1>1, <2>3, <2>4, <2>5, <2>6 DEF Counts
<1>4. ASSUME Inside(t)', handle'[t] # NULL
      PROVE  head'[vec'[t]].ptr # NULL
  <2>1. CASE Quiet(t)
    <3>1. /\ vec'[t] = vec[t] /\ Inside(t)
          /\ handle'[t] \in {handle[t], head'[vec[t]].ptr}
      BY <1>4, <2>1 DEF Quiet
    <3>2. CASE handle'[t] = head'[vec[t]].ptr
      BY <1>4, <3>1, <3>2
    <3>3. CASE handle'[t] = handle[t]
      BY <1>1, <1>4, <2>1, <3>1, <3>3 DEF Sound, Anchored, Quiet
    <3> QED
      BY <3>1, <3>2, <3>3
  <2>2. CASE Enters(t)
    BY <1>4, <2>2 DEF Enters
  <2>3. CASE Leaving(t) \/ Clears(t)
    BY <1>4, <2>3 DEF Leaving, Clears
  <2> QED
    BY <1>1, <2>1, <2>2, <2>3 DEF Counts
<1> QED
  BY <1>3, <1>4 DEF Anchored

\* A step of any thread.
LEMMA SoundStep ==
  ASSUME Sound, [Next]_vars
  PROVE  Sound'
<1>1. CASE UNCHANGED vars
  <2>1. UNCHANGED <<clientVars, mem, own, held, pc, locals>>
    BY <1>1 DEF vars
  <2>2. PICK t \in Tasks : TRUE
    BY DEF Tasks
  <2>3. UNCHANGED <<build, head, access, counter, global, next, link, refs,
                    birth, allocs, batch, minEpoch, vec, handle, held, pc, at,
                    rd, wk, list, rt>>
    BY <2>1 DEF mem, own, locals, epochs, nodes
  <2>4. SharedTypeOK /\ OwnTypeOK /\ LocalTypeOK
    BY <2>2, SoundParts
  <2>5. SharedTypeOK'
    BY <2>1, <2>3, <2>4, SameBuild DEF SharedTypeOK, ClientTypeOK, clientVars
  <2>6. OwnTypeOK'
    BY <2>3, <2>4, SameBuild DEF OwnTypeOK
  <2>7. LocalTypeOK'
    BY <2>3, <2>4, SameBuild DEF LocalTypeOK
  <2>8. HyalineTypeOK'
    BY <2>5, <2>6, <2>7, TypePartsAfter
  <2>9. \A u \in Tasks : Inside(u)' <=> Inside(u)
    BY <2>3 DEF Inside
  <2>10. HeadsCount'
    BY <2>3, <2>9, SameBuild DEF Sound, HeadsCount
  <2>11. Anchored'
    BY <2>3, <2>9 DEF Sound, Anchored
  <2>12. ASSUME NEW u \in Tasks
         PROVE  (Control(u) /\ Homely(u) /\ Enough(u))'
    BY <2>3, SameBuild DEF Sound, Control, Homely, Enough
  <2> QED
    BY <2>8, <2>10, <2>11, <2>12 DEF Sound
<1>2. ASSUME NEW t \in Tasks, Calls(t) \/ Steps(t)
      PROVE  Sound'
  <2>1. Good(t)
    BY <1>2, StepGood
  <2>2. HyalineTypeOK'
    BY <2>1, TypePartsAfter DEF Good
  <2>3. HeadsCount' /\ Anchored'
    BY <2>1, HeadsCountStep, AnchoredStep
  <2>4. ASSUME NEW u \in Tasks
        PROVE  (Control(u) /\ Homely(u) /\ Enough(u))'
    <3>1. Thread(u)'
      <4>1. CASE u = t
        BY <2>1, <4>1 DEF Good
      <4>2. CASE u # t
        BY <2>1, <4>2, SoundParts, KeptThreads DEF Good
      <4> QED
        BY <4>1, <4>2
    <3> QED
      BY <3>1 DEF Thread
  <2> QED
    BY <2>2, <2>3, <2>4 DEF Sound
<1> QED
  BY <1>1, <1>2 DEF Next

\* Every reachable state is sound.
LEMMA SoundAlways == Spec => []Sound
<1> QED
  BY InitSound, SoundStep, PTL DEF Spec

\* The fields of every variable are in range: no counter of references leaves
\* the width of type_t, no head counts more threads than there are, and no step
\* follows a null pointer (bits/lfsmr_common.h, lfsmr_cas1.h, lfsmr_cas2.h).
THEOREM TypeCorrect == Spec => []HyalineTypeOK
<1>1. Sound => HyalineTypeOK
  BY DEF Sound
<1> QED
  BY <1>1, SoundAlways, PTL

\* The counter in the head of a slot (head.ref) is the number of threads that
\* have entered the slot and not left it: leave of the last one finds 1 there
\* and takes the list, retire passes a slot by only if nobody is inside.
THEOREM HeadsAreExact == Spec => []HeadsCount
<1>1. Sound => HeadsCount
  BY DEF Sound
<1> QED
  BY <1>1, SoundAlways, PTL

-----------------------------------------------------------------------------
(***************************************************************************)
(* What a call keeps in its locals while it runs, and what each step       *)
(* writes.                                                                 *)
(***************************************************************************)

\* What a thread has put away between the steps that need it.
Tidy(t) ==
    /\ pc[t] \notin Walking \union {"leave", "lv_cas", "lv_clear", "lv_adj"} =>
          wk[t].segs = <<>>
    /\ pc[t] = "free" => wk[t].segs = <<>>
    /\ pc[t] = "ack" => Head(wk[t].segs).cur = NULL
    /\ pc[t] \notin Retires => rt[t].first = NULL /\ rt[t].todo = <<>>
    /\ pc[t] \in {"out", "in", "look", "add", "value", "global", "access"} =>
          list[t] = {}

\* The other threads keep their batches, their lists and their order.
Neat(t) ==
    /\ Tidy(t)'
    /\ \A u \in Tasks : u # t => list'[u] = list[u] /\ batch'[u] = batch[u]

\* The fields of a call at rest.
LEMMA BlankFields ==
  /\ NoWalk.segs = <<>> /\ NoWalk.ret = "out" /\ NoWalk.left = 0
  /\ NoRetire.first = NULL /\ NoRetire.todo = <<>> /\ NoRetire.node = NULL
BY DEF NoWalk, NoRetire

\* Where a walk goes on, with the threads' records as they were.
LEMMA ProceedTidy ==
  ASSUME HyalineTypeOK, NEW t \in Tasks, NEW w \in Walks,
         NEW l \in SUBSET Objs, Proceed(t, w, l)
  PROVE  /\ \A u \in Tasks : u # t => list'[u] = list[u]
         /\ list'[t] = l
         /\ pc'[t] \in {"trav", "ack", "free", "look", "add", "out", "in"}
         /\ pc'[t] \in {"look", "add", "out", "in"} => l = {} /\ w.segs = <<>>
         /\ wk'[t].segs = w.segs
         /\ pc'[t] = "free" => w.segs = <<>>
         /\ pc'[t] = "ack" => Head(w.segs).cur = NULL
<1>1. /\ wk \in [Tasks -> Walks] /\ list \in [Tasks -> SUBSET Objs]
      /\ pc \in [Tasks -> PC]
  BY Fields DEF HyalineTypeOK
<1>2. /\ wk' = [wk EXCEPT ![t] = IF w.segs = <<>> /\ l = {} THEN NoWalk ELSE w]
      /\ list' = [list EXCEPT ![t] = l]
      /\ pc' = [pc EXCEPT ![t] =
                   IF w.segs # <<>>
                   THEN IF Head(w.segs).cur # NULL THEN "trav" ELSE "ack"
                   ELSE IF l # {} THEN "free"
                   ELSE IF w.ret = "enter" THEN Entry ELSE w.ret]
  BY DEF Proceed, Goto
<1>3. w.ret \in {"out", "in", "enter"} /\ Entry \in {"look", "add"}
  BY DEF Walks, Entry
<1>4. wk'[t] = IF w.segs = <<>> /\ l = {} THEN NoWalk ELSE w
  BY <1>1, <1>2
<1>5. pc'[t] = IF w.segs # <<>>
               THEN IF Head(w.segs).cur # NULL THEN "trav" ELSE "ack"
               ELSE IF l # {} THEN "free"
               ELSE IF w.ret = "enter" THEN Entry ELSE w.ret
  BY <1>1, <1>2
<1>6. wk'[t].segs = w.segs
  BY <1>4, BlankFields
<1>7. /\ \A u \in Tasks : u # t => list'[u] = list[u]
      /\ list'[t] = l
  BY <1>1, <1>2
<1> QED
  BY <1>3, <1>5, <1>6, <1>7

\* After a walk the thread is tidy, if it is out of retire.
LEMMA ProceedNeat ==
  ASSUME HyalineTypeOK, NEW t \in Tasks, NEW w \in Walks,
         NEW l \in SUBSET Objs, Proceed(t, w, l), batch' = batch,
         rt'[t].first = NULL, rt'[t].todo = <<>>
  PROVE  Neat(t)
<1>1. /\ \A u \in Tasks : u # t => list'[u] = list[u]
      /\ list'[t] = l
      /\ pc'[t] \in {"trav", "ack", "free", "look", "add", "out", "in"}
      /\ pc'[t] \in {"look", "add", "out", "in"} => l = {} /\ w.segs = <<>>
      /\ wk'[t].segs = w.segs
      /\ pc'[t] = "free" => w.segs = <<>>
      /\ pc'[t] = "ack" => Head(w.segs).cur = NULL
  BY ProceedTidy
<1> QED
  BY <1>1 DEF Neat, Tidy, Walking

\* On the way to the next slot.
LEMMA NextSlotNeat ==
  ASSUME HyalineTypeOK, NEW t \in Tasks, NEW r \in Batches, Tidy(t),
         NextSlot(t, r), list' = list, batch' = batch, pc[t] \in Retires
  PROVE  Neat(t)
<1>1. /\ wk \in [Tasks -> Walks] /\ wk[t] \in Walks
      /\ rt \in [Tasks -> Batches] /\ list[t] \in SUBSET Objs
      /\ pc \in [Tasks -> PC] /\ list \in [Tasks -> SUBSET Objs]
  BY Fields DEF HyalineTypeOK
<1>2. wk[t].segs = <<>>
  BY DEF Tidy, Retires, Walking
<1>3. CASE /\ rt' = [rt EXCEPT ![t] = r]
           /\ Goto(t, IF build.robust THEN "rt_access" ELSE "rt_load")
           /\ UNCHANGED wk
  <2>1. pc' = [pc EXCEPT ![t] = IF build.robust THEN "rt_access" ELSE "rt_load"]
    BY <1>3 DEF Goto
  <2>2. pc'[t] \in {"rt_access", "rt_load"} /\ wk'[t].segs = <<>>
    BY <1>1, <1>2, <1>3, <2>1
  <2> QED
    BY <2>2 DEF Neat, Tidy, Retires, Walking
<1>4. CASE /\ rt' = [rt EXCEPT ![t] = [NoRetire EXCEPT !.node = r.first,
                                                  !.amt = r.adjs]]
           /\ Goto(t, "rt_fin")
           /\ UNCHANGED wk
  <2>1. pc' = [pc EXCEPT ![t] = "rt_fin"]
    BY <1>4 DEF Goto
  <2>2. pc'[t] = "rt_fin" /\ wk'[t].segs = <<>>
    BY <1>1, <1>2, <1>4, <2>1
  <2>3. rt'[t].first = NULL /\ rt'[t].todo = <<>>
    BY <1>1, <1>4 DEF NoRetire
  <2> QED
    BY <2>2, <2>3 DEF Neat, Tidy, Retires, Walking
<1>5. CASE rt' = [rt EXCEPT ![t] = NoRetire] /\ Proceed(t, wk[t], list'[t])
  <2>1. Proceed(t, wk[t], list[t])
    BY <1>5
  <2>2. rt'[t].first = NULL /\ rt'[t].todo = <<>>
    BY <1>1, <1>5, BlankFields
  <2> QED
    BY <1>1, <2>1, <2>2, ProceedNeat
<1> QED
  BY <1>3, <1>4, <1>5 DEF NextSlot

\* Between calls, in enter and in deref there is nothing to put away.
Idle == {"out", "in", "look", "add", "value", "global", "access"}

\* Between the calls of the library a thread has no locals of one.
LEMMA IdleNeat ==
  ASSUME NEW t \in Tasks, Tidy(t), UNCHANGED <<batch, wk, list, rt>>,
         pc[t] \in Idle, pc'[t] \in Idle
  PROVE  Neat(t)
BY DEF Neat, Tidy, Idle, Retires, Walking

\* The steps that only look leave the locals blank.
LEMMA IdleStepsNeat ==
  ASSUME HyalineTypeOK, NEW t \in Tasks, Tidy(t),
         \/ Enter1(t) \/ Enter2(t) \/ EnterLook(t) \/ EnterAdd(t)
         \/ Alloc(t) \/ Rideable(t) \/ \E c \in Cells : Read(t, c) \/ Deref(t, c)
         \/ DerefValue(t) \/ DerefGlobal(t) \/ DerefAccess1(t) \/ DerefAccess2(t)
  PROVE  Neat(t)
<1>0. pc \in [Tasks -> PC]
  BY DEF HyalineTypeOK
<1>1. CASE Enter1(t)
  BY <1>0, <1>1, IdleNeat DEF Enter1, Goto, Idle, locals
<1>2. CASE Enter2(t)
  <2>1. /\ pc' = [pc EXCEPT ![t] = Entry] /\ pc[t] \in Idle
        /\ UNCHANGED <<batch, wk, list, rt>>
    BY <1>2 DEF Enter2, Goto, Idle, locals, own
  <2>2. Entry \in Idle
    BY DEF Entry, Idle
  <2> QED
    BY <1>0, <2>1, <2>2, IdleNeat
<1>3. CASE EnterLook(t)
  BY <1>0, <1>3, IdleNeat DEF EnterLook, Goto, own, Idle
<1>4. CASE EnterAdd(t)
  BY <1>0, <1>4, IdleNeat DEF EnterAdd, Goto, Idle, locals
<1>5. CASE Alloc(t)
  BY <1>5, IdleNeat DEF Alloc, Idle, locals
<1>6. CASE Rideable(t)
  BY <1>6, IdleNeat DEF Rideable, Idle, locals, own
<1>7. CASE \E c \in Cells : Read(t, c) \/ Deref(t, c)
  <2>1. PICK c \in Cells : Read(t, c) \/ Deref(t, c)
    BY <1>7
  <2>2. CASE Read(t, c)
    BY <2>2, IdleNeat DEF Read, Idle, locals, own
  <2>3. CASE Deref(t, c)
    BY <1>0, <2>3, IdleNeat DEF Deref, Idle, Goto, own
  <2> QED
    BY <2>1, <2>2, <2>3
<1>8. CASE DerefValue(t)
  BY <1>0, <1>8, IdleNeat DEF DerefValue, Idle, Goto, own
<1>9. CASE DerefGlobal(t)
  BY <1>0, <1>9, IdleNeat DEF DerefGlobal, Idle, Goto, own
<1>10. CASE DerefAccess1(t) \/ DerefAccess2(t)
  BY <1>0, <1>10, IdleNeat DEF DerefAccess1, DerefAccess2, Idle, Goto, own, AfterAccess
<1> QED
  BY <1>1, <1>2, <1>3, <1>4, <1>5, <1>6, <1>7, <1>8, <1>9, <1>10

\* retire, to its last adjustment.
LEMMA RetireNeat ==
  ASSUME HyalineTypeOK, NEW t \in Tasks, Tidy(t), NEW c \in Cells, Retire(t, c)
  PROVE  Neat(t)
<1> DEFINE o == cell[c]
           chain == <<o>> \o batch[t]
           full == Len(chain) >= SMRBatch
<1>1. /\ wk \in [Tasks -> Walks] /\ rt \in [Tasks -> Batches]
      /\ pc \in [Tasks -> PC] /\ batch \in [Tasks -> Seq(Objs)]
  BY Fields DEF HyalineTypeOK
<1>2. /\ pc[t] = "in" /\ list' = list
      /\ batch' = [batch EXCEPT ![t] = IF full THEN <<>> ELSE chain]
      /\ \/ /\ wk' = [wk EXCEPT ![t] = [NoWalk EXCEPT !.ret = "in"]]
            /\ pc' = [pc EXCEPT ![t] = IF build.robust THEN "rt_access" ELSE "rt_load"]
         \/ UNCHANGED <<rt, wk, at, pc>>
  BY DEF Retire, Goto
<1>3. \A u \in Tasks : u # t => list'[u] = list[u] /\ batch'[u] = batch[u]
  BY <1>1, <1>2
<1>4. Tidy(t)'
  <2>1. CASE UNCHANGED <<rt, wk, at, pc>>
    BY <1>2, <2>1 DEF Tidy
  <2>2. CASE /\ wk' = [wk EXCEPT ![t] = [NoWalk EXCEPT !.ret = "in"]]
             /\ pc' = [pc EXCEPT ![t] = IF build.robust THEN "rt_access" ELSE "rt_load"]
    <3>1. wk'[t].segs = <<>>
      BY <1>1, <2>2 DEF NoWalk
    <3>2. pc'[t] \in {"rt_access", "rt_load"}
      BY <1>1, <2>2
    <3> QED
      BY <3>1, <3>2 DEF Tidy, Retires, Walking
  <2> QED
    BY <1>2, <2>1, <2>2
<1> QED
  BY <1>3, <1>4 DEF Neat

\* Steps of retire that stay in it.
LEMMA RetiresNeat ==
  ASSUME NEW t \in Tasks, Tidy(t), UNCHANGED <<batch, wk>>,
         \A u \in Tasks : u # t => list'[u] = list[u],
         pc[t] \in Retires, pc'[t] \in Retires
  PROVE  Neat(t)
BY DEF Neat, Tidy, Retires, Walking

\* retire goes past a slot where nobody is.
LEMMA SkipNeat ==
  ASSUME Sound, NEW t \in Tasks, Tidy(t), SkipSlot(t), pc[t] \in Retires, batch' = batch
  PROVE  Neat(t)
<1> DEFINE r == IF build.words = 1 THEN rt[t]
                ELSE [rt[t] EXCEPT !.adjs = (@ + Addend) % CounterMod,
                                   !.skipped = TRUE]
<1>1. rt[t] \in Batches /\ HyalineTypeOK
  BY Fields, SoundParts
<1>2. r \in Batches
  <2>1. rt[t].adjs + Addend \in Int
    BY <1>1, SlotFacts DEF Batches, HyalineTypeOK
  <2>2. (rt[t].adjs + Addend) % CounterMod \in 0 .. CounterMod - 1
    BY <2>1, ModRange
  <2> QED
    BY <1>1, <2>2 DEF Batches
<1>3. list' = list /\ NextSlot(t, r)
  BY DEF SkipSlot
<1> HIDE DEF r
<1> QED
  BY <1>1, <1>2, <1>3, NextSlotNeat

-----------------------------------------------------------------------------
\* What the steps do, put plainly, one kind of step at a time.  The memory that
\* most of them leave alone.
Untouched == UNCHANGED <<clientVars, build, next, link, refs, batch, vec>>

\* A walk goes on, inside or outside.
LEMMA ProceedFx ==
  ASSUME HyalineTypeOK, NEW t \in Tasks, NEW w \in Walks,
         NEW l \in SUBSET Objs, Proceed(t, w, l), w.left > 0 => w.ret = "in"
  PROVE  /\ list' = [list EXCEPT ![t] = l]
         /\ pc'[t] \in {"trav", "ack", "free", "look", "add", "out", "in"}
         /\ pc'[t] \in {"look", "add", "out", "in"} => l = {} /\ w.segs = <<>>
         /\ wk'[t].segs = w.segs
         /\ pc'[t] = "free" => w.segs = <<>>
         /\ Inside(t)' <=> w.ret = "in"
<1>1. list' = [list EXCEPT ![t] = l]
  BY DEF Proceed
<1>2. /\ pc'[t] \in {"trav", "ack", "free", "look", "add", "out", "in"}
      /\ pc'[t] \in {"look", "add", "out", "in"} => l = {} /\ w.segs = <<>>
      /\ wk'[t].segs = w.segs
      /\ pc'[t] = "free" => w.segs = <<>>
  BY ProceedTidy
<1>3. Inside(t)' <=> w.ret = "in"
  BY <1>2, ProceedFacts DEF Inside, Walking
<1> QED
  BY <1>1, <1>2, <1>3

\* leave with heads of two words, to the compare-and-swap.
LEMMA LoadHeadFx ==
  ASSUME Sound, NEW t \in Tasks, Tidy(t), Leave2(t) \/ LeaveTrim2(t) \/ LeaveRetry(t)
  PROVE  /\ Untouched /\ Neat(t) /\ UNCHANGED <<head, handle, list, rt, at>>
         /\ pc[t] \in {"in", "leave", "lv_cas"} /\ pc'[t] = "lv_cas"
         /\ wk'[t].segs = wk[t].segs /\ build.words = 2
         /\ wk'[t].curr = head[vec[t]].ptr
         /\ wk'[t].next = IF head[vec[t]].ptr = handle[t] THEN NULL
                          ELSE next[head[vec[t]].ptr]
<1>1. wk \in [Tasks -> Walks] /\ pc \in [Tasks -> PC] /\ NoWalk \in Walks
  BY SoundParts, Fields, Blank DEF HyalineTypeOK
<1>2. PICK w \in Walks : LoadHead(t, w) /\ w.segs = wk[t].segs
  <2>1. CASE Leave2(t)
    BY <1>1, <2>1, BlankFields DEF Leave2, Tidy, Walking
  <2>2. CASE LeaveTrim2(t) \/ LeaveRetry(t)
    BY <1>1, <2>2 DEF LeaveTrim2, LeaveRetry
  <2> QED
    BY <2>1, <2>2
<1>3. /\ UNCHANGED <<clientVars, mem, own, list, rt, at>>
      /\ pc[t] \in {"in", "leave", "lv_cas"} /\ build.words = 2
  BY SoundParts DEF Leave2, LeaveTrim2, LeaveRetry, Control
<1>4. Untouched /\ UNCHANGED <<head, handle>>
  BY <1>3 DEF Untouched, mem, own, nodes
<1> DEFINE c == head[vec[t]].ptr
           x == [w EXCEPT !.curr = c,
                          !.next = IF c = handle[t] THEN NULL ELSE next[c]]
<1>5. wk' = [wk EXCEPT ![t] = x] /\ pc' = [pc EXCEPT ![t] = "lv_cas"]
  BY <1>2 DEF LoadHead, Goto
<1>6. /\ x.segs = w.segs /\ x.curr = c
      /\ x.next = IF c = handle[t] THEN NULL ELSE next[c]
  BY <1>2 DEF Walks
<1> HIDE DEF x
<1>7. wk'[t] = x /\ pc'[t] = "lv_cas"
  BY <1>1, <1>5
<1>8. Neat(t)
  BY <1>3, <1>4, <1>7 DEF Neat, Tidy, Retires, Walking, Untouched
<1> QED
  BY <1>2, <1>3, <1>4, <1>6, <1>7, <1>8

\* leave with heads of one word.
LEMMA TakeListFx ==
  ASSUME Sound, NEW t \in Tasks, Tidy(t), Leave1(t) \/ LeaveTrim1(t)
  PROVE  /\ Untouched /\ Neat(t) /\ UNCHANGED <<handle, list, rt>>
         /\ pc[t] \in {"in", "leave"} /\ build.words = 1 /\ ~Inside(t)'
         /\ head' = [head EXCEPT ![vec[t]] = [ref |-> 0, ptr |-> NULL]]
         /\ wk'[t].segs = IF head[vec[t]].ptr = NULL THEN wk[t].segs
                          ELSE Walk(head[vec[t]].ptr, handle[t], 0) \o wk[t].segs
         /\ pc'[t] \in {"trav", "ack", "free", "look", "add", "out", "in"}
<1>1. /\ HyalineTypeOK /\ Control(t) /\ wk[t] \in Walks /\ NoWalk \in Walks
      /\ vec[t] \in Slots /\ handle[t] \in Ptrs /\ list \in [Tasks -> SUBSET Objs]
  BY SoundParts, Fields, Blank DEF HyalineTypeOK
<1>2. PICK w \in Walks : /\ TakeList(t, w) /\ w.segs = wk[t].segs
                         /\ w.ret \in {"out", "enter"} /\ (w.left > 0 => w.ret = "in")
  <2>1. CASE Leave1(t)
    BY <1>1, <2>1, BlankFields DEF Leave1, Tidy, Walking
  <2>2. CASE LeaveTrim1(t)
    BY <1>1, <2>2 DEF LeaveTrim1, Control
  <2> QED
    BY <2>1, <2>2
<1>3. /\ UNCHANGED <<clientVars, build, nodes, own, rt>>
      /\ pc[t] \in {"in", "leave"} /\ build.words = 1
      /\ head' = [head EXCEPT ![vec[t]] = [ref |-> 0, ptr |-> NULL]]
  BY <1>2 DEF TakeList, Leave1, LeaveTrim1
<1>4. Untouched /\ UNCHANGED handle
  BY <1>3 DEF Untouched, own, nodes
<1> DEFINE segs == IF head[vec[t]].ptr = NULL THEN w.segs
                   ELSE Walk(head[vec[t]].ptr, handle[t], 0) \o w.segs
           x == [w EXCEPT !.segs = segs]
<1>5. x \in Walks /\ x.ret = w.ret /\ x.left = w.left /\ x.segs = segs
  <2>1. w.segs \in Seq(Segment) /\ head[vec[t]].ptr \in Ptrs
    BY <1>1, HeadType, SoundParts DEF Walks
  <2>2. Walk(head[vec[t]].ptr, handle[t], 0) \in Seq(Segment)
    BY <1>1, <2>1, WalkType
  <2>3. segs \in Seq(Segment)
    BY <2>1, <2>2, JoinType
  <2> HIDE DEF segs
  <2> QED
    BY <2>3 DEF Walks
<1>6. Proceed(t, x, list[t])
  BY <1>2 DEF TakeList
<1> HIDE DEF x
<1>7. /\ list' = [list EXCEPT ![t] = list[t]] /\ list[t] \in SUBSET Objs
      /\ pc'[t] \in {"trav", "ack", "free", "look", "add", "out", "in"}
      /\ wk'[t].segs = x.segs
      /\ Inside(t)' <=> x.ret = "in"
  BY <1>1, <1>2, <1>5, <1>6, ProceedFx
<1>8. list' = list
  BY <1>1, <1>7
<1>9. Neat(t)
  <2>1. rt'[t].first = NULL /\ rt'[t].todo = <<>>
    BY <1>3 DEF Tidy, Retires
  <2>2. batch' = batch
    BY <1>4 DEF Untouched
  <2> QED
    BY <1>1, <1>5, <1>6, <1>7, <2>1, <2>2, ProceedNeat
<1> QED
  BY <1>2, <1>3, <1>4, <1>5, <1>7, <1>8, <1>9

\* leave with heads of two words: the compare-and-swap.
LEMMA LeaveCasFx ==
  ASSUME Sound, NEW t \in Tasks, Tidy(t), LeaveCas(t)
  PROVE  LET c == wk[t].curr
             last == head[vec[t]].ref = 1
         IN
         /\ Untouched /\ Neat(t) /\ UNCHANGED <<handle, list>>
         /\ pc[t] = "lv_cas" /\ build.words = 2 /\ ~Inside(t)'
         /\ head[vec[t]].ptr = c
         /\ head' = [head EXCEPT ![vec[t]] =
               [ref |-> head[vec[t]].ref - 1,
                ptr |-> IF last /\ build.full THEN NULL ELSE c]]
         /\ wk'[t].segs = (IF c = handle[t] THEN <<>>
                           ELSE Walk(wk[t].next, handle[t], 0)) \o wk[t].segs
         /\ \/ /\ last /\ c # NULL /\ rt'[t].node = c /\ rt'[t].amt = Addend
               /\ pc'[t] = IF build.full THEN "lv_adj" ELSE "lv_clear"
            \/ /\ ~(last /\ c # NULL) /\ rt' = rt
               /\ pc'[t] \in {"trav", "ack", "free", "look", "add", "out", "in"}
<1> DEFINE s == vec[t]
           c == wk[t].curr
           last == head[s].ref = 1
           segs == IF c = handle[t] THEN <<>> ELSE Walk(wk[t].next, handle[t], 0)
           w == [wk[t] EXCEPT !.curr = NULL, !.next = NULL, !.segs = segs \o @]
<1>1. /\ HyalineTypeOK /\ Control(t) /\ wk[t] \in Walks
      /\ wk \in [Tasks -> Walks] /\ rt \in [Tasks -> Batches] /\ pc \in [Tasks -> PC]
      /\ handle[t] \in Ptrs /\ list \in [Tasks -> SUBSET Objs]
      /\ rt[t] \in Batches
  BY SoundParts, Fields DEF HyalineTypeOK
<1>2. /\ UNCHANGED <<clientVars, build, epochs, nodes, own, held, rd>>
      /\ pc[t] = "lv_cas" /\ head[s].ptr = c
      /\ head' = [head EXCEPT ![s] =
                    [ref |-> @.ref - 1,
                     ptr |-> IF last /\ build.full THEN NULL ELSE c]]
  BY DEF LeaveCas
<1>3. Untouched /\ UNCHANGED handle
  BY <1>2 DEF Untouched, own, nodes
<1>4. build.words = 2 /\ wk[t].ret \in {"out", "enter"} /\ (wk[t].left > 0 => wk[t].ret = "in")
  BY <1>1, <1>2 DEF Control
<1>5. head' = [head EXCEPT ![s] =
                 [ref |-> head[s].ref - 1,
                  ptr |-> IF last /\ build.full THEN NULL ELSE c]]
  BY <1>2
<1>6. w \in Walks /\ w.ret = wk[t].ret /\ w.left = wk[t].left
      /\ w.segs = segs \o wk[t].segs
  <2>1. wk[t].segs \in Seq(Segment) /\ wk[t].next \in Ptrs
    BY <1>1 DEF Walks
  <2>2. Walk(wk[t].next, handle[t], 0) \in Seq(Segment)
    BY <1>1, <2>1, WalkType
  <2>3. segs \in Seq(Segment)
    BY <2>2
  <2>4. segs \o wk[t].segs \in Seq(Segment)
    BY <2>1, <2>3, JoinType
  <2> HIDE DEF segs
  <2> QED
    BY <1>1, <2>4 DEF Walks, Ptrs
<1>7. CASE ~(last /\ c # NULL)
  <2>1. Proceed(t, w, list[t]) /\ rt' = rt
    BY <1>7 DEF LeaveCas
  <2> HIDE DEF w
  <2>2. /\ list' = [list EXCEPT ![t] = list[t]] /\ list[t] \in SUBSET Objs
        /\ pc'[t] \in {"trav", "ack", "free", "look", "add", "out", "in"}
        /\ wk'[t].segs = w.segs
        /\ Inside(t)' <=> w.ret = "in"
    BY <1>1, <1>4, <1>6, <2>1, ProceedFx
  <2>3. list' = list
    BY <1>1, <2>2
  <2>4. Neat(t)
    <3>1. rt'[t].first = NULL /\ rt'[t].todo = <<>>
      BY <1>2, <2>1 DEF Tidy, Retires
    <3>2. batch' = batch
      BY <1>3 DEF Untouched
    <3> QED
      BY <1>1, <1>6, <2>1, <2>2, <3>1, <3>2, ProceedNeat
  <2> QED
    BY <1>2, <1>3, <1>4, <1>5, <1>6, <1>7, <2>1, <2>2, <2>3, <2>4
<1>8. CASE last /\ c # NULL
  <2> DEFINE r == [rt[t] EXCEPT !.node = c, !.amt = Addend]
             l == IF build.full THEN "lv_adj" ELSE "lv_clear"
  <2>1. /\ rt' = [rt EXCEPT ![t].node = c, ![t].amt = Addend]
        /\ wk' = [wk EXCEPT ![t] = w]
        /\ pc' = [pc EXCEPT ![t] = l]
        /\ list' = list
    BY <1>8 DEF LeaveCas, Goto
  <2>2. r.node = c /\ r.amt = Addend /\ r.first = rt[t].first /\ r.todo = rt[t].todo
    BY <1>1 DEF Batches
  <2>3. rt'[t] = r
    <3>1. rt' = [rt EXCEPT ![t] = r]
      BY <1>1, <2>1
    <3> HIDE DEF r
    <3> QED
      BY <1>1, <3>1
  <2> HIDE DEF r, w
  <2>4. wk'[t] = w /\ pc'[t] = l
    BY <1>1, <2>1
  <2>5. ~Inside(t)'
    BY <2>4 DEF Inside
  <2>6. Neat(t)
    BY <1>2, <1>3, <2>1, <2>2, <2>3, <2>4 DEF Neat, Tidy, Retires, Walking, Untouched
  <2> QED
    BY <1>2, <1>3, <1>4, <1>5, <1>6, <1>8, <2>1, <2>2, <2>3, <2>4, <2>5, <2>6
<1> QED
  BY <1>7, <1>8

\* leave with heads of two words: the list of an empty slot is taken.
LEMMA LeaveClearFx ==
  ASSUME Sound, NEW t \in Tasks, Tidy(t), LeaveClear(t)
  PROVE  /\ Untouched /\ Neat(t) /\ UNCHANGED <<handle, list>>
         /\ pc[t] = "lv_clear" /\ build.words = 2 /\ ~Inside(t) /\ ~Inside(t)'
         /\ wk'[t].segs = wk[t].segs
         /\ \/ /\ head[vec[t]].ref = 0 /\ head[vec[t]].ptr = rt[t].node
               /\ head' = [head EXCEPT ![vec[t]].ptr = NULL]
               /\ rt' = rt /\ pc'[t] = "lv_adj"
            \/ /\ ~(head[vec[t]].ref = 0 /\ head[vec[t]].ptr = rt[t].node)
               /\ head' = head
               /\ pc'[t] \in {"trav", "ack", "free", "look", "add", "out", "in"}
<1>1. /\ HyalineTypeOK /\ Control(t) /\ wk[t] \in Walks
      /\ wk \in [Tasks -> Walks] /\ rt \in [Tasks -> Batches] /\ pc \in [Tasks -> PC]
      /\ list \in [Tasks -> SUBSET Objs] /\ SharedTypeOK /\ vec[t] \in Slots
      /\ head[vec[t]] \in [ref : 0 .. TaskNum, ptr : Ptrs]
  BY SoundParts, Fields, HeadType DEF HyalineTypeOK
<1>2. /\ UNCHANGED <<clientVars, build, epochs, nodes, own, held, rd>>
      /\ pc[t] = "lv_clear"
  BY DEF LeaveClear
<1>3. Untouched /\ UNCHANGED handle
  BY <1>2 DEF Untouched, own, nodes
<1>4. build.words = 2 /\ wk[t].ret \in {"out", "enter"} /\ (wk[t].left > 0 => wk[t].ret = "in")
      /\ ~Inside(t)
  BY <1>1, <1>2 DEF Control, Inside
<1>5. head[vec[t]] = [ref |-> 0, ptr |-> rt[t].node] <=>
         head[vec[t]].ref = 0 /\ head[vec[t]].ptr = rt[t].node
  BY <1>1
<1>6. CASE head[vec[t]] = [ref |-> 0, ptr |-> rt[t].node]
  <2>1. /\ head' = [head EXCEPT ![vec[t]].ptr = NULL] /\ UNCHANGED <<wk, list, rt>>
        /\ pc' = [pc EXCEPT ![t] = "lv_adj"]
    BY <1>6 DEF LeaveClear, Goto
  <2>2. pc'[t] = "lv_adj"
    BY <1>1, <2>1
  <2>3. Neat(t) /\ ~Inside(t)'
    BY <1>2, <1>3, <2>1, <2>2 DEF Neat, Tidy, Retires, Walking, Inside, Untouched
  <2> QED
    BY <1>2, <1>3, <1>4, <1>5, <1>6, <2>1, <2>2, <2>3
<1>7. CASE ~(head[vec[t]] = [ref |-> 0, ptr |-> rt[t].node])
  <2>1. Proceed(t, wk[t], list[t]) /\ rt' = [rt EXCEPT ![t] = NoRetire] /\ head' = head
    BY <1>7 DEF LeaveClear
  <2>2. /\ list' = [list EXCEPT ![t] = list[t]] /\ list[t] \in SUBSET Objs
        /\ pc'[t] \in {"trav", "ack", "free", "look", "add", "out", "in"}
        /\ wk'[t].segs = wk[t].segs
        /\ Inside(t)' <=> wk[t].ret = "in"
    BY <1>1, <1>4, <2>1, ProceedFx
  <2>3. list' = list
    BY <1>1, <2>2
  <2>4. Neat(t)
    <3>1. rt'[t].first = NULL /\ rt'[t].todo = <<>>
      BY <1>1, <2>1, BlankFields
    <3>2. batch' = batch
      BY <1>3 DEF Untouched
    <3> QED
      BY <1>1, <2>1, <2>2, <3>1, <3>2, ProceedNeat
  <2> QED
    BY <1>2, <1>3, <1>4, <1>5, <1>7, <2>1, <2>2, <2>3, <2>4
<1> QED
  BY <1>6, <1>7

\* The adjustments with which leave and retire end.
LEMMA LastAdjustFx ==
  ASSUME Sound, NEW t \in Tasks, Tidy(t), LeaveAdjust(t) \/ RtFin(t)
  PROVE  /\ UNCHANGED <<clientVars, build, next, link, batch, vec, head, handle>>
         /\ Neat(t) /\ pc[t] \in {"lv_adj", "rt_fin"}
         /\ Inside(t)' <=> Inside(t)
         /\ refs' = [refs EXCEPT ![link[rt[t].node]] = (@ + rt[t].amt) % CounterMod]
         /\ list' = [list EXCEPT ![t] = Adjusted(t, rt[t].node, rt[t].amt)]
         /\ wk'[t].segs = wk[t].segs
         /\ rt' = [rt EXCEPT ![t] = NoRetire]
         /\ pc'[t] \in {"trav", "ack", "free", "look", "add", "out", "in"}
<1>1. /\ HyalineTypeOK /\ Control(t) /\ wk[t] \in Walks
      /\ wk \in [Tasks -> Walks] /\ rt \in [Tasks -> Batches] /\ pc \in [Tasks -> PC]
      /\ list \in [Tasks -> SUBSET Objs] /\ SharedTypeOK /\ vec[t] \in Slots
      /\ rt[t] \in Batches
  BY SoundParts, Fields, HeadType DEF HyalineTypeOK
<1>2. /\ UNCHANGED <<clientVars, build, head, epochs, next, link, birth, own>>
      /\ pc[t] \in {"lv_adj", "rt_fin"} /\ AdjustRefs(rt[t].node, rt[t].amt)
      /\ rt' = [rt EXCEPT ![t] = NoRetire]
      /\ Proceed(t, wk[t], Adjusted(t, rt[t].node, rt[t].amt))
  BY DEF LeaveAdjust, RtFin
<1>3. UNCHANGED <<clientVars, build, next, link, batch, vec, head, handle>>
  BY <1>2 DEF own
<1>4. rt[t].node \in Objs /\ rt[t].amt \in 0 .. CounterMod - 1
  BY <1>1, <1>2 DEF Control, Batches, Ptrs
<1>5. Adjusted(t, rt[t].node, rt[t].amt) \in SUBSET Objs
  BY <1>1, <1>2, <1>4, AdjustType
<1>6. wk[t].left > 0 => wk[t].ret = "in"
  BY <1>1 DEF Control
<1>7. /\ list' = [list EXCEPT ![t] = Adjusted(t, rt[t].node, rt[t].amt)]
      /\ pc'[t] \in {"trav", "ack", "free", "look", "add", "out", "in"}
      /\ wk'[t].segs = wk[t].segs
      /\ Inside(t)' <=> wk[t].ret = "in"
  BY <1>1, <1>2, <1>5, <1>6, ProceedFx
<1>8. Inside(t) <=> wk[t].ret = "in"
  BY <1>1, <1>2 DEF Control, Inside
<1>9. Neat(t)
  <2>1. rt'[t].first = NULL /\ rt'[t].todo = <<>>
    BY <1>1, <1>2, BlankFields
  <2>2. batch' = batch
    BY <1>3
  <2> QED
    BY <1>1, <1>2, <1>5, <1>7, <2>1, <2>2, ProceedNeat
<1> QED
  BY <1>2, <1>3, <1>7, <1>8, <1>9 DEF AdjustRefs

\* traverse drops the reference of a node and goes on to the next.
LEMMA TraverseFx ==
  ASSUME Sound, NEW t \in Tasks, Tidy(t), Traverse(t)
  PROVE  LET g == Head(wk[t].segs)
             r == link[g.cur]
         IN
         /\ UNCHANGED <<clientVars, build, next, link, batch, vec, head, handle, rt>>
         /\ Neat(t) /\ pc[t] = "trav" /\ wk[t].segs # <<>>
         /\ g \in Segment /\ g.cur # NULL
         /\ Inside(t)' <=> Inside(t)
         /\ refs' = [refs EXCEPT ![r] = (@ - 1) % CounterMod]
         /\ list' = [list EXCEPT ![t] = IF LastReference(r) THEN @ \union {r} ELSE @]
         /\ wk'[t].segs = (IF g.cur = g.end THEN Done(g.n + 1)
                           ELSE Walk(next[g.cur], g.end, g.n + 1)) \o Tail(wk[t].segs)
         /\ pc'[t] \in {"trav", "ack", "free", "look", "add", "out", "in", "leave"}
<1> DEFINE w == wk[t]
           g == Head(w.segs)
           r == link[g.cur]
           rest == IF g.cur = g.end THEN Done(g.n + 1)
                   ELSE Walk(next[g.cur], g.end, g.n + 1)
           l == IF LastReference(r) THEN list[t] \union {r} ELSE list[t]
           left == IF LastReference(r) /\ w.left > 0 THEN w.left - 1 ELSE w.left
           flush == w.left = 1 /\ left = 0
           walk == [w EXCEPT !.segs = rest \o Tail(@), !.left = left]
<1>1. /\ HyalineTypeOK /\ SharedTypeOK /\ Control(t) /\ wk[t] \in Walks
      /\ wk \in [Tasks -> Walks] /\ pc \in [Tasks -> PC] /\ FlushLimit \in Nat
      /\ list \in [Tasks -> SUBSET Objs] /\ list[t] \in SUBSET Objs
  BY SoundParts, Fields DEF HyalineTypeOK
<1>2. /\ UNCHANGED <<clientVars, build, head, epochs, next, link, birth, own,
                     held, rd, rt>>
      /\ pc[t] = "trav"
      /\ refs' = [refs EXCEPT ![r] = (@ - 1) % CounterMod]
  BY DEF Traverse
<1>3. /\ w.segs # <<>> /\ g.cur # NULL /\ (w.left > 0 => w.ret = "in")
      /\ w.segs \in Seq(Segment) /\ w.left \in 0 .. FlushLimit
  BY <1>1, <1>2 DEF Control, Walks
<1>4. g \in Segment /\ Tail(w.segs) \in Seq(Segment)
  BY <1>3
<1>5. g.cur \in Objs /\ g.end \in Ptrs /\ g.n + 1 \in Nat
  BY <1>3, <1>4 DEF Segment, Ptrs
<1>6. r \in Objs /\ next[g.cur] \in Ptrs
  BY <1>1, <1>5 DEF SharedTypeOK
<1>8. rest \in Seq(Segment)
  <2>1. Done(g.n + 1) \in Seq(Segment)
    BY <1>5, DoneType
  <2>2. Walk(next[g.cur], g.end, g.n + 1) \in Seq(Segment)
    BY <1>5, <1>6, WalkType
  <2> QED
    BY <2>1, <2>2
<1>9. left \in 0 .. FlushLimit /\ (left > 0 => w.left > 0)
  BY <1>1, <1>3
<1>10. /\ walk \in Walks /\ walk.ret = w.ret /\ walk.left = left
       /\ walk.segs = rest \o Tail(w.segs)
  <2>1. rest \o Tail(w.segs) \in Seq(Segment)
    BY <1>4, <1>8, JoinType
  <2> HIDE DEF rest, left
  <2> QED
    BY <1>1, <1>9, <2>1 DEF Walks
<1>11. l \in SUBSET Objs
  BY <1>1, <1>6
<1>12. Inside(t) <=> w.ret = "in"
  BY <1>2 DEF Inside
<1>13. rt[t].first = NULL /\ rt[t].todo = <<>>
  BY <1>2 DEF Tidy, Retires
<1>14. UNCHANGED <<clientVars, build, next, link, batch, vec, head, handle, rt>>
  BY <1>2 DEF own
<1>15. ASSUME /\ Neat(t) /\ (Inside(t)' <=> Inside(t))
              /\ list' = [list EXCEPT ![t] = l]
              /\ wk'[t].segs = rest \o Tail(w.segs)
              /\ pc'[t] \in {"trav", "ack", "free", "look", "add", "out", "in", "leave"}
       PROVE  /\ UNCHANGED <<clientVars, build, next, link, batch, vec, head, handle, rt>>
              /\ Neat(t) /\ pc[t] = "trav" /\ wk[t].segs # <<>>
              /\ g \in Segment /\ g.cur # NULL
              /\ Inside(t)' <=> Inside(t)
              /\ refs' = [refs EXCEPT ![r] = (@ - 1) % CounterMod]
              /\ list' = [list EXCEPT ![t] = IF LastReference(r) THEN @ \union {r} ELSE @]
              /\ wk'[t].segs = rest \o Tail(wk[t].segs)
              /\ pc'[t] \in {"trav", "ack", "free", "look", "add", "out", "in", "leave"}
  <2>1. list' = [list EXCEPT ![t] = IF LastReference(r) THEN @ \union {r} ELSE @]
    BY <1>1, <1>15
  <2> HIDE DEF r, rest, g, l
  <2> QED
    BY <1>2, <1>3, <1>4, <1>14, <1>15, <2>1
<1>16. CASE Proceed(t, walk, l)
  <2> HIDE DEF walk, l, left, rest
  <2>1. walk.left > 0 => walk.ret = "in"
    BY <1>3, <1>9, <1>10
  <2>2. /\ list' = [list EXCEPT ![t] = l]
        /\ pc'[t] \in {"trav", "ack", "free", "look", "add", "out", "in"}
        /\ wk'[t].segs = walk.segs
        /\ Inside(t)' <=> walk.ret = "in"
    BY <1>1, <1>10, <1>11, <1>16, <2>1, ProceedFx
  <2>3. Neat(t)
    BY <1>1, <1>10, <1>11, <1>13, <1>14, <1>16, ProceedNeat
  <2>4. /\ Neat(t) /\ (Inside(t)' <=> Inside(t))
        /\ list' = [list EXCEPT ![t] = l]
        /\ wk'[t].segs = rest \o Tail(w.segs)
        /\ pc'[t] \in {"trav", "ack", "free", "look", "add", "out", "in", "leave"}
    BY <1>10, <1>12, <2>2, <2>3
  <2> QED
    BY <1>15, <2>4 DEF l, rest
<1>17. CASE /\ flush
            /\ wk' = [wk EXCEPT ![t] = [walk EXCEPT !.ret = "enter"]]
            /\ list' = [list EXCEPT ![t] = l]
            /\ Goto(t, "leave")
  <2> DEFINE x == [walk EXCEPT !.ret = "enter"]
  <2>1. w.left > 0
    BY <1>17
  <2> HIDE DEF walk, l, left, rest
  <2>2. x.segs = walk.segs
    BY <1>10 DEF Walks
  <2> HIDE DEF x
  <2>3. wk' = [wk EXCEPT ![t] = x] /\ pc' = [pc EXCEPT ![t] = "leave"]
        /\ list' = [list EXCEPT ![t] = l]
    BY <1>17 DEF x, Goto
  <2>4. wk'[t] = x /\ pc'[t] = "leave"
    BY <1>1, <2>3
  <2>5. Inside(t) /\ Inside(t)'
    <3>1. Inside(t)
      BY <1>3, <1>12, <2>1
    <3>2. Inside(t)'
      BY <2>4 DEF Inside
    <3> QED
      BY <3>1, <3>2
  <2>6. Neat(t)
    BY <1>1, <1>13, <1>14, <2>3, <2>4 DEF Neat, Tidy, Retires, Walking
  <2>7. /\ Neat(t) /\ (Inside(t)' <=> Inside(t))
        /\ list' = [list EXCEPT ![t] = l]
        /\ wk'[t].segs = rest \o Tail(w.segs)
        /\ pc'[t] \in {"trav", "ack", "free", "look", "add", "out", "in", "leave"}
    BY <1>10, <2>2, <2>3, <2>4, <2>5, <2>6
  <2> QED
    BY <1>15, <2>7 DEF l, rest
<1>18. Proceed(t, walk, l) \/ /\ flush
                              /\ wk' = [wk EXCEPT ![t] = [walk EXCEPT !.ret = "enter"]]
                              /\ list' = [list EXCEPT ![t] = l]
                              /\ Goto(t, "leave")
  BY DEF Traverse
<1> QED
  BY <1>16, <1>17, <1>18

\* The acknowledgement of a walk.
LEMMA AckFx ==
  ASSUME Sound, NEW t \in Tasks, Tidy(t), Ack(t)
  PROVE  /\ Untouched /\ Neat(t) /\ UNCHANGED <<head, handle, list, rt>>
         /\ pc[t] = "ack" /\ wk[t].segs # <<>> /\ Head(wk[t].segs).cur = NULL
         /\ Inside(t)' <=> Inside(t)
         /\ wk'[t].segs = Tail(wk[t].segs)
         /\ pc'[t] \in {"trav", "ack", "free", "look", "add", "out", "in"}
<1>1. /\ HyalineTypeOK /\ Control(t) /\ wk[t] \in Walks
      /\ list \in [Tasks -> SUBSET Objs] /\ list[t] \in SUBSET Objs
      /\ wk[t].segs \in Seq(Segment)
  BY SoundParts, Fields DEF HyalineTypeOK
<1> DEFINE w == [wk[t] EXCEPT !.segs = Tail(@)]
<1>2. /\ UNCHANGED <<clientVars, build, head, nodes, own, rt>>
      /\ pc[t] = "ack" /\ Proceed(t, w, list[t])
  BY DEF Ack
<1>3. Untouched /\ UNCHANGED handle
  BY <1>2 DEF Untouched, own, nodes
<1>4. wk[t].segs # <<>> /\ Head(wk[t].segs).cur = NULL
  BY <1>1, <1>2 DEF Control, Tidy
<1>5. w \in Walks /\ w.ret = wk[t].ret /\ w.left = wk[t].left /\ w.segs = Tail(wk[t].segs)
  <2>1. Tail(wk[t].segs) \in Seq(Segment)
    BY <1>1, <1>4
  <2> QED
    BY <1>1, <2>1 DEF Walks
<1>6. w.left > 0 => w.ret = "in"
  BY <1>1, <1>5 DEF Control
<1> HIDE DEF w
<1>7. /\ list' = [list EXCEPT ![t] = list[t]]
      /\ pc'[t] \in {"trav", "ack", "free", "look", "add", "out", "in"}
      /\ wk'[t].segs = w.segs
      /\ Inside(t)' <=> w.ret = "in"
  BY <1>1, <1>2, <1>5, <1>6, ProceedFx
<1>8. Neat(t)
  <2>1. rt'[t].first = NULL /\ rt'[t].todo = <<>>
    BY <1>2 DEF Tidy, Retires
  <2>2. batch' = batch
    BY <1>3 DEF Untouched
  <2> QED
    BY <1>1, <1>2, <1>5, <2>1, <2>2, ProceedNeat
<1>9. Inside(t) <=> wk[t].ret = "in"
  BY <1>2 DEF Inside
<1>10. list' = list
  BY <1>1, <1>7
<1> QED
  BY <1>2, <1>3, <1>4, <1>5, <1>7, <1>8, <1>9, <1>10

\* free of the batches in the thread's list.
LEMMA FreeFx ==
  ASSUME Sound, NEW t \in Tasks, Tidy(t), FreeList(t)
  PROVE  /\ UNCHANGED <<cell, mine, victim, build, next, link, refs, batch, vec,
                        head, handle, rt>>
         /\ Neat(t) /\ pc[t] = "free"
         /\ status' = [o \in Objs |-> IF o \in Members(list[t]) THEN "free"
                                      ELSE status[o]]
         /\ Inside(t)' <=> Inside(t)
         /\ wk'[t].segs = wk[t].segs /\ wk[t].segs = <<>>
         /\ list' = [list EXCEPT ![t] = {}]
         /\ pc'[t] \in {"trav", "ack", "free", "look", "add", "out", "in"}
<1>1. /\ HyalineTypeOK /\ Control(t) /\ wk[t] \in Walks
      /\ list \in [Tasks -> SUBSET Objs]
  BY SoundParts, Fields DEF HyalineTypeOK
<1>2. /\ UNCHANGED <<mem, own, rt>> /\ Free(Members(list[t]))
      /\ pc[t] = "free" /\ Proceed(t, wk[t], {})
  BY DEF FreeList
<1>3. UNCHANGED <<cell, mine, victim, build, next, link, refs, batch, vec,
                  head, handle, rt>>
  BY <1>2 DEF own, nodes, mem, Free
<1>4. wk[t].segs = <<>> /\ (wk[t].left > 0 => wk[t].ret = "in")
  BY <1>1, <1>2 DEF Control, Tidy
<1>7. /\ list' = [list EXCEPT ![t] = {}]
      /\ pc'[t] \in {"trav", "ack", "free", "look", "add", "out", "in"}
      /\ wk'[t].segs = wk[t].segs
      /\ Inside(t)' <=> wk[t].ret = "in"
  BY <1>1, <1>2, <1>4, ProceedFx
<1>8. Neat(t)
  BY <1>1, <1>2, <1>3, ProceedNeat DEF Tidy, Retires
<1>9. Inside(t) <=> wk[t].ret = "in"
  BY <1>2 DEF Inside
<1> QED
  BY <1>2, <1>3, <1>4, <1>7, <1>8, <1>9 DEF Free

\* trim
LEMMA TrimFx ==
  ASSUME Sound, NEW t \in Tasks, Tidy(t), Trim(t)
  PROVE  LET new == head[vec[t]].ptr
             old == handle[t]
         IN
         /\ Untouched /\ Neat(t) /\ UNCHANGED <<head, list, rt>>
         /\ pc[t] = "in" /\ Inside(t)' /\ wk[t].segs = <<>>
         /\ handle' = [handle EXCEPT ![t] = new]
         /\ wk'[t].segs = IF new = old THEN <<>> ELSE Walk(next[new], old, 0)
         /\ pc'[t] \in {"trav", "ack", "free", "look", "add", "out", "in"}
<1> DEFINE new == head[vec[t]].ptr
           old == handle[t]
           segs == IF new = old THEN <<>> ELSE Walk(next[new], old, 0)
           w == [NoWalk EXCEPT !.segs = segs, !.left = FlushLimit, !.ret = "in"]
<1>1. /\ HyalineTypeOK /\ SharedTypeOK
      /\ vec[t] \in Slots /\ old \in Ptrs /\ NoWalk \in Walks
      /\ FlushLimit \in Nat /\ list \in [Tasks -> SUBSET Objs]
  BY SoundParts, Fields, Blank DEF HyalineTypeOK
<1>2. /\ UNCHANGED <<clientVars, mem, batch, vec, rt>> /\ pc[t] = "in"
      /\ handle' = [handle EXCEPT ![t] = new]
      /\ Proceed(t, w, {})
  BY DEF Trim
<1>3. new \in Ptrs /\ Inside(t)
  BY <1>1, <1>2, HeadType DEF Inside
<1>4. segs \in Seq(Segment)
  <2>1. CASE new # old
    <3>1. new \in Objs
      BY <1>1, <1>3, <2>1 DEF Sound, Anchored, Ptrs
    <3>2. next[new] \in Ptrs
      BY <1>1, <3>1 DEF SharedTypeOK
    <3> QED
      BY <1>1, <2>1, <3>2, WalkType
  <2> QED
    BY <2>1
<1>5. w \in Walks /\ w.ret = "in" /\ w.segs = segs
  <2> HIDE DEF segs
  <2>1. w = [curr |-> NULL, next |-> NULL, segs |-> segs, left |-> FlushLimit,
             ret |-> "in"]
    BY TrimWalk
  <2>2. FlushLimit \in 0 .. FlushLimit /\ NULL \in Ptrs
    BY <1>1 DEF Ptrs
  <2> QED
    BY <1>4, <2>1, <2>2 DEF Walks
<1> HIDE DEF w
<1>6. Untouched /\ UNCHANGED head
  BY <1>2 DEF Untouched, mem, nodes
<1>7. /\ list' = [list EXCEPT ![t] = {}]
      /\ pc'[t] \in {"trav", "ack", "free", "look", "add", "out", "in"}
      /\ wk'[t].segs = w.segs
      /\ Inside(t)' <=> w.ret = "in"
  BY <1>1, <1>2, <1>5, ProceedFx
<1>8. Neat(t)
  <2>1. rt'[t].first = NULL /\ rt'[t].todo = <<>>
    BY <1>2 DEF Tidy, Retires
  <2>2. batch' = batch
    BY <1>2
  <2> QED
    BY <1>1, <1>2, <1>5, <2>1, <2>2, ProceedNeat
<1>9. list' = list /\ wk[t].segs = <<>>
  BY <1>1, <1>2, <1>7 DEF Tidy, Walking
<1> QED
  BY <1>2, <1>5, <1>6, <1>7, <1>8, <1>9

-----------------------------------------------------------------------------
(***************************************************************************)
(* The nodes of a list from one node up to another.                        *)
(***************************************************************************)

\* A set of numbers with zero, and with the next number up to c, has them all.
LEMMA Upwards ==
  ASSUME NEW c \in Nat, NEW S, 0 \in S, \A k \in 0 .. c - 1 : k \in S => k + 1 \in S
  PROVE  0 .. c \subseteq S
<1> DEFINE T == (0 .. c) \ S
<1>1. SUFFICES ASSUME T # {} PROVE FALSE
  OBVIOUS
<1>2. T \subseteq Nat
  OBVIOUS
<1>3. PICK k \in T : \A j \in T : ~ (<<j, k>> \in OpToRel(<, Nat))
  <2> HIDE DEF T
  <2> QED
    BY <1>1, <1>2, NatLessThanWellFounded, WFMin
<1>4. k \in Nat /\ k # 0 /\ k <= c /\ k \notin S
  OBVIOUS
<1>5. k - 1 \in 0 .. c - 1 /\ k - 1 \notin S
  BY <1>4
<1>6. k - 1 \in T
  BY <1>5
<1>7. <<k - 1, k>> \in OpToRel(<, Nat)
  BY <1>4 DEF OpToRel
<1> QED
  BY <1>3, <1>6, <1>7

\* What a list leads to, one step further than S.
Further(f, e, S) == S \union ({f[m] : m \in S \ {e}} \ {NULL})

\* The sets that Trail passes through.
LEMMA TrailSteps ==
  ASSUME IsFiniteSet(Objs), NEW f \in [Objs -> Ptrs], NEW n \in Ptrs, NEW e
  PROVE  \E g : /\ g[0] = {n} \ {NULL}
                /\ \A k \in 1 .. Cardinality(Objs) : g[k] = Further(f, e, g[k - 1])
                /\ Trail(f, n, e) = g[Cardinality(Objs)]
<1> DEFINE C == Cardinality(Objs)
           Step(g, k) == IF k = 0 THEN {n} \ {NULL} ELSE Further(f, e, g[k - 1])
           Upto == {k \in 0 .. C : \E g : g = [i \in 0 .. k |-> Step(g, i)]}
<1>1. C \in Nat
  BY FS_CardinalityType
<1>2. 0 \in Upto
  <2> DEFINE g == [i \in 0 .. 0 |-> {n} \ {NULL}]
  <2>1. g = [i \in 0 .. 0 |-> Step(g, i)]
    OBVIOUS
  <2>2. \E h : h = [i \in 0 .. 0 |-> Step(h, i)]
    BY <2>1
  <2>3. 0 \in 0 .. C
    BY <1>1
  <2> QED
    BY <2>2, <2>3
<1>3. ASSUME NEW k \in 0 .. C - 1, k \in Upto PROVE k + 1 \in Upto
  <2>1. \E g : g = [i \in 0 .. k |-> Step(g, i)]
    BY <1>3
  <2>0. PICK g : g = [i \in 0 .. k |-> Step(g, i)]
    BY <2>1
  <2> DEFINE h == [i \in 0 .. k + 1 |-> IF i = k + 1 THEN Further(f, e, g[k]) ELSE g[i]]
  <2>2. \A i \in 0 .. k : h[i] = g[i] /\ g[i] = Step(g, i)
    <3>1. \A i \in 0 .. k : g[i] = Step(g, i)
      BY <2>0
    <3>2. ASSUME NEW i \in 0 .. k PROVE h[i] = g[i]
      BY <1>1
    <3> QED
      BY <3>1, <3>2
  <2>3. ASSUME NEW i \in 0 .. k + 1 PROVE h[i] = Step(h, i)
    <3>1. CASE i = k + 1
      BY <3>1, <2>2, <1>1
    <3>2. CASE i # k + 1
      <4>1. i \in 0 .. k /\ (i # 0 => i - 1 \in 0 .. k)
        BY <3>2, <1>1
      <4>2. h[i] = Step(g, i)
        BY <4>1, <2>2
      <4>3. i # 0 => h[i - 1] = g[i - 1]
        BY <4>1, <2>2
      <4> HIDE DEF h
      <4> QED
        BY <4>1, <4>2, <4>3
    <3> QED
      BY <3>1, <3>2
  <2>4. h = [i \in 0 .. k + 1 |-> Step(h, i)]
    BY <2>3
  <2>5. k + 1 \in 0 .. C
    BY <1>1
  <2> QED
    BY <2>4, <2>5
<1>4. C \in Upto
  <2> HIDE DEF C, Upto
  <2> QED
    BY <1>1, <1>2, <1>3, Upwards
<1> DEFINE F == CHOOSE g : g = [i \in 0 .. C |-> Step(g, i)]
<1>5. F = [i \in 0 .. C |-> Step(F, i)]
  BY <1>4
<1>6. Trail(f, n, e) = F[C]
  BY DEF Trail, Further
<1>7. /\ F[0] = {n} \ {NULL}
      /\ \A k \in 1 .. C : F[k] = Further(f, e, F[k - 1])
  <2> HIDE DEF F
  <2>1. \A i \in 0 .. C : F[i] = Step(F, i)
    BY <1>5
  <2> QED
    BY <2>1, <1>1
<1> QED
  BY <1>6, <1>7

\* f leads out of S only at e.
Shut(f, e, S) == \A m \in S \ {e} : f[m] \in S \union {NULL}

\* Trail is the least set with its start that f leads out of only at its end.
LEMMA TrailLeast ==
  ASSUME IsFiniteSet(Objs), NEW f \in [Objs -> Ptrs], NEW n \in Ptrs, NEW e
  PROVE  /\ Trail(f, n, e) \subseteq Objs
         /\ n # NULL => n \in Trail(f, n, e)
         /\ Shut(f, e, Trail(f, n, e))
         /\ \A S \in SUBSET Objs : n \in S \union {NULL} /\ Shut(f, e, S)
               => Trail(f, n, e) \subseteq S
<1> DEFINE C == Cardinality(Objs)
<1>1. PICK g : /\ g[0] = {n} \ {NULL}
               /\ \A k \in 1 .. C : g[k] = Further(f, e, g[k - 1])
               /\ Trail(f, n, e) = g[C]
  BY TrailSteps
<1>2. C \in Nat
  BY FS_CardinalityType
<1> DEFINE Below(X) == \A S \in SUBSET Objs : n \in S \union {NULL} /\ Shut(f, e, S) => X \subseteq S
           Known == {k \in 0 .. C : /\ g[k] \subseteq Objs
                                    /\ n # NULL => n \in g[k]
                                    /\ Below(g[k])
                                    /\ Shut(f, e, g[k]) \/ Cardinality(g[k]) >= k + 1}
<1>3. 0 \in Known
  <2>1. g[0] \subseteq Objs /\ (n # NULL => n \in g[0]) /\ Below(g[0])
    BY <1>1 DEF Ptrs
  <2>2. Shut(f, e, g[0]) \/ Cardinality(g[0]) >= 0 + 1
    <3>1. CASE n = NULL
      BY <3>1, <1>1 DEF Shut
    <3>2. CASE n # NULL
      <4>1. g[0] = {n}
        BY <3>2, <1>1
      <4>2. Cardinality({n}) = 1
        BY FS_Singleton
      <4>3. Cardinality(g[0]) >= 0 + 1
        BY <4>1, <4>2
      <4> QED
        BY <4>3
    <3> QED
      BY <3>1, <3>2
  <2>3. 0 \in 0 .. C
    BY <1>2
  <2> QED
    BY <2>1, <2>2, <2>3
<1>4. ASSUME NEW k \in 0 .. C - 1, k \in Known PROVE k + 1 \in Known
  <2>0. k + 1 \in 1 .. C /\ k + 1 \in 0 .. C /\ (k + 1) - 1 = k /\ k \in Nat
    BY <1>2
  <2>1. g[k + 1] = Further(f, e, g[k])
    BY <1>1, <2>0
  <2>2. /\ g[k] \subseteq Objs /\ (n # NULL => n \in g[k]) /\ Below(g[k])
        /\ Shut(f, e, g[k]) \/ Cardinality(g[k]) >= k + 1
    BY <1>4
  <2>3. g[k + 1] \subseteq Objs /\ (n # NULL => n \in g[k + 1]) /\ g[k] \subseteq g[k + 1]
    BY <2>1, <2>2 DEF Further, Ptrs
  <2>4. Below(g[k + 1])
    <3>1. ASSUME NEW S \in SUBSET Objs, n \in S \union {NULL}, Shut(f, e, S),
                 NEW m \in g[k + 1]
          PROVE  m \in S
      BY <2>1, <2>2, <3>1 DEF Further, Shut
    <3> QED
      BY <3>1
  <2>5. Shut(f, e, g[k + 1]) \/ Cardinality(g[k + 1]) >= (k + 1) + 1
    <3>1. CASE Shut(f, e, g[k])
      BY <2>1, <3>1 DEF Further, Shut
    <3>2. CASE ~Shut(f, e, g[k])
      <4>1. PICK m \in g[k] \ {e} : f[m] \notin g[k] \union {NULL}
        BY <3>2 DEF Shut
      <4>2. f[m] \in g[k + 1] /\ f[m] \notin g[k]
        BY <4>1, <2>1 DEF Further
      <4>3. IsFiniteSet(g[k + 1]) /\ IsFiniteSet(g[k])
        BY <2>2, <2>3, FS_Subset
      <4>4. /\ Cardinality(g[k]) \in Nat /\ Cardinality(g[k + 1]) \in Nat
            /\ Cardinality(g[k]) <= Cardinality(g[k + 1])
            /\ Cardinality(g[k + 1]) # Cardinality(g[k])
        BY <4>2, <4>3, <2>3, FS_Subset, FS_CardinalityType
      <4>5. Cardinality(g[k]) >= k + 1
        BY <2>2, <3>2
      <4> QED
        BY <4>4, <4>5, <2>0
    <3> QED
      BY <3>1, <3>2
  <2> HIDE DEF Below
  <2> QED
    BY <2>0, <2>3, <2>4, <2>5
<1>5. C \in Known
  <2> HIDE DEF C, Known
  <2> QED
    BY <1>2, <1>3, <1>4, Upwards
<1>6. /\ g[C] \subseteq Objs /\ (n # NULL => n \in g[C]) /\ Below(g[C])
      /\ Shut(f, e, g[C]) \/ Cardinality(g[C]) >= C + 1
  BY <1>5
<1>7. Shut(f, e, g[C])
  BY <1>2, <1>6, FS_Subset, FS_CardinalityType
<1> QED
  BY <1>1, <1>6, <1>7

\* A list of nothing is empty.
LEMMA TrailNull ==
  ASSUME IsFiniteSet(Objs), NEW f \in [Objs -> Ptrs], NEW e
  PROVE  Trail(f, NULL, e) = {}
<1>1. Shut(f, e, {})
  BY DEF Shut
<1>2. NULL \in Ptrs
  BY DEF Ptrs
<1>4. NULL \in {} \union {NULL} /\ {} \in SUBSET Objs
  OBVIOUS
<1>3. Trail(f, NULL, e) \subseteq {}
  BY <1>1, <1>2, <1>4, TrailLeast
<1> QED
  BY <1>3

\* Links that lead out of other nodes do not matter.
LEMMA TrailFrame ==
  ASSUME IsFiniteSet(Objs), NEW f \in [Objs -> Ptrs], NEW g \in [Objs -> Ptrs],
         NEW n \in Ptrs, NEW e, \A m \in Trail(f, n, e) \ {e} : g[m] = f[m]
  PROVE  Trail(g, n, e) = Trail(f, n, e)
<1> DEFINE S == Trail(f, n, e)
           T == Trail(g, n, e)
<1>1. /\ S \subseteq Objs /\ n \in S \union {NULL} /\ Shut(f, e, S)
      /\ T \subseteq Objs /\ n \in T \union {NULL} /\ Shut(g, e, T)
  BY TrailLeast
<1>2. T \subseteq S
  BY <1>1, TrailLeast DEF Shut
<1>3. Shut(f, e, T)
  <2>1. ASSUME NEW m \in T \ {e} PROVE f[m] \in T \union {NULL}
    BY <1>1, <1>2 DEF Shut
  <2> QED
    BY <2>1 DEF Shut
<1>4. S \subseteq T
  BY <1>1, <1>3, TrailLeast
<1> QED
  BY <1>2, <1>4

\* The first node of a list and the rest of it.
LEMMA TrailSplit ==
  ASSUME IsFiniteSet(Objs), NEW f \in [Objs -> Ptrs], NEW n \in Objs, NEW e
  PROVE  /\ n = e => Trail(f, n, e) = {n}
         /\ n # e => Trail(f, n, e) = {n} \union Trail(f, f[n], e)
<1>0. n \in Ptrs /\ f[n] \in Ptrs /\ n # NULL
  BY DEF Ptrs
<1>1. CASE n = e
  <2>1. Shut(f, e, {n}) /\ {n} \in SUBSET Objs
    BY <1>1 DEF Shut
  <2> QED
    BY <1>0, <1>1, <2>1, TrailLeast
<1>2. CASE n # e
  <2> DEFINE S == Trail(f, n, e)
             T == Trail(f, f[n], e)
  <2>1. /\ S \subseteq Objs /\ n \in S /\ Shut(f, e, S)
        /\ T \subseteq Objs /\ f[n] \in T \union {NULL} /\ Shut(f, e, T)
    BY <1>0, TrailLeast
  <2>2. Shut(f, e, {n} \union T)
    BY <2>1 DEF Shut
  <2>3. S \subseteq {n} \union T
    BY <1>0, <2>1, <2>2, TrailLeast
  <2>4. f[n] \in S \union {NULL}
    BY <2>1, <1>2 DEF Shut
  <2>5. T \subseteq S
    BY <1>0, <2>1, <2>4, TrailLeast
  <2> QED
    BY <1>2, <2>1, <2>3, <2>5
<1> QED
  BY <1>1, <1>2

\* A list that runs straight: nothing leads back to its start, and no two nodes
\* lead to the same one.
Straight(f, n, e) ==
    LET S == Trail(f, n, e) \ {e}
    IN  /\ \A m \in S : f[m] # n
        /\ \A m, k \in S : f[m] = f[k] /\ f[m] # NULL => m = k

\* A change off the trail leaves it straight.
LEMMA StraightFrame ==
  ASSUME IsFiniteSet(Objs), NEW f \in [Objs -> Ptrs], NEW g \in [Objs -> Ptrs],
         NEW n \in Ptrs, NEW e, \A m \in Trail(f, n, e) \ {e} : g[m] = f[m],
         Straight(f, n, e)
  PROVE  Straight(g, n, e)
<1>1. Trail(g, n, e) = Trail(f, n, e)
  BY TrailFrame
<1> QED
  BY <1>1 DEF Straight

\* The empty list is straight.
LEMMA StraightNull ==
  ASSUME IsFiniteSet(Objs), NEW f \in [Objs -> Ptrs], NEW e
  PROVE  Straight(f, NULL, e)
BY TrailNull DEF Straight

\* What is left of a straight list after its first node.
LEMMA TrailPop ==
  ASSUME IsFiniteSet(Objs), NEW f \in [Objs -> Ptrs], NEW n \in Objs, NEW e,
         n # e, Straight(f, n, e)
  PROVE  /\ Trail(f, f[n], e) = Trail(f, n, e) \ {n}
         /\ n \in Trail(f, n, e)
         /\ Straight(f, f[n], e)
<1> DEFINE S == Trail(f, n, e)
           T == Trail(f, f[n], e)
<1>0. n \in Ptrs /\ f[n] \in Ptrs /\ n # NULL
  BY DEF Ptrs
<1>1. /\ S = {n} \union T /\ T \subseteq Objs /\ f[n] \in T \union {NULL}
      /\ Shut(f, e, T)
  BY <1>0, TrailSplit, TrailLeast
<1>2. /\ \A m \in S \ {e} : f[m] # n
      /\ \A m, k \in S \ {e} : f[m] = f[k] /\ f[m] # NULL => m = k
  BY DEF Straight
<1>3. n \notin T
  <2>1. Shut(f, e, T \ {n})
    <3>1. ASSUME NEW m \in (T \ {n}) \ {e} PROVE f[m] \in (T \ {n}) \union {NULL}
      <4>1. f[m] \in T \union {NULL}
        BY <1>1 DEF Shut
      <4>2. m \in S \ {e}
        BY <1>1
      <4>3. f[m] # n
        BY <4>2, <1>2
      <4> QED
        BY <4>1, <4>3
    <3> QED
      BY <3>1 DEF Shut
  <2>2. f[n] # n
    BY <1>1, <1>2
  <2>3. f[n] \in (T \ {n}) \union {NULL} /\ T \ {n} \in SUBSET Objs
    BY <1>1, <2>2
  <2>4. T \subseteq T \ {n}
    BY <1>0, <2>1, <2>3, TrailLeast
  <2> QED
    BY <2>4
<1>4. Straight(f, f[n], e)
  <2>1. ASSUME NEW m \in T \ {e}, f[m] = f[n] PROVE FALSE
    <3>1. m \in S \ {e} /\ n \in S \ {e} /\ m # n
      BY <1>1, <1>3
    <3>2. CASE f[n] = NULL
      BY <3>2, TrailNull
    <3>3. CASE f[n] # NULL
      BY <3>1, <3>3, <2>1, <1>2
    <3> QED
      BY <3>2, <3>3
  <2>2. \A m, k \in T \ {e} : f[m] = f[k] /\ f[m] # NULL => m = k
    BY <1>1, <1>2
  <2> QED
    BY <2>1, <2>2 DEF Straight
<1> QED
  BY <1>1, <1>3, <1>4

\* A node in front of a straight list, that is in no list.
LEMMA TrailPush ==
  ASSUME IsFiniteSet(Objs), NEW f \in [Objs -> Ptrs], NEW n \in Objs, NEW h \in Ptrs,
         NEW e, n # e, n \notin Trail(f, h, e), Straight(f, h, e),
         NEW g \in [Objs -> Ptrs], g[n] = h, \A m \in Objs \ {n} : g[m] = f[m]
  PROVE  /\ Trail(g, n, e) = {n} \union Trail(f, h, e)
         /\ Straight(g, n, e)
<1> DEFINE T == Trail(f, h, e)
<1>1. g \in [Objs -> Ptrs] /\ g[n] = h /\ \A m \in Objs \ {n} : g[m] = f[m]
  OBVIOUS
<1>2. T \subseteq Objs /\ h \in T \union {NULL} /\ Shut(f, e, T)
  BY TrailLeast
<1>3. Trail(g, h, e) = T
  BY <1>1, <1>2, TrailFrame
<1>4. Trail(g, n, e) = {n} \union T
  BY <1>1, <1>3, TrailSplit
<1>5. Straight(g, n, e)
  <2>0. n # NULL
    OBVIOUS
  <2>1. \A m \in T \ {e} : f[m] \in T \union {NULL} /\ g[m] = f[m] /\ f[m] # h /\ m # n
    BY <1>1, <1>2 DEF Shut, Straight
  <2>2. h # n
    BY <1>2, <2>0
  <2>3. \A m, k \in T \ {e} : f[m] = f[k] /\ f[m] # NULL => m = k
    BY DEF Straight
  <2>4. \A m \in ({n} \union T) \ {e} : g[m] # n
    BY <2>0, <2>1, <2>2, <1>1
  <2>5. ASSUME NEW m \in ({n} \union T) \ {e}, NEW k \in ({n} \union T) \ {e},
               g[m] = g[k], g[m] # NULL
        PROVE  m = k
    BY <2>5, <2>1, <2>3, <1>1
  <2> QED
    BY <1>4, <2>4, <2>5 DEF Straight
<1> QED
  BY <1>1, <1>4, <1>5

-----------------------------------------------------------------------------
(***************************************************************************)
(* Counting pairs of a thread and something that belongs to it.            *)
(***************************************************************************)

\* The tokens of the sets F, marked with their owners.
Tokens(I, F) == UNION {{u} \X F[u] : u \in I}

\* The pairs are finitely many.
LEMMA TokensFinite ==
  ASSUME NEW I, IsFiniteSet(I), NEW U, IsFiniteSet(U), NEW F \in [I -> SUBSET U]
  PROVE  /\ IsFiniteSet(Tokens(I, F)) /\ Cardinality(Tokens(I, F)) \in Nat
         /\ Tokens(I, F) \in SUBSET (I \X U)
<1>1. Tokens(I, F) \in SUBSET (I \X U)
  BY DEF Tokens
<1>2. IsFiniteSet(I \X U)
  BY FS_Product
<1>3. IsFiniteSet(Tokens(I, F))
  BY <1>1, <1>2, FS_Subset
<1> QED
  BY <1>1, <1>3, FS_CardinalityType

\* The tokens of one owner.
LEMMA TokensOne ==
  ASSUME NEW I, IsFiniteSet(I), NEW U, IsFiniteSet(U), NEW F \in [I -> SUBSET U],
         NEW t \in I
  PROVE  /\ IsFiniteSet(F[t]) /\ Cardinality(F[t]) \in Nat
         /\ IsFiniteSet(Tokens(I \ {t}, F)) /\ Cardinality(Tokens(I \ {t}, F)) \in Nat
         /\ Cardinality(Tokens(I, F)) = Cardinality(Tokens(I \ {t}, F)) + Cardinality(F[t])
<1> DEFINE A == Tokens(I \ {t}, F)
           B == {t} \X F[t]
<1>1. IsFiniteSet(F[t]) /\ Cardinality(F[t]) \in Nat
  BY FS_Subset, FS_CardinalityType
<1>2. Tokens(I, F) = A \union B /\ A \intersect B = {}
  BY DEF Tokens
<1>3. IsFiniteSet(Tokens(I, F)) /\ A \in SUBSET Tokens(I, F) /\ B \in SUBSET Tokens(I, F)
  BY <1>2, TokensFinite
<1>4. IsFiniteSet(A) /\ Cardinality(A) \in Nat /\ IsFiniteSet(B)
  BY <1>3, FS_Subset, FS_CardinalityType
<1>5. Cardinality(B) = Cardinality(F[t])
  <2>1. IsFiniteSet({t}) /\ Cardinality({t}) = 1
    BY FS_Singleton
  <2>2. Cardinality(B) = 1 * Cardinality(F[t])
    BY <1>1, <2>1, FS_Product
  <2> QED
    BY <1>1, <2>2
<1>6. Cardinality(A \union B) = Cardinality(A) + Cardinality(B) - Cardinality(A \intersect B)
  BY <1>4, FS_Union
<1>7. Cardinality(A \intersect B) = 0
  BY <1>2, FS_EmptySet
<1> HIDE DEF A, B
<1>8. Cardinality(A \union B) = Cardinality(A) + Cardinality(F[t])
  BY <1>1, <1>4, <1>5, <1>6, <1>7
<1> QED
  BY <1>1, <1>2, <1>4, <1>8 DEF A

\* What changes with the tokens of one owner.
LEMMA TokensChange ==
  ASSUME NEW I, IsFiniteSet(I), NEW U, IsFiniteSet(U), NEW F \in [I -> SUBSET U],
         NEW G \in [I -> SUBSET U], NEW t \in I, \A u \in I \ {t} : G[u] = F[u]
  PROVE  Cardinality(Tokens(I, G)) - Cardinality(Tokens(I, F))
           = Cardinality(G[t]) - Cardinality(F[t])
<1>1. Tokens(I \ {t}, G) = Tokens(I \ {t}, F)
  BY DEF Tokens
<1>2. /\ Cardinality(G[t]) \in Nat /\ Cardinality(Tokens(I \ {t}, G)) \in Nat
      /\ Cardinality(Tokens(I, G)) = Cardinality(Tokens(I \ {t}, G)) + Cardinality(G[t])
  BY TokensOne
<1>3. /\ Cardinality(F[t]) \in Nat /\ Cardinality(Tokens(I \ {t}, F)) \in Nat
      /\ Cardinality(Tokens(I, F)) = Cardinality(Tokens(I \ {t}, F)) + Cardinality(F[t])
  BY TokensOne
<1> QED
  BY <1>1, <1>2, <1>3

\* There is no pair exactly when every set is empty.
LEMMA TokensNone ==
  ASSUME NEW I, IsFiniteSet(I), NEW U, IsFiniteSet(U), NEW F \in [I -> SUBSET U]
  PROVE  Cardinality(Tokens(I, F)) = 0 <=> \A u \in I : F[u] = {}
<1>1. Cardinality(Tokens(I, F)) = 0 <=> Tokens(I, F) = {}
  BY TokensFinite, FS_EmptySet
<1>2. ASSUME Tokens(I, F) = {}, NEW u \in I PROVE F[u] = {}
  <2>1. ASSUME NEW x \in F[u] PROVE FALSE
    <3>1. <<u, x>> \in {u} \X F[u]
      OBVIOUS
    <3>2. <<u, x>> \in Tokens(I, F)
      BY <3>1 DEF Tokens
    <3> QED
      BY <1>2, <3>2
  <2> QED
    BY <2>1
<1>3. ASSUME \A u \in I : F[u] = {} PROVE Tokens(I, F) = {}
  BY <1>3 DEF Tokens
<1> QED
  BY <1>1, <1>2, <1>3

\* Only one owner has tokens.
LEMMA TokensSole ==
  ASSUME NEW I, IsFiniteSet(I), NEW U, IsFiniteSet(U), NEW F \in [I -> SUBSET U],
         NEW t \in I, \A u \in I \ {t} : F[u] = {}
  PROVE  Cardinality(Tokens(I, F)) = Cardinality(F[t])
<1>1. Tokens(I \ {t}, F) = {}
  BY DEF Tokens
<1>2. /\ Cardinality(F[t]) \in Nat
      /\ Cardinality(Tokens(I, F)) = Cardinality(Tokens(I \ {t}, F)) + Cardinality(F[t])
  BY TokensOne
<1>3. Cardinality(Tokens(I \ {t}, F)) = 0
  BY <1>1, FS_EmptySet
<1> QED
  BY <1>2, <1>3

\* Sets of marked tokens with the same mark.
LEMMA Marked ==
  ASSUME NEW S, IsFiniteSet(S), NEW x
  PROVE  /\ IsFiniteSet(S \X {x}) /\ Cardinality(S \X {x}) = Cardinality(S)
<1>1. IsFiniteSet({x}) /\ Cardinality({x}) = 1 /\ Cardinality(S) \in Nat
  BY FS_Singleton, FS_CardinalityType
<1>2. IsFiniteSet(S \X {x}) /\ Cardinality(S \X {x}) = Cardinality(S) * 1
  BY <1>1, FS_Product
<1> QED
  BY <1>1, <1>2

\* The number of members of a union of two sets that do not meet.
LEMMA Disjoint ==
  ASSUME NEW S, NEW T, IsFiniteSet(S), IsFiniteSet(T), S \intersect T = {}
  PROVE  /\ IsFiniteSet(S \union T)
         /\ Cardinality(S) \in Nat /\ Cardinality(T) \in Nat
         /\ Cardinality(S \union T) = Cardinality(S) + Cardinality(T)
<1>1. /\ IsFiniteSet(S \union T)
      /\ Cardinality(S \union T) = Cardinality(S) + Cardinality(T) - Cardinality(S \intersect T)
  BY FS_Union
<1>2. Cardinality(S \intersect T) = 0
  BY FS_EmptySet
<1>3. Cardinality(S) \in Nat /\ Cardinality(T) \in Nat
  BY FS_CardinalityType
<1> QED
  BY <1>1, <1>2, <1>3

\* As many things as a one-to-one function tells apart.
LEMMA OneToOne ==
  ASSUME NEW S, NEW T, IsFiniteSet(T), NEW f \in [S -> T],
         \A x, y \in S : f[x] = f[y] => x = y
  PROVE  IsFiniteSet(S) /\ Cardinality(S) <= Cardinality(T)
<1>1. f \in Injection(S, T)
  BY DEF Injection, IsInjective
<1> QED
  BY <1>1, FS_Injection

-----------------------------------------------------------------------------
(***************************************************************************)
(* The inductive invariant: what a thread has to walk, where the nodes     *)
(* are, what the counters count.                                           *)
(***************************************************************************)

\* The nodes of the segments S, which are straight and have no nodes in common,
\* nor with X.
Rest(f, S) == UNION {Trail(f, S[i].cur, S[i].end) : i \in DOMAIN S}
Laid(f, S, X) ==
    /\ \A i \in DOMAIN S : /\ Straight(f, S[i].cur, S[i].end)
                           /\ Trail(f, S[i].cur, S[i].end) \intersect X = {}
    /\ \A i, j \in DOMAIN S :
          Trail(f, S[i].cur, S[i].end) \intersect Trail(f, S[j].cur, S[j].end) # {}
             => i = j

\* What a thread has still to walk.
Paths(t) ==
    /\ Inside(t) => /\ Straight(next, head[vec[t]].ptr, handle[t])
                    /\ handle[t] \in Line(t) \union {NULL}
    /\ Laid(next, wk[t].segs, ToDrop(t))
    /\ pc[t] = "lv_cas" =>
          /\ wk[t].curr \in Line(t) \union {NULL}
          /\ wk[t].next = IF wk[t].curr = handle[t] THEN NULL ELSE next[wk[t].curr]

\* The nodes at the heads, and those that were and whose adjustment is due.
Tops == {head[s].ptr : s \in Slots} \ {NULL}
Due(t) == pc[t] \in {"rt_adj", "lv_adj"}
Buried == {rt[t].node : t \in {u \in Tasks : Due(u)}}
AllOwed == UNION {Owed(t) : t \in Tasks}
InPlay == AllOwed \union Tops \union Buried
Debtors(n) == {t \in Tasks : n \in Owed(t)}
LateBy(t) == (rt[t].amt - Addend) % CounterMod

Places ==
    /\ \A s, z \in Slots : head[s].ptr = head[z].ptr /\ head[s].ptr # NULL => s = z
    /\ build.words = 2 =>
          /\ Tops \intersect (AllOwed \union Buried) = {}
          /\ \A t, u \in Tasks : Due(t) /\ Due(u) /\ rt[t].node = rt[u].node => t = u
          /\ \A t \in Tasks, n \in Objs : Due(t) /\ rt[t].node = n =>
                Cardinality(Debtors(n)) <= LateBy(t) /\ LateBy(t) <= TaskNum
    /\ build.words = 1 =>
          /\ \A t, u \in Tasks : Owed(t) \intersect Owed(u) # {} => t = u
          /\ \A s \in Slots : head[s].ref = 0 => head[s].ptr = NULL

\* The last nodes of the batches.
Growing(t) == IF batch[t] = <<>> THEN {} ELSE {batch[t][Len(batch[t])]}
Ending(t) == IF Retiring(t) # NULL THEN {Retiring(t)}
             ELSE IF pc[t] = "rt_fin" THEN {link[rt[t].node]} ELSE {}
Lasts == {link[n] : n \in InPlay}
         \union UNION {list[t] \union Growing(t) \union Ending(t) : t \in Tasks}
Nodes(r) == {n \in InPlay : link[n] = r}

\* The nodes that the thread collects, or has still to push.
Pushed(t) == IF pc[t] \in {"rt_adj", "rt_count"} THEN 1 ELSE 0
Fresh(t) == {batch[t][i] : i \in DOMAIN batch[t]}
            \union {rt[t].todo[i] : i \in {j \in DOMAIN rt[t].todo : j > Pushed(t)}}

\* A batch that grows.
Grows(t) ==
    /\ Len(batch[t]) < SMRBatch
    /\ \A i \in DOMAIN batch[t] :
          status[batch[t][i]] = "retired" /\ {link[batch[t][i]]} = Growing(t)
    /\ \A i, j \in DOMAIN batch[t] : batch[t][i] = batch[t][j] => i = j
    /\ \A r \in Growing(t) : Nodes(r) = {} /\ Active(r) = {}
                             /\ \A u \in Tasks : u # t => r \notin Growing(u)

\* A batch that is pushed.
Pushes(t) ==
    /\ Len(rt[t].todo) <= SMRBatch
    /\ \A i, j \in DOMAIN rt[t].todo : rt[t].todo[i] = rt[t].todo[j] => i = j
    /\ \A i \in DOMAIN rt[t].todo :
          /\ status[rt[t].todo[i]] = "retired"
          /\ IF i = Len(rt[t].todo) THEN rt[t].todo[i] = Retiring(t)
             ELSE link[rt[t].todo[i]] = Retiring(t)
    /\ rt[t].first # NULL => link[link[rt[t].first]] = rt[t].first
    /\ pc[t] = "rt_fin" => link[link[rt[t].node]] = rt[t].node

\* The batches that a thread is about to free.
Queued(t) ==
    \A r \in list[t] :
        /\ Nodes(r) = {} /\ Active(r) = {}
        /\ \A u \in Tasks : r \notin Growing(u) /\ (u # t => r \notin list[u])

BatchesApart ==
    /\ \A r \in Lasts :
          /\ status[r] = "retired" /\ status[link[r]] = "retired"
          /\ link[link[r]] = r
          /\ link[r] \in Lasts => link[r] = r
          /\ link[r] = r => \E t \in Tasks : r \in Growing(t)
    /\ \A n \in InPlay : status[n] = "retired" /\ n \notin Lasts
    /\ \A t \in Tasks : Fresh(t) \intersect InPlay = {}
    /\ \A r \in Objs : \A t, u \in Active(r) : t = u

Skips(t) == at[t] + Len(rt[t].todo) - SMRBatch
Amounts(t) ==
    /\ pc[t] \in {"rt_access", "rt_load", "rt_cas", "rt_adj", "rt_count"} =>
          IF build.words = 2
          THEN /\ rt[t].adjs = (Skips(t) * Addend) % CounterMod
               /\ rt[t].skipped <=> Skips(t) > 0
          ELSE /\ rt[t].adjs = SMRBatch - Len(rt[t].todo)
               /\ rt[t].adjs <= TaskNum
    /\ pc[t] = "rt_fin" =>
          IF build.words = 2
          THEN \E k \in 1 .. NumSlots : rt[t].amt = (k * Addend) % CounterMod
          ELSE rt[t].amt <= TaskNum
    /\ pc[t] \in {"lv_clear", "lv_adj"} => rt[t].amt = Addend

Unadded(r) == Cardinality(UNION {{t} \X Lacking(t) : t \in Active(r)})
Room ==
    \A r \in Lasts :
        IF build.words = 2 THEN Unadded(r) + Cardinality(Nodes(r)) <= NumSlots
        ELSE /\ Cardinality(Debts(r)) <= TaskNum
             /\ Active(r) # {} => Cardinality(Debts(r)) <= Cardinality(Late(r))

Counted ==
    \A r \in Lasts :
        refs[r] = (Cardinality(Debts(r)) - Cardinality(Late(r))
                   - IF build.words = 1 THEN 0 ELSE Addend * Missing(r)) % CounterMod

\* retire has a reference of its own to its batch, or an adjustment to make.
Holds(t) ==
    /\ build.words = 2
    /\ \/ pc[t] \in {"rt_access", "rt_load", "rt_cas"} /\ vec[t] < at[t]
       \/ pc[t] \in {"rt_adj", "rt_count"} /\ vec[t] <= at[t]
    => \/ Skips(t) > 0
       \/ \E n \in Owed(t) \union {head[vec[t]].ptr} : n # NULL /\ link[n] = Retiring(t)

\* The list of a slot that was left empty will be taken.
Emptied ==
    build.words = 2 => \A s \in Slots : head[s].ref = 0 /\ head[s].ptr # NULL =>
        \E t \in Tasks : pc[t] = "lv_clear" /\ vec[t] = s /\ rt[t].node = head[s].ptr

\* No retired node is without a batch.
Known ==
    \A o \in Objs : status[o] = "retired" =>
        \/ \E t \in Tasks : \E i \in DOMAIN batch[t] : batch[t][i] = o
        \/ \E r \in Lasts : (r = o \/ link[o] = r) /\ \A t \in Tasks : r \notin Growing(t)

AllPaths == \A t \in Tasks : Paths(t)
AllGrows == \A t \in Tasks : Grows(t)
AllPushes == \A t \in Tasks : Pushes(t)
AllQueued == \A t \in Tasks : Queued(t)
AllAmounts == \A t \in Tasks : Amounts(t)
AllHolds == \A t \in Tasks : Holds(t)

-----------------------------------------------------------------------------
(***************************************************************************)
(* Segments that are laid next to each other.                              *)
(***************************************************************************)

\* Segments with the same nodes under f and g.
LEMMA LaidFrame ==
  ASSUME IsFiniteSet(Objs), NEW f \in [Objs -> Ptrs], NEW g \in [Objs -> Ptrs],
         NEW S \in Seq(Segment), NEW X, Laid(f, S, X),
         \A m \in Rest(f, S) : g[m] = f[m]
  PROVE  Laid(g, S, X) /\ Rest(g, S) = Rest(f, S)
<1>1. ASSUME NEW i \in DOMAIN S
      PROVE  /\ Trail(g, S[i].cur, S[i].end) = Trail(f, S[i].cur, S[i].end)
             /\ Straight(g, S[i].cur, S[i].end)
  <2>1. S[i] \in Segment
    OBVIOUS
  <2>2. S[i].cur \in Ptrs
    BY <2>1 DEF Segment
  <2>3. \A m \in Trail(f, S[i].cur, S[i].end) \ {S[i].end} : g[m] = f[m]
    BY DEF Rest
  <2>4. Straight(f, S[i].cur, S[i].end)
    BY DEF Laid
  <2> QED
    BY <2>2, <2>3, <2>4, TrailFrame, StraightFrame
<1>2. Laid(g, S, X)
  BY <1>1 DEF Laid
<1>3. Rest(g, S) = Rest(f, S)
  BY <1>1 DEF Rest
<1> QED
  BY <1>2, <1>3

\* Segments that do not meet Y are laid apart from Y.
LEMMA LaidApart ==
  ASSUME NEW f, NEW S, NEW X, NEW Y, Laid(f, S, X), Y \intersect Rest(f, S) = {}
  PROVE  Laid(f, S, Y)
BY DEF Laid, Rest

\* What the segments are laid apart from does not meet them.
LEMMA LaidMeets ==
  ASSUME NEW f, NEW S, NEW X, Laid(f, S, X)
  PROVE  X \intersect Rest(f, S) = {}
BY DEF Laid, Rest

\* No segments.
LEMMA LaidEmpty ==
  ASSUME NEW f, NEW X
  PROVE  Laid(f, <<>>, X) /\ Rest(f, <<>>) = {}
BY DEF Laid, Rest

\* The first segment and the others.
LEMMA LaidTail ==
  ASSUME NEW f, NEW S \in Seq(Segment), S # <<>>, NEW X, Laid(f, S, X)
  PROVE  LET C == Trail(f, Head(S).cur, Head(S).end)
         IN  /\ Rest(f, S) = C \union Rest(f, Tail(S))
             /\ C \intersect Rest(f, Tail(S)) = {} /\ C \intersect X = {}
             /\ Laid(f, Tail(S), X)
             /\ Straight(f, Head(S).cur, Head(S).end)
<1> DEFINE T == Tail(S)
           P(i) == Trail(f, S[i].cur, S[i].end)
<1>1. /\ Head(S) = S[1] /\ 1 \in DOMAIN S
      /\ \A i \in DOMAIN T : i + 1 \in DOMAIN S /\ T[i] = S[i + 1] /\ i + 1 # 1
      /\ \A i \in DOMAIN S : i = 1 \/ (i - 1 \in DOMAIN T /\ S[i] = T[i - 1])
      /\ \A i, j \in DOMAIN T : i + 1 = j + 1 => i = j
  OBVIOUS
<1> HIDE DEF T
<1>2. /\ \A i \in DOMAIN S : Straight(f, S[i].cur, S[i].end) /\ P(i) \intersect X = {}
      /\ \A i, j \in DOMAIN S : P(i) \intersect P(j) # {} => i = j
  BY DEF Laid
<1>6. \A i \in DOMAIN T : /\ Trail(f, T[i].cur, T[i].end) = P(i + 1)
                          /\ Straight(f, T[i].cur, T[i].end)
  BY <1>1, <1>2
<1>7. \A x : x \in Rest(f, T) <=> \E i \in DOMAIN T : x \in P(i + 1)
  BY <1>6 DEF Rest
<1>8. \A x : x \in Rest(f, S) <=> \E i \in DOMAIN S : x \in P(i)
  BY DEF Rest
<1> HIDE DEF P
<1>3. Rest(f, S) = P(1) \union Rest(f, T)
  <2>1. ASSUME NEW x, x \in Rest(f, S) PROVE x \in P(1) \union Rest(f, T)
    <3>1. PICK i \in DOMAIN S : x \in P(i)
      BY <1>8, <2>1
    <3>2. CASE i # 1
      BY <1>1, <1>7, <3>1, <3>2
    <3> QED
      BY <3>1, <3>2
  <2>2. ASSUME NEW x, x \in P(1) \union Rest(f, T) PROVE x \in Rest(f, S)
    BY <1>1, <1>7, <1>8, <2>2
  <2> QED
    BY <2>1, <2>2
<1>4. P(1) \intersect Rest(f, T) = {}
  BY <1>1, <1>2, <1>7
<1>5. Laid(f, T, X)
  <2>1. \A i \in DOMAIN T : P(i + 1) \intersect X = {}
    BY <1>1, <1>2
  <2>2. \A i, j \in DOMAIN T : P(i + 1) \intersect P(j + 1) # {} => i = j
    BY <1>1, <1>2
  <2> QED
    BY <1>6, <2>1, <2>2 DEF Laid
<1> QED
  BY <1>1, <1>2, <1>3, <1>4, <1>5 DEF T, P

\* One segment in front.
LEMMA LaidCons ==
  ASSUME NEW f, NEW S \in Seq(Segment), NEW X, Laid(f, S, X), NEW g \in Segment,
         Straight(f, g.cur, g.end), Trail(f, g.cur, g.end) \intersect X = {},
         Trail(f, g.cur, g.end) \intersect Rest(f, S) = {}
  PROVE  /\ Laid(f, <<g>> \o S, X)
         /\ Rest(f, <<g>> \o S) = Trail(f, g.cur, g.end) \union Rest(f, S)
<1> DEFINE T == <<g>> \o S
           P(i) == Trail(f, T[i].cur, T[i].end)
<1>1. /\ T[1] = g /\ 1 \in DOMAIN T
      /\ \A i \in DOMAIN S : i + 1 \in DOMAIN T /\ T[i + 1] = S[i]
      /\ \A i \in DOMAIN T : i = 1 \/ (i - 1 \in DOMAIN S /\ T[i] = S[i - 1])
      /\ \A i, j \in DOMAIN T : i - 1 = j - 1 => i = j
  OBVIOUS
<1> HIDE DEF T
<1>2. /\ \A i \in DOMAIN S : /\ Straight(f, S[i].cur, S[i].end)
                             /\ Trail(f, S[i].cur, S[i].end) \intersect X = {}
      /\ \A i, j \in DOMAIN S :
          Trail(f, S[i].cur, S[i].end) \intersect Trail(f, S[j].cur, S[j].end) # {} => i = j
  BY DEF Laid
<1>3. Rest(f, T) = Trail(f, g.cur, g.end) \union Rest(f, S)
  BY <1>1 DEF Rest
<1>4. \A i \in DOMAIN T : Straight(f, T[i].cur, T[i].end) /\ P(i) \intersect X = {}
  BY <1>1, <1>2
<1>5. ASSUME NEW i \in DOMAIN T, NEW j \in DOMAIN T, P(i) \intersect P(j) # {}
      PROVE  i = j
  <2>1. \A k \in DOMAIN S : P(1) \intersect Trail(f, S[k].cur, S[k].end) = {}
    BY <1>1 DEF Rest
  <2>2. CASE i = 1
    BY <1>1, <1>5, <2>1, <2>2
  <2>3. CASE j = 1
    BY <1>1, <1>5, <2>1, <2>3
  <2>4. CASE i # 1 /\ j # 1
    <3>1. /\ i - 1 \in DOMAIN S /\ P(i) = Trail(f, S[i - 1].cur, S[i - 1].end)
          /\ j - 1 \in DOMAIN S /\ P(j) = Trail(f, S[j - 1].cur, S[j - 1].end)
      BY <1>1, <2>4
    <3>2. i - 1 = j - 1
      BY <1>2, <1>5, <3>1
    <3> QED
      BY <1>1, <3>2
  <2> QED
    BY <2>2, <2>3, <2>4
<1>6. Laid(f, T, X)
  BY <1>4, <1>5 DEF Laid
<1> QED
  BY <1>3, <1>6 DEF T

\* A finished segment adds nothing.
LEMMA LaidDone ==
  ASSUME IsFiniteSet(Objs), NEW f \in [Objs -> Ptrs], NEW S \in Seq(Segment), NEW X,
         Laid(f, S, X), NEW n \in Nat
  PROVE  Laid(f, Done(n) \o S, X) /\ Rest(f, Done(n) \o S) = Rest(f, S)
<1>1. CASE ~Acks
  BY <1>1 DEF Done
<1>2. CASE Acks
  <2> DEFINE g == [cur |-> NULL, end |-> NULL, n |-> n]
  <2>1. Done(n) = <<g>> /\ g \in Segment /\ g.cur = NULL /\ g.end = NULL
    BY <1>2 DEF Done, Segment, Ptrs
  <2> HIDE DEF g
  <2>2. Trail(f, g.cur, g.end) = {} /\ Straight(f, g.cur, g.end)
    BY <2>1, TrailNull, StraightNull
  <2>3. /\ Trail(f, g.cur, g.end) \intersect X = {}
        /\ Trail(f, g.cur, g.end) \intersect Rest(f, S) = {}
    BY <2>2
  <2>4. /\ Laid(f, <<g>> \o S, X)
        /\ Rest(f, <<g>> \o S) = Trail(f, g.cur, g.end) \union Rest(f, S)
    BY <2>1, <2>2, <2>3, LaidCons
  <2> QED
    BY <2>1, <2>2, <2>4
<1> QED
  BY <1>1, <1>2

\* A walk in front of the others.
LEMMA LaidWalk ==
  ASSUME IsFiniteSet(Objs), NEW f \in [Objs -> Ptrs], NEW S \in Seq(Segment), NEW X,
         Laid(f, S, X), NEW n \in Nat, NEW c \in Ptrs, NEW e \in Ptrs,
         Straight(f, c, e), Trail(f, c, e) \intersect X = {},
         Trail(f, c, e) \intersect Rest(f, S) = {}
  PROVE  /\ Laid(f, Walk(c, e, n) \o S, X)
         /\ Rest(f, Walk(c, e, n) \o S) = Trail(f, c, e) \union Rest(f, S)
<1>1. CASE c = NULL
  BY <1>1, TrailNull, LaidDone DEF Walk
<1>2. CASE c # NULL
  <2> DEFINE g == [cur |-> c, end |-> e, n |-> IF Acks THEN n ELSE 0]
  <2>1. Walk(c, e, n) = <<g>> /\ g \in Segment /\ g.cur = c /\ g.end = e
    BY <1>2 DEF Walk, Segment, Ptrs
  <2> HIDE DEF g
  <2> QED
    BY <2>1, LaidCons
<1> QED
  BY <1>1, <1>2

-----------------------------------------------------------------------------
(***************************************************************************)
(* What each step of retire does to the batch that it pushes.              *)
(***************************************************************************)

\* Where a call of retire goes on after a slot, with the nodes and sums of r.
Onward(t, r) ==
    /\ wk'[t].segs = <<>> /\ Inside(t)'
    /\ \/ /\ at[t] + 1 < NumSlots /\ at'[t] = at[t] + 1
          /\ pc'[t] \in {"rt_access", "rt_load"} /\ rt'[t] = r
       \/ /\ at[t] + 1 = NumSlots /\ (build.words = 1 \/ r.skipped)
          /\ pc'[t] = "rt_fin" /\ rt'[t].node = r.first /\ rt'[t].amt = r.adjs
          /\ rt'[t].first = NULL /\ rt'[t].todo = <<>>
       \/ /\ at[t] + 1 = NumSlots /\ build.words # 1 /\ ~r.skipped
          /\ rt'[t] = NoRetire /\ pc'[t] \in {"free", "in"}

\* retire goes on to the next slot or to its last adjustment.
LEMMA NextSlotFx ==
  ASSUME Sound, NEW t \in Tasks, NEW r \in Batches, Tidy(t),
         NextSlot(t, r), list' = list, pc[t] \in Retires
  PROVE  Onward(t, r)
<1>1. /\ wk \in [Tasks -> Walks] /\ wk[t] \in Walks
      /\ rt \in [Tasks -> Batches] /\ list[t] \in SUBSET Objs
      /\ pc \in [Tasks -> PC] /\ list \in [Tasks -> SUBSET Objs]
      /\ at \in [Tasks -> Slots] /\ HyalineTypeOK /\ Control(t)
  BY SoundParts, Fields DEF HyalineTypeOK
<1>2. wk[t].segs = <<>> /\ wk[t].ret = "in"
  BY <1>1 DEF Tidy, Retires, Walking, Control
<1>3. at[t] \in Nat /\ at[t] < NumSlots /\ NumSlots \in Nat
  BY AtFacts
<1>4. CASE /\ at[t] + 1 # NumSlots
           /\ rt' = [rt EXCEPT ![t] = r]
           /\ at' = [at EXCEPT ![t] = @ + 1]
           /\ Goto(t, IF build.robust THEN "rt_access" ELSE "rt_load")
           /\ UNCHANGED wk
  <2>1. pc' = [pc EXCEPT ![t] = IF build.robust THEN "rt_access" ELSE "rt_load"]
    BY <1>4 DEF Goto
  <2>2. pc'[t] \in {"rt_access", "rt_load"} /\ wk'[t].segs = <<>> /\ rt'[t] = r
    BY <1>1, <1>2, <1>4, <2>1
  <2>3. at'[t] = at[t] + 1 /\ at[t] + 1 < NumSlots
    BY <1>1, <1>3, <1>4
  <2>4. Inside(t)'
    BY <2>2 DEF Inside
  <2> QED
    BY <2>2, <2>3, <2>4 DEF Onward
<1>5. CASE /\ at[t] + 1 = NumSlots /\ (build.words = 1 \/ r.skipped)
           /\ rt' = [rt EXCEPT ![t] = [NoRetire EXCEPT !.node = r.first,
                                                  !.amt = r.adjs]]
           /\ Goto(t, "rt_fin")
           /\ UNCHANGED wk
  <2>1. pc' = [pc EXCEPT ![t] = "rt_fin"]
    BY <1>5 DEF Goto
  <2>2. pc'[t] = "rt_fin" /\ wk'[t].segs = <<>>
    BY <1>1, <1>2, <1>5, <2>1
  <2>3. /\ rt'[t].first = NULL /\ rt'[t].todo = <<>>
        /\ rt'[t].node = r.first /\ rt'[t].amt = r.adjs
    BY <1>1, <1>5 DEF NoRetire
  <2>4. Inside(t)'
    BY <2>2 DEF Inside
  <2> QED
    BY <1>5, <2>2, <2>3, <2>4 DEF Onward
<1>6. CASE /\ at[t] + 1 = NumSlots /\ ~(build.words = 1 \/ r.skipped)
           /\ rt' = [rt EXCEPT ![t] = NoRetire] /\ Proceed(t, wk[t], list'[t])
  <2>1. Proceed(t, wk[t], list[t])
    BY <1>6
  <2>2. rt'[t] = NoRetire
    BY <1>1, <1>6
  <2>3. /\ wk'[t].segs = <<>> /\ Inside(t)'
        /\ pc'[t] \in {"trav", "ack", "free", "look", "add", "out", "in"}
    BY <1>1, <1>2, <2>1, ProceedFx
  <2>4. pc'[t] \in {"free", "in"}
    BY <1>1, <1>2, <2>1 DEF Proceed, Goto
  <2> QED
    BY <1>6, <2>2, <2>3, <2>4 DEF Onward
<1> QED
  BY <1>4, <1>5, <1>6 DEF NextSlot

\* retire looks at a slot, and may pass it by.
Skipped(t) == [rt[t] EXCEPT !.adjs = (@ + Addend) % CounterMod, !.skipped = TRUE]

\* Looking at the head of a slot changes no counter and no list.
LEMMA RtLookFx ==
  ASSUME Sound, NEW t \in Tasks, Tidy(t), RtAccess(t) \/ RtLoad(t) \/ RtRetry(t)
  PROVE  /\ Untouched /\ Neat(t) /\ UNCHANGED <<head, handle, list>>
         /\ pc[t] \in {"rt_access", "rt_load", "rt_cas"}
         /\ \/ /\ pc'[t] \in {"rt_load", "rt_cas"} /\ at'[t] = at[t]
               /\ wk'[t].segs = <<>>
               /\ \E p \in Ptrs : rt'[t] = [rt[t] EXCEPT !.prev = p]
            \/ Onward(t, IF build.words = 1 THEN rt[t] ELSE Skipped(t))
<1>1. /\ wk \in [Tasks -> Walks] /\ pc \in [Tasks -> PC] /\ rt \in [Tasks -> Batches]
      /\ at \in [Tasks -> Slots] /\ HyalineTypeOK /\ SharedTypeOK /\ at[t] \in Slots
      /\ rt[t] \in Batches
  BY SoundParts, Fields DEF HyalineTypeOK
<1>2. /\ Untouched /\ UNCHANGED <<head, handle>>
      /\ pc[t] \in {"rt_access", "rt_load", "rt_cas"}
      /\ list' = list \/ SkipSlot(t)
  BY DEF RtAccess, RtLoad, RtRetry, Untouched, mem, own, nodes
<1>3. list' = list /\ pc[t] \in Retires /\ batch' = batch
  BY <1>2 DEF SkipSlot, Retires, Untouched
<1>4. wk[t].segs = <<>>
  BY <1>3 DEF Tidy, Retires, Walking
<1>5. CASE SkipSlot(t)
  <2>1. Neat(t)
    BY <1>3, <1>5, SkipNeat
  <2> DEFINE r == IF build.words = 1 THEN rt[t] ELSE Skipped(t)
  <2>2. r \in Batches
    <3>1. rt[t].adjs + Addend \in Int
      BY <1>1, SlotFacts DEF Batches, HyalineTypeOK
    <3>2. (rt[t].adjs + Addend) % CounterMod \in 0 .. CounterMod - 1
      BY <3>1, ModRange
    <3> QED
      BY <1>1, <3>2 DEF Batches, Skipped
  <2>3. NextSlot(t, r)
    BY <1>5 DEF SkipSlot, Skipped
  <2> HIDE DEF r
  <2>4. Onward(t, r)
    BY <1>3, <2>2, <2>3, NextSlotFx
  <2> QED
    BY <1>2, <1>3, <2>1, <2>4 DEF r
<1>6. CASE ~SkipSlot(t)
  <2>1. /\ UNCHANGED <<wk, at>>
        /\ \/ pc' = [pc EXCEPT ![t] = "rt_load"] /\ rt' = rt
           \/ /\ pc' = [pc EXCEPT ![t] = "rt_cas"] \/ (pc[t] = "rt_cas" /\ pc' = pc)
              /\ rt' = [rt EXCEPT ![t].prev = head[at[t]].ptr]
    BY <1>6 DEF RtAccess, RtLoad, RtRetry, Goto
  <2>2. pc'[t] \in {"rt_load", "rt_cas"} /\ at'[t] = at[t] /\ wk'[t].segs = <<>>
    BY <1>1, <1>4, <2>1
  <2>3. \E p \in Ptrs : rt'[t] = [rt[t] EXCEPT !.prev = p]
    <3>1. CASE rt' = rt
      BY <1>1, <3>1 DEF Batches
    <3>2. CASE rt' = [rt EXCEPT ![t].prev = head[at[t]].ptr]
      <4>1. head[at[t]].ptr \in Ptrs
        BY <1>1 DEF SharedTypeOK
      <4>2. rt'[t] = [rt[t] EXCEPT !.prev = head[at[t]].ptr]
        BY <1>1, <3>2
      <4> QED
        BY <4>1, <4>2
    <3> QED
      BY <2>1, <3>1, <3>2
  <2>4. Neat(t)
    BY <1>3, <2>1, <2>2, RetiresNeat DEF Retires
  <2> QED
    BY <1>2, <1>3, <2>2, <2>3, <2>4
<1> QED
  BY <1>5, <1>6

\* A push with heads of one word.
LEMMA RtPush1Fx ==
  ASSUME Sound, NEW t \in Tasks, Tidy(t), RtPush1(t)
  PROVE  LET n == Head(rt[t].todo) IN
         /\ UNCHANGED <<clientVars, build, link, refs, batch, vec, handle, list>>
         /\ Neat(t) /\ pc[t] = "rt_cas" /\ build.words = 1
         /\ rt[t].todo # <<>> /\ n \in Objs
         /\ head[at[t]].ref # 0 /\ head[at[t]].ptr = rt[t].prev
         /\ next' = [next EXCEPT ![n] = rt[t].prev]
         /\ head' = [head EXCEPT ![at[t]].ptr = n]
         /\ Onward(t, [rt[t] EXCEPT !.todo = Tail(@), !.prev = NULL,
                                    !.adjs = (@ + 1) % CounterMod])
<1> DEFINE n == Head(rt[t].todo)
           r == [rt[t] EXCEPT !.todo = Tail(@), !.prev = NULL,
                              !.adjs = (@ + 1) % CounterMod]
<1>1. /\ UNCHANGED <<clientVars, build, link, refs, batch, vec, handle, list>>
      /\ Push(t) /\ NextSlot(t, r) /\ build.words = 1
  BY DEF RtPush1, own
<1>2. /\ pc[t] = "rt_cas"
      /\ head[at[t]].ref # 0 /\ head[at[t]].ptr = rt[t].prev
      /\ next' = [next EXCEPT ![n] = rt[t].prev]
      /\ head' = [head EXCEPT ![at[t]].ptr = n]
  BY <1>1 DEF Push
<1>3. rt[t] \in Batches /\ rt[t].todo \in Seq(Objs) /\ rt[t].todo # <<>> /\ HyalineTypeOK
  BY <1>2, EnoughNodes, Fields, SoundParts
<1>4. n \in Objs /\ Tail(rt[t].todo) \in Seq(Objs)
  BY <1>3
<1>5. r \in Batches
  <2>1. rt[t].adjs + 1 \in Int
    BY <1>3 DEF Batches
  <2>2. (rt[t].adjs + 1) % CounterMod \in 0 .. CounterMod - 1
    BY <2>1, ModRange
  <2> QED
    BY <1>3, <1>4, <2>2 DEF Batches, Ptrs
<1> HIDE DEF r, n
<1>6. pc[t] \in Retires /\ list' = list /\ batch' = batch
  BY <1>1, <1>2 DEF Retires
<1>7. Onward(t, r)
  BY <1>1, <1>5, <1>6, NextSlotFx
<1>8. Neat(t)
  BY <1>1, <1>3, <1>5, <1>6, NextSlotNeat
<1> QED
  BY <1>1, <1>2, <1>3, <1>4, <1>7, <1>8 DEF r, n

\* A push with heads of two words.
LEMMA RtPush2Fx ==
  ASSUME Sound, NEW t \in Tasks, Tidy(t), RtPush2(t)
  PROVE  LET n == Head(rt[t].todo)
             b == rt[t].prev
         IN
         /\ UNCHANGED <<clientVars, build, link, refs, batch, vec, handle, list>>
         /\ Neat(t) /\ pc[t] = "rt_cas" /\ build.words = 2
         /\ rt[t].todo # <<>> /\ n \in Objs
         /\ head[at[t]].ref # 0 /\ head[at[t]].ptr = b
         /\ next' = [next EXCEPT ![n] = b]
         /\ head' = [head EXCEPT ![at[t]].ptr = n]
         /\ wk'[t].segs = <<>> /\ at'[t] = at[t]
         /\ rt'[t].todo = rt[t].todo /\ rt'[t].first = rt[t].first
         /\ rt'[t].adjs = rt[t].adjs /\ rt'[t].skipped = rt[t].skipped
         /\ IF b # NULL
            THEN /\ pc'[t] = "rt_adj" /\ rt'[t].node = b
                 /\ rt'[t].amt = (Addend + head[at[t]].ref) % CounterMod
            ELSE pc'[t] = "rt_count"
<1> DEFINE n == Head(rt[t].todo)
           b == rt[t].prev
           k == head[at[t]].ref
           r == [rt[t] EXCEPT !.refs = IF Acks THEN k ELSE 0, !.prev = NULL]
<1>1. /\ UNCHANGED <<clientVars, build, link, refs, batch, vec, handle, list, at, wk>>
      /\ Push(t) /\ build.words = 2
      /\ \/ /\ b # NULL
            /\ rt' = [rt EXCEPT ![t] = [r EXCEPT !.node = b,
                                          !.amt = (Addend + k) % CounterMod]]
            /\ pc' = [pc EXCEPT ![t] = "rt_adj"]
         \/ /\ b = NULL
            /\ rt' = [rt EXCEPT ![t] = r]
            /\ pc' = [pc EXCEPT ![t] = "rt_count"]
  BY DEF RtPush2, own, Goto
<1>2. /\ pc[t] = "rt_cas"
      /\ head[at[t]].ref # 0 /\ head[at[t]].ptr = rt[t].prev
      /\ next' = [next EXCEPT ![n] = rt[t].prev]
      /\ head' = [head EXCEPT ![at[t]].ptr = n]
  BY <1>1 DEF Push
<1>3. rt[t] \in Batches /\ rt[t].todo \in Seq(Objs) /\ rt[t].todo # <<>> /\ HyalineTypeOK
      /\ rt \in [Tasks -> Batches] /\ pc \in [Tasks -> PC]
  BY <1>2, EnoughNodes, Fields, SoundParts DEF HyalineTypeOK
<1>4. n \in Objs
  BY <1>3
<1>5. /\ r.todo = rt[t].todo /\ r.first = rt[t].first
      /\ r.adjs = rt[t].adjs /\ r.skipped = rt[t].skipped
  BY <1>3 DEF Batches
<1> DEFINE q == [r EXCEPT !.node = b, !.amt = (Addend + k) % CounterMod]
<1>6. /\ q.todo = rt[t].todo /\ q.first = rt[t].first
      /\ q.adjs = rt[t].adjs /\ q.skipped = rt[t].skipped
      /\ q.node = b /\ q.amt = (Addend + k) % CounterMod
  BY <1>3 DEF Batches
<1> HIDE DEF r, q
<1>7. /\ b # NULL => rt'[t] = q /\ pc'[t] = "rt_adj"
      /\ b = NULL => rt'[t] = r /\ pc'[t] = "rt_count"
  BY <1>1, <1>3 DEF q
<1>8. Neat(t) /\ wk'[t].segs = <<>>
  <2>1. pc[t] \in Retires /\ pc'[t] \in Retires
    BY <1>2, <1>7 DEF Retires
  <2>2. Neat(t)
    BY <1>1, <2>1, RetiresNeat
  <2>3. wk[t].segs = <<>>
    BY <2>1 DEF Tidy, Retires, Walking
  <2> QED
    BY <1>1, <2>2, <2>3
<1> HIDE DEF n, b, k
<1> QED
  BY <1>1, <1>2, <1>3, <1>4, <1>5, <1>6, <1>7, <1>8 DEF n, b, k

\* The adjustment of the node that was buried.
LEMMA RtAdjustFx ==
  ASSUME Sound, NEW t \in Tasks, Tidy(t), RtAdjust(t)
  PROVE  /\ UNCHANGED <<clientVars, build, next, link, batch, vec, head, handle>>
         /\ Neat(t) /\ pc[t] = "rt_adj" /\ pc'[t] = "rt_count"
         /\ refs' = [refs EXCEPT ![link[rt[t].node]] = (@ + rt[t].amt) % CounterMod]
         /\ list' = [list EXCEPT ![t] = Adjusted(t, rt[t].node, rt[t].amt)]
         /\ wk'[t].segs = <<>> /\ at'[t] = at[t]
         /\ rt'[t].todo = rt[t].todo /\ rt'[t].first = rt[t].first
         /\ rt'[t].adjs = rt[t].adjs /\ rt'[t].skipped = rt[t].skipped
<1>1. /\ rt \in [Tasks -> Batches] /\ pc \in [Tasks -> PC] /\ rt[t] \in Batches
      /\ list \in [Tasks -> SUBSET Objs]
  BY Fields, SoundParts DEF HyalineTypeOK
<1>2. /\ UNCHANGED <<clientVars, build, next, link, batch, vec, head, handle, wk, at>>
      /\ pc[t] = "rt_adj" /\ pc' = [pc EXCEPT ![t] = "rt_count"]
      /\ refs' = [refs EXCEPT ![link[rt[t].node]] = (@ + rt[t].amt) % CounterMod]
      /\ list' = [list EXCEPT ![t] = Adjusted(t, rt[t].node, rt[t].amt)]
      /\ rt' = [rt EXCEPT ![t].node = NULL, ![t].amt = 0]
  BY DEF RtAdjust, Goto, own, AdjustRefs
<1> DEFINE x == [rt[t] EXCEPT !.node = NULL, !.amt = 0]
<1>3. /\ x.todo = rt[t].todo /\ x.first = rt[t].first
      /\ x.adjs = rt[t].adjs /\ x.skipped = rt[t].skipped
  BY <1>1 DEF Batches
<1>4. rt'[t] = x
  BY <1>1, <1>2
<1> HIDE DEF x
<1>5. pc'[t] = "rt_count"
  BY <1>1, <1>2
<1>6. Neat(t) /\ wk'[t].segs = <<>>
  <2>1. pc[t] \in Retires /\ pc'[t] \in Retires
    BY <1>2, <1>5 DEF Retires
  <2>2. Neat(t)
    BY <1>1, <1>2, <2>1, RetiresNeat
  <2>3. wk[t].segs = <<>>
    BY <2>1 DEF Tidy, Retires, Walking
  <2> QED
    BY <1>2, <2>2, <2>3
<1> QED
  BY <1>2, <1>3, <1>4, <1>5, <1>6

\* retire turns to the next slot after a push.
LEMMA RtCountFx ==
  ASSUME Sound, NEW t \in Tasks, Tidy(t), RtCount(t)
  PROVE  /\ Untouched /\ Neat(t) /\ UNCHANGED <<head, handle, list>>
         /\ pc[t] = "rt_count" /\ rt[t].todo # <<>>
         /\ Onward(t, [rt[t] EXCEPT !.todo = Tail(@), !.refs = 0])
<1> DEFINE r == [rt[t] EXCEPT !.todo = Tail(@), !.refs = 0]
<1>1. /\ Untouched /\ UNCHANGED <<head, handle, list>>
      /\ pc[t] = "rt_count" /\ NextSlot(t, r)
  BY DEF RtCount, Untouched, own, nodes
<1>2. rt[t] \in Batches /\ rt[t].todo \in Seq(Objs) /\ rt[t].todo # <<>> /\ HyalineTypeOK
  BY <1>1, EnoughNodes, Fields, SoundParts
<1>3. r \in Batches
  <2>1. Tail(rt[t].todo) \in Seq(Objs) /\ 0 \in 0 .. TaskNum
    BY <1>2
  <2> QED
    BY <1>2, <2>1 DEF Batches
<1> HIDE DEF r
<1>4. pc[t] \in Retires /\ list' = list /\ batch' = batch
  BY <1>1 DEF Retires, Untouched
<1>5. Onward(t, r)
  BY <1>1, <1>3, <1>4, NextSlotFx
<1>6. Neat(t)
  BY <1>1, <1>2, <1>3, <1>4, NextSlotNeat
<1> QED
  BY <1>1, <1>2, <1>5, <1>6 DEF r

-----------------------------------------------------------------------------
(***************************************************************************)
(* What the rideable, enter and retire before its pushes do.               *)
(***************************************************************************)

\* A node in the structure, or with the thread that allocated it, is in one place.
Sited ==
    /\ \A c \in Cells : cell[c] # NULL => status[cell[c]] = "linked"
    /\ \A c, d \in Cells : cell[c] = cell[d] /\ cell[c] # NULL => c = d
    /\ \A t \in Tasks : mine[t] # NULL => status[mine[t]] = "private"
    /\ \A t, u \in Tasks : mine[t] = mine[u] /\ mine[t] # NULL => t = u

\* The nodes that are retired.
Retired == {o \in Objs : status[o] = "retired"}

\* Steps of the rideable that retire nothing.
LEMMA MallocFx ==
  ASSUME ClientTypeOK, Sited, NEW t \in Tasks, NEW o \in Objs, Malloc(t, o)
  PROVE  Sited' /\ Retired' = Retired
<1>1. /\ status \in [Objs -> Status] /\ mine \in [Tasks -> Ptrs]
      /\ cell \in [Cells -> Ptrs]
  BY DEF ClientTypeOK
<1>2. /\ mine[t] = NULL /\ status[o] = "free"
      /\ status' = [status EXCEPT ![o] = "private"]
      /\ mine' = [mine EXCEPT ![t] = o] /\ cell' = cell
  BY DEF Malloc
<1>3. \A x \in Objs : status'[x] = IF x = o THEN "private" ELSE status[x]
  BY <1>1, <1>2
<1>4. \A u \in Tasks : mine'[u] = IF u = t THEN o ELSE mine[u]
  BY <1>1, <1>2
<1>5. Retired' = Retired
  BY <1>2, <1>3 DEF Retired
<1>6. /\ \A c \in Cells : cell[c] \in Ptrs /\ cell[c] # o
      /\ \A u \in Tasks : mine[u] \in Ptrs /\ mine[u] # o
  BY <1>1, <1>2 DEF Sited, Ptrs
<1>7. o # NULL
  OBVIOUS
<1>8. \A c \in Cells : cell'[c] # NULL => status'[cell'[c]] = "linked"
  BY <1>2, <1>3, <1>6 DEF Sited, Ptrs
<1>9. \A u \in Tasks : mine'[u] # NULL => status'[mine'[u]] = "private"
  BY <1>3, <1>4, <1>6 DEF Sited, Ptrs
<1>10. \A u, v \in Tasks : mine'[u] = mine'[v] /\ mine'[u] # NULL => u = v
  BY <1>4, <1>6 DEF Sited
<1> QED
  BY <1>2, <1>5, <1>8, <1>9, <1>10 DEF Sited

\* Publishing a node retires nothing.
LEMMA LinkFx ==
  ASSUME ClientTypeOK, Sited, NEW t \in Tasks, NEW c \in Cells, Link(t, c)
  PROVE  Sited' /\ Retired' = Retired
<1>1. /\ status \in [Objs -> Status] /\ mine \in [Tasks -> Ptrs]
      /\ cell \in [Cells -> Ptrs]
  BY DEF ClientTypeOK
<1> DEFINE o == mine[t]
<1>2. /\ o # NULL /\ cell[c] = NULL
      /\ status' = [status EXCEPT ![o] = "linked"]
      /\ mine' = [mine EXCEPT ![t] = NULL] /\ cell' = [cell EXCEPT ![c] = o]
  BY DEF Link
<1>3. o \in Objs /\ status[o] = "private"
  BY <1>1, <1>2 DEF Ptrs, Sited
<1> HIDE DEF o
<1>4. /\ \A x \in Objs : status'[x] = IF x = o THEN "linked" ELSE status[x]
      /\ \A u \in Tasks : mine'[u] = IF u = t THEN NULL ELSE mine[u]
      /\ \A d \in Cells : cell'[d] = IF d = c THEN o ELSE cell[d]
  BY <1>1, <1>2, <1>3
<1>5. Retired' = Retired
  BY <1>3, <1>4 DEF Retired
<1>6. /\ \A d \in Cells : cell[d] \in Ptrs /\ cell[d] # o
      /\ \A u \in Tasks : mine[u] \in Ptrs /\ (u # t => mine[u] # o)
  BY <1>1, <1>2, <1>3 DEF Sited, Ptrs, o
<1>8. \A d \in Cells : cell'[d] # NULL => status'[cell'[d]] = "linked"
  BY <1>3, <1>4, <1>6 DEF Sited, Ptrs
<1>9. \A u \in Tasks : mine'[u] # NULL => status'[mine'[u]] = "private"
  BY <1>4, <1>6 DEF Sited, Ptrs
<1>10. \A u, v \in Tasks : mine'[u] = mine'[v] /\ mine'[u] # NULL => u = v
  BY <1>4, <1>6 DEF Sited
<1>11. \A d, z \in Cells : cell'[d] = cell'[z] /\ cell'[d] # NULL => d = z
  BY <1>4, <1>6 DEF Sited
<1> QED
  BY <1>5, <1>8, <1>9, <1>10, <1>11 DEF Sited

\* Giving back an unused node retires nothing.
LEMMA DiscardFx ==
  ASSUME ClientTypeOK, Sited, NEW t \in Tasks, Discard(t)
  PROVE  Sited' /\ Retired' = Retired
<1>1. /\ status \in [Objs -> Status] /\ mine \in [Tasks -> Ptrs]
      /\ cell \in [Cells -> Ptrs]
  BY DEF ClientTypeOK
<1> DEFINE o == mine[t]
<1>2. /\ o # NULL /\ cell' = cell
      /\ status' = [status EXCEPT ![o] = "free"]
      /\ mine' = [mine EXCEPT ![t] = NULL]
  BY DEF Discard
<1>3. o \in Objs /\ status[o] = "private"
  BY <1>1, <1>2 DEF Ptrs, Sited
<1> HIDE DEF o
<1>4. /\ \A x \in Objs : status'[x] = IF x = o THEN "free" ELSE status[x]
      /\ \A u \in Tasks : mine'[u] = IF u = t THEN NULL ELSE mine[u]
  BY <1>1, <1>2, <1>3
<1>5. Retired' = Retired
  BY <1>3, <1>4 DEF Retired
<1>6. /\ \A d \in Cells : cell[d] \in Ptrs /\ cell[d] # o
      /\ \A u \in Tasks : mine[u] \in Ptrs /\ (u # t => mine[u] # o)
  BY <1>1, <1>2, <1>3 DEF Sited, Ptrs, o
<1>8. \A d \in Cells : cell'[d] # NULL => status'[cell'[d]] = "linked"
  BY <1>2, <1>4, <1>6 DEF Sited, Ptrs
<1>9. \A u \in Tasks : mine'[u] # NULL => status'[mine'[u]] = "private"
  BY <1>4, <1>6 DEF Sited, Ptrs
<1>10. \A u, v \in Tasks : mine'[u] = mine'[v] /\ mine'[u] # NULL => u = v
  BY <1>4, <1>6 DEF Sited
<1> QED
  BY <1>2, <1>5, <1>8, <1>9, <1>10 DEF Sited

\* Steps that leave the client alone.
LEMMA SitedSame ==
  ASSUME Sited, UNCHANGED clientVars
  PROVE  Sited' /\ Retired' = Retired
BY DEF Sited, Retired, clientVars

\* Between calls, in enter to the last step, and in deref.
Reads == {"in", "value", "global", "access"}
Rests == {"out", "look", "add"}

\* The steps that only look change nothing shared.
LEMMA IdleFx ==
  ASSUME Sound, Sited, NEW t \in Tasks, Tidy(t),
         \/ Enter2(t) \/ EnterLook(t)
         \/ Alloc(t) \/ Rideable(t) \/ \E c \in Cells : Read(t, c) \/ Deref(t, c)
         \/ DerefValue(t) \/ DerefGlobal(t) \/ DerefAccess1(t) \/ DerefAccess2(t)
  PROVE  /\ UNCHANGED <<build, next, link, refs, batch, vec, head, handle, list, wk, rt>>
         /\ Neat(t) /\ Sited' /\ Retired' = Retired
         /\ \/ pc[t] \in Reads /\ pc'[t] \in Reads
            \/ pc[t] \in Rests /\ pc'[t] \in Rests
<1>0. pc \in [Tasks -> PC] /\ HyalineTypeOK /\ ClientTypeOK
  BY SoundParts DEF HyalineTypeOK
<1> USE DEF Reads, Rests
<1>n. Neat(t)
  BY <1>0, IdleStepsNeat
<1>1. CASE Enter2(t)
  BY <1>0, <1>n, <1>1, SitedSame DEF Enter2, Goto, locals, own, mem, nodes, Entry
<1>2. CASE EnterLook(t)
  BY <1>0, <1>n, <1>2, SitedSame DEF EnterLook, Goto, own, mem, nodes
<1>3. CASE Alloc(t)
  BY <1>0, <1>n, <1>3, MallocFx DEF Alloc, locals
<1>4. CASE Rideable(t)
  BY <1>0, <1>n, <1>4, DiscardFx, LinkFx DEF Rideable, locals, own, mem, nodes
<1>5. CASE \E c \in Cells : Read(t, c) \/ Deref(t, c)
  BY <1>0, <1>n, <1>5, SitedSame DEF Read, Deref, Goto, locals, own, mem, nodes
<1>6. CASE DerefValue(t) \/ DerefGlobal(t)
  BY <1>0, <1>n, <1>6, SitedSame DEF DerefValue, DerefGlobal, Goto, own, mem, nodes
<1>7. CASE DerefAccess1(t) \/ DerefAccess2(t)
  BY <1>0, <1>n, <1>7, SitedSame DEF DerefAccess1, DerefAccess2, Goto, own, nodes, AfterAccess
<1> QED
  BY <1>1, <1>2, <1>3, <1>4, <1>5, <1>6, <1>7

\* The step that counts the thread in.
LEMMA EnterFx ==
  ASSUME Sound, NEW t \in Tasks, Tidy(t), Enter1(t) \/ EnterAdd(t)
  PROVE  /\ UNCHANGED <<clientVars, build, next, link, refs, batch, list, wk, rt>>
         /\ Neat(t) /\ pc[t] \in Rests /\ pc'[t] = "in"
         /\ vec'[t] \in Slots
         /\ build.words = 1 => vec'[t] = vec[t] /\ head'[vec'[t]].ptr = NULL
         /\ build.words = 2 => head'[vec'[t]].ptr = head[vec'[t]].ptr
         /\ \A s \in Slots : s # vec'[t] => head'[s] = head[s]
         /\ handle'[t] = head'[vec'[t]].ptr
         /\ head'[vec'[t]].ref # 0
<1>0. /\ pc \in [Tasks -> PC] /\ HyalineTypeOK /\ vec \in [Tasks -> Slots]
      /\ handle \in [Tasks -> Ptrs] /\ SharedTypeOK /\ at[t] \in Slots /\ vec[t] \in Slots
  BY SoundParts, Fields DEF HyalineTypeOK
<1>n. Neat(t)
  BY <1>0, IdleStepsNeat
<1>1. CASE Enter1(t)
  <2>1. /\ UNCHANGED <<clientVars, build, next, link, refs, batch, list, wk, rt, vec>>
        /\ pc[t] \in Rests /\ pc' = [pc EXCEPT ![t] = "in"] /\ build.words = 1
        /\ head' = [head EXCEPT ![vec[t]] = [ref |-> 1, ptr |-> NULL]]
        /\ handle' = [handle EXCEPT ![t] = NULL]
    BY <1>1 DEF Enter1, Goto, locals, nodes, Rests
  <2>2. head'[vec[t]] = [ref |-> 1, ptr |-> NULL] /\ \A s \in Slots : s # vec[t] => head'[s] = head[s]
    BY <1>0, <2>1 DEF SharedTypeOK
  <2> QED
    BY <1>0, <1>n, <2>1, <2>2
<1>2. CASE EnterAdd(t)
  <2>1. /\ UNCHANGED <<clientVars, build, next, link, refs, batch, list, wk, rt>>
        /\ pc[t] \in Rests /\ pc' = [pc EXCEPT ![t] = "in"] /\ build.words = 2
        /\ head' = [head EXCEPT ![at[t]].ref = @ + 1]
        /\ handle' = [handle EXCEPT ![t] = head[at[t]].ptr]
        /\ vec' = [vec EXCEPT ![t] = at[t]]
    BY <1>2 DEF EnterAdd, Goto, locals, nodes, Rests
  <2>2. vec'[t] = at[t] /\ handle'[t] = head[at[t]].ptr /\ pc'[t] = "in"
    BY <1>0, <2>1
  <2>3. head[at[t]] \in [ref : 0 .. TaskNum, ptr : Ptrs]
    BY <1>0 DEF SharedTypeOK
  <2>4. /\ head'[at[t]] = [head[at[t]] EXCEPT !.ref = @ + 1]
        /\ \A s \in Slots : s # at[t] => head'[s] = head[s]
    BY <1>0, <2>1 DEF SharedTypeOK
  <2>5. head'[at[t]].ptr = head[at[t]].ptr /\ head'[at[t]].ref # 0
    BY <2>3, <2>4
  <2> QED
    BY <1>0, <1>n, <2>1, <2>2, <2>4, <2>5
<1> QED
  BY <1>1, <1>2

\* retire of a node.
LEMMA RetireFx ==
  ASSUME Sound, Sited, NEW t \in Tasks, Tidy(t), NEW c \in Cells, Retire(t, c)
  PROVE  LET o == cell[c]
             chain == <<o>> \o batch[t]
             r == chain[Len(chain)]
             full == Len(chain) >= SMRBatch
         IN
         /\ UNCHANGED <<build, next, vec, head, handle, list>>
         /\ Neat(t) /\ pc[t] = "in" /\ Sited'
         /\ o \in Objs /\ o \notin Retired /\ Retired' = Retired \union {o}
         /\ refs' = [refs EXCEPT ![o] = 0]
         /\ link' = IF full THEN [link EXCEPT ![o] = r, ![r] = o]
                    ELSE [link EXCEPT ![o] = r]
         /\ batch'[t] = IF full THEN <<>> ELSE chain
         /\ wk[t].segs = <<>> /\ wk'[t].segs = <<>>
         /\ rt[t].first = NULL
         /\ IF full
            THEN /\ pc'[t] \in {"rt_access", "rt_load"}
                 /\ rt'[t] = [NoRetire EXCEPT !.todo = chain, !.first = o]
                 /\ at'[t] = 0
            ELSE rt'[t] = rt[t] /\ pc'[t] = "in"
<1> DEFINE o == cell[c]
           chain == <<o>> \o batch[t]
           r == chain[Len(chain)]
           full == Len(chain) >= SMRBatch
<1>0. /\ pc \in [Tasks -> PC] /\ HyalineTypeOK /\ ClientTypeOK /\ rt \in [Tasks -> Batches]
      /\ wk \in [Tasks -> Walks] /\ at \in [Tasks -> Slots] /\ batch \in [Tasks -> Seq(Objs)]
      /\ held[t] \in SUBSET Objs
  BY SoundParts, Fields DEF HyalineTypeOK
<1>n. Neat(t)
  BY <1>0, RetireNeat
<1>1. /\ UNCHANGED <<build, next, vec, head, handle, list, mine>>
      /\ pc[t] = "in" /\ o \in held[t]
      /\ cell' = [cell EXCEPT ![c] = NULL]
      /\ status' = [status EXCEPT ![o] = "retired"]
      /\ refs' = [refs EXCEPT ![o] = 0]
      /\ link' = IF full THEN [link EXCEPT ![o] = r, ![r] = o]
                 ELSE [link EXCEPT ![o] = r]
      /\ batch' = [batch EXCEPT ![t] = IF full THEN <<>> ELSE chain]
      /\ \/ /\ full
            /\ rt' = [rt EXCEPT ![t] = [NoRetire EXCEPT !.todo = chain,
                                                     !.first = o]]
            /\ wk' = [wk EXCEPT ![t] = [NoWalk EXCEPT !.ret = "in"]]
            /\ at' = [at EXCEPT ![t] = 0]
            /\ pc' = [pc EXCEPT ![t] = IF build.robust THEN "rt_access" ELSE "rt_load"]
         \/ ~full /\ UNCHANGED <<rt, wk, at, pc>>
  BY DEF Retire, Goto
<1>2. o \in Objs /\ o # NULL /\ status[o] = "linked"
  BY <1>0, <1>1 DEF Sited
<1>3. wk[t].segs = <<>> /\ rt[t].first = NULL
  BY <1>1 DEF Tidy, Walking, Retires
<1>4. o \notin Retired /\ Retired' = Retired \union {o} /\ Sited'
  <2>1. /\ status \in [Objs -> Status] /\ mine \in [Tasks -> Ptrs]
        /\ cell \in [Cells -> Ptrs]
    BY <1>0 DEF ClientTypeOK
  <2> HIDE DEF o
  <2>2. /\ \A x \in Objs : status'[x] = IF x = o THEN "retired" ELSE status[x]
        /\ \A d \in Cells : cell'[d] = IF d = c THEN NULL ELSE cell[d]
    BY <1>1, <1>2, <2>1
  <2>3. o \notin Retired /\ Retired' = Retired \union {o}
    BY <1>2, <2>2 DEF Retired
  <2>4. /\ \A d \in Cells : d # c => cell[d] # o
        /\ \A u \in Tasks : mine[u] # o
    BY <1>2 DEF Sited, o
  <2>5. \A d \in Cells : cell'[d] # NULL => status'[cell'[d]] = "linked"
    BY <2>1, <2>2, <2>4 DEF Sited, Ptrs
  <2>6. \A u \in Tasks : mine'[u] # NULL => status'[mine'[u]] = "private"
    BY <1>1, <2>1, <2>2, <2>4 DEF Sited, Ptrs
  <2>7. \A d, z \in Cells : cell'[d] = cell'[z] /\ cell'[d] # NULL => d = z
    BY <2>2 DEF Sited
  <2> QED
    BY <1>1, <2>3, <2>5, <2>6, <2>7 DEF Sited
<1>5. batch'[t] = IF full THEN <<>> ELSE chain
  BY <1>0, <1>1
<1>6. CASE /\ full
           /\ rt' = [rt EXCEPT ![t] = [NoRetire EXCEPT !.todo = chain, !.first = o]]
           /\ wk' = [wk EXCEPT ![t] = [NoWalk EXCEPT !.ret = "in"]]
           /\ at' = [at EXCEPT ![t] = 0]
           /\ pc' = [pc EXCEPT ![t] = IF build.robust THEN "rt_access" ELSE "rt_load"]
  <2>1. wk'[t].segs = <<>>
    BY <1>0, <1>6 DEF NoWalk
  <2>2. rt'[t] = [NoRetire EXCEPT !.todo = chain, !.first = o] /\ at'[t] = 0
        /\ pc'[t] \in {"rt_access", "rt_load"}
    BY <1>0, <1>6
  <2> HIDE DEF r, chain, o, full
  <2> QED
    BY <1>1, <1>2, <1>3, <1>4, <1>5, <1>6, <1>n, <2>1, <2>2 DEF r, chain, o, full
<1>7. CASE ~full /\ UNCHANGED <<rt, wk, at, pc>>
  <2> HIDE DEF r, chain, full
  <2> QED
    BY <1>1, <1>2, <1>3, <1>4, <1>5, <1>7, <1>n DEF r, chain, full
<1> QED
  BY <1>1, <1>6, <1>7

-----------------------------------------------------------------------------
(***************************************************************************)
(* The steps that change no list leave every thread its way.               *)
(***************************************************************************)

Walked == \A u \in Tasks : Paths(u)

\* The step changes nothing of what the threads owe.
Calm == \A u \in Tasks : Owed(u)' = Owed(u) /\ Paths(u)'

\* The nodes that a thread owes.
LEMMA OwedIs ==
  ASSUME NEW u \in Tasks
  PROVE  Owed(u) = ToDrop(u) \union Rest(next, wk[u].segs)
BY DEF Owed, Rest, Chain

\* The paths of a thread.
LEMMA PathParts ==
  ASSUME Walked, NEW u \in Tasks
  PROVE  /\ Laid(next, wk[u].segs, ToDrop(u))
         /\ Inside(u) => /\ Straight(next, head[vec[u]].ptr, handle[u])
                         /\ handle[u] \in Line(u) \union {NULL}
BY DEF Walked, Paths

\* A thread outside has no list.
LEMMA Outsider ==
  ASSUME NEW u \in Tasks, ~Inside(u)
  PROVE  Line(u) = {} /\ ToDrop(u) = {}
BY DEF Line, ToDrop

\* The list that a thread inside looks at.
LEMMA LineFacts ==
  ASSUME IsFiniteSet(Objs), Sound, NEW u \in Tasks
  PROVE  LET h == head[vec[u]].ptr IN
         /\ next \in [Objs -> Ptrs] /\ h \in Ptrs /\ handle[u] \in Ptrs
         /\ wk[u].segs \in Seq(Segment) /\ vec[u] \in Slots
         /\ Inside(u) => Line(u) = Trail(next, h, handle[u])
         /\ Line(u) \subseteq Objs /\ ToDrop(u) \subseteq Line(u)
         /\ Inside(u) /\ h # NULL => h \in Line(u)
         /\ h = NULL => Line(u) = {}
         /\ Inside(u) /\ h = NULL => handle[u] = NULL
         /\ NULL \notin Owed(u)
<1> DEFINE h == head[vec[u]].ptr
<1>1. /\ next \in [Objs -> Ptrs] /\ h \in Ptrs /\ handle[u] \in Ptrs
      /\ wk[u].segs \in Seq(Segment) /\ vec[u] \in Slots
  BY SoundParts, Fields, HeadType DEF SharedTypeOK
<1>2. Inside(u) => Line(u) = Trail(next, h, handle[u])
  BY DEF Line, Chain
<1>3. /\ Trail(next, h, handle[u]) \subseteq Objs
      /\ h # NULL => h \in Trail(next, h, handle[u])
      /\ h = NULL => Trail(next, h, handle[u]) = {}
  BY <1>1, TrailLeast, TrailNull
<1>4. Line(u) \subseteq Objs /\ ToDrop(u) \subseteq Line(u)
  BY <1>2, <1>3 DEF Line, ToDrop
<1>5. Inside(u) /\ h = NULL => handle[u] = NULL
  BY DEF Sound, Anchored
<1>6. Rest(next, wk[u].segs) \subseteq Objs
  <2>1. ASSUME NEW i \in DOMAIN wk[u].segs
        PROVE  Trail(next, wk[u].segs[i].cur, wk[u].segs[i].end) \subseteq Objs
    <3>1. wk[u].segs[i] \in Segment
      BY <1>1
    <3>2. wk[u].segs[i].cur \in Ptrs
      BY <3>1 DEF Segment
    <3> QED
      BY <1>1, <3>2, TrailLeast
  <2> QED
    BY <2>1 DEF Rest
<1>7. NULL \notin Owed(u)
  BY <1>4, <1>6, OwedIs
<1>8. h = NULL => Line(u) = {}
  BY <1>2, <1>3 DEF Line
<1> QED
  BY <1>1, <1>2, <1>3, <1>4, <1>5, <1>7, <1>8

\* What a thread sees of the lists.
LEMMA SameView ==
  ASSUME NEW u \in Tasks, build' = build, next' = next, vec'[u] = vec[u],
         handle'[u] = handle[u], Inside(u)' <=> Inside(u),
         Inside(u) => head'[vec[u]].ptr = head[vec[u]].ptr,
         wk'[u].segs = wk[u].segs
  PROVE  /\ Line(u)' = Line(u) /\ ToDrop(u)' = ToDrop(u) /\ Owed(u)' = Owed(u)
         /\ Paths(u) /\ pc'[u] # "lv_cas" => Paths(u)'
<1>1. Line(u)' = Line(u)
  BY DEF Line, Chain
<1>2. ToDrop(u)' = ToDrop(u)
  <2>1. CASE Inside(u)
    BY <1>1, <2>1 DEF ToDrop
  <2>2. CASE ~Inside(u)
    BY <1>1, <2>2 DEF ToDrop, Line
  <2> QED
    BY <2>1, <2>2
<1>3. Owed(u)' = Owed(u)
  BY <1>2 DEF Owed, Chain
<1>4. ASSUME Paths(u), pc'[u] # "lv_cas" PROVE Paths(u)'
  <2>1. Laid(next, wk[u].segs, ToDrop(u))'
    BY <1>2, <1>4 DEF Paths
  <2>2. ASSUME Inside(u)'
        PROVE  /\ Straight(next', head'[vec'[u]].ptr, handle'[u])
               /\ handle'[u] \in Line(u)' \union {NULL}
    BY <1>1, <1>4, <2>2 DEF Paths
  <2> QED
    BY <1>4, <2>1, <2>2 DEF Paths
<1> QED
  BY <1>1, <1>2, <1>3, <1>4

\* The same with the head that leave has loaded.
LEMMA SameLoad ==
  ASSUME NEW u \in Tasks, build' = build, next' = next, vec'[u] = vec[u],
         handle'[u] = handle[u], wk'[u] = wk[u], pc'[u] = pc[u],
         Inside(u) => head'[vec[u]].ptr = head[vec[u]].ptr, Paths(u)
  PROVE  Owed(u)' = Owed(u) /\ Paths(u)'
<1>1. Inside(u)' <=> Inside(u)
  BY DEF Inside
<1>2. /\ Line(u)' = Line(u) /\ Owed(u)' = Owed(u) /\ ToDrop(u)' = ToDrop(u)
  BY <1>1, SameView
<1>3. Inside(u)' => /\ Straight(next', head'[vec'[u]].ptr, handle'[u])
                    /\ handle'[u] \in Line(u)' \union {NULL}
  BY <1>1, <1>2 DEF Paths
<1>4. Laid(next, wk[u].segs, ToDrop(u))'
  BY <1>2 DEF Paths
<1>5. pc'[u] = "lv_cas" =>
          /\ wk'[u].curr \in Line(u)' \union {NULL}
          /\ wk'[u].next = IF wk'[u].curr = handle'[u] THEN NULL ELSE next'[wk'[u].curr]
  BY <1>2 DEF Paths
<1> QED
  BY <1>2, <1>3, <1>4, <1>5 DEF Paths

\* The other threads, unless a head changes where they are inside.
LEMMA OthersCalm ==
  ASSUME Walked, NEW t \in Tasks, Good(t), next' = next,
         \A u \in Tasks : u # t /\ Inside(u) => head'[vec[u]].ptr = head[vec[u]].ptr
  PROVE  \A u \in Tasks : u # t => Owed(u)' = Owed(u) /\ Paths(u)'
<1> SUFFICES ASSUME NEW u \in Tasks, u # t
             PROVE  Owed(u)' = Owed(u) /\ Paths(u)'
  OBVIOUS
<1>1. /\ pc'[u] = pc[u] /\ wk'[u] = wk[u] /\ vec'[u] = vec[u] /\ build' = build
      /\ handle'[u] = handle[u] /\ Paths(u)
  BY DEF Good, Kept, Walked
<1> QED
  BY <1>1, SameLoad

\* Everything but the thread itself.
LEMMA HeadsCalm ==
  ASSUME Walked, NEW t \in Tasks, Good(t), next' = next,
         \A u \in Tasks : u # t /\ Inside(u) => head'[vec[u]].ptr = head[vec[u]].ptr,
         Owed(t)' = Owed(t), Paths(t)'
  PROVE  Calm
BY OthersCalm DEF Calm

\* A step that leaves the thread's own view as it is.
LEMMA ViewCalm ==
  ASSUME Walked, NEW t \in Tasks, Good(t), next' = next,
         \A u \in Tasks : Inside(u) => head'[vec[u]].ptr = head[vec[u]].ptr,
         vec'[t] = vec[t], handle'[t] = handle[t], Inside(t)' <=> Inside(t),
         wk'[t].segs = wk[t].segs, pc'[t] # "lv_cas"
  PROVE  Calm
<1>1. build' = build /\ Paths(t)
  BY DEF Good, Walked
<1>2. Owed(t)' = Owed(t) /\ Paths(t)'
  BY <1>1, SameView
<1> QED
  BY <1>2, HeadsCalm

\* With heads of one word no two threads share a slot; with heads of two words
\* no thread shares a slot with the last one inside.
LEMMA Alone ==
  ASSUME Sound, NEW t \in Tasks, NEW u \in Tasks, u # t
  PROVE  /\ build.words = 1 => vec[u] # vec[t]
         /\ Inside(t) /\ Inside(u) /\ vec[u] = vec[t] => head[vec[t]].ref # 1
<1>1. CASE build.words = 1
  <2>1. ~Acks
    BY <1>1 DEF Acks
  <2>2. vec[u] = (u - 1) % NumSlots /\ vec[t] = (t - 1) % NumSlots /\ build \in Builds
    BY <2>1, SoundParts DEF Homely
  <2>3. vec[u] = u - 1 /\ vec[t] = t - 1
    BY <1>1, <2>2, OwnSlot
  <2> QED
    BY <2>3 DEF Tasks
<1>2. ASSUME Inside(t), Inside(u), vec[u] = vec[t] PROVE head[vec[t]].ref # 1
  <2> DEFINE In == {v \in Tasks : vec[v] = vec[t] /\ Inside(v)}
  <2>1. head[vec[t]].ref = Cardinality(In)
    BY SoundParts, Fields DEF Sound, HeadsCount
  <2>2. IsFiniteSet(Tasks)
    BY FS_Interval DEF Tasks
  <2>3. IsFiniteSet(In)
    BY <2>2, FS_Subset
  <2>4. t \in In /\ u \in In
    BY <1>2
  <2> HIDE DEF In
  <2>5. Cardinality(In) # 1
    BY <2>3, <2>4, FS_Singleton
  <2> QED
    BY <2>1, <2>5
<1> QED
  BY <1>1, <1>2

\* Allocation, reads and the search for a slot.
LEMMA IdleCalm ==
  ASSUME Sound, Sited, Walked, NEW t \in Tasks, Tidy(t), Good(t),
         \/ Enter2(t) \/ EnterLook(t)
         \/ Alloc(t) \/ Rideable(t) \/ \E c \in Cells : Read(t, c) \/ Deref(t, c)
         \/ DerefValue(t) \/ DerefGlobal(t) \/ DerefAccess1(t) \/ DerefAccess2(t)
  PROVE  Calm
<1>1. /\ UNCHANGED <<build, next, link, refs, batch, vec, head, handle, list, wk, rt>>
      /\ \/ pc[t] \in Reads /\ pc'[t] \in Reads
         \/ pc[t] \in Rests /\ pc'[t] \in Rests
  BY IdleFx
<1>2. Inside(t)' <=> Inside(t)
  BY <1>1 DEF Inside, Reads, Rests
<1>3. pc'[t] # "lv_cas"
  BY <1>1 DEF Reads, Rests
<1> QED
  BY <1>1, <1>2, <1>3, ViewCalm

\* The thread enters: it owes nothing yet.
LEMMA EnterCalm ==
  ASSUME IsFiniteSet(Objs), Sound, Walked, NEW t \in Tasks, Tidy(t), Good(t),
         Enter1(t) \/ EnterAdd(t)
  PROVE  Calm
<1>1. /\ UNCHANGED <<clientVars, build, next, link, refs, batch, list, wk, rt>>
      /\ pc[t] \in Rests /\ pc'[t] = "in"
      /\ vec'[t] \in Slots
      /\ build.words = 1 => vec'[t] = vec[t] /\ head'[vec'[t]].ptr = NULL
      /\ build.words = 2 => head'[vec'[t]].ptr = head[vec'[t]].ptr
      /\ \A s \in Slots : s # vec'[t] => head'[s] = head[s]
      /\ handle'[t] = head'[vec'[t]].ptr
  BY EnterFx
<1>2. build.words \in {1, 2} /\ SharedTypeOK
  BY SoundParts, SlotFacts
<1>3. \A u \in Tasks : u # t /\ Inside(u) => head'[vec[u]].ptr = head[vec[u]].ptr
  <2> TAKE u \in Tasks
  <2>1. vec[u] \in Slots
    BY SoundParts, Fields
  <2> QED
    BY <1>1, <1>2, <2>1, Alone
<1> DEFINE h == head'[vec'[t]].ptr
<1>4. h \in Ptrs /\ next \in [Objs -> Ptrs] /\ NULL \in Ptrs
  <2>1. head' \in [Slots' -> [ref : 0 .. TaskNum, ptr : Ptrs]] /\ build' = build
    BY DEF Good, SharedTypeOK
  <2>2. head'[vec'[t]] \in [ref : 0 .. TaskNum, ptr : Ptrs]
    BY <1>1, <2>1, SameBuild
  <2> QED
    BY <1>2, <2>2 DEF SharedTypeOK, Ptrs
<1>5. Inside(t)' /\ ~Inside(t)
  BY <1>1 DEF Inside, Rests
<1>6. Line(t)' = Trail(next, h, h)
  BY <1>1, <1>5 DEF Line, Chain
<1>7. /\ h # NULL => Trail(next, h, h) = {h}
      /\ h = NULL => Trail(next, h, h) = {}
  BY <1>4, TrailSplit, TrailNull DEF Ptrs
<1>8. ToDrop(t)' = {} /\ ToDrop(t) = {}
  BY <1>1, <1>2, <1>5, <1>6, <1>7, Outsider DEF ToDrop
<1>9. wk[t].segs = <<>> /\ wk'[t].segs = <<>>
  BY <1>1 DEF Tidy, Rests, Walking
<1>10. Owed(t)' = Owed(t)
  BY <1>1, <1>8 DEF Owed, Chain
<1>11. Straight(next, h, h)
  BY <1>7 DEF Straight
<1>12. Paths(t)'
  <2>1. Laid(next', wk'[t].segs, ToDrop(t)')
    BY <1>9, LaidEmpty
  <2>2. Straight(next', head'[vec'[t]].ptr, handle'[t])
    BY <1>1, <1>11
  <2>3. handle'[t] \in Line(t)' \union {NULL}
    BY <1>1, <1>6, <1>7
  <2> QED
    BY <1>1, <2>1, <2>2, <2>3 DEF Paths
<1> QED
  BY <1>1, <1>3, <1>10, <1>12, HeadsCalm

\* leave looks at the head.
LEMMA LoadHeadCalm ==
  ASSUME IsFiniteSet(Objs), Sound, Walked, NEW t \in Tasks, Tidy(t), Good(t),
         Leave2(t) \/ LeaveTrim2(t) \/ LeaveRetry(t)
  PROVE  Calm
<1>1. /\ Untouched /\ UNCHANGED <<head, handle, list, rt, at>>
      /\ pc[t] \in {"in", "leave", "lv_cas"} /\ pc'[t] = "lv_cas"
      /\ wk'[t].segs = wk[t].segs /\ build.words = 2
      /\ wk'[t].curr = head[vec[t]].ptr
      /\ wk'[t].next = IF head[vec[t]].ptr = handle[t] THEN NULL
                       ELSE next[head[vec[t]].ptr]
  BY LoadHeadFx
<1>2. UNCHANGED <<next, vec, build>>
  BY <1>1 DEF Untouched
<1>3. Inside(t)' /\ Inside(t)
  BY <1>1 DEF Inside
<1>4. Line(t)' = Line(t) /\ ToDrop(t)' = ToDrop(t) /\ Owed(t)' = Owed(t)
  BY <1>1, <1>2, <1>3, SameView
<1>5. wk'[t].curr \in Line(t)' \union {NULL}
  BY <1>1, <1>3, <1>4, LineFacts
<1>6. Laid(next', wk'[t].segs, ToDrop(t)')
  BY <1>1, <1>2, <1>4, PathParts
<1>7. Straight(next', head'[vec'[t]].ptr, handle'[t]) /\ handle'[t] \in Line(t)' \union {NULL}
  BY <1>1, <1>2, <1>3, <1>4, PathParts
<1>8. Paths(t)'
  BY <1>1, <1>2, <1>5, <1>6, <1>7 DEF Paths
<1> QED
  BY <1>1, <1>2, <1>4, <1>8, HeadsCalm

-----------------------------------------------------------------------------
(***************************************************************************)
(* The steps of leave and trim that take a list to walk.                   *)
(***************************************************************************)

\* A walk of one segment.
LEMMA WalkOnly ==
  ASSUME IsFiniteSet(Objs), NEW f \in [Objs -> Ptrs], NEW X, NEW n \in Nat,
         NEW c \in Ptrs, NEW e \in Ptrs, Straight(f, c, e),
         Trail(f, c, e) \intersect X = {}
  PROVE  Laid(f, Walk(c, e, n), X) /\ Rest(f, Walk(c, e, n)) = Trail(f, c, e)
<1>1. ASSUME NEW Z \in Seq(Segment), Laid(f, Z, X),
             Trail(f, c, e) \intersect Rest(f, Z) = {}
      PROVE  /\ Laid(f, Walk(c, e, n) \o Z, X)
             /\ Rest(f, Walk(c, e, n) \o Z) = Trail(f, c, e) \union Rest(f, Z)
  <2>1. Laid(f, Walk(c, e, n) \o Z, X)
    BY <1>1, LaidWalk
  <2>2. Rest(f, Walk(c, e, n) \o Z) = Trail(f, c, e) \union Rest(f, Z)
    BY <1>1, LaidWalk
  <2> QED
    BY <2>1, <2>2
<1>2. <<>> \in Seq(Segment) /\ Laid(f, <<>>, X) /\ Rest(f, <<>>) = {}
  BY LaidEmpty
<1> DEFINE W == Walk(c, e, n)
<1>3. W \in Seq(Segment)
  BY WalkType
<1> HIDE DEF W
<1>4. W \o <<>> = W
  BY <1>3
<1>5. /\ Laid(f, W \o <<>>, X)
      /\ Rest(f, W \o <<>>) = Trail(f, c, e) \union Rest(f, <<>>)
  BY <1>1, <1>2 DEF W
<1> QED
  BY <1>2, <1>4, <1>5 DEF W

\* A thread that is outside after the step owes what it has still to walk.
LEMMA LeaverCalm ==
  ASSUME NEW t \in Tasks, ~Inside(t)', next' = next, pc'[t] # "lv_cas", NEW S,
         wk'[t].segs = S, Laid(next, S, {}), Rest(next, S) = Owed(t)
  PROVE  Owed(t)' = Owed(t) /\ Paths(t)'
<1>1. ToDrop(t)' = {} /\ Line(t)' = {}
  BY DEF ToDrop, Line
<1>2. Owed(t)' = Rest(next, S)
  BY <1>1 DEF Owed, Rest, Chain
<1>3. Paths(t)'
  BY <1>1 DEF Paths
<1> QED
  BY <1>2, <1>3

\* leave with heads of one word.
LEMMA TakeListCalm ==
  ASSUME IsFiniteSet(Objs), Sound, Walked, NEW t \in Tasks, Tidy(t), Good(t),
         Leave1(t) \/ LeaveTrim1(t)
  PROVE  Calm
<1> DEFINE h == head[vec[t]].ptr
           e == handle[t]
           S == wk[t].segs
           T == IF h = NULL THEN S ELSE Walk(h, e, 0) \o S
<1>1. /\ Untouched /\ UNCHANGED <<handle, list, rt>>
      /\ pc[t] \in {"in", "leave"} /\ build.words = 1 /\ ~Inside(t)'
      /\ head' = [head EXCEPT ![vec[t]] = [ref |-> 0, ptr |-> NULL]]
      /\ wk'[t].segs = T
      /\ pc'[t] \in {"trav", "ack", "free", "look", "add", "out", "in"}
  BY TakeListFx
<1>2. /\ next \in [Objs -> Ptrs] /\ h \in Ptrs /\ e \in Ptrs
      /\ S \in Seq(Segment) /\ vec[t] \in Slots
      /\ Line(t) = Trail(next, h, e) /\ (h = NULL => Line(t) = {})
  BY <1>1, LineFacts DEF Inside
<1>3. Laid(next, S, Line(t)) /\ Straight(next, h, e)
  BY <1>1, PathParts DEF Inside, ToDrop
<1>4. Owed(t) = Line(t) \union Rest(next, S)
  BY <1>1, OwedIs DEF ToDrop
<1>5. Laid(next, T, {}) /\ Rest(next, T) = Owed(t)
  <2>1. Laid(next, S, {}) /\ Line(t) \intersect Rest(next, S) = {}
    BY <1>3, LaidApart, LaidMeets
  <2>2. CASE h = NULL
    BY <1>2, <1>4, <2>1, <2>2
  <2>3. CASE h # NULL
    <3>0. /\ Trail(next, h, e) \intersect {} = {} /\ 0 \in Nat
          /\ Trail(next, h, e) \intersect Rest(next, S) = {}
      BY <1>2, <2>1
    <3>1. /\ Laid(next, Walk(h, e, 0) \o S, {})
          /\ Rest(next, Walk(h, e, 0) \o S) = Trail(next, h, e) \union Rest(next, S)
      <4> HIDE DEF h, e, S, T
      <4> QED
        BY <1>2, <1>3, <2>1, <3>0, LaidWalk
    <3>2. T = Walk(h, e, 0) \o S
      BY <2>3
    <3> QED
      BY <1>2, <1>4, <3>1, <3>2
  <2> QED
    BY <2>2, <2>3
<1> HIDE DEF T
<1>6. Owed(t)' = Owed(t) /\ Paths(t)'
  BY <1>1, <1>5, LeaverCalm DEF Untouched
<1>7. \A u \in Tasks : u # t /\ Inside(u) => head'[vec[u]].ptr = head[vec[u]].ptr
  <2> TAKE u \in Tasks
  <2>1. u # t => vec[u] # vec[t]
    BY <1>1, Alone
  <2>2. vec[u] \in Slots /\ head \in [Slots -> [ref : 0 .. TaskNum, ptr : Ptrs]]
    BY SoundParts, Fields DEF SharedTypeOK
  <2> QED
    BY <1>1, <2>1, <2>2
<1> QED
  BY <1>1, <1>6, <1>7, HeadsCalm DEF Untouched

\* leave with heads of two words.
LEMMA LeaveCasCalm ==
  ASSUME IsFiniteSet(Objs), Sound, Walked, NEW t \in Tasks, Tidy(t), Good(t),
         LeaveCas(t)
  PROVE  Calm
<1> DEFINE c == wk[t].curr
           e == handle[t]
           S == wk[t].segs
           T == (IF c = e THEN <<>> ELSE Walk(wk[t].next, e, 0)) \o S
           last == head[vec[t]].ref = 1
<1>1. /\ Untouched /\ UNCHANGED <<handle, list>>
      /\ pc[t] = "lv_cas" /\ build.words = 2 /\ ~Inside(t)'
      /\ head[vec[t]].ptr = c
      /\ head' = [head EXCEPT ![vec[t]] =
               [ref |-> head[vec[t]].ref - 1,
                ptr |-> IF last /\ build.full THEN NULL ELSE c]]
      /\ wk'[t].segs = T /\ pc'[t] # "lv_cas"
  BY LeaveCasFx
<1>2. /\ next \in [Objs -> Ptrs] /\ c \in Ptrs /\ e \in Ptrs
      /\ S \in Seq(Segment) /\ vec[t] \in Slots /\ Inside(t)
      /\ Line(t) = Trail(next, c, e) /\ (c = NULL => Line(t) = {} /\ e = NULL)
  BY <1>1, LineFacts DEF Inside
<1>3. Laid(next, S, ToDrop(t)) /\ Straight(next, c, e) /\ ToDrop(t) = Line(t) \ {c}
  <2>1. /\ Laid(next, S, ToDrop(t)) /\ Straight(next, head[vec[t]].ptr, handle[t])
        /\ ToDrop(t) = Line(t) \ {head[vec[t]].ptr}
    <3>1. build.words # 1
      BY <1>1
    <3>2. ToDrop(t) = Line(t) \ {head[vec[t]].ptr}
      BY <3>1 DEF ToDrop
    <3> QED
      BY <1>2, <3>2, PathParts
  <2> QED
    BY <1>1, <2>1
<1>4. Owed(t) = ToDrop(t) \union Rest(next, S)
  BY OwedIs
<1>5. Laid(next, T, {}) /\ Rest(next, T) = Owed(t)
  <2>1. Laid(next, S, {}) /\ ToDrop(t) \intersect Rest(next, S) = {}
    BY <1>3, LaidApart, LaidMeets
  <2>2. CASE c = e
    <3>1. T = S
      BY <1>2, <2>2
    <3>2. ToDrop(t) = {}
      BY <1>2, <1>3, <2>2, TrailSplit DEF Ptrs
    <3> QED
      BY <1>4, <2>1, <3>1, <3>2
  <2>3. CASE c # e
    <3>1. c \in Objs
      BY <1>2, <2>3 DEF Ptrs
    <3>2. wk[t].next = next[c]
      BY <1>1, <2>3 DEF Walked, Paths
    <3>3. /\ Trail(next, next[c], e) = ToDrop(t) /\ Straight(next, next[c], e)
          /\ next[c] \in Ptrs
      BY <1>2, <1>3, <2>3, <3>1, TrailPop
    <3>4. /\ Laid(next, Walk(next[c], e, 0) \o S, {})
          /\ Rest(next, Walk(next[c], e, 0) \o S) = Trail(next, next[c], e) \union Rest(next, S)
      BY <1>2, <2>1, <3>3, LaidWalk
    <3> QED
      BY <1>4, <2>3, <3>2, <3>3, <3>4
  <2> QED
    BY <2>2, <2>3
<1> HIDE DEF T
<1>6. Owed(t)' = Owed(t) /\ Paths(t)'
  BY <1>1, <1>5, LeaverCalm DEF Untouched
<1>7. \A u \in Tasks : u # t /\ Inside(u) => head'[vec[u]].ptr = head[vec[u]].ptr
  <2> SUFFICES ASSUME NEW u \in Tasks, u # t, Inside(u)
               PROVE  head'[vec[u]].ptr = head[vec[u]].ptr
    OBVIOUS
  <2>1. vec[u] = vec[t] => ~last
    BY <1>2, Alone
  <2>2. vec[u] \in Slots /\ head \in [Slots -> [ref : 0 .. TaskNum, ptr : Ptrs]]
    BY SoundParts, Fields DEF SharedTypeOK
  <2> QED
    BY <1>1, <2>1, <2>2
<1> QED
  BY <1>1, <1>6, <1>7, HeadsCalm DEF Untouched

\* The list of an empty slot is taken.
LEMMA LeaveClearCalm ==
  ASSUME Sound, Walked, NEW t \in Tasks, Tidy(t), Good(t), LeaveClear(t)
  PROVE  Calm
<1>1. /\ Untouched /\ UNCHANGED <<handle, list>>
      /\ ~Inside(t) /\ ~Inside(t)'
      /\ wk'[t].segs = wk[t].segs /\ pc'[t] # "lv_cas"
      /\ \/ /\ head[vec[t]].ref = 0 /\ head[vec[t]].ptr = rt[t].node
            /\ head' = [head EXCEPT ![vec[t]].ptr = NULL]
         \/ head' = head
  BY LeaveClearFx
<1>2. \A u \in Tasks : Inside(u) => head'[vec[u]].ptr = head[vec[u]].ptr
  <2> SUFFICES ASSUME NEW u \in Tasks, Inside(u)
               PROVE  head'[vec[u]].ptr = head[vec[u]].ptr
    OBVIOUS
  <2>1. head[vec[u]].ref >= 1
    BY HeadFacts
  <2>2. /\ vec[u] \in Slots /\ vec[t] \in Slots
        /\ head \in [Slots -> [ref : 0 .. TaskNum, ptr : Ptrs]]
    BY SoundParts, Fields DEF SharedTypeOK
  <2> QED
    BY <1>1, <2>1, <2>2
<1> QED
  BY <1>1, <1>2, ViewCalm DEF Untouched

\* A segment without a node was walked.
LEMMA AckCalm ==
  ASSUME IsFiniteSet(Objs), Sound, Walked, NEW t \in Tasks, Tidy(t), Good(t), Ack(t)
  PROVE  Calm
<1> DEFINE S == wk[t].segs
<1>1. /\ Untouched /\ UNCHANGED <<head, handle, list, rt>>
      /\ pc[t] = "ack" /\ S # <<>> /\ Head(S).cur = NULL
      /\ Inside(t)' <=> Inside(t)
      /\ wk'[t].segs = Tail(S) /\ pc'[t] # "lv_cas"
  BY AckFx
<1>2. next' = next /\ vec' = vec /\ build' = build
  BY <1>1 DEF Untouched
<1>3. S \in Seq(Segment) /\ next \in [Objs -> Ptrs]
  BY LineFacts
<1>4. Laid(next, S, ToDrop(t))
  BY PathParts
<1>5. /\ Rest(next, S) = Rest(next, Tail(S)) /\ Laid(next, Tail(S), ToDrop(t))
  <2>1. Trail(next, Head(S).cur, Head(S).end) = {}
    BY <1>1, <1>3, TrailNull
  <2> HIDE DEF S
  <2>2. /\ Rest(next, S) = Trail(next, Head(S).cur, Head(S).end) \union Rest(next, Tail(S))
        /\ Laid(next, Tail(S), ToDrop(t))
    BY <1>1, <1>3, <1>4, LaidTail
  <2> QED
    BY <2>1, <2>2
<1> HIDE DEF S
<1>6. Line(t)' = Line(t) /\ ToDrop(t)' = ToDrop(t)
  BY <1>1, <1>2 DEF Line, Chain, ToDrop
<1>7. Owed(t)' = ToDrop(t) \union Rest(next, Tail(S))
  BY <1>1, <1>2, <1>6 DEF Owed, Rest, Chain
<1>8. Owed(t)' = Owed(t)
  BY <1>5, <1>7, OwedIs DEF S
<1>9. Inside(t)' => /\ Straight(next', head'[vec'[t]].ptr, handle'[t])
                    /\ handle'[t] \in Line(t)' \union {NULL}
  BY <1>1, <1>2, <1>6, PathParts
<1>10. Paths(t)'
  BY <1>1, <1>2, <1>5, <1>6, <1>9 DEF Paths
<1> QED
  BY <1>1, <1>2, <1>8, <1>10, HeadsCalm

\* trim puts what the thread has to drop on its walk.
LEMMA TrimCalm ==
  ASSUME IsFiniteSet(Objs), Sound, Walked, NEW t \in Tasks, Tidy(t), Good(t), Trim(t)
  PROVE  Calm
<1> DEFINE h == head[vec[t]].ptr
           e == handle[t]
           T == IF h = e THEN <<>> ELSE Walk(next[h], e, 0)
<1>1. /\ Untouched /\ UNCHANGED <<head, list, rt>>
      /\ pc[t] = "in" /\ Inside(t)' /\ wk[t].segs = <<>>
      /\ handle' = [handle EXCEPT ![t] = h]
      /\ wk'[t].segs = T /\ pc'[t] # "lv_cas"
  BY TrimFx
<1>2. next' = next /\ vec' = vec /\ build' = build
  BY <1>1 DEF Untouched
<1>3. /\ next \in [Objs -> Ptrs] /\ h \in Ptrs /\ e \in Ptrs /\ Inside(t)
      /\ Line(t) = Trail(next, h, e) /\ (h = NULL => Line(t) = {} /\ e = NULL)
      /\ (h # NULL => h \in Line(t))
  BY <1>1, LineFacts DEF Inside
<1>4. Straight(next, h, e)
  BY <1>3, PathParts
<1>5. handle'[t] = h
  BY <1>1, SoundParts DEF OwnTypeOK
<1>6. Line(t)' = Trail(next, h, h) /\ Trail(next, h, h) = {h} \ {NULL}
      /\ Straight(next, h, h)
  <2>1. Line(t)' = Trail(next, h, h)
    BY <1>1, <1>2, <1>5 DEF Line, Chain
  <2>2. CASE h = NULL
    BY <1>3, <2>1, <2>2, TrailNull, StraightNull
  <2>3. CASE h # NULL
    <3>1. h \in Objs
      BY <1>3, <2>3 DEF Ptrs
    <3>2. Trail(next, h, h) = {h}
      BY <1>3, <3>1, TrailSplit
    <3> QED
      BY <2>1, <2>3, <3>2 DEF Straight
  <2> QED
    BY <2>2, <2>3
<1>7. /\ Laid(next, T, Line(t)' ) /\ Rest(next, T) = Line(t) \ {h}
  <2>1. CASE h = e
    <3>1. Line(t) \ {h} = {}
      BY <1>3, <2>1, TrailSplit DEF Ptrs
    <3> QED
      BY <2>1, <3>1, LaidEmpty
  <2>2. CASE h # e
    <3>1. h \in Objs
      BY <1>3, <2>2 DEF Ptrs
    <3>2. /\ Trail(next, next[h], e) = Line(t) \ {h} /\ Straight(next, next[h], e)
          /\ next[h] \in Ptrs
      BY <1>3, <1>4, <2>2, <3>1, TrailPop
    <3>3. Trail(next, next[h], e) \intersect Line(t)' = {}
      BY <1>6, <3>2
    <3>4. /\ Laid(next, Walk(next[h], e, 0), Line(t)')
          /\ Rest(next, Walk(next[h], e, 0)) = Trail(next, next[h], e)
      <4> DEFINE X == Line(t)'
                 c == next[h]
      <4>1. /\ Trail(next, c, e) \intersect X = {} /\ c \in Ptrs /\ Straight(next, c, e)
            /\ 0 \in Nat
        BY <3>2, <3>3
      <4> HIDE DEF X, c, h, e, T
      <4>2. Laid(next, Walk(c, e, 0), X) /\ Rest(next, Walk(c, e, 0)) = Trail(next, c, e)
        BY <1>3, <4>1, WalkOnly
      <4> QED
        BY <4>2 DEF X, c
    <3> QED
      BY <2>2, <3>2, <3>4
  <2> QED
    BY <2>1, <2>2
<1> HIDE DEF T
<1>8. ToDrop(t) = IF build.words = 1 THEN Line(t) ELSE Line(t) \ {h}
  BY DEF ToDrop
<1>9. ToDrop(t)' = IF build.words = 1 THEN Line(t)' ELSE Line(t)' \ {h}
  BY <1>1, <1>2 DEF ToDrop
<1>10. Owed(t)' = ToDrop(t)' \union Rest(next, T)
  BY <1>1, <1>2 DEF Owed, Rest, Chain
<1>11. Owed(t) = ToDrop(t)
  BY <1>1, OwedIs, LaidEmpty
<1>12. Owed(t)' = Owed(t)
  <2>1. h = NULL \/ h \in Line(t)
    BY <1>3
  <2>2. NULL \notin Line(t)
    BY LineFacts
  <2> QED
    BY <1>3, <1>6, <1>7, <1>8, <1>9, <1>10, <1>11, <2>1, <2>2
<1>13. Laid(next, T, ToDrop(t)')
  BY <1>6, <1>7, <1>9, LaidApart
<1>14. Paths(t)'
  BY <1>1, <1>2, <1>5, <1>6, <1>13 DEF Paths
<1> QED
  BY <1>1, <1>2, <1>12, <1>14, HeadsCalm

-----------------------------------------------------------------------------
(***************************************************************************)
(* A step of the walk.                                                     *)
(***************************************************************************)

\* Adjustments, slots that retire passes by, and what is freed or retired.
LEMMA StillCalm ==
  ASSUME Sound, Sited, Walked, NEW t \in Tasks, Tidy(t), Good(t),
         \/ LeaveAdjust(t) \/ RtFin(t) \/ RtAccess(t) \/ RtLoad(t) \/ RtRetry(t)
         \/ RtAdjust(t) \/ RtCount(t) \/ FreeList(t) \/ \E c \in Cells : Retire(t, c)
  PROVE  Calm
<1>1. CASE LeaveAdjust(t) \/ RtFin(t)
  BY <1>1, LastAdjustFx, ViewCalm
<1>2. CASE FreeList(t)
  BY <1>2, FreeFx, ViewCalm
<1>3. ASSUME pc[t] \in Retires PROVE Inside(t) /\ wk[t].segs = <<>>
  BY <1>3 DEF Inside, Retires, Tidy, Walking
<1>4. ASSUME NEW r, Onward(t, r) PROVE Inside(t)' /\ wk'[t].segs = <<>> /\ pc'[t] # "lv_cas"
  BY <1>4 DEF Onward
<1>5. CASE RtAccess(t) \/ RtLoad(t) \/ RtRetry(t)
  <2>1. /\ Untouched /\ UNCHANGED <<head, handle>> /\ pc[t] \in Retires
        /\ \/ pc'[t] \in {"rt_load", "rt_cas"} /\ wk'[t].segs = <<>>
           \/ Onward(t, IF build.words = 1 THEN rt[t] ELSE Skipped(t))
    BY <1>5, RtLookFx DEF Retires
  <2>2. Inside(t)' /\ wk'[t].segs = <<>> /\ pc'[t] # "lv_cas"
    BY <1>4, <2>1 DEF Inside
  <2> QED
    BY <1>3, <2>1, <2>2, ViewCalm DEF Untouched
<1>6. CASE RtAdjust(t)
  <2>1. /\ UNCHANGED <<next, vec, head, handle>> /\ pc[t] \in Retires
        /\ pc'[t] = "rt_count" /\ wk'[t].segs = <<>>
    BY <1>6, RtAdjustFx DEF Retires
  <2>2. Inside(t)'
    BY <2>1 DEF Inside
  <2> QED
    BY <1>3, <2>1, <2>2, ViewCalm
<1>7. CASE RtCount(t)
  <2>1. /\ Untouched /\ UNCHANGED <<head, handle>> /\ pc[t] \in Retires
        /\ Onward(t, [rt[t] EXCEPT !.todo = Tail(@), !.refs = 0])
    BY <1>7, RtCountFx DEF Retires
  <2>2. Inside(t)' /\ wk'[t].segs = <<>> /\ pc'[t] # "lv_cas"
    BY <1>4, <2>1
  <2> QED
    BY <1>3, <2>1, <2>2, ViewCalm DEF Untouched
<1>8. ASSUME NEW c \in Cells, Retire(t, c) PROVE Calm
  <2>1. /\ UNCHANGED <<next, vec, head, handle>> /\ pc[t] = "in"
        /\ wk[t].segs = <<>> /\ wk'[t].segs = <<>>
        /\ pc'[t] \in {"in", "rt_access", "rt_load"}
    BY <1>8, RetireFx
  <2>2. Inside(t) /\ Inside(t)' /\ pc'[t] # "lv_cas"
    BY <2>1 DEF Inside
  <2> QED
    BY <2>1, <2>2, ViewCalm
<1> QED
  BY <1>1, <1>2, <1>5, <1>6, <1>7, <1>8

\* traverse drops the reference to one node.
LEMMA TraversePaths ==
  ASSUME IsFiniteSet(Objs), Sound, Walked, NEW t \in Tasks, Tidy(t), Good(t), Traverse(t)
  PROVE  LET n == Head(wk[t].segs).cur IN
         /\ n \in Owed(t) /\ Owed(t)' = Owed(t) \ {n} /\ Paths(t)'
         /\ \A u \in Tasks : u # t => Owed(u)' = Owed(u) /\ Paths(u)'
<1> DEFINE S == wk[t].segs
           c == Head(S).cur
           e == Head(S).end
           m == Head(S).n
           T == (IF c = e THEN Done(m + 1) ELSE Walk(next[c], e, m + 1)) \o Tail(S)
           X == ToDrop(t)
<1>1. /\ UNCHANGED <<clientVars, build, next, link, batch, vec, head, handle, rt>>
      /\ pc[t] = "trav" /\ S # <<>> /\ Head(S) \in Segment /\ c # NULL
      /\ Inside(t)' <=> Inside(t)
      /\ wk'[t].segs = T /\ pc'[t] # "lv_cas"
  BY TraverseFx
<1>2. /\ next \in [Objs -> Ptrs] /\ S \in Seq(Segment) /\ Tail(S) \in Seq(Segment)
      /\ c \in Objs /\ e \in Ptrs /\ m + 1 \in Nat /\ next[c] \in Ptrs
  <2>1. next \in [Objs -> Ptrs] /\ S \in Seq(Segment)
    BY LineFacts
  <2>2. c \in Objs /\ e \in Ptrs /\ m \in Nat
    BY <1>1 DEF Segment, Ptrs
  <2>3. Tail(S) \in Seq(Segment)
    <3> HIDE DEF S
    <3> QED
      BY <1>1, <2>1
  <2> QED
    BY <2>1, <2>2, <2>3
<1>3. Laid(next, S, X) /\ Owed(t) = X \union Rest(next, S)
  BY PathParts, OwedIs
<1> HIDE DEF S, X
<1>4. /\ Rest(next, S) = Trail(next, c, e) \union Rest(next, Tail(S))
      /\ Trail(next, c, e) \intersect Rest(next, Tail(S)) = {}
      /\ Trail(next, c, e) \intersect X = {}
      /\ Laid(next, Tail(S), X) /\ Straight(next, c, e)
  BY <1>1, <1>2, <1>3, LaidTail
<1>5. /\ Laid(next, T, X)
      /\ Rest(next, T) = (Trail(next, c, e) \ {c}) \union Rest(next, Tail(S))
  <2>1. CASE c = e
    <3>1. T = Done(m + 1) \o Tail(S) /\ Trail(next, c, e) \ {c} = {}
      BY <1>2, <2>1, TrailSplit
    <3>2. /\ Laid(next, Done(m + 1) \o Tail(S), X)
          /\ Rest(next, Done(m + 1) \o Tail(S)) = Rest(next, Tail(S))
      BY <1>2, <1>4, LaidDone
    <3> QED
      BY <3>1, <3>2
  <2>2. CASE c # e
    <3>1. /\ Trail(next, next[c], e) = Trail(next, c, e) \ {c}
          /\ Straight(next, next[c], e)
      BY <1>2, <1>4, <2>2, TrailPop
    <3>2. /\ Trail(next, next[c], e) \intersect X = {}
          /\ Trail(next, next[c], e) \intersect Rest(next, Tail(S)) = {}
      BY <1>4, <3>1
    <3>3. T = Walk(next[c], e, m + 1) \o Tail(S)
      BY <2>2
    <3> DEFINE p == next[c]
               k == m + 1
               Z == Tail(S)
    <3>4. /\ Laid(next, Z, X) /\ Straight(next, p, e) /\ p \in Ptrs /\ k \in Nat
          /\ Trail(next, p, e) \intersect X = {} /\ Z \in Seq(Segment)
          /\ Trail(next, p, e) \intersect Rest(next, Z) = {}
      BY <1>2, <1>4, <3>1, <3>2
    <3> HIDE DEF p, k, Z, c, e, m, T
    <3>5. Laid(next, Walk(p, e, k) \o Z, X)
      BY <1>2, <3>4, LaidWalk
    <3>6. Rest(next, Walk(p, e, k) \o Z) = Trail(next, p, e) \union Rest(next, Z)
      BY <1>2, <3>4, LaidWalk
    <3> QED
      BY <3>1, <3>3, <3>5, <3>6 DEF p, k, Z
  <2> QED
    BY <2>1, <2>2
<1>6. c \in Trail(next, c, e)
  BY <1>2, TrailSplit
<1> HIDE DEF T, c, e, m
<1>7. Line(t)' = Line(t) /\ ToDrop(t)' = X
  BY <1>1 DEF Line, Chain, ToDrop, X
<1>8. Owed(t)' = X \union Rest(next, T)
  BY <1>1, <1>7 DEF Owed, Rest, Chain
<1>9. Owed(t)' = Owed(t) \ {c} /\ c \in Owed(t)
  BY <1>3, <1>4, <1>5, <1>6, <1>8
<1>10. Inside(t)' => /\ Straight(next', head'[vec'[t]].ptr, handle'[t])
                     /\ handle'[t] \in Line(t)' \union {NULL}
  BY <1>1, <1>7, PathParts
<1>11. Paths(t)'
  BY <1>1, <1>5, <1>7, <1>10 DEF Paths
<1>12. \A u \in Tasks : u # t => Owed(u)' = Owed(u) /\ Paths(u)'
  BY <1>1, OthersCalm
<1> QED
  BY <1>9, <1>11, <1>12 DEF c, S

-----------------------------------------------------------------------------
(***************************************************************************)
(* A node pushed to a slot.                                                *)
(***************************************************************************)

\* What a thread gains when node n is pushed on slot s.
Gain(u, n, s) ==
    IF Inside(u) /\ vec[u] = s
    THEN IF build.words = 1 THEN {n} ELSE {head[s].ptr} \ {NULL}
    ELSE {}

\* The list of a thread after the push.
LEMMA PushLine ==
  ASSUME IsFiniteSet(Objs), Sound, Sound', Walked, NEW n \in Objs, NEW s \in Slots,
         next' = [next EXCEPT ![n] = head[s].ptr], head' = [head EXCEPT ![s].ptr = n],
         NEW u \in Tasks, vec' = vec, handle' = handle, Inside(u)' <=> Inside(u),
         n \notin Line(u)
  PROVE  /\ Inside(u) /\ vec[u] = s =>
               /\ Line(u)' = Line(u) \union {n}
               /\ head'[vec'[u]].ptr = n
         /\ ~(Inside(u) /\ vec[u] = s) =>
               /\ Line(u)' = Line(u)
               /\ Inside(u) => head'[vec'[u]].ptr = head[vec[u]].ptr
         /\ Inside(u)' => /\ Straight(next', head'[vec'[u]].ptr, handle'[u])
                          /\ handle'[u] \in Line(u)' \union {NULL}
<1> DEFINE h == head[vec[u]].ptr
           e == handle[u]
           b == head[s].ptr
<1>1. /\ next \in [Objs -> Ptrs] /\ next' \in [Objs -> Ptrs] /\ h \in Ptrs /\ e \in Ptrs
      /\ vec[u] \in Slots /\ b \in Ptrs
      /\ head \in [Slots -> [ref : 0 .. TaskNum, ptr : Ptrs]]
      /\ (Inside(u) => Line(u) = Trail(next, h, e))
  <2>1. SharedTypeOK /\ SharedTypeOK'
    BY TypeParts, SoundParts, PTL DEF Sound
  <2>2. b \in Ptrs
    BY <2>1, HeadType
  <2> QED
    BY <2>1, <2>2, LineFacts DEF SharedTypeOK
<1>2. next'[n] = b /\ \A m \in Objs \ {n} : next'[m] = next[m]
  BY <1>1
<1>3. \A z \in Slots : head'[z].ptr = IF z = s THEN n ELSE head[z].ptr
  BY <1>1
<1>4. CASE ~Inside(u)
  BY <1>4 DEF Line
<1>5. CASE Inside(u) /\ vec[u] # s
  <2>1. Straight(next, h, e) /\ e \in Line(u) \union {NULL}
    BY <1>5, PathParts
  <2>2. \A m \in Trail(next, h, e) \ {e} : next'[m] = next[m]
    BY <1>1, <1>2, <1>5, LineFacts
  <2>3. Trail(next', h, e) = Trail(next, h, e) /\ Straight(next', h, e)
    <3> DEFINE g == next'
    <3>1. g \in [Objs -> Ptrs] /\ \A m \in Trail(next, h, e) \ {e} : g[m] = next[m]
      BY <1>1, <2>2
    <3> HIDE DEF g, h, e
    <3>2. Trail(g, h, e) = Trail(next, h, e) /\ Straight(g, h, e)
      BY <1>1, <2>1, <3>1, TrailFrame, StraightFrame
    <3> QED
      BY <3>2 DEF g
  <2>4. head'[vec'[u]].ptr = h /\ handle'[u] = e
    BY <1>1, <1>3, <1>5
  <2>5. Line(u)' = Trail(next', h, e)
    BY <1>5, <2>4 DEF Line, Chain
  <2> QED
    BY <1>1, <1>5, <2>1, <2>3, <2>4, <2>5
<1>6. CASE Inside(u) /\ vec[u] = s
  <2>1. Straight(next, h, e) /\ e \in Line(u) \union {NULL} /\ h = b
    BY <1>6, PathParts
  <2>2. n # e
    BY <2>1
  <2>3. Trail(next', n, e) = {n} \union Trail(next, h, e) /\ Straight(next', n, e)
    <3> DEFINE g == next'
    <3>1. /\ g \in [Objs -> Ptrs] /\ g[n] = h /\ \A m \in Objs \ {n} : g[m] = next[m]
          /\ n \notin Trail(next, h, e)
      BY <1>1, <1>2, <1>6, <2>1
    <3> HIDE DEF g, h, e
    <3>2. Trail(g, n, e) = {n} \union Trail(next, h, e)
      BY <1>1, <2>1, <2>2, <3>1, TrailPush
    <3>3. Straight(g, n, e)
      BY <1>1, <2>1, <2>2, <3>1, TrailPush
    <3> QED
      BY <3>2, <3>3 DEF g
  <2>4. head'[vec'[u]].ptr = n /\ handle'[u] = e
    BY <1>1, <1>3, <1>6
  <2>5. Line(u)' = Trail(next', n, e)
    BY <1>6, <2>4 DEF Line, Chain
  <2> QED
    BY <1>1, <1>6, <2>1, <2>3, <2>4, <2>5
<1> QED
  BY <1>4, <1>5, <1>6

\* What every thread owes after a push of a node that is not in play.
LEMMA PushPaths ==
  ASSUME IsFiniteSet(Objs), Sound, Sound', Walked, NEW n \in Objs, NEW s \in Slots,
         next' = [next EXCEPT ![n] = head[s].ptr], head' = [head EXCEPT ![s].ptr = n],
         NEW u \in Tasks, vec' = vec, handle' = handle, build' = build,
         Inside(u)' <=> Inside(u), wk'[u].segs = wk[u].segs,
         pc'[u] = "lv_cas" => pc[u] = "lv_cas" /\ wk'[u] = wk[u],
         n \notin InPlay, build.words = 2 => Tops \intersect AllOwed = {}
  PROVE  Paths(u)' /\ Owed(u)' = Owed(u) \union Gain(u, n, s)
<1> DEFINE h == head[vec[u]].ptr
           b == head[s].ptr
           S == wk[u].segs
           pushed == Inside(u) /\ vec[u] = s
<1>1. /\ next \in [Objs -> Ptrs] /\ next' \in [Objs -> Ptrs] /\ h \in Ptrs
      /\ vec[u] \in Slots /\ S \in Seq(Segment) /\ Line(u) \subseteq Objs
      /\ (Inside(u) /\ h # NULL => h \in Line(u)) /\ (h = NULL => Line(u) = {})
  <2>1. SharedTypeOK'
    BY TypeParts, PTL DEF Sound
  <2> QED
    BY <2>1, LineFacts DEF SharedTypeOK
<1>2. n \notin Owed(u) /\ n \notin Tops /\ Owed(u) \subseteq AllOwed
  BY DEF InPlay, AllOwed
<1>3. n \notin Line(u)
  <2>1. Line(u) \subseteq ToDrop(u) \union {h}
    BY DEF ToDrop
  <2>2. n # h
    BY <1>1, <1>2 DEF Tops
  <2> QED
    BY <1>2, <2>1, <2>2, OwedIs
<1>4. /\ pushed => Line(u)' = Line(u) \union {n} /\ head'[vec'[u]].ptr = n
      /\ ~pushed => /\ Line(u)' = Line(u)
                    /\ Inside(u) => head'[vec'[u]].ptr = h
      /\ Inside(u)' => /\ Straight(next', head'[vec'[u]].ptr, handle'[u])
                       /\ handle'[u] \in Line(u)' \union {NULL}
  BY <1>3, PushLine
<1>5. /\ Laid(next, S, ToDrop(u)) /\ Owed(u) = ToDrop(u) \union Rest(next, S)
  BY PathParts, OwedIs
<1>6. ToDrop(u) \intersect Rest(next, S) = {} /\ n \notin Rest(next, S)
  BY <1>2, <1>5, LaidMeets
<1>7. ToDrop(u)' = ToDrop(u) \union Gain(u, n, s)
  <2>1. CASE ~Inside(u)
    BY <2>1 DEF ToDrop, Line, Gain
  <2>2. CASE Inside(u) /\ build.words = 1
    BY <1>4, <2>2 DEF ToDrop, Gain
  <2>3. CASE Inside(u) /\ build.words # 1 /\ ~pushed
    BY <1>4, <2>3 DEF ToDrop, Gain
  <2>4. CASE Inside(u) /\ build.words # 1 /\ pushed
    <3>1. ToDrop(u)' = Line(u)
      BY <1>3, <1>4, <2>4 DEF ToDrop
    <3>2. ToDrop(u) = Line(u) \ {b} /\ Gain(u, n, s) = {b} \ {NULL} /\ h = b
      BY <2>4 DEF ToDrop, Gain
    <3> QED
      BY <1>1, <2>4, <3>1, <3>2
  <2> QED
    BY <2>1, <2>2, <2>3, <2>4
<1>8. Gain(u, n, s) \intersect Rest(next, S) = {}
  <2>1. CASE pushed /\ build.words # 1
    <3>1. b \in Tops \union {NULL}
      BY DEF Tops
    <3>2. Rest(next, S) \subseteq AllOwed /\ build.words = 2
      BY <1>2, <1>5, <2>1, SoundParts, SlotFacts
    <3> QED
      BY <2>1, <3>1, <3>2 DEF Gain
  <2>2. CASE ~(pushed /\ build.words # 1)
    BY <1>6, <2>2 DEF Gain
  <2> QED
    BY <2>1, <2>2
<1>9. Laid(next', S, ToDrop(u)') /\ Rest(next', S) = Rest(next, S)
  <2> DEFINE g == next'
             X == ToDrop(u)'
  <2>1. X \intersect Rest(next, S) = {}
    BY <1>6, <1>7, <1>8
  <2>2. g \in [Objs -> Ptrs] /\ \A m \in Rest(next, S) : g[m] = next[m]
    <3>1. Rest(next, S) \subseteq Objs
      <4>1. NULL \notin Owed(u)
        BY LineFacts
      <4>2. \A i \in DOMAIN S : Trail(next, S[i].cur, S[i].end) \subseteq Objs
        <5> TAKE i \in DOMAIN S
        <5>1. S[i] \in Segment
          BY <1>1
        <5>2. S[i].cur \in Ptrs
          BY <5>1 DEF Segment
        <5> QED
          BY <1>1, <5>2, TrailLeast
      <4> QED
        BY <4>2 DEF Rest
    <3> QED
      BY <1>1, <1>6, <3>1
  <2> HIDE DEF g, X, S
  <2>3. Laid(next, S, X)
    BY <1>5, <2>1, LaidApart
  <2>4. Laid(g, S, X) /\ Rest(g, S) = Rest(next, S)
    BY <1>1, <2>2, <2>3, LaidFrame
  <2> QED
    BY <2>4 DEF g, X
<1>10. Owed(u)' = Owed(u) \union Gain(u, n, s)
  BY <1>5, <1>7, <1>9 DEF Owed, Rest, Chain
<1>11. pc'[u] = "lv_cas" =>
          /\ wk'[u].curr \in Line(u)' \union {NULL}
          /\ wk'[u].next = IF wk'[u].curr = handle'[u] THEN NULL ELSE next'[wk'[u].curr]
  <2> SUFFICES ASSUME pc'[u] = "lv_cas"
               PROVE  /\ wk'[u].curr \in Line(u)' \union {NULL}
                      /\ wk'[u].next = IF wk'[u].curr = handle'[u] THEN NULL
                                       ELSE next'[wk'[u].curr]
    OBVIOUS
  <2>1. /\ wk[u].curr \in Line(u) \union {NULL}
        /\ wk[u].next = IF wk[u].curr = handle[u] THEN NULL ELSE next[wk[u].curr]
        /\ wk'[u] = wk[u]
    BY DEF Walked, Paths
  <2>2. wk[u].curr # n
    BY <1>3, <2>1
  <2>3. next'[wk[u].curr] = next[wk[u].curr]
    BY <1>1, <2>2
  <2> QED
    BY <1>4, <2>1, <2>3
<1> QED
  BY <1>4, <1>9, <1>10, <1>11 DEF Paths

-----------------------------------------------------------------------------
(***************************************************************************)
(* The counts that the invariant uses, and how one thread changes them.    *)
(***************************************************************************)

\* What the thread owes to batch r, the slots with r at the head, the threads
\* with an adjustment to make for r, and the addends that r lacks.
OwedTo(t, r) == {n \in Owed(t) : link[n] = r}
HeadsOf(r) == {s \in Slots : head[s].ptr # NULL /\ link[head[s].ptr] = r}
DuesOf(r) == {t \in Tasks : Due(t) /\ link[rt[t].node] = r}
LackOf(t, r) == IF t \in Active(r) THEN Lacking(t) ELSE {}
One(b) == IF b THEN 1 ELSE 0

\* A set and the same set but for one element.
LEMMA OneMember ==
  ASSUME NEW I, IsFiniteSet(I), NEW S \in SUBSET I, NEW T \in SUBSET I, NEW t,
         \A x \in I : x # t => (x \in S <=> x \in T)
  PROVE  /\ Cardinality(S) \in Nat /\ Cardinality(T) \in Nat
         /\ Cardinality(T) - Cardinality(S) = One(t \in T) - One(t \in S)
<1>1. S \ {t} = T \ {t} /\ IsFiniteSet(S) /\ IsFiniteSet(T)
  BY FS_Subset
<1>2. ASSUME NEW R, IsFiniteSet(R)
      PROVE  /\ Cardinality(R) \in Nat /\ Cardinality(R \ {t}) \in Nat
             /\ Cardinality(R) = Cardinality(R \ {t}) + One(t \in R)
  <2>1. Cardinality(R) \in Nat
    BY <1>2, FS_CardinalityType
  <2>2. IsFiniteSet(R \ {t})
    BY <1>2, FS_Subset
  <2>3. Cardinality(R \ {t}) \in Nat
    BY <2>2, FS_CardinalityType
  <2>4. Cardinality(R \ {t}) = IF t \in R THEN Cardinality(R) - 1 ELSE Cardinality(R)
    BY <1>2, FS_RemoveElement
  <2> QED
    BY <2>1, <2>3, <2>4 DEF One
<1>3. /\ Cardinality(S) \in Nat /\ Cardinality(S \ {t}) \in Nat
      /\ Cardinality(S) = Cardinality(S \ {t}) + One(t \in S)
      /\ Cardinality(T) \in Nat
      /\ Cardinality(T) = Cardinality(S \ {t}) + One(t \in T)
  BY <1>1, <1>2
<1> QED
  BY <1>3 DEF One

\* There are TaskNum threads.
LEMMA TasksFinite == IsFiniteSet(Tasks) /\ Cardinality(Tasks) = TaskNum
<1>1. 1 \in Int /\ TaskNum \in Int
  OBVIOUS
<1>2. IsFiniteSet(1 .. TaskNum) /\ Cardinality(1 .. TaskNum) = IF 1 > TaskNum THEN 0 ELSE TaskNum - 1 + 1
  BY <1>1, FS_Interval
<1> QED
  BY <1>2 DEF Tasks

\* There are NumSlots slots.
LEMMA SlotsFinite ==
  ASSUME Sound
  PROVE  IsFiniteSet(Slots) /\ Cardinality(Slots) = NumSlots
<1>1. NumSlots \in Nat \ {0}
  <2>1. 1 \in Tasks
    BY DEF Tasks
  <2>2. build \in Builds
    BY <2>1, SoundParts
  <2> QED
    BY <2>2, SlotFacts
<1>2. 0 \in Int /\ NumSlots - 1 \in Int
  BY <1>1
<1>3. /\ IsFiniteSet(0 .. NumSlots - 1)
      /\ Cardinality(0 .. NumSlots - 1) = IF 0 > NumSlots - 1 THEN 0 ELSE NumSlots - 1 - 0 + 1
  <2> DEFINE b == NumSlots - 1
  <2>1. b \in Int
    BY <1>2
  <2> HIDE DEF b
  <2>2. /\ IsFiniteSet(0 .. b)
        /\ Cardinality(0 .. b) = IF 0 > b THEN 0 ELSE b - 0 + 1
    BY <2>1, FS_Interval
  <2> QED
    BY <2>2 DEF b
<1> QED
  BY <1>1, <1>3 DEF Slots

\* The sums over the threads.
LEMMA SumForms ==
  ASSUME NEW r
  PROVE  /\ Debts(r) = Tokens(Tasks, [t \in Tasks |-> OwedTo(t, r)])
         /\ Late(r) = Tokens(Tasks, [t \in Tasks |-> 1 .. Withheld(t, r)])
<1>1. Debts(r) = Tokens(Tasks, [t \in Tasks |-> OwedTo(t, r)])
  <2> DEFINE F == [t \in Tasks |-> OwedTo(t, r)]
  <2>1. Debts(r) = UNION {{t} \X OwedTo(t, r) : t \in Tasks}
    BY DEF Debts, OwedTo
  <2>2. \A t \in Tasks : F[t] = OwedTo(t, r)
    OBVIOUS
  <2> HIDE DEF F
  <2> QED
    BY <2>1, <2>2 DEF Tokens
<1>2. Late(r) = Tokens(Tasks, [t \in Tasks |-> 1 .. Withheld(t, r)])
  <2> DEFINE F == [t \in Tasks |-> 1 .. Withheld(t, r)]
  <2>1. \A t \in Tasks : F[t] = 1 .. Withheld(t, r)
    OBVIOUS
  <2> HIDE DEF F
  <2> QED
    BY <2>1 DEF Late, Tokens
<1> QED
  BY <1>1, <1>2

\* The addends that a batch lacks, as pairs of a thread and a slot.
LEMMA LackForm ==
  ASSUME NEW r
  PROVE  UNION {{t} \X Lacking(t) : t \in Active(r)}
           = Tokens(Tasks, [t \in Tasks |-> LackOf(t, r)])
<1> DEFINE F == [t \in Tasks |-> LackOf(t, r)]
<1>1. \A t \in Tasks : F[t] = IF t \in Active(r) THEN Lacking(t) ELSE {}
  BY DEF LackOf
<1>2. Active(r) \subseteq Tasks
  BY DEF Active
<1> HIDE DEF F
<1>3. \A x : (\E t \in Active(r) : x \in {t} \X Lacking(t))
               <=> \E t \in Tasks : x \in {t} \X F[t]
  BY <1>1, <1>2
<1>4. \A x : x \in Tokens(Tasks, F) <=> \E t \in Tasks : x \in {t} \X F[t]
  BY DEF Tokens
<1>5. \A x : x \in UNION {{t} \X Lacking(t) : t \in Active(r)}
               <=> \E t \in Active(r) : x \in {t} \X Lacking(t)
  OBVIOUS
<1> DEFINE A == UNION {{t} \X Lacking(t) : t \in Active(r)}
           B == Tokens(Tasks, F)
<1>6. \A x : x \in A <=> x \in B
  BY <1>3, <1>4, <1>5
<1> HIDE DEF A, B
<1>7. A = B
  BY <1>6
<1> QED
  BY <1>7 DEF A, B, F

\* The amounts of the tokens.
LEMMA OwedType ==
  ASSUME Sound, NEW t \in Tasks
  PROVE  Owed(t) \in SUBSET Objs
<1>1. /\ ToDrop(t) \subseteq Objs /\ next \in [Objs -> Ptrs]
      /\ wk[t].segs \in Seq(Segment)
  BY BlocksAssumption, LineFacts
<1> DEFINE S == wk[t].segs
<1>2. \A i \in DOMAIN S : Trail(next, S[i].cur, S[i].end) \subseteq Objs
  <2> TAKE i \in DOMAIN S
  <2>1. S[i] \in Segment
    BY <1>1
  <2>2. S[i].cur \in Ptrs
    BY <2>1 DEF Segment
  <2> QED
    BY <1>1, <2>2, BlocksAssumption, TrailLeast
<1>3. Rest(next, S) \subseteq Objs
  BY <1>2 DEF Rest
<1> QED
  BY <1>1, <1>3, OwedIs

\* What a thread withholds is a value of a counter.
LEMMA WithheldType ==
  ASSUME Sound, NEW t \in Tasks, NEW r
  PROVE  Withheld(t, r) \in 0 .. CounterMod - 1
<1>1. rt[t] \in Batches /\ build \in Builds
  BY SoundParts, Fields
<1>2. /\ rt[t].adjs \in 0 .. CounterMod - 1 /\ rt[t].amt \in 0 .. CounterMod - 1
      /\ Addend \in 0 .. CounterMod - 1
  BY <1>1, SlotFacts DEF Batches
<1>3. (rt[t].amt - Addend) % CounterMod \in 0 .. CounterMod - 1
  <2>1. rt[t].amt - Addend \in Int
    BY <1>2
  <2> QED
    BY <2>1, ModRange
<1>4. 0 \in 0 .. CounterMod - 1
  OBVIOUS
<1> HIDE DEF Addend
<1> QED
  BY <1>2, <1>3, <1>4 DEF Withheld

\* retire has at most all slots before it.
LEMMA LackingType ==
  ASSUME Sound, AllPushes, NEW t \in Tasks
  PROVE  Lacking(t) \in SUBSET (1 .. NumSlots)
<1>1. /\ NumSlots \in Nat /\ SMRBatch \in Nat /\ Len(rt[t].todo) \in Nat
  BY AtFacts
<1>2. Len(rt[t].todo) <= SMRBatch
  BY DEF AllPushes, Pushes
<1> DEFINE k == IF pc[t] \in {"rt_adj", "rt_count"} THEN 1 ELSE 0
           x == NumSlots - SMRBatch + Len(rt[t].todo) - k
<1>3. k \in {0, 1}
  OBVIOUS
<1> HIDE DEF k
<1>4. x <= NumSlots /\ x \in Int
  BY <1>1, <1>2, <1>3
<1> HIDE DEF x
<1>5. 1 .. x \in SUBSET (1 .. NumSlots)
  BY <1>1, <1>4
<1>6. rt[t].first # NULL => Lacking(t) = 1 .. x
  BY DEF Lacking, x, k
<1>7. rt[t].first = NULL => Lacking(t) \in SUBSET (1 .. NumSlots)
  BY DEF Lacking
<1> QED
  BY <1>5, <1>6, <1>7

Typed ==
    \A t \in Tasks : /\ Owed(t) \in SUBSET Objs
                     /\ \A r \in Objs : Withheld(t, r) \in 0 .. CounterMod - 1
\* What is withheld is bounded in every state.
LEMMA SoundTyped == Sound => Typed
BY OwedType, WithheldType DEF Typed

LackTyped == \A t \in Tasks : Lacking(t) \in SUBSET (1 .. NumSlots)
\* What is lacking is bounded in every state.
LEMMA PushesTyped == Sound /\ AllPushes => LackTyped
BY LackingType DEF LackTyped

\* A step that concerns one thread alone changes the sums by its part.
LEMMA DebtsMove ==
  ASSUME Sound, Sound', NEW r, NEW t \in Tasks,
         \A u \in Tasks : u # t => OwedTo(u, r)' = OwedTo(u, r)
  PROVE  /\ Cardinality(Debts(r)) \in Nat /\ Cardinality(Debts(r))' \in Nat
         /\ Cardinality(OwedTo(t, r)) \in Nat /\ Cardinality(OwedTo(t, r))' \in Nat
         /\ Cardinality(Debts(r))' - Cardinality(Debts(r))
              = Cardinality(OwedTo(t, r))' - Cardinality(OwedTo(t, r))
<1> DEFINE F == [u \in Tasks |-> OwedTo(u, r)]
           G == [u \in Tasks |-> OwedTo(u, r)']
<1>1. F \in [Tasks -> SUBSET Objs] /\ G \in [Tasks -> SUBSET Objs]
  <2>1. Typed /\ Typed'
    BY SoundTyped, PTL
  <2> QED
    BY <2>1 DEF Typed, OwedTo
<1>2. \A u \in Tasks \ {t} : G[u] = F[u]
  OBVIOUS
<1>3. F[t] = OwedTo(t, r) /\ G[t] = OwedTo(t, r)'
  OBVIOUS
<1>4. Debts(r) = Tokens(Tasks, F) /\ Debts(r)' = Tokens(Tasks, G)
  <2>1. Debts(r)' = Tokens(Tasks, G)
    <3>1. \A u \in Tasks : G[u] = {n \in Owed(u)' : link'[n] = r}
      BY DEF OwedTo
    <3> HIDE DEF G
    <3> QED
      BY <3>1 DEF Debts, Tokens
  <2> QED
    BY <2>1, SumForms
<1> HIDE DEF F, G
<1>5. /\ Cardinality(Tokens(Tasks, F)) \in Nat /\ Cardinality(Tokens(Tasks, G)) \in Nat
      /\ Cardinality(F[t]) \in Nat /\ Cardinality(G[t]) \in Nat
  BY <1>1, BlocksAssumption, TasksFinite, TokensFinite, TokensOne
<1>6. Cardinality(Tokens(Tasks, G)) - Cardinality(Tokens(Tasks, F))
        = Cardinality(G[t]) - Cardinality(F[t])
  BY <1>1, <1>2, BlocksAssumption, TasksFinite, TokensChange
<1> QED
  BY <1>3, <1>4, <1>5, <1>6

\* A step of one thread changes what is withheld by that thread's part.
LEMMA LateMove ==
  ASSUME Sound, Sound', NEW r \in Objs, NEW t \in Tasks,
         \A u \in Tasks : u # t => Withheld(u, r)' = Withheld(u, r)
  PROVE  /\ Cardinality(Late(r)) \in Nat /\ Cardinality(Late(r))' \in Nat
         /\ Withheld(t, r) \in Nat /\ Withheld(t, r)' \in Nat
         /\ Cardinality(Late(r))' - Cardinality(Late(r)) = Withheld(t, r)' - Withheld(t, r)
<1> DEFINE F == [u \in Tasks |-> 1 .. Withheld(u, r)]
           G == [u \in Tasks |-> 1 .. Withheld(u, r)']
           U == 1 .. CounterMod
<1>1. \A u \in Tasks : /\ Withheld(u, r) \in 0 .. CounterMod - 1
                        /\ Withheld(u, r)' \in 0 .. CounterMod - 1
  <2>1. Typed /\ Typed'
    BY SoundTyped, PTL
  <2> QED
    BY <2>1 DEF Typed
<1>2. \A w \in 0 .. CounterMod - 1 : /\ 1 .. w \in SUBSET U
                                      /\ Cardinality(1 .. w) = w
  <2> TAKE w \in 0 .. CounterMod - 1
  <2>1. 1 \in Int /\ w \in Int
    OBVIOUS
  <2>2. Cardinality(1 .. w) = IF 1 > w THEN 0 ELSE w - 1 + 1
    BY <2>1, FS_Interval
  <2> QED
    BY <2>2
<1>3. F \in [Tasks -> SUBSET U] /\ G \in [Tasks -> SUBSET U]
  BY <1>1, <1>2
<1>4. \A u \in Tasks \ {t} : G[u] = F[u]
  OBVIOUS
<1>5. Cardinality(F[t]) = Withheld(t, r) /\ Cardinality(G[t]) = Withheld(t, r)'
  BY <1>1, <1>2
<1>6. Late(r) = Tokens(Tasks, F) /\ Late(r)' = Tokens(Tasks, G)
  <2>1. Late(r)' = Tokens(Tasks, G)
    <3>1. \A u \in Tasks : G[u] = 1 .. Withheld(u, r)'
      OBVIOUS
    <3> HIDE DEF G
    <3> QED
      BY <3>1 DEF Late, Tokens
  <2> QED
    BY <2>1, SumForms
<1>7. IsFiniteSet(U)
  BY FS_Interval
<1> HIDE DEF F, G, U
<1>8. /\ Cardinality(Tokens(Tasks, F)) \in Nat /\ Cardinality(Tokens(Tasks, G)) \in Nat
  BY <1>3, <1>7, TasksFinite, TokensFinite
<1>9. Cardinality(Tokens(Tasks, G)) - Cardinality(Tokens(Tasks, F))
        = Cardinality(G[t]) - Cardinality(F[t])
  BY <1>3, <1>4, <1>7, TasksFinite, TokensChange
<1> QED
  BY <1>1, <1>5, <1>6, <1>8, <1>9

\* A step of one thread changes what is lacking by that thread's part.
LEMMA LackMove ==
  ASSUME Sound, Sound', AllPushes, AllPushes', build' = build, NEW r, NEW t \in Tasks,
         \A u \in Tasks : u # t => LackOf(u, r)' = LackOf(u, r)
  PROVE  /\ Unadded(r) \in Nat /\ Unadded(r)' \in Nat
         /\ Cardinality(LackOf(t, r)) \in Nat /\ Cardinality(LackOf(t, r))' \in Nat
         /\ Unadded(r)' - Unadded(r) = Cardinality(LackOf(t, r))' - Cardinality(LackOf(t, r))
<1> DEFINE F == [u \in Tasks |-> LackOf(u, r)]
           G == [u \in Tasks |-> LackOf(u, r)']
           U == 1 .. NumSlots
<1>1. F \in [Tasks -> SUBSET U] /\ G \in [Tasks -> SUBSET U]
  <2>1. LackTyped /\ LackTyped' /\ NumSlots' = NumSlots
    BY PushesTyped, SameBuild, PTL
  <2> QED
    BY <2>1 DEF LackTyped, LackOf
<1>2. \A u \in Tasks \ {t} : G[u] = F[u]
  OBVIOUS
<1>3. F[t] = LackOf(t, r) /\ G[t] = LackOf(t, r)'
  OBVIOUS
<1>4. /\ Unadded(r) = Cardinality(Tokens(Tasks, F))
      /\ Unadded(r)' = Cardinality(Tokens(Tasks, G))
  <2>1. UNION {{u} \X Lacking(u) : u \in Active(r)} = Tokens(Tasks, F)
    BY LackForm
  <2>2. (UNION {{u} \X Lacking(u) : u \in Active(r)})' = Tokens(Tasks, G)
    <3> DEFINE A == (UNION {{u} \X Lacking(u) : u \in Active(r)})'
               B == Tokens(Tasks, G)
    <3>1. \A u \in Tasks : G[u] = IF u \in Active(r)' THEN Lacking(u)' ELSE {}
      BY DEF LackOf
    <3>2. Active(r)' \subseteq Tasks
      BY DEF Active
    <3>3. \A x : x \in A <=> \E u \in Active(r)' : x \in {u} \X Lacking(u)'
      OBVIOUS
    <3> HIDE DEF G
    <3>4. \A x : x \in B <=> \E u \in Tasks : x \in {u} \X G[u]
      BY DEF Tokens
    <3>5. \A x : x \in A <=> x \in B
      BY <3>1, <3>2, <3>3, <3>4
    <3> HIDE DEF A, B
    <3>6. A = B
      BY <3>5
    <3> QED
      BY <3>6 DEF A, B
  <2> HIDE DEF F, G
  <2> QED
    BY <2>1, <2>2 DEF Unadded
<1>5. IsFiniteSet(U)
  BY AtFacts, FS_Interval
<1> HIDE DEF F, G, U
<1>6. /\ Cardinality(Tokens(Tasks, F)) \in Nat /\ Cardinality(Tokens(Tasks, G)) \in Nat
      /\ Cardinality(F[t]) \in Nat /\ Cardinality(G[t]) \in Nat
  BY <1>1, <1>5, TasksFinite, TokensFinite, TokensOne
<1>7. Cardinality(Tokens(Tasks, G)) - Cardinality(Tokens(Tasks, F))
        = Cardinality(G[t]) - Cardinality(F[t])
  BY <1>1, <1>2, <1>5, TasksFinite, TokensChange
<1> QED
  BY <1>3, <1>4, <1>6, <1>7

\* Of the heads one may change, of the adjustments that of one thread.
LEMMA HeadsMove ==
  ASSUME Sound, build' = build, NEW r, NEW s \in Slots,
         \A z \in Slots : z # s => (z \in HeadsOf(r) <=> z \in HeadsOf(r)')
  PROVE  /\ Cardinality(HeadsOf(r)) \in Nat /\ Cardinality(HeadsOf(r))' \in Nat
         /\ Cardinality(HeadsOf(r))' - Cardinality(HeadsOf(r))
              = One(s \in HeadsOf(r)') - One(s \in HeadsOf(r))
<1>1. HeadsOf(r) \in SUBSET Slots /\ HeadsOf(r)' \in SUBSET Slots
  BY SameBuild DEF HeadsOf
<1> QED
  BY <1>1, SlotsFinite, OneMember

\* A step of one thread changes the adjustments due by that thread's.
LEMMA DuesMove ==
  ASSUME NEW r, NEW t \in Tasks,
         \A u \in Tasks : u # t => (u \in DuesOf(r) <=> u \in DuesOf(r)')
  PROVE  /\ Cardinality(DuesOf(r)) \in Nat /\ Cardinality(DuesOf(r))' \in Nat
         /\ Cardinality(DuesOf(r))' - Cardinality(DuesOf(r))
              = One(t \in DuesOf(r)') - One(t \in DuesOf(r))
<1>1. DuesOf(r) \in SUBSET Tasks /\ DuesOf(r)' \in SUBSET Tasks
  BY DEF DuesOf
<1> QED
  BY <1>1, TasksFinite, OneMember

\* An addend is missing for each head, each adjustment due and each slot to
\* come.
LEMMA MissingIs ==
  ASSUME NEW r
  PROVE  Missing(r) = Cardinality(HeadsOf(r)) + Cardinality(DuesOf(r)) + Unadded(r)
BY DEF Missing, HeadsOf, DuesOf, Due, Unadded

-----------------------------------------------------------------------------
(***************************************************************************)
(* A step changes the ledger of its own thread only.                       *)
(***************************************************************************)

AllTidy == \A t \in Tasks : Tidy(t)

\* The thread works on no batch.
Clear(t) == ~Adjusting(t) /\ rt[t].first = NULL

\* A thread without a ledger withholds nothing and lacks nothing.
LEMMA ClearFacts ==
  ASSUME NEW t \in Tasks, Clear(t)
  PROVE  /\ Ending(t) = {} /\ ~Due(t) /\ Retiring(t) = NULL
         /\ \A r \in Objs : Withheld(t, r) = 0 /\ LackOf(t, r) = {}
                            /\ t \notin Active(r)
<1>1. Retiring(t) = NULL /\ ~Due(t) /\ pc[t] # "rt_fin"
  BY DEF Clear, Retiring, Due, Adjusting
<1>2. Ending(t) = {}
  BY <1>1 DEF Ending
<1>3. ASSUME NEW r \in Objs
      PROVE  Withheld(t, r) = 0 /\ LackOf(t, r) = {} /\ t \notin Active(r)
  BY <1>1 DEF Withheld, LackOf, Active, Clear
<1> QED
  BY <1>1, <1>2, <1>3

\* The threads that work on a batch.
LEMMA ActiveIs ==
  ASSUME NEW t \in Tasks, Tidy(t), NEW r \in Objs
  PROVE  t \in Active(r) <=> r \in Ending(t)
<1>1. pc[t] = "rt_fin" => Retiring(t) = NULL
  BY DEF Tidy, Retires, Retiring
<1> QED
  BY <1>1 DEF Active, Ending

\* The other threads work on what they did.
SameLedger(u) ==
    /\ rt'[u] = rt[u] /\ (Due(u)' <=> Due(u)) /\ pc'[u] = pc[u] /\ at'[u] = at[u]
    /\ Retiring(u)' = Retiring(u) /\ Ending(u)' = Ending(u)
    /\ \A r \in Objs : /\ Withheld(u, r)' = Withheld(u, r)
                       /\ LackOf(u, r)' = LackOf(u, r)
                       /\ u \in Active(r)' <=> u \in Active(r)

\* A step leaves the ledgers of the other threads alone.
LEMMA OtherLedgers ==
  ASSUME NEW t \in Tasks, Good(t), link' = link, NEW u \in Tasks, u # t
  PROVE  SameLedger(u)
<1>1. rt'[u] = rt[u] /\ pc'[u] = pc[u] /\ build' = build /\ at'[u] = at[u]
  BY DEF Good, Kept
<1>2. NumSlots' = NumSlots /\ SMRBatch' = SMRBatch /\ Addend' = Addend
  BY <1>1, SameBuild
<1>3. Retiring(u)' = Retiring(u) /\ Ending(u)' = Ending(u) /\ (Due(u)' <=> Due(u))
  BY <1>1 DEF Retiring, Ending, Due
<1>4. Lacking(u)' = Lacking(u)
  BY <1>1, <1>2 DEF Lacking
<1>5. Adjusting(u)' <=> Adjusting(u)
  BY <1>1 DEF Adjusting
<1>6. ASSUME NEW r \in Objs
      PROVE  /\ Withheld(u, r)' = Withheld(u, r) /\ LackOf(u, r)' = LackOf(u, r)
             /\ u \in Active(r)' <=> u \in Active(r)
  <2>1. u \in Active(r)' <=> u \in Active(r)
    BY <1>1, <1>3 DEF Active
  <2>2. Withheld(u, r)' = Withheld(u, r)
    BY <1>1, <1>2, <1>3, <1>5 DEF Withheld
  <2> QED
    BY <1>4, <2>1, <2>2 DEF LackOf
<1> QED
  BY <1>1, <1>3, <1>6 DEF SameLedger

\* What there is of nodes and batches after a step on which no node is retired.
Stays(t) ==
    /\ Sound /\ Sound' /\ Good(t) /\ Neat(t) /\ AllTidy
    /\ link' = link /\ Retired' = Retired /\ batch' = batch

\* What a step that collects and frees nothing leaves alone.
LEMMA StaysFacts ==
  ASSUME NEW t \in Tasks, Stays(t)
  PROVE  /\ AllTidy' /\ build' = build
         /\ \A u \in Tasks : u # t => SameLedger(u) /\ list'[u] = list[u]
         /\ \A u \in Tasks : Growing(u)' = Growing(u)
         /\ \A o \in Objs : status'[o] = "retired" <=> status[o] = "retired"
         /\ SMRBatch' = SMRBatch /\ Slots' = Slots /\ NumSlots' = NumSlots
         /\ Addend' = Addend
<1>1. build' = build
  BY DEF Stays, Good
<1>2. \A u \in Tasks : u # t => SameLedger(u) /\ list'[u] = list[u]
  BY OtherLedgers DEF Stays, Neat
<1>3. AllTidy'
  <2> SUFFICES ASSUME NEW u \in Tasks PROVE Tidy(u)'
    BY DEF AllTidy
  <2>1. CASE u = t
    BY <2>1 DEF Stays, Neat
  <2>2. CASE u # t
    BY <1>2, <2>2 DEF Stays, Good, Kept, AllTidy, Tidy
  <2> QED
    BY <2>1, <2>2
<1>4. \A u \in Tasks : Growing(u)' = Growing(u)
  BY DEF Stays, Growing
<1>5. \A o \in Objs : status'[o] = "retired" <=> status[o] = "retired"
  BY DEF Stays, Retired
<1>6. /\ SMRBatch' = SMRBatch /\ Slots' = Slots /\ NumSlots' = NumSlots
      /\ Addend' = Addend
  BY <1>1, SameBuild
<1> QED
  BY <1>1, <1>2, <1>3, <1>4, <1>5, <1>6

\* The last nodes are nodes.
LEMMA LastsType ==
  ASSUME Sound, NEW t \in Tasks, Tidy(t)
  PROVE  /\ list[t] \subseteq Objs /\ Growing(t) \subseteq Objs
         /\ Ending(t) \subseteq Objs
<1>1. /\ batch[t] \in Seq(Objs) /\ list[t] \subseteq Objs /\ rt[t] \in Batches
      /\ SharedTypeOK /\ Control(t)
  BY SoundParts, Fields
<1>2. Growing(t) \subseteq Objs
  <2>1. CASE batch[t] = <<>>
    BY <2>1 DEF Growing
  <2>2. CASE batch[t] # <<>>
    <3> DEFINE S == batch[t]
    <3>1. S \in Seq(Objs) /\ S # <<>>
      BY <1>1, <2>2
    <3> HIDE DEF S
    <3>2. Len(S) \in DOMAIN S
      BY <3>1
    <3>3. S[Len(S)] \in Objs
      BY <3>1, <3>2
    <3> QED
      BY <2>2, <3>3 DEF Growing, S
  <2> QED
    BY <2>1, <2>2
<1>3. link \in [Objs -> Objs] /\ rt[t].first \in Ptrs /\ rt[t].node \in Ptrs
  BY <1>1 DEF SharedTypeOK, Batches
<1>4. Ending(t) \subseteq Objs
  <2>1. rt[t].first # NULL => Retiring(t) \in Objs
    BY <1>3 DEF Retiring, Ptrs
  <2>2. pc[t] = "rt_fin" => link[rt[t].node] \in Objs
    BY <1>1, <1>3 DEF Control, Ptrs
  <2> QED
    BY <2>1, <2>2 DEF Ending, Retiring
<1> QED
  BY <1>1, <1>2, <1>4

\* The nodes in play are blocks.
LEMMA InPlayType ==
  ASSUME Sound
  PROVE  InPlay \subseteq Objs /\ Tops \subseteq Objs /\ AllOwed \subseteq Objs
<1>1. AllOwed \subseteq Objs
  BY OwedType DEF AllOwed
<1>2. Tops \subseteq Objs
  <2>1. SharedTypeOK
    BY TypeParts DEF Sound
  <2>2. \A s \in Slots : head[s].ptr \in Ptrs
    BY <2>1, HeadType
  <2> QED
    BY <2>2 DEF Tops, Ptrs
<1>3. Buried \subseteq Objs
  <2>1. ASSUME NEW u \in Tasks, Due(u) PROVE rt[u].node \in Objs
    BY <2>1, SoundParts, Fields DEF Due, Control, Batches, Ptrs
  <2> QED
    BY <2>1 DEF Buried
<1> QED
  BY <1>1, <1>2, <1>3 DEF InPlay

-----------------------------------------------------------------------------
(***************************************************************************)
(* The last nodes of the batches.                                          *)
(***************************************************************************)

\* The nodes and the batches, apart from the sums.
Struct == AllGrows /\ AllQueued /\ BatchesApart /\ Known

\* What the last nodes are.
LEMMA LastsIs ==
  ASSUME NEW r
  PROVE  r \in Lasts <=> \/ Nodes(r) # {}
                         \/ \E u \in Tasks : r \in list[u] \union Growing(u) \union Ending(u)
BY DEF Lasts, Nodes

\* A step on which the nodes in play stay so, or nodes of the thread's batch come
\* into play, and batches that lose their last node are put on the thread's list.
LEMMA StructStep ==
  ASSUME NEW t \in Tasks, Stays(t), Struct, NEW N, NEW L,
         InPlay' \subseteq InPlay \union N,
         \A n \in N : /\ n \in Objs /\ status[n] = "retired" /\ n \notin Lasts
                      /\ link[n] \in Ending(t)
                      /\ \A u \in Tasks : n \notin Fresh(u)',
         Fresh(t)' \subseteq Fresh(t), Ending(t)' \subseteq Ending(t),
         list'[t] \subseteq list[t] \union L,
         \A r \in L : /\ r \in Lasts /\ (Nodes(r) # {} \/ Active(r) # {})
                      /\ Nodes(r)' = {} /\ Active(r)' = {},
         Lasts \subseteq Lasts'
  PROVE  Struct' /\ Lasts' = Lasts
<1>1. /\ AllTidy /\ AllTidy' /\ build' = build /\ link' = link /\ batch' = batch
      /\ \A u \in Tasks : u # t => SameLedger(u) /\ list'[u] = list[u]
      /\ \A u \in Tasks : Growing(u)' = Growing(u)
      /\ \A o \in Objs : status'[o] = "retired" <=> status[o] = "retired"
      /\ SMRBatch' = SMRBatch /\ Sound /\ Sound'
  BY StaysFacts DEF Stays
<1>2. \A u \in Tasks : Fresh(u)' \subseteq Fresh(u) /\ Ending(u)' \subseteq Ending(u)
  <2> TAKE u \in Tasks
  <2>1. CASE u = t
    BY <2>1
  <2>2. CASE u # t
    <3>1. rt'[u] = rt[u] /\ pc'[u] = pc[u] /\ Ending(u)' = Ending(u)
      BY <1>1, <2>2 DEF SameLedger
    <3>2. Fresh(u)' = Fresh(u)
      BY <1>1, <3>1 DEF Fresh, Pushed
    <3> QED
      BY <3>1, <3>2
  <2> QED
    BY <2>1, <2>2
<1>3. \A u \in Tasks : /\ list[u] \subseteq Objs /\ Growing(u) \subseteq Objs
                       /\ Ending(u) \subseteq Objs
  BY <1>1, LastsType DEF AllTidy
<1>4. InPlay \subseteq Objs /\ InPlay' \subseteq Objs /\ link \in [Objs -> Objs]
  <2>1. SharedTypeOK
    BY <1>1, TypeParts DEF Sound
  <2>2. InPlay \subseteq Objs
    BY <1>1, InPlayType
  <2> QED
    BY <2>1, <2>2 DEF SharedTypeOK
<1>5. Lasts \subseteq Objs
  <2> SUFFICES ASSUME NEW r \in Lasts PROVE r \in Objs
    OBVIOUS
  <2>1. Nodes(r) # {} => r \in Objs
    BY <1>4 DEF Nodes
  <2> QED
    BY <1>3, <2>1, LastsIs
<1>6. \A r \in Objs, u \in Tasks :
          /\ u \in Active(r) <=> r \in Ending(u)
          /\ u \in Active(r)' <=> r \in Ending(u)'
  <2> SUFFICES ASSUME NEW r \in Objs, NEW u \in Tasks
               PROVE  /\ u \in Active(r) <=> r \in Ending(u)
                      /\ u \in Active(r)' <=> r \in Ending(u)'
    OBVIOUS
  <2>1. Tidy(u) /\ Tidy(u)'
    BY <1>1 DEF AllTidy
  <2>2. (pc[u] = "rt_fin" => Retiring(u) = NULL) /\ (pc'[u] = "rt_fin" => Retiring(u)' = NULL)
    BY <2>1 DEF Tidy, Retires, Retiring
  <2> QED
    BY <2>2 DEF Active, Ending
<1>7. \A r \in Objs : Active(r) \subseteq Tasks /\ Active(r)' \subseteq Active(r)
  <2> TAKE r \in Objs
  <2>1. Active(r) \subseteq Tasks /\ Active(r)' \subseteq Tasks
    BY DEF Active
  <2>2. ASSUME NEW u \in Tasks, u \in Active(r)' PROVE u \in Active(r)
    <3>1. r \in Ending(u)'
      BY <1>6, <2>2
    <3>2. r \in Ending(u)
      BY <1>2, <3>1
    <3> QED
      BY <1>6, <3>2
  <2> QED
    BY <2>1, <2>2
<1>8. \A r : Nodes(r)' \subseteq Nodes(r) \union {n \in N : link[n] = r}
  BY <1>1 DEF Nodes
<1>9. ASSUME NEW r \in Objs, Nodes(r) = {}, Active(r) = {}
      PROVE  Nodes(r)' = {} /\ Active(r)' = {}
  <2>1. \A n \in N : link[n] # r
    <3> SUFFICES ASSUME NEW n \in N, link[n] = r PROVE FALSE
      OBVIOUS
    <3>1. r \in Ending(t)
      OBVIOUS
    <3>2. t \in Active(r)
      BY <1>6, <3>1
    <3> QED
      BY <1>9, <3>2
  <2> QED
    BY <1>7, <1>8, <1>9, <2>1
<1>10. \A u \in Tasks : \A r \in Growing(u) :
          /\ r \in Objs /\ Nodes(r) = {} /\ Active(r) = {}
          /\ \A w \in Tasks : w # u => r \notin Growing(w)
  BY <1>3 DEF Struct, AllGrows, Grows
<1>11. \A u \in Tasks : \A r \in list[u] :
          /\ r \in Objs /\ Nodes(r) = {} /\ Active(r) = {}
          /\ \A w \in Tasks : r \notin Growing(w) /\ (w # u => r \notin list[w])
  BY <1>3 DEF Struct, AllQueued, Queued
<1>12. AllGrows'
  <2> SUFFICES ASSUME NEW u \in Tasks PROVE Grows(u)'
    BY DEF AllGrows
  <2>1. Grows(u)
    BY DEF Struct, AllGrows
  <2>2. batch[u] \in Seq(Objs)
    BY <1>1, SoundParts, Fields
  <2>3. \A i \in DOMAIN batch[u] : batch[u][i] \in Objs
    BY <2>2
  <2>4. \A i \in DOMAIN batch'[u] : /\ status'[batch'[u][i]] = "retired"
                                    /\ {link'[batch'[u][i]]} = Growing(u)'
    BY <1>1, <2>1, <2>3 DEF Grows
  <2>5. \A r \in Growing(u)' : Nodes(r)' = {} /\ Active(r)' = {}
                               /\ \A w \in Tasks : w # u => r \notin Growing(w)'
    BY <1>1, <1>9, <1>10
  <2>6. /\ Len(batch'[u]) < SMRBatch'
        /\ \A i, j \in DOMAIN batch'[u] : batch'[u][i] = batch'[u][j] => i = j
    BY <1>1, <2>1 DEF Grows
  <2> QED
    BY <2>4, <2>5, <2>6 DEF Grows
<1>13. AllQueued'
  <2> SUFFICES ASSUME NEW u \in Tasks, NEW r \in list'[u]
               PROVE  /\ Nodes(r)' = {} /\ Active(r)' = {}
                      /\ \A w \in Tasks : r \notin Growing(w)' /\ (w # u => r \notin list'[w])
    BY DEF AllQueued, Queued
  <2>1. \A w \in Tasks : \A q \in list'[w] : q \in list[w] \/ (w = t /\ q \in L)
    BY <1>1
  <2>2. CASE r \in list[u]
    <3>1. Nodes(r)' = {} /\ Active(r)' = {} /\ \A w \in Tasks : r \notin Growing(w)'
      BY <1>1, <1>9, <1>11, <2>2
    <3>2. r \notin L
      BY <1>11, <2>2
    <3>3. \A w \in Tasks : w # u => r \notin list'[w]
      BY <1>11, <2>1, <2>2, <3>2
    <3> QED
      BY <3>1, <3>3
  <2>3. CASE r \notin list[u]
    <3>1. u = t /\ r \in L
      BY <2>1, <2>3
    <3>2. Nodes(r)' = {} /\ Active(r)' = {} /\ (Nodes(r) # {} \/ Active(r) # {})
      BY <3>1
    <3>3. \A w \in Tasks : r \notin Growing(w)' /\ r \notin list[w]
      BY <1>1, <1>10, <1>11, <3>2
    <3>4. \A w \in Tasks : w # u => r \notin list'[w]
      BY <2>1, <3>1, <3>3
    <3> QED
      BY <3>2, <3>3, <3>4
  <2> QED
    BY <2>2, <2>3
<1>14. Lasts' = Lasts
  <2>1. \A r : r \in Lasts' <=> \/ Nodes(r)' # {}
                                \/ \E u \in Tasks : r \in list'[u] \union Growing(u)' \union Ending(u)'
    BY DEF Lasts, Nodes
  <2> SUFFICES ASSUME NEW r \in Lasts' PROVE r \in Lasts
    OBVIOUS
  <2>2. CASE Nodes(r)' # {}
    <3>1. Nodes(r) # {} \/ \E n \in N : link[n] = r
      BY <1>8, <2>2
    <3>2. Nodes(r) # {} \/ r \in Ending(t)
      BY <3>1
    <3> QED
      BY <3>2, LastsIs
  <2>3. CASE \E u \in Tasks : r \in list'[u] \union Growing(u)' \union Ending(u)'
    <3>1. PICK u \in Tasks : r \in list'[u] \union Growing(u)' \union Ending(u)'
      BY <2>3
    <3>2. r \in L \/ r \in list[u] \union Growing(u) \union Ending(u)
      BY <1>1, <1>2, <3>1
    <3> QED
      BY <3>2, LastsIs
  <2> QED
    BY <2>1, <2>2, <2>3
<1>15. BatchesApart'
  <2>1. \A r \in Lasts :
          /\ status[r] = "retired" /\ status[link[r]] = "retired"
          /\ link[link[r]] = r
          /\ link[r] \in Lasts => link[r] = r
          /\ link[r] = r => \E u \in Tasks : r \in Growing(u)
    BY DEF Struct, BatchesApart
  <2>2. \A r \in Lasts' :
          /\ status'[r] = "retired" /\ status'[link'[r]] = "retired"
          /\ link'[link'[r]] = r
          /\ link'[r] \in Lasts' => link'[r] = r
          /\ link'[r] = r => \E u \in Tasks : r \in Growing(u)'
    BY <1>1, <1>4, <1>5, <1>14, <2>1
  <2>3. \A n \in InPlay' : status'[n] = "retired" /\ n \notin Lasts'
    <3> TAKE n \in InPlay'
    <3>1. n \in Objs /\ status[n] = "retired" /\ n \notin Lasts
      BY <1>4 DEF Struct, BatchesApart
    <3> QED
      BY <1>1, <1>14, <3>1
  <2>4. \A u \in Tasks : Fresh(u)' \intersect InPlay' = {}
    <3> TAKE u \in Tasks
    <3>1. Fresh(u) \intersect InPlay = {}
      BY DEF Struct, BatchesApart
    <3> QED
      BY <1>2, <3>1
  <2>5. \A r \in Objs : \A v, u \in Active(r)' : v = u
    BY <1>7 DEF Struct, BatchesApart
  <2> HIDE DEF Struct
  <2> QED
    BY <2>2, <2>3, <2>4, <2>5 DEF BatchesApart
<1>16. Known'
  <2> SUFFICES ASSUME NEW o \in Objs, status'[o] = "retired"
               PROVE  \/ \E u \in Tasks : \E i \in DOMAIN batch'[u] : batch'[u][i] = o
                      \/ \E r \in Lasts' : (r = o \/ link'[o] = r)
                                           /\ \A u \in Tasks : r \notin Growing(u)'
    BY DEF Known
  <2>1. status[o] = "retired"
    BY <1>1
  <2>2. \/ \E u \in Tasks : \E i \in DOMAIN batch[u] : batch[u][i] = o
        \/ \E r \in Lasts : (r = o \/ link[o] = r) /\ \A u \in Tasks : r \notin Growing(u)
    BY <2>1 DEF Struct, Known
  <2> QED
    BY <1>1, <1>14, <2>2
<1> QED
  BY <1>12, <1>13, <1>14, <1>15, <1>16 DEF Struct

-----------------------------------------------------------------------------
(***************************************************************************)
(* Steps that no counter notices.                                          *)
(***************************************************************************)

\* A step that changes nothing of what is in play nor of what is counted; a call
\* of retire may end when its batch is in play.
Vacant == build.words = 1 => \A s \in Slots : head[s].ref = 0 => head[s].ptr = NULL
Silent(t) ==
    /\ Stays(t) /\ Calm /\ ~Due(t) /\ ~Due(t)' /\ list' = list /\ refs' = refs
    /\ \A s \in Slots : \/ head'[s].ptr = head[s].ptr
                        \/ /\ build.words = 1 /\ head'[s].ptr = NULL
                           /\ head[s].ptr \in AllOwed
    /\ Vacant'
    /\ \A r \in Objs : /\ Withheld(t, r)' = Withheld(t, r)
                       /\ build.words = 2 => LackOf(t, r)' = LackOf(t, r)
    /\ Fresh(t)' \subseteq Fresh(t) /\ Ending(t)' \subseteq Ending(t)
    /\ \A r \in Ending(t) \ Ending(t)' : Nodes(r) # {}

\* Without a change to the lists every thread owes what it owed.
LEMMA SameOwed ==
  ASSUME Calm
  PROVE  /\ AllOwed' = AllOwed /\ Walked'
         /\ \A n : Debtors(n)' = Debtors(n)
BY DEF Calm, AllOwed, Walked, Debtors

\* The adjustments that are due.
LEMMA SameBuried ==
  ASSUME NEW t \in Tasks, ~Due(t), ~Due(t)',
         \A u \in Tasks : u # t => SameLedger(u)
  PROVE  Buried' = Buried
<1>1. \A u \in Tasks : (Due(u)' <=> Due(u)) /\ (Due(u) => rt'[u].node = rt[u].node)
  BY DEF SameLedger
<1>2. \A n : n \in Buried <=> \E u \in Tasks : Due(u) /\ n = rt[u].node
  BY DEF Buried
<1>3. \A n : n \in Buried' <=> \E u \in Tasks : Due(u)' /\ n = rt'[u].node
  BY DEF Buried
<1> QED
  BY <1>1, <1>2, <1>3

\* A silent step leaves the nodes in play, and who owes them.
LEMMA SilentPlay ==
  ASSUME NEW t \in Tasks, Silent(t)
  PROVE  /\ InPlay' = InPlay /\ AllOwed' = AllOwed /\ Buried' = Buried
         /\ Tops' \subseteq Tops
         /\ \A n : Debtors(n)' = Debtors(n)
         /\ \A r : Nodes(r)' = Nodes(r)
         /\ Walked'
<1>1. /\ Slots' = Slots /\ link' = link /\ \A u \in Tasks : u # t => SameLedger(u)
  BY StaysFacts DEF Silent, Stays
<1>2. Tops' \subseteq Tops /\ Tops \subseteq Tops' \union AllOwed
  BY <1>1 DEF Silent, Tops
<1>3. AllOwed' = AllOwed /\ Walked' /\ \A n : Debtors(n)' = Debtors(n)
  BY SameOwed DEF Silent
<1>4. Buried' = Buried
  BY <1>1, SameBuried DEF Silent
<1>5. InPlay' = InPlay
  BY <1>2, <1>3, <1>4 DEF InPlay
<1>6. \A r : Nodes(r)' = Nodes(r)
  BY <1>1, <1>5 DEF Nodes
<1> QED
  BY <1>2, <1>3, <1>4, <1>5, <1>6

\* A silent step keeps the nodes in their places.
LEMMA SilentPlaces ==
  ASSUME NEW t \in Tasks, Silent(t), Places
  PROVE  Places'
<1>1. /\ Slots' = Slots /\ \A u \in Tasks : u # t => SameLedger(u)
      /\ Addend' = Addend /\ build' = build
  BY StaysFacts DEF Silent, Stays
<1>2. /\ Tops' \subseteq Tops /\ AllOwed' = AllOwed /\ Buried' = Buried
      /\ \A n : Debtors(n)' = Debtors(n)
  BY SilentPlay
<1>3. \A s, z \in Slots' : head'[s].ptr = head'[z].ptr /\ head'[s].ptr # NULL => s = z
  BY <1>1 DEF Silent, Places
<1>4. ASSUME NEW u \in Tasks, Due(u)'
      PROVE  Due(u) /\ rt'[u] = rt[u] /\ LateBy(u)' = LateBy(u)
  BY <1>1, <1>4 DEF Silent, SameLedger, LateBy
<1>5. CASE build.words = 2
  <2>1. \A u, v \in Tasks : Due(u)' /\ Due(v)' /\ rt'[u].node = rt'[v].node => u = v
    BY <1>4, <1>5 DEF Places
  <2>2. ASSUME NEW u \in Tasks, NEW n \in Objs, Due(u)', rt'[u].node = n
        PROVE  Cardinality(Debtors(n))' <= LateBy(u)' /\ LateBy(u)' <= TaskNum
    <3>1. Due(u) /\ rt[u].node = n /\ LateBy(u)' = LateBy(u)
      BY <1>4, <2>2
    <3>2. Cardinality(Debtors(n)) <= LateBy(u) /\ LateBy(u) <= TaskNum
      BY <1>5, <3>1 DEF Places
    <3> QED
      BY <1>2, <3>1, <3>2
  <2>3. Tops' \intersect (AllOwed' \union Buried') = {}
    BY <1>2, <1>5 DEF Places
  <2> QED
    BY <1>1, <1>3, <1>5, <2>1, <2>2, <2>3 DEF Places
<1>6. CASE build.words = 1
  <2>1. \A u, v \in Tasks : Owed(u)' \intersect Owed(v)' # {} => u = v
    BY <1>6 DEF Silent, Calm, Places
  <2>2. \A s \in Slots' : head'[s].ref = 0 => head'[s].ptr = NULL
    BY <1>1, <1>6 DEF Silent, Vacant
  <2> QED
    BY <1>1, <1>3, <1>6, <2>1, <2>2 DEF Places
<1>7. build.words \in {1, 2}
  BY SoundParts, SlotFacts DEF Silent, Stays
<1> QED
  BY <1>5, <1>6, <1>7

\* A silent step keeps the last nodes of the batches.
LEMMA SilentStruct ==
  ASSUME NEW t \in Tasks, Silent(t), Struct
  PROVE  Struct' /\ Lasts' = Lasts
<1>1. /\ \A r : Nodes(r)' = Nodes(r)
      /\ InPlay' = InPlay
  BY SilentPlay
<1>2. \A u \in Tasks : /\ list'[u] = list[u] /\ Growing(u)' = Growing(u)
                       /\ u # t => Ending(u)' = Ending(u)
  BY StaysFacts DEF Silent, SameLedger
<1>3. Lasts \subseteq Lasts'
  <2>1. \A r : r \in Lasts' <=> \/ Nodes(r)' # {}
                                \/ \E u \in Tasks : r \in list'[u] \union Growing(u)' \union Ending(u)'
    BY DEF Lasts, Nodes
  <2>2. ASSUME NEW r \in Lasts, Nodes(r)' = {} PROVE r \in Lasts'
    <3>1. PICK u \in Tasks : r \in list[u] \union Growing(u) \union Ending(u)
      BY <1>1, <2>2, LastsIs
    <3>2. u = t /\ r \in Ending(t) => r \in Ending(t)'
      BY <1>1, <2>2 DEF Silent
    <3>3. r \in list'[u] \union Growing(u)' \union Ending(u)'
      BY <1>2, <3>1, <3>2
    <3> QED
      BY <2>1, <3>3
  <2> QED
    BY <2>1, <2>2
<1> DEFINE N == {}
           L == {}
<1>4. Stays(t) /\ Fresh(t)' \subseteq Fresh(t) /\ Ending(t)' \subseteq Ending(t)
  BY DEF Silent
<1>5. InPlay' \subseteq InPlay \union N /\ list'[t] \subseteq list[t] \union L
  BY <1>1, <1>2
<1>6. \A n \in N : /\ n \in Objs /\ status[n] = "retired" /\ n \notin Lasts
                   /\ link[n] \in Ending(t)
                   /\ \A u \in Tasks : n \notin Fresh(u)'
  OBVIOUS
<1>7. \A r \in L : /\ r \in Lasts /\ (Nodes(r) # {} \/ Active(r) # {})
                   /\ Nodes(r)' = {} /\ Active(r)' = {}
  OBVIOUS
<1> HIDE DEF N, L
<1> QED
  BY <1>3, <1>4, <1>5, <1>6, <1>7, StructStep

-----------------------------------------------------------------------------
(***************************************************************************)
(* The value of a counter, and that silent steps change no sum.            *)
(***************************************************************************)

\* What the counter of r should be.
Worth(r) == Cardinality(Debts(r)) - Cardinality(Late(r))
              - (IF build.words = 1 THEN 0 ELSE Addend * Missing(r))
Settled(r) == refs[r] = Worth(r) % CounterMod
Roomy(r) ==
    IF build.words = 2 THEN Unadded(r) + Cardinality(Nodes(r)) <= NumSlots
    ELSE /\ Cardinality(Debts(r)) <= TaskNum
         /\ Active(r) # {} => Cardinality(Debts(r)) <= Cardinality(Late(r))

\* Room and Counted, batch by batch.
LEMMA CountedIs ==
  /\ Counted <=> \A r \in Lasts : Settled(r)
  /\ Room <=> \A r \in Lasts : Roomy(r)
BY DEF Counted, Room, Settled, Worth, Roomy

\* A counter that moves with what it should be.
LEMMA SettledMove ==
  ASSUME NEW m \in Nat \ {0}, NEW f, NEW g, NEW v \in Int, NEW w \in Int, NEW x \in Int,
         f = v % m, g = (f + x) % m, Even(x - (w - v), m)
  PROVE  g = w % m
<1>1. f \in 0 .. m - 1 /\ f \in Int
  BY ModRange
<1>2. g \in 0 .. m - 1
  <2>1. f + x \in Int
    BY <1>1
  <2> QED
    BY <2>1, ModRange
<1>3. Even(f - v, m) /\ Even(g - (f + x), m)
  BY <1>1, EvenMod
<1> DEFINE a == f - v
           b == g - (f + x)
           c == x - (w - v)
<1>4. Even(a + b, m)
  <2>1. a \in Int /\ b \in Int
    BY <1>1, <1>2
  <2>2. Even(a, m) /\ Even(b, m)
    BY <1>3
  <2> HIDE DEF a, b
  <2> QED
    BY <2>1, <2>2, EvenSum
<1>5. Even((a + b) + c, m)
  <2>1. a + b \in Int /\ c \in Int
    <3>1. f \in Int /\ g \in Int
      BY <1>1, <1>2
    <3> QED
      BY ONLY <3>1, v \in Int, w \in Int, x \in Int
  <2> HIDE DEF a, b
  <2> QED
    BY <1>4, <2>1, EvenSum
<1>6. (a + b) + c = g - w
  <2>1. f \in Int /\ g \in Int
    BY <1>1, <1>2
  <2> QED
    BY ONLY <2>1, v \in Int, w \in Int, x \in Int
<1>7. Even(g - w, m)
  BY <1>5, <1>6
<1> QED
  BY <1>2, <1>7, EvenSame

\* Zero is a multiple.
LEMMA NoMove ==
  ASSUME NEW m \in Nat
  PROVE  Even(0, m)
  BY DEF Even

\* A silent step changes none of the sums of a batch.
LEMMA SilentSums ==
  ASSUME NEW t \in Tasks, Silent(t), AllPushes, AllPushes', NEW r \in Objs
  PROVE  /\ Cardinality(Debts(r))' = Cardinality(Debts(r))
         /\ Cardinality(Late(r))' = Cardinality(Late(r))
         /\ build.words = 2 => Missing(r)' = Missing(r) /\ Unadded(r)' = Unadded(r)
         /\ Active(r)' \subseteq Active(r)
         /\ build' = build /\ NumSlots' = NumSlots /\ Addend' = Addend
<1>1. /\ Sound /\ Sound' /\ build' = build /\ link' = link /\ Slots' = Slots
      /\ NumSlots' = NumSlots /\ Addend' = Addend /\ AllTidy /\ AllTidy'
      /\ \A u \in Tasks : u # t => SameLedger(u)
  BY StaysFacts DEF Silent, Stays
<1>2. \A u \in Tasks : OwedTo(u, r)' = OwedTo(u, r)
  BY <1>1 DEF Silent, Calm, OwedTo
<1>3. Cardinality(Debts(r))' = Cardinality(Debts(r))
  BY <1>1, <1>2, DebtsMove
<1>4. Cardinality(Late(r))' = Cardinality(Late(r))
  <2>1. \A u \in Tasks : u # t => Withheld(u, r)' = Withheld(u, r)
    BY <1>1 DEF SameLedger
  <2>2. Withheld(t, r)' = Withheld(t, r)
    BY DEF Silent
  <2> QED
    BY <1>1, <2>1, <2>2, LateMove
<1>5. ASSUME build.words = 2
      PROVE  Missing(r)' = Missing(r) /\ Unadded(r)' = Unadded(r)
  <2>1. HeadsOf(r)' = HeadsOf(r)
    BY <1>1, <1>5 DEF Silent, HeadsOf
  <2>2. \A u \in Tasks : (Due(u)' <=> Due(u)) /\ (Due(u) => rt'[u].node = rt[u].node)
    BY <1>1 DEF SameLedger, Silent
  <2>3. DuesOf(r)' = DuesOf(r)
    BY <1>1, <2>2 DEF DuesOf
  <2>4. \A u \in Tasks : u # t => LackOf(u, r)' = LackOf(u, r)
    BY <1>1 DEF SameLedger
  <2>5. LackOf(t, r)' = LackOf(t, r)
    BY <1>5 DEF Silent
  <2>6. Unadded(r)' = Unadded(r)
    BY <1>1, <2>4, <2>5, LackMove
  <2>7. Missing(r)' = Cardinality(HeadsOf(r))' + Cardinality(DuesOf(r))' + Unadded(r)'
    BY DEF Missing, HeadsOf, DuesOf, Unadded, Due
  <2> QED
    BY <2>1, <2>3, <2>6, <2>7, MissingIs
<1>6. Active(r)' \subseteq Active(r)
  <2> SUFFICES ASSUME NEW u \in Active(r)' PROVE u \in Active(r)
    OBVIOUS
  <2>1. u \in Tasks
    BY DEF Active
  <2>2. CASE u = t
    <3>1. Tidy(t) /\ Tidy(t)'
      BY <1>1 DEF AllTidy
    <3>2. (pc[t] = "rt_fin" => Retiring(t) = NULL) /\ (pc'[t] = "rt_fin" => Retiring(t)' = NULL)
      BY <3>1 DEF Tidy, Retires, Retiring
    <3>3. (t \in Active(r) <=> r \in Ending(t)) /\ (t \in Active(r)' <=> r \in Ending(t)')
      BY <3>2 DEF Active, Ending
    <3> QED
      BY <2>2, <3>3 DEF Silent
  <2>3. CASE u # t
    BY <1>1, <2>1, <2>3 DEF SameLedger
  <2> QED
    BY <2>2, <2>3
<1> QED
  BY <1>1, <1>3, <1>4, <1>5, <1>6

\* A silent step keeps every counter exact.
LEMMA SilentBooks ==
  ASSUME NEW t \in Tasks, Silent(t), AllPushes, AllPushes', Struct, Room, Counted
  PROVE  Room' /\ Counted'
<1>1. Lasts' = Lasts
  BY SilentStruct
<1>2. Sound /\ refs' = refs
  BY DEF Silent, Stays
<1>3. build.words \in {1, 2}
  BY <1>2, SoundParts, SlotFacts
<1>4. Lasts \subseteq Objs
  <2>1. \A r \in Lasts : status[r] = "retired" /\ status[link[r]] = "retired"
    BY DEF Struct, BatchesApart
  <2>2. \A u \in Tasks : Tidy(u)
    BY DEF Silent, Stays, AllTidy
  <2>3. SharedTypeOK
    BY <1>2, TypeParts DEF Sound
  <2>4. \A r \in Lasts : r \in Objs
    <3> TAKE r \in Lasts
    <3>1. Nodes(r) # {} => r \in Objs
      BY <1>2, <2>3, InPlayType DEF Nodes, SharedTypeOK
    <3> QED
      BY <1>2, <2>2, <3>1, LastsIs, LastsType
  <2> QED
    BY <2>4
<1>5. \A r : Cardinality(Nodes(r))' = Cardinality(Nodes(r))
  BY SilentPlay
<1>6. ASSUME NEW r \in Lasts PROVE Settled(r)' /\ Roomy(r)'
  <2>1. Settled(r) /\ Roomy(r) /\ r \in Objs
    BY <1>4, CountedIs
  <2>2. /\ Cardinality(Debts(r))' = Cardinality(Debts(r))
        /\ Cardinality(Late(r))' = Cardinality(Late(r))
        /\ build.words = 2 => Missing(r)' = Missing(r) /\ Unadded(r)' = Unadded(r)
        /\ Active(r)' \subseteq Active(r)
        /\ build' = build /\ NumSlots' = NumSlots /\ Addend' = Addend
    BY <2>1, SilentSums
  <2>3. Worth(r)' = Worth(r)
    BY <1>3, <2>2 DEF Worth
  <2>4. Settled(r)'
    BY <1>2, <2>1, <2>3 DEF Settled
  <2>5. Roomy(r)'
    BY <1>3, <1>5, <2>1, <2>2 DEF Roomy
  <2> QED
    BY <2>4, <2>5
<1> QED
  BY <1>1, <1>6 DEF Counted, Room, Settled, Worth, Roomy

-----------------------------------------------------------------------------
(***************************************************************************)
(* The invariant, and the steps that disturb one thread only.              *)
(***************************************************************************)

Owns(t) == Pushes(t) /\ Amounts(t) /\ Holds(t)

\* The books of Hyaline.
Books ==
    /\ Sound /\ AllTidy /\ Sited /\ Walked /\ Places /\ Struct
    /\ AllPushes /\ AllAmounts /\ AllHolds /\ Emptied /\ Room /\ Counted

\* The last nodes are blocks.
LEMMA LastsObjs ==
  ASSUME Sound, AllTidy
  PROVE  Lasts \subseteq Objs
<1>1. SharedTypeOK
  BY TypeParts DEF Sound
<1> SUFFICES ASSUME NEW r \in Lasts PROVE r \in Objs
  OBVIOUS
<1>2. Nodes(r) # {} => r \in Objs
  BY <1>1, InPlayType DEF Nodes, SharedTypeOK
<1> QED
  BY <1>2, LastsIs, LastsType DEF AllTidy

\* What other threads have in mind stays as it was.
LEMMA OthersOwn ==
  ASSUME NEW t \in Tasks, Stays(t), NEW u \in Tasks, u # t, Pushes(u), Amounts(u)
  PROVE  Pushes(u)' /\ Amounts(u)'
<1>1. /\ rt'[u] = rt[u] /\ pc'[u] = pc[u] /\ at'[u] = at[u]
      /\ Retiring(u)' = Retiring(u)
      /\ SMRBatch' = SMRBatch /\ NumSlots' = NumSlots /\ Addend' = Addend
      /\ build' = build /\ link' = link
      /\ \A o \in Objs : status'[o] = "retired" <=> status[o] = "retired"
  BY StaysFacts DEF SameLedger, Stays
<1>2. rt[u].todo \in Seq(Objs)
  BY SoundParts, Fields DEF Stays
<1>3. Pushes(u)'
  BY <1>1, <1>2 DEF Pushes
<1>4. Skips(u)' = Skips(u)
  BY <1>1 DEF Skips
<1> QED
  BY <1>1, <1>3, <1>4 DEF Amounts

\* The batch that another thread pushes still has its reference.
LEMMA OthersHold ==
  ASSUME NEW t \in Tasks, Stays(t), NEW u \in Tasks, u # t, Holds(u),
         pc[u] \in Retires => (Owed(u) \union {head[vec[u]].ptr}) \ {NULL}
                                \subseteq Owed(u)' \union {head'[vec'[u]].ptr}
  PROVE  Holds(u)'
<1>1. /\ rt'[u] = rt[u] /\ pc'[u] = pc[u] /\ at'[u] = at[u]
      /\ Retiring(u)' = Retiring(u) /\ vec'[u] = vec[u]
      /\ SMRBatch' = SMRBatch /\ build' = build /\ link' = link
  BY StaysFacts DEF SameLedger, Stays, Good, Kept
<1>2. Skips(u)' = Skips(u)
  BY <1>1 DEF Skips
<1> DEFINE A == Owed(u) \union {head[vec[u]].ptr}
           B == Owed(u)' \union {head'[vec'[u]].ptr}
<1>3. pc[u] \in Retires => A \ {NULL} \subseteq B
  OBVIOUS
<1> HIDE DEF A, B
<1>4. Holds(u) <=>
        (/\ build.words = 2
         /\ \/ pc[u] \in {"rt_access", "rt_load", "rt_cas"} /\ vec[u] < at[u]
            \/ pc[u] \in {"rt_adj", "rt_count"} /\ vec[u] <= at[u]
         => Skips(u) > 0 \/ \E n \in A : n # NULL /\ link[n] = Retiring(u))
  BY DEF Holds, A
<1>5. Holds(u)' <=>
        (/\ build'.words = 2
         /\ \/ pc'[u] \in {"rt_access", "rt_load", "rt_cas"} /\ vec'[u] < at'[u]
            \/ pc'[u] \in {"rt_adj", "rt_count"} /\ vec'[u] <= at'[u]
         => Skips(u)' > 0 \/ \E n \in B : n # NULL /\ link'[n] = Retiring(u)')
  BY DEF Holds, B
<1> QED
  BY <1>1, <1>2, <1>3, <1>4, <1>5 DEF Retires

\* A thread that does not retire has nothing in mind.
LEMMA PlainOwn ==
  ASSUME NEW t \in Tasks, Stays(t), pc'[t] \notin Retires \union {"rt_fin"},
         pc'[t] \in {"lv_clear", "lv_adj"} => rt'[t].amt = Addend
  PROVE  Owns(t)'
<1>1. Tidy(t)' /\ Sound' /\ Addend' = Addend /\ build' = build
  BY StaysFacts DEF Stays, Neat
<1>2. rt'[t].first = NULL /\ rt'[t].todo = <<>>
  BY <1>1 DEF Tidy
<1>3. SMRBatch' \in Nat
  BY SoundParts, SlotFacts, StaysFacts DEF Stays
<1>4. Pushes(t)'
  BY <1>2, <1>3 DEF Pushes, Retires
<1>5. Amounts(t)'
  BY <1>1 DEF Amounts, Retires
<1>6. Holds(t)'
  BY DEF Holds, Retires
<1> QED
  BY <1>4, <1>5, <1>6 DEF Owns

\* A list that is left in an empty slot stays with the thread that will take it.
LEMMA EmptiedStep ==
  ASSUME NEW t \in Tasks, Stays(t), Emptied,
         \A s \in Slots : build.words = 2 /\ head'[s].ref = 0 /\ head'[s].ptr # NULL =>
            \/ head'[s] = head[s] /\ ~(pc[t] = "lv_clear" /\ vec[t] = s
                                       /\ rt[t].node = head[s].ptr)
            \/ pc'[t] = "lv_clear" /\ vec'[t] = s /\ rt'[t].node = head'[s].ptr
  PROVE  Emptied'
<1>1. /\ \A u \in Tasks : u # t => pc'[u] = pc[u] /\ vec'[u] = vec[u] /\ rt'[u] = rt[u]
      /\ build' = build /\ Slots' = Slots
  BY StaysFacts DEF Stays, Good, Kept
<1> SUFFICES ASSUME build.words = 2, NEW s \in Slots, head'[s].ref = 0, head'[s].ptr # NULL
             PROVE  \E u \in Tasks : pc'[u] = "lv_clear" /\ vec'[u] = s
                                     /\ rt'[u].node = head'[s].ptr
  BY <1>1 DEF Emptied
<1>2. CASE pc'[t] = "lv_clear" /\ vec'[t] = s /\ rt'[t].node = head'[s].ptr
  BY <1>2
<1>3. CASE head'[s] = head[s] /\ ~(pc[t] = "lv_clear" /\ vec[t] = s
                                   /\ rt[t].node = head[s].ptr)
  <2>1. PICK u \in Tasks : pc[u] = "lv_clear" /\ vec[u] = s /\ rt[u].node = head[s].ptr
    BY <1>3 DEF Emptied
  <2>2. u # t
    BY <1>3, <2>1
  <2> QED
    BY <1>1, <1>3, <2>1, <2>2
<1> QED
  BY <1>2, <1>3

\* The parts of the books after a step.
LEMMA BooksAfter ==
  ASSUME NEW t \in Tasks, Stays(t), AllPushes, AllAmounts, AllHolds,
         Sited', Walked', Places', Struct', Room', Counted', Emptied', Owns(t)',
         \A u \in Tasks : u # t /\ pc[u] \in Retires =>
            (Owed(u) \union {head[vec[u]].ptr}) \ {NULL}
               \subseteq Owed(u)' \union {head'[vec'[u]].ptr}
  PROVE  Books'
<1>1. Sound' /\ AllTidy'
  BY StaysFacts DEF Stays
<1>2. \A u \in Tasks : Pushes(u)' /\ Amounts(u)' /\ Holds(u)'
  <2> TAKE u \in Tasks
  <2>1. CASE u = t
    BY <2>1 DEF Owns
  <2>2. CASE u # t
    BY <2>2, OthersOwn, OthersHold DEF AllPushes, AllAmounts, AllHolds
  <2> QED
    BY <2>1, <2>2
<1>3. AllPushes' /\ AllAmounts' /\ AllHolds'
  BY <1>2 DEF AllPushes, AllAmounts, AllHolds
<1> QED
  BY <1>1, <1>3 DEF Books

\* The books need the nodes of the others to be pushed before they are counted.
LEMMA PushesAfter ==
  ASSUME NEW t \in Tasks, Stays(t), AllPushes, AllAmounts, Pushes(t)'
  PROVE  AllPushes'
<1>1. \A u \in Tasks : Pushes(u)'
  BY OthersOwn DEF AllPushes, AllAmounts
<1> QED
  BY <1>1 DEF AllPushes

\* A silent step keeps the invariant.
LEMMA SilentKeeps ==
  ASSUME NEW t \in Tasks, Books, Silent(t), Sited', Owns(t)', Emptied',
         \A u \in Tasks : u # t /\ pc[u] \in Retires =>
            head'[vec[u]].ptr = head[vec[u]].ptr
  PROVE  Books'
<1>1. Stays(t) /\ Calm
  BY DEF Silent
<1>2. Walked' /\ Places' /\ Struct'
  BY SilentPlay, SilentPlaces, SilentStruct DEF Books
<1>3. AllPushes'
  BY <1>1, PushesAfter DEF Owns, Books
<1>4. Room' /\ Counted'
  BY <1>3, SilentBooks DEF Books
<1>5. \A u \in Tasks : u # t /\ pc[u] \in Retires =>
            (Owed(u) \union {head[vec[u]].ptr}) \ {NULL}
               \subseteq Owed(u)' \union {head'[vec'[u]].ptr}
  BY <1>1 DEF Stays, Good, Kept, Calm
<1> QED
  BY <1>1, <1>2, <1>4, <1>5, BooksAfter DEF Books

-----------------------------------------------------------------------------
(***************************************************************************)
(* enter, trim and the loads of leave keep the invariant.                  *)
(***************************************************************************)

\* A step of a thread that neither retires nor has an adjustment to make.
Besides == Retires \union {"rt_fin", "lv_adj"}
\* A step of a thread without a ledger that moves no node is silent.
LEMMA ClearSilent ==
  ASSUME NEW t \in Tasks, Stays(t), Calm, list' = list, refs' = refs,
         pc[t] \notin Besides, pc'[t] \notin Besides,
         \A s \in Slots : \/ head'[s].ptr = head[s].ptr
                          \/ /\ build.words = 1 /\ head'[s].ptr = NULL
                             /\ head[s].ptr \in AllOwed,
         Vacant'
  PROVE  Silent(t)
<1>1. Tidy(t) /\ Tidy(t)' /\ batch' = batch
  BY StaysFacts DEF Stays, AllTidy
<1>2. /\ rt[t].first = NULL /\ rt[t].todo = <<>> /\ rt'[t].first = NULL /\ rt'[t].todo = <<>>
      /\ ~Adjusting(t) /\ ~Adjusting(t)'
  BY <1>1 DEF Tidy, Besides, Adjusting, Retires
<1>3. Fresh(t)' = Fresh(t)
  BY <1>1, <1>2 DEF Fresh
<1>4. /\ Retiring(t) = NULL /\ Retiring(t)' = NULL
      /\ Ending(t) = {} /\ Ending(t)' = {} /\ ~Due(t) /\ ~Due(t)'
  BY <1>2 DEF Retiring, Ending, Due, Adjusting
<1>5. \A r \in Objs : r # NULL
  BY DEF Ptrs
<1>6. \A r \in Objs : t \notin Active(r) /\ t \notin Active(r)'
  BY <1>4, <1>5 DEF Active, Besides
<1>7. \A r \in Objs : /\ Withheld(t, r) = 0 /\ Withheld(t, r)' = 0
                      /\ LackOf(t, r) = {} /\ LackOf(t, r)' = {}
  BY <1>2, <1>4, <1>5, <1>6 DEF Withheld, LackOf
<1> QED
  BY <1>3, <1>4, <1>7 DEF Silent

\* The parts of the invariant.
LEMMA BooksParts ==
  ASSUME Books
  PROVE  /\ Sound /\ AllTidy /\ Sited /\ Walked /\ Places /\ Struct
         /\ AllPushes /\ AllAmounts /\ AllHolds /\ Emptied /\ Room /\ Counted
         /\ IsFiniteSet(Objs) /\ Vacant /\ build.words \in {1, 2}
         /\ \A t \in Tasks : Tidy(t) /\ Paths(t)
<1>1. Sound /\ build \in Builds
  BY SoundParts DEF Books, Sound, HyalineTypeOK, SharedTypeOK
<1>2. build.words \in {1, 2}
  BY <1>1, SlotFacts
<1> QED
  BY <1>1, <1>2, BlocksAssumption DEF Books, AllTidy, Walked, Places, Vacant

\* Steps between the calls that reach other threads, and before them.
LEMMA IdleKeeps ==
  ASSUME Books, NEW t \in Tasks, Good(t), Sound',
         \/ Enter2(t) \/ EnterLook(t)
         \/ Alloc(t) \/ Rideable(t) \/ \E c \in Cells : Read(t, c) \/ Deref(t, c)
         \/ DerefValue(t) \/ DerefGlobal(t) \/ DerefAccess1(t) \/ DerefAccess2(t)
  PROVE  Books'
<1>1. Sound /\ Sited /\ Walked /\ Tidy(t) /\ Vacant /\ AllTidy /\ Emptied
  BY BooksParts
<1>2. /\ UNCHANGED <<build, next, link, refs, batch, vec, head, handle, list, wk, rt>>
      /\ Neat(t) /\ Sited' /\ Retired' = Retired
      /\ \/ pc[t] \in Reads /\ pc'[t] \in Reads
         \/ pc[t] \in Rests /\ pc'[t] \in Rests
  BY <1>1, IdleFx
<1>3. Calm
  BY <1>1, IdleCalm
<1>4. Stays(t)
  BY <1>1, <1>2 DEF Stays
<1>5. pc[t] \notin Besides /\ pc'[t] \notin Besides \union {"lv_clear"} /\ pc[t] # "lv_clear"
  BY <1>2 DEF Besides, Retires, Reads, Rests
<1>6. Vacant'
  BY <1>1, <1>2, SameBuild DEF Vacant
<1>7. Silent(t)
  BY <1>2, <1>3, <1>4, <1>5, <1>6, ClearSilent
<1>8. Owns(t)'
  BY <1>4, <1>5, PlainOwn DEF Besides
<1>9. Emptied'
  BY <1>1, <1>2, <1>4, <1>5, EmptiedStep
<1> QED
  BY <1>2, <1>7, <1>8, <1>9, SilentKeeps

\* enter keeps the invariant.
LEMMA EnterKeeps ==
  ASSUME Books, NEW t \in Tasks, Good(t), Sound', Enter1(t) \/ EnterAdd(t)
  PROVE  Books'
<1>1. Sound /\ Sited /\ Walked /\ Tidy(t) /\ Vacant /\ AllTidy /\ Emptied /\ IsFiniteSet(Objs)
  BY BooksParts
<1>2. /\ UNCHANGED <<clientVars, build, next, link, refs, batch, list, wk, rt>>
      /\ Neat(t) /\ pc[t] \in Rests /\ pc'[t] = "in"
      /\ vec'[t] \in Slots
      /\ build.words = 1 => vec'[t] = vec[t] /\ head'[vec'[t]].ptr = NULL
      /\ build.words = 2 => head'[vec'[t]].ptr = head[vec'[t]].ptr
      /\ \A s \in Slots : s # vec'[t] => head'[s] = head[s]
      /\ head'[vec'[t]].ref # 0
  BY <1>1, EnterFx
<1>3. Calm
  BY <1>1, EnterCalm
<1>4. Sited' /\ Retired' = Retired
  BY <1>1, <1>2, SitedSame
<1>5. Stays(t)
  BY <1>1, <1>2, <1>4 DEF Stays
<1>6. pc[t] \notin Besides /\ pc'[t] \notin Besides \union {"lv_clear"} /\ pc[t] # "lv_clear"
  BY <1>2 DEF Besides, Retires, Rests
<1>7. Slots' = Slots /\ build.words \in {1, 2}
  BY <1>2, SameBuild, BooksParts
<1>8. build.words = 1 => head[vec[t]].ptr = NULL
  <2>1. ~Inside(t)
    BY <1>1, <1>2 DEF Inside, Rests, Tidy
  <2>2. build.words = 1 => head[vec[t]].ref = 0
    BY <1>1, <2>1, HeadFacts
  <2>3. vec[t] \in Slots
    BY <1>1, SoundParts, Fields
  <2> QED
    BY <1>1, <2>2, <2>3 DEF Vacant
<1>9. \A s \in Slots : head'[s].ptr = head[s].ptr
  BY <1>2, <1>7, <1>8
<1>10. Vacant'
  BY <1>1, <1>2, <1>7 DEF Vacant
<1>11. Silent(t)
  BY <1>2, <1>3, <1>5, <1>6, <1>9, <1>10, ClearSilent
<1>12. Owns(t)'
  BY <1>5, <1>6, PlainOwn DEF Besides
<1>13. Emptied'
  BY <1>1, <1>2, <1>5, <1>6, EmptiedStep
<1>14. \A u \in Tasks : vec[u] \in Slots
  BY <1>1, SoundParts, Fields
<1> QED
  BY <1>4, <1>9, <1>11, <1>12, <1>13, <1>14, SilentKeeps

\* The loads of the head in leave and trim keep the invariant.
LEMMA LoadHeadKeeps ==
  ASSUME Books, NEW t \in Tasks, Good(t), Sound',
         Leave2(t) \/ LeaveTrim2(t) \/ LeaveRetry(t)
  PROVE  Books'
<1>1. Sound /\ Sited /\ Walked /\ Tidy(t) /\ Vacant /\ AllTidy /\ Emptied /\ IsFiniteSet(Objs)
  BY BooksParts
<1>2. /\ Untouched /\ Neat(t) /\ UNCHANGED <<head, handle, list, rt, at>>
      /\ pc[t] \in {"in", "leave", "lv_cas"} /\ pc'[t] = "lv_cas"
  BY <1>1, LoadHeadFx
<1>3. Calm
  BY <1>1, LoadHeadCalm
<1>4. Sited' /\ Retired' = Retired
  BY <1>1, <1>2, SitedSame DEF Untouched
<1>5. Stays(t)
  BY <1>1, <1>2, <1>4 DEF Stays, Untouched
<1>6. pc[t] \notin Besides /\ pc'[t] \notin Besides \union {"lv_clear"} /\ pc[t] # "lv_clear"
  BY <1>2 DEF Besides, Retires
<1>7. Vacant'
  BY <1>1, <1>2, SameBuild DEF Vacant, Untouched
<1>8. Silent(t)
  BY <1>2, <1>3, <1>5, <1>6, <1>7, ClearSilent DEF Untouched
<1>9. Owns(t)'
  BY <1>5, <1>6, PlainOwn DEF Besides
<1>10. Emptied'
  BY <1>1, <1>2, <1>5, <1>6, EmptiedStep
<1> QED
  BY <1>2, <1>4, <1>8, <1>9, <1>10, SilentKeeps

\* Acknowledging a traversal and starting a trim keep the invariant.
LEMMA AckTrimKeeps ==
  ASSUME Books, NEW t \in Tasks, Good(t), Sound', Ack(t) \/ Trim(t)
  PROVE  Books'
<1>1. Sound /\ Sited /\ Walked /\ Tidy(t) /\ Vacant /\ AllTidy /\ Emptied /\ IsFiniteSet(Objs)
  BY BooksParts
<1>2. /\ Untouched /\ Neat(t) /\ UNCHANGED <<head, list, rt>>
      /\ pc[t] \in {"in", "ack"}
      /\ pc'[t] \in {"trav", "ack", "free", "look", "add", "out", "in"}
  BY <1>1, AckFx, TrimFx
<1>3. Calm
  BY <1>1, AckCalm, TrimCalm
<1>4. Sited' /\ Retired' = Retired
  BY <1>1, <1>2, SitedSame DEF Untouched
<1>5. Stays(t)
  BY <1>1, <1>2, <1>4 DEF Stays, Untouched
<1>6. pc[t] \notin Besides /\ pc'[t] \notin Besides \union {"lv_clear"} /\ pc[t] # "lv_clear"
  BY <1>2 DEF Besides, Retires
<1>7. Vacant'
  BY <1>1, <1>2, SameBuild DEF Vacant, Untouched
<1>8. Silent(t)
  BY <1>2, <1>3, <1>5, <1>6, <1>7, ClearSilent DEF Untouched
<1>9. Owns(t)'
  BY <1>5, <1>6, PlainOwn DEF Besides
<1>10. Emptied'
  BY <1>1, <1>2, <1>5, <1>6, EmptiedStep
<1> QED
  BY <1>2, <1>4, <1>8, <1>9, <1>10, SilentKeeps

-----------------------------------------------------------------------------
(***************************************************************************)
(* The steps of leave that take a list keep the invariant.                 *)
(***************************************************************************)

\* Taking the list of a slot of one's own keeps the invariant.
LEMMA TakeListKeeps ==
  ASSUME Books, NEW t \in Tasks, Good(t), Sound', Leave1(t) \/ LeaveTrim1(t)
  PROVE  Books'
<1>1. Sound /\ Sited /\ Walked /\ Tidy(t) /\ Vacant /\ AllTidy /\ Emptied /\ IsFiniteSet(Objs)
  BY BooksParts
<1>2. /\ Untouched /\ Neat(t) /\ UNCHANGED <<handle, list, rt>>
      /\ pc[t] \in {"in", "leave"} /\ build.words = 1 /\ ~Inside(t)'
      /\ head' = [head EXCEPT ![vec[t]] = [ref |-> 0, ptr |-> NULL]]
      /\ pc'[t] \in {"trav", "ack", "free", "look", "add", "out", "in"}
  BY <1>1, TakeListFx
<1>3. Calm
  BY <1>1, TakeListCalm
<1>4. Sited' /\ Retired' = Retired
  BY <1>1, <1>2, SitedSame DEF Untouched
<1>5. Stays(t)
  BY <1>1, <1>2, <1>4 DEF Stays, Untouched
<1>6. pc[t] \notin Besides /\ pc'[t] \notin Besides \union {"lv_clear"} /\ pc[t] # "lv_clear"
  BY <1>2 DEF Besides, Retires
<1>7. Slots' = Slots /\ build' = build /\ vec[t] \in Slots /\ \A u \in Tasks : vec[u] \in Slots
  BY <1>1, <1>2, SameBuild, SoundParts, Fields DEF Untouched
<1>8. head[vec[t]].ptr # NULL => head[vec[t]].ptr \in AllOwed
  <2>1. Inside(t)
    BY <1>2 DEF Inside
  <2>2. head[vec[t]].ptr # NULL => head[vec[t]].ptr \in Line(t)
    BY <1>1, <2>1, LineFacts
  <2>3. Line(t) \subseteq Owed(t)
    BY <1>2 DEF Owed, ToDrop
  <2> QED
    BY <2>2, <2>3 DEF AllOwed
<1>9. head \in [Slots -> [ref : 0 .. TaskNum, ptr : Ptrs]]
  BY <1>1, TypeParts DEF Sound, SharedTypeOK
<1>10. \A s \in Slots : \/ head'[s].ptr = head[s].ptr
                        \/ /\ build.words = 1 /\ head'[s].ptr = NULL
                           /\ head[s].ptr \in AllOwed
  BY <1>2, <1>7, <1>8, <1>9
<1>11. Vacant'
  BY <1>1, <1>2, <1>7, <1>9 DEF Vacant
<1>12. Silent(t)
  BY <1>2, <1>3, <1>5, <1>6, <1>10, <1>11, ClearSilent DEF Untouched
<1>13. Owns(t)'
  BY <1>5, <1>6, PlainOwn DEF Besides
<1>14. Emptied'
  BY <1>2, <1>7 DEF Emptied
<1>15. \A u \in Tasks : u # t => head'[vec[u]].ptr = head[vec[u]].ptr
  BY <1>1, <1>2, <1>7, <1>9, Alone
<1> QED
  BY <1>4, <1>12, <1>13, <1>14, <1>15, SilentKeeps

\* A compare-and-swap of leave that takes no list away.
LEMMA LeaveCasKeeps ==
  ASSUME Books, NEW t \in Tasks, Good(t), Sound', LeaveCas(t),
         ~(head[vec[t]].ref = 1 /\ build.full /\ wk[t].curr # NULL)
  PROVE  Books'
<1>1. Sound /\ Sited /\ Walked /\ Tidy(t) /\ Vacant /\ AllTidy /\ Emptied /\ IsFiniteSet(Objs)
  BY BooksParts
<1> DEFINE c == wk[t].curr
           last == head[vec[t]].ref = 1
<1>2. /\ Untouched /\ Neat(t) /\ UNCHANGED <<handle, list>>
      /\ pc[t] = "lv_cas" /\ build.words = 2 /\ ~Inside(t)'
      /\ head[vec[t]].ptr = c
      /\ head' = [head EXCEPT ![vec[t]] =
               [ref |-> head[vec[t]].ref - 1,
                ptr |-> IF last /\ build.full THEN NULL ELSE c]]
      /\ \/ /\ last /\ c # NULL /\ rt'[t].node = c /\ rt'[t].amt = Addend
            /\ pc'[t] = IF build.full THEN "lv_adj" ELSE "lv_clear"
         \/ /\ ~(last /\ c # NULL) /\ rt' = rt
            /\ pc'[t] \in {"trav", "ack", "free", "look", "add", "out", "in"}
  BY <1>1, LeaveCasFx
<1>3. Calm
  BY <1>1, LeaveCasCalm
<1>4. Sited' /\ Retired' = Retired
  BY <1>1, <1>2, SitedSame DEF Untouched
<1>5. Stays(t)
  BY <1>1, <1>2, <1>4 DEF Stays, Untouched
<1>6. /\ pc[t] \notin Besides /\ pc'[t] \notin Besides /\ pc[t] # "lv_clear"
      /\ pc'[t] = "lv_clear" => rt'[t].amt = Addend
  BY <1>2 DEF Besides, Retires
<1>7. /\ Slots' = Slots /\ build' = build /\ vec[t] \in Slots
      /\ \A u \in Tasks : vec[u] \in Slots
  BY <1>1, <1>2, SameBuild, SoundParts, Fields DEF Untouched
<1>8. head \in [Slots -> [ref : 0 .. TaskNum, ptr : Ptrs]]
  BY <1>1, TypeParts DEF Sound, SharedTypeOK
<1>9. \A s \in Slots : head'[s].ptr = head[s].ptr
  BY <1>2, <1>7, <1>8
<1>10. Vacant'
  BY <1>2, <1>7 DEF Vacant
<1>11. Silent(t)
  BY <1>2, <1>3, <1>5, <1>6, <1>9, <1>10, ClearSilent DEF Untouched
<1>12. Owns(t)'
  BY <1>5, <1>6, PlainOwn DEF Besides
<1>13. Emptied'
  <2> SUFFICES ASSUME NEW s \in Slots, head'[s].ref = 0, head'[s].ptr # NULL
               PROVE  \/ head'[s] = head[s]
                      \/ pc'[t] = "lv_clear" /\ vec'[t] = s /\ rt'[t].node = head'[s].ptr
    BY <1>1, <1>5, <1>6, EmptiedStep
  <2>1. CASE s # vec[t]
    BY <1>2, <1>7, <1>8, <2>1
  <2>2. CASE s = vec[t]
    <3>1. head'[s].ref = head[s].ref - 1 /\ head[s].ref \in Nat /\ head'[s].ptr = c
      BY <1>2, <1>7, <1>8, <1>9, <2>2
    <3>2. last /\ c # NULL
      BY <2>2, <3>1
    <3>3. vec' = vec
      BY <1>2 DEF Untouched
    <3> QED
      BY <1>2, <2>2, <3>1, <3>2, <3>3
  <2> QED
    BY <2>1, <2>2
<1> QED
  BY <1>4, <1>7, <1>9, <1>11, <1>12, <1>13, SilentKeeps

\* A list that another thread has taken.
LEMMA LeaveMissKeeps ==
  ASSUME Books, NEW t \in Tasks, Good(t), Sound', LeaveClear(t),
         ~(head[vec[t]].ref = 0 /\ head[vec[t]].ptr = rt[t].node)
  PROVE  Books'
<1>1. Sound /\ Sited /\ Walked /\ Tidy(t) /\ Vacant /\ AllTidy /\ Emptied /\ IsFiniteSet(Objs)
  BY BooksParts
<1>2. /\ Untouched /\ Neat(t) /\ UNCHANGED <<handle, list>>
      /\ pc[t] = "lv_clear" /\ build.words = 2
      /\ head' = head
      /\ pc'[t] \in {"trav", "ack", "free", "look", "add", "out", "in"}
  BY <1>1, LeaveClearFx
<1>3. Calm
  BY <1>1, LeaveClearCalm
<1>4. Sited' /\ Retired' = Retired
  BY <1>1, <1>2, SitedSame DEF Untouched
<1>5. Stays(t)
  BY <1>1, <1>2, <1>4 DEF Stays, Untouched
<1>6. pc[t] \notin Besides /\ pc'[t] \notin Besides \union {"lv_clear"}
  BY <1>2 DEF Besides, Retires
<1>7. Vacant'
  BY <1>1, <1>2, SameBuild DEF Vacant, Untouched
<1>8. Silent(t)
  BY <1>2, <1>3, <1>5, <1>6, <1>7, ClearSilent DEF Untouched
<1>9. Owns(t)'
  BY <1>5, <1>6, PlainOwn DEF Besides
<1>10. Emptied'
  <2> SUFFICES ASSUME NEW s \in Slots, head'[s].ref = 0, head'[s].ptr # NULL
               PROVE  head'[s] = head[s] /\ ~(pc[t] = "lv_clear" /\ vec[t] = s
                                              /\ rt[t].node = head[s].ptr)
    BY <1>1, <1>5, EmptiedStep
  <2> QED
    BY <1>2
<1> QED
  BY <1>2, <1>4, <1>8, <1>9, <1>10, SilentKeeps

-----------------------------------------------------------------------------
(***************************************************************************)
(* The last thread of a slot takes its list.                               *)
(***************************************************************************)

\* Zero has no remainder.
LEMMA NoRemainder ==
  ASSUME NEW m \in Nat \ {0}
  PROVE  0 % m = 0
<1>1. Even(0 - 0, m)
  BY NoMove
<1> QED
  BY <1>1, EvenSame

\* What one sum loses another one gains.
LEMMA Shift ==
  ASSUME NEW a \in Nat, NEW b \in Nat, NEW c \in Nat, NEW d \in Nat, NEW o \in {0, 1},
         b - a = 0 - o, d - c = o
  PROVE  b + d = a + c
  OBVIOUS

\* The last thread in a slot takes its list: the batch at its head loses one
\* addend that was missing for the head, and misses one for the adjustment.
Buries(t, s) ==
    /\ Stays(t) /\ Calm /\ build.words = 2 /\ list' = list /\ refs' = refs
    /\ head[s].ptr # NULL /\ head'[s].ptr = NULL
    /\ \A z \in Slots : z # s => head'[z].ptr = head[z].ptr
    /\ pc[t] \notin Besides /\ pc'[t] = "lv_adj"
    /\ rt'[t].node = head[s].ptr /\ rt'[t].amt = Addend

\* The node at the head stays in play, now for its adjustment.
LEMMA BuriesPlay ==
  ASSUME Books, NEW t \in Tasks, NEW s \in Slots, Buries(t, s)
  PROVE  /\ InPlay' = InPlay /\ AllOwed' = AllOwed
         /\ Tops' = Tops \ {head[s].ptr} /\ Buried' = Buried \union {head[s].ptr}
         /\ \A n : Debtors(n)' = Debtors(n)
         /\ \A r : Nodes(r)' = Nodes(r)
         /\ Walked' /\ ~Due(t) /\ Due(t)'
         /\ \A u \in Tasks : u # t => (Due(u)' <=> Due(u)) /\ rt'[u] = rt[u]
<1>1. /\ Slots' = Slots /\ link' = link /\ \A u \in Tasks : u # t => SameLedger(u)
  BY StaysFacts DEF Buries, Stays
<1>2. /\ \A y, z \in Slots : head[y].ptr = head[z].ptr /\ head[y].ptr # NULL => y = z
  BY DEF Books, Places
<1>3. Tops' = Tops \ {head[s].ptr}
  BY <1>1, <1>2 DEF Buries, Tops
<1>4. AllOwed' = AllOwed /\ Walked' /\ \A n : Debtors(n)' = Debtors(n)
  BY SameOwed DEF Buries
<1>5. ~Due(t) /\ Due(t)'
  BY DEF Buries, Due, Besides, Retires
<1>6. \A u \in Tasks : u # t => (Due(u)' <=> Due(u)) /\ rt'[u] = rt[u]
  BY <1>1 DEF SameLedger
<1>7. Buried' = Buried \union {head[s].ptr}
  <2>1. \A n : n \in Buried <=> \E u \in Tasks : Due(u) /\ n = rt[u].node
    BY DEF Buried
  <2>2. \A n : n \in Buried' <=> \E u \in Tasks : Due(u)' /\ n = rt'[u].node
    BY DEF Buried
  <2>3. \A n : n \in Buried' <=> n \in Buried \/ n = head[s].ptr
    BY <1>5, <1>6, <2>1, <2>2 DEF Buries
  <2> QED
    BY <2>3
<1>8. InPlay' = InPlay
  BY <1>3, <1>4, <1>7 DEF Buries, Tops, InPlay
<1>9. \A r : Nodes(r)' = Nodes(r)
  BY <1>1, <1>8 DEF Nodes
<1> QED
  BY <1>3, <1>4, <1>5, <1>6, <1>7, <1>8, <1>9

\* The node at the head is in no other place.
LEMMA BuriesPlaces ==
  ASSUME Books, NEW t \in Tasks, NEW s \in Slots, Buries(t, s)
  PROVE  Places'
<1>1. /\ Slots' = Slots /\ Addend' = Addend /\ build' = build /\ build.words = 2
      /\ Addend \in 0 .. CounterMod - 1
  BY BooksParts, SoundParts, SlotFacts, StaysFacts DEF Buries
<1>2. /\ AllOwed' = AllOwed
      /\ Tops' = Tops \ {head[s].ptr} /\ Buried' = Buried \union {head[s].ptr}
      /\ \A n : Debtors(n)' = Debtors(n)
      /\ ~Due(t) /\ Due(t)'
      /\ \A u \in Tasks : u # t => (Due(u)' <=> Due(u)) /\ rt'[u] = rt[u]
  BY BuriesPlay
<1>3. /\ \A y, z \in Slots : head[y].ptr = head[z].ptr /\ head[y].ptr # NULL => y = z
      /\ Tops \intersect (AllOwed \union Buried) = {}
      /\ \A u, v \in Tasks : Due(u) /\ Due(v) /\ rt[u].node = rt[v].node => u = v
      /\ \A u \in Tasks, n \in Objs : Due(u) /\ rt[u].node = n =>
            Cardinality(Debtors(n)) <= LateBy(u) /\ LateBy(u) <= TaskNum
  BY <1>1 DEF Books, Places
<1>4. head[s].ptr \in Tops
  BY DEF Buries, Tops
<1>5. \A u \in Tasks : Due(u) => rt[u].node # head[s].ptr
  BY <1>3, <1>4 DEF Buried
<1>6. \A u, v \in Tasks : Due(u)' /\ Due(v)' /\ rt'[u].node = rt'[v].node => u = v
  BY <1>2, <1>3, <1>5 DEF Buries
<1>7. \A y, z \in Slots' : head'[y].ptr = head'[z].ptr /\ head'[y].ptr # NULL => y = z
  BY <1>1, <1>3 DEF Buries
<1>8. ASSUME NEW u \in Tasks, NEW n \in Objs, Due(u)', rt'[u].node = n
      PROVE  Cardinality(Debtors(n))' <= LateBy(u)' /\ LateBy(u)' <= TaskNum
  <2>1. CASE u # t
    BY <1>1, <1>2, <1>3, <1>8, <2>1 DEF LateBy
  <2>2. CASE u = t
    <3>1. n = head[s].ptr
      BY <1>8, <2>2 DEF Buries
    <3>2. Debtors(n) = {}
      BY <1>3, <1>4, <3>1 DEF Debtors, AllOwed
    <3>3. Cardinality(Debtors(n))' = 0
      BY <1>2, <3>2, FS_EmptySet
    <3>4. LateBy(u)' = 0
      <4>1. LateBy(u)' = (Addend - Addend) % CounterMod
        BY <1>1, <2>2 DEF LateBy, Buries
      <4>2. Addend - Addend = 0
        BY <1>1
      <4> QED
        BY <4>1, <4>2, NoRemainder
    <3> QED
      BY <3>3, <3>4
  <2> QED
    BY <2>1, <2>2
<1>9. Tops' \intersect (AllOwed' \union Buried') = {}
  BY <1>2, <1>3, <1>4
<1> QED
  BY <1>1, <1>6, <1>7, <1>8, <1>9 DEF Places

\* The thread keeps no ledger of a batch that it pushes.
LEMMA BuriesLedger ==
  ASSUME Books, NEW t \in Tasks, NEW s \in Slots, Buries(t, s)
  PROVE  /\ Fresh(t)' = Fresh(t) /\ Ending(t) = {} /\ Ending(t)' = {}
         /\ \A r \in Objs : /\ Withheld(t, r) = 0 /\ Withheld(t, r)' = 0
                            /\ LackOf(t, r) = {} /\ LackOf(t, r)' = {}
<1>1. Tidy(t) /\ Tidy(t)' /\ batch' = batch /\ build' = build
  BY StaysFacts DEF Buries, Stays, AllTidy
<1>2. /\ rt[t].first = NULL /\ rt[t].todo = <<>> /\ rt'[t].first = NULL /\ rt'[t].todo = <<>>
      /\ ~Adjusting(t)
  BY <1>1 DEF Tidy, Besides, Adjusting, Retires, Buries
<1>3. Fresh(t)' = Fresh(t)
  BY <1>1, <1>2 DEF Fresh
<1>4. /\ Retiring(t) = NULL /\ Retiring(t)' = NULL
      /\ Ending(t) = {} /\ Ending(t)' = {}
  BY <1>2 DEF Retiring, Ending, Adjusting, Buries
<1>5. \A r \in Objs : r # NULL
  BY DEF Ptrs
<1>6. \A r \in Objs : t \notin Active(r) /\ t \notin Active(r)'
  BY <1>4, <1>5 DEF Active, Besides, Buries
<1>7. build.words = 2
  BY DEF Buries
<1>8. \A r \in Objs : /\ Withheld(t, r) = 0 /\ Withheld(t, r)' = 0
  BY <1>1, <1>2, <1>4, <1>5, <1>7 DEF Withheld, Buries
<1> QED
  BY <1>3, <1>4, <1>6, <1>8 DEF LackOf

\* The batches are the same.
LEMMA BuriesStruct ==
  ASSUME Books, NEW t \in Tasks, NEW s \in Slots, Buries(t, s)
  PROVE  Struct' /\ Lasts' = Lasts
<1>1. /\ \A r : Nodes(r)' = Nodes(r)
      /\ InPlay' = InPlay
  BY BuriesPlay
<1>2. /\ \A u \in Tasks : /\ list'[u] = list[u] /\ Growing(u)' = Growing(u)
                          /\ u # t => Ending(u)' = Ending(u)
      /\ Fresh(t)' = Fresh(t) /\ Ending(t) = {} /\ Ending(t)' = {}
  BY StaysFacts, BuriesLedger DEF Buries, SameLedger
<1>3. Lasts \subseteq Lasts'
  BY <1>1, <1>2, LastsIs DEF Lasts, Nodes
<1> DEFINE N == {}
           L == {}
<1>4. Stays(t) /\ Fresh(t)' \subseteq Fresh(t) /\ Ending(t)' \subseteq Ending(t) /\ Struct
  BY <1>2 DEF Buries, Books
<1>5. InPlay' \subseteq InPlay \union N /\ list'[t] \subseteq list[t] \union L
  BY <1>1, <1>2
<1>6. \A n \in N : /\ n \in Objs /\ status[n] = "retired" /\ n \notin Lasts
                   /\ link[n] \in Ending(t)
                   /\ \A u \in Tasks : n \notin Fresh(u)'
  OBVIOUS
<1>7. \A r \in L : /\ r \in Lasts /\ (Nodes(r) # {} \/ Active(r) # {})
                   /\ Nodes(r)' = {} /\ Active(r)' = {}
  OBVIOUS
<1> HIDE DEF N, L
<1> QED
  BY <1>3, <1>4, <1>5, <1>6, <1>7, StructStep

\* The addend missing for the head is now missing for the adjustment.
LEMMA BuriesBooks ==
  ASSUME Books, NEW t \in Tasks, NEW s \in Slots, Buries(t, s), AllPushes'
  PROVE  Room' /\ Counted'
<1>1. /\ Sound /\ Sound' /\ build' = build /\ link' = link /\ Slots' = Slots
      /\ NumSlots' = NumSlots /\ Addend' = Addend /\ AllTidy /\ AllTidy'
      /\ \A u \in Tasks : u # t => SameLedger(u)
      /\ refs' = refs /\ build.words = 2 /\ AllPushes /\ Calm
  BY StaysFacts DEF Buries, Stays, Books
<1>2. Lasts' = Lasts /\ Lasts \subseteq Objs
  BY <1>1, BuriesStruct, LastsObjs
<1>3. /\ \A r : Nodes(r)' = Nodes(r)
      /\ ~Due(t) /\ Due(t)'
      /\ \A u \in Tasks : u # t => (Due(u)' <=> Due(u)) /\ rt'[u] = rt[u]
  BY BuriesPlay
<1> DEFINE c == head[s].ptr
<1>4. ASSUME NEW r \in Lasts PROVE Settled(r)' /\ Roomy(r)'
  <2>0. r \in Objs
    BY <1>2
  <2>1. Cardinality(Debts(r))' = Cardinality(Debts(r))
    <3>1. \A u \in Tasks : OwedTo(u, r)' = OwedTo(u, r)
      BY <1>1 DEF Calm, OwedTo
    <3> QED
      BY <1>1, <3>1, DebtsMove
  <2>2. Cardinality(Late(r))' = Cardinality(Late(r))
    <3>1. \A u \in Tasks : u # t => Withheld(u, r)' = Withheld(u, r)
      BY <1>1, <2>0 DEF SameLedger
    <3>2. Withheld(t, r)' = Withheld(t, r)
      BY <2>0, BuriesLedger
    <3> QED
      BY <1>1, <2>0, <3>1, <3>2, LateMove
  <2>3. Unadded(r)' = Unadded(r)
    <3>1. \A u \in Tasks : u # t => LackOf(u, r)' = LackOf(u, r)
      BY <1>1, <2>0 DEF SameLedger
    <3>2. LackOf(t, r)' = LackOf(t, r)
      BY <2>0, BuriesLedger
    <3> QED
      BY <1>1, <3>1, <3>2, LackMove
  <2>4. Cardinality(HeadsOf(r))' - Cardinality(HeadsOf(r)) = 0 - One(link[c] = r)
        /\ Cardinality(HeadsOf(r)) \in Nat /\ Cardinality(HeadsOf(r))' \in Nat
    <3>1. \A z \in Slots : z # s => (z \in HeadsOf(r) <=> z \in HeadsOf(r)')
      BY <1>1 DEF HeadsOf, Buries
    <3>2. s \notin HeadsOf(r)' /\ (s \in HeadsOf(r) <=> link[c] = r)
      BY <1>1 DEF HeadsOf, Buries
    <3>3. One(s \in HeadsOf(r)') = 0 /\ One(s \in HeadsOf(r)) = One(link[c] = r)
      BY <3>2 DEF One
    <3>4. One(link[c] = r) \in {0, 1}
      BY DEF One
    <3>5. /\ Cardinality(HeadsOf(r)) \in Nat /\ Cardinality(HeadsOf(r))' \in Nat
          /\ Cardinality(HeadsOf(r))' - Cardinality(HeadsOf(r))
              = One(s \in HeadsOf(r)') - One(s \in HeadsOf(r))
      BY <1>1, <3>1, HeadsMove
    <3> QED
      BY <3>3, <3>4, <3>5
  <2>5. Cardinality(DuesOf(r))' - Cardinality(DuesOf(r)) = One(link[c] = r)
        /\ Cardinality(DuesOf(r)) \in Nat /\ Cardinality(DuesOf(r))' \in Nat
    <3>1. \A u \in Tasks : u # t => (u \in DuesOf(r) <=> u \in DuesOf(r)')
      BY <1>1, <1>3 DEF DuesOf
    <3>2. t \notin DuesOf(r) /\ (t \in DuesOf(r)' <=> link[c] = r)
      BY <1>1, <1>3 DEF DuesOf, Buries
    <3>3. One(t \in DuesOf(r)') = One(link[c] = r) /\ One(t \in DuesOf(r)) = 0
      BY <3>2 DEF One
    <3>4. One(link[c] = r) \in {0, 1}
      BY DEF One
    <3>5. /\ Cardinality(DuesOf(r)) \in Nat /\ Cardinality(DuesOf(r))' \in Nat
          /\ Cardinality(DuesOf(r))' - Cardinality(DuesOf(r))
              = One(t \in DuesOf(r)') - One(t \in DuesOf(r))
      BY <3>1, DuesMove
    <3> QED
      BY <3>3, <3>4, <3>5
  <2>6. Missing(r)' = Missing(r)
    <3>1. Missing(r)' = Cardinality(HeadsOf(r))' + Cardinality(DuesOf(r))' + Unadded(r)'
      BY DEF Missing, HeadsOf, DuesOf, Unadded, Due
    <3>2. One(link[c] = r) \in {0, 1}
      BY DEF One
    <3>3. Cardinality(HeadsOf(r))' + Cardinality(DuesOf(r))'
            = Cardinality(HeadsOf(r)) + Cardinality(DuesOf(r))
      <4>1. \E o \in {0, 1} :
                /\ Cardinality(HeadsOf(r))' - Cardinality(HeadsOf(r)) = 0 - o
                /\ Cardinality(DuesOf(r))' - Cardinality(DuesOf(r)) = o
        BY <2>4, <2>5, <3>2, ZenonT(40)
      <4>2. /\ Cardinality(HeadsOf(r)) \in Nat /\ Cardinality(HeadsOf(r))' \in Nat
            /\ Cardinality(DuesOf(r)) \in Nat /\ Cardinality(DuesOf(r))' \in Nat
        BY <2>4, <2>5, ZenonT(40)
      <4> QED
        BY <4>1, <4>2, Shift
    <3> QED
      BY <2>3, <3>1, <3>3, MissingIs
  <2>7. Settled(r) /\ Roomy(r)
    BY CountedIs DEF Books
  <2>8. Worth(r)' = Worth(r)
    BY <1>1, <2>1, <2>2, <2>6 DEF Worth
  <2>9. Settled(r)'
    BY <1>1, <2>7, <2>8 DEF Settled
  <2>10. Cardinality(Nodes(r))' = Cardinality(Nodes(r))
    BY <1>3
  <2>11. Roomy(r)'
    BY <1>1, <2>3, <2>7, <2>10 DEF Roomy
  <2> QED
    BY <2>9, <2>11
<1> QED
  BY <1>2, <1>4 DEF Counted, Room, Settled, Worth, Roomy

\* The last thread that takes the list of a slot keeps the invariant.
LEMMA BuriesKeeps ==
  ASSUME Books, NEW t \in Tasks, NEW s \in Slots, Buries(t, s), Sited', Emptied',
         \A u \in Tasks : u # t /\ pc[u] \in Retires => vec[u] # s
  PROVE  Books'
<1>1. Stays(t) /\ Calm /\ pc'[t] = "lv_adj" /\ rt'[t].amt = Addend
  BY DEF Buries
<1>2. Owns(t)'
  BY <1>1, PlainOwn DEF Retires
<1>3. AllPushes'
  BY <1>1, <1>2, PushesAfter DEF Owns, Books
<1>4. Walked' /\ Places' /\ Struct' /\ Room' /\ Counted'
  BY <1>3, BuriesPlay, BuriesPlaces, BuriesStruct, BuriesBooks
<1>5. \A u \in Tasks : vec[u] \in Slots
  BY SoundParts, Fields DEF Books
<1>6. \A u \in Tasks : u # t /\ pc[u] \in Retires =>
            (Owed(u) \union {head[vec[u]].ptr}) \ {NULL}
               \subseteq Owed(u)' \union {head'[vec'[u]].ptr}
  BY <1>1, <1>5 DEF Stays, Good, Kept, Calm, Buries
<1> QED
  BY <1>1, <1>2, <1>4, <1>6, BooksAfter DEF Books

\* leave by one compare-and-swap that empties the slot.
LEMMA LeaveTakeKeeps ==
  ASSUME Books, NEW t \in Tasks, Good(t), Sound', LeaveCas(t),
         head[vec[t]].ref = 1, build.full, wk[t].curr # NULL
  PROVE  Books'
<1>1. Sound /\ Sited /\ Walked /\ Tidy(t) /\ AllTidy /\ Emptied /\ IsFiniteSet(Objs)
  BY BooksParts
<1> DEFINE c == wk[t].curr
           s == vec[t]
<1>2. /\ Untouched /\ Neat(t) /\ UNCHANGED <<handle, list>>
      /\ pc[t] = "lv_cas" /\ build.words = 2
      /\ head[s].ptr = c
      /\ head' = [head EXCEPT ![s] = [ref |-> head[s].ref - 1, ptr |-> NULL]]
      /\ rt'[t].node = c /\ rt'[t].amt = Addend /\ pc'[t] = "lv_adj"
  BY <1>1, LeaveCasFx
<1>3. Calm
  BY <1>1, LeaveCasCalm
<1>4. Sited' /\ Retired' = Retired
  BY <1>1, <1>2, SitedSame DEF Untouched
<1>5. Stays(t)
  BY <1>1, <1>2, <1>4 DEF Stays, Untouched
<1>6. s \in Slots /\ head \in [Slots -> [ref : 0 .. TaskNum, ptr : Ptrs]]
  BY <1>1, SoundParts, Fields, TypeParts DEF Sound, SharedTypeOK
<1>7. head'[s].ptr = NULL /\ \A z \in Slots : z # s => head'[z] = head[z]
  BY <1>2, <1>6
<1>8. Buries(t, s)
  BY <1>2, <1>3, <1>5, <1>7 DEF Buries, Untouched, Besides, Retires
<1>9. Emptied'
  BY <1>1, <1>2, <1>5, <1>7, EmptiedStep
<1>10. \A u \in Tasks : u # t /\ pc[u] \in Retires => vec[u] # s
  <2> SUFFICES ASSUME NEW u \in Tasks, u # t, pc[u] \in Retires PROVE vec[u] # s
    OBVIOUS
  <2>1. Inside(u)
    BY DEF Inside, Retires
  <2>2. Inside(t)
    BY <1>1, <1>2, SoundParts DEF Inside
  <2> QED
    BY <1>1, <2>1, <2>2, Alone
<1> QED
  BY <1>4, <1>6, <1>8, <1>9, <1>10, BuriesKeeps

\* leave by a second compare-and-swap that clears the pointer.
LEMMA LeaveHitKeeps ==
  ASSUME Books, NEW t \in Tasks, Good(t), Sound', LeaveClear(t),
         head[vec[t]].ref = 0, head[vec[t]].ptr = rt[t].node
  PROVE  Books'
<1>1. Sound /\ Sited /\ Walked /\ Tidy(t) /\ AllTidy /\ Emptied /\ IsFiniteSet(Objs)
  BY BooksParts
<1> DEFINE s == vec[t]
<1>2. /\ Untouched /\ Neat(t) /\ UNCHANGED <<handle, list>>
      /\ pc[t] = "lv_clear" /\ build.words = 2
      /\ head' = [head EXCEPT ![s].ptr = NULL]
      /\ rt' = rt /\ pc'[t] = "lv_adj"
  BY <1>1, LeaveClearFx
<1>3. Calm
  BY <1>1, LeaveClearCalm
<1>4. Sited' /\ Retired' = Retired
  BY <1>1, <1>2, SitedSame DEF Untouched
<1>5. Stays(t)
  BY <1>1, <1>2, <1>4 DEF Stays, Untouched
<1>6. s \in Slots /\ head \in [Slots -> [ref : 0 .. TaskNum, ptr : Ptrs]]
  BY <1>1, SoundParts, Fields, TypeParts DEF Sound, SharedTypeOK
<1>7. head'[s].ptr = NULL /\ \A z \in Slots : z # s => head'[z] = head[z]
  BY <1>2, <1>6
<1>8. rt[t].node # NULL /\ rt[t].amt = Addend
  BY <1>1, <1>2, SoundParts DEF Control, Books, AllAmounts, Amounts
<1>9. Buries(t, s)
  BY <1>2, <1>3, <1>5, <1>7, <1>8 DEF Buries, Untouched, Besides, Retires
<1>10. Emptied'
  <2> SUFFICES ASSUME NEW z \in Slots, head'[z].ref = 0, head'[z].ptr # NULL
               PROVE  head'[z] = head[z] /\ ~(pc[t] = "lv_clear" /\ vec[t] = z
                                              /\ rt[t].node = head[z].ptr)
    BY <1>1, <1>5, EmptiedStep
  <2> QED
    BY <1>7
<1>11. \A u \in Tasks : u # t /\ pc[u] \in Retires => vec[u] # s
  <2> SUFFICES ASSUME NEW u \in Tasks, u # t, pc[u] \in Retires PROVE vec[u] # s
    OBVIOUS
  <2>1. Inside(u)
    BY DEF Inside, Retires
  <2>2. head[vec[u]].ref >= 1
    BY <1>1, <2>1, HeadFacts
  <2> QED
    BY <2>2
<1> QED
  BY <1>4, <1>6, <1>9, <1>10, <1>11, BuriesKeeps

-----------------------------------------------------------------------------
(***************************************************************************)
(* Multiples of the addend.                                                *)
(***************************************************************************)

-----------------------------------------------------------------------------
\* The addend is the part of a counter that belongs to a slot.
LEMMA AddendIs ==
  ASSUME build \in Builds
  PROVE  \E d \in Nat \ {0} : /\ CounterMod = d * NumSlots /\ d > TaskNum * NumSlots
                              /\ Addend = IF NumSlots = 1 THEN 0 ELSE d
<1>1. PICK d \in 1 .. CounterMod : /\ CounterMod = d * 2 ^ build.order
                                   /\ d > TaskNum * 2 ^ build.order
  BY CountersAssumption
<1>2. NumSlots = 2 ^ build.order
  BY DEF NumSlots
<1>3. CounterMod = d * NumSlots /\ d > TaskNum * NumSlots
  BY <1>1, <1>2
<1>4. NumSlots \in Nat \ {0} /\ d \in Nat \ {0}
  BY SlotFacts
<1>5. ((CounterMod - 1) \div NumSlots + 1) % CounterMod = IF NumSlots = 1 THEN 0 ELSE d
  BY <1>3, <1>4, AddendParts
<1> QED
  BY <1>3, <1>4, <1>5 DEF Addend

\* Multiples of d that are d times less than n apart.
LEMMA Scale ==
  ASSUME NEW d \in Nat \ {0}, NEW a \in Int, NEW n \in Nat, a < n, 0 - n < a
  PROVE  d * a < d * n /\ 0 - d * n < d * a
<1>1. d * (n - a) > 0
  <2>1. n - a \in Int /\ n - a > 0
    OBVIOUS
  <2> DEFINE x == n - a
  <2> HIDE DEF x
  <2>2. d * x > 0
    BY <2>1 DEF x
  <2> QED
    BY <2>2 DEF x
<1>2. d * (n + a) > 0
  <2>1. n + a \in Int /\ n + a > 0
    OBVIOUS
  <2> DEFINE x == n + a
  <2> HIDE DEF x
  <2>2. d * x > 0
    BY <2>1 DEF x
  <2> QED
    BY <2>2 DEF x
<1> QED
  BY <1>1, <1>2

\* Different multiples of the addend are different counters.
LEMMA Multiples ==
  ASSUME NEW n \in Nat \ {0}, NEW d \in Nat \ {0}, NEW m, m = d * n,
         NEW i \in 1 .. n, NEW k \in 1 .. n, (i * d) % m = (k * d) % m
  PROVE  i = k
<1>1. m \in Nat \ {0}
  OBVIOUS
<1> DEFINE a == i * d
           b == k * d
<1>2. a \in Int /\ b \in Int
  OBVIOUS
<1>3. Even((a % m) - a, m) /\ Even((b % m) - b, m) /\ a % m \in Int
  <2> HIDE DEF a, b
  <2> QED
    BY <1>1, <1>2, EvenMod
<1>4. Even(((b % m) - b) - ((a % m) - a), m)
  <2>1. (a % m) - a \in Int /\ (b % m) - b \in Int
    BY <1>2, <1>3
  <2> HIDE DEF a, b
  <2> QED
    BY <1>1, <1>3, <2>1, EvenSum
<1>5. ((b % m) - b) - ((a % m) - a) = d * (i - k)
  <2>1. ((b % m) - b) - ((a % m) - a) = a - b
    BY <1>2, <1>3
  <2>2. a - b = d * (i - k)
    OBVIOUS
  <2> QED
    BY <2>1, <2>2
<1>6. d * (i - k) < m /\ 0 - m < d * (i - k)
  <2>1. i - k \in Int /\ i - k < n /\ 0 - n < i - k
    OBVIOUS
  <2> DEFINE x == i - k
  <2> HIDE DEF x
  <2>2. d * x < d * n /\ 0 - d * n < d * x
    BY <2>1, Scale DEF x
  <2> QED
    BY <2>2 DEF x
<1>7. d * (i - k) = 0
  BY <1>1, <1>4, <1>5, <1>6, EvenSmall
<1>8. i - k = 0
  <2>1. i - k \in Int
    OBVIOUS
  <2> DEFINE x == i - k
  <2> HIDE DEF x
  <2>2. x = 0
    BY <1>7, <2>1 DEF x
  <2> QED
    BY <2>2 DEF x
<1> QED
  BY <1>8

\* From an amount one sees how many addends it is made of.
LEMMA Decode ==
  ASSUME build \in Builds, NEW k \in 1 .. NumSlots
  PROVE  {j \in 1 .. NumSlots : \A i \in 1 .. j - 1 :
             (i * Addend) % CounterMod # (k * Addend) % CounterMod} = 1 .. k
<1>1. NumSlots \in Nat \ {0}
  BY SlotFacts
<1>2. PICK d \in Nat \ {0} : /\ CounterMod = d * NumSlots
                             /\ Addend = IF NumSlots = 1 THEN 0 ELSE d
  BY AddendIs
<1>3. ASSUME NEW i \in 1 .. NumSlots,
             (i * Addend) % CounterMod = (k * Addend) % CounterMod
      PROVE  i = k
  <2>1. CASE NumSlots = 1
    BY <2>1
  <2>2. CASE NumSlots # 1
    BY <1>1, <1>2, <1>3, <2>2, Multiples
  <2> QED
    BY <2>1, <2>2
<1>4. ASSUME NEW j \in 1 .. NumSlots
      PROVE  (\A i \in 1 .. j - 1 : (i * Addend) % CounterMod # (k * Addend) % CounterMod)
               <=> j \in 1 .. k
  <2>1. CASE j \in 1 .. k
    <3>1. ASSUME NEW i \in 1 .. j - 1 PROVE i \in 1 .. NumSlots /\ i # k
      BY <1>1, <2>1
    <3> QED
      BY <1>3, <2>1, <3>1
  <2>2. CASE j \notin 1 .. k
    BY <1>1, <2>2
  <2> QED
    BY <2>1, <2>2
<1>5. 1 .. k \subseteq 1 .. NumSlots
  BY <1>1
<1> DEFINE P(j) == \A i \in 1 .. j - 1 : (i * Addend) % CounterMod # (k * Addend) % CounterMod
<1>6. \A j \in 1 .. NumSlots : P(j) <=> j \in 1 .. k
  BY <1>4
<1> HIDE DEF P
<1>7. {j \in 1 .. NumSlots : P(j)} = 1 .. k
  BY <1>5, <1>6
<1> QED
  BY <1>7 DEF P

\* One addend more.
LEMMA NextAddend ==
  ASSUME NEW m \in Nat \ {0}, NEW a \in Nat, NEW k \in Int
  PROVE  (((k * a) % m) + a) % m = ((k + 1) * a) % m
<1>1. k * a \in Int /\ (k + 1) * a \in Int /\ a - ((k + 1) * a - k * a) = 0
  OBVIOUS
<1> DEFINE v == k * a
           w == (k + 1) * a
<1>2. Even(a - (w - v), m)
  BY <1>1, NoMove
<1>3. v \in Int /\ w \in Int
  BY <1>1
<1> HIDE DEF v, w
<1>4. ((v % m) + a) % m = w % m
  <2> DEFINE f == v % m
             g == (f + a) % m
  <2>1. f = v % m /\ g = (f + a) % m
    OBVIOUS
  <2> HIDE DEF f, g
  <2>2. g = w % m
    BY <1>2, <1>3, <2>1, a \in Int, SettledMove, ZenonT(40)
  <2> QED
    BY <2>2 DEF f, g
<1> QED
  BY <1>4 DEF v, w

-----------------------------------------------------------------------------
(***************************************************************************)
(* retire goes on to its next slot.                                        *)
(***************************************************************************)

\* retire goes on to the next slot, or out of the loop, with the nodes and the
\* sums of r.
Passed(t, r) == at[t] + 1 + Len(r.todo) - SMRBatch
Shifts(t, r) ==
    \/ r.todo = rt[t].todo
    \/ rt[t].todo # <<>> /\ r.todo = Tail(rt[t].todo)
Goes(t, r) ==
    /\ Stays(t) /\ Onward(t, r) /\ Pushes(t)
    /\ pc[t] \in {"rt_access", "rt_load", "rt_cas", "rt_count"}
    /\ r \in Batches /\ r.first = rt[t].first /\ Shifts(t, r)
    /\ IF build.words = 2
       THEN /\ r.adjs = (Passed(t, r) * Addend) % CounterMod
            /\ r.skipped <=> Passed(t, r) > 0
       ELSE r.adjs = SMRBatch - Len(r.todo) /\ r.adjs <= TaskNum

\* The types of what the step reads and writes.
LEMMA GoesFacts ==
  ASSUME NEW t \in Tasks, NEW r, Goes(t, r)
  PROVE  /\ at[t] \in Nat /\ at[t] < NumSlots /\ NumSlots \in Nat \ {0}
         /\ SMRBatch \in Nat /\ rt[t].todo \in Seq(Objs) /\ r.todo \in Seq(Objs)
         /\ Len(rt[t].todo) \in Nat /\ Len(r.todo) \in Nat
         /\ Len(r.todo) <= SMRBatch /\ Passed(t, r) \in Int
         /\ \E k \in {0, 1} : /\ Len(r.todo) = Len(rt[t].todo) - k
                              /\ \A i \in DOMAIN r.todo :
                                    i + k \in DOMAIN rt[t].todo /\ r.todo[i] = rt[t].todo[i + k]
         /\ build \in Builds /\ build.words \in {1, 2}
         /\ r.first # NULL /\ r.adjs \in 0 .. CounterMod - 1
         /\ build' = build /\ link' = link /\ SMRBatch' = SMRBatch /\ NumSlots' = NumSlots
         /\ Addend' = Addend /\ Tidy(t) /\ Tidy(t)' /\ link \in [Objs -> Objs]
         /\ \A o \in Objs : status'[o] = "retired" <=> status[o] = "retired"
         /\ batch' = batch
<1>1. Sound
  BY DEF Goes, Stays
<1>2. /\ at[t] \in Nat /\ at[t] < NumSlots /\ NumSlots \in Nat \ {0}
      /\ SMRBatch \in Nat /\ rt[t].todo \in Seq(Objs)
      /\ Len(rt[t].todo) \in Nat
  BY <1>1, AtFacts
<1>3. r.todo \in Seq(Objs) /\ r.adjs \in 0 .. CounterMod - 1
  BY DEF Goes, Batches
<1>4. Len(r.todo) \in Nat /\ Passed(t, r) \in Int
  BY <1>2, <1>3 DEF Passed
<1>5. \E k \in {0, 1} : /\ Len(r.todo) = Len(rt[t].todo) - k
                        /\ \A i \in DOMAIN r.todo :
                              i + k \in DOMAIN rt[t].todo /\ r.todo[i] = rt[t].todo[i + k]
  <2>1. CASE r.todo = rt[t].todo
    BY <1>2, <2>1
  <2>2. CASE rt[t].todo # <<>> /\ r.todo = Tail(rt[t].todo)
    BY <1>2, <2>2
  <2> QED
    BY <2>1, <2>2 DEF Goes, Shifts
<1>6. Len(r.todo) <= SMRBatch
  BY <1>2, <1>4, <1>5 DEF Goes, Pushes
<1>7. r.first # NULL
  BY <1>1, SoundParts DEF Goes, Control, Retires
<1>8. build \in Builds /\ build.words \in {1, 2} /\ link \in [Objs -> Objs]
  BY <1>1, SoundParts, SlotFacts DEF SharedTypeOK
<1>9. /\ build' = build /\ link' = link /\ SMRBatch' = SMRBatch /\ NumSlots' = NumSlots
      /\ Addend' = Addend /\ Tidy(t) /\ Tidy(t)'
      /\ \A o \in Objs : status'[o] = "retired" <=> status[o] = "retired"
      /\ batch' = batch
  BY StaysFacts DEF Goes, Stays, AllTidy
<1> QED
  BY <1>2, <1>3, <1>4, <1>5, <1>6, <1>7, <1>8, <1>9

\* Where retire is afterwards.
LEMMA GoesWhere ==
  ASSUME NEW t \in Tasks, NEW r, Goes(t, r)
  PROVE  \/ /\ at[t] + 1 < NumSlots /\ at'[t] = at[t] + 1
            /\ pc'[t] \in {"rt_access", "rt_load"} /\ rt'[t] = r
            /\ Retiring(t)' = Retiring(t)
         \/ /\ at[t] + 1 = NumSlots /\ (build.words = 1 \/ r.skipped)
            /\ pc'[t] = "rt_fin" /\ rt'[t].node = r.first /\ rt'[t].amt = r.adjs
            /\ rt'[t].first = NULL /\ rt'[t].todo = <<>> /\ Retiring(t)' = NULL
            /\ link'[rt'[t].node] = Retiring(t)
         \/ /\ at[t] + 1 = NumSlots /\ build.words = 2 /\ ~r.skipped
            /\ rt'[t].first = NULL /\ rt'[t].todo = <<>> /\ pc'[t] \in {"free", "in"}
            /\ Retiring(t)' = NULL
<1>1. r.first = rt[t].first /\ r.first # NULL /\ link' = link /\ build.words \in {1, 2}
  BY GoesFacts DEF Goes
<1>2. NoRetire.first = NULL /\ NoRetire.todo = <<>>
  BY BlankFields
<1> QED
  BY <1>1, <1>2 DEF Goes, Onward, Retiring

\* The nodes still to push and the sum of the skipped addends.
LEMMA GoesOwn ==
  ASSUME NEW t \in Tasks, NEW r, Goes(t, r)
  PROVE  Pushes(t)' /\ Amounts(t)'
<1>1. /\ at[t] \in Nat /\ at[t] < NumSlots /\ NumSlots \in Nat \ {0}
      /\ SMRBatch \in Nat /\ rt[t].todo \in Seq(Objs) /\ r.todo \in Seq(Objs)
      /\ Len(rt[t].todo) \in Nat /\ Len(r.todo) \in Nat
      /\ Len(r.todo) <= SMRBatch /\ Passed(t, r) \in Int
      /\ \E k \in {0, 1} : /\ Len(r.todo) = Len(rt[t].todo) - k
                           /\ \A i \in DOMAIN r.todo :
                                 i + k \in DOMAIN rt[t].todo /\ r.todo[i] = rt[t].todo[i + k]
      /\ build \in Builds /\ build.words \in {1, 2}
      /\ r.first # NULL /\ r.first = rt[t].first
      /\ build' = build /\ link' = link /\ SMRBatch' = SMRBatch /\ NumSlots' = NumSlots
      /\ Addend' = Addend /\ link \in [Objs -> Objs]
      /\ \A o \in Objs : status'[o] = "retired" <=> status[o] = "retired"
  BY GoesFacts DEF Goes
<1>2. PICK k \in {0, 1} : /\ Len(r.todo) = Len(rt[t].todo) - k
                          /\ \A i \in DOMAIN r.todo :
                                i + k \in DOMAIN rt[t].todo /\ r.todo[i] = rt[t].todo[i + k]
  BY <1>1
<1>3. /\ \A i, j \in DOMAIN rt[t].todo : rt[t].todo[i] = rt[t].todo[j] => i = j
      /\ \A i \in DOMAIN rt[t].todo :
            /\ status[rt[t].todo[i]] = "retired"
            /\ IF i = Len(rt[t].todo) THEN rt[t].todo[i] = Retiring(t)
               ELSE link[rt[t].todo[i]] = Retiring(t)
      /\ link[link[rt[t].first]] = rt[t].first
  BY <1>1 DEF Goes, Pushes
<1>4. /\ \A i, j \in DOMAIN r.todo : r.todo[i] = r.todo[j] => i = j
      /\ \A i \in DOMAIN r.todo :
            /\ r.todo[i] \in Objs /\ status[r.todo[i]] = "retired"
            /\ IF i = Len(r.todo) THEN r.todo[i] = Retiring(t)
               ELSE link[r.todo[i]] = Retiring(t)
  <2>1. ASSUME NEW i \in DOMAIN r.todo, NEW j \in DOMAIN r.todo, r.todo[i] = r.todo[j]
        PROVE  i = j
    <3>1. i \in Nat /\ j \in Nat
      BY <1>1
    <3>2. i + k = j + k
      BY <1>2, <1>3, <2>1
    <3> QED
      BY <1>2, <3>1, <3>2
  <2>2. ASSUME NEW i \in DOMAIN r.todo
        PROVE  /\ r.todo[i] \in Objs /\ status[r.todo[i]] = "retired"
               /\ IF i = Len(r.todo) THEN r.todo[i] = Retiring(t)
                  ELSE link[r.todo[i]] = Retiring(t)
    <3>1. i \in Nat /\ r.todo[i] \in Objs
      BY <1>1
    <3>2. i + k \in DOMAIN rt[t].todo /\ r.todo[i] = rt[t].todo[i + k]
      BY <1>2
    <3>3. i + k = Len(rt[t].todo) <=> i = Len(r.todo)
      <4>1. k \in Int /\ Len(r.todo) = Len(rt[t].todo) - k
        BY <1>2
      <4>2. Len(r.todo) \in Int /\ Len(rt[t].todo) \in Int /\ i \in Int
        BY <1>1, <3>1
      <4> QED
        BY ONLY <4>1, <4>2
    <3> QED
      BY <1>3, <3>1, <3>2, <3>3
  <2> QED
    BY <2>1, <2>2
<1>5. CASE pc'[t] \in {"rt_access", "rt_load"} /\ rt'[t] = r /\ at'[t] = at[t] + 1
           /\ Retiring(t)' = Retiring(t)
  <2>1. /\ Len(rt'[t].todo) <= SMRBatch'
        /\ \A i, j \in DOMAIN rt'[t].todo : rt'[t].todo[i] = rt'[t].todo[j] => i = j
    BY <1>1, <1>4, <1>5
  <2>2. \A i \in DOMAIN rt'[t].todo :
            /\ status'[rt'[t].todo[i]] = "retired"
            /\ IF i = Len(rt'[t].todo) THEN rt'[t].todo[i] = Retiring(t)'
               ELSE link'[rt'[t].todo[i]] = Retiring(t)'
    BY <1>1, <1>4, <1>5
  <2>3. Pushes(t)'
    BY <1>1, <1>3, <1>5, <2>1, <2>2 DEF Pushes
  <2>4. Skips(t)' = Passed(t, r)
    BY <1>1, <1>5 DEF Skips, Passed
  <2>5. Amounts(t)'
    BY <1>1, <1>5, <2>4 DEF Amounts, Goes
  <2> QED
    BY <2>3, <2>5
<1>6. CASE /\ at[t] + 1 = NumSlots /\ (build.words = 1 \/ r.skipped)
           /\ pc'[t] = "rt_fin" /\ rt'[t].node = r.first /\ rt'[t].amt = r.adjs
           /\ rt'[t].first = NULL /\ rt'[t].todo = <<>>
  <2>1. Pushes(t)'
    BY <1>1, <1>3, <1>6 DEF Pushes
  <2>2. build.words = 2 => \E j \in 1 .. NumSlots : rt'[t].amt = (j * Addend) % CounterMod
    <3> SUFFICES ASSUME build.words = 2
                 PROVE  \E j \in 1 .. NumSlots : rt'[t].amt = (j * Addend) % CounterMod
      OBVIOUS
    <3>1. Passed(t, r) > 0 /\ r.adjs = (Passed(t, r) * Addend) % CounterMod
      BY <1>6 DEF Goes
    <3>2. Passed(t, r) \in 1 .. NumSlots
      BY <1>1, <1>6, <3>1 DEF Passed
    <3> QED
      BY <1>6, <3>1, <3>2
  <2>3. build.words = 1 => rt'[t].amt <= TaskNum
    BY <1>6 DEF Goes
  <2>4. Amounts(t)'
    BY <1>1, <1>6, <2>2, <2>3 DEF Amounts
  <2> QED
    BY <2>1, <2>4
<1>7. CASE rt'[t].first = NULL /\ rt'[t].todo = <<>> /\ pc'[t] \in {"free", "in"}
  BY <1>1, <1>7 DEF Pushes, Amounts
<1> QED
  BY <1>5, <1>6, <1>7, GoesWhere

-----------------------------------------------------------------------------
(***************************************************************************)
(* A slot that retire skips or has served changes no count.                *)
(***************************************************************************)

\* After a push the slot is lacking no more.
LEMMA GoesLacks ==
  ASSUME NEW t \in Tasks, NEW r, Goes(t, r), build.words = 2,
         Len(r.todo) = Len(rt[t].todo) - Pushed(t), NEW q \in Objs
  PROVE  LackOf(t, q)' = LackOf(t, q)
<1>1. /\ at[t] \in Nat /\ NumSlots \in Nat \ {0} /\ SMRBatch \in Nat
      /\ Len(rt[t].todo) \in Nat /\ Len(r.todo) \in Nat /\ Len(r.todo) <= SMRBatch
      /\ build \in Builds /\ r.first # NULL /\ r.first = rt[t].first
      /\ build' = build /\ link' = link /\ SMRBatch' = SMRBatch /\ NumSlots' = NumSlots
      /\ Addend' = Addend /\ Passed(t, r) \in Int
  BY GoesFacts DEF Goes
<1>2. q # NULL /\ pc[t] \in {"rt_access", "rt_load", "rt_cas", "rt_count"}
  BY DEF Ptrs, Goes
<1> DEFINE k == NumSlots - SMRBatch + Len(r.todo)
<1>3. t \in Active(q) <=> Retiring(t) = q
  BY <1>2 DEF Active
<1>4. Lacking(t) = 1 .. k
  <2>1. Pushed(t) = IF pc[t] \in {"rt_adj", "rt_count"} THEN 1 ELSE 0
    BY DEF Pushed
  <2>2. NumSlots - SMRBatch + Len(rt[t].todo) - Pushed(t) = k
    BY <1>1, <2>1
  <2> QED
    BY <1>1, <2>1, <2>2 DEF Lacking
<1>5. LackOf(t, q) = IF Retiring(t) = q THEN 1 .. k ELSE {}
  BY <1>3, <1>4 DEF LackOf
<1>6. CASE pc'[t] \in {"rt_access", "rt_load"} /\ rt'[t] = r /\ Retiring(t)' = Retiring(t)
  <2>1. t \in Active(q)' <=> Retiring(t) = q
    BY <1>2, <1>6 DEF Active
  <2>2. Lacking(t)' = 1 .. k
    <3>1. Lacking(t)' = 1 .. NumSlots - SMRBatch + Len(r.todo) - 0
      BY <1>1, <1>6 DEF Lacking
    <3>2. NumSlots - SMRBatch + Len(r.todo) - 0 = k
      BY <1>1
    <3> QED
      BY <3>1, <3>2
  <2> QED
    BY <1>5, <2>1, <2>2 DEF LackOf
<1>7. CASE /\ at[t] + 1 = NumSlots /\ r.skipped /\ pc'[t] = "rt_fin" /\ rt'[t].amt = r.adjs
           /\ rt'[t].first = NULL /\ Retiring(t)' = NULL /\ link'[rt'[t].node] = Retiring(t)
  <2>1. t \in Active(q)' <=> Retiring(t) = q
    BY <1>2, <1>7 DEF Active
  <2>2. Passed(t, r) = k /\ k \in 1 .. NumSlots
    BY <1>1, <1>7 DEF Goes, Passed
  <2>3. rt'[t].amt = (k * Addend) % CounterMod
    BY <1>7, <2>2 DEF Goes
  <2>4. Lacking(t)' = {j \in 1 .. NumSlots : \A i \in 1 .. j - 1 :
                         (i * Addend) % CounterMod # (k * Addend) % CounterMod}
    BY <1>1, <1>7, <2>3 DEF Lacking
  <2>5. Lacking(t)' = 1 .. k
    BY <1>1, <2>2, <2>4, Decode
  <2> QED
    BY <1>5, <2>1, <2>5 DEF LackOf
<1>8. CASE /\ at[t] + 1 = NumSlots /\ ~r.skipped /\ pc'[t] \in {"free", "in"}
           /\ Retiring(t)' = NULL
  <2>1. t \notin Active(q)'
    BY <1>2, <1>8 DEF Active
  <2>2. k <= 0
    BY <1>1, <1>8 DEF Goes, Passed
  <2>3. 1 .. k = {}
    BY <1>1, <2>2
  <2> QED
    BY <1>5, <2>1, <2>3 DEF LackOf
<1> QED
  BY <1>6, <1>7, <1>8, GoesWhere

\* Going on after a push or past a served slot is silent.
LEMMA GoesSilent ==
  ASSUME NEW t \in Tasks, NEW r, Goes(t, r), Calm,
         head' = head, list' = list, refs' = refs, Vacant,
         Len(r.todo) = Len(rt[t].todo) - Pushed(t),
         build.words = 1 => r.adjs = rt[t].adjs,
         build.words = 2 /\ ~r.skipped /\ at[t] + 1 = NumSlots => Nodes(Retiring(t)) # {}
  PROVE  Silent(t)
<1>1. /\ at[t] \in Nat /\ NumSlots \in Nat \ {0} /\ SMRBatch \in Nat
      /\ rt[t].todo \in Seq(Objs) /\ r.todo \in Seq(Objs)
      /\ Len(rt[t].todo) \in Nat /\ Len(r.todo) \in Nat
      /\ build.words \in {1, 2} /\ r.first # NULL /\ r.first = rt[t].first
      /\ build' = build /\ link' = link /\ batch' = batch
      /\ \E k \in {0, 1} : /\ Len(r.todo) = Len(rt[t].todo) - k
                           /\ \A i \in DOMAIN r.todo :
                                 i + k \in DOMAIN rt[t].todo /\ r.todo[i] = rt[t].todo[i + k]
  BY GoesFacts DEF Goes
<1>2. Stays(t) /\ pc[t] \in {"rt_access", "rt_load", "rt_cas", "rt_count"}
  BY DEF Goes
<1>3. ~Due(t) /\ ~Due(t)' /\ Slots' = Slots
  BY <1>2, GoesWhere, StaysFacts DEF Due
<1>4. Vacant'
  BY <1>1, <1>3 DEF Vacant
<1>5. \A q \in Objs : build.words = 2 => LackOf(t, q)' = LackOf(t, q)
  BY GoesLacks
<1>6. ASSUME NEW q \in Objs PROVE Withheld(t, q)' = Withheld(t, q)
  <2>1. q # NULL /\ ~Adjusting(t)
    BY <1>2 DEF Ptrs, Adjusting
  <2>2. CASE build.words = 1
    <3>1. Withheld(t, q) = IF Retiring(t) = q THEN rt[t].adjs ELSE 0
      BY <2>1, <2>2 DEF Withheld
    <3>2. CASE pc'[t] \in {"rt_access", "rt_load"} /\ rt'[t] = r /\ Retiring(t)' = Retiring(t)
      BY <1>1, <2>2, <3>1, <3>2 DEF Withheld, Adjusting
    <3>3. CASE /\ pc'[t] = "rt_fin" /\ rt'[t].amt = r.adjs
               /\ Retiring(t)' = NULL /\ link'[rt'[t].node] = Retiring(t)
      BY <1>1, <2>1, <2>2, <3>1, <3>3 DEF Withheld, Adjusting
    <3> QED
      BY <2>2, <3>2, <3>3, GoesWhere
  <2>3. CASE build.words = 2
    <3>1. Withheld(t, q) = 0
      BY <2>1, <2>3 DEF Withheld
    <3>2. pc'[t] # "rt_adj"
      BY GoesWhere
    <3> QED
      BY <1>1, <2>3, <3>1, <3>2 DEF Withheld
  <2> QED
    BY <1>1, <2>2, <2>3
<1>7. Fresh(t)' \subseteq Fresh(t)
  <2>1. PICK k \in {0, 1} : /\ Len(r.todo) = Len(rt[t].todo) - k
                            /\ \A i \in DOMAIN r.todo :
                                  i + k \in DOMAIN rt[t].todo /\ r.todo[i] = rt[t].todo[i + k]
    BY <1>1
  <2>2. Pushed(t) \in {0, 1}
    BY DEF Pushed
  <2>3. k = Pushed(t)
    BY <1>1, <2>1, <2>2
  <2>4. CASE pc'[t] \in {"rt_access", "rt_load"} /\ rt'[t] = r
    <3>1. Fresh(t)' = {batch[t][i] : i \in DOMAIN batch[t]}
                      \union {r.todo[i] : i \in {j \in DOMAIN r.todo : j > 0}}
      BY <1>1, <2>4 DEF Fresh, Pushed
    <3>2. \A i \in DOMAIN r.todo : \E j \in DOMAIN rt[t].todo :
             j > Pushed(t) /\ r.todo[i] = rt[t].todo[j]
      <4> TAKE i \in DOMAIN r.todo
      <4>1. i \in Nat /\ i > 0
        BY <1>1
      <4>2. i + k \in DOMAIN rt[t].todo /\ r.todo[i] = rt[t].todo[i + k]
        BY <2>1
      <4>3. i + k > Pushed(t)
        BY <2>2, <2>3, <4>1
      <4> QED
        BY <4>2, <4>3
    <3>3. ASSUME NEW x \in Fresh(t)' PROVE x \in Fresh(t)
      <4>1. CASE x \in {batch[t][i] : i \in DOMAIN batch[t]}
        BY <4>1 DEF Fresh
      <4>2. CASE x \in {r.todo[i] : i \in {j \in DOMAIN r.todo : j > 0}}
        <5>1. PICK i \in DOMAIN r.todo : x = r.todo[i]
          BY <4>2
        <5>2. PICK j \in DOMAIN rt[t].todo : j > Pushed(t) /\ r.todo[i] = rt[t].todo[j]
          BY <3>2
        <5> QED
          BY <5>1, <5>2 DEF Fresh
      <4> QED
        BY <3>1, <4>1, <4>2
    <3> QED
      BY <3>3
  <2>5. CASE rt'[t].todo = <<>>
    BY <1>1, <2>5 DEF Fresh
  <2> QED
    BY <2>4, <2>5, GoesWhere
<1>8. /\ Ending(t)' \subseteq Ending(t)
      /\ \A q \in Ending(t) \ Ending(t)' : Nodes(q) # {}
  <2>1. Retiring(t) = link[rt[t].first]
    BY <1>1 DEF Retiring
  <2>2. Retiring(t) \in Objs /\ Retiring(t) # NULL
    <3>1. Sound
      BY <1>2 DEF Stays
    <3>2. link \in [Objs -> Objs] /\ rt[t].first \in Ptrs
      BY <3>1, SoundParts, Fields DEF SharedTypeOK, Batches
    <3> QED
      BY <1>1, <2>1, <3>2 DEF Ptrs
  <2>3. Ending(t) = {Retiring(t)}
    BY <2>2 DEF Ending
  <2>4. CASE Retiring(t)' = Retiring(t)
    BY <2>2, <2>3, <2>4 DEF Ending
  <2>5. CASE pc'[t] = "rt_fin" /\ Retiring(t)' = NULL /\ link'[rt'[t].node] = Retiring(t)
    BY <2>3, <2>5 DEF Ending
  <2>6. CASE /\ at[t] + 1 = NumSlots /\ build.words = 2 /\ ~r.skipped
             /\ pc'[t] \in {"free", "in"} /\ Retiring(t)' = NULL
    BY <2>3, <2>6 DEF Ending
  <2> QED
    BY <2>4, <2>5, <2>6, GoesWhere
<1> QED
  BY <1>2, <1>3, <1>4, <1>5, <1>6, <1>7, <1>8 DEF Silent

-----------------------------------------------------------------------------
(***************************************************************************)
(* The steps of retire that push nothing keep the invariant.               *)
(***************************************************************************)

\* The batch with one more slot skipped.
LEMMA SkippedType ==
  ASSUME Sound, NEW t \in Tasks
  PROVE  /\ rt[t] \in Batches /\ Skipped(t) \in Batches
         /\ Skipped(t).first = rt[t].first /\ Skipped(t).todo = rt[t].todo
         /\ Skipped(t).adjs = (rt[t].adjs + Addend) % CounterMod /\ Skipped(t).skipped = TRUE
<1>1. rt[t] \in Batches /\ Addend \in 0 .. CounterMod - 1
  BY SoundParts, Fields, SlotFacts
<1>2. rt[t].adjs + Addend \in Int
  BY <1>1 DEF Batches
<1>3. (rt[t].adjs + Addend) % CounterMod \in 0 .. CounterMod - 1
  BY <1>2, ModRange
<1> QED
  BY <1>1, <1>3 DEF Batches, Skipped

\* The slot is looked at once more, or next.
LEMMA LookOnceMore ==
  ASSUME Books, NEW t \in Tasks, Stays(t), Calm, UNCHANGED <<head, list, refs>>,
         pc[t] \in {"rt_access", "rt_load", "rt_cas"},
         pc'[t] \in {"rt_load", "rt_cas"}, at'[t] = at[t], vec'[t] = vec[t],
         NEW p \in Ptrs, rt'[t] = [rt[t] EXCEPT !.prev = p]
  PROVE  Silent(t) /\ Owns(t)'
<1>1. /\ rt[t] \in Batches /\ build' = build /\ link' = link /\ batch' = batch
      /\ SMRBatch' = SMRBatch /\ NumSlots' = NumSlots /\ Slots' = Slots /\ Addend' = Addend
      /\ \A o \in Objs : status'[o] = "retired" <=> status[o] = "retired"
      /\ Pushes(t) /\ Amounts(t) /\ Holds(t) /\ Vacant
      /\ rt[t].todo \in Seq(Objs)
  BY SkippedType, StaysFacts, BooksParts, SoundParts, Fields
     DEF Stays, AllPushes, AllAmounts, AllHolds
<1>2. /\ rt'[t].todo = rt[t].todo /\ rt'[t].first = rt[t].first
      /\ rt'[t].adjs = rt[t].adjs /\ rt'[t].skipped = rt[t].skipped
  BY <1>1 DEF Batches
<1>3. Retiring(t)' = Retiring(t) /\ Ending(t)' = Ending(t)
  BY <1>1, <1>2 DEF Retiring, Ending
<1>4. Fresh(t)' = Fresh(t)
  BY <1>1, <1>2 DEF Fresh, Pushed
<1>5. ~Due(t) /\ ~Due(t)' /\ ~Adjusting(t) /\ ~Adjusting(t)'
  BY DEF Due, Adjusting
<1>6. \A q \in Objs : Withheld(t, q)' = Withheld(t, q)
  BY <1>1, <1>2, <1>3, <1>5 DEF Withheld
<1>7. \A q \in Objs : build.words = 2 => LackOf(t, q)' = LackOf(t, q)
  <2>1. rt[t].first # NULL
    BY SoundParts DEF Stays, Control, Retires
  <2>2. Lacking(t)' = Lacking(t)
    BY <1>1, <1>2, <2>1 DEF Lacking
  <2>3. \A q \in Objs : t \in Active(q)' <=> t \in Active(q)
    BY <1>3 DEF Active
  <2> QED
    BY <2>2, <2>3 DEF LackOf
<1>8. Vacant'
  BY <1>1 DEF Vacant
<1>9. Silent(t)
  BY <1>3, <1>4, <1>5, <1>6, <1>7, <1>8 DEF Silent
<1>10. Pushes(t)'
  BY <1>1, <1>2, <1>3 DEF Pushes
<1>11. Skips(t)' = Skips(t)
  BY <1>1, <1>2 DEF Skips
<1>12. Amounts(t)'
  BY <1>1, <1>2, <1>11 DEF Amounts
<1>13. Holds(t)'
  BY <1>1, <1>3, <1>11 DEF Calm, Holds
<1> QED
  BY <1>9, <1>10, <1>12, <1>13 DEF Owns

\* Looking at the head of a slot keeps the invariant.
LEMMA RtLookKeeps ==
  ASSUME Books, NEW t \in Tasks, Good(t), Sound', RtAccess(t) \/ RtLoad(t) \/ RtRetry(t)
  PROVE  Books'
<1>1. Sound /\ Sited /\ Walked /\ Tidy(t) /\ Vacant /\ AllTidy /\ Emptied
      /\ build.words \in {1, 2}
  BY BooksParts
<1>2. /\ Untouched /\ Neat(t) /\ UNCHANGED <<head, handle, list>>
      /\ pc[t] \in {"rt_access", "rt_load", "rt_cas"}
      /\ \/ /\ pc'[t] \in {"rt_load", "rt_cas"} /\ at'[t] = at[t]
            /\ \E p \in Ptrs : rt'[t] = [rt[t] EXCEPT !.prev = p]
         \/ Onward(t, IF build.words = 1 THEN rt[t] ELSE Skipped(t))
  BY <1>1, RtLookFx
<1>3. Calm
  BY <1>1, StillCalm
<1>4. Sited' /\ Retired' = Retired
  BY <1>1, <1>2, SitedSame DEF Untouched
<1>5. Stays(t)
  BY <1>1, <1>2, <1>4 DEF Stays, Untouched
<1>6. Emptied'
  BY <1>1, <1>2, <1>5, EmptiedStep
<1>7. CASE /\ pc'[t] \in {"rt_load", "rt_cas"} /\ at'[t] = at[t]
           /\ \E p \in Ptrs : rt'[t] = [rt[t] EXCEPT !.prev = p]
  BY <1>2, <1>3, <1>4, <1>5, <1>6, <1>7, LookOnceMore, SilentKeeps DEF Untouched
<1>8. CASE Onward(t, IF build.words = 1 THEN rt[t] ELSE Skipped(t))
  <2> DEFINE r == IF build.words = 1 THEN rt[t] ELSE Skipped(t)
  <2>1. /\ rt[t] \in Batches /\ Skipped(t) \in Batches
        /\ Skipped(t).first = rt[t].first /\ Skipped(t).todo = rt[t].todo
        /\ Skipped(t).adjs = (rt[t].adjs + Addend) % CounterMod /\ Skipped(t).skipped = TRUE
    BY <1>1, SkippedType
  <2>2. /\ r \in Batches /\ r.first = rt[t].first /\ r.todo = rt[t].todo
        /\ build.words = 1 => r.adjs = rt[t].adjs
        /\ build.words = 2 => r.skipped /\ r.adjs = (rt[t].adjs + Addend) % CounterMod
    BY <2>1
  <2>3. Onward(t, r)
    BY <1>8
  <2> HIDE DEF r
  <2>4. Pushes(t) /\ Amounts(t)
    BY DEF Books, AllPushes, AllAmounts
  <2>5. /\ at[t] \in Nat /\ SMRBatch \in Nat /\ Len(rt[t].todo) \in Nat
        /\ Len(rt[t].todo) + at[t] >= SMRBatch
    BY <1>1, <1>2, SoundParts, AtFacts DEF Enough, Retires
  <2>6. ASSUME build.words = 2
        PROVE  /\ Passed(t, r) = Skips(t) + 1 /\ Passed(t, r) > 0
               /\ r.adjs = (Passed(t, r) * Addend) % CounterMod
    <3>1. Passed(t, r) = Skips(t) + 1 /\ Passed(t, r) > 0 /\ Skips(t) \in Int
      BY <2>2, <2>5 DEF Passed, Skips
    <3>2. rt[t].adjs = (Skips(t) * Addend) % CounterMod
      BY <1>2, <2>4, <2>6 DEF Amounts
    <3>3. Addend \in Nat
      BY <1>1, SoundParts, SlotFacts
    <3>4. r.adjs = ((Skips(t) + 1) * Addend) % CounterMod
      <4>1. CounterMod \in Nat \ {0}
        OBVIOUS
      <4>2. Skips(t) \in Int
        BY <3>1
      <4>3. (((Skips(t) * Addend) % CounterMod) + Addend) % CounterMod
               = ((Skips(t) + 1) * Addend) % CounterMod
        BY <3>3, <4>1, <4>2, NextAddend
      <4>4. r.adjs = (((Skips(t) * Addend) % CounterMod) + Addend) % CounterMod
        BY <2>2, <2>6, <3>2, ZenonT(40)
      <4> QED
        BY <4>3, <4>4, ZenonT(40)
    <3> QED
      BY <3>1, <3>4
  <2>7. build.words = 1 => r.adjs = SMRBatch - Len(r.todo) /\ r.adjs <= TaskNum
    BY <1>2, <2>2, <2>4 DEF Amounts
  <2>8. Goes(t, r)
    BY <1>1, <1>2, <1>5, <2>2, <2>3, <2>4, <2>6, <2>7 DEF Goes, Shifts
  <2>9. Len(r.todo) = Len(rt[t].todo) - Pushed(t)
    <3>1. Pushed(t) = 0
      BY <1>2 DEF Pushed
    <3>2. Len(r.todo) = Len(rt[t].todo)
      BY <2>2
    <3> QED
      BY <2>5, <3>1, <3>2
  <2>10. Silent(t)
    BY <1>1, <1>2, <1>3, <2>2, <2>8, <2>9, GoesSilent DEF Untouched
  <2>11. Pushes(t)' /\ Amounts(t)'
    BY <2>8, GoesOwn
  <2>12. Holds(t)'
    <3>1. pc'[t] \in Retires => Skips(t)' = Passed(t, r)
      BY <1>5, <2>8, GoesWhere, StaysFacts DEF Skips, Passed, Retires
    <3>2. build.words = 2 => Passed(t, r) > 0
      BY <2>6
    <3>3. build' = build
      BY <1>5, StaysFacts
    <3> QED
      BY <3>1, <3>2, <3>3 DEF Holds, Retires
  <2> QED
    BY <1>2, <1>4, <1>6, <2>10, <2>11, <2>12, SilentKeeps DEF Owns
<1> QED
  BY <1>2, <1>7, <1>8

\* Going on after a push keeps the invariant.
LEMMA RtCountKeeps ==
  ASSUME Books, NEW t \in Tasks, Good(t), Sound', RtCount(t)
  PROVE  Books'
<1>1. Sound /\ Sited /\ Walked /\ Tidy(t) /\ Vacant /\ AllTidy /\ Emptied
  BY BooksParts
<1> DEFINE r == [rt[t] EXCEPT !.todo = Tail(@), !.refs = 0]
<1>2. /\ Untouched /\ Neat(t) /\ UNCHANGED <<head, handle, list>>
      /\ pc[t] = "rt_count" /\ rt[t].todo # <<>> /\ Onward(t, r)
  BY <1>1, RtCountFx
<1>3. build.words = 2
  BY <1>1, <1>2, SoundParts DEF Control
<1>4. Calm
  BY <1>1, StillCalm
<1>5. Sited' /\ Retired' = Retired
  BY <1>1, <1>2, SitedSame DEF Untouched
<1>6. Stays(t)
  BY <1>1, <1>2, <1>5 DEF Stays, Untouched
<1>7. Emptied'
  BY <1>1, <1>2, <1>6, EmptiedStep
<1>8. /\ rt[t] \in Batches /\ rt[t].todo \in Seq(Objs) /\ Tail(rt[t].todo) \in Seq(Objs)
      /\ Len(Tail(rt[t].todo)) = Len(rt[t].todo) - 1
  BY <1>1, <1>2, SoundParts, Fields
<1>9. /\ r \in Batches /\ r.first = rt[t].first /\ r.todo = Tail(rt[t].todo)
      /\ r.adjs = rt[t].adjs /\ r.skipped = rt[t].skipped
  <2> DEFINE q == [rt[t] EXCEPT !.todo = Tail(@)]
  <2>1. q \in Batches /\ q.first = rt[t].first /\ q.todo = Tail(rt[t].todo)
        /\ q.adjs = rt[t].adjs /\ q.skipped = rt[t].skipped
    BY <1>8 DEF Batches
  <2>2. r = [q EXCEPT !.refs = 0]
    BY <1>8 DEF Batches
  <2>3. 0 \in 0 .. TaskNum
    BY <1>1, AtFacts
  <2> HIDE DEF q, r
  <2> QED
    BY <2>1, <2>2, <2>3 DEF Batches
<1>10. Onward(t, r)
  BY <1>2
<1> HIDE DEF r
<1>11. Pushes(t) /\ Amounts(t) /\ Holds(t)
  BY DEF Books, AllPushes, AllAmounts, AllHolds
<1>12. at[t] \in Nat /\ at[t] < NumSlots /\ SMRBatch \in Nat /\ Len(rt[t].todo) \in Nat
       /\ NumSlots \in Nat
  BY <1>1, AtFacts
<1>13. Passed(t, r) = Skips(t)
  BY <1>8, <1>9, <1>12 DEF Passed, Skips
<1>14. r.adjs = (Passed(t, r) * Addend) % CounterMod /\ (r.skipped <=> Passed(t, r) > 0)
  BY <1>2, <1>3, <1>9, <1>11, <1>13 DEF Amounts
<1>15. Goes(t, r)
  BY <1>2, <1>3, <1>6, <1>9, <1>10, <1>11, <1>14 DEF Goes, Shifts
<1>16. Len(r.todo) = Len(rt[t].todo) - Pushed(t)
  BY <1>2, <1>8, <1>9 DEF Pushed
<1>17. vec[t] \in Slots /\ vec[t] \in Int /\ vec[t] <= NumSlots - 1
  BY <1>1, <1>12, SoundParts, Fields DEF Slots
<1>18. ~r.skipped /\ at[t] + 1 = NumSlots => Nodes(Retiring(t)) # {}
  <2> SUFFICES ASSUME ~r.skipped, at[t] + 1 = NumSlots PROVE Nodes(Retiring(t)) # {}
    OBVIOUS
  <2>1. ~(Skips(t) > 0)
    BY <1>13, <1>14
  <2>2. vec[t] <= at[t]
    BY <1>12, <1>17
  <2>3. PICK n \in Owed(t) \union {head[vec[t]].ptr} : n # NULL /\ link[n] = Retiring(t)
    BY <1>2, <1>3, <1>11, <2>1, <2>2 DEF Holds
  <2>4. n \in InPlay
    BY <1>17, <2>3 DEF InPlay, AllOwed, Tops
  <2> QED
    BY <2>3, <2>4 DEF Nodes
<1>19. Silent(t)
  BY <1>1, <1>2, <1>3, <1>4, <1>15, <1>16, <1>18, GoesSilent DEF Untouched
<1>20. Pushes(t)' /\ Amounts(t)'
  BY <1>15, GoesOwn
<1>21. Holds(t)'
  <2> SUFFICES ASSUME pc'[t] \in {"rt_access", "rt_load"}, rt'[t] = r, at'[t] = at[t] + 1,
                      Retiring(t)' = Retiring(t), vec'[t] < at'[t]
               PROVE  \/ Skips(t)' > 0
                      \/ \E n \in Owed(t)' \union {head'[vec'[t]].ptr} :
                            n # NULL /\ link'[n] = Retiring(t)'
    BY <1>15, GoesWhere DEF Holds, Retires
  <2>1. vec' = vec /\ link' = link /\ head' = head /\ Owed(t)' = Owed(t) /\ SMRBatch' = SMRBatch
    BY <1>2, <1>4, <1>6, StaysFacts DEF Untouched, Calm
  <2>2. vec[t] <= at[t]
    BY <1>12, <1>17, <2>1
  <2>3. Skips(t)' = Skips(t)
    BY <1>13, <2>1 DEF Skips, Passed
  <2>4. \/ Skips(t) > 0
        \/ \E n \in Owed(t) \union {head[vec[t]].ptr} : n # NULL /\ link[n] = Retiring(t)
    BY <1>2, <1>3, <1>11, <2>2 DEF Holds
  <2> QED
    BY <2>1, <2>3, <2>4
<1> QED
  BY <1>2, <1>5, <1>7, <1>19, <1>20, <1>21, SilentKeeps DEF Owns

-----------------------------------------------------------------------------
(***************************************************************************)
(* retire puts a node before the list of a slot.                           *)
(***************************************************************************)

\* retire pushes node n, which is not the last one of its batch, on slot s.
Lays(t, s, n) ==
    /\ Stays(t) /\ pc[t] = "rt_cas" /\ s = at[t]
    /\ rt[t].todo # <<>> /\ n = Head(rt[t].todo) /\ Len(rt[t].todo) > 1
    /\ head[s].ref # 0
    /\ next' = [next EXCEPT ![n] = head[s].ptr]
    /\ head' = [head EXCEPT ![s].ptr = n]
    /\ UNCHANGED <<vec, handle, list, refs>>
    /\ wk'[t].segs = <<>> /\ Inside(t)' /\ pc'[t] # "lv_cas"

\* The node is one of the batch and was in no list.
LEMMA LaysNode ==
  ASSUME Books, NEW t \in Tasks, NEW s, NEW n, Lays(t, s, n)
  PROVE  /\ s \in Slots /\ n \in Objs /\ status[n] = "retired"
         /\ n \notin Lasts /\ n \notin InPlay
         /\ link[n] = Retiring(t) /\ Retiring(t) \in Objs /\ Ending(t) = {Retiring(t)}
         /\ t \in Active(Retiring(t))
         /\ \A i \in DOMAIN rt[t].todo : i > 1 => rt[t].todo[i] # n
         /\ \A u \in Tasks : \A i \in DOMAIN batch[u] : batch[u][i] # n
         /\ \A u \in Tasks : u # t => n \notin Fresh(u)
<1>1. /\ Sound /\ Struct /\ Pushes(t) /\ pc[t] = "rt_cas" /\ AllTidy
      /\ \A u \in Tasks : Pushes(u) /\ Grows(u)
  BY BooksParts DEF Lays, AllPushes, Struct, AllGrows
<1>2. /\ rt[t].todo \in Seq(Objs) /\ at[t] \in Slots /\ n = rt[t].todo[1]
      /\ 1 \in DOMAIN rt[t].todo /\ Len(rt[t].todo) \in Nat /\ Len(rt[t].todo) > 1
      /\ Len(rt[t].todo) \in DOMAIN rt[t].todo
      /\ DOMAIN rt[t].todo = 1 .. Len(rt[t].todo)
  BY <1>1, SoundParts, Fields DEF Lays
<1>3. /\ n \in Objs /\ status[n] = "retired" /\ link[n] = Retiring(t)
      /\ Retiring(t) = rt[t].todo[Len(rt[t].todo)] /\ Retiring(t) \in Objs
  BY <1>1, <1>2 DEF Pushes
<1>4. Retiring(t) # NULL /\ Ending(t) = {Retiring(t)} /\ t \in Active(Retiring(t))
  BY <1>3 DEF Ptrs, Ending, Active
<1>5. /\ \A i \in DOMAIN rt[t].todo : i > 1 => rt[t].todo[i] # n
      /\ n # Retiring(t)
  BY <1>1, <1>2, <1>3 DEF Pushes
<1>6. n \notin InPlay
  <2>1. Fresh(t) \intersect InPlay = {}
    BY <1>1 DEF Struct, BatchesApart
  <2>2. n \in Fresh(t)
    <3>1. Pushed(t) = 0
      BY <1>1 DEF Pushed
    <3>2. 1 \in {j \in DOMAIN rt[t].todo : j > Pushed(t)}
      BY <1>2, <3>1
    <3> QED
      BY <1>2, <3>2 DEF Fresh
  <2> QED
    BY <2>1, <2>2
<1>7. Retiring(t) \in Lasts /\ n \notin Lasts
  <2>1. Retiring(t) \in Lasts
    BY <1>4 DEF Lasts
  <2>2. ASSUME n \in Lasts PROVE FALSE
    <3>1. link[link[n]] = n
      BY <1>1, <2>2 DEF Struct, BatchesApart
    <3>2. link[Retiring(t)] = n
      BY <1>3, <3>1
    <3>3. link[Retiring(t)] = Retiring(t)
      BY <1>1, <2>1, <2>2, <3>2 DEF Struct, BatchesApart
    <3> QED
      BY <1>5, <3>2, <3>3
  <2> QED
    BY <2>1, <2>2
<1>8. ASSUME NEW u \in Tasks, NEW i \in DOMAIN batch[u], batch[u][i] = n PROVE FALSE
  <2>1. {link[n]} = Growing(u)
    BY <1>1, <1>8 DEF Grows
  <2>2. Active(link[n]) = {}
    BY <1>1, <2>1 DEF Grows
  <2> QED
    BY <1>3, <1>4, <2>2
<1>9. ASSUME NEW u \in Tasks, u # t, n \in Fresh(u) PROVE FALSE
  <2>1. PICK i \in DOMAIN rt[u].todo : rt[u].todo[i] = n
    BY <1>8, <1>9 DEF Fresh
  <2>2. IF i = Len(rt[u].todo) THEN n = Retiring(u) ELSE link[n] = Retiring(u)
    BY <1>1, <2>1 DEF Pushes
  <2>3. link[n] = Retiring(u)
    <3>1. SUFFICES ASSUME n = Retiring(u) PROVE FALSE
      BY <2>2
    <3>2. n # NULL
      BY <1>3 DEF Ptrs
    <3>3. n \in Ending(u)
      BY <3>1, <3>2 DEF Ending
    <3> QED
      BY <1>7, <3>3 DEF Lasts
  <2>4. u \in Active(Retiring(t))
    BY <1>3, <2>3 DEF Active
  <2> QED
    BY <1>1, <1>3, <1>4, <1>9, <2>4 DEF Struct, BatchesApart
<1> QED
  BY <1>2, <1>3, <1>4, <1>5, <1>6, <1>7, <1>8, <1>9 DEF Lays

\* Those inside the slot owe the node's predecessor or the node itself.
LEMMA LaysOwed ==
  ASSUME Books, NEW t \in Tasks, NEW s, NEW n, Lays(t, s, n)
  PROVE  /\ \A u \in Tasks : Paths(u)' /\ Owed(u)' = Owed(u) \union Gain(u, n, s)
         /\ Walked' /\ Tops' = (Tops \ {head[s].ptr}) \union {n}
         /\ Slots' = Slots /\ build' = build /\ link' = link
         /\ head'[s].ptr = n /\ \A z \in Slots : z # s => head'[z] = head[z]
         /\ \A z \in Slots : head'[z].ref = head[z].ref
<1>1. /\ Sound /\ Sound' /\ Walked /\ IsFiniteSet(Objs) /\ build' = build
      /\ Slots' = Slots /\ link' = link /\ Tidy(t) /\ Good(t)
  BY BooksParts, StaysFacts DEF Lays, Stays
<1>2. s \in Slots /\ n \in Objs /\ n \notin InPlay
  BY LaysNode
<1>3. build.words = 2 => Tops \intersect AllOwed = {}
  BY DEF Books, Places
<1>4. head \in [Slots -> [ref : 0 .. TaskNum, ptr : Ptrs]]
  BY <1>1, TypeParts DEF Sound, SharedTypeOK
<1>5. /\ head'[s].ptr = n /\ \A z \in Slots : z # s => head'[z] = head[z]
      /\ \A z \in Slots : head'[z].ref = head[z].ref
  BY <1>2, <1>4 DEF Lays
<1>6. ASSUME NEW u \in Tasks PROVE Paths(u)' /\ Owed(u)' = Owed(u) \union Gain(u, n, s)
  <2>1. /\ Inside(u)' <=> Inside(u)
        /\ wk'[u].segs = wk[u].segs
        /\ pc'[u] = "lv_cas" => pc[u] = "lv_cas" /\ wk'[u] = wk[u]
    <3>1. CASE u = t
      <4>1. Inside(t)
        BY DEF Inside, Lays
      <4>2. wk[t].segs = <<>>
        BY <1>1 DEF Tidy, Lays, Walking
      <4> QED
        BY <3>1, <4>1, <4>2 DEF Lays
    <3>2. CASE u # t
      BY <1>1, <3>2 DEF Good, Kept, Inside
    <3> QED
      BY <3>1, <3>2
  <2> QED
    BY <1>1, <1>2, <1>3, <2>1, PushPaths DEF Lays
<1>7. Tops' = (Tops \ {head[s].ptr}) \union {n}
  <2>1. \A y, z \in Slots : head[y].ptr = head[z].ptr /\ head[y].ptr # NULL => y = z
    BY DEF Books, Places
  <2>2. n # NULL /\ Tops' = {head'[z].ptr : z \in Slots} \ {NULL}
    BY <1>1, <1>2 DEF Ptrs, Tops
  <2>3. ASSUME NEW x \in Tops' PROVE x \in (Tops \ {head[s].ptr}) \union {n}
    <3>1. PICK z \in Slots : x = head'[z].ptr /\ x # NULL
      BY <2>2
    <3> QED
      BY <1>2, <1>5, <2>1, <3>1 DEF Tops
  <2>4. ASSUME NEW x \in (Tops \ {head[s].ptr}) \union {n} PROVE x \in Tops'
    <3>1. CASE x = n
      BY <1>2, <1>5, <2>2, <3>1
    <3>2. CASE x \in Tops \ {head[s].ptr}
      <4>1. PICK z \in Slots : x = head[z].ptr /\ x # NULL
        BY <3>2 DEF Tops
      <4> QED
        BY <1>5, <2>2, <3>2, <4>1
    <3> QED
      BY <2>4, <3>1, <3>2
  <2> QED
    BY <2>3, <2>4
<1> QED
  BY <1>1, <1>5, <1>6, <1>7 DEF Walked

-----------------------------------------------------------------------------
(***************************************************************************)
(* The push with heads of two words.                                       *)
(***************************************************************************)

\* With heads of two words the node that was at the head is buried: each thread
\* inside the slot owes it a reference.
Covers(t, s, n) ==
    /\ Lays(t, s, n) /\ build.words = 2 /\ at'[t] = at[t]
    /\ rt'[t].todo = rt[t].todo /\ rt'[t].first = rt[t].first
    /\ rt'[t].adjs = rt[t].adjs /\ rt'[t].skipped = rt[t].skipped
    /\ IF head[s].ptr # NULL
       THEN /\ pc'[t] = "rt_adj" /\ rt'[t].node = head[s].ptr
            /\ rt'[t].amt = (Addend + head[s].ref) % CounterMod
       ELSE pc'[t] = "rt_count"
Within(s) == {u \in Tasks : vec[u] = s /\ Inside(u)}

\* The old head is owed by all inside the slot and due for an adjustment.
LEMMA CoversPlay ==
  ASSUME Books, NEW t \in Tasks, NEW s, NEW n, Covers(t, s, n)
  PROVE  /\ InPlay' = InPlay \union {n}
         /\ \A q : Nodes(q)' = Nodes(q) \union (IF q = link[n] THEN {n} ELSE {})
         /\ AllOwed' \subseteq AllOwed \union ({head[s].ptr} \ {NULL})
         /\ Buried' = Buried \union ({head[s].ptr} \ {NULL})
         /\ \A m \in Objs : Debtors(m)' = IF m = head[s].ptr THEN Within(s) ELSE Debtors(m)
         /\ \A u \in Tasks : Owed(u)' = Owed(u) \union
               (IF u \in Within(s) THEN {head[s].ptr} \ {NULL} ELSE {})
         /\ ~Due(t) /\ (Due(t)' <=> head[s].ptr # NULL)
         /\ \A u \in Tasks : u # t => (Due(u)' <=> Due(u)) /\ rt'[u] = rt[u]
         /\ head[s].ptr # NULL => head[s].ptr \in Tops
         /\ Tops \intersect (AllOwed \union Buried) = {}
<1> DEFINE b == head[s].ptr
           B == {b} \ {NULL}
<1>1. Lays(t, s, n) /\ build.words = 2 /\ s \in Slots
  BY LaysNode DEF Covers
<1>2. /\ \A u \in Tasks : Owed(u)' = Owed(u) \union Gain(u, n, s)
      /\ Tops' = (Tops \ {b}) \union {n} /\ link' = link
  BY <1>1, LaysOwed
<1>3. \A u \in Tasks : Owed(u)' = Owed(u) \union (IF u \in Within(s) THEN B ELSE {})
  BY <1>1, <1>2 DEF Gain, Within
<1>4. AllOwed' \subseteq AllOwed \union B /\ AllOwed \subseteq AllOwed'
  BY <1>3 DEF AllOwed
<1>5. \A u \in Tasks : u # t => (Due(u)' <=> Due(u)) /\ rt'[u] = rt[u]
  BY <1>1, StaysFacts DEF Lays, SameLedger
<1>6. ~Due(t) /\ (Due(t)' <=> b # NULL) /\ (b # NULL => rt'[t].node = b)
  BY <1>1 DEF Due, Lays, Covers
<1>7. Buried' = Buried \union B
  <2>1. \A x : x \in Buried <=> \E u \in Tasks : Due(u) /\ x = rt[u].node
    BY DEF Buried
  <2>2. \A x : x \in Buried' <=> \E u \in Tasks : Due(u)' /\ x = rt'[u].node
    BY DEF Buried
  <2>3. \A x : x \in Buried' <=> x \in Buried \/ x \in B
    BY <1>5, <1>6, <2>1, <2>2
  <2> QED
    BY <2>3
<1>8. b # NULL => b \in Tops
  BY <1>1 DEF Tops
<1>9. InPlay' = InPlay \union {n}
  <2>1. InPlay' = AllOwed' \union Tops' \union Buried'
    BY DEF InPlay
  <2>2. NULL \notin Tops
    BY DEF Tops
  <2> QED
    BY <1>2, <1>4, <1>7, <1>8, <2>1, <2>2 DEF InPlay
<1>10. \A q : Nodes(q)' = Nodes(q) \union (IF q = link[n] THEN {n} ELSE {})
  BY <1>2, <1>9 DEF Nodes
<1>11. Tops \intersect (AllOwed \union Buried) = {}
  BY <1>1 DEF Books, Places
<1>12. ASSUME NEW m \in Objs
       PROVE  Debtors(m)' = IF m = b THEN Within(s) ELSE Debtors(m)
  <2>1. Debtors(m)' = {u \in Tasks : m \in Owed(u)'}
    BY DEF Debtors
  <2>2. m # NULL
    BY DEF Ptrs
  <2>3. CASE m = b
    <3>1. m \notin AllOwed
      BY <1>8, <1>11, <2>2, <2>3
    <3>2. \A u \in Tasks : m \notin Owed(u)
      BY <3>1 DEF AllOwed
    <3>3. \A u \in Tasks : m \in Owed(u)' <=> u \in Within(s)
      BY <1>3, <2>2, <2>3, <3>2
    <3>4. Debtors(m)' = Within(s)
      BY <2>1, <3>3 DEF Within
    <3> QED
      BY <2>3, <3>4
  <2>4. CASE m # b
    BY <1>3, <2>1, <2>4 DEF Debtors
  <2> QED
    BY <2>3, <2>4
<1> QED
  BY <1>3, <1>4, <1>5, <1>6, <1>7, <1>8, <1>9, <1>10, <1>11, <1>12

\* As many are inside the slot as its head counts.
LEMMA CoversLate ==
  ASSUME Books, NEW t \in Tasks, NEW s, NEW n, Covers(t, s, n)
  PROVE  /\ head[s].ref \in 1 .. TaskNum /\ Cardinality(Within(s)) = head[s].ref
         /\ head[s].ref < CounterMod /\ IsFiniteSet(Within(s))
         /\ head[s].ptr # NULL => LateBy(t)' = head[s].ref
<1>1. Lays(t, s, n) /\ s \in Slots /\ Sound /\ build \in Builds
  BY LaysNode, BooksParts, SoundParts DEF Covers
<1>2. head[s].ref \in 1 .. TaskNum
  BY <1>1, HeadType, SoundParts DEF Lays
<1>3. head[s].ref = Cardinality(Within(s))
  BY <1>1 DEF Sound, HeadsCount, Within
<1>4. TaskNum < CounterMod
  <2>1. PICK d \in Nat \ {0} : CounterMod = d * NumSlots /\ d > TaskNum * NumSlots
    BY <1>1, AddendIs
  <2>2. NumSlots \in Nat \ {0} /\ TaskNum \in Nat
    BY <1>1, SlotFacts
  <2>3. d * NumSlots >= d /\ TaskNum * NumSlots >= TaskNum
    BY <2>2
  <2> QED
    BY <2>1, <2>2, <2>3
<1>5. IsFiniteSet(Within(s))
  BY TasksFinite, FS_Subset DEF Within
<1>6. ASSUME head[s].ptr # NULL PROVE LateBy(t)' = head[s].ref
  <2> DEFINE k == head[s].ref
             m == CounterMod
             a == Addend
             x == (a + k) % m
  <2>1. Addend' = Addend /\ rt'[t].amt = x
    BY <1>1, <1>6, StaysFacts DEF Lays, Covers
  <2>2. LateBy(t)' = (x - a) % m
    BY <2>1 DEF LateBy
  <2>3. a \in Int /\ k \in 0 .. m - 1 /\ m \in Nat \ {0} /\ k \in Int
    BY <1>1, <1>2, <1>4, SlotFacts
  <2> HIDE DEF k, m, a
  <2>4. Even(x - (a + k), m) /\ x \in Int
    <3>1. a + k \in Int /\ m \in Int /\ m > 0
      BY <2>3
    <3>2. x \in 0 .. m - 1
      BY <2>3, <3>1, ModRange
    <3> QED
      BY <3>1, <3>2, EvenMod
  <2>5. Even(0 - (x - (a + k)), m)
    <3>1. m \in Nat /\ 0 \in Int /\ x - (a + k) \in Int
      BY <2>3, <2>4
    <3>2. Even(0, m)
      BY <3>1, NoMove
    <3> QED
      BY <2>4, <3>1, <3>2, EvenSum
  <2>6. 0 - (x - (a + k)) = k - (x - a)
    <3>1. x \in Int /\ a \in Int /\ k \in Int
      BY <2>3, <2>4
    <3> HIDE DEF x
    <3> QED
      BY ONLY <3>1
  <2>7. k = (x - a) % m
    <3>1. x - a \in Int
      BY <2>3, <2>4
    <3>2. Even(k - (x - a), m)
      BY <2>5, <2>6
    <3> QED
      BY <2>3, <3>1, <3>2, EvenSame
  <2> QED
    BY <2>2, <2>7 DEF k
<1> QED
  BY <1>2, <1>3, <1>4, <1>5, <1>6

-----------------------------------------------------------------------------
(***************************************************************************)
(* What that push does to the places of the nodes.                         *)
(***************************************************************************)

\* Every node is still in one place.
LEMMA CoversPlaces ==
  ASSUME Books, NEW t \in Tasks, NEW s, NEW n, Covers(t, s, n)
  PROVE  Places'
<1> DEFINE b == head[s].ptr
<1>1. /\ Lays(t, s, n) /\ build.words = 2 /\ s \in Slots /\ n \notin InPlay
      /\ Slots' = Slots /\ build' = build /\ Addend' = Addend
      /\ head'[s].ptr = n /\ \A z \in Slots : z # s => head'[z] = head[z]
      /\ Tops' = (Tops \ {b}) \union {n}
  <2>1. Lays(t, s, n) /\ build.words = 2
    BY DEF Covers
  <2>2. s \in Slots /\ n \notin InPlay
    BY <2>1, LaysNode
  <2>3. /\ Slots' = Slots /\ build' = build
        /\ head'[s].ptr = n /\ \A z \in Slots : z # s => head'[z] = head[z]
        /\ Tops' = (Tops \ {b}) \union {n}
    BY <2>1, LaysOwed
  <2>4. Addend' = Addend
    BY <2>1, StaysFacts DEF Lays
  <2> QED
    BY <2>1, <2>2, <2>3, <2>4
<1>2. /\ AllOwed' \subseteq AllOwed \union ({b} \ {NULL})
      /\ Buried' = Buried \union ({b} \ {NULL})
      /\ \A m \in Objs : Debtors(m)' = IF m = b THEN Within(s) ELSE Debtors(m)
      /\ ~Due(t) /\ (Due(t)' <=> b # NULL)
      /\ \A u \in Tasks : u # t => (Due(u)' <=> Due(u)) /\ rt'[u] = rt[u]
      /\ b # NULL => b \in Tops
      /\ Tops \intersect (AllOwed \union Buried) = {}
  BY CoversPlay
<1>3. /\ \A y, z \in Slots : head[y].ptr = head[z].ptr /\ head[y].ptr # NULL => y = z
      /\ \A u, v \in Tasks : Due(u) /\ Due(v) /\ rt[u].node = rt[v].node => u = v
      /\ \A u \in Tasks, m \in Objs : Due(u) /\ rt[u].node = m =>
            Cardinality(Debtors(m)) <= LateBy(u) /\ LateBy(u) <= TaskNum
  BY <1>1 DEF Books, Places
<1>4. \A z \in Slots : head[z].ptr # n
  BY <1>1, LaysNode DEF InPlay, Ptrs, Tops
<1>5. \A y, z \in Slots' : head'[y].ptr = head'[z].ptr /\ head'[y].ptr # NULL => y = z
  BY <1>1, <1>3, <1>4
<1>6. Tops' \intersect (AllOwed' \union Buried') = {}
  <2>1. n # b
    BY <1>1, <1>4
  <2>2. n \notin AllOwed \union Buried
    BY <1>1 DEF InPlay
  <2> QED
    BY <1>1, <1>2, <2>1, <2>2
<1>7. \A u \in Tasks : Due(u) => rt[u].node # b \/ b = NULL
  BY <1>2 DEF Buried
<1>8. b # NULL => rt'[t].node = b
  BY DEF Covers
<1>9. \A u, v \in Tasks : Due(u)' /\ Due(v)' /\ rt'[u].node = rt'[v].node => u = v
  BY <1>2, <1>3, <1>7, <1>8
<1>10. ASSUME NEW u \in Tasks, NEW m \in Objs, Due(u)', rt'[u].node = m
       PROVE  Cardinality(Debtors(m))' <= LateBy(u)' /\ LateBy(u)' <= TaskNum
  <2>1. CASE u # t
    <3>1. Due(u) /\ rt[u].node = m /\ LateBy(u)' = LateBy(u)
      BY <1>1, <1>2, <1>10, <2>1 DEF LateBy
    <3>2. m # NULL
      BY DEF Ptrs
    <3>3. Debtors(m)' = Debtors(m)
      BY <1>2, <1>7, <3>1, <3>2
    <3> QED
      BY <1>3, <3>1, <3>3
  <2>2. CASE u = t
    <3>1. m = b /\ b # NULL
      BY <1>2, <1>8, <1>10, <2>2
    <3>2. Debtors(m)' = Within(s)
      BY <1>2, <3>1
    <3>3. Cardinality(Within(s)) = head[s].ref /\ LateBy(t)' = head[s].ref
          /\ head[s].ref \in 1 .. TaskNum
      BY <3>1, CoversLate
    <3> QED
      BY <2>2, <3>2, <3>3
  <2> QED
    BY <2>1, <2>2
<1> QED
  BY <1>1, <1>5, <1>6, <1>9, <1>10 DEF Places

\* The thread withholds the count of the head that it replaced.
LEMMA CoversLedger ==
  ASSUME Books, NEW t \in Tasks, NEW s, NEW n, Covers(t, s, n)
  PROVE  /\ Fresh(t)' \subseteq Fresh(t) /\ n \notin Fresh(t)'
         /\ Ending(t)' = Ending(t) /\ Retiring(t)' = Retiring(t)
         /\ \A q \in Objs :
               /\ Withheld(t, q) = 0
               /\ Withheld(t, q)' = IF head[s].ptr # NULL /\ link[head[s].ptr] = q
                                    THEN head[s].ref ELSE 0
               /\ t \in Active(q) <=> q = link[n]
               /\ t \in Active(q)' <=> q = link[n]
<1>1. Lays(t, s, n) /\ build.words = 2
  BY DEF Covers
<1>2. /\ build' = build /\ link' = link /\ batch' = batch /\ Addend' = Addend
      /\ pc[t] = "rt_cas" /\ rt[t].todo \in Seq(Objs)
      /\ rt'[t].todo = rt[t].todo /\ rt'[t].first = rt[t].first
      /\ pc'[t] \in {"rt_adj", "rt_count"}
  BY <1>1, StaysFacts, SoundParts, Fields DEF Lays, Stays, Covers
<1>3. /\ link[n] = Retiring(t) /\ Retiring(t) \in Objs /\ Ending(t) = {Retiring(t)}
      /\ \A i \in DOMAIN rt[t].todo : i > 1 => rt[t].todo[i] # n
      /\ \A i \in DOMAIN batch[t] : batch[t][i] # n
  BY <1>1, LaysNode
<1>4. Retiring(t)' = Retiring(t)
  BY <1>2 DEF Retiring
<1>5. Ending(t)' = Ending(t)
  BY <1>2, <1>3, <1>4 DEF Ending, Ptrs
<1>6. Pushed(t) = 0 /\ Pushed(t)' = 1
  BY <1>2 DEF Pushed
<1>7. DOMAIN rt[t].todo \subseteq Nat
  BY <1>2
<1>8. Fresh(t) = {batch[t][i] : i \in DOMAIN batch[t]}
                 \union {rt[t].todo[i] : i \in {j \in DOMAIN rt[t].todo : j > 0}}
  BY <1>6 DEF Fresh
<1>9. Fresh(t)' = {batch[t][i] : i \in DOMAIN batch[t]}
                 \union {rt[t].todo[i] : i \in {j \in DOMAIN rt[t].todo : j > 1}}
  BY <1>2, <1>6 DEF Fresh
<1>10. Fresh(t)' \subseteq Fresh(t)
  BY <1>7, <1>8, <1>9
<1>11. n \notin Fresh(t)'
  BY <1>3, <1>9
<1>12. ASSUME NEW q \in Objs
       PROVE  /\ Withheld(t, q) = 0
              /\ Withheld(t, q)' = IF head[s].ptr # NULL /\ link[head[s].ptr] = q
                                   THEN head[s].ref ELSE 0
              /\ t \in Active(q) <=> q = link[n]
              /\ t \in Active(q)' <=> q = link[n]
  <2>1. Withheld(t, q) = 0
    BY <1>1, <1>2 DEF Withheld, Adjusting
  <2>2. (t \in Active(q) <=> q = link[n]) /\ (t \in Active(q)' <=> q = link[n])
    BY <1>2, <1>3, <1>4 DEF Active
  <2>3. CASE head[s].ptr = NULL
    BY <1>1, <1>2, <2>1, <2>2, <2>3 DEF Covers, Withheld, Adjusting
  <2>4. CASE head[s].ptr # NULL
    <3>1. pc'[t] = "rt_adj" /\ rt'[t].node = head[s].ptr /\ LateBy(t)' = head[s].ref
      BY <2>4, CoversLate DEF Covers
    <3>2. Withheld(t, q)' = IF link'[rt'[t].node] # q THEN 0 ELSE LateBy(t)'
      BY <1>1, <1>2, <3>1 DEF Withheld, Adjusting, LateBy
    <3> QED
      BY <1>2, <2>1, <2>2, <2>4, <3>1, <3>2
  <2> QED
    BY <2>3, <2>4
<1> QED
  BY <1>4, <1>5, <1>10, <1>11, <1>12

\* The batches are the same.
LEMMA CoversStruct ==
  ASSUME Books, NEW t \in Tasks, NEW s, NEW n, Covers(t, s, n)
  PROVE  Struct' /\ Lasts' = Lasts
<1>1. Lays(t, s, n) /\ Stays(t) /\ list' = list
  BY DEF Covers, Lays
<1>2. /\ InPlay' = InPlay \union {n}
      /\ \A q : Nodes(q)' = Nodes(q) \union (IF q = link[n] THEN {n} ELSE {})
  BY CoversPlay
<1>3. /\ n \in Objs /\ status[n] = "retired" /\ n \notin Lasts /\ link[n] \in Ending(t)
      /\ \A u \in Tasks : u # t => n \notin Fresh(u)
  BY <1>1, LaysNode
<1>4. /\ Fresh(t)' \subseteq Fresh(t) /\ n \notin Fresh(t)' /\ Ending(t)' = Ending(t)
  BY CoversLedger
<1>5. /\ \A u \in Tasks : /\ Growing(u)' = Growing(u)
                          /\ u # t => Ending(u)' = Ending(u) /\ rt'[u] = rt[u] /\ pc'[u] = pc[u]
      /\ batch' = batch
  BY <1>1, StaysFacts DEF SameLedger, Stays
<1>6. \A u \in Tasks : u # t => Fresh(u)' = Fresh(u)
  BY <1>5 DEF Fresh, Pushed
<1>7. Lasts \subseteq Lasts'
  <2>1. \A r : r \in Lasts' <=> \/ Nodes(r)' # {}
                                \/ \E u \in Tasks : r \in list'[u] \union Growing(u)' \union Ending(u)'
    BY DEF Lasts, Nodes
  <2>2. \A r : Nodes(r) # {} => Nodes(r)' # {}
    BY <1>2
  <2>3. \A u \in Tasks : list'[u] = list[u] /\ Growing(u)' = Growing(u) /\ Ending(u)' = Ending(u)
    BY <1>1, <1>4, <1>5
  <2> QED
    BY <2>1, <2>2, <2>3, LastsIs
<1> DEFINE N == {n}
           L == {}
<1>8. Struct /\ Stays(t)
  BY <1>1 DEF Books
<1>9. /\ InPlay' \subseteq InPlay \union N /\ list'[t] \subseteq list[t] \union L
      /\ Fresh(t)' \subseteq Fresh(t) /\ Ending(t)' \subseteq Ending(t)
  BY <1>1, <1>2, <1>4
<1>10. \A x \in N : /\ x \in Objs /\ status[x] = "retired" /\ x \notin Lasts
                    /\ link[x] \in Ending(t)
                    /\ \A u \in Tasks : x \notin Fresh(u)'
  BY <1>3, <1>4, <1>6
<1>11. \A r \in L : /\ r \in Lasts /\ (Nodes(r) # {} \/ Active(r) # {})
                    /\ Nodes(r)' = {} /\ Active(r)' = {}
  OBVIOUS
<1> HIDE DEF N, L
<1> QED
  BY <1>7, <1>8, <1>9, <1>10, <1>11, StructStep

-----------------------------------------------------------------------------
(***************************************************************************)
(* What it does to the counts.                                             *)
(***************************************************************************)

\* The debts of a batch are finitely many.
LEMMA DebtsFinite ==
  ASSUME IsFiniteSet(Objs), Sound, NEW q
  PROVE  /\ IsFiniteSet(Debts(q)) /\ Cardinality(Debts(q)) \in Nat
         /\ \A u, m : <<u, m>> \in Debts(q) <=> u \in Tasks /\ m \in Owed(u) /\ link[m] = q
<1> DEFINE F == [u \in Tasks |-> OwedTo(u, q)]
<1>1. F \in [Tasks -> SUBSET Objs]
  BY OwedType DEF OwedTo
<1>2. Debts(q) = Tokens(Tasks, F)
  BY SumForms
<1> HIDE DEF F
<1>3. IsFiniteSet(Debts(q)) /\ Cardinality(Debts(q)) \in Nat
  BY <1>1, <1>2, TasksFinite, TokensFinite
<1>4. \A u, m : <<u, m>> \in Debts(q) <=> u \in Tasks /\ m \in Owed(u) /\ link[m] = q
  BY DEF Debts
<1> QED
  BY <1>3, <1>4

\* The batch of the old head gains a debt for each thread inside.
LEMMA CoversDebts ==
  ASSUME Books, NEW t \in Tasks, NEW s, NEW n, Covers(t, s, n), NEW q \in Objs
  PROVE  /\ Cardinality(Debts(q)) \in Nat /\ Cardinality(Debts(q))' \in Nat
         /\ Cardinality(Debts(q))' - Cardinality(Debts(q))
              = IF head[s].ptr # NULL /\ link[head[s].ptr] = q THEN head[s].ref ELSE 0
<1> DEFINE b == head[s].ptr
           D == Debts(q)
           E == Debts(q)'
<1>1. /\ Sound /\ IsFiniteSet(Objs) /\ link' = link
  BY BooksParts DEF Covers, Lays, Stays
<1>2. IsFiniteSet(D) /\ Cardinality(D) \in Nat
  BY <1>1, DebtsFinite
<1>3. \A u \in Tasks : Owed(u)' = Owed(u) \union (IF u \in Within(s) THEN {b} \ {NULL} ELSE {})
  BY CoversPlay
<1>4. E = UNION {{u} \X {m \in Owed(u)' : link[m] = q} : u \in Tasks}
  BY <1>1 DEF Debts
<1>5. CASE ~(b # NULL /\ link[b] = q)
  <2>1. \A u \in Tasks : {m \in Owed(u)' : link[m] = q} = {m \in Owed(u) : link[m] = q}
    BY <1>3, <1>5
  <2>2. E = D
    BY <1>4, <2>1 DEF Debts
  <2> QED
    BY <1>2, <1>5, <2>2
<1>6. CASE b # NULL /\ link[b] = q
  <2>1. b \notin AllOwed
    BY <1>6, CoversPlay
  <2>2. \A u \in Tasks : b \notin Owed(u)
    BY <2>1 DEF AllOwed
  <2>3. E = D \union (Within(s) \X {b})
    <3>1. \A u \in Tasks : {m \in Owed(u)' : link[m] = q}
              = {m \in Owed(u) : link[m] = q} \union (IF u \in Within(s) THEN {b} ELSE {})
      BY <1>3, <1>6
    <3>2. Within(s) \subseteq Tasks
      BY DEF Within
    <3> QED
      BY <1>4, <3>1, <3>2 DEF Debts
  <2>4. D \intersect (Within(s) \X {b}) = {}
    BY <2>2 DEF Debts
  <2>5. /\ IsFiniteSet(Within(s)) /\ Cardinality(Within(s)) = head[s].ref
    BY CoversLate
  <2>6. /\ IsFiniteSet(Within(s) \X {b}) /\ Cardinality(Within(s) \X {b}) = head[s].ref
    BY <2>5, Marked
  <2> HIDE DEF D, E
  <2>7. /\ Cardinality(E) = Cardinality(D) + Cardinality(Within(s) \X {b})
        /\ Cardinality(Within(s) \X {b}) \in Nat /\ IsFiniteSet(E)
    <3> DEFINE W == Within(s) \X {b}
    <3>1. IsFiniteSet(D) /\ IsFiniteSet(W) /\ D \intersect W = {} /\ E = D \union W
      BY <1>2, <2>3, <2>4, <2>6
    <3> HIDE DEF W
    <3>2. /\ IsFiniteSet(D \union W) /\ Cardinality(W) \in Nat
          /\ Cardinality(D \union W) = Cardinality(D) + Cardinality(W)
      BY <3>1, Disjoint
    <3> QED
      BY <3>1, <3>2 DEF W
  <2>8. Cardinality(E) \in Nat /\ Cardinality(E) - Cardinality(D) = head[s].ref
    BY <1>2, <2>6, <2>7
  <2> QED
    BY <1>2, <1>6, <2>8 DEF D, E
<1> QED
  BY <1>5, <1>6

\* The pushed batch lacks one addend less.
LEMMA CoversLacks ==
  ASSUME Books, NEW t \in Tasks, NEW s, NEW n, Covers(t, s, n), AllPushes', NEW q \in Objs
  PROVE  /\ Unadded(q) \in Nat /\ Unadded(q)' \in Nat
         /\ Unadded(q)' - Unadded(q) = IF q = link[n] THEN -1 ELSE 0
<1>1. /\ Sound /\ Sound' /\ AllPushes /\ build' = build /\ Lays(t, s, n) /\ build.words = 2
      /\ \A u \in Tasks : u # t => SameLedger(u)
      /\ SMRBatch' = SMRBatch /\ NumSlots' = NumSlots
  BY BooksParts, StaysFacts DEF Covers, Lays, Stays
<1> DEFINE K == NumSlots - SMRBatch + Len(rt[t].todo)
<1>2. /\ NumSlots \in Nat /\ SMRBatch \in Nat /\ Len(rt[t].todo) \in Nat
      /\ rt'[t].todo = rt[t].todo /\ rt'[t].first = rt[t].first
      /\ Len(rt[t].todo) > 1 /\ pc[t] = "rt_cas" /\ pc'[t] \in {"rt_adj", "rt_count"}
  BY <1>1, AtFacts DEF Covers, Lays
<1>3. rt[t].first # NULL
  BY <1>1, <1>2, SoundParts DEF Control, Retires
<1>4. K \in Nat /\ K >= 1
  BY <1>1, <1>2 DEF SMRBatch
<1>5. Lacking(t) = 1 .. K /\ Lacking(t)' = 1 .. K - 1
  BY <1>1, <1>2, <1>3, <1>4 DEF Lacking
<1>6. (t \in Active(q) <=> q = link[n]) /\ (t \in Active(q)' <=> q = link[n])
  BY CoversLedger
<1>7. Cardinality(LackOf(t, q)) = (IF q = link[n] THEN K ELSE 0)
      /\ Cardinality(LackOf(t, q))' = (IF q = link[n] THEN K - 1 ELSE 0)
  <2>1. Cardinality(1 .. K) = K /\ Cardinality(1 .. K - 1) = K - 1
    <3> HIDE DEF K
    <3> QED
      BY <1>4, FS_Interval
  <2>2. Cardinality({}) = 0
    BY FS_EmptySet
  <2>3. LackOf(t, q) = (IF q = link[n] THEN 1 .. K ELSE {})
        /\ LackOf(t, q)' = (IF q = link[n] THEN 1 .. K - 1 ELSE {})
    BY <1>5, <1>6 DEF LackOf
  <2> QED
    BY <2>1, <2>2, <2>3
<1>8. /\ Unadded(q) \in Nat /\ Unadded(q)' \in Nat
      /\ Unadded(q)' - Unadded(q) = Cardinality(LackOf(t, q))' - Cardinality(LackOf(t, q))
  BY <1>1, LackMove DEF SameLedger
<1> HIDE DEF K
<1> QED
  BY <1>4, <1>7, <1>8

-----------------------------------------------------------------------------
(***************************************************************************)
(* What the threads have still to acknowledge.                             *)
(***************************************************************************)

\* The iterations of a segment, done and to do, and of the two of a thread.
Size(f, g) == g.n + Cardinality(Trail(f, g.cur, g.end)) + One(g.cur # NULL /\ g.end = NULL)
Part(f, S, i) == IF i \in DOMAIN S THEN Size(f, S[i]) ELSE 0
Total(f, S) == Part(f, S, 1) + Part(f, S, 2)

\* A walk ends at its last node, or at the end of the list.
Closes(f, g) == g.cur # NULL => g.end \in Trail(f, g.cur, g.end) \union {NULL}
Walker(t) ==
    /\ Len(wk[t].segs) <= IF Inside(t) THEN 1 ELSE 2
    /\ \A i \in DOMAIN wk[t].segs : Closes(next, wk[t].segs[i])

\* The nodes that were pushed since the thread came in, and those it walks.
Behind(t) == Cardinality(Line(t) \ {handle[t]}) + Total(next, wk[t].segs)

\* The length of a walk is a number.
LEMMA SizeType ==
  ASSUME IsFiniteSet(Objs), NEW f \in [Objs -> Ptrs], NEW g \in Segment
  PROVE  /\ Size(f, g) \in Nat /\ IsFiniteSet(Trail(f, g.cur, g.end))
         /\ Cardinality(Trail(f, g.cur, g.end)) \in Nat
<1>1. g.cur \in Ptrs /\ g.n \in Nat
  BY DEF Segment
<1>2. Trail(f, g.cur, g.end) \subseteq Objs
  BY <1>1, TrailLeast
<1>3. IsFiniteSet(Trail(f, g.cur, g.end)) /\ Cardinality(Trail(f, g.cur, g.end)) \in Nat
  BY <1>2, FS_Subset, FS_CardinalityType
<1> QED
  BY <1>1, <1>3 DEF Size, One

\* So is that of the walks of a thread.
LEMMA TotalType ==
  ASSUME IsFiniteSet(Objs), NEW f \in [Objs -> Ptrs], NEW S \in Seq(Segment)
  PROVE  Total(f, S) \in Nat /\ Total(f, <<>>) = 0
<1>1. \A i \in DOMAIN S : Size(f, S[i]) \in Nat
  BY SizeType
<1> QED
  BY <1>1 DEF Total, Part

\* The fields of a segment.
LEMMA SegmentType ==
  ASSUME NEW g \in Segment
  PROVE  /\ g.cur \in Ptrs /\ g.end \in Ptrs /\ g.n \in Nat /\ g.n + 1 \in Nat
         /\ g.cur # NULL => g.cur \in Objs
BY DEF Segment, Ptrs

\* Only one segment.
LEMMA TotalOnly ==
  ASSUME IsFiniteSet(Objs), NEW f \in [Objs -> Ptrs], NEW g \in Segment, Closes(f, g)
  PROVE  /\ Len(<<g>>) = 1 /\ Total(f, <<g>>) = Size(f, g)
         /\ \A i \in DOMAIN <<g>> : Closes(f, <<g>>[i])
<1> DEFINE T == <<g>>
<1>1. Len(T) = 1 /\ DOMAIN T = {1} /\ T[1] = g
  OBVIOUS
<1>2. Size(f, g) \in Nat
  BY SizeType
<1> HIDE DEF T
<1> QED
  BY <1>1, <1>2 DEF Total, Part, T

\* One more segment.
LEMMA TotalCons ==
  ASSUME IsFiniteSet(Objs), NEW f \in [Objs -> Ptrs], NEW S \in Seq(Segment), Len(S) <= 1,
         NEW g \in Segment, Closes(f, g), \A i \in DOMAIN S : Closes(f, S[i])
  PROVE  /\ Len(<<g>> \o S) = Len(S) + 1
         /\ Total(f, <<g>> \o S) = Size(f, g) + Total(f, S)
         /\ \A i \in DOMAIN (<<g>> \o S) : Closes(f, (<<g>> \o S)[i])
<1> DEFINE T == <<g>> \o S
<1>1. Len(T) = Len(S) + 1 /\ T[1] = g /\ DOMAIN T = 1 .. Len(S) + 1 /\ DOMAIN S = 1 .. Len(S)
  OBVIOUS
<1>2. Len(S) \in {0, 1} /\ (Len(S) = 1 => T[2] = S[1])
  <2>1. Len(S) \in Nat /\ \A i \in 1 .. Len(S) : T[i + 1] = S[i]
    OBVIOUS
  <2> HIDE DEF T
  <2>2. Len(S) = 1 => 1 \in 1 .. Len(S)
    BY <2>1
  <2>3. Len(S) = 1 => T[1 + 1] = S[1]
    BY <2>1, <2>2
  <2>4. T[1 + 1] = T[2]
    OBVIOUS
  <2>5. Len(S) \in {0, 1}
    <3>1. Len(S) \in Nat /\ \A k \in Nat : k <= 1 => k \in {0, 1}
      OBVIOUS
    <3> QED
      BY <3>1
  <2> QED
    BY <2>3, <2>4, <2>5
<1>3. Size(f, g) \in Nat /\ \A i \in DOMAIN S : Size(f, S[i]) \in Nat
  BY SizeType
<1> HIDE DEF T
<1>4. Total(f, T) = Size(f, g) + Total(f, S)
  BY <1>1, <1>2, <1>3 DEF Total, Part
<1>5. \A i \in DOMAIN T : Closes(f, T[i])
  BY <1>1, <1>2
<1> QED
  BY <1>1, <1>4, <1>5 DEF T

\* One segment less.
LEMMA TotalTail ==
  ASSUME IsFiniteSet(Objs), NEW f \in [Objs -> Ptrs], NEW S \in Seq(Segment), Len(S) <= 2,
         S # <<>>, \A i \in DOMAIN S : Closes(f, S[i])
  PROVE  /\ Len(Tail(S)) = Len(S) - 1 /\ Tail(S) \in Seq(Segment) /\ Len(Tail(S)) <= 1
         /\ Head(S) \in Segment /\ Closes(f, Head(S))
         /\ Total(f, S) = Size(f, Head(S)) + Total(f, Tail(S))
         /\ \A i \in DOMAIN Tail(S) : Closes(f, Tail(S)[i])
<1> DEFINE g == Head(S)
           Z == Tail(S)
<1>1. /\ g \in Segment /\ Z \in Seq(Segment) /\ Len(Z) = Len(S) - 1 /\ Len(S) >= 1
      /\ S[1] = g /\ DOMAIN S = 1 .. Len(S)
  OBVIOUS
<1>2. S = <<g>> \o Z /\ \A i \in 1 .. Len(S) - 1 : Z[i] = S[i + 1]
  OBVIOUS
<1> HIDE DEF g, Z
<1>3. Len(Z) <= 1 /\ Len(Z) \in Nat /\ DOMAIN Z = 1 .. Len(Z)
  BY <1>1
<1>4. Closes(f, g) /\ \A i \in DOMAIN Z : Closes(f, Z[i])
  BY <1>1, <1>2, <1>3
<1>5. Total(f, S) = Size(f, g) + Total(f, Z)
  BY <1>1, <1>2, <1>3, <1>4, TotalCons
<1> QED
  BY <1>1, <1>3, <1>4, <1>5 DEF g, Z

\* A walk goes on behind the node c.
LEMMA WalkOn ==
  ASSUME IsFiniteSet(Objs), Acks, NEW f \in [Objs -> Ptrs], NEW c \in Objs, NEW e \in Ptrs,
         NEW n \in Nat, c # e, Straight(f, c, e), e \in Trail(f, c, e) \union {NULL}
  PROVE  \E g \in Segment : /\ Walk(f[c], e, n) = <<g>> /\ Closes(f, g)
                            /\ Size(f, g) = n + Cardinality(Trail(f, c, e)) - 1 + One(e = NULL)
<1> DEFINE T == Trail(f, c, e)
           p == f[c]
<1>1. /\ Trail(f, p, e) = T \ {c} /\ c \in T /\ p \in Ptrs /\ c # NULL
      /\ T \subseteq Objs
  BY TrailPop, TrailLeast DEF Ptrs
<1>2. /\ IsFiniteSet(T) /\ Cardinality(T) \in Nat
      /\ Cardinality(T \ {c}) = Cardinality(T) - 1
  BY <1>1, FS_Subset, FS_RemoveElement, FS_CardinalityType
<1>3. e \in (T \ {c}) \union {NULL} /\ NULL \notin T
  BY <1>1
<1> HIDE DEF T, p
<1>4. CASE p = NULL
  <2> DEFINE g == [cur |-> NULL, end |-> NULL, n |-> n + 1]
  <2>1. g \in Segment /\ Closes(f, g) /\ Walk(p, e, n) = <<g>>
    BY <1>4 DEF Segment, Ptrs, Closes, Walk, Done
  <2>2. Trail(f, p, e) = {} /\ Trail(f, NULL, NULL) = {} /\ Cardinality({}) = 0
    BY <1>4, TrailNull, FS_EmptySet
  <2>3. e = NULL /\ Cardinality(T) = 1
    <3>1. T \ {c} = {}
      BY <1>1, <2>2
    <3>2. Cardinality(T \ {c}) = 0
      BY <2>2, <3>1
    <3> QED
      BY <1>2, <1>3, <3>1, <3>2
  <2>4. Size(f, g) = n + 1
    BY <2>2 DEF Size, One
  <2> QED
    BY <2>1, <2>3, <2>4 DEF One, T, p
<1>5. CASE p # NULL
  <2> DEFINE g == [cur |-> p, end |-> e, n |-> n]
  <2>1. g \in Segment /\ Walk(p, e, n) = <<g>>
    BY <1>1, <1>5 DEF Segment, Walk
  <2>2. Closes(f, g)
    BY <1>1, <1>3 DEF Closes
  <2>3. Size(f, g) = n + (Cardinality(T) - 1) + One(e = NULL)
    BY <1>1, <1>2, <1>5 DEF Size
  <2>4. Size(f, g) = n + Cardinality(T) - 1 + One(e = NULL)
    BY <1>2, <2>3 DEF One
  <2> HIDE DEF g
  <2> QED
    BY <2>1, <2>2, <2>4 DEF T, p
<1> QED
  BY <1>4, <1>5

\* A list that ends where it starts.
LEMMA TrailSame ==
  ASSUME IsFiniteSet(Objs), NEW f \in [Objs -> Ptrs], NEW h \in Ptrs
  PROVE  Trail(f, h, h) \ {h} = {}
<1>1. CASE h = NULL
  BY <1>1, TrailNull
<1>2. CASE h \in Objs
  BY <1>2, TrailSplit
<1> QED
  BY <1>1, <1>2 DEF Ptrs

\* The list of a thread that leaves or trims, c at its head.
LEMMA ListAhead ==
  ASSUME IsFiniteSet(Objs), Acks, Sound, Walked, NEW t \in Tasks, Inside(t),
         head[vec[t]].ptr # handle[t]
  PROVE  LET c == head[vec[t]].ptr
             e == handle[t]
         IN  \E g \in Segment : /\ Walk(next[c], e, 0) = <<g>> /\ Closes(next, g)
                                /\ Size(next, g) = Cardinality(Line(t) \ {e})
<1> DEFINE c == head[vec[t]].ptr
           e == handle[t]
<1>1. /\ next \in [Objs -> Ptrs] /\ c \in Ptrs /\ e \in Ptrs
      /\ Line(t) = Trail(next, c, e) /\ (c = NULL => e = NULL) /\ Line(t) \subseteq Objs
  BY LineFacts
<1>2. Straight(next, c, e) /\ e \in Line(t) \union {NULL}
  BY PathParts
<1>3. c \in Objs /\ c # e /\ 0 \in Nat
  BY <1>1 DEF Ptrs
<1> HIDE DEF c, e
<1>4. PICK g \in Segment : /\ Walk(next[c], e, 0) = <<g>> /\ Closes(next, g)
                           /\ Size(next, g) = 0 + Cardinality(Line(t)) - 1 + One(e = NULL)
  BY <1>1, <1>2, <1>3, WalkOn
<1>5. IsFiniteSet(Line(t)) /\ Cardinality(Line(t)) \in Nat
  BY <1>1, FS_Subset, FS_CardinalityType
<1>6. Cardinality(Line(t) \ {e}) = Cardinality(Line(t)) - 1 + One(e = NULL)
  <2>1. CASE e = NULL
    <3>1. Line(t) \ {e} = Line(t) /\ One(e = NULL) = 1
      BY <1>1, <2>1 DEF One
    <3>2. Cardinality(Line(t) \ {e}) = Cardinality(Line(t))
      BY <3>1, Zenon
    <3> QED
      BY <1>5, <3>1, <3>2
  <2>2. CASE e # NULL
    <3>1. Cardinality(Line(t) \ {e}) = Cardinality(Line(t)) - 1
      BY <1>2, <1>5, <2>2, FS_RemoveElement
    <3> QED
      BY <1>5, <2>2, <3>1 DEF One
  <2> QED
    BY <2>1, <2>2
<1> QED
  BY <1>4, <1>5, <1>6 DEF c, e, One

-----------------------------------------------------------------------------
\* leave puts its list on the walk, ...
LEMMA LeaveCasBehind ==
  ASSUME Books, Acks, NEW t \in Tasks, LeaveCas(t), Walker(t)
  PROVE  Behind(t)' = Behind(t) /\ Walker(t)'
<1> DEFINE c == head[vec[t]].ptr
           e == handle[t]
           S == wk[t].segs
<1>1. Sound /\ Walked /\ Tidy(t) /\ Paths(t) /\ IsFiniteSet(Objs)
  BY BooksParts DEF Books, AllTidy, Walked, AllPaths
<1>2. /\ next' = next /\ handle' = handle /\ pc[t] = "lv_cas" /\ ~Inside(t)'
      /\ c = wk[t].curr
      /\ wk'[t].segs = (IF c = e THEN <<>> ELSE Walk(wk[t].next, e, 0)) \o S
  BY <1>1, LeaveCasFx DEF Untouched
<1>3. Inside(t) /\ (c # e => wk[t].next = next[c])
  BY <1>1, <1>2 DEF Inside, Paths
<1>4. /\ next \in [Objs -> Ptrs] /\ c \in Ptrs /\ S \in Seq(Segment)
      /\ Line(t) = Trail(next, c, e)
  BY <1>1, <1>3, LineFacts
<1>5. Line(t)' = {} /\ Cardinality({}) = 0
  BY <1>2, FS_EmptySet DEF Line
<1>6. Behind(t)' = Total(next, wk'[t].segs)
  <2>1. Cardinality(Line(t)' \ {handle'[t]}) = 0
    <3>1. Line(t)' \ {handle'[t]} = {}
      BY <1>5
    <3> QED
      BY <1>5, <3>1, Zenon
  <2>2. Total(next, wk'[t].segs) \in Nat
    BY <1>1, <1>2, <1>4, LeaveCasGood, TotalType DEF Good, LocalTypeOK, Walks
  <2> QED
    BY <1>2, <2>1, <2>2 DEF Behind
<1>7. Len(S) \in Nat /\ Len(S) <= 1 /\ \A i \in DOMAIN S : Closes(next, S[i])
  BY <1>3, <1>4 DEF Walker
<1>8. CASE c = e
  <2>1. wk'[t].segs = S
    BY <1>2, <1>4, <1>8
  <2>2. Cardinality(Line(t) \ {e}) = 0
    <3>1. Line(t) \ {e} = {}
      BY <1>1, <1>4, <1>8, TrailSame
    <3> QED
      BY <1>5, <3>1, Zenon
  <2>3. Total(next, S) \in Nat
    BY <1>1, <1>4, TotalType
  <2>4. Behind(t)' = Behind(t)
    BY <1>6, <2>1, <2>2, <2>3 DEF Behind
  <2> HIDE DEF S
  <2>5. Walker(t)'
    BY <1>2, <1>7, <2>1 DEF Walker
  <2> QED
    BY <2>4, <2>5
<1>9. CASE c # e
  <2>1. PICK g \in Segment : /\ Walk(next[c], e, 0) = <<g>> /\ Closes(next, g)
                             /\ Size(next, g) = Cardinality(Line(t) \ {e})
    BY <1>1, <1>3, <1>9, ListAhead
  <2>2. wk'[t].segs = <<g>> \o S
    BY <1>2, <1>3, <1>9, <2>1
  <2> HIDE DEF S
  <2>3. /\ Len(<<g>> \o S) = Len(S) + 1
        /\ Total(next, <<g>> \o S) = Size(next, g) + Total(next, S)
        /\ \A i \in DOMAIN (<<g>> \o S) : Closes(next, (<<g>> \o S)[i])
    BY <1>1, <1>4, <1>7, <2>1, TotalCons
  <2>4. Behind(t)' = Behind(t)
    BY <1>6, <2>1, <2>2, <2>3 DEF Behind, S
  <2>5. Walker(t)'
    BY <1>2, <1>7, <2>2, <2>3 DEF Walker
  <2> QED
    BY <2>4, <2>5
<1> QED
  BY <1>8, <1>9

\* ... as trim does, ...
LEMMA TrimBehind ==
  ASSUME Books, Acks, NEW t \in Tasks, Trim(t)
  PROVE  Behind(t)' = Behind(t) /\ Walker(t)'
<1> DEFINE c == head[vec[t]].ptr
           e == handle[t]
<1>1. Sound /\ Walked /\ Tidy(t) /\ IsFiniteSet(Objs)
  BY BooksParts DEF Books, AllTidy, Walked, AllPaths
<1>2. /\ next' = next /\ handle' = [handle EXCEPT ![t] = c] /\ pc[t] = "in" /\ Inside(t)'
      /\ head' = head /\ vec' = vec /\ wk[t].segs = <<>>
      /\ wk'[t].segs = IF c = e THEN <<>> ELSE Walk(next[c], e, 0)
  BY <1>1, TrimFx DEF Untouched
<1>3. Inside(t)
  BY <1>2 DEF Inside
<1>4. /\ next \in [Objs -> Ptrs] /\ c \in Ptrs /\ <<>> \in Seq(Segment) /\ Len(<<>>) = 0
      /\ Line(t) = Trail(next, c, e) /\ handle'[t] = c /\ Total(next, <<>>) = 0
  <2>1. handle \in [Tasks -> Ptrs]
    BY <1>1 DEF Sound, HyalineTypeOK
  <2>2. <<>> \in Seq(Segment) /\ Len(<<>>) = 0
    OBVIOUS
  <2> QED
    BY <1>1, <1>2, <1>3, <2>1, <2>2, LineFacts, TotalType
<1>5. Cardinality(Line(t)' \ {handle'[t]}) = 0
  <2>1. Line(t)' = Trail(next, c, c)
    BY <1>2, <1>4 DEF Line, Chain
  <2>2. Line(t)' \ {handle'[t]} = {}
    BY <1>1, <1>4, <2>1, TrailSame
  <2> QED
    BY <2>2, FS_EmptySet, Zenon
<1>6. Behind(t) = Cardinality(Line(t) \ {e}) + 0
  BY <1>2, <1>4 DEF Behind
<1>7. Behind(t)' = 0 + Total(next, wk'[t].segs)
  BY <1>2, <1>5 DEF Behind
<1>8. CASE c = e
  <2>1. Cardinality(Line(t) \ {e}) = 0
    <3>1. Line(t) \ {e} = {}
      BY <1>1, <1>4, <1>8, TrailSame
    <3> QED
      BY <3>1, FS_EmptySet, Zenon
  <2>2. wk'[t].segs = <<>>
    BY <1>2, <1>8
  <2> QED
    BY <1>2, <1>4, <1>6, <1>7, <2>1, <2>2 DEF Walker
<1>9. CASE c # e
  <2>1. PICK g \in Segment : /\ Walk(next[c], e, 0) = <<g>> /\ Closes(next, g)
                             /\ Size(next, g) = Cardinality(Line(t) \ {e})
    BY <1>1, <1>3, <1>9, ListAhead
  <2> DEFINE T == <<g>>
  <2>2. /\ wk'[t].segs = T /\ Len(T) = 1 /\ Total(next, T) = Size(next, g)
        /\ \A i \in DOMAIN T : Closes(next, T[i])
    BY <1>1, <1>2, <1>4, <1>9, <2>1, TotalOnly
  <2>3. Size(next, g) \in Nat
    BY <1>1, <1>4, SizeType
  <2> HIDE DEF T
  <2>4. Behind(t)' = Behind(t)
    BY <1>6, <1>7, <2>1, <2>2, <2>3
  <2>5. Walker(t)'
    <3>1. Len(wk'[t].segs) <= 1
      BY <2>2
    <3> QED
      BY <1>2, <2>2, <3>1 DEF Walker
  <2> QED
    BY <2>4, <2>5
<1> QED
  BY <1>8, <1>9

\* ... a step of the walk keeps the sum, ...
LEMMA TraverseBehind ==
  ASSUME Books, Acks, NEW t \in Tasks, Traverse(t), Walker(t)
  PROVE  Behind(t)' = Behind(t) /\ Walker(t)'
<1> DEFINE g == Head(wk[t].segs)
           S == wk[t].segs
           Z == Tail(wk[t].segs)
<1>1. Sound /\ Walked /\ Tidy(t) /\ IsFiniteSet(Objs)
  BY BooksParts DEF Books, AllTidy, Walked, AllPaths
<1>2. /\ next' = next /\ handle' = handle /\ vec' = vec /\ head' = head
      /\ S # <<>> /\ g \in Segment /\ g.cur # NULL /\ (Inside(t)' <=> Inside(t))
      /\ wk'[t].segs = (IF g.cur = g.end THEN Done(g.n + 1)
                        ELSE Walk(next[g.cur], g.end, g.n + 1)) \o Z
  BY <1>1, TraverseFx
<1>3. next \in [Objs -> Ptrs] /\ S \in Seq(Segment) /\ Laid(next, S, ToDrop(t))
  BY <1>1, LineFacts, PathParts
<1>4. g.cur \in Objs /\ g.end \in Ptrs /\ g.n \in Nat /\ g.n + 1 \in Nat
  BY <1>2, SegmentType
<1>5. Straight(next, g.cur, g.end)
  BY <1>2, <1>3, LaidTail
<1>6. Len(S) <= 2 /\ Len(S) <= (IF Inside(t) THEN 1 ELSE 2) /\ \A i \in DOMAIN S : Closes(next, S[i])
  BY <1>3 DEF Walker
<1>7. /\ Len(Z) = Len(S) - 1 /\ Z \in Seq(Segment) /\ Len(Z) <= 1 /\ Closes(next, g)
      /\ Total(next, S) = Size(next, g) + Total(next, Z)
      /\ \A i \in DOMAIN Z : Closes(next, Z[i])
  BY <1>1, <1>2, <1>3, <1>6, TotalTail
<1>8. \E k \in Segment : /\ wk'[t].segs = <<k>> \o Z /\ Closes(next, k)
                         /\ Size(next, k) = Size(next, g)
  <2>1. CASE g.cur = g.end
    <3> DEFINE k == [cur |-> NULL, end |-> NULL, n |-> g.n + 1]
    <3>1. wk'[t].segs = <<k>> \o Z
      BY <1>2, <2>1 DEF Done
    <3>2. k \in Segment /\ Closes(next, k)
      BY <1>4 DEF Segment, Closes, Ptrs
    <3>3. Trail(next, g.cur, g.end) = {g.cur} /\ Trail(next, NULL, NULL) = {}
      BY <1>1, <1>3, <1>4, <2>1, TrailSplit, TrailNull
    <3>4. Cardinality(Trail(next, g.cur, g.end)) = 1 /\ Cardinality(Trail(next, NULL, NULL)) = 0
      BY <3>3, FS_EmptySet, FS_Singleton, Zenon
    <3>5. Size(next, k) = g.n + 1 /\ Size(next, g) = g.n + 1
      BY <1>2, <1>4, <2>1, <3>4 DEF Size, One
    <3> HIDE DEF k
    <3> QED
      BY <3>1, <3>2, <3>5
  <2>2. CASE g.cur # g.end
    <3>1. g.end \in Trail(next, g.cur, g.end) \union {NULL}
      BY <1>2, <1>7 DEF Closes
    <3> DEFINE N == Cardinality(Trail(next, g.cur, g.end))
    <3>2. PICK k \in Segment : /\ Walk(next[g.cur], g.end, g.n + 1) = <<k>> /\ Closes(next, k)
                               /\ Size(next, k) = (g.n + 1) + N - 1 + One(g.end = NULL)
      BY <1>1, <1>3, <1>4, <1>5, <2>2, <3>1, WalkOn
    <3>3. N \in Nat /\ Size(next, g) = g.n + N + One(g.end = NULL)
      BY <1>1, <1>2, <1>3, SizeType DEF Size
    <3> HIDE DEF N
    <3>4. Size(next, k) = Size(next, g)
      BY <1>4, <3>2, <3>3 DEF One
    <3> QED
      BY <1>2, <2>2, <3>2, <3>4
  <2> QED
    BY <2>1, <2>2
<1>9. PICK k \in Segment : /\ wk'[t].segs = <<k>> \o Z /\ Closes(next, k)
                           /\ Size(next, k) = Size(next, g)
  BY <1>8
<1> HIDE DEF Z, S, g
<1>10. /\ Len(<<k>> \o Z) = Len(Z) + 1
       /\ Total(next, <<k>> \o Z) = Size(next, k) + Total(next, Z)
       /\ \A i \in DOMAIN (<<k>> \o Z) : Closes(next, (<<k>> \o Z)[i])
  BY <1>1, <1>3, <1>7, <1>9, TotalCons
<1>11. Line(t)' = Line(t) /\ handle'[t] = handle[t]
  BY <1>2 DEF Line, Chain
<1>12. Behind(t)' = Behind(t)
  BY <1>2, <1>7, <1>9, <1>10, <1>11 DEF Behind, S
<1>13. Len(<<k>> \o Z) = Len(S)
  BY <1>3, <1>7, <1>10
<1>14. Walker(t)'
  BY <1>2, <1>6, <1>9, <1>10, <1>13 DEF Walker
<1> QED
  BY <1>12, <1>14

\* ... and the acknowledgement takes it off the counter.
LEMMA AckBehind ==
  ASSUME Books, NEW t \in Tasks, Ack(t), Walker(t)
  PROVE  LET n == Head(wk[t].segs).n IN
         /\ n \in Nat /\ Behind(t)' = Behind(t) - n /\ Walker(t)'
         /\ counter' = [counter EXCEPT ![vec[t]] = @ - n]
<1> DEFINE g == Head(wk[t].segs)
           S == wk[t].segs
           Z == Tail(wk[t].segs)
<1>1. Sound /\ Walked /\ Tidy(t) /\ IsFiniteSet(Objs)
  BY BooksParts DEF Books, AllTidy, Walked, AllPaths
<1>2. /\ next' = next /\ handle' = handle /\ vec' = vec /\ head' = head
      /\ S # <<>> /\ g.cur = NULL /\ (Inside(t)' <=> Inside(t)) /\ wk'[t].segs = Z
  BY <1>1, AckFx DEF Untouched
<1>3. next \in [Objs -> Ptrs] /\ S \in Seq(Segment)
  BY <1>1, LineFacts
<1>4. Len(S) \in Nat /\ Len(S) <= 2 /\ Len(S) <= (IF Inside(t) THEN 1 ELSE 2)
      /\ \A i \in DOMAIN S : Closes(next, S[i])
  BY <1>3 DEF Walker
<1>5. /\ Len(Z) = Len(S) - 1 /\ Z \in Seq(Segment) /\ g \in Segment
      /\ Total(next, S) = Size(next, g) + Total(next, Z)
      /\ \A i \in DOMAIN Z : Closes(next, Z[i])
  BY <1>1, <1>2, <1>3, <1>4, TotalTail
<1>6. g.n \in Nat /\ g.end \in Ptrs /\ Size(next, g) = g.n
  <2>1. Trail(next, NULL, g.end) = {} /\ Cardinality({}) = 0
    BY <1>1, <1>3, TrailNull, FS_EmptySet
  <2>2. Cardinality(Trail(next, g.cur, g.end)) = 0
    BY <1>2, <2>1, Zenon
  <2> QED
    BY <1>2, <1>5, <2>2 DEF Segment, Size, One
<1>7. counter' = [counter EXCEPT ![vec[t]] = @ - g.n]
  BY DEF Ack
<1> HIDE DEF Z, S, g
<1>8. Line(t)' = Line(t) /\ handle'[t] = handle[t] /\ Line(t) \ {handle[t]} \subseteq Objs
  BY <1>1, <1>2, LineFacts DEF Line, Chain
<1>9. Cardinality(Line(t) \ {handle[t]}) \in Nat /\ Total(next, Z) \in Nat
  BY <1>1, <1>3, <1>5, <1>8, FS_Subset, FS_CardinalityType, TotalType
<1>10. Behind(t)' = Behind(t) - g.n
  BY <1>2, <1>5, <1>6, <1>8, <1>9 DEF Behind, S
<1>11. Walker(t)'
  BY <1>2, <1>4, <1>5 DEF Walker
<1> QED
  BY <1>6, <1>7, <1>10, <1>11 DEF g

-----------------------------------------------------------------------------
(***************************************************************************)
(* Sums over the threads.                                                  *)
(***************************************************************************)
\* The numbers up to those of f are finitely many.
LEMMA SumRoom ==
  ASSUME NEW f \in [Tasks -> Nat]
  PROVE  IsFiniteSet(UNION {1 .. f[u] : u \in Tasks})
<1> DEFINE T == {1 .. f[u] : u \in Tasks}
           h == [u \in Tasks |-> 1 .. f[u]]
<1>1. h \in Surjection(Tasks, T)
  BY DEF Surjection
<1>2. IsFiniteSet(T)
  BY <1>1, TasksFinite, FS_Surjection
<1>3. \A S \in T : IsFiniteSet(S)
  <2>1. \A u \in Tasks : IsFiniteSet(1 .. f[u])
    BY FS_Interval
  <2> QED
    BY <2>1
<1> HIDE DEF T
<1>4. IsFiniteSet(UNION T)
  BY <1>2, <1>3, FS_UNION
<1> QED
  BY <1>4 DEF T

\* What a sum is when one number changes.
LEMMA SumChange ==
  ASSUME NEW f \in [Tasks -> Nat], NEW g \in [Tasks -> Nat], NEW t \in Tasks,
         \A u \in Tasks \ {t} : g[u] = f[u]
  PROVE  /\ IsFiniteSet(Sum(f)) /\ Cardinality(Sum(f)) \in Nat /\ Cardinality(Sum(g)) \in Nat
         /\ Cardinality(Sum(g)) = Cardinality(Sum(f)) + g[t] - f[t]
<1> DEFINE V == UNION {1 .. f[u] : u \in Tasks}
           W == UNION {1 .. g[u] : u \in Tasks}
           U == V \union W
           F == [u \in Tasks |-> 1 .. f[u]]
           G == [u \in Tasks |-> 1 .. g[u]]
<1>1. IsFiniteSet(U)
  <2>1. IsFiniteSet(V) /\ IsFiniteSet(W)
    BY SumRoom
  <2> HIDE DEF V, W
  <2> QED
    BY <2>1, FS_Union
<1>2. F \in [Tasks -> SUBSET U] /\ G \in [Tasks -> SUBSET U]
  OBVIOUS
<1>3. \A u \in Tasks \ {t} : G[u] = F[u]
  OBVIOUS
<1>4. Cardinality(G[t]) = g[t] /\ Cardinality(F[t]) = f[t] /\ f[t] \in Nat /\ g[t] \in Nat
  <2>1. \A n \in Nat : Cardinality(1 .. n) = n
    BY FS_Interval
  <2>2. G[t] = 1 .. g[t] /\ F[t] = 1 .. f[t] /\ f[t] \in Nat /\ g[t] \in Nat
    OBVIOUS
  <2> HIDE DEF F, G
  <2> QED
    BY <2>1, <2>2
<1>5. Sum(f) = Tokens(Tasks, F) /\ Sum(g) = Tokens(Tasks, G)
  BY DEF Sum, Tokens
<1> HIDE DEF F, G, U
<1>6. IsFiniteSet(Tasks)
  BY TasksFinite
<1>7. /\ IsFiniteSet(Tokens(Tasks, F)) /\ Cardinality(Tokens(Tasks, F)) \in Nat
      /\ Cardinality(Tokens(Tasks, G)) \in Nat
  BY <1>1, <1>2, <1>6, TokensFinite
<1>8. Cardinality(Tokens(Tasks, G)) - Cardinality(Tokens(Tasks, F))
        = Cardinality(G[t]) - Cardinality(F[t])
  BY <1>1, <1>2, <1>3, <1>6, TokensChange
<1> QED
  BY <1>4, <1>5, <1>7, <1>8

\* What it is when the numbers of the threads in S grow by one.
LEMMA SumGrow ==
  ASSUME NEW f \in [Tasks -> Nat], NEW g \in [Tasks -> Nat], NEW S \in SUBSET Tasks,
         \A u \in Tasks : g[u] = f[u] + One(u \in S)
  PROVE  Cardinality(Sum(g)) = Cardinality(Sum(f)) + Cardinality(S)
<1> DEFINE T == {<<u, g[u]>> : u \in S}
<1>1. Sum(g) = Sum(f) \union T /\ Sum(f) \intersect T = {}
  BY DEF Sum, One
<1>2. IsFiniteSet(S) /\ Cardinality(S) \in Nat
  BY TasksFinite, FS_Subset, FS_CardinalityType
<1>3. IsFiniteSet(T) /\ Cardinality(T) <= Cardinality(S)
  <2> DEFINE h == [x \in T |-> x[1]]
  <2>1. h \in [T -> S] /\ \A x, y \in T : h[x] = h[y] => x = y
    OBVIOUS
  <2> HIDE DEF h, T
  <2> QED
    BY <1>2, <2>1, OneToOne
<1>4. Cardinality(S) <= Cardinality(T)
  <2> DEFINE h == [u \in S |-> <<u, g[u]>>]
  <2>1. h \in [S -> T] /\ \A x, y \in S : h[x] = h[y] => x = y
    OBVIOUS
  <2> HIDE DEF h, T
  <2> QED
    BY <1>3, <2>1, OneToOne
<1> HIDE DEF T
<1>5. IsFiniteSet(Sum(f))
  <2>1. 1 \in Tasks
    BY DEF Tasks
  <2> QED
    BY <2>1, SumChange
<1>6. Cardinality(Sum(g)) = Cardinality(Sum(f)) + Cardinality(T) /\ Cardinality(T) \in Nat
  BY <1>1, <1>3, <1>5, Disjoint
<1> QED
  BY <1>2, <1>3, <1>4, <1>6

-----------------------------------------------------------------------------
\* Links that lead out of other nodes do not matter to a walk.
LEMMA TotalFrame ==
  ASSUME IsFiniteSet(Objs), NEW f \in [Objs -> Ptrs], NEW g \in [Objs -> Ptrs],
         NEW S \in Seq(Segment), \A m \in Rest(f, S) : g[m] = f[m]
  PROVE  /\ Total(g, S) = Total(f, S)
         /\ \A i \in DOMAIN S : Closes(f, S[i]) => Closes(g, S[i])
<1>1. ASSUME NEW i \in DOMAIN S
      PROVE  Trail(g, S[i].cur, S[i].end) = Trail(f, S[i].cur, S[i].end)
  <2>1. S[i] \in Segment
    OBVIOUS
  <2>2. S[i].cur \in Ptrs
    BY <2>1, SegmentType
  <2>3. \A m \in Trail(f, S[i].cur, S[i].end) : g[m] = f[m]
    BY DEF Rest
  <2> QED
    BY <2>2, <2>3, TrailFrame
<1>2. \A i \in DOMAIN S : Size(g, S[i]) = Size(f, S[i]) /\ (Closes(f, S[i]) => Closes(g, S[i]))
  BY <1>1 DEF Size, Closes
<1> QED
  BY <1>2 DEF Total, Part

=============================================================================
