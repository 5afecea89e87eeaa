------------------------------ MODULE Hyaline ------------------------------
(***************************************************************************)
(* Hyaline and Hyaline-S (hyaline/bits): reclamation by batches of retired *)
(* nodes on lists that the threads share.  There are 2^order slots.  The   *)
(* head of a slot is a pair of a counter of the threads inside and the     *)
(* last node retired there.  A thread enters a slot by counting itself in  *)
(* and remembers the list it found (its handle); retire collects nodes in  *)
(* a batch and pushes one node of the batch on each slot that has threads  *)
(* inside; a thread that leaves drops one reference for each node pushed   *)
(* since it entered; whoever brings the counter of a batch to zero frees   *)
(* the batch.                                                              *)
(*                                                                         *)
(* This module has what the variants share: the client, the batches, the   *)
(* walk and trim (lfsmr_common.h), and the epochs with which Hyaline-S     *)
(* passes stalled threads by (lfbsmr_common.h).  Hyaline2 and Hyaline1 add *)
(* enter, leave and retire for heads of two words and of one.              *)
(*                                                                         *)
(* Every access to a shared atomic is one step; accesses are sequentially  *)
(* consistent.  A head is loaded in one step although some CPUs load it in *)
(* two words: the counter read decides alone whether retire passes a slot  *)
(* by, the pointer read decides alone which node leave looks at, and the   *)
(* compare-and-swap that follows compares both (module LfRef).             *)
(***************************************************************************)
EXTENDS Client, Sequences, FiniteSets, FiniteSetsExt

CONSTANTS
    Builds,     \* the variants: see Build
    CounterMod, \* 2^w for the w bits of type_t, which counts references
    EpochMod,   \* 2^w for the w bits of lfepoch_t
    EpochFreq,  \* freq of init_node: allocations of a thread per epoch
    StartEpoch, \* the global epoch and the access epochs when the run starts
    MaxAdvance, \* bound: the epoch is advanced that often
    StallLimit, \* __LFBSMR_STALL_THRESHOLD
    FlushLimit, \* FLUSH_THRESHOLD: batches that trim frees before it leaves
    Updaters    \* the threads that allocate, link, unlink and retire

\* lfbsmr or lfsmr; heads of two words written whole (FULL) or by halves
\* (LL/SC CPUs), or heads of one word; SMR_ORDER, for 2^order slots: the
\* trackers with heads of one word have a slot for each thread.
Build == {b \in [robust : BOOLEAN, words : {1, 2}, full : BOOLEAN,
                 order : Nat] : b.words = 1 => TaskNum <= 2 ^ b.order}

\* (That a power of two is a positive number is said for the prover, which does
\* not compute powers.)
ASSUME HyalineAssumption ==
    /\ Builds \subseteq Build
    /\ \A b \in Builds : 2 ^ b.order \in Nat \ {0}
    /\ CounterMod \in Nat \ {0} /\ EpochMod \in Nat \ {0}
    /\ EpochFreq \in Nat \ {0} /\ StartEpoch \in 0 .. EpochMod - 1
    /\ MaxAdvance \in Nat /\ StallLimit \in Nat \ {0} /\ FlushLimit \in Nat
    /\ Updaters \subseteq Tasks

\* There are finitely many blocks.
ASSUME BlocksAssumption == IsFiniteSet(Objs)

\* type_t divides into the addends of the slots, and an addend exceeds what the
\* threads can owe to a batch with a node in every slot.
ASSUME CountersAssumption ==
    \A b \in Builds : \E d \in 1 .. CounterMod :
        CounterMod = d * 2 ^ b.order /\ d > TaskNum * 2 ^ b.order

\* lfepoch_t is wide enough for the sign of a difference of epochs.
ASSUME EpochsAssumption == 2 * MaxAdvance < EpochMod

VARIABLES
    build,      \* how the library was compiled and set up; never changes
    head,       \* head[s]: the number of threads inside slot s, the last node
    access,     \* access[s]: the epoch of the last deref in slot s
    counter,    \* counter[s]: nodes pushed on s and not acknowledged yet
    global,     \* the global epoch
    next,       \* next[n]: successor of node n in the list of a slot
    link,       \* batch_link: the last node of n's batch
    refs,       \* refs[r]: reference counter of the batch whose last node is r
    birth,      \* birth_epoch
    \* per thread, between calls
    allocs,     \* the counter of init_node, modulo EpochFreq
    batch,      \* nodes of the batch from first to last
    minEpoch,   \* min_epoch of the batch
    vec,        \* the slot (enter_num)
    handle,     \* the last node of the slot when the thread entered
    held,       \* the references the thread has read in this operation
    \* per thread, inside a call
    pc,         \* the next step
    at,         \* slot looked at by enter or retire
    rd,         \* locals of deref
    wk,         \* locals of leave, trim and traverse
    list,       \* last nodes of the batches the thread has to free
    rt          \* locals of retire

nodes == <<next, link, refs, birth>>
epochs == <<access, counter, global>>
mem == <<build, head, epochs, nodes>>
own == <<allocs, batch, minEpoch, vec, handle>>
locals == <<at, rd, wk, list, rt>>
vars == <<clientVars, mem, own, held, pc, locals>>

-----------------------------------------------------------------------------
NumSlots == 2 ^ build.order
Slots == 0 .. NumSlots - 1

\* deref reads the pointer again after it has raised the epoch of the slot.
AfterAccessKept == "global"
AfterAccess == "value"

\* SMR_BATCH of the EL trackers; with a slot for each thread it is at least
\* task_num + 1 (emptyFreq only makes it larger).
SMRBatchOfSlots == NumSlots
SMRBatch ==
    IF build.words = 1 THEN TaskNum + 1
    ELSE IF TaskNum < NumSlots THEN NumSlots ELSE NumSlots + 1

\* addend = ((~(type_t) 0) >> order) + 1, in the arithmetic of type_t.
AddendOffByOne == ((CounterMod - 1) \div NumSlots) % CounterMod
Addend == ((CounterMod - 1) \div NumSlots + 1) % CounterMod

\* Hyaline-S with heads of two words acknowledges the nodes of a slot.
Acks == build.robust /\ build.words = 2

\* __LFBSMR_EPOCH_CMP(x, >=, y): the sign of the difference.
EpochGeq(x, y) == 2 * ((x - y) % EpochMod) < EpochMod

\* min_epoch after one more node; the first node of a batch starts afresh.
MinEpochKept(empty, min, e) == IF EpochGeq(min, e) THEN e ELSE min
MinEpoch(empty, min, e) == IF empty \/ EpochGeq(min, e) THEN e ELSE min

\* deref: the cell, the pointer and the epochs loaded.
NoDeref == [src |-> NULL, ptr |-> NULL, global |-> StartEpoch,
            access |-> StartEpoch]

\* traverse of the nodes from cur to end; n iterations are done.
Segment == [cur : Ptrs, end : Ptrs, n : Nat]

\* leave: the head loaded (curr) and its successor (next); traverse: the
\* segments to walk, innermost call first, and the threshold left; where the
\* call returns to.
NoWalk == [curr |-> NULL, next |-> NULL, segs |-> <<>>, left |-> 0,
           ret |-> "out"]

\* retire: the nodes from curr on, the head loaded (prev), the node and the
\* amount of the pending adjustment, the slots passed by, first, min_epoch.
NoRetire == [todo |-> <<>>, prev |-> NULL, node |-> NULL, amt |-> 0,
             refs |-> 0, adjs |-> 0, skipped |-> FALSE, first |-> NULL]

PC == {"out", "in", "look", "add", "value", "global", "access",
       "leave", "lv_cas", "lv_clear", "lv_adj", "trav", "ack", "free",
       "rt_access", "rt_load", "rt_cas", "rt_adj", "rt_count", "rt_fin"}

HyalineTypeOK ==
    /\ ClientTypeOK
    /\ build \in Builds
    /\ head \in [Slots -> [ref : 0 .. TaskNum, ptr : Ptrs]]
    /\ access \in [Slots -> 0 .. EpochMod - 1]
    /\ counter \in [Slots -> Int]
    /\ global \in 0 .. EpochMod - 1
    /\ next \in [Objs -> Ptrs]
    /\ link \in [Objs -> Objs]
    /\ refs \in [Objs -> 0 .. CounterMod - 1]
    /\ birth \in [Objs -> 0 .. EpochMod - 1]
    /\ allocs \in [Tasks -> 0 .. EpochFreq - 1]
    /\ batch \in [Tasks -> Seq(Objs)]
    /\ minEpoch \in [Tasks -> 0 .. EpochMod - 1]
    /\ vec \in [Tasks -> Slots] /\ at \in [Tasks -> Slots]
    /\ handle \in [Tasks -> Ptrs]
    /\ held \in [Tasks -> SUBSET Objs]
    /\ pc \in [Tasks -> PC]
    /\ rd \in [Tasks -> [src : Cells \union {NULL}, ptr : Ptrs,
                         global : 0 .. EpochMod - 1,
                         access : 0 .. EpochMod - 1]]
    /\ wk \in [Tasks -> [curr : Ptrs, next : Ptrs, segs : Seq(Segment),
                         left : 0 .. FlushLimit, ret : {"out", "in", "enter"}]]
    /\ list \in [Tasks -> SUBSET Objs]
    /\ rt \in [Tasks -> [todo : Seq(Objs), prev : Ptrs, node : Ptrs,
                         amt : 0 .. CounterMod - 1, refs : 0 .. TaskNum,
                         adjs : 0 .. CounterMod - 1, skipped : BOOLEAN,
                         first : Ptrs]]

\* lfsmr_init, and the fields of the trackers.
HyalineInit ==
    /\ ClientInit
    /\ build \in Builds
    /\ head = [s \in Slots |-> [ref |-> 0, ptr |-> NULL]]
    /\ access = [s \in Slots |-> StartEpoch]
    /\ counter = [s \in Slots |-> 0]
    /\ global = StartEpoch
    /\ next = [o \in Objs |-> NULL]
    /\ link = [o \in Objs |-> o]
    /\ refs = [o \in Objs |-> 0]
    /\ birth = [o \in Objs |-> StartEpoch]
    /\ allocs = [t \in Tasks |-> 0]
    /\ batch = [t \in Tasks |-> <<>>]
    /\ minEpoch = [t \in Tasks |-> StartEpoch]
    /\ vec = [t \in Tasks |-> (t - 1) % NumSlots]
    /\ at = [t \in Tasks |-> (t - 1) % NumSlots]
    /\ handle = [t \in Tasks |-> NULL]
    /\ held = [t \in Tasks |-> {}]
    /\ pc = [t \in Tasks |-> "out"]
    /\ rd = [t \in Tasks |-> NoDeref]
    /\ wk = [t \in Tasks |-> NoWalk]
    /\ list = [t \in Tasks |-> {}]
    /\ rt = [t \in Tasks |-> NoRetire]

Goto(t, l) == pc' = [pc EXCEPT ![t] = l]

-----------------------------------------------------------------------------
\* Where a call of enter starts.
Entry == IF Acks THEN "look" ELSE "add"

\* The walk goes on as w says, with the batches in l to free: the rest of a
\* segment, the acknowledgement of a segment, __free, or the return.
Proceed(t, w, l) ==
    /\ wk' = [wk EXCEPT ![t] = IF w.segs = <<>> /\ l = {} THEN NoWalk ELSE w]
    /\ list' = [list EXCEPT ![t] = l]
    /\ at' = [at EXCEPT ![t] = vec[t]]
    /\ Goto(t, IF w.segs # <<>>
               THEN IF Head(w.segs).cur # NULL THEN "trav" ELSE "ack"
               ELSE IF l # {} THEN "free"
               ELSE IF w.ret = "enter" THEN Entry ELSE w.ret)

\* traverse of c .. e after n iterations; the iteration that meets the end of
\* the list counts too.  Without acknowledgements nothing is counted, and a
\* finished segment is nothing to do.
Done(n) == IF Acks THEN <<[cur |-> NULL, end |-> NULL, n |-> n]>> ELSE <<>>
WalkUncounted(c, e, n) ==
    IF c = NULL THEN Done(n)
    ELSE <<[cur |-> c, end |-> e, n |-> IF Acks THEN n ELSE 0]>>
Walk(c, e, n) ==
    IF c = NULL THEN Done(n + 1)
    ELSE <<[cur |-> c, end |-> e, n |-> IF Acks THEN n ELSE 0]>>

\* The last reference was dropped: fetch_sub returned 1, or fetch_add the
\* negative of what it added.
LastReferenceEarly(r) == refs[r] = 0
LastReference(r) == refs[r] = 1
AllReleasedWide(r, amt) == refs[r] + amt = 0
AllReleased(r, amt) == (refs[r] + amt) % CounterMod = 0

\* adjust_refs: n's batch; the list gets the batch when the sum is zero.
AdjustRefsWide(n, amt) == refs' = [refs EXCEPT ![link[n]] = @ + amt]
AdjustRefs(n, amt) ==
    refs' = [refs EXCEPT ![link[n]] = (@ + amt) % CounterMod]
Adjusted(t, n, amt) ==
    IF AllReleased(link[n], amt) THEN list[t] \union {link[n]} ELSE list[t]

\* free: the nodes of the batches whose last nodes are in R.
Members(R) == R \union {o \in Objs : status[o] = "retired" /\ link[o] \in R}

-----------------------------------------------------------------------------
\* init_node: every EpochFreq-th allocation of a thread advances the epoch.
InitNode(t, o) ==
    /\ allocs' = [allocs EXCEPT ![t] = (@ + 1) % EpochFreq]
    /\ \/ allocs'[t] # 0 /\ UNCHANGED global
       \/ /\ allocs'[t] = 0
          /\ (global - StartEpoch) % EpochMod < MaxAdvance
          /\ global' = (global + 1) % EpochMod
    /\ birth' = [birth EXCEPT ![o] = global']

\* alloc of the trackers: malloc, and init_node in the trackers of Hyaline-S.
Alloc(t) ==
    /\ pc[t] \in {"out", "in"}
    /\ \E o \in Objs :
          /\ Malloc(t, o)
          /\ \/ build.robust /\ InitNode(t, o)
             \/ ~build.robust /\ UNCHANGED <<allocs, global, birth>>
    /\ UNCHANGED <<build, head, access, counter, next, link, refs, batch,
                   minEpoch, vec, handle, held, pc, locals>>

\* A step of the rideable that does not involve the tracker.
Rideable(t) ==
    /\ pc[t] = "in"
    /\ Discard(t) \/ \E c \in Cells : Link(t, c)
    /\ UNCHANGED <<mem, own, held, pc, locals>>

\* read of the trackers of Hyaline is the load of the cell.
Read(t, c) ==
    /\ pc[t] = "in" /\ ~build.robust
    /\ held' = [held EXCEPT ![t] = @ \union ({cell[c]} \ {NULL})]
    /\ UNCHANGED <<clientVars, mem, own, pc, locals>>

-----------------------------------------------------------------------------
\* deref of Hyaline-S, to the first load of the pointer.  (The access epoch of
\* the slot is loaded before it; it never exceeds the global epoch, so a load
\* that others have overtaken only costs one more iteration.)
Deref(t, c) ==
    /\ pc[t] = "in" /\ build.robust
    /\ rd' = [rd EXCEPT ![t] = [NoDeref EXCEPT !.src = c, !.ptr = cell[c],
                                               !.access = access[vec[t]]]]
    /\ Goto(t, "global")
    /\ UNCHANGED <<clientVars, mem, own, held, at, wk, list, rt>>

\* deref: the load of the pointer in a later iteration.
DerefValue(t) ==
    /\ pc[t] = "value"
    /\ rd' = [rd EXCEPT ![t].ptr = cell[rd[t].src]]
    /\ Goto(t, "global")
    /\ UNCHANGED <<clientVars, mem, own, held, at, wk, list, rt>>

\* deref: return if the slot has the global epoch.
DerefGlobal(t) ==
    /\ pc[t] = "global"
    /\ \/ /\ rd[t].access = global
          /\ held' = [held EXCEPT ![t] = @ \union ({rd[t].ptr} \ {NULL})]
          /\ rd' = [rd EXCEPT ![t] = NoDeref]
          /\ Goto(t, "in")
       \/ /\ rd[t].access # global
          /\ rd' = [rd EXCEPT ![t].global = global]
          /\ Goto(t, "access")
          /\ UNCHANGED held
    /\ UNCHANGED <<clientVars, mem, own, at, wk, list, rt>>

-----------------------------------------------------------------------------
\* retire, to the call of __retire: the thread's compare-and-swap has taken
\* out a node it had read; the node joins the batch.  The first node of a
\* batch is its last: it holds the counter, which shares a word with
\* batch_next and so starts at zero; its batch_link leads free to the first.
\* None of this is seen by another thread before the node is pushed.
Retire(t, c) ==
    LET o == cell[c]
        empty == batch[t] = <<>>
        chain == <<o>> \o batch[t]
        r == chain[Len(chain)]
        full == Len(chain) >= SMRBatch
    IN
    /\ pc[t] = "in"
    /\ o \in held[t]
    /\ cell' = [cell EXCEPT ![c] = NULL]
    /\ status' = [status EXCEPT ![o] = "retired"]
    /\ minEpoch' = [minEpoch EXCEPT ![t] = MinEpoch(empty, @, birth[o])]
    /\ refs' = [refs EXCEPT ![o] = 0]
    /\ link' = IF full THEN [link EXCEPT ![o] = r, ![r] = o]
               ELSE [link EXCEPT ![o] = r]
    /\ batch' = [batch EXCEPT ![t] = IF full THEN <<>> ELSE chain]
    /\ \/ /\ full
          /\ rt' = [rt EXCEPT ![t] = [NoRetire EXCEPT !.todo = chain,
                                                     !.first = o]]
          /\ wk' = [wk EXCEPT ![t] = [NoWalk EXCEPT !.ret = "in"]]
          /\ at' = [at EXCEPT ![t] = 0]
          /\ Goto(t, IF build.robust THEN "rt_access" ELSE "rt_load")
       \/ ~full /\ UNCHANGED <<rt, wk, at, pc>>
    /\ UNCHANGED <<mine, victim, build, head, epochs, next, birth, allocs,
                   vec, handle, held, rd, list>>

\* __retire: to the next slot, with the nodes and sums of r, or out of the
\* loop.  The final adjustment is made when a slot was passed by, and always
\* with heads of one word.
NextSlot(t, r) ==
    LET over == at[t] + 1 = NumSlots
        final == build.words = 1 \/ r.skipped
    IN
    \/ /\ ~over
       /\ rt' = [rt EXCEPT ![t] = r]
       /\ at' = [at EXCEPT ![t] = @ + 1]
       /\ Goto(t, IF build.robust THEN "rt_access" ELSE "rt_load")
       /\ UNCHANGED wk
    \/ /\ over /\ final
       /\ rt' = [rt EXCEPT ![t] = [NoRetire EXCEPT !.node = r.first,
                                                  !.amt = r.adjs]]
       /\ at' = [at EXCEPT ![t] = vec[t]]
       /\ Goto(t, "rt_fin")
       /\ UNCHANGED wk
    \/ /\ over /\ ~final
       /\ rt' = [rt EXCEPT ![t] = NoRetire]
       /\ Proceed(t, wk[t], list'[t])

\* __retire passes a slot by: nobody is inside, or nobody who could have read
\* a node of the batch.
SkipSlot(t) ==
    /\ UNCHANGED list
    /\ NextSlot(t, IF build.words = 1 THEN rt[t]
                   ELSE [rt[t] EXCEPT !.adjs = (@ + Addend) % CounterMod,
                                      !.skipped = TRUE])

\* __retire of Hyaline-S: the access epoch of a slot.
RtAccess(t) ==
    /\ pc[t] = "rt_access"
    /\ \/ /\ EpochGeq(access[at[t]], minEpoch[t])
          /\ Goto(t, "rt_load")
          /\ UNCHANGED <<rt, wk, at, list>>
       \/ ~EpochGeq(access[at[t]], minEpoch[t]) /\ SkipSlot(t)
    /\ UNCHANGED <<clientVars, mem, own, held, rd>>

\* __retire: the load of the head of a slot.
RtLoad(t) ==
    /\ pc[t] = "rt_load"
    /\ \/ head[at[t]].ref = 0 /\ SkipSlot(t)
       \/ /\ head[at[t]].ref # 0
          /\ rt' = [rt EXCEPT ![t].prev = head[at[t]].ptr]
          /\ Goto(t, "rt_cas")
          /\ UNCHANGED <<wk, at, list>>
    /\ UNCHANGED <<clientVars, mem, own, held, rd>>

\* __retire: the compare-and-swap found another head, and loaded it.
RtRetry(t) ==
    /\ pc[t] = "rt_cas"
    /\ \/ head[at[t]].ref = 0 /\ SkipSlot(t)
       \/ /\ head[at[t]].ref # 0 /\ head[at[t]].ptr # rt[t].prev
          /\ rt' = [rt EXCEPT ![t].prev = head[at[t]].ptr]
          /\ UNCHANGED <<wk, at, pc, list>>
    /\ UNCHANGED <<clientVars, mem, own, held, rd>>

\* __retire: the compare-and-swap pushes the node on the slot.
Push(t) ==
    LET n == Head(rt[t].todo) IN
    /\ pc[t] = "rt_cas"
    /\ head[at[t]].ref # 0 /\ head[at[t]].ptr = rt[t].prev
    /\ next' = [next EXCEPT ![n] = rt[t].prev]
    /\ head' = [head EXCEPT ![at[t]].ptr = n]

\* __retire: the adjustment after the loop.
RtFin(t) ==
    /\ pc[t] = "rt_fin"
    /\ AdjustRefs(rt[t].node, rt[t].amt)
    /\ rt' = [rt EXCEPT ![t] = NoRetire]
    /\ Proceed(t, wk[t], Adjusted(t, rt[t].node, rt[t].amt))
    /\ UNCHANGED <<clientVars, build, head, epochs, next, link, birth, own,
                   held, rd>>

-----------------------------------------------------------------------------
\* traverse: one node.  Its successor and its batch are read before the
\* reference is dropped.  When trim has brought enough batches to zero the
\* thread leaves the slot in the middle of the walk.
Traverse(t) ==
    LET w == wk[t]
        g == Head(w.segs)
        r == link[g.cur]
        rest == IF g.cur = g.end THEN Done(g.n + 1)
                ELSE Walk(next[g.cur], g.end, g.n + 1)
        l == IF LastReference(r) THEN list[t] \union {r} ELSE list[t]
        left == IF LastReference(r) /\ w.left > 0 THEN w.left - 1 ELSE w.left
        flush == w.left = 1 /\ left = 0
        walk == [w EXCEPT !.segs = rest \o Tail(@), !.left = left]
    IN
    /\ pc[t] = "trav"
    /\ refs' = [refs EXCEPT ![r] = (@ - 1) % CounterMod]
    /\ \/ ~flush /\ Proceed(t, walk, l)
       \/ /\ flush
          /\ wk' = [wk EXCEPT ![t] = [walk EXCEPT !.ret = "enter"]]
          /\ list' = [list EXCEPT ![t] = l]
          /\ Goto(t, "leave")
          /\ UNCHANGED at
    /\ UNCHANGED <<clientVars, build, head, epochs, next, link, birth, own,
                   held, rd, rt>>

\* ack: the nodes of the walk count no longer for the slot.
Ack(t) ==
    LET w == wk[t] IN
    /\ pc[t] = "ack"
    /\ counter' = [counter EXCEPT ![vec[t]] = @ - Head(w.segs).n]
    /\ Proceed(t, [w EXCEPT !.segs = Tail(@)], list[t])
    /\ UNCHANGED <<clientVars, build, head, access, global, nodes, own, held,
                   rd, rt>>

\* free: the batches of the local list go back to the allocator.
FreeList(t) ==
    /\ pc[t] = "free"
    /\ Free(Members(list[t]))
    /\ Proceed(t, wk[t], {})
    /\ UNCHANGED <<mem, own, held, rd, rt>>

\* trim, at the end of an operation of the TR trackers: the thread stays
\* inside, gives up what was retired before the present head and takes the
\* head for its handle.
Trim(t) ==
    LET new == head[vec[t]].ptr
        old == handle[t]
        segs == IF new = old THEN <<>> ELSE Walk(next[new], old, 0)
    IN
    /\ pc[t] = "in" /\ mine[t] = NULL
    /\ held' = [held EXCEPT ![t] = {}]
    /\ handle' = [handle EXCEPT ![t] = new]
    /\ Proceed(t, [NoWalk EXCEPT !.segs = segs, !.left = FlushLimit,
                                  !.ret = "in"], {})
    /\ UNCHANGED <<clientVars, mem, allocs, batch, minEpoch, vec, rd, rt>>
=============================================================================
