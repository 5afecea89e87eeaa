----------------------------- MODULE HRTracker -----------------------------
(***************************************************************************)
(* Crystalline-L (benchmark/src/trackers/HRTracker.hpp): reclamation by    *)
(* batches of retired nodes.  Each thread has HRNum slots; a slot is a     *)
(* list of retired nodes (first) and the epoch of its last use.  retire    *)
(* collects nodes in a thread-local batch; try_retire pushes one node of   *)
(* the batch on every slot that may protect a node of it; a thread that    *)
(* leaves a slot walks its list and drops one reference per node; whoever  *)
(* brings the counter of a batch to zero frees the batch.                  *)
(*                                                                         *)
(* Every access to a shared atomic is one step; accesses are sequentially  *)
(* consistent.  The calls come from module Client.                         *)
(***************************************************************************)
EXTENDS Client, Sequences, FiniteSets

CONSTANTS
    HRNum,      \* hr_num: slots of a thread
    EpochFreq,  \* epochFreq * task_num: allocations of a thread per epoch
    Freq,       \* freq (emptyFreq): retirements between two try_retire
    MaxHRC,     \* MAX_HRC: lists traversed before a cached list is freed
    Readers,    \* the threads that call read
    Reservers,  \* the threads that call reserve_slot
    Updaters,   \* the threads that allocate, link, unlink and retire
    INVPTR,     \* HR_INVPTR: the slot is inactive
    MaxEpoch    \* bound: the epoch is not advanced beyond it

Idx == 1 .. HRNum

ASSUME ParamAssumption ==
    /\ HRNum \in Nat \ {0}
    /\ EpochFreq \in Nat \ {0}
    /\ Freq \in Nat \ {0}
    /\ MaxHRC \in Nat \ {0}
    /\ MaxEpoch \in Nat \ {0}
    /\ Readers \subseteq Tasks
    /\ Reservers \subseteq Tasks
    /\ Updaters \subseteq Tasks

ASSUME PtrAssumption == INVPTR \notin Ptrs

\* The memory of the allocator is finite, so the nodes of a batch can be counted.
ASSUME MemoryAssumption == IsFiniteSet(Objs)

SlotPtrs == Objs \union {NULL, INVPTR}

VARIABLES
    \* shared
    epoch,      \* global epoch
    first,      \* first[t][j]: slots[t].first[j]
    slotEpoch,  \* slotEpoch[t][j]: slots[t].epoch[j]
    next,       \* next[n]: successor of node n in the list of a slot
    refs,       \* refs[r]: reference counter of the batch whose last node is r
    link,       \* link[n]: the last node of n's batch (batch_link)
    birth,      \* birth[o]: birth_epoch
    \* per thread, between operations
    allocs,     \* alloc_counters[t], modulo EpochFreq
    batch,      \* batches[t]: nodes from first to last (counter = Len)
    minEpoch,   \* batches[t].min_epoch
    list,       \* batches[t].list: last nodes of the batches to free
    listCount,  \* batches[t].list_count
    held,       \* held[t][j]: the reference read last returned through slot j
    resv,       \* resv[t][j]: the reference reserved and validated in slot j
    \* per thread, inside an operation
    pc,         \* the next step
    rd,         \* locals of read, reserve_slot, do_update and clear_all
    work,       \* heads of the detached lists that traverse has to walk
    rt          \* locals of try_retire

slots == <<first, slotEpoch>>
nodes == <<next, refs, link, birth>>
batches == <<batch, minEpoch, list, listCount>>
given == <<held, resv>>
vars == <<clientVars, epoch, allocs, slots, nodes, batches, given, pc, rd,
          work, rt>>

-----------------------------------------------------------------------------
SlotIds == Tasks \X Idx

\* read: the cell read, the pointer loaded, the epoch loaded.  prev_epoch is
\* always the epoch stored in the thread's own slot, so it has no copy here.
\* traverse: the successor loaded.
ReadLocals ==
    [op : {"none", "read", "reserve", "clear"}, idx : Idx,
     src : Cells \union {NULL}, ptr : Ptrs, curr : 0 .. MaxEpoch,
     succ : Ptrs]
NoRead == [op |-> "none", idx |-> 1, src |-> NULL, ptr |-> NULL, curr |-> 0,
           succ |-> NULL]

\* try_retire: the slot scanned, the nodes with the slots assigned to them,
\* the expected head of the slot's list, the number of nodes inserted.
EndPos == <<TaskNum + 1, 1>>
RetireLocals ==
    [pos : SlotIds \union {EndPos}, asg : Seq(Objs \X SlotIds),
     prev : SlotPtrs, adjs : Nat]
NoRetire == [pos |-> <<1, 1>>, asg |-> <<>>, prev |-> NULL, adjs |-> 0]

PC == {"idle", "birth", "load", "check", "validate",
       "upd", "upd_null", "upd_reload", "upd_epoch",
       "trav", "drop", "clear", "free",
       "scan", "scan_epoch", "insert", "ins_epoch", "ins_cas"}

TypeOK ==
    /\ ClientTypeOK
    /\ epoch \in 1 .. MaxEpoch
    /\ first \in [Tasks -> [Idx -> SlotPtrs]]
    /\ slotEpoch \in [Tasks -> [Idx -> 0 .. MaxEpoch]]
    /\ next \in [Objs -> Ptrs]
    /\ refs \in [Objs -> Int]
    /\ link \in [Objs -> Objs]
    /\ birth \in [Objs -> 0 .. MaxEpoch]
    /\ allocs \in [Tasks -> 0 .. EpochFreq - 1]
    /\ batch \in [Tasks -> Seq(Objs)]
    /\ minEpoch \in [Tasks -> 0 .. MaxEpoch]
    /\ list \in [Tasks -> SUBSET Objs]
    /\ listCount \in [Tasks -> 0 .. MaxHRC]
    /\ held \in [Tasks -> [Idx -> Ptrs]]
    /\ resv \in [Tasks -> [Idx -> Ptrs]]
    /\ pc \in [Tasks -> PC]
    /\ rd \in [Tasks -> ReadLocals]
    /\ work \in [Tasks -> Seq(Objs)]
    /\ rt \in [Tasks -> RetireLocals]

Init ==
    /\ ClientInit
    /\ epoch = 1
    /\ first = [t \in Tasks |-> [j \in Idx |-> INVPTR]]
    /\ slotEpoch = [t \in Tasks |-> [j \in Idx |-> 0]]
    /\ next = [o \in Objs |-> NULL]
    /\ refs = [o \in Objs |-> 0]
    /\ link = [o \in Objs |-> o]
    /\ birth = [o \in Objs |-> 0]
    /\ allocs = [t \in Tasks |-> 0]
    /\ batch = [t \in Tasks |-> <<>>]
    /\ minEpoch = [t \in Tasks |-> 0]
    /\ list = [t \in Tasks |-> {}]
    /\ listCount = [t \in Tasks |-> 0]
    /\ held = [t \in Tasks |-> [j \in Idx |-> NULL]]
    /\ resv = [t \in Tasks |-> [j \in Idx |-> NULL]]
    /\ pc = [t \in Tasks |-> "idle"]
    /\ rd = [t \in Tasks |-> NoRead]
    /\ work = [t \in Tasks |-> <<>>]
    /\ rt = [t \in Tasks |-> NoRetire]

-----------------------------------------------------------------------------
Goto(t, l) == pc' = [pc EXCEPT ![t] = l]

\* free_list: every node of the batches whose last nodes are in R.
Members(R) == {o \in Objs : status[o] = "retired" /\ link[o] \in R}
FreeList(R) == Free(Members(R))

-----------------------------------------------------------------------------
\* alloc, to the fetch_add: the counter, the epoch, the block.
AllocCount(t) ==
    /\ pc[t] = "idle"
    /\ allocs' = [allocs EXCEPT ![t] = (@ + 1) % EpochFreq]
    /\ IF allocs'[t] = 0
       THEN epoch < MaxEpoch /\ epoch' = epoch + 1
       ELSE epoch' = epoch
    /\ \E o \in Objs : Malloc(t, o)
    /\ Goto(t, "birth")
    /\ UNCHANGED <<slots, nodes, batches, given, rd, work, rt>>

\* alloc, from getEpoch on.
AllocBirth(t) ==
    /\ pc[t] = "birth"
    /\ birth' = [birth EXCEPT ![mine[t]] = epoch]
    /\ Goto(t, "idle")
    /\ UNCHANGED <<clientVars, epoch, allocs, slots, batches, given,
                   next, refs, link, rd, work, rt>>

\* A step of the rideable that does not involve the tracker.
Rideable(t) ==
    /\ pc[t] = "idle"
    /\ Discard(t) \/ \E c \in Cells : Link(t, c) \/ Unlink(t, c)
    /\ UNCHANGED <<epoch, allocs, slots, nodes, batches, given, pc, rd, work,
                   rt>>

-----------------------------------------------------------------------------
\* The references of the slots J are given up.
Forget(t, J) ==
    /\ held' = [held EXCEPT ![t] = [j \in Idx |-> IF j \in J THEN NULL ELSE @[j]]]
    /\ resv' = [resv EXCEPT ![t] = [j \in Idx |-> IF j \in J THEN NULL ELSE @[j]]]

\* read: the call and the load of obj.  The caller gives up the reference it
\* last got through slot j.
Read(t, c, j) ==
    /\ pc[t] = "idle"
    /\ Forget(t, {j})
    /\ rd' = [rd EXCEPT ![t] = [op |-> "read", idx |-> j, src |-> c,
                                ptr |-> cell[c], curr |-> 0, succ |-> NULL]]
    /\ Goto(t, "check")
    /\ UNCHANGED <<clientVars, epoch, allocs, slots, nodes, batches,
                   work, rt>>

\* read: the load of obj in a later iteration.
ReadLoad(t) ==
    /\ pc[t] = "load"
    /\ rd' = [rd EXCEPT ![t].ptr = cell[rd[t].src]]
    /\ Goto(t, "check")
    /\ UNCHANGED <<clientVars, epoch, allocs, slots, nodes, batches,
                   given, work, rt>>

\* reserve_slot, called the way a rideable does: load a cell, reserve, and
\* use the pointer if the cell still has it.
Reserve(t, c, j) ==
    /\ pc[t] = "idle"
    /\ Forget(t, {j})
    /\ rd' = [rd EXCEPT ![t] = [op |-> "reserve", idx |-> j, src |-> c,
                                ptr |-> cell[c], curr |-> 0, succ |-> NULL]]
    /\ Goto(t, "check")
    /\ UNCHANGED <<clientVars, epoch, allocs, slots, nodes, batches,
                   work, rt>>

\* The load of the global epoch: return, or call do_update.
CheckEpoch(t) ==
    LET j == rd[t].idx IN
    /\ pc[t] = "check"
    /\ IF epoch # slotEpoch[t][j]
       THEN /\ rd' = [rd EXCEPT ![t].curr = epoch]
            /\ Goto(t, "upd")
            /\ UNCHANGED given
       ELSE IF rd[t].op = "read"
       THEN /\ held' = [held EXCEPT ![t][j] = rd[t].ptr]
            /\ UNCHANGED resv
            /\ rd' = [rd EXCEPT ![t] = NoRead]
            /\ Goto(t, "idle")
       ELSE /\ Goto(t, "validate")
            /\ UNCHANGED <<given, rd>>
    /\ UNCHANGED <<clientVars, epoch, allocs, slots, nodes, batches,
                   work, rt>>

\* The rideable's second load of the cell after reserve_slot.
Validate(t) ==
    /\ pc[t] = "validate"
    /\ resv' = [resv EXCEPT ![t][rd[t].idx] =
                    IF cell[rd[t].src] = rd[t].ptr THEN rd[t].ptr ELSE NULL]
    /\ UNCHANGED held
    /\ rd' = [rd EXCEPT ![t] = NoRead]
    /\ Goto(t, "idle")
    /\ UNCHANGED <<clientVars, epoch, allocs, slots, nodes, batches,
                   work, rt>>

-----------------------------------------------------------------------------
\* traverse_cache: the cache of t is full and has to be freed first.
CacheNeverFull(t) == FALSE
CacheFull(t) == listCount[t] = MaxHRC

\* do_update: detach the list of the slot; traverse_cache frees the cached
\* batches when MAX_HRC lists have been walked.  (A list that is not empty
\* stays so until the owner detaches it: the test and the exchange are one.)
UpdDetach(t) ==
    LET j == rd[t].idx
        old == first[t][j]
        flush == old \in Objs /\ CacheFull(t)
    IN
    /\ pc[t] = "upd"
    /\ IF old = NULL
       THEN Goto(t, "upd_epoch") /\ UNCHANGED first
       ELSE /\ first' = [first EXCEPT ![t][j] = INVPTR]
            /\ Goto(t, IF old \in Objs THEN "trav" ELSE "upd_null")
    /\ work' = [work EXCEPT ![t] = IF old \in Objs THEN <<old>> ELSE <<>>]
    /\ FreeList(IF flush THEN list[t] ELSE {})
    /\ list' = [list EXCEPT ![t] = IF flush THEN {} ELSE @]
    /\ listCount' = [listCount EXCEPT ![t] =
                        IF flush THEN 1 ELSE IF old \in Objs THEN @ + 1 ELSE @]
    /\ UNCHANGED <<epoch, allocs, nodes, given, slotEpoch, batch,
                   minEpoch, rd, rt>>

\* do_update: the slot is active again, with an empty list.
UpdNull(t) ==
    /\ pc[t] = "upd_null"
    /\ first' = [first EXCEPT ![t][rd[t].idx] = NULL]
    /\ Goto(t, "upd_reload")
    /\ UNCHANGED <<clientVars, epoch, allocs, nodes, batches, given,
                   slotEpoch, rd, work, rt>>

\* do_update: the second getEpoch.
UpdReload(t) ==
    /\ pc[t] = "upd_reload"
    /\ rd' = [rd EXCEPT ![t].curr = epoch]
    /\ Goto(t, "upd_epoch")
    /\ UNCHANGED <<clientVars, epoch, allocs, slots, nodes, batches,
                   given, work, rt>>

\* do_update: publish the epoch of the slot and go round the caller's loop.
UpdEpoch(t) ==
    /\ pc[t] = "upd_epoch"
    /\ slotEpoch' = [slotEpoch EXCEPT ![t][rd[t].idx] = rd[t].curr]
    /\ Goto(t, IF rd[t].op = "read" THEN "load" ELSE "check")
    /\ UNCHANGED <<clientVars, epoch, allocs, nodes, batches, given,
                   first, rd, work, rt>>

\* traverse: fetch_sub takes the last reference of batch r.
LastReference(r) == refs[r] = 1

\* traverse: fetch_sub for the node.  The last reference queues the batch to
\* be freed.
DropReference(t) ==
    LET r == link[Head(work[t])] IN
    /\ refs' = [refs EXCEPT ![r] = @ - 1]
    /\ list' = [list EXCEPT ![t] = IF LastReference(r) THEN @ \union {r} ELSE @]

\* traverse goes on with node p, and with the other lists after it.
WalkOn(t, p) ==
    LET rest == IF p = NULL THEN Tail(work[t]) ELSE <<p>> \o Tail(work[t]) IN
    /\ work' = [work EXCEPT ![t] = rest]
    /\ Goto(t, IF rest # <<>> THEN "trav"
               ELSE IF rd[t].op = "clear" THEN "free" ELSE "upd_null")

\* traverse: load the successor of the node.
TravLoad(t) ==
    /\ pc[t] = "trav"
    /\ rd' = [rd EXCEPT ![t].succ = next[Head(work[t])]]
    /\ Goto(t, "drop")
    /\ UNCHANGED <<clientVars, epoch, allocs, slots, nodes, batches, given,
                   work, rt>>

\* traverse: drop the reference, and go on with the successor loaded before.
TravDrop(t) ==
    /\ pc[t] = "drop"
    /\ DropReference(t)
    /\ WalkOn(t, rd[t].succ)
    /\ rd' = [rd EXCEPT ![t].succ = NULL]
    /\ UNCHANGED <<clientVars, epoch, allocs, slots, given, next, link,
                   birth, batch, minEpoch, listCount, rt>>

\* traverse: one node.
LateSuccessor(t) ==
    /\ \/ pc[t] = "trav" /\ DropReference(t) /\ Goto(t, "drop") /\ UNCHANGED work
       \/ pc[t] = "drop" /\ WalkOn(t, next[Head(work[t])]) /\ UNCHANGED <<refs, list>>
    /\ UNCHANGED <<clientVars, epoch, allocs, slots, given, next, link,
                   birth, batch, minEpoch, listCount, rd, rt>>
Traverse(t) == TravLoad(t) \/ TravDrop(t)

\* clear_all: the call.
Clear(t) ==
    /\ pc[t] = "idle"
    /\ Forget(t, Idx)
    /\ rd' = [rd EXCEPT ![t] = [NoRead EXCEPT !.op = "clear"]]
    /\ Goto(t, "clear")
    /\ UNCHANGED <<clientVars, epoch, allocs, slots, nodes, batches,
                   work, rt>>

\* clear_all: detach the list of one slot.  The epoch of the slot stays.
ClearSlot(t) ==
    LET j == rd[t].idx
        old == first[t][j]
        todo == IF old \in Objs THEN Append(work[t], old) ELSE work[t]
    IN
    /\ pc[t] = "clear"
    /\ first' = [first EXCEPT ![t][j] = INVPTR]
    /\ work' = [work EXCEPT ![t] = todo]
    /\ IF j < HRNum
       THEN rd' = [rd EXCEPT ![t].idx = j + 1] /\ UNCHANGED pc
       ELSE Goto(t, IF todo = <<>> THEN "free" ELSE "trav") /\ UNCHANGED rd
    /\ UNCHANGED <<clientVars, epoch, allocs, nodes, batches, given,
                   slotEpoch, rt>>

\* clear_all: free the batches it brought to zero, and the cached ones.
ClearFree(t) ==
    /\ pc[t] = "free"
    /\ FreeList(list[t])
    /\ list' = [list EXCEPT ![t] = {}]
    /\ listCount' = [listCount EXCEPT ![t] = 0]
    /\ rd' = [rd EXCEPT ![t] = NoRead]
    /\ Goto(t, "idle")
    /\ UNCHANGED <<epoch, allocs, slots, nodes, given, batch, minEpoch,
                   work, rt>>

-----------------------------------------------------------------------------
\* retire: add the node to the front of the batch.  The counter shares its
\* word with batch_next: the first node of a batch resets it.
Retire(t) ==
    LET o == victim[t]
        empty == batch[t] = <<>>
        r == IF empty THEN o ELSE batch[t][Len(batch[t])]
    IN
    /\ pc[t] = "idle"
    /\ HandOver(t)
    /\ minEpoch' = [minEpoch EXCEPT ![t] =
                        IF empty \/ @ > birth[o] THEN birth[o] ELSE @]
    /\ link' = [link EXCEPT ![o] = r]
    /\ refs' = [refs EXCEPT ![o] = IF empty THEN 0 ELSE @]
    /\ batch' = [batch EXCEPT ![t] = <<o>> \o @]
    /\ Goto(t, IF (Len(batch[t]) + 1) % Freq = 0 THEN "scan" ELSE "idle")
    /\ UNCHANGED <<epoch, allocs, slots, given, next, birth, list,
                   listCount, rd, work, rt>>

\* The slots in the order of the two loops of try_retire.
After(p) == IF p[2] < HRNum THEN <<p[1], p[2] + 1>> ELSE <<p[1] + 1, 1>>
Scanned(t, asg) ==
    /\ rt' = [rt EXCEPT ![t].pos = After(rt[t].pos), ![t].asg = asg]
    /\ Goto(t, IF After(rt[t].pos) = EndPos THEN "insert" ELSE "scan")

\* A slot whose epoch is older than the whole batch protects nothing in it.
OlderOrSame(t, s) == slotEpoch[s[1]][s[2]] <= minEpoch[t]
NeverOlder(t, s) == FALSE
Older(t, s) == slotEpoch[s[1]][s[2]] < minEpoch[t]

\* try_retire, first loop: load the head of a slot, skip inactive slots.
ScanFirst(t) ==
    LET s == rt[t].pos IN
    /\ pc[t] = "scan"
    /\ IF first[s[1]][s[2]] = INVPTR
       THEN Scanned(t, rt[t].asg)
       ELSE Goto(t, "scan_epoch") /\ UNCHANGED rt
    /\ UNCHANGED <<clientVars, epoch, allocs, slots, nodes, batches,
                   given, rd, work>>

\* try_retire, first loop: load the epoch of the slot, assign a node to it.
\* When only the last node is left the batch is too small for now.
ScanEpoch(t) ==
    LET s == rt[t].pos
        k == Len(rt[t].asg) + 1
    IN
    /\ pc[t] = "scan_epoch"
    /\ IF Older(t, s)
       THEN Scanned(t, rt[t].asg)
       ELSE IF k = Len(batch[t])
       THEN rt' = [rt EXCEPT ![t] = NoRetire] /\ Goto(t, "idle")
       ELSE Scanned(t, Append(rt[t].asg, <<batch[t][k], s>>))
    /\ UNCHANGED <<clientVars, epoch, allocs, slots, nodes, batches,
                   given, rd, work>>

-----------------------------------------------------------------------------
\* What try_retire does with the head p of the current slot: a slot that
\* became inactive is skipped.
ExpectCounted(t, p) ==
    IF p = INVPTR
    THEN /\ rt' = [rt EXCEPT ![t].asg = Tail(@), ![t].adjs = @ + 1]
         /\ Goto(t, "insert")
    ELSE /\ rt' = [rt EXCEPT ![t].prev = p]
         /\ Goto(t, "ins_epoch")
Expect(t, p) ==
    IF p = INVPTR
    THEN /\ rt' = [rt EXCEPT ![t].asg = Tail(@)]
         /\ Goto(t, "insert")
    ELSE /\ rt' = [rt EXCEPT ![t].prev = p]
         /\ Goto(t, "ins_epoch")

\* try_retire, second loop: load the head of the slot.
InsertLoad(t) ==
    /\ pc[t] = "insert" /\ rt[t].asg # <<>>
    /\ LET s == Head(rt[t].asg)[2] IN Expect(t, first[s[1]][s[2]])
    /\ UNCHANGED <<clientVars, epoch, allocs, slots, nodes, batches,
                   given, rd, work>>

\* try_retire, second loop: check the epoch again, link the node.
InsertEpoch(t) ==
    LET n == Head(rt[t].asg)[1]
        s == Head(rt[t].asg)[2]
    IN
    /\ pc[t] = "ins_epoch"
    /\ IF Older(t, s)
       THEN /\ rt' = [rt EXCEPT ![t].asg = Tail(@)]
            /\ Goto(t, "insert")
            /\ UNCHANGED next
       ELSE /\ next' = [next EXCEPT ![n] = rt[t].prev]
            /\ Goto(t, "ins_cas")
            /\ UNCHANGED rt
    /\ UNCHANGED <<clientVars, epoch, allocs, slots, batches, given,
                   refs, link, birth, rd, work>>

\* try_retire, second loop: push the node, or start over with the new head.
InsertCas(t) ==
    LET n == Head(rt[t].asg)[1]
        s == Head(rt[t].asg)[2]
        p == first[s[1]][s[2]]
    IN
    /\ pc[t] = "ins_cas"
    /\ IF p = rt[t].prev
       THEN /\ first' = [first EXCEPT ![s[1]][s[2]] = n]
            /\ rt' = [rt EXCEPT ![t].asg = Tail(@), ![t].adjs = @ + 1]
            /\ Goto(t, "insert")
       ELSE Expect(t, p) /\ UNCHANGED first
    /\ UNCHANGED <<clientVars, epoch, allocs, nodes, batches, given,
                   slotEpoch, rd, work>>

\* try_retire: fetch_add finds that all n inserted nodes were released.
NeverReleased(r, n) == FALSE
AllReleased(r, n) == refs[r] = -n

\* try_retire: account for the inserted nodes, free the batch if every one
\* of them was already released, and start a new batch.
Adjust(t) ==
    LET r == batch[t][Len(batch[t])]
        n == rt[t].adjs
    IN
    /\ pc[t] = "insert" /\ rt[t].asg = <<>>
    /\ refs' = [refs EXCEPT ![r] = @ + n]
    /\ FreeList(IF AllReleased(r, n) THEN {r} ELSE {})
    /\ batch' = [batch EXCEPT ![t] = <<>>]
    /\ rt' = [rt EXCEPT ![t] = NoRetire]
    /\ Goto(t, "idle")
    /\ UNCHANGED <<epoch, allocs, slots, given, next, link, birth,
                   minEpoch, list, listCount, rd, work>>

-----------------------------------------------------------------------------
\* What a thread does inside a call of the tracker.
Step(t) ==
    \/ AllocBirth(t)
    \/ ReadLoad(t) \/ CheckEpoch(t) \/ Validate(t)
    \/ UpdDetach(t) \/ UpdNull(t) \/ UpdReload(t) \/ UpdEpoch(t)
    \/ Traverse(t) \/ ClearSlot(t) \/ ClearFree(t)
    \/ ScanFirst(t) \/ ScanEpoch(t)
    \/ InsertLoad(t) \/ InsertEpoch(t) \/ InsertCas(t) \/ Adjust(t)

\* What a rideable does between calls: one step of its own, or a call.
Call(t) ==
    \/ Clear(t)
    \/ t \in Readers /\ \E c \in Cells, j \in Idx : Read(t, c, j)
    \/ t \in Reservers /\ \E c \in Cells, j \in Idx : Reserve(t, c, j)
    \/ t \in Updaters /\ AllocCount(t)
    \/ t \in Updaters /\ Rideable(t)
    \/ t \in Updaters /\ Retire(t)

Next == \E t \in Tasks : Step(t) \/ Call(t)

Spec == Init /\ [][Next]_vars

\* The scheduler runs every thread; an operation of a rideable reads finitely
\* often and ends with clear_all.
Fairness == \A t \in Tasks : WF_vars(Step(t)) /\ SF_vars(Clear(t))

FairSpec == Spec /\ Fairness

-----------------------------------------------------------------------------
\* The nodes reachable from the heads H: the least set that has those of H and
\* with a node its successor.
ClosedUnder(f, H, S) ==
    H \intersect Objs \subseteq S /\ \A n \in S : f[n] \in S \union {NULL}
Reach(f, H) ==
    {n \in Objs : \A S \in SUBSET Objs : ClosedUnder(f, H, S) => n \in S}

\* The list of one slot, and the nodes in all slots and detached lists.
Chain(s) == Reach(next, {first[s[1]][s[2]]})
Walks(t) == {work[t][k] : k \in 1 .. Len(work[t])}
Heads == {first[s[1]][s[2]] : s \in SlotIds} \union UNION {Walks(t) : t \in Tasks}
InFlight == Reach(next, Heads)

\* r is the last node of a retired batch; Building if a thread still fills it.
IsBatch(r) == status[r] = "retired" /\ link[r] = r
Building(t, r) == batch[t] # <<>> /\ batch[t][Len(batch[t])] = r

\* A reference that read returned while the slot was active
\* is protected by the slot: retire, try_retire and free_list of any other
\* thread, at any point of their loops, never give the node back.
SlotProtects ==
    \A t \in Tasks, j \in Idx :
        first[t][j] # INVPTR /\ held[t][j] # NULL => status[held[t][j]] # "free"

\* What a rideable expects of read: whatever it returns stays allocated until
\* the thread clears or reuses the slot.
HeldNeverFreed ==
    \A t \in Tasks, j \in Idx : held[t][j] # NULL => status[held[t][j]] # "free"

\* What a rideable expects of reserve_slot: a pointer that is still in its
\* cell after the slot was reserved (and is active) cannot be freed.  The loop
\* is that of HETracker, and no run checks it for the same reason.
ReservedNeverFreed ==
    \A t \in Tasks, j \in Idx :
        first[t][j] # INVPTR /\ resv[t][j] # NULL => status[resv[t][j]] # "free"

\* The reference counter of a batch is the number of its nodes in slots and
\* in detached lists, less the adjustment its retirer has not yet made: the
\* counter may pass through values below zero and still be exact.
RefsExact ==
    \A r \in Objs : IsBatch(r) =>
        refs[r] = Cardinality({n \in InFlight : link[n] = r})
                  - (IF \E t \in Tasks : Building(t, r)
                     THEN rt[CHOOSE t \in Tasks : Building(t, r)].adjs ELSE 0)

\* No traversal, by any thread, meets a node that was freed.
WalkSafe == \A n \in InFlight : status[n] = "retired"

\* A batch that was handed over is queued to be freed by exactly one thread
\* once its last node was released, and by none before: it is neither freed
\* twice nor forgotten.
FreedOnce ==
    \A r \in Objs :
        IsBatch(r) /\ (\A t \in Tasks : ~Building(t, r)) =>
            Cardinality({t \in Tasks : r \in list[t]}) =
                (IF refs[r] = 0 THEN 1 ELSE 0)

\* A thread that stalls in a slot keeps only batches that have a node as old
\* as the epoch of the slot.
StallBounded ==
    \A t \in Tasks, j \in Idx : \A n \in Chain(<<t, j>>) :
        \E m \in Members({link[n]}) : birth[m] <= slotEpoch[t][j]

\* Every node of a batch that left its retirer is given back to the allocator.
HandedOver(o) ==
    /\ status[o] = "retired"
    /\ \A t \in Tasks : ~Building(t, link[o])
Reclaimed == \A o \in Objs : HandedOver(o) ~> (status[o] = "free")

\* The references that an active slot protects, as the abstract guards.
guards ==
    [t \in Tasks |-> {held[t][j] : j \in {i \in Idx : first[t][i] # INVPTR}}
                         \ {NULL}]
Promise == INSTANCE Reclamation WITH Threads <- Tasks, status <- Life
Refines == Promise!Spec

=============================================================================
