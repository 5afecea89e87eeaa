----------------------------- MODULE HETracker -----------------------------
(***************************************************************************)
(* Hazard eras (benchmark/src/trackers/HETracker.hpp).  A block carries    *)
(* the epochs of its birth and of its retirement; a slot holds the epoch   *)
(* at which its thread last read through it, 0 when it protects nothing.   *)
(* empty() copies all slots and frees the blocks of its thread whose life  *)
(* has no epoch of a slot in it.  Every access to a shared atomic is one   *)
(* step; accesses are sequentially consistent.                             *)
(***************************************************************************)
EXTENDS RetireList

CONSTANTS
    HENum,      \* he_num: slots of a thread
    EpochFreq,  \* epochFreq * task_num: allocations of a thread per epoch
    Freq,       \* freq (emptyFreq): retirements between two calls of empty
    MaxEpoch,   \* bound: the epoch is not advanced beyond it
    Readers,    \* the threads that call read
    Reservers,  \* the threads that call reserve_slot
    Updaters    \* the threads that allocate, link, unlink and retire

Idx == 1 .. HENum

ASSUME ParamAssumption ==
    /\ HENum \in Nat \ {0}
    /\ EpochFreq \in Nat \ {0}
    /\ Freq \in Nat \ {0}
    /\ MaxEpoch \in Nat \ {0}

VARIABLES
    epoch,          \* global epoch
    reservations,   \* reservations[t][j]: reservations[t].entry[j]
    birth,          \* birth[o]: birth_epoch
    retireEpoch,    \* retireEpoch[o]: retire_epoch
    allocs,         \* alloc_counters[t], modulo EpochFreq
    retires,        \* retire_counters[t], modulo Freq
    local,          \* local[t][u][j]: t's copy of reservations[u][j]
    held,           \* held[t][j]: the reference read returned through slot j
    resv,           \* resv[t][j]: the reference reserved and validated in j
    pc,             \* the next step
    op, idx,        \* the call: "read", "reserve"; its slot
    src, ptr, curr, \* the cell read, the pointer and the epoch loaded
    pos             \* the slot copied next by empty, or cleared by clear_all

blocks == <<birth, retireEpoch>>
garbage == <<retires, retired, local>>
given == <<held, resv>>
frame == <<op, idx, src, ptr, curr>>
vars == <<clientVars, epoch, reservations, blocks, allocs, garbage, given, pc,
          frame, pos>>

Epochs == 0 .. MaxEpoch
SlotIds == Tasks \X Idx
FirstPos == <<1, 1>>
EndPos == <<TaskNum + 1, 1>>

\* The slots in the order of the two loops of empty; with <= they run over.
AfterOver(p) == IF p[2] <= HENum THEN <<p[1], p[2] + 1>> ELSE <<p[1] + 1, 1>>
After(p) == IF p[2] < HENum THEN <<p[1], p[2] + 1>> ELSE <<p[1] + 1, 1>>

PC == {"idle", "birth", "load", "check", "store", "validate", "clear",
       "copy", "sweep"}

TypeOK ==
    /\ ListTypeOK
    /\ epoch \in Epochs
    /\ reservations \in [Tasks -> [Idx -> Epochs]]
    /\ birth \in [Objs -> Epochs]
    /\ retireEpoch \in [Objs -> Epochs]
    /\ allocs \in [Tasks -> 0 .. EpochFreq - 1]
    /\ retires \in [Tasks -> 0 .. Freq - 1]
    /\ local \in [Tasks -> [Tasks -> [Idx -> Epochs]]]
    /\ held \in [Tasks -> [Idx -> Ptrs]]
    /\ resv \in [Tasks -> [Idx -> Ptrs]]
    /\ pc \in [Tasks -> PC]
    /\ op \in [Tasks -> {"none", "read", "reserve"}]
    /\ idx \in [Tasks -> Idx]
    /\ src \in [Tasks -> Cells \union {NULL}]
    /\ ptr \in [Tasks -> Ptrs]
    /\ curr \in [Tasks -> Epochs]
    /\ pos \in [Tasks -> SlotIds \union {EndPos}]

Init ==
    /\ ListInit
    /\ epoch = 1
    /\ reservations = [t \in Tasks |-> [j \in Idx |-> 0]]
    /\ birth = [o \in Objs |-> 0]
    /\ retireEpoch = [o \in Objs |-> 0]
    /\ allocs = [t \in Tasks |-> 0]
    /\ retires = [t \in Tasks |-> 0]
    /\ local = [t \in Tasks |-> [u \in Tasks |-> [j \in Idx |-> 0]]]
    /\ held = [t \in Tasks |-> [j \in Idx |-> NULL]]
    /\ resv = [t \in Tasks |-> [j \in Idx |-> NULL]]
    /\ pc = [t \in Tasks |-> "idle"]
    /\ op = [t \in Tasks |-> "none"]
    /\ idx = [t \in Tasks |-> 1]
    /\ src = [t \in Tasks |-> NULL]
    /\ ptr = [t \in Tasks |-> NULL]
    /\ curr = [t \in Tasks |-> 0]
    /\ pos = [t \in Tasks |-> FirstPos]

Goto(t, l) == pc' = [pc EXCEPT ![t] = l]

-----------------------------------------------------------------------------
\* alloc, to the fetch_add: the counter, the epoch, the block.
AllocCount(t) ==
    /\ pc[t] = "idle"
    /\ allocs' = [allocs EXCEPT ![t] = (@ + 1) % EpochFreq]
    /\ \/ allocs'[t] = 0 /\ epoch < MaxEpoch /\ epoch' = epoch + 1
       \/ allocs'[t] # 0 /\ epoch' = epoch
    /\ \E o \in Objs : Malloc(t, o)
    /\ Goto(t, "birth")
    /\ UNCHANGED <<reservations, blocks, garbage, given, frame, pos>>

\* alloc, from getEpoch on.
AllocBirth(t) ==
    /\ pc[t] = "birth"
    /\ birth' = [birth EXCEPT ![mine[t]] = epoch]
    /\ Goto(t, "idle")
    /\ UNCHANGED <<clientVars, epoch, reservations, retireEpoch, allocs,
                   garbage, given, frame, pos>>

\* A step of the rideable that does not involve the tracker.
Rideable(t) ==
    /\ pc[t] = "idle"
    /\ Discard(t) \/ \E c \in Cells : Link(t, c) \/ Unlink(t, c)
    /\ UNCHANGED <<epoch, reservations, blocks, allocs, garbage, given, pc,
                   frame, pos>>

-----------------------------------------------------------------------------
\* read and reserve_slot: the call, with the load of the cell.  (For
\* reserve_slot the rideable loads the cell itself just before.)  The caller
\* gives up the reference it last got through slot j.  prev_epoch is always
\* what the thread's own slot holds, so it has no copy here.
Begin(t, o, c, j) ==
    /\ pc[t] = "idle"
    /\ held' = [held EXCEPT ![t][j] = NULL]
    /\ resv' = [resv EXCEPT ![t][j] = NULL]
    /\ op' = [op EXCEPT ![t] = o]
    /\ idx' = [idx EXCEPT ![t] = j]
    /\ src' = [src EXCEPT ![t] = c]
    /\ ptr' = [ptr EXCEPT ![t] = cell[c]]
    /\ Goto(t, "check")
    /\ UNCHANGED <<clientVars, epoch, reservations, blocks, allocs, garbage,
                   curr, pos>>

Read(t, c, j) == Begin(t, "read", c, j)
Reserve(t, c, j) == Begin(t, "reserve", c, j)

\* read: the load of obj in a later iteration.
ReadLoad(t) ==
    /\ pc[t] = "load"
    /\ ptr' = [ptr EXCEPT ![t] = cell[src[t]]]
    /\ Goto(t, "check")
    /\ UNCHANGED <<clientVars, epoch, reservations, blocks, allocs, garbage,
                   given, op, idx, src, curr, pos>>

\* The call is over; its locals are gone.
Return(t) ==
    /\ op' = [op EXCEPT ![t] = "none"]
    /\ idx' = [idx EXCEPT ![t] = 1]
    /\ src' = [src EXCEPT ![t] = NULL]
    /\ ptr' = [ptr EXCEPT ![t] = NULL]
    /\ curr' = [curr EXCEPT ![t] = 0]
    /\ Goto(t, "idle")

\* read and reserve_slot: the load of the epoch finds it unchanged.
CheckSame(t) ==
    /\ pc[t] = "check"
    /\ epoch = reservations[t][idx[t]]
    /\ \/ /\ op[t] = "read"
          /\ held' = [held EXCEPT ![t][idx[t]] = ptr[t]]
          /\ Return(t)
       \/ /\ op[t] = "reserve"
          /\ Goto(t, "validate")
          /\ UNCHANGED <<held, frame>>
    /\ UNCHANGED <<clientVars, epoch, reservations, blocks, allocs, garbage,
                   resv, pos>>

\* read and reserve_slot: the load of the epoch finds a new one.
CheckNew(t) ==
    /\ pc[t] = "check"
    /\ epoch # reservations[t][idx[t]]
    /\ curr' = [curr EXCEPT ![t] = epoch]
    /\ Goto(t, "store")
    /\ UNCHANGED <<clientVars, epoch, reservations, blocks, allocs, garbage,
                   given, op, idx, src, ptr, pos>>

\* read and reserve_slot: publish the epoch loaded, go round the loop.
StoreEpoch(t) ==
    /\ pc[t] = "store"
    /\ reservations' = [reservations EXCEPT ![t][idx[t]] = curr[t]]
    /\ Goto(t, IF op[t] = "read" THEN "load" ELSE "check")
    /\ UNCHANGED <<clientVars, epoch, blocks, allocs, garbage, given, frame,
                   pos>>

\* The rideable's second load of the cell, after reserve_slot.
Validate(t) ==
    /\ pc[t] = "validate"
    /\ resv' = [resv EXCEPT ![t][idx[t]] =
                    IF cell[src[t]] = ptr[t] THEN ptr[t] ELSE NULL]
    /\ Return(t)
    /\ UNCHANGED <<clientVars, epoch, reservations, blocks, allocs, garbage,
                   held, pos>>

-----------------------------------------------------------------------------
\* clear_all: the call.
Clear(t) ==
    /\ pc[t] = "idle"
    /\ held' = [held EXCEPT ![t] = [j \in Idx |-> NULL]]
    /\ resv' = [resv EXCEPT ![t] = [j \in Idx |-> NULL]]
    /\ Goto(t, "clear")
    /\ UNCHANGED <<clientVars, epoch, reservations, blocks, allocs, garbage,
                   frame, pos>>

\* clear_all: one slot.
ClearSlot(t) ==
    /\ pc[t] = "clear"
    /\ reservations' = [reservations EXCEPT ![t][idx[t]] = 0]
    /\ \/ /\ idx[t] < HENum
          /\ idx' = [idx EXCEPT ![t] = @ + 1]
          /\ UNCHANGED pc
       \/ /\ idx[t] = HENum
          /\ idx' = [idx EXCEPT ![t] = 1]
          /\ Goto(t, "idle")
    /\ UNCHANGED <<clientVars, epoch, blocks, allocs, garbage, given, op, src,
                   ptr, curr, pos>>

-----------------------------------------------------------------------------
\* retire: stamp the block, put it on the list, call empty every Freq calls.
Retire(t) ==
    /\ pc[t] = "idle"
    /\ Push(t)
    /\ retireEpoch' = [retireEpoch EXCEPT ![victim[t]] = epoch]
    /\ retires' = [retires EXCEPT ![t] = (@ + 1) % Freq]
    /\ \/ retires[t] = 0 /\ Goto(t, "copy")
       \/ retires[t] # 0 /\ UNCHANGED pc
    /\ UNCHANGED <<epoch, reservations, birth, allocs, local, given, frame,
                   pos>>

\* empty: copy one slot.
CopySlot(t) ==
    LET s == pos[t] IN
    /\ pc[t] = "copy"
    /\ local' = [local EXCEPT ![t][s[1]][s[2]] = reservations[s[1]][s[2]]]
    /\ \/ /\ After(s) = EndPos
          /\ pos' = [pos EXCEPT ![t] = FirstPos]
          /\ Goto(t, "sweep")
       \/ /\ After(s) # EndPos
          /\ pos' = [pos EXCEPT ![t] = After(s)]
          /\ UNCHANGED pc
    /\ UNCHANGED <<clientVars, epoch, reservations, blocks, allocs, retires,
                   retired, given, frame>>

\* can_delete with the retirement epoch taken as past the life of the block.
CanDeleteEarly(t, o) ==
    \A u \in Tasks, j \in Idx :
        LET epo == local[t][u][j]
        IN  epo < birth[o] \/ epo >= retireEpoch[o] \/ epo = 0

\* can_delete: no slot holds an epoch of the life of o; 0 is no epoch.
CanDelete(t, o) ==
    \A u \in Tasks, j \in Idx :
        LET epo == local[t][u][j]
        IN  epo < birth[o] \/ epo > retireEpoch[o] \/ epo = 0

\* empty: free what can be deleted, keep the rest.  The copy of the slots is
\* not used again.
Sweep(t) ==
    LET dead == {o \in retired[t] : CanDelete(t, o)} IN
    /\ pc[t] = "sweep"
    /\ Reclaim(t, dead)
    /\ local' = [local EXCEPT ![t] = [u \in Tasks |-> [j \in Idx |-> 0]]]
    /\ Goto(t, "idle")
    /\ UNCHANGED <<epoch, reservations, blocks, allocs, retires, given, frame,
                   pos>>

-----------------------------------------------------------------------------
\* What a thread does inside a call of the tracker.
Step(t) ==
    \/ AllocBirth(t)
    \/ ReadLoad(t) \/ CheckSame(t) \/ CheckNew(t) \/ StoreEpoch(t)
    \/ Validate(t) \/ ClearSlot(t) \/ CopySlot(t) \/ Sweep(t)

\* What a rideable does between calls: one step of its own, or a call.
Call(t) ==
    \/ Clear(t)
    \/ t \in Readers /\ \E c \in Cells, j \in Idx : Read(t, c, j)
    \/ t \in Reservers /\ \E c \in Cells, j \in Idx : Reserve(t, c, j)
    \/ t \in Updaters /\ (AllocCount(t) \/ Rideable(t) \/ Retire(t))

Next == \E t \in Tasks : Step(t) \/ Call(t)

Spec == Init /\ [][Next]_vars
-----------------------------------------------------------------------------
\* A reference that read returned stays allocated until its thread reuses the
\* slot or clears it, whatever alloc, retire and empty do meanwhile in the
\* other threads, whose copies of the slots may be older than the reference.
HeldNeverFreed ==
    \A t \in Tasks, j \in Idx : held[t][j] # NULL => status[held[t][j]] # "free"

\* What a rideable expects of reserve_slot: a pointer that is still in its
\* cell after the slot was reserved cannot be freed.  The tracker does not
\* keep this (the block may have been freed, allocated again with a later
\* birth epoch and linked in the same cell): no run checks it.
ReservedNeverFreed ==
    \A t \in Tasks, j \in Idx : resv[t][j] # NULL => status[resv[t][j]] # "free"

\* The references that read returned, as the abstract guards.
guards == [t \in Tasks |-> {held[t][j] : j \in Idx} \ {NULL}]
Promise == INSTANCE Reclamation WITH Threads <- Tasks, status <- Life
Refines == Promise!Spec

=============================================================================
