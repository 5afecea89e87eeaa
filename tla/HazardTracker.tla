--------------------------- MODULE HazardTracker ---------------------------
(***************************************************************************)
(* Hazard pointers (benchmark/src/trackers/HazardTracker.hpp).  A thread   *)
(* stores the pointer it has loaded in a slot and loads the cell again: if *)
(* the pointer is still there, the slot protects it.  empty() copies all   *)
(* slots and frees the blocks of its thread that are in none of them.      *)
(* Every access to a shared atomic is one step; accesses are sequentially  *)
(* consistent.                                                             *)
(***************************************************************************)
EXTENDS RetireList, FiniteSets

CONSTANTS
    HPNum,      \* slotsPerThread
    Freq,       \* freq (emptyFreq): retirements between two calls of empty
    Readers,    \* the threads that call read
    Reservers,  \* the threads that call reserve_slot
    Updaters    \* the threads that allocate, link, unlink and retire

Idx == 1 .. HPNum

ASSUME ParamAssumption ==
    /\ HPNum \in Nat \ {0}
    /\ Freq \in Nat \ {0}

\* Someone uses slots.
ASSUME ReaderAssumption ==
    /\ Readers \union Reservers \subseteq Tasks
    /\ Readers \union Reservers # {}

VARIABLES
    slots,      \* slots[t][j]: slots[t].entry[j]
    local,      \* local[t][u][j]: t's copy of slots[u][j]
    cntrs,      \* cntrs[t]: retirements since the last empty
    held,       \* held[t][j]: the reference protected through slot j
    pc,         \* the next step
    op, idx,    \* the call: "read", "reserve"; its slot
    src, ptr,   \* the cell and the pointer loaded from it
    pos         \* the slot copied next by empty

garbage == <<retired, local, cntrs>>
frame == <<op, idx, src, ptr>>
vars == <<clientVars, slots, garbage, held, pc, frame, pos>>

SlotIds == Tasks \X Idx
FirstPos == <<1, 1>>
EndPos == <<TaskNum + 1, 1>>

\* The slots in the order of the two loops of empty; with <= they run over.
AfterOver(p) == IF p[2] <= HPNum THEN <<p[1], p[2] + 1>> ELSE <<p[1] + 1, 1>>
After(p) == IF p[2] < HPNum THEN <<p[1], p[2] + 1>> ELSE <<p[1] + 1, 1>>

PC == {"idle", "load", "store", "recheck", "clear", "copy", "sweep"}

TypeOK ==
    /\ ListTypeOK
    /\ slots \in [Tasks -> [Idx -> Ptrs]]
    /\ local \in [Tasks -> [Tasks -> [Idx -> Ptrs]]]
    /\ cntrs \in [Tasks -> 0 .. Freq]
    /\ held \in [Tasks -> [Idx -> Ptrs]]
    /\ pc \in [Tasks -> PC]
    /\ op \in [Tasks -> {"none", "read", "reserve"}]
    /\ idx \in [Tasks -> Idx]
    /\ src \in [Tasks -> Cells \union {NULL}]
    /\ ptr \in [Tasks -> Ptrs]
    /\ pos \in [Tasks -> SlotIds \union {EndPos}]

NoSlots == [j \in Idx |-> NULL]

Init ==
    /\ ListInit
    /\ slots = [t \in Tasks |-> NoSlots]
    /\ local = [t \in Tasks |-> [u \in Tasks |-> NoSlots]]
    /\ cntrs = [t \in Tasks |-> 0]
    /\ held = [t \in Tasks |-> NoSlots]
    /\ pc = [t \in Tasks |-> "idle"]
    /\ op = [t \in Tasks |-> "none"]
    /\ idx = [t \in Tasks |-> 1]
    /\ src = [t \in Tasks |-> NULL]
    /\ ptr = [t \in Tasks |-> NULL]
    /\ pos = [t \in Tasks |-> FirstPos]

Goto(t, l) == pc' = [pc EXCEPT ![t] = l]

-----------------------------------------------------------------------------
\* A step of the rideable that the tracker takes no part in; alloc is malloc.
Rideable(t) ==
    /\ pc[t] = "idle"
    /\ \/ \E o \in Objs : Malloc(t, o)
       \/ Discard(t)
       \/ \E c \in Cells : Link(t, c) \/ Unlink(t, c)
    /\ UNCHANGED <<slots, garbage, held, pc, frame, pos>>

\* read and reserve_slot: the call, with the load of the cell.  (For
\* reserve_slot the rideable loads the cell itself just before.)  The caller
\* gives up the reference it last got through slot j.
Begin(t, o, c, j) ==
    /\ pc[t] = "idle"
    /\ held' = [held EXCEPT ![t][j] = NULL]
    /\ op' = [op EXCEPT ![t] = o]
    /\ idx' = [idx EXCEPT ![t] = j]
    /\ src' = [src EXCEPT ![t] = c]
    /\ ptr' = [ptr EXCEPT ![t] = cell[c]]
    /\ Goto(t, "store")
    /\ UNCHANGED <<clientVars, slots, garbage, pos>>

Read(t, c, j) == Begin(t, "read", c, j)
Reserve(t, c, j) == Begin(t, "reserve", c, j)

\* read: the load of obj in a later iteration.
ReadLoad(t) ==
    /\ pc[t] = "load"
    /\ ptr' = [ptr EXCEPT ![t] = cell[src[t]]]
    /\ Goto(t, "store")
    /\ UNCHANGED <<clientVars, slots, garbage, held, op, idx, src, pos>>

\* reserve_slot: the store of the pointer in the slot.
StoreSlot(t) ==
    /\ pc[t] = "store"
    /\ slots' = [slots EXCEPT ![t][idx[t]] = ptr[t]]
    /\ Goto(t, "recheck")
    /\ UNCHANGED <<clientVars, garbage, held, frame, pos>>

\* The call is over; its locals are gone.
Return(t) ==
    /\ op' = [op EXCEPT ![t] = "none"]
    /\ idx' = [idx EXCEPT ![t] = 1]
    /\ src' = [src EXCEPT ![t] = NULL]
    /\ ptr' = [ptr EXCEPT ![t] = NULL]
    /\ Goto(t, "idle")

\* The second load of the cell finds the pointer: the reference is safe.
\* (read does this load itself, after reserve_slot the rideable does it.)
RecheckSame(t) ==
    /\ pc[t] = "recheck"
    /\ cell[src[t]] = ptr[t]
    /\ held' = [held EXCEPT ![t][idx[t]] = ptr[t]]
    /\ Return(t)
    /\ UNCHANGED <<clientVars, slots, garbage, pos>>

\* The second load finds something else: read tries again, a rideable that
\* called reserve_slot starts over.
RecheckChanged(t) ==
    /\ pc[t] = "recheck"
    /\ cell[src[t]] # ptr[t]
    /\ \/ op[t] = "read" /\ Goto(t, "load") /\ UNCHANGED frame
       \/ op[t] = "reserve" /\ Return(t)
    /\ UNCHANGED <<clientVars, slots, garbage, held, pos>>

-----------------------------------------------------------------------------
\* clear_all: the call.
Clear(t) ==
    /\ pc[t] = "idle"
    /\ held' = [held EXCEPT ![t] = NoSlots]
    /\ Goto(t, "clear")
    /\ UNCHANGED <<clientVars, slots, garbage, frame, pos>>

\* clearAll: one slot.
ClearSlot(t) ==
    /\ pc[t] = "clear"
    /\ slots' = [slots EXCEPT ![t][idx[t]] = NULL]
    /\ \/ /\ idx[t] < HPNum
          /\ idx' = [idx EXCEPT ![t] = @ + 1]
          /\ UNCHANGED pc
       \/ /\ idx[t] = HPNum
          /\ idx' = [idx EXCEPT ![t] = 1]
          /\ Goto(t, "idle")
    /\ UNCHANGED <<clientVars, garbage, held, op, src, ptr, pos>>

-----------------------------------------------------------------------------
\* retire: put the block on the list; empty runs when the counter is at freq,
\* and the counter goes on from there.
Retire(t) ==
    /\ pc[t] = "idle"
    /\ Push(t)
    /\ \/ /\ cntrs[t] = Freq
          /\ cntrs' = [cntrs EXCEPT ![t] = 1]
          /\ Goto(t, "copy")
       \/ /\ cntrs[t] # Freq
          /\ cntrs' = [cntrs EXCEPT ![t] = @ + 1]
          /\ UNCHANGED pc
    /\ UNCHANGED <<slots, local, held, frame, pos>>

\* empty: copy one slot.
CopySlot(t) ==
    LET s == pos[t] IN
    /\ pc[t] = "copy"
    /\ local' = [local EXCEPT ![t][s[1]][s[2]] = slots[s[1]][s[2]]]
    /\ \/ /\ After(s) = EndPos
          /\ pos' = [pos EXCEPT ![t] = FirstPos]
          /\ Goto(t, "sweep")
       \/ /\ After(s) # EndPos
          /\ pos' = [pos EXCEPT ![t] = After(s)]
          /\ UNCHANGED pc
    /\ UNCHANGED <<clientVars, slots, retired, cntrs, held, frame>>

\* empty: a block is in danger while some slot has it.  Two plausible slips: to
\* look at the slots of the thread itself only, not to reset the danger flag.
OwnDanger(t, o) == \E j \in Idx : local[t][t][j] = o
StickyDanger(t, o) ==
    \E u \in Tasks, j \in Idx : local[t][u][j] \in retired[t]
Danger(t, o) == \E u \in Tasks, j \in Idx : local[t][u][j] = o

\* empty: free what is not in danger, keep the rest.  The copy of the slots is
\* not used again.
Sweep(t) ==
    LET dead == {o \in retired[t] : ~Danger(t, o)} IN
    /\ pc[t] = "sweep"
    /\ Reclaim(t, dead)
    /\ local' = [local EXCEPT ![t] = [u \in Tasks |-> NoSlots]]
    /\ Goto(t, "idle")
    /\ UNCHANGED <<slots, cntrs, held, frame, pos>>

-----------------------------------------------------------------------------
\* What a thread does inside a call of the tracker.
Step(t) ==
    \/ ReadLoad(t) \/ StoreSlot(t) \/ RecheckSame(t) \/ RecheckChanged(t)
    \/ ClearSlot(t) \/ CopySlot(t) \/ Sweep(t)

\* What a rideable does between calls: one step of its own, or a call.
Call(t) ==
    \/ Clear(t)
    \/ t \in Readers /\ \E c \in Cells, j \in Idx : Read(t, c, j)
    \/ t \in Reservers /\ \E c \in Cells, j \in Idx : Reserve(t, c, j)
    \/ t \in Updaters /\ (Rideable(t) \/ Retire(t))

Next == \E t \in Tasks : Step(t) \/ Call(t)

Spec == Init /\ [][Next]_vars

-----------------------------------------------------------------------------
\* A reference that read or a validated reserve_slot gave stays allocated
\* until its thread reuses the slot or clears it, even when the block was
\* freed, allocated again and linked again between the two loads of the cell.
HeldNeverFreed ==
    \A t \in Tasks, j \in Idx : held[t][j] # NULL => status[held[t][j]] # "free"

\* However long threads stall with their slots set, a list never grows beyond
\* one block per slot in use and the blocks retired since the last empty.
SlotsInUse == Cardinality(Readers \union Reservers) * HPNum
GarbageBounded == \A t \in Tasks : Cardinality(retired[t]) <= SlotsInUse + Freq

\* The references that read returned, as the abstract guards.
guards == [t \in Tasks |-> {held[t][j] : j \in Idx} \ {NULL}]
Promise == INSTANCE Reclamation WITH Threads <- Tasks, status <- Life
Refines == Promise!Spec

=============================================================================
