------------------------------ MODULE HEProofs ------------------------------
(***************************************************************************)
(* Hazard eras never free a block under a reference that read returned,    *)
(* for any number of threads, slots, blocks, cells and epochs.             *)
(***************************************************************************)
EXTENDS HETracker, TLAPS

-----------------------------------------------------------------------------
\* Every block is in one place: in a cell, with a thread, or on one list.
ListInv == ListTypeOK /\ Placed /\ RetiredOnce

\* The steps of a rideable between the calls of the tracker.
ClientStep(t) ==
    \/ \E o \in Objs : Malloc(t, o)
    \/ Discard(t)
    \/ \E c \in Cells : Link(t, c) \/ Unlink(t, c)

\* At the start every block is with the allocator.
LEMMA ListInitInv == ListInit => ListInv
BY ClientAssumption
   DEF ListInit, ListInv, ListTypeOK, RetiredOnce, ClientInit, ClientTypeOK, Placed, Ptrs, Status

\* A block moves from the allocator to a thread, between a thread and a cell,
\* or from a thread back to the allocator.
LEMMA ClientStepInv ==
  ASSUME ListInv, NEW t \in Tasks, ClientStep(t), retired' = retired
  PROVE  ListInv'
<1>1. CASE \E o \in Objs : Malloc(t, o)
  BY <1>1, ClientAssumption
     DEF ListInv, ListTypeOK, ClientTypeOK, Placed, Ptrs, Status, RetiredOnce, Malloc
<1>2. CASE Discard(t)
  BY <1>2, ClientAssumption
     DEF ListInv, ListTypeOK, ClientTypeOK, Placed, Ptrs, Status, RetiredOnce, Discard
<1>3. CASE \E c \in Cells : Link(t, c)
  BY <1>3, ClientAssumption
     DEF ListInv, ListTypeOK, ClientTypeOK, Placed, Ptrs, Status, RetiredOnce, Link
<1>4. CASE \E c \in Cells : Unlink(t, c)
  BY <1>4, ClientAssumption
     DEF ListInv, ListTypeOK, ClientTypeOK, Placed, Ptrs, Status, RetiredOnce, Unlink
<1> QED
  BY <1>1, <1>2, <1>3, <1>4 DEF ClientStep

\* retire moves the node from its thread to the thread's list.
LEMMA PushInv ==
  ASSUME ListInv, NEW t \in Tasks, Push(t)
  PROVE  ListInv'
BY ClientAssumption
   DEF ListInv, ListTypeOK, ClientTypeOK, Placed, Ptrs, Status, RetiredOnce, Push, HandOver

\* empty gives nodes of the thread's list back to the allocator.
LEMMA ReclaimInv ==
  ASSUME ListInv, NEW t \in Tasks, NEW dead \in SUBSET retired[t], Reclaim(t, dead)
  PROVE  ListInv'
BY ClientAssumption
   DEF ListInv, ListTypeOK, ClientTypeOK, Placed, Ptrs, Status, RetiredOnce, Reclaim, Free

\* Nothing else changes the places of the blocks.
LEMMA ListUnchanged ==
  ASSUME ListInv, UNCHANGED <<clientVars, retired>>
  PROVE  ListInv'
BY DEF ListInv, ListTypeOK, ClientTypeOK, Placed, RetiredOnce, clientVars

-----------------------------------------------------------------------------

\* What the locals of a call hold while it runs.
Control ==
    \A t \in Tasks :
        /\ pc[t] \in {"load", "check", "store", "validate"} =>
              src[t] \in Cells /\ held[t][idx[t]] = NULL
        /\ pc[t] = "load" => op[t] = "read"
        /\ pc[t] = "validate" => op[t] = "reserve"
        /\ pc[t] = "clear" => \A j \in Idx : held[t][j] = NULL
        /\ IF pc[t] = "copy" THEN pos[t] \in SlotIds ELSE pos[t] = FirstPos

TypeInv == TypeOK /\ Control

\* The slots of a thread in the order in which clear_all goes through them.
LEMMA IndexOrder ==
  ASSUME NEW j \in Idx
  PROVE  /\ j < HENum => j + 1 \in Idx /\ j # HENum
         /\ j = HENum => ~(j < HENum)
BY ParamAssumption DEF Idx

\* The slots are visited one after the other, the last one before EndPos.
LEMMA AfterType ==
  ASSUME NEW s \in SlotIds
  PROVE  After(s) \in SlotIds \/ After(s) = EndPos
BY ParamAssumption, ClientAssumption DEF After, SlotIds, EndPos, Idx, Tasks

\* The first slot is a slot.
LEMMA FirstPosType == FirstPos \in SlotIds
BY ParamAssumption, ClientAssumption DEF FirstPos, SlotIds, Idx, Tasks

\* 1 is a slot and 0 an epoch.
LEMMA ConstType == 1 \in Idx /\ 0 \in Epochs
BY ParamAssumption DEF Idx, Epochs

\* What lies before the slot after s is s itself or lies before s.
LEMMA AfterOrder ==
  ASSUME NEW s \in SlotIds, NEW t \in Tasks, NEW j \in Idx,
         \/ After(s)[1] > t
         \/ After(s)[1] = t /\ After(s)[2] > j
  PROVE  s = <<t, j>> \/ s[1] > t \/ (s[1] = t /\ s[2] > j)
<1>1. /\ t \in Int /\ j \in Int /\ s[1] \in Int /\ s[2] \in Int
      /\ s = <<s[1], s[2]>> /\ j >= 1 /\ s[2] >= 1 /\ j <= HENum /\ s[2] <= HENum
      /\ HENum \in Int
  BY ParamAssumption, ClientAssumption DEF SlotIds, Tasks, Idx
<1>2. CASE s[2] < HENum
  <2>1. After(s)[1] = s[1] /\ After(s)[2] = s[2] + 1
    BY <1>2 DEF After
  <2> QED
    BY <1>1, <2>1
<1>3. CASE ~(s[2] < HENum)
  <2>1. After(s)[1] = s[1] + 1 /\ After(s)[2] = 1 /\ s[2] = HENum
    BY <1>1, <1>3 DEF After
  <2> QED
    BY <1>1, <2>1
<1> QED
  BY <1>2, <1>3

\* The types are preserved by every step.
LEMMA TypeNext == TypeInv /\ [Next]_vars => TypeInv'
<1> SUFFICES ASSUME TypeInv, [Next]_vars PROVE TypeInv'
  OBVIOUS
<1> USE ConstType
    DEF TypeInv, Control, TypeOK, ListTypeOK, ClientTypeOK, PC, Ptrs, Goto
<1>1. ASSUME NEW t \in Tasks, AllocCount(t) PROVE TypeInv'
  BY <1>1, ParamAssumption DEF AllocCount, Malloc, Epochs, Status, garbage, blocks, given, frame
<1>2. ASSUME NEW t \in Tasks, AllocBirth(t) PROVE TypeInv'
  BY <1>2 DEF AllocBirth, clientVars, garbage, given, frame
<1>3. ASSUME NEW t \in Tasks, Rideable(t) PROVE TypeInv'
  <2> USE <1>3 DEF Rideable, Status, blocks, garbage, given, frame
  <2>1. CASE Discard(t)
    BY <2>1 DEF Discard
  <2>2. ASSUME NEW c \in Cells, Link(t, c) PROVE TypeInv'
    BY <2>2 DEF Link
  <2>3. ASSUME NEW c \in Cells, Unlink(t, c) PROVE TypeInv'
    BY <2>3 DEF Unlink
  <2> QED
    BY <2>1, <2>2, <2>3
<1>4. ASSUME NEW t \in Tasks, NEW c \in Cells, NEW j \in Idx, Read(t, c, j)
      PROVE  TypeInv'
  BY <1>4 DEF Read, Begin, clientVars, blocks, garbage
<1>5. ASSUME NEW t \in Tasks, NEW c \in Cells, NEW j \in Idx, Reserve(t, c, j)
      PROVE  TypeInv'
  BY <1>5 DEF Reserve, Begin, clientVars, blocks, garbage
<1>6. ASSUME NEW t \in Tasks, ReadLoad(t) PROVE TypeInv'
  BY <1>6 DEF ReadLoad, clientVars, blocks, garbage, given
<1>7. ASSUME NEW t \in Tasks, CheckSame(t) PROVE TypeInv'
  <2> USE <1>7 DEF CheckSame, clientVars, blocks, garbage
  <2>1. CASE op[t] = "read" /\ Return(t)
    <3>1. ClientTypeOK'
      BY <2>1
    <3>2. held' = [held EXCEPT ![t][idx[t]] = ptr[t]]
      BY <2>1
    <3>5. held' \in [Tasks -> [Idx -> Ptrs]]
      BY <3>2
    <3>3. TypeOK'
      BY <2>1, <3>1, <3>5 DEF Return
    <3>4. Control'
      BY <2>1 DEF Return
    <3> QED
      BY <3>3, <3>4
  <2>2. CASE Goto(t, "validate") /\ op[t] = "reserve" /\ UNCHANGED <<held, frame>>
    BY <2>2 DEF frame
  <2> QED
    BY <2>1, <2>2
<1>8. ASSUME NEW t \in Tasks, CheckNew(t) PROVE TypeInv'
  BY <1>8 DEF CheckNew, clientVars, blocks, garbage, given
<1>9. ASSUME NEW t \in Tasks, StoreEpoch(t) PROVE TypeInv'
  BY <1>9 DEF StoreEpoch, clientVars, blocks, garbage, given, frame
<1>10. ASSUME NEW t \in Tasks, Validate(t) PROVE TypeInv'
  BY <1>10 DEF Validate, Return, clientVars, blocks, garbage
<1>11. ASSUME NEW t \in Tasks, Clear(t) PROVE TypeInv'
  BY <1>11 DEF Clear, clientVars, blocks, garbage, frame
<1>12. ASSUME NEW t \in Tasks, ClearSlot(t) PROVE TypeInv'
  <2>0. idx[t] \in Idx
    OBVIOUS
  <2> USE <1>12 DEF ClearSlot, clientVars, blocks, garbage, given
  <2>1. CASE idx[t] < HENum
    <3>1. idx[t] + 1 \in Idx
      BY <2>0, <2>1, IndexOrder
    <3>2. idx[t] # HENum
      BY <2>0, <2>1, IndexOrder
    <3> QED
      BY <3>1, <3>2, ZenonT(40)
  <2>2. CASE idx[t] = HENum
    <3>1. ~(idx[t] < HENum)
      BY <2>0, <2>2, IndexOrder
    <3> QED
      BY <2>2, <3>1, ZenonT(40)
  <2> QED
    BY <2>1, <2>2
<1>13. ASSUME NEW t \in Tasks, Retire(t) PROVE TypeInv'
  <2> USE <1>13 DEF Retire, given, frame
  <2>1. ListTypeOK'
    BY DEF Push, HandOver, Status
  <2>2. victim[t] \in Objs
    BY DEF Push, HandOver
  <2>3. retires' \in [Tasks -> 0 .. Freq - 1]
    BY ParamAssumption
  <2>4. TypeOK'
    BY <2>1, <2>2, <2>3
  <2>5. Control'
    BY FirstPosType
  <2> QED
    BY <2>4, <2>5
<1>14. ASSUME NEW t \in Tasks, CopySlot(t) PROVE TypeInv'
  <2>1. /\ pos[t] \in SlotIds
        /\ pos[t][1] \in Tasks /\ pos[t][2] \in Idx
    BY <1>14 DEF CopySlot, SlotIds
  <2>2. local' \in [Tasks -> [Tasks -> [Idx -> Epochs]]]
    BY <1>14, <2>1 DEF CopySlot
  <2>3. /\ pos' = [pos EXCEPT ![t] = IF After(pos[t]) = EndPos
                                     THEN FirstPos ELSE After(pos[t])]
        /\ pc' = [pc EXCEPT ![t] = IF After(pos[t]) = EndPos
                                   THEN "sweep" ELSE "copy"]
    BY <1>14 DEF CopySlot
  <2>4. After(pos[t]) # EndPos => After(pos[t]) \in SlotIds
    BY <2>1, AfterType
  <2>5. UNCHANGED <<clientVars, epoch, reservations, blocks, allocs, retires,
                    retired, given, frame>>
    BY <1>14 DEF CopySlot
  <2>6. TypeOK'
    BY <2>2, <2>3, <2>4, <2>5, FirstPosType
       DEF clientVars, blocks, given, frame
  <2>7. Control'
    BY <1>14, <2>3, <2>4, <2>5 DEF CopySlot, given, frame
  <2> QED
    BY <2>6, <2>7
<1>15. ASSUME NEW t \in Tasks, Sweep(t) PROVE TypeInv'
  BY <1>15 DEF Sweep, Reclaim, Free, Status, blocks, given, frame
<1>16. CASE UNCHANGED vars
  BY <1>16 DEF vars, clientVars, blocks, garbage, given, frame
<1> QED
  BY <1>1, <1>2, <1>3, <1>4, <1>5, <1>6, <1>7, <1>8, <1>9, <1>10, <1>11,
     <1>12, <1>13, <1>14, <1>15, <1>16 DEF Next, Step, Call

-----------------------------------------------------------------------------
\* Thread u, inside empty, has already copied slot j of thread t.
Copied(u, t, j) ==
    \/ pc[u] = "sweep"
    \/ /\ pc[u] = "copy"
       /\ pos[u][1] > t \/ (pos[u][1] = t /\ pos[u][2] > j)

\* Slot j of thread t protects block o: the epoch in the slot lies in the
\* life of o, and whoever may sweep o and has read the slot saw that epoch.
Protects(t, j, o) ==
    /\ status[o] \notin {"free", "private"}
    /\ reservations[t][j] # 0
    /\ birth[o] <= reservations[t][j]
    /\ status[o] = "retired" => reservations[t][j] <= retireEpoch[o]
    /\ \A u \in Tasks :
          o \in retired[u] /\ Copied(u, t, j)
              => local[u][t][j] = reservations[t][j]

\* No stamp is ahead of the global epoch.
Clock ==
    /\ epoch # 0
    /\ \A o \in Objs : birth[o] <= epoch
    /\ \A t \in Tasks : curr[t] <= epoch
    /\ \A t \in Tasks, j \in Idx : reservations[t][j] <= epoch

\* A pointer loaded by read whose epoch check would succeed now.
Checking ==
    \A t \in Tasks :
        pc[t] = "check" /\ op[t] = "read" /\ ptr[t] # NULL
        /\ epoch = reservations[t][idx[t]]
            => Protects(t, idx[t], ptr[t])

\* A reference that read returned.
Holding ==
    \A t \in Tasks, j \in Idx : held[t][j] # NULL => Protects(t, j, held[t][j])

Inv == TypeInv /\ Placed /\ RetiredOnce /\ Clock /\ Checking /\ Holding

\* A step that leaves the slot and the block alone, and lets no thread pass the
\* slot unseen, leaves the protection in place.
LEMMA ProtectsFrame ==
  ASSUME NEW t \in Tasks, NEW j \in Idx, NEW o \in Objs, Protects(t, j, o),
         reservations'[t][j] = reservations[t][j],
         birth'[o] = birth[o],
         status'[o] \notin {"free", "private"},
         status'[o] = "retired" =>
             reservations[t][j] <= retireEpoch'[o],
         \A u \in Tasks :
             o \in retired'[u] /\ Copied(u, t, j)' =>
                 \/ local'[u][t][j] = reservations[t][j]
                 \/ /\ o \in retired[u] /\ Copied(u, t, j)
                    /\ local'[u][t][j] = local[u][t][j]
  PROVE  Protects(t, j, o)'
BY DEF Protects

\* A block that a slot protects is not freed by any step, and stays protected
\* as long as its slot is not written.
LEMMA ProtectsKept ==
  ASSUME Inv, TypeInv', Next, NEW t \in Tasks, NEW j \in Idx, NEW o \in Objs,
         Protects(t, j, o), reservations'[t][j] = reservations[t][j]
  PROVE  Protects(t, j, o)'
<1>1. /\ status[o] \notin {"free", "private"}
      /\ status[o] = "retired" => reservations[t][j] <= retireEpoch[o]
  BY DEF Protects
<1>2. ASSUME UNCHANGED <<status, birth, retireEpoch, retired, local>>,
             \A u \in Tasks : Copied(u, t, j)' => Copied(u, t, j)
      PROVE  Protects(t, j, o)'
  BY <1>1, <1>2, ProtectsFrame
<1>3. \A u \in Tasks : pc'[u] = pc[u] /\ pos'[u] = pos[u]
                          => (Copied(u, t, j)' => Copied(u, t, j))
  BY DEF Copied
<1>4. \A u \in Tasks : pc'[u] \notin {"copy", "sweep"} => ~ Copied(u, t, j)'
  BY DEF Copied
<1>5. pc \in [Tasks -> PC] /\ pc' \in [Tasks -> PC]
  BY DEF Inv, TypeInv, TypeOK
<1>6. ASSUME NEW u \in Tasks, NEW l \in PC \ {"copy", "sweep"}, Goto(u, l),
             pos' = pos
      PROVE  \A v \in Tasks : Copied(v, t, j)' => Copied(v, t, j)
  BY <1>3, <1>4, <1>5, <1>6 DEF Goto
<1>7. ASSUME UNCHANGED <<pc, pos>>
      PROVE  \A v \in Tasks : Copied(v, t, j)' => Copied(v, t, j)
  BY <1>3, <1>7
<1>8. ASSUME NEW u \in Tasks, AllocCount(u) PROVE Protects(t, j, o)'
  <2>1. status' = [status EXCEPT ![o] = status[o]] \/ status'[o] = status[o]
    BY <1>1, <1>8 DEF AllocCount, Malloc, Inv, TypeInv, TypeOK, ListTypeOK, ClientTypeOK
  <2>2. status'[o] = status[o]
    BY <2>1, <1>8 DEF AllocCount, Malloc, Inv, TypeInv, TypeOK, ListTypeOK, ClientTypeOK
  <2>3. \A v \in Tasks : Copied(v, t, j)' => Copied(v, t, j)
    BY <1>6, <1>8 DEF AllocCount, PC
  <2>4. UNCHANGED <<birth, retireEpoch, retired, local>>
    BY <1>8 DEF AllocCount, blocks, garbage
  <2> QED
    BY <1>1, <2>2, <2>3, <2>4, ProtectsFrame
<1>9. ASSUME NEW u \in Tasks, AllocBirth(u) PROVE Protects(t, j, o)'
  <2>1. o # mine[u]
    BY <1>1, ClientAssumption DEF Inv, Placed
  <2>2. birth'[o] = birth[o]
    BY <2>1, <1>9 DEF AllocBirth, Inv, TypeInv, TypeOK
  <2>3. \A v \in Tasks : Copied(v, t, j)' => Copied(v, t, j)
    BY <1>6, <1>9 DEF AllocBirth, PC
  <2>4. UNCHANGED <<status, retireEpoch, retired, local>>
    BY <1>9 DEF AllocBirth, clientVars, garbage
  <2> QED
    BY <1>1, <2>2, <2>3, <2>4, ProtectsFrame
<1>10. ASSUME NEW u \in Tasks, Rideable(u) PROVE Protects(t, j, o)'
  <2>1. status'[o] = status[o] \/ status'[o] \in {"linked", "unlinked"}
    <3>1. CASE Discard(u)
      <4>1. o # mine[u]
        BY <1>1, <3>1 DEF Discard, Inv, Placed
      <4> QED
        BY <3>1, <4>1 DEF Discard, Inv, TypeInv, TypeOK, ListTypeOK, ClientTypeOK
    <3>2. ASSUME NEW c \in Cells, Link(u, c)
          PROVE  status'[o] = status[o] \/ status'[o] = "linked"
      BY <3>2 DEF Link, Inv, TypeInv, TypeOK, ListTypeOK, ClientTypeOK
    <3>3. ASSUME NEW c \in Cells, Unlink(u, c)
          PROVE  status'[o] = status[o] \/ status'[o] = "unlinked"
      BY <3>3 DEF Unlink, Inv, TypeInv, TypeOK, ListTypeOK, ClientTypeOK
    <3> QED
      BY <1>10, <3>1, <3>2, <3>3 DEF Rideable
  <2>2. \A v \in Tasks : Copied(v, t, j)' => Copied(v, t, j)
    BY <1>7, <1>10 DEF Rideable
  <2>3. UNCHANGED <<birth, retireEpoch, retired, local>>
    BY <1>10 DEF Rideable, blocks, garbage
  <2> QED
    BY <1>1, <2>1, <2>2, <2>3, ProtectsFrame
<1>11. ASSUME NEW u \in Tasks, NEW c \in Cells, NEW i \in Idx, NEW x,
              Begin(u, x, c, i)
       PROVE  Protects(t, j, o)'
  BY <1>2, <1>6, <1>11 DEF Begin, PC, clientVars, blocks, garbage
<1>12. ASSUME NEW u \in Tasks, ReadLoad(u) PROVE Protects(t, j, o)'
  BY <1>2, <1>6, <1>12 DEF ReadLoad, PC, clientVars, blocks, garbage
<1>13. ASSUME NEW u \in Tasks, CheckSame(u) PROVE Protects(t, j, o)'
  BY <1>2, <1>6, <1>13 DEF CheckSame, Return, PC, clientVars, blocks, garbage
<1>14. ASSUME NEW u \in Tasks, CheckNew(u) PROVE Protects(t, j, o)'
  BY <1>2, <1>6, <1>14 DEF CheckNew, PC, clientVars, blocks, garbage
<1>15. ASSUME NEW u \in Tasks, StoreEpoch(u) PROVE Protects(t, j, o)'
  BY <1>2, <1>6, <1>15 DEF StoreEpoch, PC, clientVars, blocks, garbage
<1>16. ASSUME NEW u \in Tasks, Validate(u) PROVE Protects(t, j, o)'
  BY <1>2, <1>6, <1>16 DEF Validate, Return, PC, clientVars, blocks, garbage
<1>17. ASSUME NEW u \in Tasks, Clear(u) PROVE Protects(t, j, o)'
  BY <1>2, <1>6, <1>17 DEF Clear, PC, clientVars, blocks, garbage
<1>18. ASSUME NEW u \in Tasks, ClearSlot(u) PROVE Protects(t, j, o)'
  BY <1>2, <1>6, <1>7, <1>18 DEF ClearSlot, PC, clientVars, blocks, garbage
<1>19. ASSUME NEW u \in Tasks, Retire(u) PROVE Protects(t, j, o)'
  <2>1. victim[u] \in Objs /\ status[victim[u]] = "unlinked"
    BY <1>19 DEF Retire, Push, HandOver, Inv, Placed, TypeInv, TypeOK, ListTypeOK, ClientTypeOK, Ptrs
  <2>2. status'[o] \notin {"free", "private"}
    BY <1>1, <1>19, <2>1 DEF Retire, Push, HandOver, Inv, TypeInv, TypeOK, ListTypeOK, ClientTypeOK
  <2>3. reservations[t][j] <= epoch
    BY DEF Inv, Clock
  <2>4. status'[o] = "retired" => reservations[t][j] <= retireEpoch'[o]
    <3>1. CASE o = victim[u]
      BY <1>19, <2>1, <2>3, <3>1 DEF Retire, Inv, TypeInv, TypeOK
    <3>2. CASE o # victim[u]
      BY <1>1, <1>19, <2>1, <3>2
         DEF Retire, Push, HandOver, Inv, TypeInv, TypeOK, ListTypeOK, ClientTypeOK
    <3> QED
      BY <3>1, <3>2
  <2>5. ~ Copied(u, t, j)'
    <3>1. pc[u] = "idle" /\ pos'[u] = FirstPos
      BY <1>19 DEF Retire, Inv, TypeInv, Control
    <3>2. pc'[u] # "sweep"
      BY <1>5, <1>19, <3>1 DEF Retire, Goto
    <3>3. t \in Nat /\ j \in Nat /\ t >= 1 /\ j >= 1
      BY ClientAssumption, ParamAssumption DEF Tasks, Idx
    <3> QED
      BY <3>1, <3>2, <3>3 DEF Copied, FirstPos
  <2>6. \A v \in Tasks \ {u} :
           /\ Copied(v, t, j)' => Copied(v, t, j)
           /\ retired'[v] = retired[v]
    BY <1>3, <1>5, <1>19
       DEF Retire, Push, Goto, Inv, TypeInv, TypeOK, ListTypeOK
  <2>7. UNCHANGED <<birth, local>>
    BY <1>19 DEF Retire
  <2> QED
    BY <2>2, <2>4, <2>5, <2>6, <2>7, ProtectsFrame
<1>20. ASSUME NEW u \in Tasks, CopySlot(u) PROVE Protects(t, j, o)'
  <2> DEFINE s == pos[u]
  <2>1. UNCHANGED <<status, birth, retireEpoch, retired, reservations>>
    BY <1>20 DEF CopySlot, clientVars, blocks
  <2>2. \A v \in Tasks \ {u} :
           /\ Copied(v, t, j)' => Copied(v, t, j)
           /\ local'[v] = local[v]
    BY <1>3, <1>5, <1>20 DEF CopySlot, Goto, Inv, TypeInv, TypeOK
  <2>3. s \in SlotIds /\ s[1] \in Tasks /\ s[2] \in Idx
    BY <1>20 DEF CopySlot, Inv, TypeInv, Control, SlotIds
  <2>4. CASE s = <<t, j>>
    <3>1. local'[u][t][j] = reservations[t][j]
      BY <1>20, <2>4 DEF CopySlot, Inv, TypeInv, TypeOK
    <3> QED
      BY <1>1, <2>1, <2>2, <3>1, ProtectsFrame
  <2>5. CASE s # <<t, j>>
    <3>1. local'[u][t][j] = local[u][t][j]
      BY <1>20, <2>3, <2>5 DEF CopySlot, Inv, TypeInv, TypeOK, SlotIds
    <3>2. Copied(u, t, j)' => Copied(u, t, j)
      <4>1. CASE After(s) = EndPos
        <5>1. pc[u] = "copy"
          BY <1>20 DEF CopySlot
        <5>2. \/ After(s)[1] > t
              \/ After(s)[1] = t /\ After(s)[2] > j
          BY <4>1, ClientAssumption DEF EndPos, Tasks
        <5> QED
          BY <2>3, <2>5, <5>1, <5>2, AfterOrder DEF Copied
      <4>2. CASE After(s) # EndPos
        <5>1. pc[u] = "copy" /\ pc'[u] = "copy" /\ pos'[u] = After(s)
          BY <1>20, <4>2 DEF CopySlot, Inv, TypeInv, TypeOK
        <5> QED
          BY <2>3, <2>5, <5>1, AfterOrder DEF Copied
      <4> QED
        BY <4>1, <4>2
    <3> QED
      BY <1>1, <2>1, <2>2, <3>1, <3>2, ProtectsFrame
  <2> QED
    BY <2>4, <2>5
<1>21. ASSUME NEW u \in Tasks, Sweep(u) PROVE Protects(t, j, o)'
  <2>1. UNCHANGED <<birth, retireEpoch, reservations, pos>>
    BY <1>21 DEF Sweep, blocks
  <2>2. pc'[u] = "idle" /\ \A v \in Tasks \ {u} : Copied(v, t, j)' => Copied(v, t, j)
    BY <1>3, <1>5, <1>21, <2>1 DEF Sweep, Goto
  <2>3. ~ Copied(u, t, j)'
    BY <1>4, <2>2
  <2>4. \A v \in Tasks \ {u} : retired'[v] = retired[v] /\ local'[v] = local[v]
    BY <1>21 DEF Sweep, Reclaim, Inv, TypeInv, TypeOK
  <2>5. status'[o] = status[o]
    <3>1. CASE o \in retired[u]
      <4>1. Copied(u, t, j) /\ status[o] = "retired"
        BY <1>21, <3>1 DEF Sweep, Copied, Inv, RetiredOnce
      <4>2. /\ local[u][t][j] = reservations[t][j]
            /\ birth[o] <= local[u][t][j]
            /\ local[u][t][j] <= retireEpoch[o]
            /\ local[u][t][j] # 0
        BY <3>1, <4>1 DEF Protects
      <4>3. birth[o] \in Int /\ retireEpoch[o] \in Int /\ local[u][t][j] \in Int
        BY ParamAssumption DEF Inv, TypeInv, TypeOK, Epochs
      <4>4. ~ CanDelete(u, o)
        BY <4>2, <4>3 DEF CanDelete
      <4> QED
        BY <1>21, <4>4 DEF Sweep, Reclaim, Free
    <3>2. CASE o \notin retired[u]
      BY <1>21, <3>2 DEF Sweep, Reclaim, Free
    <3> QED
      BY <3>1, <3>2
  <2> QED
    BY <1>1, <2>1, <2>2, <2>3, <2>4, <2>5, ProtectsFrame
<1> QED
  BY <1>8, <1>9, <1>10, <1>11, <1>12, <1>13, <1>14, <1>15, <1>16, <1>17,
     <1>18, <1>19, <1>20, <1>21 DEF Next, Step, Call, Read, Reserve

-----------------------------------------------------------------------------
\* Every block stays in its one place.
LEMMA ListNext == Inv /\ [Next]_vars => ListInv'
<1> SUFFICES ASSUME Inv, [Next]_vars PROVE ListInv'
  OBVIOUS
<1>0. ListInv
  BY DEF Inv, TypeInv, TypeOK, ListInv
<1>1. ASSUME NEW t \in Tasks, AllocCount(t) PROVE ListInv'
  BY <1>0, <1>1, ClientStepInv DEF AllocCount, ClientStep, garbage
<1>2. ASSUME NEW t \in Tasks, Rideable(t) PROVE ListInv'
  BY <1>0, <1>2, ClientStepInv DEF Rideable, ClientStep, garbage
<1>3. ASSUME NEW t \in Tasks, Retire(t) PROVE ListInv'
  BY <1>0, <1>3, PushInv DEF Retire
<1>4. ASSUME NEW t \in Tasks, Sweep(t) PROVE ListInv'
  BY <1>0, <1>4, ReclaimInv DEF Sweep
<1>5. ASSUME NEW t \in Tasks,
             \/ AllocBirth(t) \/ ReadLoad(t) \/ CheckSame(t) \/ CheckNew(t)
             \/ StoreEpoch(t) \/ Validate(t) \/ Clear(t) \/ ClearSlot(t)
             \/ CopySlot(t)
             \/ \E c \in Cells, j \in Idx : Read(t, c, j) \/ Reserve(t, c, j)
      PROVE  UNCHANGED <<clientVars, retired>>
  BY <1>5 DEF AllocBirth, ReadLoad, CheckSame, CheckNew, StoreEpoch, Validate,
              Clear, ClearSlot, CopySlot, Read, Reserve, Begin, garbage
<1>6. CASE UNCHANGED vars
  BY <1>0, <1>6, ListUnchanged DEF vars, garbage
<1> QED
  BY <1>0, <1>1, <1>2, <1>3, <1>4, <1>5, <1>6, ListUnchanged
     DEF Next, Step, Call

\* Stamps are taken from the global epoch, which never goes back.
LEMMA ClockNext == Inv /\ TypeInv' /\ [Next]_vars => Clock'
<1> SUFFICES ASSUME Inv, TypeInv', [Next]_vars PROVE Clock'
  OBVIOUS
<1>1. /\ epoch \in Int /\ epoch' \in Int
      /\ birth \in [Objs -> Int] /\ curr \in [Tasks -> Int]
      /\ reservations \in [Tasks -> [Idx -> Int]]
      /\ 0 <= epoch /\ 0 <= epoch'
  BY ParamAssumption DEF Inv, TypeInv, TypeOK, Epochs
<1>2. Clock
  BY DEF Inv
<1>3. ASSUME epoch' = epoch \/ epoch' = epoch + 1,
             UNCHANGED <<birth, curr, reservations>>
      PROVE  Clock'
  BY <1>1, <1>2, <1>3 DEF Clock
<1>4. ASSUME NEW t \in Tasks, AllocCount(t) PROVE Clock'
  BY <1>3, <1>4 DEF AllocCount, blocks, frame
<1>5. ASSUME NEW t \in Tasks, AllocBirth(t) PROVE Clock'
  BY <1>1, <1>2, <1>5 DEF AllocBirth, frame, Clock
<1>6. ASSUME NEW t \in Tasks, CheckNew(t) PROVE Clock'
  BY <1>1, <1>2, <1>6 DEF CheckNew, blocks, Clock
<1>7. ASSUME NEW t \in Tasks, StoreEpoch(t) PROVE Clock'
  BY <1>1, <1>2, <1>7 DEF StoreEpoch, blocks, frame, Clock
<1>8. ASSUME NEW t \in Tasks, ClearSlot(t) PROVE Clock'
  BY <1>1, <1>2, <1>8 DEF ClearSlot, blocks, Clock
<1>9. ASSUME NEW t \in Tasks, CheckSame(t) \/ Validate(t) PROVE Clock'
  <2>1. UNCHANGED <<epoch, birth, reservations>>
    BY <1>9 DEF CheckSame, Validate, blocks
  <2>2. curr' = curr \/ curr' = [curr EXCEPT ![t] = 0]
    BY <1>9 DEF CheckSame, Validate, Return, frame
  <2> QED
    BY <1>1, <1>2, <2>1, <2>2 DEF Clock
<1>10. ASSUME NEW t \in Tasks,
              \/ ReadLoad(t) \/ Clear(t) \/ CopySlot(t) \/ Sweep(t)
              \/ Rideable(t) \/ Retire(t)
              \/ \E c \in Cells, j \in Idx : Read(t, c, j) \/ Reserve(t, c, j)
       PROVE  UNCHANGED <<epoch, birth, curr, reservations>>
  BY <1>10 DEF ReadLoad, Clear, CopySlot, Sweep, Rideable, Retire, Read,
               Reserve, Begin, blocks, frame
<1>11. CASE UNCHANGED vars
  BY <1>3, <1>11 DEF vars, blocks, frame
<1> QED
  BY <1>3, <1>4, <1>5, <1>6, <1>7, <1>8, <1>9, <1>10, <1>11
     DEF Next, Step, Call

-----------------------------------------------------------------------------
\* A node loaded from a cell while the slot holds the global epoch is
\* protected: it is linked, so nobody has retired it and nobody has it on a
\* list, and it was born at this epoch or before.
LEMMA LoadProtects ==
  ASSUME Inv, NEW t \in Tasks, NEW j \in Idx, NEW c \in Cells,
         cell[c] # NULL, epoch = reservations[t][j]
  PROVE  cell[c] \in Objs /\ Protects(t, j, cell[c])
<1>1. cell[c] \in Objs
  BY DEF Inv, TypeInv, TypeOK, ListTypeOK, ClientTypeOK, Ptrs
<1>2. status[cell[c]] = "linked"
  BY DEF Inv, Placed
<1>3. \A u \in Tasks : cell[c] \notin retired[u]
  BY <1>1, <1>2 DEF Inv, RetiredOnce
<1>4. epoch # 0 /\ birth[cell[c]] <= epoch
  BY <1>1 DEF Inv, Clock
<1> QED
  BY <1>1, <1>2, <1>3, <1>4 DEF Protects

\* Of the calls in progress, only the one that steps can start to check a
\* pointer, and it has just loaded it.
LEMMA CheckingNext == Inv /\ TypeInv' /\ Next => Checking'
<1> SUFFICES ASSUME Inv, TypeInv', Next, NEW t \in Tasks, NEW j \in Idx,
                    NEW o \in Objs,
                    pc'[t] = "check", op'[t] = "read", idx'[t] = j, ptr'[t] = o,
                    epoch' = reservations'[t][j]
             PROVE  Protects(t, j, o)'
  BY DEF Checking, Protects, Copied, TypeInv, TypeOK, Ptrs
<1>1. /\ pc \in [Tasks -> PC] /\ idx \in [Tasks -> Idx]
      /\ ptr \in [Tasks -> Ptrs] /\ src \in [Tasks -> Cells \union {NULL}]
      /\ op \in [Tasks -> {"none", "read", "reserve"}]
      /\ reservations \in [Tasks -> [Idx -> Int]] /\ epoch \in Int
  BY ParamAssumption DEF Inv, TypeInv, TypeOK, Epochs
<1>2. o # NULL
  BY ClientAssumption
<1>3. ASSUME pc[t] = "check", op[t] = "read", idx[t] = j, ptr[t] = o,
             epoch = reservations[t][j], reservations' = reservations
      PROVE  Protects(t, j, o)'
  BY <1>2, <1>3, ProtectsKept DEF Inv, Checking
<1>4. ASSUME NEW c \in Cells, cell[c] = o, epoch' = epoch,
             reservations' = reservations
      PROVE  Protects(t, j, o)'
  BY <1>2, <1>4, LoadProtects, ProtectsKept
<1>5. ASSUME UNCHANGED <<epoch, reservations, op, idx, ptr>>,
             NEW u \in Tasks, NEW l \in PC \ {"check"}, Goto(u, l)
      PROVE  Protects(t, j, o)'
  <2>1. pc[t] = "check"
    BY <1>1, <1>5 DEF Goto
  <2> QED
    BY <1>3, <1>5, <2>1
<1>6. ASSUME UNCHANGED <<epoch, reservations, op, idx, ptr, pc>>
      PROVE  Protects(t, j, o)'
  BY <1>3, <1>6
<1>7. ASSUME NEW u \in Tasks, AllocCount(u) PROVE Protects(t, j, o)'
  <2>1. UNCHANGED <<reservations, op, idx, ptr>> /\ Goto(u, "birth")
    BY <1>7 DEF AllocCount, frame
  <2>2. epoch' = epoch \/ epoch' = epoch + 1
    BY <1>7 DEF AllocCount
  <2>3. reservations[t][j] <= epoch
    BY DEF Inv, Clock
  <2>4. epoch' = epoch
    BY <1>1, <2>1, <2>2, <2>3
  <2> QED
    BY <1>5, <2>1, <2>4 DEF PC
<1>8. ASSUME NEW u \in Tasks, AllocBirth(u) PROVE Protects(t, j, o)'
  BY <1>5, <1>8 DEF AllocBirth, frame, PC
<1>9. ASSUME NEW u \in Tasks, Rideable(u) PROVE Protects(t, j, o)'
  BY <1>6, <1>9 DEF Rideable, frame
<1>10. ASSUME NEW u \in Tasks, NEW c \in Cells, NEW i \in Idx, NEW x,
              Begin(u, x, c, i)
       PROVE  Protects(t, j, o)'
  <2>1. UNCHANGED <<epoch, reservations>>
    BY <1>10 DEF Begin
  <2>2. CASE t = u
    BY <1>1, <1>4, <1>10, <2>1, <2>2 DEF Begin
  <2>3. CASE t # u
    BY <1>1, <1>3, <1>10, <2>1, <2>3 DEF Begin, Goto
  <2> QED
    BY <2>2, <2>3
<1>11. ASSUME NEW u \in Tasks, ReadLoad(u) PROVE Protects(t, j, o)'
  <2>1. UNCHANGED <<epoch, reservations, op, idx>>
    BY <1>11 DEF ReadLoad
  <2>2. CASE t = u
    <3>1. src[t] \in Cells /\ o = cell[src[t]]
      BY <1>1, <1>11, <2>2 DEF ReadLoad, Inv, TypeInv, Control
    <3> QED
      BY <1>4, <2>1, <3>1
  <2>3. CASE t # u
    BY <1>1, <1>3, <1>11, <2>1, <2>3 DEF ReadLoad, Goto
  <2> QED
    BY <2>2, <2>3
<1>12. ASSUME NEW u \in Tasks, NEW l \in {"idle"}, Return(u), Goto(u, l),
              UNCHANGED <<epoch, reservations>>
       PROVE  Protects(t, j, o)'
  <2>1. t # u
    BY <1>1, <1>12 DEF Goto
  <2> QED
    BY <1>1, <1>3, <1>12, <2>1 DEF Return, Goto
<1>13. ASSUME NEW u \in Tasks, CheckSame(u) PROVE Protects(t, j, o)'
  <2>1. UNCHANGED <<epoch, reservations>>
    BY <1>13 DEF CheckSame
  <2>2. CASE Return(u)
    BY <1>12, <2>1, <2>2 DEF Return
  <2>3. CASE Goto(u, "validate") /\ UNCHANGED frame
    BY <1>5, <2>1, <2>3 DEF frame, PC
  <2> QED
    BY <1>13, <2>2, <2>3 DEF CheckSame
<1>14. ASSUME NEW u \in Tasks, CheckNew(u) PROVE Protects(t, j, o)'
  BY <1>5, <1>14 DEF CheckNew, PC
<1>15. ASSUME NEW u \in Tasks, StoreEpoch(u) PROVE Protects(t, j, o)'
  <2>1. UNCHANGED <<epoch, op, idx, ptr>>
    BY <1>15 DEF StoreEpoch, frame
  <2>2. t # u
    BY <1>1, <1>15, <2>1 DEF StoreEpoch, Goto
  <2>3. reservations'[t][j] = reservations[t][j] /\ pc'[t] = pc[t]
    BY <1>1, <1>15, <2>2 DEF StoreEpoch, Goto
  <2> QED
    BY <1>2, <2>1, <2>3, ProtectsKept DEF Inv, Checking
<1>16. ASSUME NEW u \in Tasks, Validate(u) PROVE Protects(t, j, o)'
  BY <1>12, <1>16 DEF Validate, Return
<1>17. ASSUME NEW u \in Tasks, Clear(u) PROVE Protects(t, j, o)'
  BY <1>5, <1>17 DEF Clear, frame, PC
<1>18. ASSUME NEW u \in Tasks, ClearSlot(u) PROVE Protects(t, j, o)'
  <2>1. UNCHANGED <<epoch, op, ptr>>
    BY <1>18 DEF ClearSlot
  <2>2. t # u
    BY <1>1, <1>18 DEF ClearSlot, Goto
  <2>3. /\ reservations'[t][j] = reservations[t][j] /\ pc'[t] = pc[t]
        /\ idx'[t] = idx[t]
    BY <1>1, <1>18, <2>2 DEF ClearSlot, Goto
  <2> QED
    BY <1>2, <2>1, <2>3, ProtectsKept DEF Inv, Checking
<1>19. ASSUME NEW u \in Tasks, Retire(u) PROVE Protects(t, j, o)'
  BY <1>5, <1>6, <1>19 DEF Retire, frame, PC
<1>20. ASSUME NEW u \in Tasks, CopySlot(u) PROVE Protects(t, j, o)'
  BY <1>5, <1>6, <1>20 DEF CopySlot, frame, PC
<1>21. ASSUME NEW u \in Tasks, Sweep(u) PROVE Protects(t, j, o)'
  BY <1>5, <1>21 DEF Sweep, frame, PC
<1> QED
  BY <1>7, <1>8, <1>9, <1>10, <1>11, <1>13, <1>14, <1>15, <1>16, <1>17,
     <1>18, <1>19, <1>20, <1>21 DEF Next, Step, Call, Read, Reserve

\* A thread gets references only from read, whose last check protected them,
\* and a slot is rewritten only when its thread has given its reference up.
LEMMA HoldingNext == Inv /\ TypeInv' /\ Next => Holding'
<1> SUFFICES ASSUME Inv, TypeInv', Next PROVE Holding'
  OBVIOUS
<1>0. held' \in [Tasks -> [Idx -> Ptrs]]
  BY DEF TypeInv, TypeOK
<1> SUFFICES ASSUME NEW t \in Tasks, NEW j \in Idx, NEW o \in Objs,
                    held'[t][j] = o
             PROVE  Protects(t, j, o)'
  BY <1>0 DEF Holding, Protects, Copied, Ptrs
<1>1. /\ held \in [Tasks -> [Idx -> Ptrs]] /\ idx \in [Tasks -> Idx]
      /\ reservations \in [Tasks -> [Idx -> Epochs]]
      /\ ptr \in [Tasks -> Ptrs]
  BY DEF Inv, TypeInv, TypeOK
<1>2. o # NULL
  BY ClientAssumption
<1>3. ASSUME held[t][j] = o, reservations'[t][j] = reservations[t][j]
      PROVE  Protects(t, j, o)'
  BY <1>2, <1>3, ProtectsKept DEF Inv, Holding
<1>4. ASSUME held' = held, reservations' = reservations
      PROVE  Protects(t, j, o)'
  BY <1>3, <1>4
<1>5. ASSUME NEW u \in Tasks,
             \/ AllocCount(u) \/ AllocBirth(u) \/ Rideable(u) \/ ReadLoad(u)
             \/ CheckNew(u) \/ Validate(u) \/ Retire(u) \/ CopySlot(u)
             \/ Sweep(u)
      PROVE  UNCHANGED <<held, reservations>>
  BY <1>5 DEF AllocCount, AllocBirth, Rideable, ReadLoad, CheckNew, Validate,
              Retire, CopySlot, Sweep, given
<1>6. ASSUME NEW u \in Tasks, NEW c \in Cells, NEW i \in Idx, NEW x,
             Begin(u, x, c, i)
      PROVE  Protects(t, j, o)'
  BY <1>1, <1>2, <1>3, <1>6 DEF Begin
<1>7. ASSUME NEW u \in Tasks, CheckSame(u) PROVE Protects(t, j, o)'
  <2>1. reservations' = reservations
    BY <1>7 DEF CheckSame
  <2>2. CASE held' = held
    BY <1>4, <2>1, <2>2
  <2>3. CASE /\ pc[u] = "check" /\ op[u] = "read"
             /\ epoch = reservations[u][idx[u]]
             /\ held' = [held EXCEPT ![u][idx[u]] = ptr[u]]
    <3>1. CASE u = t /\ idx[u] = j
      <4>1. ptr[t] = o
        BY <1>1, <2>3, <3>1
      <4>2. Protects(t, j, o)
        BY <1>2, <2>3, <3>1, <4>1 DEF Inv, Checking
      <4> QED
        BY <2>1, <4>2, ProtectsKept
    <3>2. CASE ~(u = t /\ idx[u] = j)
      <4>1. held'[t][j] = held[t][j]
        BY <1>1, <2>3, <3>2
      <4> QED
        BY <1>3, <2>1, <4>1
    <3> QED
      BY <3>1, <3>2
  <2> QED
    BY <1>7, <2>2, <2>3 DEF CheckSame
<1>8. ASSUME NEW u \in Tasks, StoreEpoch(u) PROVE Protects(t, j, o)'
  <2>1. held' = held
    BY <1>8 DEF StoreEpoch, given
  <2>2. held[u][idx[u]] = NULL
    BY <1>8 DEF StoreEpoch, Inv, TypeInv, Control
  <2>3. reservations'[t][j] = reservations[t][j]
    BY <1>1, <1>2, <1>8, <2>1, <2>2 DEF StoreEpoch
  <2> QED
    BY <1>3, <2>1, <2>3
<1>9. ASSUME NEW u \in Tasks, Clear(u) PROVE Protects(t, j, o)'
  BY <1>1, <1>2, <1>3, <1>9 DEF Clear
<1>10. ASSUME NEW u \in Tasks, ClearSlot(u) PROVE Protects(t, j, o)'
  <2>1. held' = held
    BY <1>10 DEF ClearSlot, given
  <2>2. held[u][j] = NULL
    BY <1>10 DEF ClearSlot, Inv, TypeInv, Control
  <2>3. reservations'[t][j] = reservations[t][j]
    BY <1>1, <1>2, <1>10, <2>1, <2>2 DEF ClearSlot
  <2> QED
    BY <1>3, <2>1, <2>3
<1> QED
  BY <1>4, <1>5, <1>6, <1>7, <1>8, <1>9, <1>10
     DEF Next, Step, Call, Read, Reserve
-----------------------------------------------------------------------------
\* The invariant holds at the start.
LEMMA InvInit == Init => Inv
<1> SUFFICES ASSUME Init PROVE Inv
  OBVIOUS
<1>1. ListInv
  BY ListInitInv DEF Init
<1>2. TypeOK
  BY <1>1, ConstType, FirstPosType, ParamAssumption
     DEF Init, TypeOK, ListInv, PC, Ptrs, Epochs
<1>3. Control
  BY DEF Init, Control
<1>4. Clock /\ Checking /\ Holding
  BY DEF Init, Clock, Checking, Holding
<1> QED
  BY <1>1, <1>2, <1>3, <1>4 DEF Inv, TypeInv, ListInv

\* Every step preserves the invariant.
LEMMA InvNext == Inv /\ [Next]_vars => Inv'
<1> SUFFICES ASSUME Inv, [Next]_vars PROVE Inv'
  OBVIOUS
<1>1. TypeInv'
  BY TypeNext DEF Inv
<1>2. Placed' /\ RetiredOnce' /\ Clock'
  BY <1>1, ListNext, ClockNext DEF ListInv
<1>3. CASE Next
  BY <1>1, <1>2, <1>3, CheckingNext, HoldingNext DEF Inv
<1>4. CASE UNCHANGED vars
  BY <1>4 DEF vars, clientVars, blocks, garbage, given, frame, Inv, TypeInv,
              TypeOK, ListTypeOK, ClientTypeOK, Control, Placed, RetiredOnce, Clock,
              Checking, Holding, Protects, Copied
<1> QED
  BY <1>3, <1>4

\* The invariant holds in every reachable state.
LEMMA Invariance == Spec => []Inv
<1> QED
  BY InvInit, InvNext, PTL DEF Spec

\* Every variable keeps its type.
THEOREM TypeCorrect == Spec => []TypeOK
<1>1. Inv => TypeOK
  BY DEF Inv, TypeInv
<1> QED
  BY <1>1, Invariance, PTL

\* read of the hazard eras is safe: no thread frees a block under a reference
\* that read returned through a slot its holder has not reused or cleared,
\* whatever stale copies of the slots empty works with.
THEOREM ReadSafe == Spec => []HeldNeverFreed
<1>1. Inv => HeldNeverFreed
  BY DEF Inv, Holding, Protects, HeldNeverFreed
<1> QED
  BY <1>1, Invariance, PTL

\* Every retired block is on exactly one thread's list until that thread
\* frees it: it is neither lost nor freed twice.
THEOREM NothingLost == Spec => []RetiredOnce
<1>1. Inv => RetiredOnce
  BY DEF Inv
<1> QED
  BY <1>1, Invariance, PTL

-----------------------------------------------------------------------------
\* What a thread holds, slot by slot.
LEMMA GuardsOf ==
  ASSUME held \in [Tasks -> [Idx -> Ptrs]], NEW t \in Tasks
  PROVE  \A o : o \in guards[t] <=> o # NULL /\ \E j \in Idx : held[t][j] = o
BY DEF guards

\* Every step of the tracker is a step that module Reclamation allows.
LEMMA RefineNext == Inv /\ TypeInv' /\ [Next]_vars => [Promise!Next]_(Promise!vars)
<1> SUFFICES ASSUME Inv, TypeInv', [Next]_vars
             PROVE  Promise!Next \/ UNCHANGED <<Life, guards>>
  BY DEF Promise!vars
<1> USE DEF Life
<1>1. /\ held \in [Tasks -> [Idx -> Ptrs]] /\ held' \in [Tasks -> [Idx -> Ptrs]]
      /\ status \in [Objs -> Status] /\ status' \in [Objs -> Status]
      /\ mine \in [Tasks -> Ptrs] /\ victim \in [Tasks -> Ptrs]
      /\ cell \in [Cells -> Ptrs] /\ ptr \in [Tasks -> Ptrs]
      /\ retired \in [Tasks -> SUBSET Objs] /\ idx \in [Tasks -> Idx]
  BY DEF Inv, TypeInv, TypeOK, ListTypeOK, ClientTypeOK
<1>2. Placed /\ RetiredOnce
  BY DEF Inv
<1>3. held' = held => guards' = guards
  BY DEF guards
<1>4. ASSUME held' = held,
             \A o \in Objs : status'[o] = status[o]
                 \/ {status[o], status'[o]} \subseteq Status \ {"free", "retired"}
      PROVE  UNCHANGED <<Life, guards>>
  <2>1. \A o \in Objs : Life'[o] = Life[o]
    BY <1>4
  <2> QED
    BY <1>3, <1>4, <2>1
<1>5. ASSUME NEW t \in Tasks, NEW o \in Objs, o \in guards[t]
      PROVE  status[o] \notin {"free", "private"}
  BY <1>1, <1>5, GuardsOf DEF Inv, Holding, Protects
<1>6. ASSUME NEW t \in Tasks, AllocCount(t) PROVE Promise!Next
  <2>1. PICK o \in Objs : Malloc(t, o)
    BY <1>6 DEF AllocCount
  <2>2. Promise!Alloc(o)
    BY <1>1, <1>3, <1>6, <2>1 DEF AllocCount, Malloc, Promise!Alloc, given
  <2> QED
    BY <2>2 DEF Promise!Next
<1>7. ASSUME NEW t \in Tasks, Rideable(t)
      PROVE  Promise!Next \/ UNCHANGED <<Life, guards>>
  <2>0. held' = held
    BY <1>7 DEF Rideable, given
  <2>1. CASE Discard(t)
    <3>1. mine[t] \in Objs /\ status[mine[t]] = "private"
      BY <1>1, <1>2, <2>1 DEF Discard, Placed, Ptrs
    <3>2. \A u \in Tasks : mine[t] \notin guards[u]
      BY <1>5, <3>1
    <3>3. Life' = [Life EXCEPT ![mine[t]] = "free"]
      BY <1>1, <2>1 DEF Discard
    <3>4. PICK o \in Objs : o = mine[t]
      BY <3>1
    <3>5. Promise!Discard(o)
      BY <1>3, <2>0, <3>1, <3>2, <3>3, <3>4 DEF Promise!Discard
    <3> QED
      BY <3>5 DEF Promise!Next
  <2>2. ASSUME NEW c \in Cells, Link(t, c) PROVE UNCHANGED <<Life, guards>>
    BY <1>1, <1>2, <1>4, <2>0, <2>2 DEF Link, Placed, Status
  <2>3. ASSUME NEW c \in Cells, Unlink(t, c) PROVE UNCHANGED <<Life, guards>>
    BY <1>1, <1>2, <1>4, <2>0, <2>3 DEF Unlink, Placed, Status
  <2> QED
    BY <1>7, <2>1, <2>2, <2>3 DEF Rideable
<1>8. ASSUME NEW t \in Tasks, Retire(t) PROVE Promise!Next
  <2>1. victim[t] \in Objs /\ status[victim[t]] = "unlinked"
    BY <1>1, <1>2, <1>8 DEF Retire, Push, HandOver, Placed, Ptrs
  <2>2. Life' = [Life EXCEPT ![victim[t]] = "retired"]
    BY <1>1, <1>8 DEF Retire, Push, HandOver
  <2>3. guards' = guards
    BY <1>3, <1>8 DEF Retire, given
  <2>4. PICK o \in Objs : o = victim[t]
    BY <2>1
  <2>5. Promise!Retire(o)
    BY <2>1, <2>2, <2>3, <2>4 DEF Promise!Retire
  <2> QED
    BY <2>5 DEF Promise!Next
<1>9. ASSUME NEW t \in Tasks, Sweep(t) PROVE Promise!Next
  <2> DEFINE dead == {o \in retired[t] : CanDelete(t, o)}
  <2>1. Free(dead) /\ held' = held
    BY <1>9 DEF Sweep, Reclaim, given
  <2>2. \A o \in dead : o \in Objs /\ status[o] = "retired"
    BY <1>1, <1>2 DEF RetiredOnce
  <2>3. \A o \in dead : status'[o] = "free"
    BY <2>1, <2>2 DEF Free
  <2>4. ASSUME NEW u \in Tasks, NEW o \in dead PROVE o \notin guards[u]
    <3>1. SUFFICES ASSUME NEW j \in Idx, held[u][j] = o PROVE FALSE
      BY <1>1, GuardsOf
    <3>2. o # NULL /\ o \in Objs
      BY <2>2, ClientAssumption
    <3>3. Protects(u, j, o)
      BY <3>1, <3>2 DEF Inv, Holding
    <3>4. reservations' = reservations /\ Next
      BY <1>9 DEF Sweep, Next, Step
    <3>5. Protects(u, j, o)'
      BY <3>2, <3>3, <3>4, ProtectsKept
    <3> QED
      BY <2>3, <3>5 DEF Protects
  <2>5. Life' = [o \in Objs |-> IF o \in dead THEN "free" ELSE Life[o]]
    BY <2>1 DEF Free
  <2>6. guards' = guards
    BY <1>3, <2>1
  <2> HIDE DEF dead
  <2>7. \A u \in Tasks : guards[u] \intersect dead = {}
    BY <2>4
  <2>8. PICK S \in SUBSET Objs : S = dead
    BY <2>2
  <2>9. Promise!Reclaim(S)
    BY <2>2, <2>5, <2>6, <2>7, <2>8 DEF Promise!Reclaim
  <2> QED
    BY <2>9 DEF Promise!Next
<1>10. ASSUME UNCHANGED clientVars, NEW t \in Tasks, NEW J \in SUBSET Idx,
              held' = [held EXCEPT ![t] = [j \in Idx |->
                           IF j \in J THEN NULL ELSE held[t][j]]]
       PROVE  Promise!Next
  <2>1. \A u \in Tasks \ {t} : guards'[u] = guards[u]
    BY <1>1, <1>10 DEF guards
  <2>2. guards'[t] \subseteq guards[t] /\ guards[t] \subseteq Objs
    BY <1>1, <1>10 DEF guards, Ptrs
  <2>3. PICK S \in SUBSET Objs : S = guards[t] \ guards'[t]
    BY <2>2
  <2>4. guards'[t] = guards[t] \ S
    BY <2>2, <2>3
  <2>5. guards' = [guards EXCEPT ![t] = @ \ S]
    BY <2>1, <2>4 DEF guards
  <2>6. Life' = Life
    BY <1>10 DEF clientVars
  <2>7. Promise!Release(t, S)
    BY <2>5, <2>6 DEF Promise!Release
  <2> QED
    BY <2>7 DEF Promise!Next
<1>11. ASSUME NEW t \in Tasks, NEW c \in Cells, NEW i \in Idx, NEW x,
              Begin(t, x, c, i)
       PROVE  Promise!Next
  <2>1. held' = [held EXCEPT ![t] = [j \in Idx |->
                     IF j \in {i} THEN NULL ELSE held[t][j]]]
    BY <1>1, <1>11 DEF Begin
  <2>2. UNCHANGED clientVars
    BY <1>11 DEF Begin
  <2> QED
    BY <1>10, <2>1, <2>2
<1>12. ASSUME NEW t \in Tasks, Clear(t) PROVE Promise!Next
  <2>1. held' = [held EXCEPT ![t] = [j \in Idx |->
                     IF j \in Idx THEN NULL ELSE held[t][j]]]
    BY <1>1, <1>12 DEF Clear
  <2>2. UNCHANGED clientVars
    BY <1>12 DEF Clear
  <2> QED
    BY <1>10, <2>1, <2>2
<1>13. ASSUME NEW t \in Tasks, CheckSame(t)
       PROVE  Promise!Next \/ UNCHANGED <<Life, guards>>
  <2>1. UNCHANGED clientVars
    BY <1>13 DEF CheckSame
  <2>2. Life' = Life
    BY <2>1 DEF clientVars
  <2>3. CASE held' = held
    BY <1>3, <2>2, <2>3
  <2>4. CASE /\ pc[t] = "check" /\ op[t] = "read"
             /\ epoch = reservations[t][idx[t]]
             /\ held' = [held EXCEPT ![t][idx[t]] = ptr[t]]
    <3>1. held[t][idx[t]] = NULL
      BY <2>4 DEF Inv, TypeInv, Control
    <3>2. CASE ptr[t] = NULL
      <4>1. held' = held
        BY <1>1, <2>4, <3>1, <3>2
      <4> QED
        BY <1>3, <2>2, <4>1
    <3>3. CASE ptr[t] # NULL
      <4>1. ptr[t] \in Objs /\ status[ptr[t]] # "free"
        BY <1>1, <2>4, <3>3 DEF Ptrs, Inv, Checking, Protects
      <4>2. \A u \in Tasks \ {t} : guards'[u] = guards[u]
        BY <1>1, <2>4 DEF guards
      <4>3. guards'[t] = guards[t] \union {ptr[t]}
        BY <1>1, <2>4, <3>1, <3>3 DEF guards
      <4>4. guards' = [guards EXCEPT ![t] = @ \union {ptr[t]}]
        BY <4>2, <4>3 DEF guards
      <4>5. Promise!Acquire(t, ptr[t])
        BY <2>2, <4>1, <4>4 DEF Promise!Acquire
      <4> QED
        BY <4>1, <4>5 DEF Promise!Next
    <3> QED
      BY <3>2, <3>3
  <2> QED
    BY <1>13, <2>3, <2>4 DEF CheckSame
<1>14. ASSUME NEW t \in Tasks,
              \/ AllocBirth(t) \/ ReadLoad(t) \/ CheckNew(t) \/ StoreEpoch(t)
              \/ Validate(t) \/ ClearSlot(t) \/ CopySlot(t)
       PROVE  UNCHANGED <<Life, guards>>
  <2>1. held' = held /\ status' = status
    BY <1>14 DEF AllocBirth, ReadLoad, CheckNew, StoreEpoch, Validate,
                 ClearSlot, CopySlot, given, clientVars
  <2> QED
    BY <1>4, <2>1
<1>15. CASE UNCHANGED vars
  BY <1>4, <1>15 DEF vars, clientVars, given
<1> QED
  BY <1>6, <1>7, <1>8, <1>9, <1>11, <1>12, <1>13, <1>14, <1>15
     DEF Next, Step, Call, Read, Reserve

\* The initial states of the tracker are initial states of the promise.
LEMMA RefineInit == Init => Promise!Init
BY DEF Init, ListInit, ClientInit, Promise!Init, Life, guards

\* Hazard eras implement the promise of a reclamation scheme to the data
\* structures, as far as read is concerned: a block goes back to the allocator
\* once, after it was retired, and while no thread holds it.
THEOREM Implementation == Spec => Refines
<1>1. Inv /\ [Next]_vars => [Promise!Next]_(Promise!vars)
  BY RefineNext, TypeNext DEF Inv
<1> QED
  BY <1>1, RefineInit, Invariance, PTL DEF Refines, Promise!Spec, Spec
=============================================================================
