---------------------------- MODULE HazardProofs ----------------------------
(***************************************************************************)
(* Hazard pointers never free a block under a reference that read or a     *)
(* validated reserve_slot gave, for any number of threads, slots, blocks   *)
(* and cells, and whatever is freed and allocated again meanwhile.         *)
(***************************************************************************)
EXTENDS HazardTracker, FiniteSetTheorems, TLAPS

-----------------------------------------------------------------------------
\* Every block is in one place: in a cell, with a thread, or on one list.
ListInv == ListTypeOK /\ Placed /\ RetiredOnce

\* The steps of a rideable between the calls of the tracker.
ClientStep(t) ==
    \/ \E o \in Objs : Malloc(t, o)
    \/ Discard(t)
    \/ \E c \in Cells : Link(t, c) \/ Unlink(t, c)

\* At the start every block is with the allocator.
LEMMA ListInitInv == ListInit => ListInv
BY ClientAssumption
   DEF ListInit, ListInv, ListTypeOK, RetiredOnce, ClientInit, ClientTypeOK, Placed, Ptrs, Status

\* A block moves from the allocator to a thread, between a thread and a cell,
\* or from a thread back to the allocator.
LEMMA ClientStepInv ==
  ASSUME ListInv, NEW t \in Tasks, ClientStep(t), retired' = retired
  PROVE  ListInv'
<1>1. CASE \E o \in Objs : Malloc(t, o)
  BY <1>1, ClientAssumption
     DEF ListInv, ListTypeOK, ClientTypeOK, Placed, Ptrs, Status, RetiredOnce, Malloc
<1>2. CASE Discard(t)
  BY <1>2, ClientAssumption
     DEF ListInv, ListTypeOK, ClientTypeOK, Placed, Ptrs, Status, RetiredOnce, Discard
<1>3. CASE \E c \in Cells : Link(t, c)
  BY <1>3, ClientAssumption
     DEF ListInv, ListTypeOK, ClientTypeOK, Placed, Ptrs, Status, RetiredOnce, Link
<1>4. CASE \E c \in Cells : Unlink(t, c)
  BY <1>4, ClientAssumption
     DEF ListInv, ListTypeOK, ClientTypeOK, Placed, Ptrs, Status, RetiredOnce, Unlink
<1> QED
  BY <1>1, <1>2, <1>3, <1>4 DEF ClientStep

\* retire moves the node from its thread to the thread's list.
LEMMA PushInv ==
  ASSUME ListInv, NEW t \in Tasks, Push(t)
  PROVE  ListInv'
BY ClientAssumption
   DEF ListInv, ListTypeOK, ClientTypeOK, Placed, Ptrs, Status, RetiredOnce, Push, HandOver

\* empty gives nodes of the thread's list back to the allocator.
LEMMA ReclaimInv ==
  ASSUME ListInv, NEW t \in Tasks, NEW dead \in SUBSET retired[t], Reclaim(t, dead)
  PROVE  ListInv'
BY ClientAssumption
   DEF ListInv, ListTypeOK, ClientTypeOK, Placed, Ptrs, Status, RetiredOnce, Reclaim, Free

\* Nothing else changes the places of the blocks.
LEMMA ListUnchanged ==
  ASSUME ListInv, UNCHANGED <<clientVars, retired>>
  PROVE  ListInv'
BY DEF ListInv, ListTypeOK, ClientTypeOK, Placed, RetiredOnce, clientVars

-----------------------------------------------------------------------------

\* What the locals of a call hold while it runs.
Control ==
    \A t \in Tasks :
        /\ pc[t] \in {"load", "store", "recheck"} =>
              src[t] \in Cells /\ held[t][idx[t]] = NULL
        /\ pc[t] = "recheck" => slots[t][idx[t]] = ptr[t]
        /\ pc[t] = "clear" => \A j \in Idx : held[t][j] = NULL
        /\ IF pc[t] = "copy" THEN pos[t] \in SlotIds ELSE pos[t] = FirstPos

\* Thread u, inside empty, has already copied slot j of thread t.
Copied(u, t, j) ==
    \/ pc[u] = "sweep"
    \/ /\ pc[u] = "copy"
       /\ pos[u][1] > t \/ (pos[u][1] = t /\ pos[u][2] > j)

\* Slot j of thread t protects block o: it holds o, and whoever may sweep o
\* and has read the slot saw that.
Protects(t, j, o) ==
    /\ status[o] \notin {"free", "private"}
    /\ slots[t][j] = o
    /\ \A u \in Tasks :
          o \in retired[u] /\ Copied(u, t, j) => local[u][t][j] = o

\* Every reference that a thread holds.
Holding ==
    \A t \in Tasks, j \in Idx : held[t][j] # NULL => Protects(t, j, held[t][j])

TypeInv == TypeOK /\ Control
Inv == TypeInv /\ Placed /\ RetiredOnce /\ Holding

\* The slots of a thread in the order in which clear_all goes through them.
LEMMA IndexOrder ==
  ASSUME NEW j \in Idx
  PROVE  /\ j < HPNum => j + 1 \in Idx /\ j # HPNum
         /\ j = HPNum => ~(j < HPNum)
BY ParamAssumption DEF Idx

\* The slots are visited one after the other, the last one before EndPos.
LEMMA AfterType ==
  ASSUME NEW s \in SlotIds
  PROVE  After(s) \in SlotIds \/ After(s) = EndPos
BY ParamAssumption, ClientAssumption DEF After, SlotIds, EndPos, Idx, Tasks

\* The first slot is a slot.
LEMMA FirstPosType == FirstPos \in SlotIds /\ 1 \in Idx
BY ParamAssumption, ClientAssumption DEF FirstPos, SlotIds, Idx, Tasks

\* What lies before the slot after s is s itself or lies before s.
LEMMA AfterOrder ==
  ASSUME NEW s \in SlotIds, NEW t \in Tasks, NEW j \in Idx,
         \/ After(s)[1] > t
         \/ After(s)[1] = t /\ After(s)[2] > j
  PROVE  s = <<t, j>> \/ s[1] > t \/ (s[1] = t /\ s[2] > j)
<1>1. /\ t \in Int /\ j \in Int /\ s[1] \in Int /\ s[2] \in Int
      /\ s = <<s[1], s[2]>> /\ j >= 1 /\ s[2] >= 1 /\ j <= HPNum /\ s[2] <= HPNum
      /\ HPNum \in Int
  BY ParamAssumption, ClientAssumption DEF SlotIds, Tasks, Idx
<1>2. CASE s[2] < HPNum
  <2>1. After(s)[1] = s[1] /\ After(s)[2] = s[2] + 1
    BY <1>2 DEF After
  <2> QED
    BY <1>1, <2>1
<1>3. CASE ~(s[2] < HPNum)
  <2>1. After(s)[1] = s[1] + 1 /\ After(s)[2] = 1 /\ s[2] = HPNum
    BY <1>1, <1>3 DEF After
  <2> QED
    BY <1>1, <2>1
<1> QED
  BY <1>2, <1>3

\* The counter of retirements starts over before it passes freq.
LEMMA CounterType ==
  /\ 1 \in 0 .. Freq
  /\ \A n \in 0 .. Freq : n # Freq => n + 1 \in 0 .. Freq
BY ParamAssumption

\* The types are preserved by every step.
LEMMA TypeNext == TypeInv /\ [Next]_vars => TypeInv'
<1> SUFFICES ASSUME TypeInv, [Next]_vars PROVE TypeInv'
  OBVIOUS
<1> USE FirstPosType
    DEF TypeInv, Control, TypeOK, ListTypeOK, ClientTypeOK, PC, Ptrs, Goto,
        NoSlots
<1>1. ASSUME NEW t \in Tasks, Rideable(t) PROVE TypeInv'
  <2> USE <1>1 DEF Rideable, Status, garbage, frame
  <2>1. ASSUME NEW o \in Objs, Malloc(t, o) PROVE TypeInv'
    BY <2>1 DEF Malloc
  <2>2. CASE Discard(t)
    BY <2>2 DEF Discard
  <2>3. ASSUME NEW c \in Cells, Link(t, c) PROVE TypeInv'
    BY <2>3 DEF Link
  <2>4. ASSUME NEW c \in Cells, Unlink(t, c) PROVE TypeInv'
    BY <2>4 DEF Unlink
  <2> QED
    BY <2>1, <2>2, <2>3, <2>4
<1>2. ASSUME NEW t \in Tasks, NEW c \in Cells, NEW j \in Idx, Read(t, c, j)
      PROVE  TypeInv'
  BY <1>2 DEF Read, Begin, clientVars, garbage
<1>3. ASSUME NEW t \in Tasks, NEW c \in Cells, NEW j \in Idx, Reserve(t, c, j)
      PROVE  TypeInv'
  BY <1>3 DEF Reserve, Begin, clientVars, garbage
<1>4. ASSUME NEW t \in Tasks, ReadLoad(t) PROVE TypeInv'
  BY <1>4 DEF ReadLoad, clientVars, garbage
<1>5. ASSUME NEW t \in Tasks, StoreSlot(t) PROVE TypeInv'
  BY <1>5 DEF StoreSlot, clientVars, garbage, frame
<1>6. ASSUME NEW t \in Tasks, RecheckSame(t) PROVE TypeInv'
  <2>1. held' = [held EXCEPT ![t][idx[t]] = ptr[t]]
    BY <1>6 DEF RecheckSame
  <2>2. held' \in [Tasks -> [Idx -> Ptrs]]
    BY <2>1
  <2>3. TypeOK'
    BY <1>6, <2>2 DEF RecheckSame, Return, clientVars, garbage
  <2>4. Control'
    BY <1>6 DEF RecheckSame, Return
  <2> QED
    BY <2>3, <2>4
<1>7. ASSUME NEW t \in Tasks, RecheckChanged(t) PROVE TypeInv'
  <2> USE <1>7 DEF RecheckChanged, clientVars, garbage, frame
  <2>1. CASE Return(t)
    BY <2>1 DEF Return
  <2>2. CASE Goto(t, "load") /\ UNCHANGED frame
    BY <2>2
  <2> QED
    BY <2>1, <2>2
<1>8. ASSUME NEW t \in Tasks, Clear(t) PROVE TypeInv'
  BY <1>8 DEF Clear, clientVars, garbage, frame
<1>9. ASSUME NEW t \in Tasks, ClearSlot(t) PROVE TypeInv'
  <2>0. idx[t] \in Idx
    OBVIOUS
  <2> USE <1>9 DEF ClearSlot, clientVars, garbage
  <2>1. CASE idx[t] < HPNum
    <3>1. idx[t] + 1 \in Idx
      BY <2>0, <2>1, IndexOrder
    <3>2. idx[t] # HPNum
      BY <2>0, <2>1, IndexOrder
    <3> QED
      BY <3>1, <3>2, ZenonT(40)
  <2>2. CASE idx[t] = HPNum
    <3>1. ~(idx[t] < HPNum)
      BY <2>0, <2>2, IndexOrder
    <3>2. TypeOK'
      BY <2>2, <3>1
    <3>3. Control'
      BY <2>2, <3>1
    <3> QED
      BY <3>2, <3>3
  <2> QED
    BY <2>1, <2>2
<1>10. ASSUME NEW t \in Tasks, Retire(t) PROVE TypeInv'
  <2> USE <1>10 DEF Retire, frame
  <2>1. ListTypeOK'
    BY DEF Push, HandOver, Status
  <2>2. cntrs' \in [Tasks -> 0 .. Freq]
    <3>1. /\ cntrs[t] # Freq => cntrs[t] + 1 \in 0 .. Freq
          /\ 1 \in 0 .. Freq
      BY CounterType
    <3>2. \/ cntrs' = [cntrs EXCEPT ![t] = 1]
          \/ cntrs[t] # Freq /\ cntrs' = [cntrs EXCEPT ![t] = cntrs[t] + 1]
      OBVIOUS
    <3> QED
      BY <3>1, <3>2
  <2>3. TypeOK'
    BY <2>1, <2>2
  <2>4. Control'
    OBVIOUS
  <2> QED
    BY <2>3, <2>4
<1>11. ASSUME NEW t \in Tasks, CopySlot(t) PROVE TypeInv'
  <2>1. /\ pos[t] \in SlotIds
        /\ pos[t][1] \in Tasks /\ pos[t][2] \in Idx
    BY <1>11 DEF CopySlot, SlotIds
  <2>2. local' \in [Tasks -> [Tasks -> [Idx -> Ptrs]]]
    BY <1>11, <2>1 DEF CopySlot
  <2>3. /\ pos' = [pos EXCEPT ![t] = IF After(pos[t]) = EndPos
                                     THEN FirstPos ELSE After(pos[t])]
        /\ pc' = [pc EXCEPT ![t] = IF After(pos[t]) = EndPos
                                   THEN "sweep" ELSE "copy"]
    BY <1>11 DEF CopySlot
  <2>4. After(pos[t]) # EndPos => After(pos[t]) \in SlotIds
    BY <2>1, AfterType
  <2>5. UNCHANGED <<clientVars, slots, retired, cntrs, held, frame>>
    BY <1>11 DEF CopySlot
  <2>6. TypeOK'
    BY <2>2, <2>3, <2>4, <2>5 DEF clientVars, frame
  <2>7. Control'
    BY <1>11, <2>3, <2>4, <2>5 DEF CopySlot, frame
  <2> QED
    BY <2>6, <2>7
<1>12. ASSUME NEW t \in Tasks, Sweep(t) PROVE TypeInv'
  BY <1>12 DEF Sweep, Reclaim, Free, Status, frame
<1>13. CASE UNCHANGED vars
  BY <1>13 DEF vars, clientVars, garbage, frame
<1> QED
  BY <1>1, <1>2, <1>3, <1>4, <1>5, <1>6, <1>7, <1>8, <1>9, <1>10, <1>11,
     <1>12, <1>13 DEF Next, Step, Call

\* Every block stays in its one place.
LEMMA ListNext == Inv /\ [Next]_vars => ListInv'
<1> SUFFICES ASSUME Inv, [Next]_vars PROVE ListInv'
  OBVIOUS
<1>0. ListInv
  BY DEF Inv, TypeInv, TypeOK, ListInv
<1>1. ASSUME NEW t \in Tasks, Rideable(t) PROVE ListInv'
  BY <1>0, <1>1, ClientStepInv DEF Rideable, ClientStep, garbage
<1>2. ASSUME NEW t \in Tasks, Retire(t) PROVE ListInv'
  BY <1>0, <1>2, PushInv DEF Retire
<1>3. ASSUME NEW t \in Tasks, Sweep(t) PROVE ListInv'
  BY <1>0, <1>3, ReclaimInv DEF Sweep
<1>4. ASSUME NEW t \in Tasks,
             \/ ReadLoad(t) \/ StoreSlot(t) \/ RecheckSame(t)
             \/ RecheckChanged(t) \/ Clear(t) \/ ClearSlot(t) \/ CopySlot(t)
             \/ \E c \in Cells, j \in Idx : Read(t, c, j) \/ Reserve(t, c, j)
      PROVE  UNCHANGED <<clientVars, retired>>
  BY <1>4 DEF ReadLoad, StoreSlot, RecheckSame, RecheckChanged, Clear,
              ClearSlot, CopySlot, Read, Reserve, Begin, garbage
<1>5. CASE UNCHANGED vars
  BY <1>0, <1>5, ListUnchanged DEF vars, garbage
<1> QED
  BY <1>0, <1>1, <1>2, <1>3, <1>4, <1>5, ListUnchanged DEF Next, Step, Call

-----------------------------------------------------------------------------
\* A step that leaves the slot and the block alone, and lets no thread pass the
\* slot unseen, leaves the protection in place.
LEMMA ProtectsFrame ==
  ASSUME NEW t \in Tasks, NEW j \in Idx, NEW o \in Objs, Protects(t, j, o),
         slots'[t][j] = slots[t][j],
         status'[o] \notin {"free", "private"},
         \A u \in Tasks :
             o \in retired'[u] /\ Copied(u, t, j)' =>
                 \/ local'[u][t][j] = o
                 \/ /\ o \in retired[u] /\ Copied(u, t, j)
                    /\ local'[u][t][j] = local[u][t][j]
  PROVE  Protects(t, j, o)'
BY DEF Protects

\* A block that a slot protects is not freed by any step, and stays protected
\* as long as its slot is not written.
LEMMA ProtectsKept ==
  ASSUME Inv, TypeInv', Next, NEW t \in Tasks, NEW j \in Idx, NEW o \in Objs,
         Protects(t, j, o), slots'[t][j] = slots[t][j]
  PROVE  Protects(t, j, o)'
<1>1. status[o] \notin {"free", "private"} /\ slots[t][j] = o
  BY DEF Protects
<1>2. /\ status \in [Objs -> Status] /\ cell \in [Cells -> Ptrs]
      /\ mine \in [Tasks -> Ptrs] /\ victim \in [Tasks -> Ptrs]
      /\ retired \in [Tasks -> SUBSET Objs] /\ pc \in [Tasks -> PC]
      /\ local \in [Tasks -> [Tasks -> [Idx -> Ptrs]]]
      /\ pos \in [Tasks -> SlotIds \union {EndPos}]
      /\ Placed /\ RetiredOnce
  BY DEF Inv, TypeInv, TypeOK, ListTypeOK, ClientTypeOK
<1>3. \A u \in Tasks : pc'[u] = pc[u] /\ pos'[u] = pos[u]
                          => (Copied(u, t, j)' => Copied(u, t, j))
  BY DEF Copied
<1>4. ASSUME UNCHANGED <<retired, local>>,
             status'[o] = status[o] \/ status'[o] \in {"linked", "unlinked"},
             \A u \in Tasks : Copied(u, t, j)' => Copied(u, t, j)
      PROVE  Protects(t, j, o)'
  BY <1>1, <1>4, ProtectsFrame
<1>5. ASSUME NEW u \in Tasks, NEW l \in PC \ {"copy", "sweep"}, Goto(u, l),
             pos' = pos
      PROVE  \A v \in Tasks : Copied(v, t, j)' => Copied(v, t, j)
  <2>1. \A v \in Tasks \ {u} : pc'[v] = pc[v]
    BY <1>2, <1>5 DEF Goto
  <2>2. ~ Copied(u, t, j)'
    BY <1>2, <1>5 DEF Goto, Copied
  <2> QED
    BY <1>3, <1>5, <2>1, <2>2
<1>6. ASSUME UNCHANGED <<pc, pos>>
      PROVE  \A v \in Tasks : Copied(v, t, j)' => Copied(v, t, j)
  BY <1>3, <1>6
<1>7. ASSUME NEW u \in Tasks, Rideable(u) PROVE Protects(t, j, o)'
  <2>1. status'[o] = status[o] \/ status'[o] \in {"linked", "unlinked"}
    <3>1. ASSUME NEW p \in Objs, Malloc(u, p) PROVE status'[o] = status[o]
      BY <1>1, <1>2, <3>1 DEF Malloc
    <3>2. CASE Discard(u)
      BY <1>1, <1>2, <3>2 DEF Discard, Placed
    <3>3. ASSUME NEW c \in Cells, Link(u, c) \/ Unlink(u, c)
          PROVE  status'[o] = status[o] \/ status'[o] \in {"linked", "unlinked"}
      BY <1>2, <3>3 DEF Link, Unlink
    <3> QED
      BY <1>7, <3>1, <3>2, <3>3 DEF Rideable
  <2> QED
    BY <1>4, <1>6, <1>7, <2>1 DEF Rideable, garbage
<1>8. ASSUME NEW u \in Tasks, NEW c \in Cells, NEW i \in Idx, NEW x,
             Begin(u, x, c, i)
      PROVE  Protects(t, j, o)'
  BY <1>4, <1>5, <1>8 DEF Begin, PC, clientVars, garbage
<1>9. ASSUME NEW u \in Tasks, ReadLoad(u) \/ StoreSlot(u)
      PROVE  Protects(t, j, o)'
  BY <1>4, <1>5, <1>9 DEF ReadLoad, StoreSlot, PC, clientVars, garbage
<1>10. ASSUME NEW u \in Tasks, RecheckSame(u) \/ RecheckChanged(u)
       PROVE  Protects(t, j, o)'
  <2>1. Goto(u, "idle") \/ Goto(u, "load")
    BY <1>10 DEF RecheckSame, RecheckChanged, Return
  <2>2. UNCHANGED <<status, retired, local, pos>>
    BY <1>10 DEF RecheckSame, RecheckChanged, clientVars, garbage
  <2> QED
    BY <1>4, <1>5, <2>1, <2>2 DEF PC
<1>11. ASSUME NEW u \in Tasks, Clear(u) \/ ClearSlot(u)
       PROVE  Protects(t, j, o)'
  <2>1. Goto(u, "clear") \/ Goto(u, "idle") \/ UNCHANGED pc
    BY <1>11 DEF Clear, ClearSlot
  <2>2. UNCHANGED <<status, retired, local, pos>>
    BY <1>11 DEF Clear, ClearSlot, clientVars, garbage
  <2> QED
    BY <1>4, <1>5, <1>6, <2>1, <2>2 DEF PC
<1>12. ASSUME NEW u \in Tasks, Retire(u) PROVE Protects(t, j, o)'
  <2>1. victim[u] \in Objs /\ status[victim[u]] = "unlinked"
    BY <1>2, <1>12 DEF Retire, Push, HandOver, Placed, Ptrs
  <2>2. status'[o] \notin {"free", "private"}
    BY <1>1, <1>2, <1>12, <2>1 DEF Retire, Push, HandOver
  <2>3. ~ Copied(u, t, j)'
    <3>1. pc[u] = "idle" /\ pos'[u] = FirstPos
      BY <1>12 DEF Retire, Inv, TypeInv, Control
    <3>2. pc'[u] # "sweep"
      BY <1>2, <1>12, <3>1 DEF Retire, Goto
    <3>3. t \in Nat /\ j \in Nat /\ t >= 1 /\ j >= 1
      BY ClientAssumption, ParamAssumption DEF Tasks, Idx
    <3> QED
      BY <3>1, <3>2, <3>3 DEF Copied, FirstPos
  <2>4. \A v \in Tasks \ {u} :
           /\ Copied(v, t, j)' => Copied(v, t, j)
           /\ retired'[v] = retired[v]
    BY <1>2, <1>3, <1>12 DEF Retire, Push, Goto
  <2>5. local' = local
    BY <1>12 DEF Retire
  <2> QED
    BY <2>2, <2>3, <2>4, <2>5, ProtectsFrame
<1>13. ASSUME NEW u \in Tasks, CopySlot(u) PROVE Protects(t, j, o)'
  <2> DEFINE s == pos[u]
  <2>1. UNCHANGED <<status, retired, slots>>
    BY <1>13 DEF CopySlot, clientVars
  <2>2. \A v \in Tasks \ {u} :
           /\ Copied(v, t, j)' => Copied(v, t, j)
           /\ local'[v] = local[v]
    BY <1>2, <1>3, <1>13 DEF CopySlot, Goto
  <2>3. s \in SlotIds /\ s[1] \in Tasks /\ s[2] \in Idx
    BY <1>13 DEF CopySlot, Inv, TypeInv, Control, SlotIds
  <2>4. CASE s = <<t, j>>
    <3>1. local'[u][t][j] = o
      BY <1>1, <1>2, <1>13, <2>4 DEF CopySlot
    <3> QED
      BY <1>1, <2>1, <2>2, <3>1, ProtectsFrame
  <2>5. CASE s # <<t, j>>
    <3>1. local'[u][t][j] = local[u][t][j]
      BY <1>2, <1>13, <2>3, <2>5 DEF CopySlot, SlotIds
    <3>2. Copied(u, t, j)' => Copied(u, t, j)
      <4>1. CASE After(s) = EndPos
        <5>1. pc[u] = "copy"
          BY <1>13 DEF CopySlot
        <5>2. \/ After(s)[1] > t
              \/ After(s)[1] = t /\ After(s)[2] > j
          BY <4>1, ClientAssumption DEF EndPos, Tasks
        <5> QED
          BY <2>3, <2>5, <5>1, <5>2, AfterOrder DEF Copied
      <4>2. CASE After(s) # EndPos
        <5>1. pc[u] = "copy" /\ pc'[u] = "copy" /\ pos'[u] = After(s)
          BY <1>2, <1>13, <4>2 DEF CopySlot
        <5> QED
          BY <2>3, <2>5, <5>1, AfterOrder DEF Copied
      <4> QED
        BY <4>1, <4>2
    <3> QED
      BY <1>1, <2>1, <2>2, <3>1, <3>2, ProtectsFrame
  <2> QED
    BY <2>4, <2>5
<1>14. ASSUME NEW u \in Tasks, Sweep(u) PROVE Protects(t, j, o)'
  <2>1. UNCHANGED <<slots, pos>>
    BY <1>14 DEF Sweep
  <2>2. /\ ~ Copied(u, t, j)'
        /\ \A v \in Tasks \ {u} : Copied(v, t, j)' => Copied(v, t, j)
    BY <1>2, <1>3, <1>14, <2>1 DEF Sweep, Goto, Copied
  <2>3. \A v \in Tasks \ {u} : retired'[v] = retired[v] /\ local'[v] = local[v]
    BY <1>2, <1>14 DEF Sweep, Reclaim
  <2>4. status'[o] = status[o]
    <3>1. CASE o \in retired[u]
      <4>1. local[u][t][j] = o
        BY <1>14, <3>1 DEF Sweep, Copied, Protects
      <4>2. Danger(u, o)
        BY <4>1 DEF Danger
      <4> QED
        BY <1>14, <4>2 DEF Sweep, Reclaim, Free
    <3>2. CASE o \notin retired[u]
      BY <1>14, <3>2 DEF Sweep, Reclaim, Free
    <3> QED
      BY <3>1, <3>2
  <2> QED
    BY <1>1, <2>1, <2>2, <2>3, <2>4, ProtectsFrame
<1> QED
  BY <1>7, <1>8, <1>9, <1>10, <1>11, <1>12, <1>13, <1>14
     DEF Next, Step, Call, Read, Reserve

\* A reference is handed out when the cell still has what the slot holds: the
\* block is linked then, so it is on no list, and whoever retires it later
\* copies the slots after that.
LEMMA HoldingNext == Inv /\ TypeInv' /\ Next => Holding'
<1> SUFFICES ASSUME Inv, TypeInv', Next PROVE Holding'
  OBVIOUS
<1>0. held' \in [Tasks -> [Idx -> Ptrs]]
  BY DEF TypeInv, TypeOK
<1> SUFFICES ASSUME NEW t \in Tasks, NEW j \in Idx, NEW o \in Objs,
                    held'[t][j] = o
             PROVE  Protects(t, j, o)'
  BY <1>0 DEF Holding, Protects, Copied, Ptrs
<1>1. /\ held \in [Tasks -> [Idx -> Ptrs]] /\ idx \in [Tasks -> Idx]
      /\ slots \in [Tasks -> [Idx -> Ptrs]] /\ ptr \in [Tasks -> Ptrs]
  BY DEF Inv, TypeInv, TypeOK
<1>2. o # NULL
  BY ClientAssumption
<1>3. ASSUME held[t][j] = o, slots'[t][j] = slots[t][j]
      PROVE  Protects(t, j, o)'
  BY <1>2, <1>3, ProtectsKept DEF Inv, Holding
<1>4. ASSUME NEW u \in Tasks,
             \/ Rideable(u) \/ ReadLoad(u) \/ RecheckChanged(u) \/ Retire(u)
             \/ CopySlot(u) \/ Sweep(u)
      PROVE  UNCHANGED <<held, slots>>
  BY <1>4 DEF Rideable, ReadLoad, RecheckChanged, Retire, CopySlot, Sweep
<1>5. ASSUME NEW u \in Tasks, NEW c \in Cells, NEW i \in Idx, NEW x,
             Begin(u, x, c, i)
      PROVE  Protects(t, j, o)'
  BY <1>1, <1>2, <1>3, <1>5 DEF Begin
<1>6. ASSUME NEW u \in Tasks, RecheckSame(u) PROVE Protects(t, j, o)'
  <2>1. /\ slots' = slots /\ pc[u] = "recheck" /\ cell[src[u]] = ptr[u]
        /\ held' = [held EXCEPT ![u][idx[u]] = ptr[u]]
    BY <1>6 DEF RecheckSame
  <2>2. CASE u = t /\ idx[u] = j
    <3>1. ptr[t] = o
      BY <1>1, <2>1, <2>2
    <3>2. src[t] \in Cells /\ slots[t][j] = o
      BY <2>1, <2>2, <3>1 DEF Inv, TypeInv, Control
    <3>3. status[o] = "linked"
      BY <1>2, <2>1, <2>2, <3>1, <3>2 DEF Inv, Placed
    <3>4. \A v \in Tasks : o \notin retired[v]
      BY <3>3 DEF Inv, RetiredOnce
    <3>5. Protects(t, j, o)
      BY <3>2, <3>3, <3>4 DEF Protects
    <3> QED
      BY <2>1, <3>5, ProtectsKept
  <2>3. CASE ~(u = t /\ idx[u] = j)
    <3>1. held'[t][j] = held[t][j]
      BY <1>1, <2>1, <2>3
    <3> QED
      BY <1>3, <2>1, <3>1
  <2> QED
    BY <2>2, <2>3
<1>7. ASSUME NEW u \in Tasks, StoreSlot(u) PROVE Protects(t, j, o)'
  <2>1. held' = held /\ held[u][idx[u]] = NULL
    BY <1>7 DEF StoreSlot, Inv, TypeInv, Control
  <2>2. slots'[t][j] = slots[t][j]
    BY <1>1, <1>2, <1>7, <2>1 DEF StoreSlot
  <2> QED
    BY <1>3, <2>1, <2>2
<1>8. ASSUME NEW u \in Tasks, Clear(u) PROVE Protects(t, j, o)'
  BY <1>1, <1>2, <1>3, <1>8 DEF Clear, NoSlots
<1>9. ASSUME NEW u \in Tasks, ClearSlot(u) PROVE Protects(t, j, o)'
  <2>1. held' = held /\ held[u][j] = NULL
    BY <1>9 DEF ClearSlot, Inv, TypeInv, Control
  <2>2. slots'[t][j] = slots[t][j]
    BY <1>1, <1>2, <1>9, <2>1 DEF ClearSlot
  <2> QED
    BY <1>3, <2>1, <2>2
<1> QED
  BY <1>3, <1>4, <1>5, <1>6, <1>7, <1>8, <1>9 DEF Next, Step, Call, Read, Reserve

-----------------------------------------------------------------------------
\* The invariant holds at the start.
LEMMA InvInit == Init => Inv
<1> SUFFICES ASSUME Init PROVE Inv
  OBVIOUS
<1>1. ListInv
  BY ListInitInv DEF Init
<1>2. TypeOK
  BY <1>1, FirstPosType, ParamAssumption
     DEF Init, TypeOK, ListInv, PC, Ptrs, NoSlots
<1>3. Control /\ Holding
  BY DEF Init, Control, Holding, NoSlots
<1> QED
  BY <1>1, <1>2, <1>3 DEF Inv, TypeInv, ListInv

\* Every step preserves the invariant.
LEMMA InvNext == Inv /\ [Next]_vars => Inv'
<1> SUFFICES ASSUME Inv, [Next]_vars PROVE Inv'
  OBVIOUS
<1>1. TypeInv'
  BY TypeNext DEF Inv
<1>2. Placed' /\ RetiredOnce'
  BY ListNext DEF ListInv
<1>3. CASE Next
  BY <1>1, <1>2, <1>3, HoldingNext DEF Inv
<1>4. CASE UNCHANGED vars
  <2>1. Holding'
    BY <1>4 DEF vars, clientVars, garbage, frame, Inv, Holding, Protects, Copied
  <2> QED
    BY <1>1, <1>2, <2>1 DEF Inv
<1> QED
  BY <1>3, <1>4

\* The invariant holds in every reachable state.
LEMMA Invariance == Spec => []Inv
<1> QED
  BY InvInit, InvNext, PTL DEF Spec

\* Every variable keeps its type.
THEOREM TypeCorrect == Spec => []TypeOK
<1>1. Inv => TypeOK
  BY DEF Inv, TypeInv
<1> QED
  BY <1>1, Invariance, PTL

\* read and a validated reserve_slot of the hazard pointers are safe, although
\* the second load may find the pointer of another life of the block.
THEOREM ReadSafe == Spec => []HeldNeverFreed
<1>1. Inv => HeldNeverFreed
  BY DEF Inv, Holding, Protects, HeldNeverFreed
<1> QED
  BY <1>1, Invariance, PTL

-----------------------------------------------------------------------------
\* What a thread holds, slot by slot.
LEMMA GuardsOf ==
  ASSUME held \in [Tasks -> [Idx -> Ptrs]], NEW t \in Tasks
  PROVE  \A o : o \in guards[t] <=> o # NULL /\ \E j \in Idx : held[t][j] = o
BY DEF guards

\* Every step of the tracker is a step that module Reclamation allows.
LEMMA RefineNext == Inv /\ TypeInv' /\ [Next]_vars => [Promise!Next]_(Promise!vars)
<1> SUFFICES ASSUME Inv, TypeInv', [Next]_vars
             PROVE  Promise!Next \/ UNCHANGED <<Life, guards>>
  BY DEF Promise!vars
<1> USE DEF Life
<1>1. /\ held \in [Tasks -> [Idx -> Ptrs]] /\ held' \in [Tasks -> [Idx -> Ptrs]]
      /\ status \in [Objs -> Status] /\ status' \in [Objs -> Status]
      /\ mine \in [Tasks -> Ptrs] /\ victim \in [Tasks -> Ptrs]
      /\ cell \in [Cells -> Ptrs] /\ ptr \in [Tasks -> Ptrs]
      /\ retired \in [Tasks -> SUBSET Objs] /\ idx \in [Tasks -> Idx]
  BY DEF Inv, TypeInv, TypeOK, ListTypeOK, ClientTypeOK
<1>2. Placed /\ RetiredOnce
  BY DEF Inv
<1>3. held' = held => guards' = guards
  BY DEF guards
<1>4. ASSUME held' = held,
             \A o \in Objs : status'[o] = status[o]
                 \/ {status[o], status'[o]} \subseteq Status \ {"free", "retired"}
      PROVE  UNCHANGED <<Life, guards>>
  <2>1. \A o \in Objs : Life'[o] = Life[o]
    BY <1>4
  <2> QED
    BY <1>3, <1>4, <2>1
<1>5. ASSUME NEW t \in Tasks, NEW o \in Objs, o \in guards[t]
      PROVE  status[o] \notin {"free", "private"}
  BY <1>1, <1>5, GuardsOf DEF Inv, Holding, Protects
<1>6. ASSUME NEW t \in Tasks, Rideable(t)
      PROVE  Promise!Next \/ UNCHANGED <<Life, guards>>
  <2>0. held' = held
    BY <1>6 DEF Rideable
  <2>4. ASSUME NEW o \in Objs, Malloc(t, o) PROVE Promise!Next
    <3>1. Promise!Alloc(o)
      BY <1>1, <1>3, <2>0, <2>4 DEF Malloc, Promise!Alloc
    <3> QED
      BY <3>1 DEF Promise!Next
  <2>1. CASE Discard(t)
    <3>1. mine[t] \in Objs /\ status[mine[t]] = "private"
      BY <1>1, <1>2, <2>1 DEF Discard, Placed, Ptrs
    <3>2. \A u \in Tasks : mine[t] \notin guards[u]
      BY <1>5, <3>1
    <3>3. Life' = [Life EXCEPT ![mine[t]] = "free"]
      BY <1>1, <2>1 DEF Discard
    <3>4. PICK o \in Objs : o = mine[t]
      BY <3>1
    <3>5. Promise!Discard(o)
      BY <1>3, <2>0, <3>1, <3>2, <3>3, <3>4 DEF Promise!Discard
    <3> QED
      BY <3>5 DEF Promise!Next
  <2>2. ASSUME NEW c \in Cells, Link(t, c) PROVE UNCHANGED <<Life, guards>>
    BY <1>1, <1>2, <1>4, <2>0, <2>2 DEF Link, Placed, Status
  <2>3. ASSUME NEW c \in Cells, Unlink(t, c) PROVE UNCHANGED <<Life, guards>>
    BY <1>1, <1>2, <1>4, <2>0, <2>3 DEF Unlink, Placed, Status
  <2> QED
    BY <1>6, <2>1, <2>2, <2>3, <2>4 DEF Rideable
<1>7. ASSUME NEW t \in Tasks, Retire(t) PROVE Promise!Next
  <2>1. victim[t] \in Objs /\ status[victim[t]] = "unlinked"
    BY <1>1, <1>2, <1>7 DEF Retire, Push, HandOver, Placed, Ptrs
  <2>2. Life' = [Life EXCEPT ![victim[t]] = "retired"]
    BY <1>1, <1>7 DEF Retire, Push, HandOver
  <2>3. guards' = guards
    BY <1>3, <1>7 DEF Retire
  <2>4. PICK o \in Objs : o = victim[t]
    BY <2>1
  <2>5. Promise!Retire(o)
    BY <2>1, <2>2, <2>3, <2>4 DEF Promise!Retire
  <2> QED
    BY <2>5 DEF Promise!Next
<1>8. ASSUME NEW t \in Tasks, Sweep(t) PROVE Promise!Next
  <2> DEFINE dead == {o \in retired[t] : ~Danger(t, o)}
  <2>1. Free(dead) /\ held' = held
    BY <1>8 DEF Sweep, Reclaim
  <2>2. \A o \in dead : o \in Objs /\ status[o] = "retired"
    BY <1>1, <1>2 DEF RetiredOnce
  <2>3. \A o \in dead : status'[o] = "free"
    BY <2>1, <2>2 DEF Free
  <2>4. ASSUME NEW u \in Tasks, NEW o \in dead PROVE o \notin guards[u]
    <3>1. SUFFICES ASSUME NEW j \in Idx, held[u][j] = o PROVE FALSE
      BY <1>1, GuardsOf
    <3>2. o # NULL /\ o \in Objs
      BY <2>2, ClientAssumption
    <3>3. Protects(u, j, o)
      BY <3>1, <3>2 DEF Inv, Holding
    <3>4. slots' = slots /\ Next
      BY <1>8 DEF Sweep, Next, Step
    <3>5. Protects(u, j, o)'
      BY <3>2, <3>3, <3>4, ProtectsKept
    <3> QED
      BY <2>3, <3>5 DEF Protects
  <2>5. Life' = [o \in Objs |-> IF o \in dead THEN "free" ELSE Life[o]]
    BY <2>1 DEF Free
  <2>6. guards' = guards
    BY <1>3, <2>1
  <2> HIDE DEF dead
  <2>7. \A u \in Tasks : guards[u] \intersect dead = {}
    BY <2>4
  <2>8. PICK S \in SUBSET Objs : S = dead
    BY <2>2
  <2>9. Promise!Reclaim(S)
    BY <2>2, <2>5, <2>6, <2>7, <2>8 DEF Promise!Reclaim
  <2> QED
    BY <2>9 DEF Promise!Next
<1>9. ASSUME UNCHANGED clientVars, NEW t \in Tasks, NEW J \in SUBSET Idx,
              held' = [held EXCEPT ![t] = [j \in Idx |->
                           IF j \in J THEN NULL ELSE held[t][j]]]
       PROVE  Promise!Next
  <2>1. \A u \in Tasks \ {t} : guards'[u] = guards[u]
    BY <1>1, <1>9 DEF guards
  <2>2. guards'[t] \subseteq guards[t] /\ guards[t] \subseteq Objs
    BY <1>1, <1>9 DEF guards, Ptrs
  <2>3. PICK S \in SUBSET Objs : S = guards[t] \ guards'[t]
    BY <2>2
  <2>4. guards'[t] = guards[t] \ S
    BY <2>2, <2>3
  <2>5. guards' = [guards EXCEPT ![t] = @ \ S]
    BY <2>1, <2>4 DEF guards
  <2>6. Life' = Life
    BY <1>9 DEF clientVars
  <2>7. Promise!Release(t, S)
    BY <2>5, <2>6 DEF Promise!Release
  <2> QED
    BY <2>7 DEF Promise!Next
<1>10. ASSUME NEW t \in Tasks, NEW c \in Cells, NEW i \in Idx, NEW x,
              Begin(t, x, c, i)
       PROVE  Promise!Next
  <2>1. held' = [held EXCEPT ![t] = [j \in Idx |->
                     IF j \in {i} THEN NULL ELSE held[t][j]]]
    BY <1>1, <1>10 DEF Begin
  <2>2. UNCHANGED clientVars
    BY <1>10 DEF Begin
  <2> QED
    BY <1>9, <2>1, <2>2
<1>11. ASSUME NEW t \in Tasks, Clear(t) PROVE Promise!Next
  <2>1. held' = [held EXCEPT ![t] = [j \in Idx |->
                     IF j \in Idx THEN NULL ELSE held[t][j]]]
    BY <1>1, <1>11 DEF Clear, NoSlots
  <2>2. UNCHANGED clientVars
    BY <1>11 DEF Clear
  <2> QED
    BY <1>9, <2>1, <2>2
<1>12. ASSUME NEW t \in Tasks, RecheckSame(t)
       PROVE  Promise!Next \/ UNCHANGED <<Life, guards>>
  <2>1. Life' = Life
    BY <1>12 DEF RecheckSame, clientVars
  <2>2. /\ src[t] \in Cells /\ held[t][idx[t]] = NULL
        /\ cell[src[t]] = ptr[t]
        /\ held' = [held EXCEPT ![t][idx[t]] = ptr[t]]
    BY <1>12 DEF RecheckSame, Inv, TypeInv, Control
  <2>3. CASE ptr[t] = NULL
    <3>1. held' = held
      BY <1>1, <2>2, <2>3
    <3> QED
      BY <1>3, <2>1, <3>1
  <2>4. CASE ptr[t] # NULL
    <3>1. PICK o \in Objs : o = ptr[t] /\ status[o] = "linked"
      BY <1>1, <1>2, <2>2, <2>4 DEF Ptrs, Placed
    <3>2. \A u \in Tasks \ {t} : guards'[u] = guards[u]
      BY <1>1, <2>2 DEF guards
    <3>3. guards'[t] = guards[t] \union {o}
      BY <1>1, <2>2, <2>4, <3>1 DEF guards
    <3>4. guards' = [guards EXCEPT ![t] = @ \union {o}]
      BY <3>2, <3>3 DEF guards
    <3>5. Promise!Acquire(t, o)
      BY <2>1, <3>1, <3>4 DEF Promise!Acquire
    <3> QED
      BY <3>5 DEF Promise!Next
  <2> QED
    BY <2>3, <2>4
<1>13. ASSUME NEW t \in Tasks,
              \/ ReadLoad(t) \/ StoreSlot(t) \/ RecheckChanged(t)
              \/ ClearSlot(t) \/ CopySlot(t)
       PROVE  UNCHANGED <<Life, guards>>
  <2>1. held' = held /\ status' = status
    BY <1>13 DEF ReadLoad, StoreSlot, RecheckChanged, ClearSlot, CopySlot,
                 clientVars
  <2> QED
    BY <1>4, <2>1
<1>14. CASE UNCHANGED vars
  BY <1>4, <1>14 DEF vars, clientVars
<1> QED
  BY <1>6, <1>7, <1>8, <1>10, <1>11, <1>12, <1>13, <1>14
     DEF Next, Step, Call, Read, Reserve

\* The initial states of the tracker are initial states of the promise.
LEMMA RefineInit == Init => Promise!Init
BY DEF Init, ListInit, NoSlots, ClientInit, Promise!Init, Life, guards

\* Hazard pointers implement the promise of a reclamation scheme to the data
\* structures: a block goes back to the allocator once, after it was retired,
\* and while no thread holds it.
THEOREM Implementation == Spec => Refines
<1>1. Inv /\ [Next]_vars => [Promise!Next]_(Promise!vars)
  BY RefineNext, TypeNext DEF Inv
<1> QED
  BY <1>1, RefineInit, Invariance, PTL DEF Refines, Promise!Spec, Spec
-----------------------------------------------------------------------------
\* The threads that use slots.
Users == Readers \union Reservers

\* The others leave theirs empty, and so are the copies of these.
OthersEmpty ==
    \A t \in Tasks \ Users :
        /\ pc[t] \notin {"load", "store", "recheck"}
        /\ \A j \in Idx : slots[t][j] = NULL
        /\ \A u \in Tasks, j \in Idx : local[u][t][j] = NULL

\* The length that a list has reached at most: the blocks that the last empty
\* left, at most one per slot in use, and those retired since.
Allowance(t) ==
    IF pc[t] \in {"copy", "sweep"} THEN SlotsInUse + Freq
    ELSE IF cntrs[t] = 0 THEN 0 ELSE SlotsInUse + cntrs[t] - 1

Listed ==
    \A t \in Tasks :
        /\ IsFiniteSet(retired[t])
        /\ Cardinality(retired[t]) <= Allowance(t)
        /\ pc[t] \in {"copy", "sweep"} => cntrs[t] # 0

GarbageInv == TypeInv /\ OthersEmpty /\ Listed

\* At least one slot is in use.
LEMMA SlotsInUseType == IsFiniteSet(Users \X Idx) /\ SlotsInUse \in Nat \ {0}
                        /\ Cardinality(Users \X Idx) = SlotsInUse
<1>1. IsFiniteSet(Tasks) /\ IsFiniteSet(Idx) /\ Cardinality(Idx) = HPNum
  <2>1. TaskNum \in Int /\ HPNum \in Int /\ HPNum >= 1
    BY ClientAssumption, ParamAssumption
  <2> QED
    BY <2>1, FS_Interval DEF Tasks, Idx
<1>2. IsFiniteSet(Users) /\ Cardinality(Users) \in Nat
  BY <1>1, ReaderAssumption, FS_Subset, FS_CardinalityType DEF Users
<1>3. Cardinality(Users) # 0
  BY <1>2, ReaderAssumption, FS_EmptySet DEF Users
<1>4. /\ IsFiniteSet(Users \X Idx)
      /\ Cardinality(Users \X Idx) = Cardinality(Users) * HPNum
  BY <1>1, <1>2, FS_Product
<1>5. \A m, n \in Nat \ {0} : m * n \in Nat \ {0}
  OBVIOUS
<1>6. SlotsInUse = Cardinality(Users) * HPNum
  BY DEF SlotsInUse, Users
<1> QED
  BY <1>2, <1>3, <1>4, <1>5, <1>6, ParamAssumption

\* A set of blocks, each of them in the copy of some slot, has at most one per
\* slot in use.
LEMMA DangerFew ==
  ASSUME TypeInv, OthersEmpty, NEW t \in Tasks, NEW S \in SUBSET Objs,
         \A o \in S : Danger(t, o)
  PROVE  IsFiniteSet(S) /\ Cardinality(S) <= SlotsInUse
<1> DEFINE f == [p \in Users \X Idx |-> local[t][p[1]][p[2]]]
           T == {f[p] : p \in Users \X Idx}
<1>1. f \in Surjection(Users \X Idx, T)
  BY DEF Surjection
<1>2. \A o \in S : o \in T
  <2> SUFFICES ASSUME NEW o \in S PROVE o \in T
    OBVIOUS
  <2>1. PICK u \in Tasks, j \in Idx : local[t][u][j] = o
    BY DEF Danger
  <2>2. u \in Users
    BY <2>1, ClientAssumption DEF OthersEmpty
  <2>3. <<u, j>> \in Users \X Idx /\ f[<<u, j>>] = o
    BY <2>1, <2>2
  <2> QED
    BY <2>3
<1> HIDE DEF f, T
<1>3. /\ IsFiniteSet(T)
      /\ Cardinality(T) <= Cardinality(Users \X Idx)
  BY <1>1, SlotsInUseType, FS_Surjection
<1>4. IsFiniteSet(S) /\ Cardinality(S) <= Cardinality(T)
  BY <1>2, <1>3, FS_Subset
<1>5. Cardinality(S) \in Nat /\ Cardinality(T) \in Nat
  BY <1>3, <1>4, FS_CardinalityType
<1> QED
  BY <1>3, <1>4, <1>5, SlotsInUseType

\* Only users come to write a slot.
LEMMA OthersEmptyNext ==
  GarbageInv /\ TypeInv' /\ [Next]_vars => OthersEmpty'
<1> SUFFICES ASSUME GarbageInv, TypeInv', [Next]_vars PROVE OthersEmpty'
  OBVIOUS
<1> USE DEF OthersEmpty, Goto
<1>1. /\ OthersEmpty /\ pc \in [Tasks -> PC]
      /\ slots \in [Tasks -> [Idx -> Ptrs]] /\ idx \in [Tasks -> Idx]
      /\ local \in [Tasks -> [Tasks -> [Idx -> Ptrs]]]
      /\ pos \in [Tasks -> SlotIds \union {EndPos}]
  BY DEF GarbageInv, TypeInv, TypeOK
<1>2. ASSUME NEW t \in Tasks, Rideable(t) \/ Retire(t) PROVE OthersEmpty'
  BY <1>1, <1>2 DEF Rideable, Retire, garbage
<1>3. ASSUME NEW t \in Users, t \in Tasks, NEW c \in Cells, NEW j \in Idx,
             NEW x, Begin(t, x, c, j)
      PROVE  OthersEmpty'
  BY <1>1, <1>3 DEF Begin, garbage
<1>4. ASSUME NEW t \in Tasks, ReadLoad(t) PROVE OthersEmpty'
  BY <1>1, <1>4 DEF ReadLoad, garbage
<1>5. ASSUME NEW t \in Tasks, StoreSlot(t) PROVE OthersEmpty'
  <2>1. t \in Users
    BY <1>1, <1>5 DEF StoreSlot
  <2> QED
    BY <1>1, <1>5, <2>1 DEF StoreSlot, garbage
<1>6. ASSUME NEW t \in Tasks, RecheckSame(t) \/ RecheckChanged(t)
      PROVE  OthersEmpty'
  <2>1. t \in Users
    BY <1>1, <1>6 DEF RecheckSame, RecheckChanged
  <2> QED
    BY <1>1, <1>6, <2>1 DEF RecheckSame, RecheckChanged, Return, garbage
<1>7. ASSUME NEW t \in Tasks, Clear(t) PROVE OthersEmpty'
  BY <1>1, <1>7 DEF Clear, garbage
<1>8. ASSUME NEW t \in Tasks, ClearSlot(t) PROVE OthersEmpty'
  BY <1>1, <1>8 DEF ClearSlot, garbage
<1>9. ASSUME NEW t \in Tasks, CopySlot(t) PROVE OthersEmpty'
  <2>1. pos[t] \in SlotIds
    BY <1>9 DEF GarbageInv, TypeInv, Control, CopySlot
  <2>2. /\ local' = [local EXCEPT ![t][pos[t][1]][pos[t][2]] =
                        slots[pos[t][1]][pos[t][2]]]
        /\ pos[t][1] \in Tasks /\ pos[t][2] \in Idx
        /\ slots' = slots
        /\ \A u \in Tasks : pc'[u] \in {"copy", "sweep"} \/ pc'[u] = pc[u]
    <3>1. pos[t][1] \in Tasks /\ pos[t][2] \in Idx
      BY <2>1 DEF SlotIds
    <3>2. pc \in [Tasks -> PC]
      BY DEF GarbageInv, TypeInv, TypeOK
    <3> QED
      BY <1>9, <3>1, <3>2 DEF CopySlot, Goto
  <2>3. \A v \in Tasks \ Users, u \in Tasks, j \in Idx : local'[u][v][j] = NULL
    BY <1>1, <2>2
  <2> QED
    BY <1>1, <2>2, <2>3, ZenonT(40)
<1>10. ASSUME NEW t \in Tasks, Sweep(t) PROVE OthersEmpty'
  BY <1>1, <1>10 DEF Sweep, NoSlots
<1>11. CASE UNCHANGED vars
  BY <1>1, <1>11 DEF vars, garbage
<1> QED
  BY <1>2, <1>3, <1>4, <1>5, <1>6, <1>7, <1>8, <1>9, <1>10, <1>11
     DEF Next, Step, Call, Read, Reserve, Users

\* retire adds one block, empty leaves one per slot in use.
LEMMA ListedNext == GarbageInv /\ TypeInv' /\ [Next]_vars => Listed'
<1> SUFFICES ASSUME GarbageInv, TypeInv', [Next]_vars PROVE Listed'
  OBVIOUS
<1>1. /\ Listed /\ OthersEmpty /\ TypeInv /\ pc \in [Tasks -> PC]
      /\ cntrs \in [Tasks -> 0 .. Freq]
      /\ retired \in [Tasks -> SUBSET Objs]
      /\ Freq \in Nat \ {0} /\ SlotsInUse \in Nat \ {0}
  BY ParamAssumption, SlotsInUseType
     DEF GarbageInv, TypeInv, TypeOK, ListTypeOK
<1>2. \A t \in Tasks : Cardinality(retired[t]) \in Nat
  BY <1>1, FS_CardinalityType DEF Listed
<1>3. ASSUME UNCHANGED <<retired, cntrs>>, NEW t \in Tasks,
             \A u \in Tasks \ {t} : pc'[u] = pc[u],
             pc'[t] \in {"copy", "sweep"} <=> pc[t] \in {"copy", "sweep"}
      PROVE  Listed'
  BY <1>1, <1>3 DEF Listed, Allowance
<1>4. ASSUME NEW t \in Tasks, Rideable(t) PROVE Listed'
  BY <1>3, <1>4 DEF Rideable, garbage
<1>5. ASSUME NEW t \in Tasks,
             \/ ReadLoad(t) \/ StoreSlot(t) \/ RecheckSame(t)
             \/ RecheckChanged(t) \/ Clear(t) \/ ClearSlot(t) \/ CopySlot(t)
             \/ \E c \in Cells, j \in Idx : Read(t, c, j) \/ Reserve(t, c, j)
      PROVE  Listed'
  <2>1. UNCHANGED <<retired, cntrs>>
    BY <1>5 DEF ReadLoad, StoreSlot, RecheckSame, RecheckChanged, Clear,
                ClearSlot, CopySlot, Read, Reserve, Begin, garbage
  <2>2. /\ \A u \in Tasks \ {t} : pc'[u] = pc[u]
        /\ pc'[t] \in {"copy", "sweep"} <=> pc[t] \in {"copy", "sweep"}
    BY <1>1, <1>5 DEF ReadLoad, StoreSlot, RecheckSame, RecheckChanged, Clear,
                      ClearSlot, CopySlot, Read, Reserve, Begin, Return, Goto
  <2> QED
    BY <1>3, <2>1, <2>2
<1>6. ASSUME NEW t \in Tasks, Retire(t) PROVE Listed'
  <2>1. /\ retired' = [retired EXCEPT ![t] = @ \union {victim[t]}]
        /\ pc[t] = "idle"
        /\ \/ /\ cntrs[t] = Freq
              /\ cntrs' = [cntrs EXCEPT ![t] = 1]
              /\ pc' = [pc EXCEPT ![t] = "copy"]
           \/ /\ cntrs[t] # Freq
              /\ cntrs' = [cntrs EXCEPT ![t] = cntrs[t] + 1]
              /\ pc' = pc
    BY <1>6 DEF Retire, Push, Goto
  <2>2. ASSUME NEW u \in Tasks \ {t}
        PROVE  /\ retired'[u] = retired[u] /\ cntrs'[u] = cntrs[u]
               /\ pc'[u] = pc[u]
    BY <1>1, <2>1
  <2>3. /\ retired'[t] = retired[t] \union {victim[t]}
        /\ IsFiniteSet(retired[t])
        /\ Cardinality(retired[t]) <=
              IF cntrs[t] = 0 THEN 0 ELSE SlotsInUse + cntrs[t] - 1
    BY <1>1, <2>1 DEF Listed, Allowance
  <2>4. /\ IsFiniteSet(retired'[t])
        /\ Cardinality(retired'[t]) <= Cardinality(retired[t]) + 1
        /\ Cardinality(retired[t]) \in Nat /\ Cardinality(retired'[t]) \in Nat
    <3> DEFINE R == retired[t] \union {victim[t]}
    <3>1. /\ IsFiniteSet(R)
          /\ Cardinality(R) = IF victim[t] \in retired[t]
                              THEN Cardinality(retired[t])
                              ELSE Cardinality(retired[t]) + 1
      BY <2>3, FS_AddElement
    <3>2. Cardinality(R) <= Cardinality(retired[t]) + 1
      BY <1>2, <3>1
    <3>3. Cardinality(R) \in Nat
      BY <3>1, FS_CardinalityType
    <3> QED
      BY <1>2, <2>3, <3>1, <3>2, <3>3
  <2>5. Cardinality(retired'[t]) <= Allowance(t)' /\ cntrs'[t] # 0
    <3>1. CASE cntrs[t] = Freq
      <4>1. pc'[t] = "copy" /\ cntrs'[t] = 1
        BY <1>1, <2>1, <3>1
      <4>2. Allowance(t)' = SlotsInUse + Freq
        BY <4>1 DEF Allowance, SlotsInUse
      <4> QED
        BY <1>1, <2>3, <2>4, <3>1, <4>1, <4>2
    <3>2. CASE cntrs[t] # Freq
      <4>1. pc'[t] = "idle" /\ cntrs'[t] = cntrs[t] + 1 /\ cntrs[t] \in Nat
        BY <1>1, <2>1, <3>2
      <4>2. Allowance(t)' = SlotsInUse + cntrs[t]
        BY <1>1, <4>1 DEF Allowance, SlotsInUse
      <4> QED
        BY <1>1, <2>3, <2>4, <4>1, <4>2
    <3> QED
      BY <3>1, <3>2
  <2> QED
    BY <1>1, <2>2, <2>4, <2>5 DEF Listed, Allowance
<1>7. ASSUME NEW t \in Tasks, Sweep(t) PROVE Listed'
  <2> DEFINE S == {o \in retired[t] : Danger(t, o)}
  <2>1. /\ retired' = [retired EXCEPT ![t] = S]
        /\ pc[t] = "sweep" /\ pc' = [pc EXCEPT ![t] = "idle"]
        /\ cntrs' = cntrs
    BY <1>1, <1>7 DEF Sweep, Reclaim, Goto
  <2>2. S \in SUBSET Objs /\ \A o \in S : Danger(t, o)
    BY <1>1
  <2> HIDE DEF S
  <2>3. IsFiniteSet(S) /\ Cardinality(S) <= SlotsInUse
    BY <1>1, <2>2, DangerFew
  <2>4. Cardinality(S) \in Nat
    BY <2>3, FS_CardinalityType
  <2>5. retired'[t] = S /\ pc'[t] = "idle" /\ cntrs'[t] = cntrs[t] /\ cntrs[t] # 0
    BY <1>1, <2>1 DEF Listed
  <2>6. Allowance(t)' = SlotsInUse + cntrs[t] - 1
    BY <2>5 DEF Allowance, SlotsInUse
  <2>7. Cardinality(retired'[t]) <= Allowance(t)'
    BY <1>1, <2>3, <2>4, <2>5, <2>6
  <2>8. ASSUME NEW u \in Tasks \ {t}
        PROVE  /\ retired'[u] = retired[u] /\ cntrs'[u] = cntrs[u]
               /\ pc'[u] = pc[u]
    BY <1>1, <2>1
  <2> QED
    BY <1>1, <2>3, <2>5, <2>7, <2>8 DEF Listed, Allowance
<1>8. CASE UNCHANGED vars
  BY <1>1, <1>8 DEF vars, garbage, Listed, Allowance
<1> QED
  BY <1>4, <1>5, <1>6, <1>7, <1>8 DEF Next, Step, Call

\* However long threads stall with their slots set, a list stays bounded.
THEOREM Bounded == Spec => []GarbageBounded
<1>1. Init => GarbageInv
  <2>1. Init => TypeInv
    BY InvInit DEF Inv
  <2>2. Init => OthersEmpty
    BY DEF Init, NoSlots, OthersEmpty
  <2>3. Init => Listed
    BY FS_EmptySet DEF Init, ListInit, Listed, Allowance
  <2> QED
    BY <2>1, <2>2, <2>3 DEF GarbageInv
<1>2. GarbageInv /\ [Next]_vars => GarbageInv'
  BY TypeNext, OthersEmptyNext, ListedNext DEF GarbageInv
<1>3. GarbageInv => GarbageBounded
  <2> SUFFICES ASSUME GarbageInv, NEW t \in Tasks
               PROVE  Cardinality(retired[t]) <= SlotsInUse + Freq
    BY DEF GarbageBounded
  <2>1. /\ Cardinality(retired[t]) \in Nat
        /\ Cardinality(retired[t]) <= Allowance(t)
    BY FS_CardinalityType DEF GarbageInv, Listed
  <2>2. cntrs[t] \in 0 .. Freq
    BY DEF GarbageInv, TypeInv, TypeOK
  <2> QED
    BY <2>1, <2>2, SlotsInUseType, ParamAssumption DEF Allowance
<1> QED
  BY <1>1, <1>2, <1>3, PTL DEF Spec
=============================================================================
