------------------------------ MODULE HRProofs ------------------------------
(***************************************************************************)
(* Proofs about Crystalline-L, for any number of threads, slots, blocks,   *)
(* cells and epochs: type correctness (TypeInv); the accounts of the       *)
(* batches (Accounts: what is in flight, whose batch it is, what the       *)
(* counters and the queues say of it); the protection of the slots         *)
(* (Shield: a batch stays hooked to every slot that protects a node of     *)
(* it); and that the tracker implements module Reclamation.                *)
(***************************************************************************)
EXTENDS HRTracker, SequenceTheorems, FiniteSetTheorems, TLAPS

\* The client's part: every node is in one place.
ClientInv == ClientTypeOK /\ Placed

\* At the start every block is with the allocator and every pointer is null.
LEMMA ClientInitInv == ClientInit => ClientInv
BY ClientAssumption DEF ClientInit, ClientInv, ClientTypeOK, Placed, Ptrs, Status

\* alloc takes a block that is nowhere else.
LEMMA MallocInv ==
  ASSUME ClientInv, NEW t \in Tasks, NEW o \in Objs, Malloc(t, o)
  PROVE  ClientInv'
BY ClientAssumption DEF Malloc, ClientInv, ClientTypeOK, Placed, Ptrs, Status

\* Linking moves the node from its thread to the cell.
LEMMA LinkInv ==
  ASSUME ClientInv, NEW t \in Tasks, NEW c \in Cells, Link(t, c)
  PROVE  ClientInv'
BY ClientAssumption DEF Link, ClientInv, ClientTypeOK, Placed, Ptrs, Status

\* Giving back an unused node leaves it nowhere.
LEMMA DiscardInv ==
  ASSUME ClientInv, NEW t \in Tasks, Discard(t)
  PROVE  ClientInv'
BY ClientAssumption DEF Discard, ClientInv, ClientTypeOK, Placed, Ptrs, Status

\* Unlinking moves the node from the cell to the thread.
LEMMA UnlinkInv ==
  ASSUME ClientInv, NEW t \in Tasks, NEW c \in Cells, Unlink(t, c)
  PROVE  ClientInv'
BY ClientAssumption DEF Unlink, ClientInv, ClientTypeOK, Placed, Ptrs, Status

\* Retiring takes the node from the thread.
LEMMA HandOverInv ==
  ASSUME ClientInv, NEW t \in Tasks, HandOver(t)
  PROVE  ClientInv'
BY ClientAssumption DEF HandOver, ClientInv, ClientTypeOK, Placed, Ptrs, Status

\* Freeing retired blocks touches no cell and no thread's node.
LEMMA FreeInv ==
  ASSUME ClientInv, NEW S \in SUBSET Objs, Free(S),
         \A o \in S : status[o] = "retired"
  PROVE  ClientInv'
BY ClientAssumption DEF Free, ClientInv, ClientTypeOK, Placed, Ptrs, Status

\* A step that leaves the client alone.
LEMMA ClientUnchanged ==
  ASSUME ClientInv, UNCHANGED clientVars
  PROVE  ClientInv'
BY ClientAssumption DEF clientVars, ClientInv, ClientTypeOK, Placed, Ptrs, Status

-----------------------------------------------------------------------------

Reading == {"load", "check", "validate", "upd", "upd_null", "upd_reload",
            "upd_epoch"}
Retiring == {"scan", "scan_epoch", "insert", "ins_epoch", "ins_cas"}

\* The locals of read and reserve_slot.
ReadControl ==
    \A t \in Tasks :
        /\ rd[t].op \in {"read", "reserve"} => rd[t].src \in Cells
        /\ pc[t] = "load" => rd[t].op = "read"
        /\ pc[t] \in {"trav", "drop"} => work[t] # <<>>

\* The locals of try_retire: it runs on a batch with a node to spare for the
\* next slot, and it knows an active slot when it is about to push a node.
RetireControl ==
    \A t \in Tasks :
        /\ pc[t] \in Retiring => batch[t] # <<>>
        /\ pc[t] \notin Retiring => rt[t] = NoRetire
        /\ pc[t] \in {"scan", "scan_epoch"} =>
              rt[t].pos \in SlotIds /\ Len(rt[t].asg) < Len(batch[t])
        /\ pc[t] \in {"ins_epoch", "ins_cas"} =>
              rt[t].asg # <<>> /\ rt[t].prev # INVPTR

TypeInv == TypeOK /\ ReadControl /\ RetireControl

\* 1 is a slot, the epochs are integers.
LEMMA ConstType ==
  /\ 1 \in Idx /\ <<1, 1>> \in SlotIds /\ 0 \in 0 .. MaxEpoch
  /\ NoRead \in ReadLocals /\ NoRetire \in RetireLocals
<1>1. 1 \in Idx /\ 1 \in Tasks /\ 0 \in 0 .. MaxEpoch
  BY ParamAssumption, ClientAssumption DEF Idx, Tasks
<1>2. <<1, 1>> \in SlotIds
  BY <1>1 DEF SlotIds
<1>3. <<>> \in Seq(Objs \X SlotIds)
  BY EmptySeq
<1> QED
  BY <1>1, <1>2, <1>3 DEF NoRead, NoRetire, ReadLocals, RetireLocals, SlotPtrs, Ptrs

\* The slots are visited one after the other, the last one before EndPos.
LEMMA AfterType ==
  ASSUME NEW s \in SlotIds
  PROVE  After(s) \in SlotIds \/ After(s) = EndPos
BY ParamAssumption, ClientAssumption DEF After, SlotIds, EndPos, Idx, Tasks

\* A counter that is reset when it reaches its period.
LEMMA CounterType ==
  ASSUME NEW n \in Nat \ {0}, NEW c \in 0 .. n - 1
  PROVE  (c + 1) % n \in 0 .. n - 1
OBVIOUS

-----------------------------------------------------------------------------
\* alloc, the count: the counter wraps at its period.
LEMMA TypeAlloc ==
  ASSUME TypeInv, NEW t \in Tasks, AllocCount(t)
  PROVE  TypeInv'
<1>1. allocs' \in [Tasks -> 0 .. EpochFreq - 1]
  <2>1. (allocs[t] + 1) % EpochFreq \in 0 .. EpochFreq - 1
    <3>1. allocs[t] \in 0 .. EpochFreq - 1
      BY DEF TypeInv, TypeOK
    <3> QED
      BY <3>1, CounterType, ParamAssumption
  <2>2. allocs \in [Tasks -> 0 .. EpochFreq - 1]
    BY DEF TypeInv, TypeOK
  <2>3. allocs' = [allocs EXCEPT ![t] = (@ + 1) % EpochFreq]
    BY DEF AllocCount
  <2> QED
    BY <2>1, <2>2, <2>3
<1>2. epoch' \in 1 .. MaxEpoch
  <2>1. epoch \in 1 .. MaxEpoch /\ (epoch' = epoch \/ (epoch < MaxEpoch /\ epoch' = epoch + 1))
    BY DEF AllocCount, TypeInv, TypeOK
  <2> QED
    BY <2>1, ParamAssumption
<1> USE DEF TypeInv, TypeOK
<1>3. ClientTypeOK'
  BY DEF AllocCount, Malloc, ClientTypeOK, Status, Ptrs
<1>4. pc' = [pc EXCEPT ![t] = "birth"] /\ pc[t] = "idle"
  BY DEF AllocCount, Goto
<1>5. UNCHANGED <<slots, nodes, batches, given, rd, work, rt>>
  BY DEF AllocCount
<1>6. TypeOK'
  BY <1>1, <1>2, <1>3, <1>4, <1>5 DEF slots, nodes, batches, given, PC
<1>7. ReadControl'
  BY <1>4, <1>5 DEF ReadControl
<1>8. RetireControl'
  BY <1>4, <1>5 DEF RetireControl, batches, Retiring
<1> QED
  BY <1>6, <1>7, <1>8

\* alloc, the stamp: the birth of a block is an epoch.
LEMMA TypeBirth ==
  ASSUME TypeInv, NEW t \in Tasks, AllocBirth(t)
  PROVE  TypeInv'
<1> USE DEF TypeInv, TypeOK
<1>1. birth' \in [Objs -> 0 .. MaxEpoch]
  <2>1. epoch \in 0 .. MaxEpoch
    BY ParamAssumption
  <2> QED
    BY <2>1 DEF AllocBirth
<1>2. pc' = [pc EXCEPT ![t] = "idle"] /\ pc[t] = "birth"
  BY DEF AllocBirth, Goto
<1>3. UNCHANGED <<clientVars, epoch, allocs, slots, batches, given,
                  next, refs, link, rd, work, rt>>
  BY DEF AllocBirth
<1>4. TypeOK'
  BY <1>1, <1>2, <1>3 DEF clientVars, ClientTypeOK, slots, batches, given, PC
<1>5. ReadControl'
  BY <1>2, <1>3 DEF ReadControl
<1>6. RetireControl'
  BY <1>2, <1>3 DEF RetireControl, batches, Retiring
<1> QED
  BY <1>4, <1>5, <1>6

\* A rideable's own steps touch the client's variables only.
LEMMA TypeRideable ==
  ASSUME TypeInv, NEW t \in Tasks, Rideable(t)
  PROVE  TypeInv'
<1> USE DEF TypeInv, TypeOK
<1>1. ClientTypeOK'
  <2>1. CASE Discard(t)
    BY <2>1 DEF Discard, ClientTypeOK, Status, Ptrs
  <2>2. ASSUME NEW c \in Cells, Link(t, c) PROVE ClientTypeOK'
    BY <2>2 DEF Link, ClientTypeOK, Status, Ptrs
  <2>3. ASSUME NEW c \in Cells, Unlink(t, c) PROVE ClientTypeOK'
    BY <2>3 DEF Unlink, ClientTypeOK, Status, Ptrs
  <2> QED
    BY <2>1, <2>2, <2>3 DEF Rideable
<1>2. UNCHANGED <<epoch, allocs, slots, nodes, batches, given, pc, rd, work, rt>>
  BY DEF Rideable
<1>3. TypeOK'
  BY <1>1, <1>2 DEF slots, nodes, batches, given
<1>4. ReadControl' /\ RetireControl'
  BY <1>2 DEF ReadControl, RetireControl, batches
<1> QED
  BY <1>3, <1>4
-----------------------------------------------------------------------------
\* Steps of read, reserve_slot and do_update.
LEMMA TypeForget ==
  ASSUME TypeOK, NEW t \in Tasks, NEW J, Forget(t, J)
  PROVE  held' \in [Tasks -> [Idx -> Ptrs]] /\ resv' \in [Tasks -> [Idx -> Ptrs]]
BY DEF Forget, TypeOK, Ptrs

\* A step that leaves the retirement side alone and does not enter or leave
\* try_retire.
LEMMA RetireKept ==
  ASSUME RetireControl, TypeOK, NEW t \in Tasks, NEW l \in PC \ Retiring,
         pc[t] \notin Retiring, pc' = [pc EXCEPT ![t] = l],
         UNCHANGED <<batch, rt>>
  PROVE  RetireControl'
BY DEF RetireControl, Retiring, TypeOK

\* The call of read or reserve_slot.
LEMMA TypeBegin ==
  ASSUME TypeInv, NEW t \in Tasks, NEW c \in Cells, NEW j \in Idx,
         Read(t, c, j) \/ Reserve(t, c, j)
  PROVE  TypeInv'
<1> USE DEF TypeInv
<1>0. PICK o \in {"read", "reserve"} :
        rd' = [rd EXCEPT ![t] = [op |-> o, idx |-> j, src |-> c,
                                 ptr |-> cell[c], curr |-> 0, succ |-> NULL]]
  BY DEF Read, Reserve
<1>1. /\ pc[t] = "idle" /\ Forget(t, {j})
      /\ pc' = [pc EXCEPT ![t] = "check"]
      /\ UNCHANGED <<clientVars, epoch, allocs, slots, nodes, batches, work, rt>>
  BY DEF Read, Reserve, Goto
<1>2. [op |-> o, idx |-> j, src |-> c, ptr |-> cell[c], curr |-> 0, succ |-> NULL] \in ReadLocals
  BY ConstType DEF ReadLocals, TypeOK, ClientTypeOK, Ptrs
<1>3. rd' \in [Tasks -> ReadLocals]
  BY <1>0, <1>2 DEF TypeOK
<1>4. TypeOK'
  BY <1>1, <1>3, TypeForget
     DEF TypeOK, clientVars, ClientTypeOK, slots, nodes, batches, PC
<1>5. ReadControl'
  BY <1>0, <1>1 DEF ReadControl, TypeOK
<1>6. RetireControl'
  BY <1>1, RetireKept DEF batches, PC, Retiring
<1> QED
  BY <1>4, <1>5, <1>6

\* read, a later load of the cell.
LEMMA TypeReadLoad ==
  ASSUME TypeInv, NEW t \in Tasks, ReadLoad(t)
  PROVE  TypeInv'
<1> USE DEF TypeInv
<1>1. /\ pc[t] = "load" /\ rd[t].src \in Cells
      /\ rd' = [rd EXCEPT ![t].ptr = cell[rd[t].src]]
      /\ pc' = [pc EXCEPT ![t] = "check"]
      /\ UNCHANGED <<clientVars, epoch, allocs, slots, nodes, batches, given, work, rt>>
  BY DEF ReadLoad, Goto, ReadControl
<1>2. cell[rd[t].src] \in Ptrs
  BY <1>1 DEF TypeOK, ClientTypeOK
<1>3. rd' \in [Tasks -> ReadLocals]
  <2>1. rd \in [Tasks -> ReadLocals]
    BY DEF TypeOK
  <2>2. rd' = [rd EXCEPT ![t].ptr = cell[rd[t].src]]
    BY <1>1
  <2> HIDE DEF TypeInv
  <2> QED
    BY <1>2, <2>1, <2>2 DEF ReadLocals
<1>4. TypeOK'
  BY <1>1, <1>3 DEF TypeOK, clientVars, ClientTypeOK, slots, nodes, batches, given, PC
<1>5. ReadControl'
  BY <1>1 DEF ReadControl, TypeOK, ReadLocals
<1>6. RetireControl'
  BY <1>1, RetireKept DEF batches, PC, Retiring
<1> QED
  BY <1>4, <1>5, <1>6

\* The epoch check: update the slot, return, or go on to the second load.
LEMMA TypeCheckEpoch ==
  ASSUME TypeInv, NEW t \in Tasks, CheckEpoch(t)
  PROVE  TypeInv'
<1> USE DEF TypeInv
<1> DEFINE j == rd[t].idx
<1>1. /\ pc[t] = "check" /\ j \in Idx /\ rd[t].ptr \in Ptrs
      /\ UNCHANGED <<clientVars, epoch, allocs, slots, nodes, batches, work, rt>>
  BY DEF CheckEpoch, TypeOK, ReadLocals
<1>2. CASE epoch # slotEpoch[t][j]
  <2>1. /\ rd' = [rd EXCEPT ![t].curr = epoch]
        /\ pc' = [pc EXCEPT ![t] = "upd"]
        /\ UNCHANGED given
    BY <1>2 DEF CheckEpoch, Goto
  <2>2. epoch \in 0 .. MaxEpoch
    <3>1. epoch \in 1 .. MaxEpoch
      BY DEF TypeOK
    <3> HIDE DEF TypeInv
    <3> QED
      BY <3>1, ParamAssumption
  <2>3. rd' \in [Tasks -> ReadLocals]
    <3>1. rd \in [Tasks -> ReadLocals]
      BY DEF TypeOK
    <3> HIDE DEF TypeInv
    <3> QED
      BY <2>1, <2>2, <3>1 DEF ReadLocals
  <2>4. TypeOK'
    BY <1>1, <2>1, <2>3
       DEF TypeOK, clientVars, ClientTypeOK, slots, nodes, batches, given, PC
  <2>5. ReadControl'
    BY <1>1, <2>1 DEF ReadControl, TypeOK, ReadLocals
  <2>6. RetireControl'
    BY <1>1, <2>1, RetireKept DEF batches, PC, Retiring
  <2> QED
    BY <2>4, <2>5, <2>6
<1>3. CASE epoch = slotEpoch[t][j] /\ rd[t].op = "read"
  <2>1. /\ held' = [held EXCEPT ![t][j] = rd[t].ptr]
        /\ UNCHANGED resv
        /\ rd' = [rd EXCEPT ![t] = NoRead]
        /\ pc' = [pc EXCEPT ![t] = "idle"]
    BY <1>3 DEF CheckEpoch, Goto
  <2>2. held' \in [Tasks -> [Idx -> Ptrs]]
    BY <1>1, <2>1 DEF TypeOK
  <2>3. TypeOK'
    BY <1>1, <2>1, <2>2, ConstType
       DEF TypeOK, clientVars, ClientTypeOK, slots, nodes, batches, PC
  <2>4. ReadControl'
    BY <1>1, <2>1 DEF ReadControl, TypeOK, NoRead
  <2>5. RetireControl'
    BY <1>1, <2>1, RetireKept DEF batches, PC, Retiring
  <2> QED
    BY <2>3, <2>4, <2>5
<1>4. CASE epoch = slotEpoch[t][j] /\ rd[t].op # "read"
  <2>1. pc' = [pc EXCEPT ![t] = "validate"] /\ UNCHANGED <<given, rd>>
    BY <1>4 DEF CheckEpoch, Goto
  <2>2. TypeOK'
    BY <1>1, <2>1
       DEF TypeOK, clientVars, ClientTypeOK, slots, nodes, batches, given, PC
  <2>3. ReadControl'
    BY <1>1, <2>1 DEF ReadControl, TypeOK
  <2>4. RetireControl'
    BY <1>1, <2>1, RetireKept DEF batches, PC, Retiring
  <2> QED
    BY <2>2, <2>3, <2>4
<1> QED
  BY <1>2, <1>3, <1>4

\* The rideable's second load after reserve_slot.
LEMMA TypeValidate ==
  ASSUME TypeInv, NEW t \in Tasks, Validate(t)
  PROVE  TypeInv'
<1> USE DEF TypeInv
<1> DEFINE p == IF cell[rd[t].src] = rd[t].ptr THEN rd[t].ptr ELSE NULL
<1>1. /\ pc[t] = "validate" /\ rd[t].idx \in Idx /\ p \in Ptrs
      /\ resv' = [resv EXCEPT ![t][rd[t].idx] = p]
      /\ rd' = [rd EXCEPT ![t] = NoRead]
      /\ pc' = [pc EXCEPT ![t] = "idle"]
      /\ UNCHANGED <<clientVars, epoch, allocs, slots, nodes, batches, work, rt, held>>
  BY DEF Validate, TypeOK, ReadLocals, Goto, Ptrs
<1>2. resv' \in [Tasks -> [Idx -> Ptrs]]
  <2> HIDE DEF p
  <2> QED
    BY <1>1 DEF TypeOK
<1>3. TypeOK'
  BY <1>1, <1>2, ConstType
     DEF TypeOK, clientVars, ClientTypeOK, slots, nodes, batches, PC
<1>4. ReadControl'
  BY <1>1 DEF ReadControl, TypeOK, NoRead
<1>5. RetireControl'
  BY <1>1, RetireKept DEF batches, PC, Retiring
<1> QED
  BY <1>3, <1>4, <1>5

\* Freeing blocks leaves the client's types in place.
LEMMA TypeFree ==
  ASSUME ClientTypeOK, NEW R, FreeList(R)
  PROVE  ClientTypeOK'
BY DEF FreeList, Free, ClientTypeOK, Status

\* do_update, the exchange: the cache counts at most MAX_HRC lists.
LEMMA TypeUpdDetach ==
  ASSUME TypeInv, NEW t \in Tasks, UpdDetach(t)
  PROVE  TypeInv'
<1> USE DEF TypeInv
<1> DEFINE j == rd[t].idx
           old == first[t][j]
           flush == old \in Objs /\ CacheFull(t)
           l == IF old = NULL THEN "upd_epoch"
                ELSE IF old \in Objs THEN "trav" ELSE "upd_null"
           w == IF old \in Objs THEN <<old>> ELSE <<>>
<1>1. /\ pc[t] = "upd" /\ j \in Idx
      /\ UNCHANGED <<epoch, allocs, nodes, given, slotEpoch, batch, minEpoch, rd, rt>>
  BY DEF UpdDetach, TypeOK, ReadLocals
<1>2. ClientTypeOK'
  <2>1. FreeList(IF flush THEN list[t] ELSE {})
    BY DEF UpdDetach
  <2> QED
    BY <2>1, TypeFree DEF TypeOK
<1>3. first' \in [Tasks -> [Idx -> SlotPtrs]]
  <2>1. first' = first \/ first' = [first EXCEPT ![t][j] = INVPTR]
    BY DEF UpdDetach
  <2>2. INVPTR \in SlotPtrs
    BY DEF SlotPtrs
  <2>3. j \in Idx
    BY <1>1
  <2> HIDE DEF j
  <2>4. CASE first' = [first EXCEPT ![t][j] = INVPTR]
    BY <2>2, <2>3, <2>4 DEF TypeOK
  <2> QED
    BY <2>1, <2>4 DEF TypeOK
<1>4. pc' = [pc EXCEPT ![t] = l] /\ work' = [work EXCEPT ![t] = w]
  BY DEF UpdDetach, Goto
<1>5. /\ w \in Seq(Objs) /\ (l = "trav" => w # <<>>)
      /\ l \in PC \ Retiring /\ l # "load" /\ l # "drop"
  BY ClientAssumption DEF PC, Retiring
<1>6. list' \in [Tasks -> SUBSET Objs]
  BY DEF UpdDetach, TypeOK
<1>7. listCount' \in [Tasks -> 0 .. MaxHRC]
  <2>1. CASE flush
    <3>1. listCount' = [listCount EXCEPT ![t] = 1]
      BY <2>1 DEF UpdDetach
    <3> QED
      BY <3>1, ParamAssumption DEF TypeOK
  <2>2. CASE ~flush /\ old \in Objs
    <3>1. listCount' = [listCount EXCEPT ![t] = @ + 1]
      BY <2>2 DEF UpdDetach
    <3>2. listCount[t] \in 0 .. MaxHRC /\ listCount[t] # MaxHRC
      BY <2>2 DEF CacheFull, TypeOK
    <3>3. listCount[t] + 1 \in 0 .. MaxHRC
      BY <3>2, ParamAssumption
    <3> QED
      BY <3>1, <3>3 DEF TypeOK
  <2>3. CASE ~flush /\ old \notin Objs
    <3>1. listCount' = [listCount EXCEPT ![t] = @]
      BY <2>3 DEF UpdDetach
    <3> QED
      BY <3>1 DEF TypeOK
  <2> QED
    BY <2>1, <2>2, <2>3
<1> HIDE DEF l, w, j
<1>8. TypeOK'
  BY <1>1, <1>2, <1>3, <1>4, <1>5, <1>6, <1>7 DEF TypeOK, nodes, given
<1>9. ReadControl'
  BY <1>1, <1>4, <1>5 DEF ReadControl, TypeOK
<1>10. RetireControl'
  BY <1>1, <1>4, <1>5, RetireKept DEF Retiring
<1> QED
  BY <1>8, <1>9, <1>10

\* do_update, the store of nullptr.
LEMMA TypeUpdNull ==
  ASSUME TypeInv, NEW t \in Tasks, UpdNull(t)
  PROVE  TypeInv'
<1> USE DEF TypeInv
<1>1. /\ pc[t] = "upd_null" /\ rd[t].idx \in Idx /\ NULL \in SlotPtrs
      /\ first' = [first EXCEPT ![t][rd[t].idx] = NULL]
      /\ pc' = [pc EXCEPT ![t] = "upd_reload"]
      /\ UNCHANGED <<clientVars, epoch, allocs, nodes, batches, given,
                     slotEpoch, rd, work, rt>>
  BY DEF UpdNull, TypeOK, ReadLocals, Goto, SlotPtrs
<1>2. first' \in [Tasks -> [Idx -> SlotPtrs]]
  BY <1>1 DEF TypeOK
<1>3. TypeOK'
  BY <1>1, <1>2 DEF TypeOK, clientVars, ClientTypeOK, nodes, batches, given, PC
<1>4. ReadControl'
  BY <1>1 DEF ReadControl, TypeOK
<1>5. RetireControl'
  BY <1>1, RetireKept DEF batches, PC, Retiring
<1> QED
  BY <1>3, <1>4, <1>5

\* do_update, the second load of the epoch.
LEMMA TypeUpdReload ==
  ASSUME TypeInv, NEW t \in Tasks, UpdReload(t)
  PROVE  TypeInv'
<1> USE DEF TypeInv
<1>1. /\ pc[t] = "upd_reload" /\ epoch \in 0 .. MaxEpoch
      /\ rd' = [rd EXCEPT ![t].curr = epoch]
      /\ pc' = [pc EXCEPT ![t] = "upd_epoch"]
      /\ UNCHANGED <<clientVars, epoch, allocs, slots, nodes, batches, given, work, rt>>
  <2>1. epoch \in 0 .. MaxEpoch
    <3>1. epoch \in 1 .. MaxEpoch
      BY DEF TypeOK
    <3> HIDE DEF TypeInv
    <3> QED
      BY <3>1, ParamAssumption
  <2> QED
    BY <2>1 DEF UpdReload, Goto
<1>2. rd' \in [Tasks -> ReadLocals]
  <2>1. rd \in [Tasks -> ReadLocals]
    BY DEF TypeOK
  <2>2. epoch \in 0 .. MaxEpoch /\ rd' = [rd EXCEPT ![t].curr = epoch]
    BY <1>1
  <2> HIDE DEF TypeInv
  <2> QED
    BY <2>1, <2>2 DEF ReadLocals
<1>3. TypeOK'
  BY <1>1, <1>2 DEF TypeOK, clientVars, ClientTypeOK, slots, nodes, batches, given, PC
<1>4. ReadControl'
  BY <1>1 DEF ReadControl, TypeOK, ReadLocals
<1>5. RetireControl'
  BY <1>1, RetireKept DEF batches, PC, Retiring
<1> QED
  BY <1>3, <1>4, <1>5

\* do_update, the store of the epoch.
LEMMA TypeUpdEpoch ==
  ASSUME TypeInv, NEW t \in Tasks, UpdEpoch(t)
  PROVE  TypeInv'
<1> USE DEF TypeInv
<1> DEFINE l == IF rd[t].op = "read" THEN "load" ELSE "check"
<1>1. /\ pc[t] = "upd_epoch" /\ rd[t].idx \in Idx /\ rd[t].curr \in 0 .. MaxEpoch
      /\ slotEpoch' = [slotEpoch EXCEPT ![t][rd[t].idx] = rd[t].curr]
      /\ pc' = [pc EXCEPT ![t] = l]
      /\ UNCHANGED <<clientVars, epoch, allocs, nodes, batches, given,
                     first, rd, work, rt>>
  BY DEF UpdEpoch, TypeOK, ReadLocals, Goto
<1>2. slotEpoch' \in [Tasks -> [Idx -> 0 .. MaxEpoch]]
  BY <1>1 DEF TypeOK
<1>3. l \in PC \ Retiring /\ l \notin {"trav", "drop"} /\ (l = "load" => rd[t].op = "read")
  BY DEF PC, Retiring
<1> HIDE DEF l
<1>4. TypeOK'
  BY <1>1, <1>2, <1>3 DEF TypeOK, clientVars, ClientTypeOK, nodes, batches, given
<1>5. ReadControl'
  BY <1>1, <1>3 DEF ReadControl, TypeOK
<1>6. RetireControl'
  BY <1>1, <1>3, RetireKept DEF batches, Retiring
<1> QED
  BY <1>4, <1>5, <1>6

-----------------------------------------------------------------------------
\* Steps of traverse and clear_all.
LEMMA TypeTravLoad ==
  ASSUME TypeInv, NEW t \in Tasks, TravLoad(t)
  PROVE  TypeInv'
<1> USE DEF TypeInv
<1>1. /\ pc[t] = "trav" /\ work[t] # <<>> /\ work[t] \in Seq(Objs)
      /\ rd' = [rd EXCEPT ![t].succ = next[Head(work[t])]]
      /\ pc' = [pc EXCEPT ![t] = "drop"]
      /\ UNCHANGED <<clientVars, epoch, allocs, slots, nodes, batches, given, work, rt>>
  BY DEF TravLoad, Goto, ReadControl, TypeOK
<1>2. next[Head(work[t])] \in Ptrs
  BY <1>1, HeadTailProperties DEF TypeOK
<1>3. rd' \in [Tasks -> ReadLocals]
  <2>1. rd \in [Tasks -> ReadLocals]
    BY DEF TypeOK
  <2>2. rd' = [rd EXCEPT ![t].succ = next[Head(work[t])]]
    BY <1>1
  <2> HIDE DEF TypeInv
  <2> QED
    BY <1>2, <2>1, <2>2 DEF ReadLocals
<1>4. TypeOK'
  BY <1>1, <1>3 DEF TypeOK, clientVars, ClientTypeOK, slots, nodes, batches, given, PC
<1>5. ReadControl'
  BY <1>1 DEF ReadControl, TypeOK, ReadLocals
<1>6. RetireControl'
  BY <1>1, RetireKept DEF batches, PC, Retiring
<1> QED
  BY <1>4, <1>5, <1>6

\* traverse, the fetch_sub: it goes on with the successor.
LEMMA TypeTravDrop ==
  ASSUME TypeInv, NEW t \in Tasks, TravDrop(t)
  PROVE  TypeInv'
<1> USE DEF TypeInv
<1> DEFINE p == rd[t].succ
           r == link[Head(work[t])]
           rest == IF p = NULL THEN Tail(work[t]) ELSE <<p>> \o Tail(work[t])
           l == IF rest # <<>> THEN "trav"
                ELSE IF rd[t].op = "clear" THEN "free" ELSE "upd_null"
<1>1. /\ pc[t] = "drop" /\ work[t] # <<>> /\ work[t] \in Seq(Objs)
      /\ rd' = [rd EXCEPT ![t].succ = NULL]
      /\ UNCHANGED <<clientVars, epoch, allocs, slots, given, next, link,
                     birth, batch, minEpoch, listCount, rt>>
  BY DEF TravDrop, ReadControl, TypeOK
<1>2. Head(work[t]) \in Objs /\ Tail(work[t]) \in Seq(Objs)
  BY <1>1, HeadTailProperties
<1>3. r \in Objs /\ p \in Ptrs /\ refs[r] \in Int
  BY <1>2 DEF TypeOK, ReadLocals
<1>4. rest \in Seq(Objs)
  <2>1. CASE p = NULL
    BY <1>2, <2>1
  <2>2. CASE p # NULL
    <3>1. p \in Objs
      BY <1>3, <2>2 DEF Ptrs
    <3>2. <<p>> \in Seq(Objs)
      BY <3>1
    <3> QED
      BY <1>2, <2>2, <3>2, ConcatProperties
  <2> QED
    BY <2>1, <2>2
<1>5. /\ refs' = [refs EXCEPT ![r] = @ - 1]
      /\ work' = [work EXCEPT ![t] = rest]
      /\ pc' = [pc EXCEPT ![t] = l]
  BY DEF TravDrop, DropReference, WalkOn, Goto
<1>6. list' \in [Tasks -> SUBSET Objs]
  BY <1>3 DEF TravDrop, DropReference, TypeOK
<1>7. l \in PC \ Retiring /\ l \notin {"load", "drop"} /\ (l = "trav" => rest # <<>>)
  BY DEF PC, Retiring
<1> HIDE DEF p, r, rest, l, TypeInv
<1>8. refs' \in [Objs -> Int]
  <2>1. refs \in [Objs -> Int]
    BY DEF TypeInv, TypeOK
  <2>2. refs' = [refs EXCEPT ![r] = refs[r] - 1] /\ refs[r] - 1 \in Int
    BY <1>3, <1>5
  <2> QED
    BY <2>1, <2>2
<1>9. rd' \in [Tasks -> ReadLocals]
  <2>1. rd \in [Tasks -> ReadLocals]
    BY DEF TypeInv, TypeOK
  <2> QED
    BY <1>1, <2>1 DEF ReadLocals, Ptrs
<1> USE DEF TypeInv
<1>10. TypeOK'
  BY <1>1, <1>4, <1>5, <1>6, <1>7, <1>8, <1>9
     DEF TypeOK, clientVars, ClientTypeOK, slots, given
<1>11. ReadControl'
  BY <1>1, <1>5, <1>7 DEF ReadControl, TypeOK, ReadLocals
<1>12. RetireControl'
  BY <1>1, <1>5, <1>7, RetireKept DEF Retiring
<1> QED
  BY <1>10, <1>11, <1>12

\* The call of clear_all.
LEMMA TypeClear ==
  ASSUME TypeInv, NEW t \in Tasks, Clear(t)
  PROVE  TypeInv'
<1> USE DEF TypeInv
<1>1. /\ pc[t] = "idle" /\ Forget(t, Idx)
      /\ rd' = [rd EXCEPT ![t] = [NoRead EXCEPT !.op = "clear"]]
      /\ pc' = [pc EXCEPT ![t] = "clear"]
      /\ UNCHANGED <<clientVars, epoch, allocs, slots, nodes, batches, work, rt>>
  BY DEF Clear, Goto
<1>2. rd' \in [Tasks -> ReadLocals]
  BY <1>1, ConstType DEF TypeOK, NoRead, ReadLocals
<1>3. TypeOK'
  BY <1>1, <1>2, TypeForget
     DEF TypeOK, clientVars, ClientTypeOK, slots, nodes, batches, PC
<1>4. ReadControl'
  BY <1>1 DEF ReadControl, TypeOK, NoRead
<1>5. RetireControl'
  BY <1>1, RetireKept DEF batches, PC, Retiring
<1> QED
  BY <1>3, <1>4, <1>5

\* clear_all, one slot: the loop stops at the last one.
LEMMA TypeClearSlot ==
  ASSUME TypeInv, NEW t \in Tasks, ClearSlot(t)
  PROVE  TypeInv'
<1> USE DEF TypeInv
<1> DEFINE j == rd[t].idx
           old == first[t][j]
           todo == IF old \in Objs THEN Append(work[t], old) ELSE work[t]
           l == IF todo = <<>> THEN "free" ELSE "trav"
<1>1. /\ pc[t] = "clear" /\ j \in Idx /\ INVPTR \in SlotPtrs
      /\ first' = [first EXCEPT ![t][j] = INVPTR]
      /\ work' = [work EXCEPT ![t] = todo]
      /\ UNCHANGED <<clientVars, epoch, allocs, nodes, batches, given, slotEpoch, rt>>
  BY DEF ClearSlot, TypeOK, ReadLocals, SlotPtrs
<1>2. first' \in [Tasks -> [Idx -> SlotPtrs]]
  BY <1>1 DEF TypeOK
<1>3. todo \in Seq(Objs)
  BY AppendProperties DEF TypeOK
<1>4. CASE j < HRNum
  <2>1. rd' = [rd EXCEPT ![t].idx = j + 1] /\ pc' = pc
    BY <1>4 DEF ClearSlot
  <2> HIDE DEF j, todo
  <2>2. j + 1 \in Idx
    <3> HIDE DEF TypeInv
    <3> QED
      BY <1>1, <1>4, ParamAssumption DEF Idx
  <2>3. rd' \in [Tasks -> ReadLocals]
    <3>1. rd \in [Tasks -> ReadLocals]
      BY DEF TypeOK
    <3> HIDE DEF TypeInv
    <3> QED
      BY <2>1, <2>2, <3>1 DEF ReadLocals
  <2>4. TypeOK'
    BY <1>1, <1>2, <1>3, <2>1, <2>3
       DEF TypeOK, clientVars, ClientTypeOK, nodes, batches, given
  <2>5. ReadControl'
    BY <1>1, <2>1, SMTT(30) DEF ReadControl, TypeOK, ReadLocals
  <2>6. RetireControl'
    BY <1>1, <2>1 DEF RetireControl, batches
  <2> QED
    BY <2>4, <2>5, <2>6
<1>5. CASE ~(j < HRNum)
  <2>1. pc' = [pc EXCEPT ![t] = l] /\ rd' = rd
    BY <1>5 DEF ClearSlot, Goto
  <2>2. l \in PC \ Retiring /\ l \notin {"load", "drop"} /\ (l = "trav" => todo # <<>>)
    BY DEF PC, Retiring
  <2> HIDE DEF j, todo, l
  <2>3. TypeOK'
    BY <1>1, <1>2, <1>3, <2>1, <2>2
       DEF TypeOK, clientVars, ClientTypeOK, nodes, batches, given
  <2>4. ReadControl'
    BY <1>1, <2>1, <2>2 DEF ReadControl, TypeOK
  <2>5. RetireControl'
    BY <1>1, <2>1, <2>2, RetireKept DEF batches, Retiring
  <2> QED
    BY <2>3, <2>4, <2>5
<1> QED
  BY <1>4, <1>5

\* clear_all, free_list.
LEMMA TypeClearFree ==
  ASSUME TypeInv, NEW t \in Tasks, ClearFree(t)
  PROVE  TypeInv'
<1> USE DEF TypeInv
<1>1. /\ pc[t] = "free" /\ FreeList(list[t])
      /\ list' = [list EXCEPT ![t] = {}]
      /\ listCount' = [listCount EXCEPT ![t] = 0]
      /\ rd' = [rd EXCEPT ![t] = NoRead]
      /\ pc' = [pc EXCEPT ![t] = "idle"]
      /\ UNCHANGED <<epoch, allocs, slots, nodes, given, batch, minEpoch, work, rt>>
  BY DEF ClearFree, Goto
<1>2. ClientTypeOK'
  BY <1>1, TypeFree DEF TypeOK
<1>3. listCount' \in [Tasks -> 0 .. MaxHRC]
  BY <1>1, ParamAssumption DEF TypeOK
<1>4. TypeOK'
  BY <1>1, <1>2, <1>3, ConstType DEF TypeOK, slots, nodes, given, PC
<1>5. ReadControl'
  BY <1>1 DEF ReadControl, TypeOK, NoRead
<1>6. RetireControl'
  BY <1>1, RetireKept DEF PC, Retiring
<1> QED
  BY <1>4, <1>5, <1>6

-----------------------------------------------------------------------------
\* Steps of retire and try_retire.
LEMMA TypeRetire ==
  ASSUME TypeInv, NEW t \in Tasks, Retire(t)
  PROVE  TypeInv'
<1> USE DEF TypeInv
<1> DEFINE o == victim[t]
           r == IF batch[t] = <<>> THEN o ELSE batch[t][Len(batch[t])]
           l == IF (Len(batch[t]) + 1) % Freq = 0 THEN "scan" ELSE "idle"
           b == <<o>> \o batch[t]
<1>1. /\ pc[t] = "idle" /\ HandOver(t)
      /\ link' = [link EXCEPT ![o] = r]
      /\ batch' = [batch EXCEPT ![t] = b]
      /\ pc' = [pc EXCEPT ![t] = l]
      /\ UNCHANGED <<epoch, allocs, slots, given, next, birth, list,
                     listCount, rd, work, rt>>
  BY DEF Retire, Goto
<1>2. o \in Objs
  BY <1>1 DEF HandOver, TypeOK, ClientTypeOK, Ptrs
<1>3. batch[t] \in Seq(Objs) /\ Len(batch[t]) \in Nat
  BY LenProperties DEF TypeOK
<1>4. r \in Objs
  <2>1. CASE batch[t] = <<>>
    BY <1>2, <2>1
  <2>2. CASE batch[t] # <<>>
    <3>1. Len(batch[t]) \in 1 .. Len(batch[t])
      BY <1>3, <2>2, EmptySeq
    <3> QED
      BY <1>3, <2>2, <3>1, ElementOfSeq
  <2> QED
    BY <2>1, <2>2
<1>5. b \in Seq(Objs) /\ Len(b) = 1 + Len(batch[t]) /\ b # <<>>
  <2>1. <<o>> \in Seq(Objs) /\ Len(<<o>>) = 1
    BY <1>2
  <2>2. b \in Seq(Objs) /\ Len(b) = 1 + Len(batch[t])
    BY <1>3, <2>1, ConcatProperties
  <2>3. Len(b) # 0
    BY <1>3, <2>2
  <2> QED
    BY <2>2, <2>3, EmptySeq
<1>6. ClientTypeOK'
  BY <1>1 DEF HandOver, TypeOK, ClientTypeOK, Status, Ptrs
<1>7. minEpoch' \in [Tasks -> 0 .. MaxEpoch]
  BY <1>2 DEF Retire, TypeOK
<1>8. refs' \in [Objs -> Int]
  BY <1>2 DEF Retire, TypeOK
<1>9. l \in {"scan", "idle"}
  OBVIOUS
<1> HIDE DEF o, r, l, b
<1>10. link' \in [Objs -> Objs] /\ batch' \in [Tasks -> Seq(Objs)]
  BY <1>1, <1>4, <1>5 DEF TypeOK
<1>11. TypeOK'
  BY <1>1, <1>6, <1>7, <1>8, <1>9, <1>10 DEF TypeOK, slots, given, PC
<1>12. ReadControl'
  BY <1>1, <1>9 DEF ReadControl, TypeOK
<1>13. rt[t] = NoRetire
  BY <1>1 DEF RetireControl, Retiring
<1>14. rt[t].pos \in SlotIds /\ Len(rt[t].asg) < Len(b)
  BY <1>3, <1>5, <1>13, ConstType DEF NoRetire
<1>15. RetireControl'
  BY <1>1, <1>5, <1>9, <1>13, <1>14 DEF RetireControl, TypeOK, Retiring
<1> QED
  BY <1>11, <1>12, <1>15

\* The loop of the scan goes on to the next slot with more assigned nodes.
LEMMA TypeScanned ==
  ASSUME TypeInv, NEW t \in Tasks, pc[t] \in {"scan", "scan_epoch"},
         NEW asg \in Seq(Objs \X SlotIds), Len(asg) < Len(batch[t]),
         Scanned(t, asg),
         UNCHANGED <<clientVars, epoch, allocs, slots, nodes, batches,
                     given, rd, work>>
  PROVE  TypeInv'
<1> USE DEF TypeInv
<1> DEFINE a == After(rt[t].pos)
           l == IF a = EndPos THEN "insert" ELSE "scan"
<1>1. a \in SlotIds \/ a = EndPos
  BY AfterType DEF RetireControl
<1>2. /\ rt' = [rt EXCEPT ![t].pos = a, ![t].asg = asg]
      /\ pc' = [pc EXCEPT ![t] = l]
  BY DEF Scanned, Goto
<1>3. l \in {"insert", "scan"} /\ (l = "scan" => a \in SlotIds)
  BY <1>1
<1>4. batch[t] # <<>>
  BY DEF RetireControl, Retiring
<1> HIDE DEF a, l
<1>5. rt' \in [Tasks -> RetireLocals]
  <2>1. rt \in [Tasks -> RetireLocals]
    BY DEF TypeOK
  <2> HIDE DEF TypeInv
  <2> QED
    BY <1>1, <1>2, <2>1 DEF RetireLocals
<1>6. TypeOK'
  BY <1>2, <1>3, <1>5
     DEF TypeOK, clientVars, ClientTypeOK, slots, nodes, batches, given, PC
<1>7. ReadControl'
  BY <1>2, <1>3 DEF ReadControl, TypeOK
<1>8. rt'[t].pos = a /\ rt'[t].asg = asg
  BY <1>2 DEF TypeOK, RetireLocals
<1>9. \A u \in Tasks \ {t} : rt'[u] = rt[u] /\ pc'[u] = pc[u]
  BY <1>2 DEF TypeOK
<1>10. RetireControl'
  BY <1>2, <1>3, <1>4, <1>8, <1>9 DEF RetireControl, TypeOK, batches, Retiring
<1> QED
  BY <1>6, <1>7, <1>10

\* try_retire, the load of the head of a slot.
LEMMA TypeScanFirst ==
  ASSUME TypeInv, NEW t \in Tasks, ScanFirst(t)
  PROVE  TypeInv'
<1> USE DEF TypeInv
<1>1. /\ pc[t] = "scan"
      /\ UNCHANGED <<clientVars, epoch, allocs, slots, nodes, batches,
                     given, rd, work>>
  BY DEF ScanFirst
<1>2. rt[t].asg \in Seq(Objs \X SlotIds) /\ Len(rt[t].asg) < Len(batch[t])
  BY <1>1 DEF TypeOK, RetireLocals, RetireControl
<1>3. CASE Scanned(t, rt[t].asg)
  BY <1>1, <1>2, <1>3, TypeScanned
<1>4. CASE Goto(t, "scan_epoch") /\ UNCHANGED rt
  <2>1. TypeOK'
    BY <1>1, <1>4
       DEF Goto, TypeOK, clientVars, ClientTypeOK, slots, nodes, batches, given, PC
  <2>2. ReadControl'
    BY <1>1, <1>4 DEF Goto, ReadControl, TypeOK
  <2>3. RetireControl'
    BY <1>1, <1>4 DEF Goto, RetireControl, TypeOK, batches, Retiring
  <2> QED
    BY <2>1, <2>2, <2>3
<1> QED
  BY <1>3, <1>4 DEF ScanFirst

\* A step that ends try_retire.
LEMMA TypeLeave ==
  ASSUME TypeInv, NEW t \in Tasks, rt' = [rt EXCEPT ![t] = NoRetire],
         pc' = [pc EXCEPT ![t] = "idle"],
         \A u \in Tasks \ {t} : batch'[u] = batch[u],
         UNCHANGED <<rd, work>>
  PROVE  ReadControl' /\ RetireControl'
<1> USE DEF TypeInv
<1>1. ReadControl'
  BY DEF ReadControl, TypeOK
<1>2. RetireControl'
  BY DEF RetireControl, TypeOK, Retiring
<1> QED
  BY <1>1, <1>2

\* try_retire, the assignment of a node that is not the last one.
LEMMA TypeScanEpoch ==
  ASSUME TypeInv, NEW t \in Tasks, ScanEpoch(t)
  PROVE  TypeInv'
<1> USE DEF TypeInv
<1> DEFINE s == rt[t].pos
           asg == rt[t].asg
           k == Len(asg) + 1
<1>1. /\ pc[t] = "scan_epoch"
      /\ UNCHANGED <<clientVars, epoch, allocs, slots, nodes, batches,
                     given, rd, work>>
  BY DEF ScanEpoch
<1>2. /\ asg \in Seq(Objs \X SlotIds) /\ Len(asg) < Len(batch[t])
      /\ s \in SlotIds /\ batch[t] \in Seq(Objs)
  BY <1>1 DEF TypeOK, RetireLocals, RetireControl
<1>3. Len(asg) \in Nat /\ Len(batch[t]) \in Nat
  BY <1>2, LenProperties
<1>4. CASE Scanned(t, asg)
  BY <1>1, <1>2, <1>4, TypeScanned
<1>5. CASE rt' = [rt EXCEPT ![t] = NoRetire] /\ Goto(t, "idle")
  <2>1. TypeOK'
    BY <1>1, <1>5, ConstType
       DEF Goto, TypeOK, clientVars, ClientTypeOK, slots, nodes, batches, given, PC
  <2> QED
    BY <1>1, <1>5, <2>1, TypeLeave DEF Goto, batches
<1>6. CASE k # Len(batch[t]) /\ Scanned(t, Append(asg, <<batch[t][k], s>>))
  <2>1. k \in 1 .. Len(batch[t]) /\ k < Len(batch[t])
    BY <1>2, <1>3, <1>6
  <2>2. batch[t][k] \in Objs
    BY <1>2, <2>1, ElementOfSeq
  <2>3. <<batch[t][k], s>> \in Objs \X SlotIds
    BY <1>2, <2>2
  <2>4. /\ Append(asg, <<batch[t][k], s>>) \in Seq(Objs \X SlotIds)
        /\ Len(Append(asg, <<batch[t][k], s>>)) = Len(asg) + 1
    BY <1>2, <2>3, AppendProperties
  <2>5. Len(Append(asg, <<batch[t][k], s>>)) < Len(batch[t])
    BY <2>1, <2>4
  <2> QED
    BY <1>1, <1>6, <2>4, <2>5, TypeScanned
<1> QED
  BY <1>4, <1>5, <1>6 DEF ScanEpoch

\* A step of the second loop: the next node to push, or this one again.
LEMMA TypeInserting ==
  ASSUME TypeInv, NEW t \in Tasks, pc[t] \in {"insert", "ins_epoch", "ins_cas"},
         NEW l \in {"insert", "ins_epoch", "ins_cas"}, NEW r \in RetireLocals,
         rt' = [rt EXCEPT ![t] = r], pc' = [pc EXCEPT ![t] = l],
         l # "insert" => r.asg # <<>> /\ r.prev # INVPTR,
         UNCHANGED <<rd, work, batch>>
  PROVE  /\ rt' \in [Tasks -> RetireLocals] /\ pc' \in [Tasks -> PC]
         /\ ReadControl' /\ RetireControl'
<1> USE DEF TypeInv
<1>1. rt' \in [Tasks -> RetireLocals] /\ pc' \in [Tasks -> PC]
  BY DEF TypeOK, PC
<1>2. ReadControl'
  BY DEF ReadControl, TypeOK
<1>3. batch[t] # <<>>
  BY DEF RetireControl, Retiring
<1>4. rt'[t] = r /\ pc'[t] = l
  BY DEF TypeOK
<1>5. \A u \in Tasks \ {t} : rt'[u] = rt[u] /\ pc'[u] = pc[u]
  BY DEF TypeOK
<1>6. RetireControl'
  BY <1>3, <1>4, <1>5 DEF RetireControl, Retiring
<1> QED
  BY <1>1, <1>2, <1>6

\* What is left to assign, and the locals with the head of the slot.
LEMMA NextLocals ==
  ASSUME TypeInv, NEW t \in Tasks, rt[t].asg # <<>>
  PROVE  /\ rt[t] \in RetireLocals
         /\ [rt[t] EXCEPT !.asg = Tail(@)] \in RetireLocals
         /\ [rt[t] EXCEPT !.asg = Tail(@), !.adjs = @ + 1] \in RetireLocals
         /\ Head(rt[t].asg)[1] \in Objs
         /\ Head(rt[t].asg)[2][1] \in Tasks /\ Head(rt[t].asg)[2][2] \in Idx
<1>1. rt[t] \in RetireLocals
  BY DEF TypeInv, TypeOK
<1>2. rt[t].asg \in Seq(Objs \X SlotIds) /\ rt[t].adjs \in Nat
  BY <1>1 DEF RetireLocals
<1>3. Tail(rt[t].asg) \in Seq(Objs \X SlotIds) /\ Head(rt[t].asg) \in Objs \X SlotIds
  BY <1>2, HeadTailProperties
<1>4. rt[t].adjs + 1 \in Nat
  BY <1>2
<1>5. [rt[t] EXCEPT !.asg = Tail(@)] \in RetireLocals
  BY <1>1, <1>3 DEF RetireLocals
<1>6. [rt[t] EXCEPT !.asg = Tail(@), !.adjs = @ + 1] \in RetireLocals
  BY <1>1, <1>3, <1>4 DEF RetireLocals
<1> QED
  BY <1>1, <1>3, <1>5, <1>6 DEF SlotIds

\* A head that try_retire has loaded: skip the slot or expect this head.
LEMMA TypeExpect ==
  ASSUME TypeInv, NEW t \in Tasks, pc[t] \in {"insert", "ins_epoch", "ins_cas"},
         rt[t].asg # <<>>, NEW p \in SlotPtrs, Expect(t, p),
         UNCHANGED <<rd, work, batch>>
  PROVE  /\ rt' \in [Tasks -> RetireLocals] /\ pc' \in [Tasks -> PC]
         /\ ReadControl' /\ RetireControl'
<1>1. CASE p = INVPTR
  <2>1. /\ rt' = [rt EXCEPT ![t] = [rt[t] EXCEPT !.asg = Tail(@)]]
        /\ pc' = [pc EXCEPT ![t] = "insert"]
    BY <1>1 DEF Expect, Goto
  <2> QED
    BY <2>1, NextLocals, TypeInserting
<1>2. CASE p # INVPTR
  <2>1. /\ rt' = [rt EXCEPT ![t] = [rt[t] EXCEPT !.prev = p]]
        /\ pc' = [pc EXCEPT ![t] = "ins_epoch"]
    BY <1>2 DEF Expect, Goto
  <2>2. rt[t] \in RetireLocals
    BY DEF TypeInv, TypeOK
  <2>3. /\ [rt[t] EXCEPT !.prev = p] \in RetireLocals
        /\ [rt[t] EXCEPT !.prev = p].asg = rt[t].asg
        /\ [rt[t] EXCEPT !.prev = p].prev = p
    BY <2>2 DEF RetireLocals
  <2> QED
    BY <1>2, <2>1, <2>3, TypeInserting
<1> QED
  BY <1>1, <1>2

\* try_retire, the first load of the head before a push.
LEMMA TypeInsertLoad ==
  ASSUME TypeInv, NEW t \in Tasks, InsertLoad(t)
  PROVE  TypeInv'
<1> DEFINE s == Head(rt[t].asg)[2]
           p == first[s[1]][s[2]]
<1>1. /\ pc[t] = "insert" /\ rt[t].asg # <<>> /\ Expect(t, p)
      /\ UNCHANGED <<clientVars, epoch, allocs, slots, nodes, batches,
                     given, rd, work>>
  BY DEF InsertLoad
<1>2. p \in SlotPtrs
  <2>1. s[1] \in Tasks /\ s[2] \in Idx
    BY <1>1, NextLocals
  <2> HIDE DEF s
  <2> QED
    BY <2>1 DEF TypeInv, TypeOK
<1> HIDE DEF p
<1>3. /\ rt' \in [Tasks -> RetireLocals] /\ pc' \in [Tasks -> PC]
      /\ ReadControl' /\ RetireControl'
  BY <1>1, <1>2, TypeExpect DEF batches
<1>4. TypeOK'
  BY <1>1, <1>3
     DEF TypeInv, TypeOK, clientVars, ClientTypeOK, slots, nodes, batches, given
<1> QED
  BY <1>3, <1>4 DEF TypeInv

\* try_retire, the second epoch check and the link of the node.
LEMMA TypeInsertEpoch ==
  ASSUME TypeInv, NEW t \in Tasks, InsertEpoch(t)
  PROVE  TypeInv'
<1> DEFINE n == Head(rt[t].asg)[1]
           s == Head(rt[t].asg)[2]
<1>1. /\ pc[t] = "ins_epoch"
      /\ UNCHANGED <<clientVars, epoch, allocs, slots, batches, given,
                     refs, link, birth, rd, work>>
  BY DEF InsertEpoch
<1>2. rt[t].asg # <<>> /\ rt[t].prev # INVPTR /\ rt[t] \in RetireLocals
  BY <1>1 DEF TypeInv, TypeOK, RetireControl
<1>3. n \in Objs /\ rt[t].prev \in Ptrs
  BY <1>2, NextLocals DEF RetireLocals, SlotPtrs, Ptrs
<1>4. CASE Older(t, s)
  <2>1. /\ rt' = [rt EXCEPT ![t] = [rt[t] EXCEPT !.asg = Tail(@)]]
        /\ pc' = [pc EXCEPT ![t] = "insert"]
        /\ UNCHANGED next
    BY <1>4 DEF InsertEpoch, Goto
  <2>2. /\ rt' \in [Tasks -> RetireLocals] /\ pc' \in [Tasks -> PC]
        /\ ReadControl' /\ RetireControl'
    BY <1>1, <1>2, <2>1, NextLocals, TypeInserting DEF batches
  <2>3. TypeOK'
    BY <1>1, <2>1, <2>2
       DEF TypeInv, TypeOK, clientVars, ClientTypeOK, slots, batches, given
  <2> QED
    BY <2>2, <2>3 DEF TypeInv
<1>5. CASE ~Older(t, s)
  <2>1. /\ next' = [next EXCEPT ![n] = rt[t].prev]
        /\ pc' = [pc EXCEPT ![t] = "ins_cas"]
        /\ rt' = rt
    BY <1>5 DEF InsertEpoch, Goto
  <2>2. rt' = [rt EXCEPT ![t] = rt[t]]
    BY <2>1 DEF TypeInv, TypeOK
  <2>3. /\ rt' \in [Tasks -> RetireLocals] /\ pc' \in [Tasks -> PC]
        /\ ReadControl' /\ RetireControl'
    BY <1>1, <1>2, <2>1, <2>2, TypeInserting DEF batches
  <2> HIDE DEF n
  <2>4. next' \in [Objs -> Ptrs]
    BY <1>3, <2>1 DEF TypeInv, TypeOK
  <2>5. TypeOK'
    BY <1>1, <2>3, <2>4
       DEF TypeInv, TypeOK, clientVars, ClientTypeOK, slots, batches, given
  <2> QED
    BY <2>3, <2>5 DEF TypeInv
<1> QED
  BY <1>4, <1>5

\* try_retire, the push or the new expected head.
LEMMA TypeInsertCas ==
  ASSUME TypeInv, NEW t \in Tasks, InsertCas(t)
  PROVE  TypeInv'
<1> DEFINE n == Head(rt[t].asg)[1]
           s == Head(rt[t].asg)[2]
           p == first[s[1]][s[2]]
<1>1. /\ pc[t] = "ins_cas"
      /\ UNCHANGED <<clientVars, epoch, allocs, nodes, batches, given,
                     slotEpoch, rd, work>>
  BY DEF InsertCas
<1>2. rt[t].asg # <<>> /\ rt[t] \in RetireLocals
  BY <1>1 DEF TypeInv, TypeOK, RetireControl
<1>3. n \in Objs /\ s[1] \in Tasks /\ s[2] \in Idx
  BY <1>2, NextLocals
<1>4. p \in SlotPtrs
  <2> HIDE DEF s
  <2> QED
    BY <1>3 DEF TypeInv, TypeOK
<1>5. CASE p = rt[t].prev
  <2>1. /\ first' = [first EXCEPT ![s[1]][s[2]] = n]
        /\ rt' = [rt EXCEPT ![t] = [rt[t] EXCEPT !.asg = Tail(@), !.adjs = @ + 1]]
        /\ pc' = [pc EXCEPT ![t] = "insert"]
    BY <1>5 DEF InsertCas, Goto
  <2>2. /\ rt' \in [Tasks -> RetireLocals] /\ pc' \in [Tasks -> PC]
        /\ ReadControl' /\ RetireControl'
    BY <1>1, <1>2, <2>1, NextLocals, TypeInserting DEF batches
  <2> HIDE DEF n, s
  <2>3. first' \in [Tasks -> [Idx -> SlotPtrs]]
    BY <1>3, <2>1 DEF TypeInv, TypeOK, SlotPtrs
  <2>4. TypeOK'
    BY <1>1, <2>2, <2>3
       DEF TypeInv, TypeOK, clientVars, ClientTypeOK, nodes, batches, given
  <2> QED
    BY <2>2, <2>4 DEF TypeInv
<1>6. CASE p # rt[t].prev
  <2>1. Expect(t, p) /\ UNCHANGED first
    BY <1>6 DEF InsertCas
  <2> HIDE DEF p
  <2>2. /\ rt' \in [Tasks -> RetireLocals] /\ pc' \in [Tasks -> PC]
        /\ ReadControl' /\ RetireControl'
    BY <1>1, <1>2, <1>4, <2>1, TypeExpect DEF batches
  <2>3. TypeOK'
    BY <1>1, <2>1, <2>2
       DEF TypeInv, TypeOK, clientVars, ClientTypeOK, nodes, batches, given
  <2> QED
    BY <2>2, <2>3 DEF TypeInv
<1> QED
  BY <1>5, <1>6

\* try_retire, the adjustment and the reset of the batch.
LEMMA TypeAdjust ==
  ASSUME TypeInv, NEW t \in Tasks, Adjust(t)
  PROVE  TypeInv'
<1> DEFINE r == batch[t][Len(batch[t])]
           n == rt[t].adjs
<1>1. /\ pc[t] = "insert"
      /\ FreeList(IF AllReleased(r, n) THEN {r} ELSE {})
      /\ refs' = [refs EXCEPT ![r] = @ + n]
      /\ batch' = [batch EXCEPT ![t] = <<>>]
      /\ rt' = [rt EXCEPT ![t] = NoRetire]
      /\ pc' = [pc EXCEPT ![t] = "idle"]
      /\ UNCHANGED <<epoch, allocs, slots, given, next, link, birth,
                     minEpoch, list, listCount, rd, work>>
  BY DEF Adjust, Goto
<1>2. n \in Nat
  BY DEF TypeInv, TypeOK, RetireLocals
<1>3. ClientTypeOK'
  BY <1>1, TypeFree DEF TypeInv, TypeOK
<1>4. <<>> \in Seq(Objs)
  BY EmptySeq
<1>5. refs' \in [Objs -> Int]
  <2>1. batch[t] \in Seq(Objs) /\ batch[t] # <<>>
    BY <1>1 DEF TypeInv, TypeOK, RetireControl, Retiring
  <2>2. Len(batch[t]) \in 1 .. Len(batch[t])
    BY <2>1, EmptySeq
  <2>3. r \in Objs
    BY <2>1, <2>2, ElementOfSeq
  <2>4. refs' = [refs EXCEPT ![r] = refs[r] + n] /\ refs \in [Objs -> Int]
    BY <1>1 DEF TypeInv, TypeOK
  <2> HIDE DEF r, n
  <2>5. refs[r] + n \in Int
    BY <1>2, <2>3, <2>4
  <2> QED
    BY <2>4, <2>5
<1>6. TypeOK'
  BY <1>1, <1>3, <1>4, <1>5, ConstType DEF TypeInv, TypeOK, slots, given, PC
<1>7. \A u \in Tasks \ {t} : batch'[u] = batch[u]
  BY <1>1 DEF TypeInv, TypeOK
<1>8. ReadControl' /\ RetireControl'
  BY <1>1, <1>7, TypeLeave
<1> QED
  BY <1>6, <1>8 DEF TypeInv

-----------------------------------------------------------------------------
\* The types hold at the start.
LEMMA TypeInit == Init => TypeInv
<1> SUFFICES ASSUME Init PROVE TypeInv
  OBVIOUS
<1>1. <<>> \in Seq(Objs)
  BY EmptySeq
<1>2. TypeOK
  BY <1>1, ConstType, ClientInitInv, ParamAssumption
     DEF Init, TypeOK, ClientInv, PC, SlotPtrs, Ptrs
<1>3. ReadControl
  BY DEF Init, ReadControl, NoRead
<1>4. RetireControl
  BY DEF Init, RetireControl, Retiring
<1> QED
  BY <1>2, <1>3, <1>4 DEF TypeInv

\* The types are preserved by every step.
LEMMA TypeNext == TypeInv /\ [Next]_vars => TypeInv'
<1> SUFFICES ASSUME TypeInv, [Next]_vars PROVE TypeInv'
  OBVIOUS
<1>1. ASSUME NEW t \in Tasks, Step(t) PROVE TypeInv'
  BY <1>1, TypeBirth, TypeReadLoad, TypeCheckEpoch, TypeValidate,
     TypeUpdDetach, TypeUpdNull, TypeUpdReload, TypeUpdEpoch, TypeTravLoad,
     TypeTravDrop, TypeClearSlot, TypeClearFree, TypeScanFirst, TypeScanEpoch,
     TypeInsertLoad, TypeInsertEpoch, TypeInsertCas, TypeAdjust DEF Step, Traverse
<1>2. ASSUME NEW t \in Tasks, Call(t) PROVE TypeInv'
  BY <1>2, TypeClear, TypeBegin, TypeAlloc, TypeRideable, TypeRetire DEF Call
<1>3. CASE UNCHANGED vars
  BY <1>3 DEF vars, clientVars, slots, nodes, batches, given, TypeInv, TypeOK,
              ClientTypeOK, ReadControl, RetireControl
<1> QED
  BY <1>1, <1>2, <1>3 DEF Next

\* Every variable of the model keeps its type: the cached lists are counted
\* within MAX_HRC, the scan of the slots stays within the table, nothing is
\* taken from an empty batch or list.
THEOREM TypeCorrect == Spec => []TypeOK
<1>1. TypeInv => TypeOK
  BY DEF TypeInv
<1> QED
  BY <1>1, TypeInit, TypeNext, PTL DEF Spec

-----------------------------------------------------------------------------
\* The nodes that a set of heads reaches are closed under succession, and they
\* are the least such set.
LEMMA ReachClosed ==
  ASSUME NEW f \in [Objs -> Ptrs], NEW H
  PROVE  Reach(f, H) \subseteq Objs /\ ClosedUnder(f, H, Reach(f, H))
BY DEF Reach, ClosedUnder, Ptrs

\* Every closed set that has the heads has what they reach.
LEMMA ReachLeast ==
  ASSUME NEW f \in [Objs -> Ptrs], NEW H, NEW S \in SUBSET Objs,
         ClosedUnder(f, H, S)
  PROVE  Reach(f, H) \subseteq S
BY DEF Reach

\* Heads within the reach of others reach nothing new.
LEMMA ReachWithin ==
  ASSUME NEW f \in [Objs -> Ptrs], NEW G, NEW H,
         G \intersect Objs \subseteq Reach(f, H)
  PROVE  Reach(f, G) \subseteq Reach(f, H)
<1>1. Reach(f, H) \in SUBSET Objs /\ ClosedUnder(f, H, Reach(f, H))
  BY ReachClosed
<1>2. ClosedUnder(f, G, Reach(f, H))
  BY <1>1 DEF ClosedUnder
<1> QED
  BY <1>1, <1>2, ReachLeast

\* More heads reach more; null pointers among them reach nothing.
LEMMA ReachMore ==
  ASSUME NEW f \in [Objs -> Ptrs], NEW G, NEW H,
         G \intersect Objs \subseteq H
  PROVE  Reach(f, G) \subseteq Reach(f, H)
<1>1. H \intersect Objs \subseteq Reach(f, H)
  BY ReachClosed DEF ClosedUnder
<1> QED
  BY <1>1, ReachWithin

\* What is reached depends on the nodes among the heads only.
LEMMA ReachSame ==
  ASSUME NEW f \in [Objs -> Ptrs], NEW G, NEW H,
         G \intersect Objs = H \intersect Objs
  PROVE  Reach(f, G) = Reach(f, H)
<1>1. G \intersect Objs \subseteq H /\ H \intersect Objs \subseteq G
  OBVIOUS
<1>2. Reach(f, G) \subseteq Reach(f, H)
  BY <1>1, ReachMore
<1>3. Reach(f, H) \subseteq Reach(f, G)
  BY <1>1, ReachMore
<1> QED
  BY <1>2, <1>3

\* Linking a node that is out of reach changes no list.
LEMMA ReachRelink ==
  ASSUME NEW f \in [Objs -> Ptrs], NEW H, NEW n \in Objs, NEW p \in Ptrs,
         n \notin Reach(f, H)
  PROVE  Reach([f EXCEPT ![n] = p], H) = Reach(f, H)
<1> DEFINE g == [f EXCEPT ![n] = p]
<1>1. g \in [Objs -> Ptrs] /\ \A m \in Objs \ {n} : g[m] = f[m]
  OBVIOUS
<1> HIDE DEF g
<1>2. Reach(f, H) \in SUBSET Objs /\ ClosedUnder(f, H, Reach(f, H))
  BY ReachClosed
<1>3. ClosedUnder(g, H, Reach(f, H))
  BY <1>1, <1>2 DEF ClosedUnder
<1>4. Reach(g, H) \subseteq Reach(f, H)
  BY <1>1, <1>2, <1>3, ReachLeast
<1>5. Reach(g, H) \in SUBSET Objs /\ ClosedUnder(g, H, Reach(g, H))
  BY <1>1, ReachClosed
<1>6. ClosedUnder(f, H, Reach(g, H))
  BY <1>1, <1>4, <1>5 DEF ClosedUnder
<1>7. Reach(f, H) \subseteq Reach(g, H)
  BY <1>5, <1>6, ReachLeast
<1> QED
  BY <1>4, <1>7 DEF g

\* A push: n takes the place of its successor p among the heads.
LEMMA ReachPush ==
  ASSUME NEW f \in [Objs -> Ptrs], NEW G, NEW H, NEW n \in Objs,
         n \in G, G \intersect Objs \subseteq H \union {n},
         H \intersect Objs \subseteq G \union {f[n]}, f[n] \in H \union {NULL}
  PROVE  Reach(f, G) = Reach(f, H) \union {n}
<1>1. /\ Reach(f, H) \in SUBSET Objs /\ ClosedUnder(f, H, Reach(f, H))
      /\ Reach(f, G) \in SUBSET Objs /\ ClosedUnder(f, G, Reach(f, G))
      /\ f[n] \in Objs \union {NULL}
  BY ReachClosed DEF Ptrs
<1>2. ClosedUnder(f, G, Reach(f, H) \union {n})
  BY <1>1 DEF ClosedUnder
<1>3. Reach(f, G) \subseteq Reach(f, H) \union {n}
  BY <1>1, <1>2, ReachLeast
<1>4. n \in Reach(f, G) /\ f[n] \in Reach(f, G) \union {NULL}
  BY <1>1 DEF ClosedUnder
<1>5. NULL \notin Objs
  BY ClientAssumption
<1>6. H \intersect Objs \subseteq Reach(f, G)
  BY <1>1, <1>4, <1>5 DEF ClosedUnder
<1>7. Reach(f, H) \subseteq Reach(f, G)
  BY <1>6, ReachWithin
<1> QED
  BY <1>3, <1>4, <1>7

\* A walk past n, which nothing leads to: its successor takes its place.
LEMMA ReachPop ==
  ASSUME NEW f \in [Objs -> Ptrs], NEW G, NEW H, NEW n \in Objs,
         n \in H, n \notin G, H \intersect Objs \subseteq G \union {n},
         G \intersect Objs \subseteq H \union {f[n]}, f[n] \in G \union {NULL},
         Reach(f, H) \intersect {m \in Objs : f[m] = n} = {}
  PROVE  Reach(f, G) = Reach(f, H) \ {n}
<1>1. /\ Reach(f, H) \in SUBSET Objs /\ ClosedUnder(f, H, Reach(f, H))
      /\ Reach(f, G) \in SUBSET Objs /\ ClosedUnder(f, G, Reach(f, G))
      /\ f[n] \in Objs \union {NULL}
  BY ReachClosed DEF Ptrs
<1>2. n \in Reach(f, H) /\ f[n] \in Reach(f, H) \union {NULL}
  BY <1>1 DEF ClosedUnder
<1>3. NULL \notin Objs
  BY ClientAssumption
<1>4. ClosedUnder(f, G, Reach(f, H) \ {n})
  BY <1>1, <1>2, <1>3 DEF ClosedUnder
<1>5. Reach(f, G) \subseteq Reach(f, H) \ {n}
  BY <1>1, <1>4, ReachLeast
<1>6. ClosedUnder(f, H, Reach(f, G) \union {n})
  BY <1>1, <1>3 DEF ClosedUnder
<1>7. Reach(f, H) \subseteq Reach(f, G) \union {n}
  BY <1>1, <1>6, ReachLeast
<1> QED
  BY <1>5, <1>7

\* The head of a slot, the last node of a batch, the nodes of a batch in lists.
At(s) == first[s[1]][s[2]]
Last(t) == batch[t][Len(batch[t])]
Flight(r) == {n \in InFlight : link[n] = r}

\* Every node in flight hangs on one pointer: the head of a slot, a place in a
\* list of detached heads, or the successor of another node.
OnePointer ==
    /\ \A s, z \in SlotIds : At(s) = At(z) /\ At(s) \in Objs => s = z
    /\ \A t \in Tasks : \A k, l \in 1 .. Len(work[t]) :
          work[t][k] = work[t][l] => k = l
    /\ \A t, u \in Tasks : Walks(t) \intersect Walks(u) # {} => t = u
    /\ \A s \in SlotIds, t \in Tasks : At(s) \notin Walks(t)
    /\ \A m, n \in InFlight : next[m] = next[n] /\ next[m] # NULL => m = n
    /\ \A m \in InFlight, s \in SlotIds : next[m] = At(s) => next[m] = NULL
    /\ \A m \in InFlight, t \in Tasks : next[m] \notin Walks(t)

\* The nodes in flight, their heads and their successors.
LEMMA FlightType ==
  ASSUME TypeOK
  PROVE  /\ next \in [Objs -> Ptrs] /\ InFlight \subseteq Objs
         /\ Heads \intersect Objs \subseteq InFlight
         /\ \A n \in InFlight : next[n] \in InFlight \union {NULL}
         /\ \A s \in SlotIds : At(s) \in SlotPtrs /\ At(s) \in Heads
         /\ \A t \in Tasks : Walks(t) \subseteq Objs /\ Walks(t) \subseteq Heads
         /\ \A s \in SlotIds : Chain(s) \subseteq InFlight
<1>1. next \in [Objs -> Ptrs]
  BY DEF TypeOK
<1>2. InFlight \subseteq Objs /\ ClosedUnder(next, Heads, InFlight)
  BY <1>1, ReachClosed DEF InFlight
<1>3. \A s \in SlotIds : At(s) \in SlotPtrs /\ At(s) \in Heads
  BY DEF TypeOK, At, Heads, SlotIds
<1>4. \A t \in Tasks : Walks(t) \subseteq Objs /\ Walks(t) \subseteq Heads
  <2>1. ASSUME NEW t \in Tasks, NEW k \in 1 .. Len(work[t])
        PROVE  work[t][k] \in Objs
    BY ElementOfSeq DEF TypeOK
  <2> QED
    BY <2>1 DEF Walks, Heads
<1>5. ASSUME NEW s \in SlotIds PROVE Chain(s) \subseteq InFlight
  <2>1. {At(s)} \intersect Objs \subseteq Heads
    BY <1>3
  <2> QED
    BY <1>1, <2>1, ReachMore DEF Chain, At, InFlight
<1> QED
  BY <1>1, <1>2, <1>3, <1>4, <1>5 DEF ClosedUnder

\* What the heads are, pointer by pointer.
LEMMA HeadsAre ==
  ASSUME NEW p, p \in Heads
  PROVE  (\E s \in SlotIds : p = At(s)) \/ \E t \in Tasks : p \in Walks(t)
BY DEF Heads, At

\* Steps that touch no list.
LEMMA ListsUnchanged ==
  ASSUME OnePointer, UNCHANGED <<next, first, work>>
  PROVE  /\ OnePointer' /\ InFlight' = InFlight /\ Heads' = Heads
         /\ \A s \in SlotIds : Chain(s)' = Chain(s) /\ At(s)' = At(s)
<1>1. /\ InFlight' = InFlight /\ Heads' = Heads
      /\ \A s \in SlotIds : Chain(s)' = Chain(s) /\ At(s)' = At(s)
      /\ \A t \in Tasks : Walks(t)' = Walks(t)
  BY DEF InFlight, Heads, Chain, At, Walks
<1> QED
  BY <1>1 DEF OnePointer

\* The owner of a slot takes its list.
LEMMA ListsDetach ==
  ASSUME TypeOK, OnePointer, NEW t \in Tasks, NEW j \in Idx,
         first' = [first EXCEPT ![t][j] = INVPTR],
         work' = [work EXCEPT ![t] = IF first[t][j] \in Objs
                                     THEN Append(@, first[t][j]) ELSE @],
         UNCHANGED next
  PROVE  /\ OnePointer' /\ InFlight' = InFlight
         /\ \A s \in SlotIds \ {<<t, j>>} : Chain(s)' = Chain(s) /\ At(s)' = At(s)
         /\ At(<<t, j>>)' = INVPTR /\ Chain(<<t, j>>)' = {}
<1> DEFINE z == <<t, j>>
           old == first[t][j]
<1>1. z \in SlotIds /\ z[1] = t /\ z[2] = j /\ At(z) = old
  BY DEF SlotIds, At
<1>2. \A s \in SlotIds \ {z} : s[1] # t \/ s[2] # j
  BY DEF SlotIds
<1>3. /\ \A s \in SlotIds \ {z} : At(s)' = At(s)
      /\ At(z)' = INVPTR
  BY <1>1, <1>2 DEF At, TypeOK, SlotIds
<1>4. INVPTR \notin Objs /\ INVPTR # NULL /\ NULL \notin Objs
  BY PtrAssumption, ClientAssumption DEF Ptrs
<1>5. work[t] \in Seq(Objs) /\ \A u \in Tasks \ {t} : work'[u] = work[u]
  BY DEF TypeOK
<1>6. \A u \in Tasks \ {t} : Walks(u)' = Walks(u)
  BY <1>5 DEF Walks
<1>7. /\ Walks(t)' = Walks(t) \union ({old} \intersect Objs)
      /\ \A k, l \in 1 .. Len(work'[t]) : work'[t][k] = work'[t][l] => k = l
  <2>1. CASE old \in Objs
    <3>1. work'[t] = Append(work[t], old)
      BY <2>1 DEF TypeOK
    <3>2. /\ Len(work'[t]) = Len(work[t]) + 1 /\ Len(work[t]) \in Nat
          /\ \A k \in 1 .. Len(work[t]) : work'[t][k] = work[t][k]
          /\ work'[t][Len(work[t]) + 1] = old
      BY <1>5, <2>1, <3>1, AppendProperties
    <3>3. old \notin Walks(t)
      BY <1>1 DEF OnePointer
    <3>4. \A k \in 1 .. Len(work'[t]) :
              k \in 1 .. Len(work[t]) \/ k = Len(work[t]) + 1
      BY <3>2
    <3>5. \A k \in 1 .. Len(work[t]) : work[t][k] # old
      BY <3>3 DEF Walks
    <3>6. \A k, l \in 1 .. Len(work[t]) : work[t][k] = work[t][l] => k = l
      BY DEF OnePointer
    <3>7. Walks(t)' = Walks(t) \union {old}
      BY <3>2, <3>4 DEF Walks
    <3>8. \A k, l \in 1 .. Len(work'[t]) : work'[t][k] = work'[t][l] => k = l
      BY <3>2, <3>4, <3>5, <3>6
    <3> QED
      BY <2>1, <3>7, <3>8
  <2>2. CASE old \notin Objs
    <3>1. work'[t] = work[t]
      BY <2>2 DEF TypeOK
    <3> QED
      BY <2>2, <3>1 DEF Walks, OnePointer
  <2> QED
    BY <2>1, <2>2
<1> HIDE DEF z, old
<1>8. /\ \A s \in SlotIds : At(s) \in SlotPtrs /\ At(s) \in Heads
      /\ \A u \in Tasks : Walks(u) \subseteq Objs /\ Walks(u) \subseteq Heads
      /\ next \in [Objs -> Ptrs]
  BY FlightType
<1>9. Heads' \intersect Objs = Heads \intersect Objs
  <2>1. ASSUME NEW p \in Objs, p \in Heads PROVE p \in Heads'
    <3>1. (\E s \in SlotIds : p = At(s)) \/ \E u \in Tasks : p \in Walks(u)
      BY <2>1, HeadsAre
    <3>2. (\E s \in SlotIds : p = At(s)') \/ \E u \in Tasks : p \in Walks(u)'
      BY <1>1, <1>3, <1>6, <1>7, <2>1, <3>1
    <3> QED
      BY <3>2 DEF Heads, At
  <2>2. ASSUME NEW p \in Objs, p \in Heads' PROVE p \in Heads
    <3>1. (\E s \in SlotIds : p = At(s)') \/ \E u \in Tasks : p \in Walks(u)'
      BY <2>2 DEF Heads, At
    <3>2. (\E s \in SlotIds : p = At(s)) \/ \E u \in Tasks : p \in Walks(u)
      BY <1>1, <1>3, <1>4, <1>6, <1>7, <2>2, <3>1
    <3> QED
      BY <1>8, <3>2
  <2> QED
    BY <2>1, <2>2
<1>10. InFlight' = InFlight
  <2>1. Reach(next, Heads') = Reach(next, Heads)
    BY <1>8, <1>9, ReachSame
  <2> QED
    BY <2>1 DEF InFlight
<1>11. OnePointer'
  <2>1. /\ \A s, y \in SlotIds : (At(s) = At(y) /\ At(s) \in Objs => s = y)'
        /\ \A u \in Tasks : \A k, l \in 1 .. Len(work'[u]) :
              work'[u][k] = work'[u][l] => k = l
    BY <1>1, <1>3, <1>4, <1>5, <1>7 DEF OnePointer
  <2>2. \A u, v \in Tasks : Walks(u)' \intersect Walks(v)' # {} => u = v
    BY <1>1, <1>6, <1>7 DEF OnePointer
  <2>3. \A s \in SlotIds, u \in Tasks : At(s)' \notin Walks(u)'
    <3>1. ASSUME NEW s \in SlotIds, s # z, NEW u \in Tasks
          PROVE  At(s) \notin Walks(u)'
      BY <1>1, <1>6, <1>7, <3>1 DEF OnePointer
    <3>2. ASSUME NEW u \in Tasks PROVE INVPTR \notin Walks(u)'
      BY <1>4, <1>6, <1>7, <1>8
    <3> QED
      BY <1>3, <3>1, <3>2
  <2>4. \A m, n \in InFlight : next[m] = next[n] /\ next[m] # NULL => m = n
    BY DEF OnePointer
  <2>5. \A m \in InFlight, s \in SlotIds : next[m] = At(s)' => next[m] = NULL
    <3>1. \A m \in InFlight : next[m] \in Ptrs
      BY FlightType
    <3> QED
      BY <1>3, <3>1, PtrAssumption DEF OnePointer
  <2>6. \A m \in InFlight, u \in Tasks : next[m] \notin Walks(u)'
    BY <1>1, <1>4, <1>6, <1>7 DEF OnePointer
  <2> QED
    BY <1>10, <2>1, <2>2, <2>3, <2>4, <2>5, <2>6 DEF OnePointer
<1>12. \A s \in SlotIds \ {z} : Chain(s)' = Chain(s)
  BY <1>3 DEF Chain, At
<1>13. Chain(z)' = {}
  <2>1. Chain(z)' = Reach(next, {INVPTR})
    BY <1>3 DEF Chain, At
  <2>2. ClosedUnder(next, {INVPTR}, {})
    BY <1>4 DEF ClosedUnder
  <2> QED
    BY <1>8, <2>1, <2>2, ReachLeast
<1> QED
  BY <1>3, <1>10, <1>11, <1>12, <1>13 DEF z

\* do_update makes its slot active again, with an empty list.
LEMMA ListsActivate ==
  ASSUME TypeOK, OnePointer, NEW t \in Tasks, NEW j \in Idx,
         first[t][j] = INVPTR,
         first' = [first EXCEPT ![t][j] = NULL], UNCHANGED <<next, work>>
  PROVE  /\ OnePointer' /\ InFlight' = InFlight
         /\ \A s \in SlotIds \ {<<t, j>>} : Chain(s)' = Chain(s) /\ At(s)' = At(s)
         /\ At(<<t, j>>)' = NULL /\ Chain(<<t, j>>)' = {}
<1> DEFINE z == <<t, j>>
<1>1. z \in SlotIds /\ z[1] = t /\ z[2] = j /\ At(z) = INVPTR
  BY DEF SlotIds, At
<1>2. \A s \in SlotIds \ {z} : s[1] # t \/ s[2] # j
  BY DEF SlotIds
<1>3. /\ \A s \in SlotIds \ {z} : At(s)' = At(s)
      /\ At(z)' = NULL
  BY <1>1, <1>2 DEF At, TypeOK, SlotIds
<1> HIDE DEF z
<1>4. INVPTR \notin Objs /\ INVPTR # NULL /\ NULL \notin Objs
  BY PtrAssumption, ClientAssumption DEF Ptrs
<1>5. \A u \in Tasks : Walks(u)' = Walks(u) /\ Walks(u) \subseteq Objs
  BY FlightType DEF Walks
<1>6. Heads' \intersect Objs = Heads \intersect Objs
  <2>1. \A s \in SlotIds : {At(s)'} \intersect Objs = {At(s)} \intersect Objs
    BY <1>1, <1>3, <1>4
  <2> QED
    BY <1>5, <2>1 DEF Heads, At
<1>7. InFlight' = InFlight
  <2>1. Reach(next, Heads') = Reach(next, Heads)
    BY <1>6, ReachSame, FlightType
  <2> QED
    BY <2>1 DEF InFlight
<1>8. OnePointer'
  <2>1. \A s, y \in SlotIds : (At(s) = At(y) /\ At(s) \in Objs => s = y)'
    BY <1>3, <1>4 DEF OnePointer
  <2>2. \A s \in SlotIds, u \in Tasks : At(s)' \notin Walks(u)'
    BY <1>3, <1>4, <1>5 DEF OnePointer
  <2>3. \A m \in InFlight, s \in SlotIds : next[m] = At(s)' => next[m] = NULL
    BY <1>3 DEF OnePointer
  <2> QED
    BY <1>5, <1>7, <2>1, <2>2, <2>3 DEF OnePointer
<1>9. \A s \in SlotIds \ {z} : Chain(s)' = Chain(s)
  BY <1>3 DEF Chain, At
<1>10. Chain(z)' = {}
  <2>1. Chain(z)' = Reach(next, {NULL})
    BY <1>3 DEF Chain, At
  <2>2. ClosedUnder(next, {NULL}, {})
    BY <1>4 DEF ClosedUnder
  <2> QED
    BY <2>1, <2>2, ReachLeast, FlightType
<1> QED
  BY <1>3, <1>7, <1>8, <1>9, <1>10 DEF z

\* try_retire links a node that is in no list yet.
LEMMA ListsLink ==
  ASSUME TypeOK, OnePointer, NEW n \in Objs \ InFlight, NEW p \in Ptrs,
         next' = [next EXCEPT ![n] = p], UNCHANGED <<first, work>>
  PROVE  /\ OnePointer' /\ InFlight' = InFlight
         /\ \A s \in SlotIds : Chain(s)' = Chain(s) /\ At(s)' = At(s)
         /\ \A m \in InFlight : next'[m] = next[m]
<1>1. next \in [Objs -> Ptrs] /\ InFlight \subseteq Objs
  BY FlightType
<1>2. Heads' = Heads
  BY DEF Heads, Walks
<1>3. InFlight' = InFlight
  <2>1. n \notin Reach(next, Heads)
    BY DEF InFlight
  <2>2. Reach(next', Heads) = Reach(next, Heads)
    BY <1>1, <2>1, ReachRelink
  <2> QED
    BY <1>2, <2>2 DEF InFlight
<1>4. ASSUME NEW s \in SlotIds PROVE Chain(s)' = Chain(s)
  <2>1. n \notin Reach(next, {first[s[1]][s[2]]})
    BY FlightType DEF Chain
  <2>2. Reach(next', {first[s[1]][s[2]]}) = Reach(next, {first[s[1]][s[2]]})
    BY <1>1, <2>1, ReachRelink
  <2> QED
    BY <2>2 DEF Chain
<1>5. \A m \in InFlight : next'[m] = next[m]
  BY <1>1
<1>6. /\ \A s \in SlotIds : At(s)' = At(s)
      /\ \A u \in Tasks : Walks(u)' = Walks(u)
  BY DEF At, Walks
<1>7. OnePointer'
  BY <1>3, <1>5, <1>6 DEF OnePointer
<1> QED
  BY <1>3, <1>4, <1>5, <1>6, <1>7

\* try_retire pushes the node on the list of a slot.
LEMMA ListsPush ==
  ASSUME TypeOK, OnePointer, NEW s \in SlotIds, NEW n \in Objs \ InFlight,
         next[n] = At(s), At(s) # INVPTR,
         first' = [first EXCEPT ![s[1]][s[2]] = n], UNCHANGED <<next, work>>
  PROVE  /\ OnePointer' /\ InFlight' = InFlight \union {n}
         /\ \A z \in SlotIds \ {s} : Chain(z)' = Chain(z) /\ At(z)' = At(z)
         /\ At(s)' = n /\ Chain(s)' = Chain(s) \union {n}
<1>1. s[1] \in Tasks /\ s[2] \in Idx /\ s = <<s[1], s[2]>>
  BY DEF SlotIds
<1>2. \A z \in SlotIds \ {s} : z[1] # s[1] \/ z[2] # s[2]
  BY DEF SlotIds
<1>3. /\ \A z \in SlotIds \ {s} : At(z)' = At(z)
      /\ At(s)' = n
  BY <1>1, <1>2 DEF At, TypeOK, SlotIds
<1>4. INVPTR \notin Objs /\ INVPTR # NULL /\ NULL \notin Objs
  BY PtrAssumption, ClientAssumption DEF Ptrs
<1>5. \A u \in Tasks : Walks(u)' = Walks(u)
  BY DEF Walks
<1>6. /\ next \in [Objs -> Ptrs] /\ InFlight \subseteq Objs
      /\ Heads \intersect Objs \subseteq InFlight
      /\ \A m \in InFlight : next[m] \in InFlight \union {NULL}
      /\ \A z \in SlotIds : At(z) \in SlotPtrs /\ At(z) \in Heads
      /\ \A u \in Tasks : Walks(u) \subseteq Objs /\ Walks(u) \subseteq Heads
  BY FlightType
<1>7. Heads' \subseteq Heads \union {n} /\ n \in Heads'
  BY <1>3, <1>5 DEF Heads, At
<1>8. Heads \subseteq Heads' \union {At(s)}
  <2>1. ASSUME NEW p \in Heads, p # At(s) PROVE p \in Heads'
    <3>1. (\E z \in SlotIds : p = At(z)) \/ \E u \in Tasks : p \in Walks(u)
      BY <2>1, HeadsAre
    <3>2. (\E z \in SlotIds : p = At(z)') \/ \E u \in Tasks : p \in Walks(u)'
      BY <1>3, <1>5, <2>1, <3>1
    <3> QED
      BY <3>2 DEF Heads, At
  <2> QED
    BY <2>1
<1>9. InFlight' = InFlight \union {n}
  <2>1. next[n] \in Heads \union {NULL}
    BY <1>6
  <2>2. Reach(next, Heads') = Reach(next, Heads) \union {n}
    BY <1>6, <1>7, <1>8, <2>1, ReachPush
  <2> QED
    BY <2>2 DEF InFlight
<1>10. Chain(s)' = Chain(s) \union {n}
  <2>1. Reach(next, {n}) = Reach(next, {At(s)}) \union {n}
    BY <1>6, ReachPush
  <2> QED
    BY <1>3, <2>1 DEF Chain, At
<1>11. \A z \in SlotIds \ {s} : Chain(z)' = Chain(z)
  BY <1>3 DEF Chain, At
<1>12. OnePointer'
  <2>1. \A z \in SlotIds : At(z) # n
    BY <1>6
  <2>2. \A u \in Tasks : n \notin Walks(u)
    BY <1>6
  <2>3. \A y, z \in SlotIds : (At(y) = At(z) /\ At(y) \in Objs => y = z)'
    BY <1>3, <2>1 DEF OnePointer
  <2>4. \A z \in SlotIds, u \in Tasks : At(z)' \notin Walks(u)
    BY <1>3, <2>2 DEF OnePointer
  <2>5. \A m \in InFlight : next[m] # n
    BY <1>4, <1>6
  <2>6. \A m \in InFlight : next[m] = next[n] => next[m] = NULL
    BY DEF OnePointer
  <2>7. \A l, m \in InFlight \union {n} : next[l] = next[m] /\ next[l] # NULL => l = m
    BY <2>6 DEF OnePointer
  <2>8. At(s) \in Objs => \A z \in SlotIds : At(z) = At(s) => z = s
    BY DEF OnePointer
  <2>9. next[n] # n
    BY <1>6
  <2>10. \A m \in InFlight \union {n}, z \in SlotIds : next[m] = At(z)' => next[m] = NULL
    <3>1. At(s) \in Objs \/ At(s) = NULL
      BY <1>6 DEF SlotPtrs
    <3>2. ASSUME NEW z \in SlotIds, z # s, next[n] = At(z) PROVE next[n] = NULL
      BY <2>8, <3>1, <3>2
    <3> QED
      BY <1>3, <2>5, <2>9, <3>2 DEF OnePointer
  <2>11. \A m \in InFlight \union {n}, u \in Tasks : next[m] \notin Walks(u)
    BY DEF OnePointer
  <2> QED
    BY <1>5, <1>9, <2>3, <2>4, <2>7, <2>10, <2>11 DEF OnePointer
<1> QED
  BY <1>3, <1>9, <1>10, <1>11, <1>12

\* traverse takes the first node of its list.
LEMMA ListsWalk ==
  ASSUME TypeOK, OnePointer, NEW t \in Tasks, work[t] # <<>>,
         NEW n \in Objs, n = Head(work[t]),
         work' = [work EXCEPT ![t] = IF next[n] = NULL THEN Tail(@)
                                     ELSE <<next[n]>> \o Tail(@)],
         UNCHANGED <<next, first>>
  PROVE  /\ OnePointer' /\ InFlight' = InFlight \ {n} /\ n \in InFlight
         /\ \A s \in SlotIds : Chain(s)' = Chain(s) /\ At(s)' = At(s)
<1>1. /\ next \in [Objs -> Ptrs] /\ InFlight \subseteq Objs
      /\ Heads \intersect Objs \subseteq InFlight
      /\ \A m \in InFlight : next[m] \in InFlight \union {NULL}
      /\ \A z \in SlotIds : At(z) \in SlotPtrs /\ At(z) \in Heads
      /\ \A u \in Tasks : Walks(u) \subseteq Objs /\ Walks(u) \subseteq Heads
  BY FlightType
<1>2. work[t] \in Seq(Objs) /\ Len(work[t]) \in Nat /\ Len(work[t]) > 0
  BY EmptySeq, LenProperties DEF TypeOK
<1>3. /\ Tail(work[t]) \in Seq(Objs) /\ Len(Tail(work[t])) = Len(work[t]) - 1
      /\ \A k \in 1 .. Len(work[t]) - 1 : Tail(work[t])[k] = work[t][k + 1]
      /\ n = work[t][1]
  BY <1>2, HeadTailProperties
<1>4. \A k, l \in 1 .. Len(work[t]) : work[t][k] = work[t][l] => k = l
  BY DEF OnePointer
<1>5. n \in Walks(t)
  BY <1>2, <1>3 DEF Walks
<1>6. n \in InFlight
  BY <1>1, <1>5
<1>7. next[n] \notin Walks(t)
  BY <1>6 DEF OnePointer
<1>8. /\ Walks(t)' = (Walks(t) \ {n}) \union ({next[n]} \ {NULL})
      /\ \A k, l \in 1 .. Len(work'[t]) : work'[t][k] = work'[t][l] => k = l
  <2> DEFINE tl == Tail(work[t])
  <2>1. {tl[k] : k \in 1 .. Len(tl)} = Walks(t) \ {n}
    <3>1. \A k \in 1 .. Len(tl) : tl[k] = work[t][k + 1] /\ k + 1 \in 2 .. Len(work[t])
      BY <1>2, <1>3
    <3>2. \A k \in 2 .. Len(work[t]) : work[t][k] # n /\ k \in 1 .. Len(work[t])
      BY <1>2, <1>3, <1>4
    <3>3. \A k \in 2 .. Len(work[t]) : k - 1 \in 1 .. Len(tl) /\ tl[k - 1] = work[t][k]
      <4>1. Len(work[t]) \in Nat
        BY <1>2
      <4> QED
        BY <1>2, <1>3, <4>1
    <3>4. ASSUME NEW p \in Walks(t) \ {n} PROVE \E k \in 2 .. Len(work[t]) : p = work[t][k]
      BY <1>2, <1>3 DEF Walks
    <3>5. \A k \in 1 .. Len(tl) : tl[k] \in Walks(t) \ {n}
      BY <3>1, <3>2 DEF Walks
    <3>6. ASSUME NEW p \in Walks(t) \ {n} PROVE \E k \in 1 .. Len(tl) : p = tl[k]
      BY <3>3, <3>4, ZenonT(40)
    <3>7. {tl[k] : k \in 1 .. Len(tl)} \subseteq Walks(t) \ {n}
      BY <3>5
    <3>8. Walks(t) \ {n} \subseteq {tl[k] : k \in 1 .. Len(tl)}
      BY <3>6
    <3> QED
      BY <3>7, <3>8
  <2>2. \A k, l \in 1 .. Len(tl) : tl[k] = tl[l] => k = l
    <3>1. ASSUME NEW k \in 1 .. Len(tl), NEW l \in 1 .. Len(tl), tl[k] = tl[l]
          PROVE  k = l
      <4>1. /\ k + 1 \in 1 .. Len(work[t]) /\ l + 1 \in 1 .. Len(work[t])
            /\ work[t][k + 1] = work[t][l + 1]
        BY <1>2, <1>3, <3>1
      <4> QED
        BY <1>4, <4>1
    <3> QED
      BY <3>1
  <2>3. CASE next[n] = NULL
    <3>1. work'[t] = tl
      BY <2>3 DEF TypeOK
    <3> HIDE DEF tl
    <3>2. Walks(t)' = {tl[k] : k \in 1 .. Len(tl)}
      BY <3>1 DEF Walks
    <3>3. Walks(t)' = Walks(t) \ {n}
      BY <2>1, <3>2
    <3> QED
      BY <2>2, <2>3, <3>1, <3>3
  <2>4. CASE next[n] # NULL
    <3> DEFINE q == next[n]
    <3>1. work'[t] = <<q>> \o tl
      BY <2>4 DEF TypeOK
    <3>2. q \in Objs /\ <<q>> \in Seq(Objs) /\ Len(<<q>>) = 1 /\ <<q>>[1] = q
      BY <1>1, <2>4 DEF Ptrs
    <3>3. tl \in Seq(Objs) /\ Len(tl) \in Nat
      BY <1>3, LenProperties
    <3>0. q \notin Walks(t)
      BY <1>7
    <3> HIDE DEF tl, q
    <3>4. /\ Len(work'[t]) = Len(tl) + 1
          /\ work'[t][1] = q
          /\ \A k \in 2 .. Len(tl) + 1 : work'[t][k] = tl[k - 1]
      <4>1. Len(work'[t]) = 1 + Len(tl)
        BY <3>1, <3>2, <3>3, ConcatProperties
      <4>2. \A k \in 1 .. 1 + Len(tl) :
              work'[t][k] = IF k <= 1 THEN <<q>>[k] ELSE tl[k - 1]
        BY <3>1, <3>2, <3>3, ConcatProperties
      <4> QED
        BY <3>2, <3>3, <4>1, <4>2
    <3>5. \A k \in 1 .. Len(work'[t]) :
             k = 1 \/ (k \in 2 .. Len(tl) + 1 /\ k - 1 \in 1 .. Len(tl))
      BY <3>3, <3>4
    <3>6. \A k \in 1 .. Len(tl) : tl[k] # q
      BY <2>1, <3>0
    <3>7. \A k, l \in 1 .. Len(work'[t]) : work'[t][k] = work'[t][l] => k = l
      <4>1. ASSUME NEW k \in 1 .. Len(work'[t]), NEW l \in 1 .. Len(work'[t]),
                   work'[t][k] = work'[t][l]
            PROVE  k = l
        <5>1. CASE k = 1 \/ l = 1
          BY <3>4, <3>5, <3>6, <4>1, <5>1
        <5>2. CASE k # 1 /\ l # 1
          <6>1. /\ k - 1 \in 1 .. Len(tl) /\ l - 1 \in 1 .. Len(tl)
                /\ tl[k - 1] = tl[l - 1]
            BY <3>4, <3>5, <4>1, <5>2
          <6>2. k - 1 = l - 1
            BY <2>2, <6>1
          <6> QED
            BY <3>3, <3>4, <4>1, <6>2
        <5> QED
          BY <5>1, <5>2
      <4> QED
        BY <4>1
    <3>8. Walks(t)' = {tl[k] : k \in 1 .. Len(tl)} \union {q}
      <4>1. \A k \in 1 .. Len(work'[t]) :
               work'[t][k] \in {tl[l] : l \in 1 .. Len(tl)} \union {q}
        BY <3>4, <3>5
      <4>2. 1 \in 1 .. Len(work'[t])
        BY <3>3, <3>4
      <4>3. ASSUME NEW l \in 1 .. Len(tl)
            PROVE  l + 1 \in 1 .. Len(work'[t]) /\ tl[l] = work'[t][l + 1]
        <5>1. l + 1 \in 2 .. Len(tl) + 1 /\ (l + 1) - 1 = l
          BY <3>3
        <5> QED
          BY <3>3, <3>4, <5>1
      <4>4. Walks(t)' = {work'[t][k] : k \in 1 .. Len(work'[t])}
        BY DEF Walks
      <4>5. Walks(t)' \subseteq {tl[l] : l \in 1 .. Len(tl)} \union {q}
        BY <4>1, <4>4
      <4>6. q \in Walks(t)'
        BY <3>4, <4>2, <4>4
      <4>7. \A l \in 1 .. Len(tl) : tl[l] \in Walks(t)'
        BY <4>3, <4>4
      <4> QED
        BY <4>5, <4>6, <4>7
    <3>9. q # NULL /\ q = next[n]
      BY <2>4 DEF q
    <3> QED
      BY <2>1, <3>7, <3>8, <3>9
  <2> QED
    BY <2>3, <2>4
<1>9. \A u \in Tasks \ {t} : Walks(u)' = Walks(u) /\ work'[u] = work[u]
  BY DEF TypeOK, Walks
<1>10. \A s \in SlotIds : Chain(s)' = Chain(s) /\ At(s)' = At(s)
  BY DEF Chain, At
<1>11. NULL \notin Objs
  BY ClientAssumption
<1>12. \A m \in InFlight : next[m] # n
  BY <1>5 DEF OnePointer
<1>13. /\ n \notin Heads'
       /\ Heads \subseteq Heads' \union {n}
       /\ Heads' \subseteq Heads \union {next[n]}
       /\ next[n] \in Heads' \union {NULL}
  <2>1. next[n] # n
    BY <1>6, <1>12
  <2>2. ASSUME n \in Heads' PROVE FALSE
    <3>1. (\E s \in SlotIds : n = At(s)) \/ \E u \in Tasks : n \in Walks(u)'
      BY <1>10, <2>2 DEF Heads, At
    <3>2. \A s \in SlotIds : n # At(s)
      BY <1>5 DEF OnePointer
    <3>3. \A u \in Tasks \ {t} : n \notin Walks(u)
      BY <1>5 DEF OnePointer
    <3> QED
      BY <1>8, <1>9, <2>1, <3>1, <3>2, <3>3
  <2>3. ASSUME NEW p \in Heads, p # n PROVE p \in Heads'
    <3>1. (\E s \in SlotIds : p = At(s)) \/ \E u \in Tasks : p \in Walks(u)
      BY HeadsAre
    <3>2. (\E s \in SlotIds : p = At(s)') \/ \E u \in Tasks : p \in Walks(u)'
      BY <1>8, <1>9, <1>10, <2>3, <3>1
    <3> QED
      BY <3>2 DEF Heads, At
  <2>4. ASSUME NEW p \in Heads' PROVE p \in Heads \union {next[n]}
    <3>1. (\E s \in SlotIds : p = At(s)) \/ \E u \in Tasks : p \in Walks(u)'
      BY <1>10 DEF Heads, At
    <3>2. (\E s \in SlotIds : p = At(s)) \/ (\E u \in Tasks : p \in Walks(u))
          \/ p = next[n]
      BY <1>8, <1>9, <3>1
    <3> QED
      BY <1>1, <3>2
  <2>5. next[n] # NULL => next[n] \in Walks(t)'
    BY <1>8
  <2>6. \A u \in Tasks : Walks(u)' \subseteq Heads'
    BY DEF Heads
  <2> QED
    BY <2>2, <2>3, <2>4, <2>5, <2>6
<1>14. InFlight' = InFlight \ {n}
  <2>1. Reach(next, Heads) \intersect {m \in Objs : next[m] = n} = {}
    BY <1>12 DEF InFlight
  <2>2. /\ n \in Heads /\ n \notin Heads'
        /\ Heads \intersect Objs \subseteq Heads' \union {n}
        /\ Heads' \intersect Objs \subseteq Heads \union {next[n]}
        /\ next[n] \in Heads' \union {NULL}
    BY <1>1, <1>5, <1>13
  <2>3. Reach(next, Heads') = Reach(next, Heads) \ {n}
    BY <1>1, <2>1, <2>2, ReachPop
  <2> QED
    BY <2>3 DEF InFlight
<1>15. OnePointer'
  <2>1. \A s, z \in SlotIds : At(s) = At(z) /\ At(s) \in Objs => s = z
    BY DEF OnePointer
  <2>2. \A u \in Tasks : \A k, l \in 1 .. Len(work'[u]) :
          work'[u][k] = work'[u][l] => k = l
    BY <1>8, <1>9 DEF OnePointer
  <2>3. \A u \in Tasks : next[n] \notin Walks(u)
    BY <1>6 DEF OnePointer
  <2>4. \A u, v \in Tasks : Walks(u)' \intersect Walks(v)' # {} => u = v
    <3>1. \A u \in Tasks \ {t} : Walks(t)' \intersect Walks(u) = {}
      BY <1>8, <2>3 DEF OnePointer
    <3> QED
      BY <1>9, <3>1 DEF OnePointer
  <2>5. \A s \in SlotIds : At(s) # next[n] \/ next[n] = NULL
    BY <1>6 DEF OnePointer
  <2>6. \A s \in SlotIds, u \in Tasks : At(s) \notin Walks(u)'
    BY <1>8, <1>9, <2>5 DEF OnePointer
  <2>7. \A l, m \in InFlight : next[l] = next[m] /\ next[l] # NULL => l = m
    BY DEF OnePointer
  <2>8. \A m \in InFlight, s \in SlotIds : next[m] = At(s) => next[m] = NULL
    BY DEF OnePointer
  <2>9. \A m \in InFlight \ {n} : next[m] # next[n] \/ next[n] = NULL
    BY <1>6, <2>7
  <2>10. \A m \in InFlight \ {n}, u \in Tasks : next[m] \notin Walks(u)'
    BY <1>8, <1>9, <2>9 DEF OnePointer
  <2> QED
    BY <1>10, <1>14, <2>1, <2>2, <2>4, <2>6, <2>7, <2>8, <2>10 DEF OnePointer
<1> QED
  BY <1>6, <1>10, <1>14, <1>15

\* Every retired node belongs to one batch, that of the node it links to; the
\* nodes that a thread still collects are of one batch, and no other thread
\* collects for it.
BatchesApart ==
    /\ \A t \in Tasks :
        /\ \A k, l \in 1 .. Len(batch[t]) : batch[t][k] = batch[t][l] => k = l
        /\ \A k \in 1 .. Len(batch[t]) :
              status[batch[t][k]] = "retired" /\ link[batch[t][k]] = Last(t)
    /\ \A r \in Objs, t, u \in Tasks : Building(t, r) /\ Building(u, r) => t = u
    /\ \A o \in Objs : status[o] = "retired" => IsBatch(link[o])

\* try_retire has yet to push the nodes that it assigned to slots: they are
\* different nodes of its batch, and in no list.
Assigned(t) ==
    /\ pc[t] \in {"scan", "scan_epoch"} =>
        /\ rt[t].adjs = 0
        /\ \A k \in 1 .. Len(rt[t].asg) : rt[t].asg[k][1] = batch[t][k]
    /\ pc[t] \in {"insert", "ins_epoch", "ins_cas"} =>
        /\ \A k, l \in 1 .. Len(rt[t].asg) :
              rt[t].asg[k][1] = rt[t].asg[l][1] => k = l
        /\ \A k \in 1 .. Len(rt[t].asg) :
              /\ status[rt[t].asg[k][1]] = "retired"
              /\ link[rt[t].asg[k][1]] = Last(t)
              /\ rt[t].asg[k][1] \notin InFlight
    /\ pc[t] = "ins_cas" => next[rt[t].asg[1][1]] = rt[t].prev

\* The counter of a batch is the number of its nodes in flight, less what its
\* retirer has to add.  Until then it is not positive; after that, it is zero
\* only when a thread has queued the batch.
Counted ==
    \A r \in Objs : IsBatch(r) =>
        /\ \A t \in Tasks : Building(t, r) =>
              refs[r] = Cardinality(Flight(r)) - rt[t].adjs /\ refs[r] <= 0
        /\ (\A t \in Tasks : ~Building(t, r)) =>
              /\ refs[r] = Cardinality(Flight(r))
              /\ refs[r] = 0 => \E t \in Tasks : r \in list[t]

\* A queued batch is with one thread, and has no node in flight.
Queued ==
    /\ \A t \in Tasks : \A r \in list[t] :
          IsBatch(r) /\ refs[r] = 0 /\ \A u \in Tasks : ~Building(u, r)
    /\ \A t, u \in Tasks : \A r \in list[t] : r \in list[u] => t = u

\* A thread has detached lists only while it walks them, and the slot whose
\* list it took stays inactive until do_update activates it.
WorkControl ==
    \A t \in Tasks :
        /\ work[t] # <<>> => pc[t] \in {"trav", "drop", "clear"}
        /\ pc[t] = "upd_null" \/ (pc[t] \in {"trav", "drop"} /\ rd[t].op # "clear") =>
              first[t][rd[t].idx] = INVPTR

\* The successor that traverse has loaded is still that of its node: a node in
\* a detached list is not linked again.
Loaded ==
    \A t \in Tasks : pc[t] = "drop" => rd[t].succ = next[Head(work[t])]

Books ==
    /\ BatchesApart /\ OnePointer /\ WalkSafe /\ Counted /\ Queued
    /\ \A t \in Tasks : Assigned(t)

\* The nodes of a batch in flight are finitely many.
LEMMA FlightFinite ==
  ASSUME TypeOK, NEW r
  PROVE  IsFiniteSet(Flight(r)) /\ Cardinality(Flight(r)) \in Nat
<1>1. Flight(r) \subseteq Objs
  BY FlightType DEF Flight
<1> QED
  BY <1>1, MemoryAssumption, FS_Subset, FS_CardinalityType

\* The batch of a thread.
LEMMA BuildingType ==
  ASSUME TypeOK, NEW t \in Tasks
  PROVE  /\ batch[t] # <<>> =>
              /\ Len(batch[t]) \in Nat /\ Len(batch[t]) >= 1
              /\ Last(t) \in Objs /\ Building(t, Last(t))
         /\ \A k \in 1 .. Len(batch[t]) : batch[t][k] \in Objs
         /\ \A r : Building(t, r) => batch[t] # <<>> /\ r = Last(t)
<1>1. batch[t] \in Seq(Objs)
  BY DEF TypeOK
<1>2. \A k \in 1 .. Len(batch[t]) : batch[t][k] \in Objs
  BY <1>1, ElementOfSeq
<1>3. batch[t] # <<>> => Len(batch[t]) \in Nat /\ Len(batch[t]) >= 1
  BY <1>1, EmptySeq, LenProperties
<1>4. batch[t] # <<>> => Last(t) \in Objs
  BY <1>2, <1>3 DEF Last
<1> QED
  BY <1>2, <1>3, <1>4 DEF Building, Last

\* The batch that a thread collects is a batch.
LEMMA BuildingBatch ==
  ASSUME TypeOK, BatchesApart, NEW t \in Tasks, NEW r, Building(t, r)
  PROVE  IsBatch(r) /\ r \in Objs
<1>1. /\ batch[t] # <<>> /\ r = Last(t) /\ r \in Objs
      /\ Len(batch[t]) \in 1 .. Len(batch[t])
  BY BuildingType
<1>2. status[Last(t)] = "retired" /\ link[Last(t)] = Last(t)
  BY <1>1 DEF Last, BatchesApart
<1> QED
  BY <1>1, <1>2 DEF IsBatch

\* Steps that move no reference: the batches in R are freed, with their nodes.
LEMMA BooksKept ==
  ASSUME TypeOK, Books, NEW R \in SUBSET Objs,
         \A r \in R : Flight(r) = {} /\ \A u \in Tasks : ~Building(u, r),
         \A o \in Objs : status'[o] = "retired" <=>
                             status[o] = "retired" /\ link[o] \notin R,
         UNCHANGED <<link, refs, batch>>, InFlight' = InFlight,
         \A u \in Tasks : list'[u] = list[u] \ R,
         \A u \in Tasks : rt'[u].adjs = rt[u].adjs
  PROVE  BatchesApart' /\ WalkSafe' /\ Counted' /\ Queued'
<1>1. /\ \A t \in Tasks : \A r : Building(t, r)' <=> Building(t, r)
      /\ \A t \in Tasks : Last(t)' = Last(t)
      /\ \A r : Flight(r)' = Flight(r)
  BY DEF Building, Last, Flight
<1>2. \A r \in Objs : IsBatch(r)' <=> IsBatch(r) /\ r \notin R
  BY DEF IsBatch
<1>3. \A t \in Tasks : batch[t] # <<>> => Last(t) \notin R
  BY BuildingType
<1>4. BatchesApart'
  <2>1. ASSUME NEW t \in Tasks, NEW k \in 1 .. Len(batch[t])
        PROVE  status'[batch[t][k]] = "retired" /\ link[batch[t][k]] = Last(t)
    <3>1. /\ batch[t][k] \in Objs
          /\ status[batch[t][k]] = "retired" /\ link[batch[t][k]] = Last(t)
      BY BuildingType DEF Books, BatchesApart
    <3>2. batch[t] # <<>>
      BY EmptySeq
    <3> QED
      BY <1>3, <3>1, <3>2
  <2>2. ASSUME NEW o \in Objs, status'[o] = "retired" PROVE IsBatch(link[o])'
    <3>1. link[o] \in Objs /\ link[o] \notin R /\ IsBatch(link[o])
      BY <2>2 DEF Books, BatchesApart, TypeOK
    <3> QED
      BY <3>1 DEF IsBatch
  <2> QED
    BY <1>1, <2>1, <2>2 DEF Books, BatchesApart
<1>5. WalkSafe'
  <2>1. \A n \in InFlight : link[n] \notin R
    BY DEF Flight
  <2> QED
    BY <2>1, FlightType DEF Books, WalkSafe
<1>6. Counted'
  <2>1. ASSUME NEW r \in Objs, IsBatch(r), r \notin R, NEW t \in Tasks, r \in list[t]
        PROVE  r \in list'[t]
    BY <2>1
  <2> QED
    BY <1>1, <1>2, <2>1 DEF Books, Counted
<1>7. Queued'
  <2>1. \A t \in Tasks : \A r \in list'[t] : r \in list[t] /\ r \notin R /\ r \in Objs
    BY DEF TypeOK
  <2> QED
    BY <1>1, <1>2, <2>1 DEF Books, Queued
<1> QED
  BY <1>4, <1>5, <1>6, <1>7

\* A thread keeps its assignments while others work.
LEMMA AssignedKept ==
  ASSUME TypeInv, Books, NEW t \in Tasks, Assigned(t),
         UNCHANGED <<pc[t], rt[t], batch[t]>>,
         \A n \in InFlight' : n \in InFlight \/ link[n] # Last(t) \/ batch[t] = <<>>,
         \A o \in Objs : status[o] = "retired" /\ link[o] = Last(t) =>
             /\ status'[o] = "retired" /\ link'[o] = link[o]
             /\ o \in InFlight \/ next'[o] = next[o]
  PROVE  Assigned(t)'
<1>1. /\ rt'[t] = rt[t] /\ pc'[t] = pc[t] /\ batch'[t] = batch[t] /\ Last(t)' = Last(t)
      /\ pc[t] \in Retiring => batch[t] # <<>>
      /\ rt[t].asg \in Seq(Objs \X SlotIds)
  BY DEF Last, TypeInv, TypeOK, RetireControl, RetireLocals
<1>2. \A k \in 1 .. Len(rt[t].asg) : rt[t].asg[k][1] \in Objs
  <2>1. \A k \in 1 .. Len(rt[t].asg) : rt[t].asg[k] \in Objs \X SlotIds
    BY <1>1, ElementOfSeq
  <2> QED
    BY <2>1
<1>3. pc[t] \in {"ins_cas"} => 1 \in 1 .. Len(rt[t].asg)
  <2>1. pc[t] = "ins_cas" => rt[t].asg # <<>>
    BY DEF TypeInv, RetireControl
  <2>2. rt[t].asg # <<>> => Len(rt[t].asg) \in Nat /\ Len(rt[t].asg) > 0
    BY <1>1, EmptySeq, LenProperties
  <2> QED
    BY <2>1, <2>2
<1>4. CASE pc[t] \in {"insert", "ins_epoch", "ins_cas"}
  <2>1. batch[t] # <<>>
    BY <1>1, <1>4 DEF Retiring
  <2>2. \A k \in 1 .. Len(rt[t].asg) :
           /\ status'[rt[t].asg[k][1]] = "retired"
           /\ link'[rt[t].asg[k][1]] = Last(t)
           /\ rt[t].asg[k][1] \notin InFlight'
    BY <1>2, <1>4, <2>1 DEF Assigned
  <2>3. pc[t] = "ins_cas" => next'[rt[t].asg[1][1]] = rt[t].prev
    BY <1>2, <1>3, <1>4 DEF Assigned
  <2> QED
    BY <1>1, <1>4, <2>2, <2>3 DEF Assigned
<1>5. CASE pc[t] \notin {"insert", "ins_epoch", "ins_cas"}
  BY <1>1, <1>5 DEF Assigned
<1> QED
  BY <1>4, <1>5

\* Steps that touch no list, batch or counter.
LEMMA BooksQuiet ==
  ASSUME TypeInv, Books, NEW t \in Tasks,
         UNCHANGED <<next, first, work, link, refs, batch, list>>,
         \A o \in Objs : status'[o] = "retired" <=> status[o] = "retired",
         \A u \in Tasks \ {t} : pc'[u] = pc[u] /\ rt'[u] = rt[u],
         rt'[t].adjs = rt[t].adjs, Assigned(t)'
  PROVE  Books'
<1>1. OnePointer' /\ InFlight' = InFlight
  BY ListsUnchanged DEF Books
<1>2. BatchesApart' /\ WalkSafe' /\ Counted' /\ Queued'
  <2>1. \A u \in Tasks : rt'[u].adjs = rt[u].adjs /\ list'[u] = list[u] \ {}
    OBVIOUS
  <2>2. {} \in SUBSET Objs
    OBVIOUS
  <2> QED
    BY <1>1, <2>1, <2>2, BooksKept DEF TypeInv
<1>3. ASSUME NEW u \in Tasks, u # t PROVE Assigned(u)'
  BY <1>1, <1>3, AssignedKept DEF Books
<1> QED
  BY <1>1, <1>2, <1>3 DEF Books

\* Steps outside try_retire.
LEMMA BooksOutside ==
  ASSUME TypeInv, Books, NEW t \in Tasks,
         UNCHANGED <<next, first, work, link, refs, batch, list, rt>>,
         \A o \in Objs : status'[o] = "retired" <=> status[o] = "retired",
         NEW l \in PC \ Retiring, pc' = [pc EXCEPT ![t] = l]
  PROVE  Books'
<1>1. pc'[t] = l /\ \A u \in Tasks \ {t} : pc'[u] = pc[u]
  BY DEF TypeInv, TypeOK
<1>2. Assigned(t)'
  BY <1>1 DEF Assigned, Retiring
<1> QED
  BY <1>1, <1>2, BooksQuiet

\* alloc, the rideable's own steps, and the calls that only read.
LEMMA BooksAlloc ==
  ASSUME TypeInv, Books, NEW t \in Tasks,
         AllocCount(t) \/ AllocBirth(t)
  PROVE  Books'
<1>1. CASE AllocCount(t)
  <2>1. /\ pc' = [pc EXCEPT ![t] = "birth"] /\ "birth" \in PC \ Retiring
        /\ UNCHANGED <<next, first, work, link, refs, batch, list, rt>>
    BY <1>1 DEF AllocCount, Goto, slots, nodes, batches, PC, Retiring
  <2>2. \A o \in Objs : status'[o] = "retired" <=> status[o] = "retired"
    BY <1>1 DEF AllocCount, Malloc, TypeInv, TypeOK, ClientTypeOK
  <2> QED
    BY <2>1, <2>2, BooksOutside
<1>2. CASE AllocBirth(t)
  <2>1. /\ pc' = [pc EXCEPT ![t] = "idle"] /\ "idle" \in PC \ Retiring
        /\ UNCHANGED <<next, first, work, link, refs, batch, list, rt, status>>
    BY <1>2 DEF AllocBirth, Goto, slots, batches, clientVars, PC, Retiring
  <2> QED
    BY <2>1, BooksOutside
<1> QED
  BY <1>1, <1>2

\* Steps of the rideable: they retire nothing.
LEMMA BooksRideable ==
  ASSUME TypeInv, Placed, Books, NEW t \in Tasks, Rideable(t)
  PROVE  Books'
<1>1. /\ pc[t] = "idle" /\ UNCHANGED pc
      /\ UNCHANGED <<next, first, work, link, refs, batch, list, rt>>
  BY DEF Rideable, slots, nodes, batches
<1>2. pc' = [pc EXCEPT ![t] = "idle"] /\ "idle" \in PC \ Retiring
  BY <1>1 DEF TypeInv, TypeOK, PC, Retiring
<1>3. ASSUME NEW o \in Objs PROVE status'[o] = "retired" <=> status[o] = "retired"
  <2>1. CASE Discard(t)
    BY <2>1 DEF Discard, TypeInv, TypeOK, ClientTypeOK, Placed
  <2>2. ASSUME NEW c \in Cells, Link(t, c)
        PROVE  status'[o] = "retired" <=> status[o] = "retired"
    BY <2>2 DEF Link, TypeInv, TypeOK, ClientTypeOK, Placed
  <2>3. ASSUME NEW c \in Cells, Unlink(t, c)
        PROVE  status'[o] = "retired" <=> status[o] = "retired"
    BY <2>3 DEF Unlink, TypeInv, TypeOK, ClientTypeOK, Placed
  <2> QED
    BY <2>1, <2>2, <2>3 DEF Rideable
<1> QED
  BY <1>1, <1>2, <1>3, BooksOutside

\* Steps of read, reserve_slot, the call of clear_all and the load of traverse
\* touch no list.
LEMMA BooksRead ==
  ASSUME TypeInv, Books, NEW t \in Tasks,
         \/ \E c \in Cells, j \in Idx : Read(t, c, j) \/ Reserve(t, c, j)
         \/ ReadLoad(t) \/ CheckEpoch(t) \/ Validate(t)
         \/ UpdReload(t) \/ UpdEpoch(t) \/ Clear(t) \/ TravLoad(t)
  PROVE  Books'
<1>1. UNCHANGED <<next, first, work, link, refs, batch, list, rt, status>>
  BY DEF Read, Reserve, ReadLoad, CheckEpoch, Validate, UpdReload, UpdEpoch,
         Clear, TravLoad, slots, nodes, batches, clientVars
<1>2. \E l \in PC \ Retiring : pc' = [pc EXCEPT ![t] = l]
  <2>1. {"check", "upd", "idle", "validate", "upd_epoch", "load", "clear", "drop"}
           \subseteq PC \ Retiring
    BY DEF PC, Retiring
  <2> QED
    BY <2>1 DEF Read, Reserve, ReadLoad, CheckEpoch, Validate, UpdReload,
         UpdEpoch, Clear, TravLoad, Goto
<1> QED
  BY <1>1, <1>2, BooksOutside

-----------------------------------------------------------------------------
\* The owner of a slot detaches its list; do_update frees the cached batches
\* when the cache is full.
LEMMA BooksFree ==
  ASSUME TypeInv, Books, NEW t \in Tasks, NEW R, R = list[t] \/ R = {},
         FreeList(R), UNCHANGED <<link, refs, batch, rt, next>>,
         InFlight' = InFlight, OnePointer',
         list' = [list EXCEPT ![t] = @ \ R],
         NEW l \in PC \ Retiring, pc[t] \notin Retiring, pc' = [pc EXCEPT ![t] = l]
  PROVE  Books'
<1>1. R \in SUBSET Objs /\ TypeOK
  BY DEF TypeInv, TypeOK
<1>2. \A r \in R : /\ IsBatch(r) /\ refs[r] = 0 /\ \A u \in Tasks : ~Building(u, r)
  BY DEF Books, Queued
<1>3. ASSUME NEW r \in R PROVE Flight(r) = {}
  <2>1. refs[r] = Cardinality(Flight(r))
    BY <1>1, <1>2 DEF Books, Counted
  <2> QED
    BY <1>1, <1>2, <2>1, FlightFinite, FS_EmptySet
<1>4. \A o \in Objs : status'[o] = "retired" <=>
                             status[o] = "retired" /\ link[o] \notin R
  BY DEF FreeList, Free, Members
<1>5. \A u \in Tasks : list'[u] = list[u] \ R
  <2>1. \A u \in Tasks \ {t} : list[u] \intersect R = {}
    BY DEF Books, Queued
  <2> QED
    BY <2>1 DEF TypeInv, TypeOK
<1>6. BatchesApart' /\ WalkSafe' /\ Counted' /\ Queued'
  BY <1>1, <1>2, <1>3, <1>4, <1>5, BooksKept
<1>7. pc'[t] = l /\ \A u \in Tasks \ {t} : pc'[u] = pc[u]
  BY DEF TypeInv, TypeOK
<1>8. ASSUME NEW u \in Tasks PROVE Assigned(u)'
  <2>1. CASE u = t
    BY <1>7, <2>1 DEF Assigned, Retiring
  <2>2. CASE u # t
    <3>1. CASE batch[u] = <<>>
      <4>1. pc[u] \notin Retiring
        BY <3>1 DEF TypeInv, RetireControl
      <4> QED
        BY <1>7, <2>2, <4>1 DEF Assigned, Retiring
    <3>2. CASE batch[u] # <<>>
      <4>1. Building(u, Last(u))
        BY <1>1, <3>2, BuildingType
      <4>2. Last(u) \notin R
        BY <1>2, <4>1
      <4>3. \A o \in Objs : status[o] = "retired" /\ link[o] = Last(u) =>
             status'[o] = "retired" /\ (o \in InFlight \/ next'[o] = next[o])
        BY <1>4, <4>2
      <4> QED
        BY <1>7, <2>2, <4>3, AssignedKept DEF Books
    <3> QED
      BY <3>1, <3>2
  <2> QED
    BY <2>1, <2>2
<1> QED
  BY <1>6, <1>8 DEF Books

\* do_update takes the list of the slot, and may free the cached batches.
LEMMA BooksUpdDetach ==
  ASSUME TypeInv, Books, WorkControl, NEW t \in Tasks, UpdDetach(t),
         NEW j \in Idx, j = rd[t].idx
  PROVE  /\ Books' /\ InFlight' = InFlight /\ UNCHANGED <<next, link>>
         /\ \A s \in SlotIds \ {<<t, j>>} : Chain(s)' = Chain(s) /\ At(s)' = At(s)
         /\ \/ At(<<t, j>>)' = NULL /\ UNCHANGED <<first, work>>
            \/ At(<<t, j>>)' = INVPTR
         /\ Chain(<<t, j>>)' = {}
<1> DEFINE old == first[t][j]
           R == IF old \in Objs /\ CacheFull(t) THEN list[t] ELSE {}
<1>1. /\ pc[t] = "upd" /\ j \in Idx /\ work[t] = <<>>
      /\ UNCHANGED <<link, refs, batch, rt, next>> /\ FreeList(R)
  BY DEF UpdDetach, WorkControl, nodes, TypeInv, TypeOK, ReadLocals
<1>2. TypeOK /\ OnePointer
  BY DEF TypeInv, Books
<1>3. pc[t] \notin Retiring /\ list' = [list EXCEPT ![t] = @ \ R]
  <2>1. list \in [Tasks -> SUBSET Objs]
    BY <1>2 DEF TypeOK
  <2>2. list' = [list EXCEPT ![t] = IF old \in Objs /\ CacheFull(t) THEN {} ELSE @]
    BY DEF UpdDetach
  <2> QED
    BY <1>1, <2>1, <2>2 DEF Retiring
<1>4. ASSUME NEW l \in PC \ Retiring, pc' = [pc EXCEPT ![t] = l],
             InFlight' = InFlight, OnePointer'
      PROVE  Books'
  <2> HIDE DEF R
  <2>1. R = list[t] \/ R = {}
    BY DEF R
  <2> QED
    BY <1>1, <1>3, <1>4, <2>1, BooksFree
<1>5. NULL \notin Objs /\ INVPTR \notin Objs /\ NULL # INVPTR
  BY ClientAssumption, PtrAssumption DEF Ptrs
<1>6. CASE old = NULL
  <2>1. /\ pc' = [pc EXCEPT ![t] = "upd_epoch"] /\ UNCHANGED first
        /\ work' = [work EXCEPT ![t] = <<>>]
    BY <1>5, <1>6 DEF UpdDetach, Goto
  <2>2. work' = work
    BY <1>1, <1>2, <2>1 DEF TypeOK
  <2>3. /\ OnePointer' /\ InFlight' = InFlight
        /\ \A s \in SlotIds : Chain(s)' = Chain(s) /\ At(s)' = At(s)
    BY <1>1, <1>2, <2>1, <2>2, ListsUnchanged
  <2>4. "upd_epoch" \in PC \ Retiring
    BY DEF PC, Retiring
  <2>5. <<t, j>> \in SlotIds /\ At(<<t, j>>) = NULL
    BY <1>1, <1>6 DEF SlotIds, At
  <2>6. Chain(<<t, j>>) = {}
    <3>1. Chain(<<t, j>>) = Reach(next, {NULL})
      BY <2>5 DEF Chain, At
    <3>2. ClosedUnder(next, {NULL}, {})
      BY <1>5 DEF ClosedUnder
    <3> QED
      BY <1>2, <3>1, <3>2, ReachLeast, FlightType
  <2>7. Books'
    BY <1>4, <2>1, <2>3, <2>4
  <2>8. At(<<t, j>>)' = NULL /\ Chain(<<t, j>>)' = {}
    BY <2>1, <2>5, <2>6, <1>1 DEF At, Chain
  <2> QED
    BY <1>1, <2>1, <2>2, <2>3, <2>7, <2>8
<1>7. CASE old # NULL
  <2>1. /\ first' = [first EXCEPT ![t][j] = INVPTR]
        /\ pc' = [pc EXCEPT ![t] = IF old \in Objs THEN "trav" ELSE "upd_null"]
        /\ work' = [work EXCEPT ![t] = IF old \in Objs THEN <<old>> ELSE <<>>]
    BY <1>7 DEF UpdDetach, Goto
  <2>2. work' = [work EXCEPT ![t] = IF old \in Objs THEN Append(@, old) ELSE @]
    <3>1. Append(<<>>, old) = <<old>>
      OBVIOUS
    <3> HIDE DEF old
    <3> QED
      BY <1>1, <2>1, <3>1
  <2>3. /\ OnePointer' /\ InFlight' = InFlight
        /\ \A s \in SlotIds \ {<<t, j>>} : Chain(s)' = Chain(s) /\ At(s)' = At(s)
        /\ At(<<t, j>>)' = INVPTR /\ Chain(<<t, j>>)' = {}
    BY <1>1, <1>2, <2>1, <2>2, ListsDetach
  <2>4. {"trav", "upd_null"} \subseteq PC \ Retiring
    BY DEF PC, Retiring
  <2>5. Books'
    BY <1>4, <2>1, <2>3, <2>4
  <2> QED
    BY <1>1, <2>3, <2>5
<1> QED
  BY <1>6, <1>7

\* do_update opens the slot again, with an empty list.
LEMMA BooksUpdNull ==
  ASSUME TypeInv, Books, WorkControl, NEW t \in Tasks, UpdNull(t),
         NEW j \in Idx, j = rd[t].idx
  PROVE  /\ Books' /\ InFlight' = InFlight
         /\ \A s \in SlotIds \ {<<t, j>>} : Chain(s)' = Chain(s) /\ At(s)' = At(s)
         /\ At(<<t, j>>) = INVPTR /\ Chain(<<t, j>>)' = {}
<1>1. /\ pc[t] = "upd_null" /\ first[t][j] = INVPTR
      /\ first' = [first EXCEPT ![t][j] = NULL]
      /\ pc' = [pc EXCEPT ![t] = "upd_reload"]
      /\ UNCHANGED <<status, link, refs, batch, list, rt, next, work>>
  BY DEF UpdNull, WorkControl, nodes, batches, clientVars, Goto
<1>2. /\ OnePointer' /\ InFlight' = InFlight
      /\ \A s \in SlotIds \ {<<t, j>>} : Chain(s)' = Chain(s) /\ At(s)' = At(s)
      /\ Chain(<<t, j>>)' = {}
  BY <1>1, ListsActivate DEF TypeInv, Books
<1>3. "upd_reload" \in PC \ Retiring /\ pc[t] \notin Retiring
  BY <1>1 DEF PC, Retiring
<1>4. FreeList({}) /\ list' = [list EXCEPT ![t] = @ \ {}]
  <2>1. status' = [o \in Objs |-> IF o \in Members({}) THEN "free" ELSE status[o]]
    BY <1>1 DEF Members, TypeInv, TypeOK, ClientTypeOK
  <2>2. UNCHANGED <<cell, mine, victim>>
    BY DEF UpdNull, clientVars
  <2> QED
    BY <1>1, <2>1, <2>2 DEF FreeList, Free, TypeInv, TypeOK
<1>5. Books'
  BY <1>1, <1>2, <1>3, <1>4, BooksFree
<1>6. At(<<t, j>>) = INVPTR
  BY <1>1 DEF At
<1> QED
  BY <1>2, <1>5, <1>6

\* clear_all takes the list of one slot.
LEMMA BooksClearSlot ==
  ASSUME TypeInv, Books, NEW t \in Tasks, ClearSlot(t),
         NEW j \in Idx, j = rd[t].idx
  PROVE  /\ Books' /\ InFlight' = InFlight
         /\ \A s \in SlotIds \ {<<t, j>>} : Chain(s)' = Chain(s) /\ At(s)' = At(s)
         /\ At(<<t, j>>)' = INVPTR /\ Chain(<<t, j>>)' = {}
<1>1. /\ pc[t] = "clear"
      /\ first' = [first EXCEPT ![t][j] = INVPTR]
      /\ UNCHANGED <<status, cell, mine, victim, link, refs, batch, list, rt, next>>
  BY DEF ClearSlot, nodes, batches, clientVars
<1>2. work' = [work EXCEPT ![t] = IF first[t][j] \in Objs
                                  THEN Append(@, first[t][j]) ELSE @]
  BY DEF ClearSlot
<1>3. /\ OnePointer' /\ InFlight' = InFlight
      /\ \A s \in SlotIds \ {<<t, j>>} : Chain(s)' = Chain(s) /\ At(s)' = At(s)
      /\ At(<<t, j>>)' = INVPTR /\ Chain(<<t, j>>)' = {}
  BY <1>1, <1>2, ListsDetach DEF TypeInv, Books
<1>4. \E l \in PC \ Retiring : pc' = [pc EXCEPT ![t] = l]
  <2>1. {"clear", "trav", "free"} \subseteq PC \ Retiring
    BY DEF PC, Retiring
  <2>2. pc' = pc => pc' = [pc EXCEPT ![t] = "clear"]
    BY <1>1 DEF TypeInv, TypeOK
  <2> QED
    BY <2>1, <2>2 DEF ClearSlot, Goto
<1>5. pc[t] \notin Retiring
  BY <1>1 DEF Retiring
<1>6. FreeList({}) /\ list' = [list EXCEPT ![t] = @ \ {}]
  <2>1. status' = [o \in Objs |-> IF o \in Members({}) THEN "free" ELSE status[o]]
    BY <1>1 DEF Members, TypeInv, TypeOK, ClientTypeOK
  <2> QED
    BY <1>1, <2>1 DEF FreeList, Free, TypeInv, TypeOK
<1>7. Books'
  BY <1>1, <1>3, <1>4, <1>5, <1>6, BooksFree
<1> QED
  BY <1>3, <1>7

\* clear_all frees the batches that it has queued.
LEMMA BooksClearFree ==
  ASSUME TypeInv, Books, NEW t \in Tasks, ClearFree(t)
  PROVE  Books'
<1>1. /\ pc[t] = "free" /\ FreeList(list[t])
      /\ list' = [list EXCEPT ![t] = @ \ list[t]]
      /\ pc' = [pc EXCEPT ![t] = "idle"]
      /\ UNCHANGED <<link, refs, batch, rt, next, first, work>>
  BY DEF ClearFree, nodes, slots, Goto, TypeInv, TypeOK
<1>2. OnePointer' /\ InFlight' = InFlight
  BY <1>1, ListsUnchanged DEF Books
<1>3. "idle" \in PC \ Retiring /\ pc[t] \notin Retiring
  BY <1>1 DEF PC, Retiring
<1> QED
  BY <1>1, <1>2, <1>3, BooksFree

-----------------------------------------------------------------------------
\* traverse drops one reference for the node it passes.
LEMMA BooksTravDrop ==
  ASSUME TypeInv, Books, Loaded, NEW t \in Tasks, TravDrop(t)
  PROVE  /\ Books' /\ InFlight' \subseteq InFlight
         /\ \A s \in SlotIds : Chain(s)' = Chain(s) /\ At(s)' = At(s)
<1>0. Head(work[t]) \in Objs /\ link[Head(work[t])] \in Objs
  <2>1. work[t] \in Seq(Objs) /\ work[t] # <<>>
    BY DEF TravDrop, TypeInv, TypeOK, ReadControl
  <2> QED
    BY <2>1, HeadTailProperties DEF TypeInv, TypeOK
<1> PICK n \in Objs, r \in Objs : n = Head(work[t]) /\ r = link[n]
  BY <1>0
<1>1. /\ pc[t] = "drop" /\ work[t] # <<>> /\ TypeOK
      /\ refs' = [refs EXCEPT ![r] = @ - 1]
      /\ list' = [list EXCEPT ![t] = IF refs[r] = 1 THEN @ \union {r} ELSE @]
      /\ UNCHANGED <<status, first, next, link, batch, rt>>
  BY DEF TravDrop, DropReference, LastReference, TypeInv, ReadControl, clientVars, slots
<1>3. /\ OnePointer' /\ InFlight' = InFlight \ {n} /\ n \in InFlight
      /\ \A s \in SlotIds : Chain(s)' = Chain(s) /\ At(s)' = At(s)
  <2>1. work' = [work EXCEPT ![t] = IF next[n] = NULL THEN Tail(@)
                                    ELSE <<next[n]>> \o Tail(@)]
    BY DEF TravDrop, WalkOn, Loaded
  <2> QED
    BY <1>1, <2>1, ListsWalk DEF Books
<1>4. PICK l \in PC \ Retiring : pc' = [pc EXCEPT ![t] = l]
  <2>1. {"upd_null", "trav", "free"} \subseteq PC \ Retiring
    BY DEF PC, Retiring
  <2> QED
    BY <2>1 DEF TravDrop, WalkOn, Goto
<1>5. IsBatch(r)
  BY <1>1, <1>3 DEF Books, WalkSafe, BatchesApart
<1>6. /\ \A u \in Tasks : \A q : Building(u, q)' <=> Building(u, q)
      /\ \A u \in Tasks : Last(u)' = Last(u)
      /\ \A q : IsBatch(q)' <=> IsBatch(q)
  BY <1>1 DEF Building, Last, IsBatch
<1>7. /\ \A q \in Objs \ {r} : Flight(q)' = Flight(q) /\ refs'[q] = refs[q]
      /\ Cardinality(Flight(r)') = Cardinality(Flight(r)) - 1
      /\ refs'[r] = refs[r] - 1 /\ refs[r] \in Int
  <2>1. \A q \in Objs \ {r} : Flight(q)' = Flight(q)
    BY <1>1, <1>3 DEF Flight
  <2>2. Flight(r)' = Flight(r) \ {n} /\ n \in Flight(r)
    BY <1>1, <1>3 DEF Flight
  <2>3. IsFiniteSet(Flight(r))
    BY <1>1, FlightFinite
  <2>4. Cardinality(Flight(r)') = Cardinality(Flight(r)) - 1
    <3> DEFINE F == Flight(r)
    <3>1. IsFiniteSet(F) /\ n \in F
      BY <2>2, <2>3
    <3> HIDE DEF F
    <3>2. Cardinality(F \ {n}) = Cardinality(F) - 1
      BY <3>1, FS_RemoveElement
    <3> QED
      BY <2>2, <3>2 DEF F
  <2>5. refs'[r] = refs[r] - 1 /\ refs[r] \in Int /\ \A q \in Objs \ {r} : refs'[q] = refs[q]
    BY <1>1, <1>5 DEF TypeOK
  <2> QED
    BY <2>1, <2>4, <2>5
<1>8. Cardinality(Flight(r)) \in Nat /\ \A u \in Tasks : rt[u].adjs \in Nat
  BY <1>1, FlightFinite DEF TypeOK, RetireLocals
<1>9. \A u \in Tasks : Building(u, r) => refs[r] <= 0
  BY <1>5 DEF Books, Counted
<1>10. \A u \in Tasks : r \notin list[u]
  <2>1. ASSUME NEW u \in Tasks, r \in list[u] PROVE FALSE
    <3>1. refs[r] = 0 /\ \A v \in Tasks : ~Building(v, r)
      BY <2>1 DEF Books, Queued
    <3>2. Cardinality(Flight(r)) = 0
      BY <1>5, <3>1 DEF Books, Counted
    <3>3. Flight(r) = {}
      BY <1>1, <3>2, FlightFinite, FS_EmptySet
    <3>4. n \in Flight(r)
      BY <1>3 DEF Flight
    <3> QED
      BY <3>3, <3>4
  <2> QED
    BY <2>1
<1>11. BatchesApart' /\ WalkSafe'
  <2>1. BatchesApart'
    BY <1>1, <1>6 DEF Books, BatchesApart
  <2>2. WalkSafe'
    BY <1>1, <1>3 DEF Books, WalkSafe
  <2> QED
    BY <2>1, <2>2
<1>12. Counted'
  <2>1. ASSUME NEW q \in Objs, IsBatch(q), NEW u \in Tasks, Building(u, q)
        PROVE  refs'[q] = Cardinality(Flight(q)') - rt'[u].adjs /\ refs'[q] <= 0
    <3>1. refs[q] = Cardinality(Flight(q)) - rt[u].adjs /\ refs[q] <= 0
      BY <2>1 DEF Books, Counted
    <3> QED
      BY <1>1, <1>7, <1>8, <3>1
  <2>2. ASSUME NEW q \in Objs, IsBatch(q), \A u \in Tasks : ~Building(u, q)
        PROVE  /\ refs'[q] = Cardinality(Flight(q)')
               /\ refs'[q] = 0 => \E u \in Tasks : q \in list'[u]
    <3>1. /\ refs[q] = Cardinality(Flight(q))
          /\ refs[q] = 0 => \E u \in Tasks : q \in list[u]
      BY <2>2 DEF Books, Counted
    <3>2. CASE q = r
      <4>1. refs'[r] = Cardinality(Flight(r)')
        BY <1>7, <1>8, <3>1, <3>2
      <4>2. refs'[r] = 0 => r \in list'[t]
        BY <1>1, <1>7 DEF TypeOK
      <4> QED
        BY <3>2, <4>1, <4>2
    <3>3. CASE q # r
      <4>1. \A u \in Tasks : q \in list[u] => q \in list'[u]
        BY <1>1 DEF TypeOK
      <4> QED
        BY <1>7, <3>1, <3>3, <4>1
    <3> QED
      BY <3>2, <3>3
  <2> QED
    BY <1>6, <2>1, <2>2 DEF Counted
<1>13. Queued'
  <2>1. \A u \in Tasks : \A q \in list'[u] :
           (q \in list[u] /\ q # r) \/ (q = r /\ u = t /\ refs[r] = 1)
    BY <1>1, <1>10 DEF TypeOK
  <2>2. \A u \in Tasks : list[u] \subseteq Objs
    BY <1>1 DEF TypeOK
  <2>3. refs[r] = 1 => \A u \in Tasks : ~Building(u, r)
    BY <1>9
  <2>4. \A u \in Tasks : \A q \in list'[u] :
           IsBatch(q) /\ refs'[q] = 0 /\ \A v \in Tasks : ~Building(v, q)
    BY <1>5, <1>7, <2>1, <2>2, <2>3 DEF Books, Queued
  <2>5. \A u, v \in Tasks : \A q \in list'[u] : q \in list'[v] => u = v
    BY <2>1 DEF Books, Queued
  <2> QED
    BY <1>6, <2>4, <2>5 DEF Queued
<1>14. ASSUME NEW u \in Tasks PROVE Assigned(u)'
  <2>1. pc'[t] \notin Retiring /\ \A v \in Tasks \ {t} : pc'[v] = pc[v]
    BY <1>1, <1>4 DEF TypeOK
  <2>2. CASE u = t
    BY <2>1, <2>2 DEF Assigned, Retiring
  <2>3. CASE u # t
    BY <1>1, <1>3, <2>1, <2>3, AssignedKept DEF Books
  <2> QED
    BY <2>2, <2>3
<1> QED
  BY <1>3, <1>11, <1>12, <1>13, <1>14 DEF Books

-----------------------------------------------------------------------------
\* retire puts a node that is in no list into the batch of its thread.
LEMMA BooksRetire ==
  ASSUME TypeInv, Placed, Books, NEW t \in Tasks, Retire(t),
         NEW o, o = victim[t],
         NEW r, r = IF batch[t] = <<>> THEN o ELSE Last(t)
  PROVE  /\ Books' /\ InFlight' = InFlight
         /\ \A s \in SlotIds : Chain(s)' = Chain(s)
         /\ o \in Objs /\ r \in Objs /\ link' = [link EXCEPT ![o] = r]
         /\ status[o] = "unlinked" /\ status' = [status EXCEPT ![o] = "retired"]
         /\ \A u \in Tasks : \A q :
               Building(u, q)' <=> IF u = t THEN q = r ELSE Building(u, q)
         /\ \A u \in Tasks \ {t} : batch'[u] = batch[u]
<1> DEFINE empty == batch[t] = <<>>
<1>1. /\ pc[t] = "idle" /\ TypeOK
      /\ status' = [status EXCEPT ![o] = "retired"] /\ o # NULL
      /\ link' = [link EXCEPT ![o] = r]
      /\ refs' = [refs EXCEPT ![o] = IF empty THEN 0 ELSE @]
      /\ batch' = [batch EXCEPT ![t] = <<o>> \o @]
      /\ UNCHANGED <<first, next, list, work, rt>>
  BY DEF Retire, HandOver, Last, slots, TypeInv
<1>2. o \in Objs /\ status[o] = "unlinked"
  BY <1>1 DEF TypeOK, ClientTypeOK, Ptrs, Placed
<1>3. r \in Objs
  BY <1>1, <1>2, BuildingType
<1>4. /\ Len(batch'[t]) = Len(batch[t]) + 1 /\ Len(batch[t]) \in Nat
      /\ batch'[t][1] = o
      /\ \A k \in 1 .. Len(batch[t]) : batch'[t][k + 1] = batch[t][k]
      /\ batch'[t] # <<>> /\ batch[t] \in Seq(Objs)
  <2>1. batch'[t] = <<o>> \o batch[t] /\ batch[t] \in Seq(Objs) /\ <<o>> \in Seq(Objs)
    BY <1>1, <1>2 DEF TypeOK
  <2>2. Len(<<o>>) = 1 /\ <<o>>[1] = o /\ Len(batch[t]) \in Nat
    BY <2>1, LenProperties
  <2>3. /\ Len(batch'[t]) = 1 + Len(batch[t])
        /\ \A k \in 1 .. 1 + Len(batch[t]) :
              batch'[t][k] = IF k <= 1 THEN <<o>>[k] ELSE batch[t][k - 1]
    BY <2>1, <2>2, ConcatProperties
  <2>4. batch'[t][1] = o
    BY <2>2, <2>3
  <2>5. \A k \in 1 .. Len(batch[t]) : batch'[t][k + 1] = batch[t][k]
    <3>1. \A k \in 1 .. Len(batch[t]) :
             k + 1 \in 1 .. 1 + Len(batch[t]) /\ ~(k + 1 <= 1) /\ (k + 1) - 1 = k
      BY <2>2
    <3> QED
      BY <2>3, <3>1
  <2>6. batch'[t] # <<>>
    BY <2>2, <2>3
  <2> QED
    BY <2>1, <2>2, <2>3, <2>4, <2>5, <2>6
<1>5. \A k \in 1 .. Len(batch'[t]) :
         k = 1 \/ (k - 1 \in 1 .. Len(batch[t]) /\ batch'[t][k] = batch[t][k - 1])
  <2>1. ASSUME NEW k \in 1 .. Len(batch'[t]), k # 1
        PROVE  k - 1 \in 1 .. Len(batch[t]) /\ (k - 1) + 1 = k
    BY <1>4, <2>1
  <2> QED
    BY <1>4, <2>1
<1>6. \A u \in Tasks \ {t} : batch'[u] = batch[u]
  BY <1>1 DEF TypeOK
<1>7. /\ batch'[t][Len(batch'[t])] = r
      /\ empty => Len(batch[t]) = 0
      /\ ~empty => Len(batch[t]) > 0
  <2>1. CASE empty
    <3>1. Len(batch[t]) = 0
      BY <2>1
    <3> QED
      BY <1>4, <2>1, <3>1
  <2>2. CASE ~empty
    <3>1. Len(batch[t]) \in 1 .. Len(batch[t])
      BY <1>4, <2>2, EmptySeq
    <3> QED
      BY <1>4, <2>2, <3>1 DEF Last
  <2> QED
    BY <2>1, <2>2
<1>8. /\ \A u \in Tasks : \A q : Building(u, q)' <=> IF u = t THEN q = r ELSE Building(u, q)
      /\ \A u \in Tasks \ {t} : Last(u)' = Last(u)
      /\ Last(t)' = r
  BY <1>4, <1>6, <1>7 DEF Building, Last
<1>9. ~empty => r = Last(t) /\ Building(t, r) /\ IsBatch(r)
  BY <1>1, BuildingType, BuildingBatch DEF Books
<1>10. \A q : IsBatch(q) => q # o
  BY <1>2 DEF IsBatch
<1>11. \A q \in Objs : IsBatch(q)' <=> IsBatch(q) \/ (empty /\ q = o)
  <2>1. ASSUME NEW q \in Objs, q # o PROVE IsBatch(q)' <=> IsBatch(q)
    BY <1>1, <2>1 DEF IsBatch, TypeOK, ClientTypeOK
  <2>2. IsBatch(o)' <=> empty
    <3>1. status'[o] = "retired" /\ link'[o] = r
      BY <1>1, <1>2 DEF TypeOK, ClientTypeOK
    <3>2. ~empty => r # o
      BY <1>9, <1>10
    <3> QED
      BY <3>1, <3>2 DEF IsBatch
  <2> QED
    BY <1>10, <2>1, <2>2
<1>12. /\ OnePointer' /\ InFlight' = InFlight /\ \A s \in SlotIds : Chain(s)' = Chain(s)
  BY <1>1, ListsUnchanged DEF Books
<1>13. o \notin InFlight
  BY <1>2 DEF Books, WalkSafe
<1>14. \A q : Flight(q)' = Flight(q)
  <2>1. \A n \in InFlight : link'[n] = link[n]
    BY <1>1, <1>13, FlightType DEF TypeOK
  <2> QED
    BY <1>12, <2>1 DEF Flight
<1>15. Flight(o) = {}
  <2>1. \A n \in InFlight : IsBatch(link[n]) /\ n \in Objs
    BY <1>1, FlightType DEF Books, WalkSafe, BatchesApart
  <2> QED
    BY <1>10, <2>1 DEF Flight
<1>16. \A u \in Tasks : \A q : Building(u, q) => IsBatch(q)
  BY <1>1, BuildingBatch DEF Books
<1>17. BatchesApart'
  <2>1. \A k, l \in 1 .. Len(batch'[t]) : batch'[t][k] = batch'[t][l] => k = l
    <3>1. \A k \in 1 .. Len(batch[t]) : batch[t][k] # o
      BY <1>2 DEF Books, BatchesApart
    <3>2. ASSUME NEW k \in 1 .. Len(batch'[t]), NEW l \in 1 .. Len(batch'[t]),
                 batch'[t][k] = batch'[t][l]
          PROVE  k = l
      <4>1. CASE k = 1 \/ l = 1
        BY <1>4, <1>5, <3>1, <3>2, <4>1
      <4>2. CASE k # 1 /\ l # 1
        <5>1. /\ k - 1 \in 1 .. Len(batch[t]) /\ l - 1 \in 1 .. Len(batch[t])
              /\ batch[t][k - 1] = batch[t][l - 1]
          BY <1>5, <3>2, <4>2
        <5>2. k - 1 = l - 1
          BY <5>1 DEF Books, BatchesApart
        <5> QED
          BY <1>4, <3>2, <5>2
      <4> QED
        BY <4>1, <4>2
    <3> QED
      BY <3>2
  <2>2. ASSUME NEW k \in 1 .. Len(batch'[t])
        PROVE  status'[batch'[t][k]] = "retired" /\ link'[batch'[t][k]] = Last(t)'
    <3>1. CASE k = 1
      BY <1>1, <1>2, <1>4, <1>8, <3>1 DEF TypeOK, ClientTypeOK
    <3>2. CASE k # 1
      <4>1. k - 1 \in 1 .. Len(batch[t]) /\ batch'[t][k] = batch[t][k - 1]
        BY <1>5, <3>2
      <4> DEFINE b == batch[t][k - 1]
      <4>2. b \in Objs /\ status[b] = "retired" /\ link[b] = Last(t) /\ b # o
        BY <1>1, <1>2, <4>1, BuildingType DEF Books, BatchesApart
      <4>3. ~empty
        BY <1>7, <4>1
      <4> HIDE DEF b
      <4>4. status'[b] = "retired" /\ link'[b] = Last(t)
        BY <1>1, <4>2 DEF TypeOK, ClientTypeOK
      <4> QED
        BY <1>8, <1>9, <4>1, <4>3, <4>4 DEF b
    <3> QED
      BY <3>1, <3>2
  <2>3. ASSUME NEW u \in Tasks, u # t, NEW k \in 1 .. Len(batch[u])
        PROVE  status'[batch[u][k]] = "retired" /\ link'[batch[u][k]] = Last(u)
    <3> DEFINE b == batch[u][k]
    <3>1. b \in Objs /\ status[b] = "retired" /\ link[b] = Last(u) /\ b # o
      BY <1>1, <1>2, <2>3, BuildingType DEF Books, BatchesApart
    <3> HIDE DEF b
    <3>2. status'[b] = "retired" /\ link'[b] = Last(u)
      BY <1>1, <3>1 DEF TypeOK, ClientTypeOK
    <3> QED
      BY <3>2 DEF b
  <2>4. \A q \in Objs, u, v \in Tasks : (Building(u, q) /\ Building(v, q))' => u = v
    <3>1. ASSUME NEW u \in Tasks, u # t PROVE ~Building(u, r)
      <4>1. CASE empty
        BY <1>10, <1>16, <4>1
      <4>2. CASE ~empty
        BY <1>3, <1>9, <3>1, <4>2 DEF Books, BatchesApart
      <4> QED
        BY <4>1, <4>2
    <3> QED
      BY <1>8, <3>1 DEF Books, BatchesApart
  <2>5. ASSUME NEW q \in Objs, status'[q] = "retired" 
        PROVE  status'[link'[q]] = "retired" /\ link'[link'[q]] = link'[q]
    <3>1. status'[r] = "retired" /\ link'[r] = r
      <4>1. IsBatch(r)'
        BY <1>3, <1>9, <1>11
      <4> QED
        BY <4>1 DEF IsBatch
    <3>2. CASE q = o
      BY <1>1, <1>2, <3>1, <3>2 DEF TypeOK
    <3>3. CASE q # o
      <4>1. status[q] = "retired" /\ link'[q] = link[q] /\ link[q] \in Objs
        BY <1>1, <2>5, <3>3 DEF TypeOK, ClientTypeOK
      <4>2. IsBatch(link[q])
        BY <4>1 DEF Books, BatchesApart
      <4>3. \A p \in Objs : IsBatch(p) => IsBatch(p)'
        BY <1>11
      <4>4. \A p \in Objs : IsBatch(p)' => status'[p] = "retired" /\ link'[p] = p
        BY DEF IsBatch
      <4>5. status'[link[q]] = "retired" /\ link'[link[q]] = link[q]
        BY <4>1, <4>2, <4>3, <4>4
      <4> QED
        BY <4>1, <4>5
    <3> QED
      BY <3>2, <3>3
  <2>6. \A u \in Tasks \ {t} : \A k, l \in 1 .. Len(batch[u]) :
           batch[u][k] = batch[u][l] => k = l
    BY DEF Books, BatchesApart
  <2> QED
    BY <1>6, <1>8, <2>1, <2>2, <2>3, <2>4, <2>5, <2>6 DEF BatchesApart, IsBatch
<1>18. WalkSafe'
  BY <1>1, <1>12, FlightType DEF Books, WalkSafe, TypeOK, ClientTypeOK
<1>19. \A q \in Objs : q # o => refs'[q] = refs[q]
  BY <1>1 DEF TypeOK
<1>20. Counted'
  <2>1. ASSUME NEW q \in Objs, IsBatch(q)', NEW u \in Tasks, Building(u, q)'
        PROVE  refs'[q] = Cardinality(Flight(q)) - rt[u].adjs /\ refs'[q] <= 0
    <3>1. CASE empty /\ q = o
      <4>1. u = t
        BY <1>8, <1>10, <1>16, <2>1, <3>1
      <4>2. refs'[o] = 0
        BY <1>1, <1>2, <3>1 DEF TypeOK
      <4>3. rt[t].adjs = 0
        BY <1>1 DEF TypeInv, RetireControl, Retiring, NoRetire
      <4>4. Cardinality(Flight(o)) = 0
        BY <1>15, FS_EmptySet
      <4> QED
        BY <3>1, <4>1, <4>2, <4>3, <4>4
    <3>2. CASE ~(empty /\ q = o)
      <4>1. IsBatch(q) /\ q # o
        BY <1>10, <1>11, <2>1, <3>2
      <4>2. Building(u, q)
        BY <1>8, <1>9, <2>1, <4>1
      <4> QED
        BY <1>19, <4>1, <4>2 DEF Books, Counted
    <3> QED
      BY <3>1, <3>2
  <2>2. ASSUME NEW q \in Objs, IsBatch(q)', \A u \in Tasks : ~Building(u, q)'
        PROVE  /\ refs'[q] = Cardinality(Flight(q))
               /\ refs'[q] = 0 => \E u \in Tasks : q \in list[u]
    <3>1. q # r
      BY <1>8, <2>2
    <3>2. IsBatch(q) /\ q # o
      BY <1>10, <1>11, <2>2, <3>1
    <3>3. \A u \in Tasks : ~Building(u, q)
      <4>1. Building(t, q) => q = r
        BY <1>1, BuildingType
      <4> QED
        BY <1>8, <2>2, <3>1, <4>1
    <3> QED
      BY <1>19, <3>2, <3>3 DEF Books, Counted
  <2> QED
    BY <1>1, <1>14, <2>1, <2>2 DEF Counted
<1>21. Queued'
  <2>1. ASSUME NEW u \in Tasks, NEW q \in list[u]
        PROVE  IsBatch(q)' /\ refs'[q] = 0 /\ \A v \in Tasks : ~Building(v, q)'
    <3>1. IsBatch(q) /\ refs[q] = 0 /\ (\A v \in Tasks : ~Building(v, q)) /\ q \in Objs
      BY <1>1 DEF Books, Queued, TypeOK
    <3>2. q # o /\ q # r
      BY <1>9, <1>10, <3>1
    <3> QED
      BY <1>8, <1>11, <1>19, <3>1, <3>2
  <2> QED
    BY <1>1, <2>1 DEF Books, Queued
<1>22. PICK l \in {"scan", "idle"} : pc' = [pc EXCEPT ![t] = l]
  BY DEF Retire, Goto
<1>23. ASSUME NEW u \in Tasks PROVE Assigned(u)'
  <2>1. pc'[t] \in {"scan", "idle"} /\ \A v \in Tasks \ {t} : pc'[v] = pc[v]
    BY <1>1, <1>22 DEF TypeOK
  <2>2. CASE u = t
    <3>1. rt'[t] = NoRetire
      BY <1>1 DEF TypeInv, RetireControl, Retiring
    <3> QED
      BY <2>1, <2>2, <3>1 DEF Assigned, NoRetire
  <2>3. CASE u # t
    <3>1. \A b \in Objs : status[b] = "retired" => status'[b] = "retired" /\ b # o
      BY <1>1, <1>2 DEF TypeOK, ClientTypeOK
    <3>2. \A b \in Objs \ {o} : link'[b] = link[b]
      BY <1>1 DEF TypeOK
    <3> QED
      BY <1>1, <1>6, <1>8, <1>12, <2>1, <2>3, <3>1, <3>2, AssignedKept DEF Books
  <2> QED
    BY <2>2, <2>3
<1> QED
  BY <1>1, <1>2, <1>3, <1>8, <1>6, <1>12, <1>17, <1>18, <1>20, <1>21, <1>23 DEF Books

-----------------------------------------------------------------------------
\* The nodes and slots that try_retire has assigned to each other.
LEMMA AssignmentType ==
  ASSUME TypeInv, NEW t \in Tasks
  PROVE  /\ rt[t].asg \in Seq(Objs \X SlotIds) /\ Len(rt[t].asg) \in Nat
         /\ \A k \in 1 .. Len(rt[t].asg) :
               rt[t].asg[k][1] \in Objs /\ rt[t].asg[k][2] \in SlotIds
         /\ rt[t].adjs \in Nat
         /\ rt[t].asg # <<>> =>
               /\ 1 \in 1 .. Len(rt[t].asg) /\ Head(rt[t].asg) = rt[t].asg[1]
               /\ Len(Tail(rt[t].asg)) = Len(rt[t].asg) - 1
               /\ \A k \in 1 .. Len(rt[t].asg) - 1 :
                     Tail(rt[t].asg)[k] = rt[t].asg[k + 1]
<1>1. rt[t].asg \in Seq(Objs \X SlotIds) /\ Len(rt[t].asg) \in Nat /\ rt[t].adjs \in Nat
  BY LenProperties DEF TypeInv, TypeOK, RetireLocals
<1>2. \A k \in 1 .. Len(rt[t].asg) : rt[t].asg[k] \in Objs \X SlotIds
  BY <1>1, ElementOfSeq
<1>3. \A k \in 1 .. Len(rt[t].asg) :
         rt[t].asg[k][1] \in Objs /\ rt[t].asg[k][2] \in SlotIds
  BY <1>2
<1>4. rt[t].asg # <<>> => Len(rt[t].asg) # 0
  BY <1>1, EmptySeq
<1>5. rt[t].asg # <<>> =>
               /\ Head(rt[t].asg) = rt[t].asg[1]
               /\ Len(Tail(rt[t].asg)) = Len(rt[t].asg) - 1
               /\ \A k \in 1 .. Len(rt[t].asg) - 1 :
                     Tail(rt[t].asg)[k] = rt[t].asg[k + 1]
  BY <1>1, HeadTailProperties
<1> QED
  BY <1>1, <1>3, <1>4, <1>5

\* The scan assigns the nodes in the order of the batch; none is in flight.
LEMMA AssignedScanned ==
  ASSUME TypeInv, Books, NEW t \in Tasks, pc[t] \in {"scan", "scan_epoch"},
         NEW asg \in Seq(Objs \X SlotIds), Len(asg) < Len(batch[t]),
         \A k \in 1 .. Len(asg) : asg[k][1] = batch[t][k], Scanned(t, asg),
         UNCHANGED <<status, link, batch, next, first, work>>
  PROVE  /\ Assigned(t)' /\ rt'[t].adjs = rt[t].adjs /\ rt'[t].asg = asg
         /\ pc'[t] = IF After(rt[t].pos) = EndPos THEN "insert" ELSE "scan"
         /\ rt'[t].pos = After(rt[t].pos)
         /\ \A u \in Tasks \ {t} : pc'[u] = pc[u] /\ rt'[u] = rt[u]
<1> DEFINE a == After(rt[t].pos)
<1>1. /\ pc' = [pc EXCEPT ![t] = IF a = EndPos THEN "insert" ELSE "scan"]
      /\ rt' = [rt EXCEPT ![t].pos = a, ![t].asg = asg]
  BY DEF Scanned, Goto
<1> HIDE DEF a
<1>2. /\ pc'[t] = IF a = EndPos THEN "insert" ELSE "scan"
      /\ rt'[t].asg = asg /\ rt'[t].adjs = rt[t].adjs /\ rt[t].adjs = 0
      /\ rt'[t].pos = a
      /\ \A u \in Tasks \ {t} : pc'[u] = pc[u] /\ rt'[u] = rt[u]
  BY <1>1 DEF TypeInv, TypeOK, RetireLocals, Books, Assigned
<1>3. InFlight' = InFlight /\ Last(t)' = Last(t)
  BY DEF InFlight, Heads, Walks, Last
<1>4. batch[t] # <<>> /\ TypeOK
  BY DEF TypeInv, RetireControl, Retiring
<1>5. Building(t, Last(t)) /\ IsBatch(Last(t)) /\ Last(t) \in Objs
  BY <1>4, BuildingType, BuildingBatch DEF Books
<1>6. Flight(Last(t)) = {}
  <2>1. refs[Last(t)] = Cardinality(Flight(Last(t))) - rt[t].adjs /\ refs[Last(t)] <= 0
    BY <1>5 DEF Books, Counted
  <2>2. /\ IsFiniteSet(Flight(Last(t))) /\ Cardinality(Flight(Last(t))) \in Nat
    BY <1>4, FlightFinite
  <2>3. Cardinality(Flight(Last(t))) = 0
    BY <1>2, <2>1, <2>2
  <2> QED
    BY <2>2, <2>3, FS_EmptySet
<1>7. \A k \in 1 .. Len(asg) : k \in 1 .. Len(batch[t])
  BY <1>4, BuildingType, LenProperties
<1>8. \A k, l \in 1 .. Len(asg) : asg[k][1] = asg[l][1] => k = l
  BY <1>7 DEF Books, BatchesApart
<1>9. ASSUME NEW k \in 1 .. Len(asg)
      PROVE  /\ status[asg[k][1]] = "retired" /\ link[asg[k][1]] = Last(t)
             /\ asg[k][1] \notin InFlight
  <2>1. status[batch[t][k]] = "retired" /\ link[batch[t][k]] = Last(t)
    BY <1>7 DEF Books, BatchesApart
  <2>2. batch[t][k] \notin InFlight
    BY <1>6, <2>1 DEF Flight
  <2> QED
    BY <2>1, <2>2
<1>10. Assigned(t)'
  BY <1>2, <1>3, <1>8, <1>9 DEF Assigned
<1> QED
  BY <1>2, <1>10 DEF a

\* The first of the assigned nodes is pushed or skipped.
LEMMA AssignedNext ==
  ASSUME TypeInv, Books, NEW t \in Tasks,
         pc[t] \in {"insert", "ins_epoch", "ins_cas"}, rt[t].asg # <<>>,
         NEW n, n = Head(rt[t].asg)[1],
         rt'[t].asg = Tail(rt[t].asg), pc'[t] = "insert",
         UNCHANGED <<status, link, batch>>,
         InFlight' \subseteq InFlight \union {n}
  PROVE  Assigned(t)'
<1> DEFINE a == rt[t].asg
<1>1. /\ Len(a) \in Nat /\ n = a[1][1] /\ Last(t)' = Last(t) /\ 1 \in 1 .. Len(a)
      /\ Len(rt'[t].asg) = Len(a) - 1
      /\ \A k \in 1 .. Len(a) - 1 : rt'[t].asg[k] = a[k + 1]
  BY AssignmentType DEF Last
<1>2. \A k, l \in 1 .. Len(a) : a[k][1] = a[l][1] => k = l
  BY DEF Books, Assigned
<1>3. \A k \in 1 .. Len(a) :
         /\ status[a[k][1]] = "retired" /\ link[a[k][1]] = Last(t)
         /\ a[k][1] \notin InFlight
  BY DEF Books, Assigned
<1> HIDE DEF a
<1>4. \A k \in 1 .. Len(a) - 1 : k + 1 \in 1 .. Len(a) /\ k + 1 # 1
  BY <1>1
<1>5. \A k \in 1 .. Len(a) - 1 : a[k + 1][1] # n
  BY <1>1, <1>2, <1>4
<1>6. ASSUME NEW k \in 1 .. Len(a) - 1, NEW l \in 1 .. Len(a) - 1,
             rt'[t].asg[k][1] = rt'[t].asg[l][1]
      PROVE  k = l
  <2>1. k + 1 = l + 1
    BY <1>1, <1>2, <1>4, <1>6
  <2> QED
    BY <2>1
<1>7. ASSUME NEW k \in 1 .. Len(a) - 1
      PROVE  /\ status[rt'[t].asg[k][1]] = "retired"
             /\ link[rt'[t].asg[k][1]] = Last(t)
             /\ rt'[t].asg[k][1] \notin InFlight'
  BY <1>1, <1>3, <1>4, <1>5
<1> QED
  BY <1>1, <1>6, <1>7 DEF Assigned

\* try_retire looks at the head of a slot and pushes nothing yet.
LEMMA BooksScanFirst ==
  ASSUME TypeInv, Books, NEW t \in Tasks, ScanFirst(t)
  PROVE  Books'
<1>1. /\ pc[t] = "scan" /\ TypeInv
      /\ UNCHANGED <<next, first, work, link, refs, batch, list, status>>
  BY DEF ScanFirst, slots, nodes, batches, clientVars
<1>2. CASE Scanned(t, rt[t].asg)
  <2>1. /\ rt[t].asg \in Seq(Objs \X SlotIds) /\ Len(rt[t].asg) < Len(batch[t])
        /\ \A k \in 1 .. Len(rt[t].asg) : rt[t].asg[k][1] = batch[t][k]
    BY <1>1, AssignmentType DEF TypeInv, RetireControl, Books, Assigned
  <2>2. /\ Assigned(t)' /\ rt'[t].adjs = rt[t].adjs
        /\ \A u \in Tasks \ {t} : pc'[u] = pc[u] /\ rt'[u] = rt[u]
    BY <1>1, <1>2, <2>1, AssignedScanned
  <2> QED
    BY <1>1, <2>2, BooksQuiet
<1>3. CASE Goto(t, "scan_epoch") /\ UNCHANGED rt
  <2>1. pc'[t] = "scan_epoch" /\ \A u \in Tasks \ {t} : pc'[u] = pc[u]
    BY <1>3 DEF Goto, TypeInv, TypeOK
  <2>2. Assigned(t)'
    BY <1>1, <1>3, <2>1 DEF Assigned, Books
  <2> QED
    BY <1>1, <1>3, <2>1, <2>2, BooksQuiet
<1> QED
  BY <1>2, <1>3 DEF ScanFirst

\* try_retire assigns a node to the slot, or none.
LEMMA BooksScanEpoch ==
  ASSUME TypeInv, Books, NEW t \in Tasks, ScanEpoch(t)
  PROVE  Books'
<1> DEFINE k == Len(rt[t].asg) + 1
           s == rt[t].pos
<1>1. /\ pc[t] = "scan_epoch" /\ TypeInv
      /\ UNCHANGED <<next, first, work, link, refs, batch, list, status>>
  BY DEF ScanEpoch, slots, nodes, batches, clientVars
<1>2. /\ rt[t].asg \in Seq(Objs \X SlotIds) /\ Len(rt[t].asg) < Len(batch[t])
      /\ \A i \in 1 .. Len(rt[t].asg) : rt[t].asg[i][1] = batch[t][i]
      /\ Len(rt[t].asg) \in Nat /\ s \in SlotIds
  BY <1>1, AssignmentType DEF TypeInv, RetireControl, Books, Assigned
<1>3. batch[t] \in Seq(Objs) /\ Len(batch[t]) \in Nat
  BY LenProperties DEF TypeInv, TypeOK
<1>4. CASE Scanned(t, rt[t].asg)
  <2>1. /\ Assigned(t)' /\ rt'[t].adjs = rt[t].adjs
        /\ \A u \in Tasks \ {t} : pc'[u] = pc[u] /\ rt'[u] = rt[u]
    BY <1>1, <1>2, <1>4, AssignedScanned
  <2> QED
    BY <1>1, <2>1, BooksQuiet
<1>5. CASE rt' = [rt EXCEPT ![t] = NoRetire] /\ Goto(t, "idle")
  <2>1. /\ pc'[t] = "idle"
        /\ \A u \in Tasks \ {t} : pc'[u] = pc[u] /\ rt'[u] = rt[u]
        /\ rt'[t].adjs = 0
    BY <1>5 DEF Goto, TypeInv, TypeOK, NoRetire
  <2>2. Assigned(t)'
    BY <2>1 DEF Assigned
  <2>3. rt[t].adjs = 0
    BY <1>1 DEF Books, Assigned
  <2> QED
    BY <1>1, <2>1, <2>2, <2>3, BooksQuiet
<1>6. CASE k # Len(batch[t]) /\ Scanned(t, Append(rt[t].asg, <<batch[t][k], s>>))
  <2>1. k \in 1 .. Len(batch[t]) /\ k < Len(batch[t])
    BY <1>2, <1>3, <1>6
  <2>2. <<batch[t][k], s>> \in Objs \X SlotIds
    BY <1>2, <1>3, <2>1, ElementOfSeq
  <2> DEFINE e == <<batch[t][k], s>>
             b == Append(rt[t].asg, e)
  <2>3. e[1] = batch[t][k]
    OBVIOUS
  <2>4. /\ b \in Seq(Objs \X SlotIds) /\ Len(b) = k /\ b[k] = e
        /\ \A i \in 1 .. Len(rt[t].asg) : b[i] = rt[t].asg[i]
    BY <1>2, <2>2, AppendProperties
  <2> HIDE DEF e
  <2>5. \A i \in 1 .. Len(b) : i \in 1 .. Len(rt[t].asg) \/ i = k
    BY <1>2, <2>4
  <2>6. \A i \in 1 .. Len(b) : b[i][1] = batch[t][i]
    BY <1>2, <2>3, <2>4, <2>5
  <2>7. Scanned(t, b)
    BY <1>6 DEF e
  <2> HIDE DEF b
  <2>8. /\ Assigned(t)' /\ rt'[t].adjs = rt[t].adjs
        /\ \A u \in Tasks \ {t} : pc'[u] = pc[u] /\ rt'[u] = rt[u]
    BY <1>1, <2>1, <2>4, <2>6, <2>7, AssignedScanned
  <2> QED
    BY <1>1, <2>8, BooksQuiet
<1> QED
  BY <1>4, <1>5, <1>6 DEF ScanEpoch

\* try_retire has loaded the head p of a slot that it may push on.
LEMMA BooksExpect ==
  ASSUME TypeInv, Books, NEW t \in Tasks, NEW p, Expect(t, p),
         pc[t] \in {"insert", "ins_cas"}, rt[t].asg # <<>>,
         UNCHANGED <<next, first, work, link, refs, batch, list, status>>
  PROVE  Books'
<1>1. InFlight' = InFlight /\ Last(t)' = Last(t)
  BY DEF InFlight, Heads, Walks, Last
<1>2. CASE p = INVPTR
  <2>1. /\ pc'[t] = "insert" /\ rt'[t].asg = Tail(rt[t].asg)
        /\ rt'[t].adjs = rt[t].adjs
        /\ \A u \in Tasks \ {t} : pc'[u] = pc[u] /\ rt'[u] = rt[u]
    <3>1. /\ rt' = [rt EXCEPT ![t].asg = Tail(@)]
          /\ pc' = [pc EXCEPT ![t] = "insert"]
      BY <1>2 DEF Expect, Goto
    <3> QED
      BY <3>1 DEF TypeInv, TypeOK, RetireLocals
  <2>2. Assigned(t)'
    BY <1>1, <2>1, AssignedNext
  <2> QED
    BY <2>1, <2>2, BooksQuiet
<1>3. CASE p # INVPTR
  <2>1. /\ pc'[t] = "ins_epoch" /\ rt'[t].asg = rt[t].asg
        /\ rt'[t].adjs = rt[t].adjs
        /\ \A u \in Tasks \ {t} : pc'[u] = pc[u] /\ rt'[u] = rt[u]
    BY <1>3 DEF Expect, Goto, TypeInv, TypeOK, RetireLocals
  <2>2. Assigned(t)'
    BY <1>1, <2>1 DEF Books, Assigned
  <2> QED
    BY <2>1, <2>2, BooksQuiet
<1> QED
  BY <1>2, <1>3

\* try_retire loads the head that it will push on.
LEMMA BooksInsertLoad ==
  ASSUME TypeInv, Books, NEW t \in Tasks, InsertLoad(t)
  PROVE  Books'
<1>1. /\ pc[t] = "insert" /\ rt[t].asg # <<>>
      /\ UNCHANGED <<next, first, work, link, refs, batch, list, status>>
      /\ \E p : Expect(t, p)
  BY DEF InsertLoad, slots, nodes, batches, clientVars
<1> QED
  BY <1>1, BooksExpect

\* The node that try_retire is about to push.
LEMMA AssignedHead ==
  ASSUME TypeInv, Books, NEW t \in Tasks, pc[t] \in {"insert", "ins_epoch", "ins_cas"},
         rt[t].asg # <<>>,
         NEW n, n = Head(rt[t].asg)[1], NEW s, s = Head(rt[t].asg)[2]
  PROVE  /\ n \in Objs /\ s \in SlotIds /\ n \notin InFlight
         /\ status[n] = "retired" /\ link[n] = Last(t)
         /\ Building(t, Last(t)) /\ Last(t) \in Objs
         /\ \A u \in Tasks \ {t} : batch[u] # <<>> => Last(u) # Last(t)
         /\ n = rt[t].asg[1][1]
         /\ pc[t] = "ins_cas" => next[n] = rt[t].prev
<1>1. 1 \in 1 .. Len(rt[t].asg) /\ n = rt[t].asg[1][1] /\ s = rt[t].asg[1][2]
  BY AssignmentType
<1>2. n \in Objs /\ s \in SlotIds
  BY <1>1, AssignmentType
<1>3. /\ n \notin InFlight /\ status[n] = "retired" /\ link[n] = Last(t)
      /\ pc[t] = "ins_cas" => next[n] = rt[t].prev
  BY <1>1 DEF Books, Assigned
<1>4. TypeOK /\ batch[t] # <<>>
  BY DEF TypeInv, RetireControl, Retiring
<1>5. Building(t, Last(t)) /\ Last(t) \in Objs
  BY <1>4, BuildingType
<1>6. \A u \in Tasks \ {t} : batch[u] # <<>> => Last(u) # Last(t)
  BY <1>4, <1>5, BuildingType DEF Books, BatchesApart
<1> QED
  BY <1>1, <1>2, <1>3, <1>5, <1>6

\* try_retire links the node that it is about to push: no list has it yet.
LEMMA BooksInsertEpoch ==
  ASSUME TypeInv, Books, NEW t \in Tasks, InsertEpoch(t)
  PROVE  Books' /\ InFlight' = InFlight /\ \A s \in SlotIds : Chain(s)' = Chain(s)
<1>1. /\ pc[t] = "ins_epoch" /\ TypeOK /\ rt[t].asg # <<>> /\ rt[t].prev \in Ptrs
      /\ UNCHANGED <<first, work, link, refs, batch, list, status>>
  BY DEF InsertEpoch, slots, batches, clientVars, TypeInv, TypeOK, RetireControl,
         RetireLocals, SlotPtrs, Ptrs
<1> PICK n, s : n = Head(rt[t].asg)[1] /\ s = Head(rt[t].asg)[2]
  OBVIOUS
<1>2. /\ n \in Objs /\ s \in SlotIds /\ n \notin InFlight
      /\ status[n] = "retired" /\ link[n] = Last(t)
      /\ \A u \in Tasks \ {t} : batch[u] # <<>> => Last(u) # Last(t)
      /\ n = rt[t].asg[1][1]
  BY <1>1, AssignedHead
<1>3. CASE Older(t, s)
  <2>1. /\ rt' = [rt EXCEPT ![t].asg = Tail(@)] /\ UNCHANGED next
        /\ pc' = [pc EXCEPT ![t] = "insert"]
    BY <1>3 DEF InsertEpoch, Goto
  <2>2. /\ pc'[t] = "insert" /\ rt'[t].asg = Tail(rt[t].asg)
        /\ rt'[t].adjs = rt[t].adjs
        /\ \A u \in Tasks \ {t} : pc'[u] = pc[u] /\ rt'[u] = rt[u]
    BY <2>1 DEF TypeInv, TypeOK, RetireLocals
  <2>3. InFlight' = InFlight /\ \A z \in SlotIds : Chain(z)' = Chain(z)
    BY <1>1, <2>1, ListsUnchanged DEF Books
  <2>4. Assigned(t)'
    BY <1>1, <2>2, <2>3, AssignedNext
  <2>5. Books'
    BY <1>1, <2>1, <2>2, <2>4, BooksQuiet
  <2> QED
    BY <2>3, <2>5
<1>4. CASE ~Older(t, s)
  <2>1. /\ next' = [next EXCEPT ![n] = rt[t].prev] /\ rt' = rt
        /\ pc' = [pc EXCEPT ![t] = "ins_cas"]
    BY <1>4 DEF InsertEpoch, Goto
  <2>2. /\ OnePointer' /\ InFlight' = InFlight
        /\ \A z \in SlotIds : Chain(z)' = Chain(z)
        /\ \A m \in InFlight : next'[m] = next[m]
    BY <1>1, <1>2, <2>1, ListsLink DEF Books
  <2>3. BatchesApart' /\ WalkSafe' /\ Counted' /\ Queued'
    <3>1. {} \in SUBSET Objs /\ \A u \in Tasks : list'[u] = list[u] \ {}
      BY <1>1
    <3> QED
      BY <1>1, <2>1, <2>2, <3>1, BooksKept
  <2>4. pc'[t] = "ins_cas" /\ \A u \in Tasks \ {t} : pc'[u] = pc[u]
    BY <1>1, <2>1 DEF TypeOK
  <2>5. ASSUME NEW u \in Tasks PROVE Assigned(u)'
    <3>1. CASE u = t
      <4>1. next'[n] = rt[t].prev
        BY <1>1, <1>2, <2>1 DEF TypeOK
      <4>2. Last(t)' = Last(t)
        BY <1>1 DEF Last
      <4> QED
        BY <1>1, <1>2, <2>1, <2>2, <2>4, <3>1, <4>1, <4>2 DEF Assigned, Books
    <3>2. CASE u # t /\ batch[u] = <<>>
      <4>1. pc[u] \notin Retiring
        BY <3>2 DEF TypeInv, RetireControl
      <4> QED
        BY <2>4, <3>2, <4>1 DEF Assigned, Retiring
    <3>3. CASE u # t /\ batch[u] # <<>>
      <4>1. \A o \in Objs : link[o] = Last(u) => next'[o] = next[o]
        BY <1>1, <1>2, <2>1, <3>3 DEF TypeOK
      <4> QED
        BY <1>1, <2>1, <2>2, <2>4, <3>3, <4>1, AssignedKept DEF Books
    <3> QED
      BY <3>1, <3>2, <3>3
  <2> QED
    BY <2>2, <2>3, <2>5 DEF Books
<1> QED
  BY <1>3, <1>4

\* The push of a node on the list of a slot.
LEMMA BooksPush ==
  ASSUME TypeInv, Books, NEW t \in Tasks, InsertCas(t),
         NEW n, n = Head(rt[t].asg)[1], NEW s, s = Head(rt[t].asg)[2],
         At(s) = rt[t].prev
  PROVE  /\ Books' /\ InFlight' = InFlight \union {n}
         /\ \A z \in SlotIds \ {s} : Chain(z)' = Chain(z)
         /\ Chain(s)' = Chain(s) \union {n} /\ At(s) # INVPTR
         /\ At(s)' = n /\ \A z \in SlotIds \ {s} : At(z)' = At(z)
<1> PICK r : r = Last(t)
  OBVIOUS
<1>1. /\ pc[t] = "ins_cas" /\ TypeOK /\ rt[t].asg # <<>> /\ rt[t].prev # INVPTR
      /\ UNCHANGED <<next, work, link, refs, batch, list, status>>
  BY DEF InsertCas, nodes, batches, clientVars, TypeInv, RetireControl
<1>2. /\ n \in Objs /\ s \in SlotIds /\ n \notin InFlight
      /\ status[n] = "retired" /\ link[n] = r
      /\ Building(t, r) /\ r \in Objs
      /\ \A u \in Tasks \ {t} : batch[u] # <<>> => Last(u) # r
      /\ next[n] = rt[t].prev
  BY <1>1, AssignedHead
<1>3. /\ first' = [first EXCEPT ![s[1]][s[2]] = n]
      /\ rt' = [rt EXCEPT ![t].asg = Tail(@), ![t].adjs = @ + 1]
      /\ pc' = [pc EXCEPT ![t] = "insert"]
  BY DEF InsertCas, Goto, At
<1>4. /\ pc'[t] = "insert" /\ rt'[t].asg = Tail(rt[t].asg)
      /\ rt'[t].adjs = rt[t].adjs + 1
      /\ \A u \in Tasks \ {t} : pc'[u] = pc[u] /\ rt'[u] = rt[u]
  BY <1>1, <1>3 DEF TypeOK, RetireLocals
<1>5. /\ OnePointer' /\ InFlight' = InFlight \union {n}
      /\ \A z \in SlotIds \ {s} : Chain(z)' = Chain(z) /\ At(z)' = At(z)
      /\ At(s)' = n /\ Chain(s)' = Chain(s) \union {n}
  BY <1>1, <1>2, <1>3, ListsPush DEF Books
<1>6. /\ \A u \in Tasks : \A q : Building(u, q)' <=> Building(u, q)
      /\ \A u \in Tasks : Last(u)' = Last(u)
      /\ \A q : IsBatch(q)' <=> IsBatch(q)
  BY <1>1 DEF Building, Last, IsBatch
<1>7. BatchesApart' /\ WalkSafe' /\ Queued'
  <2>1. BatchesApart'
    BY <1>1, <1>6 DEF Books, BatchesApart
  <2>2. WalkSafe'
    BY <1>1, <1>2, <1>5 DEF Books, WalkSafe
  <2>3. Queued'
    BY <1>1, <1>6 DEF Books, Queued
  <2> QED
    BY <2>1, <2>2, <2>3
<1>8. Counted'
  <2>1. \A q : q # r => Flight(q)' = Flight(q)
    BY <1>1, <1>2, <1>5 DEF Flight
  <2>2. Flight(r)' = Flight(r) \union {n} /\ n \notin Flight(r)
    BY <1>1, <1>2, <1>5 DEF Flight
  <2>3. IsFiniteSet(Flight(r)) /\ Cardinality(Flight(r)) \in Nat
    BY <1>1, FlightFinite
  <2>4. Cardinality(Flight(r)') = Cardinality(Flight(r)) + 1
    <3>1. Cardinality(Flight(r) \union {n}) = Cardinality(Flight(r)) + 1
      BY <2>2, <2>3, FS_AddElement
    <3> QED
      BY <2>2, <3>1
  <2>5. \A u \in Tasks \ {t} : ~Building(u, r)
    BY <1>1, <1>2, BuildingType
  <2>6. rt[t].adjs \in Nat
    BY AssignmentType
  <2>7. ASSUME NEW q \in Objs, IsBatch(q), NEW u \in Tasks, Building(u, q)
        PROVE  refs[q] = Cardinality(Flight(q)') - rt'[u].adjs /\ refs[q] <= 0
    <3>1. refs[q] = Cardinality(Flight(q)) - rt[u].adjs /\ refs[q] <= 0
      BY <2>7 DEF Books, Counted
    <3>2. CASE q = r
      BY <1>4, <2>3, <2>4, <2>5, <2>6, <2>7, <3>1, <3>2
    <3>3. CASE q # r
      <4>1. u # t
        BY <1>1, <2>7, <3>3, BuildingType
      <4> QED
        BY <1>4, <2>1, <3>1, <3>3, <4>1
    <3> QED
      BY <3>2, <3>3
  <2>8. ASSUME NEW q \in Objs, IsBatch(q), \A u \in Tasks : ~Building(u, q)
        PROVE  /\ refs[q] = Cardinality(Flight(q)')
               /\ refs[q] = 0 => \E u \in Tasks : q \in list[u]
    <3>1. q # r
      BY <1>2, <2>8
    <3> QED
      BY <2>1, <2>8, <3>1 DEF Books, Counted
  <2> QED
    BY <1>1, <1>6, <2>7, <2>8 DEF Counted
<1>9. ASSUME NEW u \in Tasks PROVE Assigned(u)'
  <2>1. CASE u = t
    BY <1>1, <1>4, <1>5, <2>1, AssignedNext
  <2>2. CASE u # t
    BY <1>1, <1>2, <1>4, <1>5, <2>2, AssignedKept DEF Books
  <2> QED
    BY <2>1, <2>2
<1> QED
  BY <1>1, <1>2, <1>5, <1>7, <1>8, <1>9 DEF Books

\* The compare-and-swap pushes a node, or starts over.
LEMMA BooksInsertCas ==
  ASSUME TypeInv, Books, NEW t \in Tasks, InsertCas(t)
  PROVE  Books'
<1> PICK n, s : n = Head(rt[t].asg)[1] /\ s = Head(rt[t].asg)[2]
  OBVIOUS
<1>1. CASE At(s) = rt[t].prev
  BY <1>1, BooksPush
<1>2. CASE At(s) # rt[t].prev
  <2>1. /\ pc[t] = "ins_cas" /\ rt[t].asg # <<>> /\ Expect(t, At(s))
        /\ UNCHANGED <<next, first, work, link, refs, batch, list, status>>
    BY <1>2 DEF InsertCas, At, nodes, batches, clientVars, TypeInv, RetireControl
  <2> QED
    BY <2>1, BooksExpect
<1> QED
  BY <1>1, <1>2

\* try_retire settles the counter of its batch.
LEMMA BooksAdjust ==
  ASSUME TypeInv, Books, NEW t \in Tasks, Adjust(t), NEW r, r = Last(t)
  PROVE  /\ Books' /\ InFlight' = InFlight
         /\ \A s \in SlotIds : Chain(s)' = Chain(s)
         /\ IsBatch(r) /\ Building(t, r) /\ r \in Objs
         /\ AllReleased(r, rt[t].adjs) => Flight(r) = {}
         /\ \A u \in Tasks : \A q : Building(u, q)' <=> u # t /\ Building(u, q)
         /\ FreeList(IF AllReleased(r, rt[t].adjs) THEN {r} ELSE {})
<1> DEFINE R == IF AllReleased(r, rt[t].adjs) THEN {r} ELSE {}
<1>1. /\ pc[t] = "insert" /\ TypeOK /\ batch[t] # <<>>
      /\ refs' = [refs EXCEPT ![r] = @ + rt[t].adjs]
      /\ FreeList(R)
      /\ batch' = [batch EXCEPT ![t] = <<>>]
      /\ rt' = [rt EXCEPT ![t] = NoRetire]
      /\ pc' = [pc EXCEPT ![t] = "idle"]
      /\ UNCHANGED <<first, next, work, link, list>>
  BY DEF Adjust, Goto, Last, slots, TypeInv, RetireControl, Retiring
<1>2. Building(t, r) /\ IsBatch(r) /\ r \in Objs /\ rt[t].adjs \in Nat
  BY <1>1, BuildingType, BuildingBatch, AssignmentType DEF Books
<1>3. /\ refs[r] = Cardinality(Flight(r)) - rt[t].adjs
      /\ IsFiniteSet(Flight(r)) /\ Cardinality(Flight(r)) \in Nat
  BY <1>1, <1>2, FlightFinite DEF Books, Counted
<1>4. AllReleased(r, rt[t].adjs) <=> Cardinality(Flight(r)) = 0
  BY <1>2, <1>3 DEF AllReleased
<1>5. AllReleased(r, rt[t].adjs) => Flight(r) = {}
  BY <1>3, <1>4, FS_EmptySet
<1>6. refs'[r] = Cardinality(Flight(r)) /\ \A q \in Objs \ {r} : refs'[q] = refs[q]
  BY <1>1, <1>2, <1>3 DEF TypeOK
<1>7. \A u \in Tasks \ {t} : batch'[u] = batch[u] /\ pc'[u] = pc[u] /\ rt'[u] = rt[u]
  BY <1>1 DEF TypeOK
<1>8. batch'[t] = <<>> /\ pc'[t] = "idle"
  BY <1>1 DEF TypeOK
<1>9. \A u \in Tasks : \A q : Building(u, q)' <=> u # t /\ Building(u, q)
  BY <1>7, <1>8 DEF Building
<1>10. \A u \in Tasks \ {t} : /\ ~Building(u, r) /\ Last(u)' = Last(u)
                              /\ batch[u] # <<>> => Last(u) # r
  BY <1>1, <1>2, <1>7, BuildingType DEF Books, BatchesApart, Last
<1>11. /\ OnePointer' /\ InFlight' = InFlight
       /\ \A s \in SlotIds : Chain(s)' = Chain(s)
  BY <1>1, ListsUnchanged DEF Books
<1>12. \A q : Flight(q)' = Flight(q)
  BY <1>1, <1>11 DEF Flight
<1>13. R \subseteq {r} /\ (R # {} => Flight(r) = {}) /\ (r \notin R => Cardinality(Flight(r)) # 0)
  BY <1>4, <1>5
<1> HIDE DEF R
<1>14. \A o \in Objs : status'[o] = "retired" <=> status[o] = "retired" /\ link[o] \notin R
  BY <1>1 DEF FreeList, Free, Members
<1>15. \A q \in Objs : IsBatch(q)' <=> IsBatch(q) /\ q \notin R
  BY <1>1, <1>14 DEF IsBatch
<1>16. BatchesApart'
  <2>1. ASSUME NEW u \in Tasks \ {t}, NEW k \in 1 .. Len(batch[u])
        PROVE  status'[batch[u][k]] = "retired" /\ link[batch[u][k]] = Last(u)
    <3>1. /\ batch[u][k] \in Objs
          /\ status[batch[u][k]] = "retired" /\ link[batch[u][k]] = Last(u)
      BY <1>1, BuildingType DEF Books, BatchesApart
    <3>2. batch[u] # <<>>
      BY EmptySeq
    <3> QED
      BY <1>10, <1>13, <1>14, <3>1, <3>2
  <2>2. ASSUME NEW o \in Objs, status'[o] = "retired" PROVE IsBatch(link[o])'
    <3>1. link[o] \in Objs /\ link[o] \notin R /\ IsBatch(link[o])
      BY <1>1, <1>14, <2>2 DEF Books, BatchesApart, TypeOK
    <3> QED
      BY <1>1, <1>14, <3>1 DEF IsBatch
  <2>3. \A k \in 1 .. Len(batch'[t]) : FALSE
    BY <1>8
  <2>4. \A u \in Tasks \ {t} : \A k, l \in 1 .. Len(batch[u]) :
           batch[u][k] = batch[u][l] => k = l
    BY DEF Books, BatchesApart
  <2>5. \A q \in Objs, u, v \in Tasks : Building(u, q)' /\ Building(v, q)' => u = v
    BY <1>9 DEF Books, BatchesApart
  <2> QED
    BY <1>1, <1>7, <1>10, <2>1, <2>2, <2>3, <2>4, <2>5 DEF BatchesApart
<1>17. WalkSafe'
  <2>1. \A n \in InFlight : n \in Objs /\ status[n] = "retired" /\ link[n] \notin R
    BY <1>1, <1>13, FlightType DEF Books, WalkSafe, Flight
  <2> QED
    BY <1>11, <1>14, <2>1 DEF WalkSafe
<1>18. Counted'
  <2>1. ASSUME NEW q \in Objs, IsBatch(q)', NEW u \in Tasks, Building(u, q)'
        PROVE  refs'[q] = Cardinality(Flight(q)) - rt'[u].adjs /\ refs'[q] <= 0
    <3>1. u # t /\ Building(u, q) /\ q # r /\ IsBatch(q)
      BY <1>9, <1>10, <1>15, <2>1
    <3> QED
      BY <1>6, <1>7, <3>1 DEF Books, Counted
  <2>2. ASSUME NEW q \in Objs, IsBatch(q)', \A u \in Tasks : ~Building(u, q)'
        PROVE  /\ refs'[q] = Cardinality(Flight(q))
               /\ refs'[q] = 0 => \E u \in Tasks : q \in list[u]
    <3>1. CASE q = r
      BY <1>6, <1>13, <1>15, <2>2, <3>1
    <3>2. CASE q # r
      <4>1. \A u \in Tasks : ~Building(u, q)
        BY <1>1, <1>9, <2>2, <3>2, BuildingType
      <4> QED
        BY <1>6, <1>15, <2>2, <3>2, <4>1 DEF Books, Counted
    <3> QED
      BY <3>1, <3>2
  <2> QED
    BY <1>1, <1>12, <2>1, <2>2 DEF Counted
<1>19. Queued'
  <2>1. ASSUME NEW u \in Tasks, NEW q \in list[u]
        PROVE  IsBatch(q)' /\ refs'[q] = 0 /\ \A v \in Tasks : ~Building(v, q)'
    <3>1. IsBatch(q) /\ refs[q] = 0 /\ (\A v \in Tasks : ~Building(v, q)) /\ q \in Objs
      BY <1>1 DEF Books, Queued, TypeOK
    <3>2. q # r
      BY <1>2, <3>1
    <3> QED
      BY <1>6, <1>9, <1>13, <1>15, <3>1, <3>2
  <2> QED
    BY <1>1, <2>1 DEF Books, Queued
<1>20. ASSUME NEW u \in Tasks PROVE Assigned(u)'
  <2>1. CASE u = t
    BY <1>8, <2>1 DEF Assigned
  <2>2. CASE u # t /\ batch[u] = <<>>
    <3>1. pc[u] \notin Retiring
      BY <2>2 DEF TypeInv, RetireControl
    <3> QED
      BY <1>7, <2>2, <3>1 DEF Assigned, Retiring
  <2>3. CASE u # t /\ batch[u] # <<>>
    <3>1. Last(u) \notin R
      BY <1>10, <1>13, <2>3
    <3> QED
      BY <1>1, <1>7, <1>11, <1>14, <2>3, <3>1, AssignedKept DEF Books
  <2> QED
    BY <2>1, <2>2, <2>3
<1> QED
  BY <1>1, <1>2, <1>5, <1>9, <1>11, <1>16, <1>17, <1>18, <1>19, <1>20 DEF Books, R

-----------------------------------------------------------------------------
\* The operation that a thread is in, and what it has given up for it.
ReadFlow ==
    \A t \in Tasks :
        /\ rd[t].op = "none" <=> pc[t] \in {"idle", "birth"} \union Retiring
        /\ rd[t].op = "clear" => pc[t] \in {"clear", "trav", "drop", "free"}
        /\ pc[t] \in {"clear", "free"} => rd[t].op = "clear"
        /\ rd[t].op \in {"read", "reserve"} => held[t][rd[t].idx] = NULL
        /\ rd[t].op = "clear" => \A j \in Idx : held[t][j] = NULL

Flow == WorkControl /\ ReadFlow

\* What a step may not change behind the back of a thread.
FlowOf(t) ==
    /\ rd[t].op = "none" <=> pc[t] \in {"idle", "birth"} \union Retiring
    /\ rd[t].op = "clear" => pc[t] \in {"clear", "trav", "drop", "free"}
    /\ pc[t] \in {"clear", "free"} => rd[t].op = "clear"
    /\ rd[t].op \in {"read", "reserve"} => held[t][rd[t].idx] = NULL
    /\ rd[t].op = "clear" => \A j \in Idx : held[t][j] = NULL
    /\ work[t] # <<>> => pc[t] \in {"trav", "drop", "clear"}
    /\ pc[t] = "upd_null" \/ (pc[t] \in {"trav", "drop"} /\ rd[t].op # "clear") =>
          first[t][rd[t].idx] = INVPTR

\* Flow, thread by thread.
LEMMA FlowIs == Flow <=> \A t \in Tasks : FlowOf(t)
BY DEF Flow, FlowOf, WorkControl, ReadFlow

\* A step of thread t that leaves the others alone; only t itself activates a
\* slot of its own.
LEMMA FlowOthers ==
  ASSUME Flow, NEW t \in Tasks, FlowOf(t)',
         \A u \in Tasks \ {t} :
            /\ UNCHANGED <<rd[u], pc[u], held[u], work[u]>>
            /\ \A j \in Idx : first[u][j] = INVPTR => first'[u][j] = INVPTR,
         \A u \in Tasks : rd[u].idx \in Idx
  PROVE  Flow'
<1>1. ASSUME NEW u \in Tasks, u # t PROVE FlowOf(u)'
  BY <1>1, FlowIs DEF FlowOf
<1>2. \A u \in Tasks : FlowOf(u)'
  BY <1>1
<1> QED
  BY <1>2 DEF Flow, FlowOf, WorkControl, ReadFlow

\* Most steps touch no slot.
LEMMA FlowSame ==
  ASSUME TypeInv, Flow, NEW t \in Tasks, FlowOf(t)', UNCHANGED first,
         \A u \in Tasks \ {t} : UNCHANGED <<rd[u], pc[u], held[u], work[u]>>
  PROVE  Flow'
<1>1. \A u \in Tasks : rd[u].idx \in Idx
  BY DEF TypeInv, TypeOK, ReadLocals
<1> QED
  BY <1>1, FlowOthers

\* Steps outside the calls that read and retire.
LEMMA FlowAlloc ==
  ASSUME TypeInv, Flow, NEW t \in Tasks, AllocCount(t) \/ AllocBirth(t) \/ Rideable(t)
  PROVE  Flow'
<1>1. /\ pc[t] \in {"idle", "birth"} /\ pc'[t] \in {"idle", "birth"}
      /\ \A u \in Tasks \ {t} : pc'[u] = pc[u]
      /\ UNCHANGED <<rd, held, work, first>>
  BY DEF AllocCount, AllocBirth, Rideable, Goto, given, slots, TypeInv, TypeOK
<1>2. FlowOf(t)
  BY FlowIs
<1>3. FlowOf(t)'
  BY <1>1, <1>2 DEF FlowOf
<1> QED
  BY <1>1, <1>3, FlowSame

\* The references of a slot are given up.
LEMMA ForgetHeld ==
  ASSUME TypeInv, NEW t \in Tasks, NEW J, Forget(t, J)
  PROVE  /\ \A j \in Idx : held'[t][j] = IF j \in J THEN NULL ELSE held[t][j]
         /\ \A u \in Tasks \ {t} : held'[u] = held[u]
BY DEF Forget, TypeInv, TypeOK

\* read and reserve_slot give the reference of their slot up first.
LEMMA FlowBegin ==
  ASSUME TypeInv, Flow, NEW t \in Tasks, NEW c \in Cells, NEW j \in Idx,
         Read(t, c, j) \/ Reserve(t, c, j)
  PROVE  Flow'
<1>1. /\ Forget(t, {j}) /\ pc[t] = "idle"
      /\ pc' = [pc EXCEPT ![t] = "check"]
      /\ UNCHANGED <<work, first>>
      /\ \E op \in {"read", "reserve"} :
            rd' = [rd EXCEPT ![t] = [op |-> op, idx |-> j, src |-> c,
                                     ptr |-> cell[c], curr |-> 0, succ |-> NULL]]
  BY DEF Read, Reserve, Goto, slots
<1>2. /\ pc'[t] = "check" /\ rd'[t].op \in {"read", "reserve"} /\ rd'[t].idx = j
      /\ \A u \in Tasks \ {t} : pc'[u] = pc[u] /\ rd'[u] = rd[u]
  BY <1>1 DEF TypeInv, TypeOK
<1>3. held'[t][j] = NULL /\ \A u \in Tasks \ {t} : held'[u] = held[u]
  BY <1>1, ForgetHeld
<1>4. FlowOf(t)
  BY FlowIs
<1>5. FlowOf(t)'
  BY <1>1, <1>2, <1>3, <1>4 DEF FlowOf, Retiring
<1> QED
  BY <1>1, <1>2, <1>3, <1>5, FlowSame

\* Steps of the loop of read and reserve_slot.
LEMMA FlowRead ==
  ASSUME TypeInv, Flow, NEW t \in Tasks,
         ReadLoad(t) \/ UpdReload(t) \/ UpdEpoch(t)
  PROVE  Flow'
<1>1. /\ pc[t] \in {"load", "upd_reload", "upd_epoch"}
      /\ pc'[t] \in {"check", "upd_epoch", "load"}
      /\ rd'[t].op = rd[t].op /\ rd'[t].idx = rd[t].idx
      /\ UNCHANGED <<held, work, first>>
      /\ \A u \in Tasks \ {t} : pc'[u] = pc[u] /\ rd'[u] = rd[u]
  BY DEF ReadLoad, UpdReload, UpdEpoch, Goto, given, slots, TypeInv, TypeOK, ReadLocals
<1>2. FlowOf(t) /\ rd[t].op \in {"none", "read", "reserve", "clear"}
  BY FlowIs DEF TypeInv, TypeOK, ReadLocals
<1>3. FlowOf(t)'
  BY <1>1, <1>2 DEF FlowOf, Retiring
<1> QED
  BY <1>1, <1>3, FlowSame

\* read returns, or goes to do_update.
LEMMA FlowReturn ==
  ASSUME TypeInv, Flow, NEW t \in Tasks, CheckEpoch(t) \/ Validate(t)
  PROVE  Flow'
<1>1. /\ pc[t] \in {"check", "validate"}
      /\ UNCHANGED <<work, first>>
      /\ \A u \in Tasks \ {t} : pc'[u] = pc[u] /\ rd'[u] = rd[u] /\ held'[u] = held[u]
      /\ \/ /\ pc'[t] \in {"upd", "validate"} /\ held'[t] = held[t]
            /\ rd'[t].op = rd[t].op /\ rd'[t].idx = rd[t].idx
         \/ pc'[t] = "idle" /\ rd'[t] = NoRead
  <2>1. /\ pc \in [Tasks -> PC] /\ rd \in [Tasks -> ReadLocals]
        /\ held \in [Tasks -> [Idx -> Ptrs]]
    BY DEF TypeInv, TypeOK
  <2>2. CASE CheckEpoch(t)
    BY <2>1, <2>2 DEF CheckEpoch, Goto, given, slots, ReadLocals
  <2>3. CASE Validate(t)
    BY <2>1, <2>3 DEF Validate, Goto, given, slots
  <2> QED
    BY <2>2, <2>3
<1>2. FlowOf(t) /\ rd[t].op \in {"none", "read", "reserve", "clear"}
  BY FlowIs DEF TypeInv, TypeOK, ReadLocals
<1>3. FlowOf(t)'
  BY <1>1, <1>2 DEF FlowOf, Retiring, NoRead
<1> QED
  BY <1>1, <1>3, FlowSame

\* The slot whose list do_update walks is inactive.
LEMMA FlowUpdDetach ==
  ASSUME TypeInv, Flow, NEW t \in Tasks, UpdDetach(t)
  PROVE  Flow'
<1> PICK j \in Idx : j = rd[t].idx
  BY DEF TypeInv, TypeOK, ReadLocals
<1> DEFINE old == first[t][j]
<1>1. /\ pc[t] = "upd" /\ UNCHANGED <<rd, held>>
      /\ work' = [work EXCEPT ![t] = IF old \in Objs THEN <<old>> ELSE <<>>]
      /\ \/ pc' = [pc EXCEPT ![t] = "upd_epoch"] /\ UNCHANGED first /\ old = NULL
         \/ /\ pc' = [pc EXCEPT ![t] = IF old \in Objs THEN "trav" ELSE "upd_null"]
            /\ first' = [first EXCEPT ![t][j] = INVPTR]
  BY DEF UpdDetach, Goto, given
<1> HIDE DEF old
<1>2. /\ \A u \in Tasks \ {t} : pc'[u] = pc[u] /\ work'[u] = work[u] /\ first'[u] = first[u]
      /\ \/ pc'[t] = "upd_epoch" /\ work'[t] = <<>>
         \/ pc'[t] = "trav" /\ first'[t][j] = INVPTR
         \/ pc'[t] = "upd_null" /\ first'[t][j] = INVPTR /\ work'[t] = <<>>
  BY <1>1, ClientAssumption DEF TypeInv, TypeOK
<1>3. FlowOf(t) /\ rd[t].op \in {"none", "read", "reserve", "clear"}
  BY FlowIs DEF TypeInv, TypeOK, ReadLocals
<1>4. FlowOf(t)'
  BY <1>1, <1>2, <1>3 DEF FlowOf, Retiring
<1>5. \A u \in Tasks : rd[u].idx \in Idx
  BY DEF TypeInv, TypeOK, ReadLocals
<1> QED
  BY <1>1, <1>2, <1>4, <1>5, FlowOthers

\* The walk is over when do_update opens the slot again.
LEMMA FlowUpdNull ==
  ASSUME TypeInv, Flow, NEW t \in Tasks, UpdNull(t)
  PROVE  Flow'
<1> PICK j \in Idx : j = rd[t].idx
  BY DEF TypeInv, TypeOK, ReadLocals
<1>1. /\ pc[t] = "upd_null" /\ UNCHANGED <<rd, held, work>>
      /\ first' = [first EXCEPT ![t][j] = NULL]
      /\ pc' = [pc EXCEPT ![t] = "upd_reload"]
  BY DEF UpdNull, Goto, given
<1>2. /\ \A u \in Tasks \ {t} : pc'[u] = pc[u] /\ first'[u] = first[u]
      /\ pc'[t] = "upd_reload"
  BY <1>1 DEF TypeInv, TypeOK
<1>3. FlowOf(t) /\ rd[t].op \in {"none", "read", "reserve", "clear"}
  BY FlowIs DEF TypeInv, TypeOK, ReadLocals
<1>4. FlowOf(t)'
  BY <1>1, <1>2, <1>3 DEF FlowOf, Retiring
<1>5. \A u \in Tasks : rd[u].idx \in Idx
  BY DEF TypeInv, TypeOK, ReadLocals
<1> QED
  BY <1>1, <1>2, <1>4, <1>5, FlowOthers

\* traverse goes on until its lists are empty.
LEMMA FlowTraverse ==
  ASSUME TypeInv, Flow, NEW t \in Tasks, Traverse(t)
  PROVE  Flow'
<1>1. /\ UNCHANGED <<held, first>>
      /\ pc[t] \in {"trav", "drop"} /\ rd'[t].op = rd[t].op /\ rd'[t].idx = rd[t].idx
      /\ \A u \in Tasks \ {t} : rd'[u] = rd[u]
      /\ \/ pc' = [pc EXCEPT ![t] = "drop"] /\ UNCHANGED work
         \/ \E rest :
               /\ work' = [work EXCEPT ![t] = rest]
               /\ pc' = [pc EXCEPT ![t] = IF rest # <<>> THEN "trav"
                           ELSE IF rd[t].op = "clear" THEN "free" ELSE "upd_null"]
  <2>1. rd \in [Tasks -> ReadLocals]
    BY DEF TypeInv, TypeOK
  <2>2. CASE TravLoad(t)
    BY <2>1, <2>2 DEF TravLoad, Goto, given, slots, ReadLocals
  <2>3. CASE TravDrop(t)
    BY <2>1, <2>3 DEF TravDrop, WalkOn, Goto, given, slots, ReadLocals
  <2> QED
    BY <2>2, <2>3 DEF Traverse
<1>2. /\ \A u \in Tasks \ {t} : pc'[u] = pc[u] /\ work'[u] = work[u]
      /\ \/ pc'[t] \in {"trav", "drop"}
         \/ pc'[t] = "free" /\ rd[t].op = "clear" /\ work'[t] = <<>>
         \/ pc'[t] = "upd_null" /\ rd[t].op # "clear" /\ work'[t] = <<>>
  BY <1>1 DEF TypeInv, TypeOK
<1>3. FlowOf(t) /\ rd[t].op \in {"none", "read", "reserve", "clear"}
  BY FlowIs DEF TypeInv, TypeOK, ReadLocals
<1>4. FlowOf(t)'
  BY <1>1, <1>2, <1>3 DEF FlowOf, Retiring
<1> QED
  BY <1>1, <1>2, <1>4, FlowSame

\* clear_all gives all references up first.
LEMMA FlowClear ==
  ASSUME TypeInv, Flow, NEW t \in Tasks, Clear(t)
  PROVE  Flow'
<1>1. /\ Forget(t, Idx) /\ pc[t] = "idle"
      /\ pc' = [pc EXCEPT ![t] = "clear"]
      /\ UNCHANGED <<work, first>>
      /\ rd' = [rd EXCEPT ![t] = [NoRead EXCEPT !.op = "clear"]]
  BY DEF Clear, Goto, slots
<1>2. /\ pc'[t] = "clear" /\ rd'[t].op = "clear"
      /\ \A u \in Tasks \ {t} : pc'[u] = pc[u] /\ rd'[u] = rd[u]
  BY <1>1 DEF TypeInv, TypeOK, NoRead
<1>3. /\ \A j \in Idx : held'[t][j] = NULL
      /\ \A u \in Tasks \ {t} : held'[u] = held[u]
  BY <1>1, ForgetHeld
<1>4. FlowOf(t)
  BY FlowIs
<1>5. FlowOf(t)'
  BY <1>1, <1>2, <1>3, <1>4 DEF FlowOf, Retiring
<1> QED
  BY <1>1, <1>2, <1>3, <1>5, FlowSame

\* clear_all collects the lists before it walks them.
LEMMA FlowClearSlot ==
  ASSUME TypeInv, Flow, NEW t \in Tasks, ClearSlot(t)
  PROVE  Flow'
<1> PICK j \in Idx : j = rd[t].idx
  BY DEF TypeInv, TypeOK, ReadLocals
<1> PICK todo : todo = IF first[t][j] \in Objs THEN Append(work[t], first[t][j]) ELSE work[t]
  OBVIOUS
<1>1. /\ pc[t] = "clear" /\ UNCHANGED held
      /\ first' = [first EXCEPT ![t][j] = INVPTR]
      /\ work' = [work EXCEPT ![t] = todo]
      /\ \/ rd' = [rd EXCEPT ![t].idx = j + 1] /\ UNCHANGED pc
         \/ /\ pc' = [pc EXCEPT ![t] = IF todo = <<>> THEN "free" ELSE "trav"]
            /\ UNCHANGED rd
  BY DEF ClearSlot, Goto, given
<1>2. /\ \A u \in Tasks \ {t} : /\ pc'[u] = pc[u] /\ first'[u] = first[u]
                                /\ work'[u] = work[u] /\ rd'[u] = rd[u]
      /\ rd'[t].op = rd[t].op
      /\ \/ pc'[t] \in {"clear", "trav"}
         \/ pc'[t] = "free" /\ work'[t] = <<>>
  BY <1>1 DEF TypeInv, TypeOK, ReadLocals
<1>3. FlowOf(t) /\ rd[t].op = "clear"
  BY <1>1, FlowIs DEF FlowOf
<1>4. FlowOf(t)'
  BY <1>1, <1>2, <1>3 DEF FlowOf, Retiring
<1>5. \A u \in Tasks : rd[u].idx \in Idx
  BY DEF TypeInv, TypeOK, ReadLocals
<1> QED
  BY <1>1, <1>2, <1>4, <1>5, FlowOthers

\* clear_all ends.
LEMMA FlowClearFree ==
  ASSUME TypeInv, Flow, NEW t \in Tasks, ClearFree(t)
  PROVE  Flow'
<1>1. /\ pc[t] = "free" /\ UNCHANGED <<held, work, first>>
      /\ pc'[t] = "idle" /\ rd'[t] = NoRead
      /\ \A u \in Tasks \ {t} : pc'[u] = pc[u] /\ rd'[u] = rd[u]
  BY DEF ClearFree, Goto, given, slots, TypeInv, TypeOK
<1>2. FlowOf(t)
  BY FlowIs
<1>3. FlowOf(t)'
  BY <1>1, <1>2 DEF FlowOf, Retiring, NoRead
<1> QED
  BY <1>1, <1>3, FlowSame

\* Steps from one place of try_retire to another.
LEMMA FlowRetiring ==
  ASSUME TypeInv, Flow, NEW t \in Tasks, pc[t] \in {"idle"} \union Retiring,
         NEW l \in {"idle"} \union Retiring, pc' = [pc EXCEPT ![t] = l],
         UNCHANGED <<rd, held, work>>,
         \A u \in Tasks, j \in Idx : first[u][j] = INVPTR => first'[u][j] = INVPTR
  PROVE  Flow'
<1>1. pc'[t] = l /\ \A u \in Tasks \ {t} : pc'[u] = pc[u]
  BY DEF TypeInv, TypeOK
<1>2. FlowOf(t)
  BY FlowIs
<1>3. FlowOf(t)'
  BY <1>1, <1>2 DEF FlowOf, Retiring
<1>4. \A u \in Tasks : rd[u].idx \in Idx
  BY DEF TypeInv, TypeOK, ReadLocals
<1> QED
  BY <1>1, <1>3, <1>4, FlowOthers

\* Steps of retire and try_retire: the thread reads nothing meanwhile.
LEMMA FlowRetire ==
  ASSUME TypeInv, Books, Flow, NEW t \in Tasks,
         \/ Retire(t) \/ ScanFirst(t) \/ ScanEpoch(t)
         \/ InsertLoad(t) \/ InsertEpoch(t) \/ InsertCas(t) \/ Adjust(t)
  PROVE  Flow'
<1>1. /\ pc[t] \in {"idle"} \union Retiring /\ UNCHANGED <<rd, held, work>>
  BY DEF Retire, ScanFirst, ScanEpoch, InsertLoad, InsertEpoch, InsertCas, Adjust,
         given, Retiring
<1>2. \E l \in {"idle"} \union Retiring : pc' = [pc EXCEPT ![t] = l]
  BY DEF Retire, ScanFirst, ScanEpoch, InsertLoad, InsertEpoch, InsertCas, Adjust,
         Scanned, Expect, Goto, Retiring
<1>3. ASSUME NEW u \in Tasks, NEW j \in Idx, first[u][j] = INVPTR
      PROVE  first'[u][j] = INVPTR
  <2>1. CASE UNCHANGED first
    BY <1>3, <2>1
  <2>2. CASE InsertCas(t) /\ ~UNCHANGED first
    <3> PICK n, s : n = Head(rt[t].asg)[1] /\ s = Head(rt[t].asg)[2]
      OBVIOUS
    <3>1. At(s) = rt[t].prev
      BY <2>2 DEF InsertCas, At
    <3>2. /\ At(s) # INVPTR
          /\ \A z \in SlotIds \ {s} : At(z)' = At(z)
      BY <2>2, <3>1, BooksPush
    <3>3. <<u, j>> \in SlotIds /\ <<u, j>> # s
      BY <1>3, <3>2 DEF SlotIds, At
    <3> QED
      BY <1>3, <3>2, <3>3 DEF At
  <2> QED
    BY <2>1, <2>2
       DEF Retire, ScanFirst, ScanEpoch, InsertLoad, InsertEpoch, Adjust, slots
<1> QED
  BY <1>1, <1>2, <1>3, FlowRetiring

-----------------------------------------------------------------------------
\* free_list gives back retired nodes only: every other node stays in its place.
LEMMA PlacedFree ==
  ASSUME TypeInv, Placed, NEW R, FreeList(R)
  PROVE  Placed'
<1>1. ClientInv
  BY DEF ClientInv, TypeInv, TypeOK
<1>2. Members(R) \in SUBSET Objs /\ \A o \in Members(R) : status[o] = "retired"
  BY DEF Members
<1>3. ClientInv'
  BY <1>1, <1>2, FreeInv DEF FreeList
<1> QED
  BY <1>3 DEF ClientInv

\* Steps inside a call of the tracker move no node, or free retired ones.
LEMMA PlacedStep ==
  ASSUME TypeInv, Placed, NEW t \in Tasks, Step(t)
  PROVE  Placed'
<1>1. CASE UNCHANGED clientVars
  BY <1>1 DEF clientVars, Placed
<1>2. CASE \E R : FreeList(R)
  BY <1>2, PlacedFree
<1>3. UNCHANGED clientVars \/ \E R : FreeList(R)
  <2>1. AllocBirth(t) => UNCHANGED clientVars
    BY DEF AllocBirth
  <2>2. ReadLoad(t) \/ CheckEpoch(t) \/ Validate(t) => UNCHANGED clientVars
    BY DEF ReadLoad, CheckEpoch, Validate
  <2>3. UpdNull(t) \/ UpdReload(t) \/ UpdEpoch(t) => UNCHANGED clientVars
    BY DEF UpdNull, UpdReload, UpdEpoch
  <2>4. Traverse(t) \/ ClearSlot(t) => UNCHANGED clientVars
    BY DEF Traverse, TravLoad, TravDrop, ClearSlot
  <2>5. ScanFirst(t) \/ ScanEpoch(t) \/ InsertLoad(t) \/ InsertEpoch(t)
           \/ InsertCas(t) => UNCHANGED clientVars
    BY DEF ScanFirst, ScanEpoch, InsertLoad, InsertEpoch, InsertCas
  <2>6. UpdDetach(t) \/ ClearFree(t) \/ Adjust(t) => \E R : FreeList(R)
    BY DEF UpdDetach, ClearFree, Adjust
  <2> QED
    BY <2>1, <2>2, <2>3, <2>4, <2>5, <2>6 DEF Step
<1> QED
  BY <1>1, <1>2, <1>3

\* Steps of the rideable keep every node in one place.
LEMMA PlacedCall ==
  ASSUME TypeInv, Placed, NEW t \in Tasks, Call(t)
  PROVE  Placed'
<1>1. ClientInv
  BY DEF ClientInv, TypeInv, TypeOK
<1>2. CASE Clear(t) \/ \E c \in Cells, j \in Idx : Read(t, c, j) \/ Reserve(t, c, j)
  <2>1. UNCHANGED clientVars
    BY <1>2 DEF Clear, Read, Reserve
  <2> QED
    BY <1>1, <2>1, ClientUnchanged DEF ClientInv
<1>3. CASE AllocCount(t)
  BY <1>1, <1>3, MallocInv DEF AllocCount, ClientInv
<1>4. CASE Rideable(t)
  <2>1. ASSUME NEW c \in Cells, Link(t, c) \/ Unlink(t, c) PROVE ClientInv'
    BY <1>1, <2>1, LinkInv, UnlinkInv
  <2>2. CASE Discard(t)
    BY <1>1, <2>2, DiscardInv DEF ClientInv
  <2> QED
    BY <1>4, <2>1, <2>2 DEF Rideable, ClientInv
<1>5. CASE Retire(t)
  BY <1>1, <1>5, HandOverInv DEF Retire, ClientInv
<1> QED
  BY <1>2, <1>3, <1>4, <1>5 DEF Call

-----------------------------------------------------------------------------
\* The batches, the lists and the counters of a step.
LEMMA BooksStep ==
  ASSUME TypeInv, Placed, Books, Flow, Loaded, NEW t \in Tasks, Step(t)
  PROVE  Books'
<1> PICK j \in Idx : j = rd[t].idx
  BY DEF TypeInv, TypeOK, ReadLocals
<1>1. CASE \/ AllocBirth(t) \/ ReadLoad(t) \/ CheckEpoch(t) \/ Validate(t)
           \/ UpdReload(t) \/ UpdEpoch(t)
  BY <1>1, BooksAlloc, BooksRead
<1>2. CASE UpdDetach(t) \/ UpdNull(t) \/ ClearSlot(t)
  BY <1>2, BooksUpdDetach, BooksUpdNull, BooksClearSlot DEF Flow
<1>3. CASE Traverse(t) \/ ClearFree(t)
  BY <1>3, BooksRead, BooksTravDrop, BooksClearFree DEF Traverse
<1>4. CASE \/ ScanFirst(t) \/ ScanEpoch(t) \/ InsertLoad(t)
           \/ InsertEpoch(t) \/ InsertCas(t)
  BY <1>4, BooksScanFirst, BooksScanEpoch, BooksInsertLoad, BooksInsertEpoch,
     BooksInsertCas
<1>5. CASE Adjust(t)
  <2> PICK r : r = Last(t)
    OBVIOUS
  <2> QED
    BY <1>5, BooksAdjust
<1> QED
  BY <1>1, <1>2, <1>3, <1>4, <1>5 DEF Step

\* The batches, the lists and the counters when a call starts.
LEMMA BooksCall ==
  ASSUME TypeInv, Placed, Books, NEW t \in Tasks, Call(t)
  PROVE  Books'
<1>1. CASE Clear(t) \/ \E c \in Cells, j \in Idx : Read(t, c, j) \/ Reserve(t, c, j)
  BY <1>1, BooksRead
<1>2. CASE AllocCount(t) \/ Rideable(t)
  BY <1>2, BooksAlloc, BooksRideable
<1>3. CASE Retire(t)
  <2> PICK o, r : o = victim[t] /\ r = IF batch[t] = <<>> THEN o ELSE Last(t)
    OBVIOUS
  <2> QED
    BY <1>3, BooksRetire
<1> QED
  BY <1>1, <1>2, <1>3 DEF Call

\* Every step keeps the flow of the thread that takes it.
LEMMA FlowStep ==
  ASSUME TypeInv, Books, Flow, NEW t \in Tasks, Step(t) \/ Call(t)
  PROVE  Flow'
BY FlowAlloc, FlowBegin, FlowRead, FlowReturn, FlowUpdDetach, FlowUpdNull,
   FlowTraverse, FlowClear, FlowClearSlot, FlowClearFree, FlowRetire DEF Step, Call

\* The node that a thread walks is in flight.
LEMMA HeadInFlight ==
  ASSUME TypeInv, NEW t \in Tasks, work[t] # <<>>
  PROVE  Head(work[t]) \in InFlight
<1>1. work[t] \in Seq(Objs) /\ work[t] # <<>>
  BY DEF TypeInv, TypeOK
<1>2. Head(work[t]) = work[t][1] /\ 1 \in 1 .. Len(work[t]) /\ Head(work[t]) \in Objs
  BY <1>1, EmptySeq, LenProperties, HeadTailProperties
<1>3. Head(work[t]) \in Walks(t)
  BY <1>2 DEF Walks
<1> QED
  BY <1>2, <1>3, FlightType DEF TypeInv

\* What traverse has loaded stays so: only try_retire links nodes, and those
\* are not in flight.
LEMMA LoadedStep ==
  ASSUME TypeInv, Books, Loaded, NEW t \in Tasks, Step(t) \/ Call(t)
  PROVE  Loaded'
<1>0. pc \in [Tasks -> PC] /\ rd \in [Tasks -> ReadLocals]
  BY DEF TypeInv, TypeOK
<1>1. ASSUME NEW u \in Tasks \ {t}
      PROVE  pc'[u] = pc[u] /\ rd'[u] = rd[u] /\ work'[u] = work[u]
  <2>1. CASE \/ AllocBirth(t) \/ ReadLoad(t) \/ CheckEpoch(t) \/ Validate(t)
             \/ UpdReload(t) \/ UpdEpoch(t) \/ UpdNull(t)
    BY <1>0, <2>1 DEF AllocBirth, ReadLoad, CheckEpoch, Validate, UpdReload, UpdEpoch,
       UpdNull, Goto
  <2>2. CASE UpdDetach(t) \/ Traverse(t) \/ ClearSlot(t) \/ ClearFree(t)
    BY <1>0, <2>2 DEF UpdDetach, Traverse, TravLoad, TravDrop, WalkOn, ClearSlot,
       ClearFree, Goto, TypeInv, TypeOK
  <2>3. CASE \/ ScanFirst(t) \/ ScanEpoch(t) \/ InsertLoad(t)
             \/ InsertEpoch(t) \/ InsertCas(t) \/ Adjust(t)
    BY <1>0, <2>3 DEF ScanFirst, ScanEpoch, InsertLoad, InsertEpoch, InsertCas, Adjust,
       Scanned, Expect, Goto
  <2>4. CASE Call(t)
    BY <1>0, <2>4 DEF Call, Clear, Read, Reserve, AllocCount, Rideable, Retire, Goto
  <2> QED
    BY <2>1, <2>2, <2>3, <2>4 DEF Step
<1>2. pc'[t] = "drop" => TravLoad(t)
  <2>1. CASE \/ AllocBirth(t) \/ ReadLoad(t) \/ CheckEpoch(t) \/ Validate(t)
             \/ UpdReload(t) \/ UpdEpoch(t) \/ UpdNull(t)
    BY <1>0, <2>1 DEF AllocBirth, ReadLoad, CheckEpoch, Validate, UpdReload, UpdEpoch,
       UpdNull, Goto
  <2>2. CASE UpdDetach(t) \/ TravDrop(t) \/ ClearSlot(t) \/ ClearFree(t)
    BY <1>0, <2>2 DEF UpdDetach, TravDrop, WalkOn, ClearSlot, ClearFree, Goto
  <2>3. CASE \/ ScanFirst(t) \/ ScanEpoch(t) \/ InsertLoad(t)
             \/ InsertEpoch(t) \/ InsertCas(t) \/ Adjust(t)
    BY <1>0, <2>3 DEF ScanFirst, ScanEpoch, InsertLoad, InsertEpoch, InsertCas, Adjust,
       Scanned, Expect, Goto
  <2>4. CASE Call(t)
    BY <1>0, <2>4 DEF Call, Clear, Read, Reserve, AllocCount, Rideable, Retire, Goto
  <2> QED
    BY <2>1, <2>2, <2>3, <2>4 DEF Step, Traverse
<1>3. ASSUME NEW n \in InFlight PROVE next'[n] = next[n]
  <2>1. CASE InsertEpoch(t)
    <3> PICK m, s : m = Head(rt[t].asg)[1] /\ s = Head(rt[t].asg)[2]
      OBVIOUS
    <3>1. TypeOK /\ pc[t] = "ins_epoch"
      BY <2>1 DEF InsertEpoch, TypeInv
    <3>2. rt[t].asg # <<>>
      BY <3>1 DEF TypeInv, RetireControl
    <3>3. m \notin InFlight
      BY <3>1, <3>2, AssignedHead
    <3>4. next' = next \/ next' = [next EXCEPT ![m] = rt[t].prev]
      BY <2>1 DEF InsertEpoch
    <3> QED
      BY <1>3, <3>1, <3>3, <3>4, FlightType DEF TypeOK
  <2>2. CASE ~InsertEpoch(t)
    BY <2>2 DEF Step, Call, AllocBirth, ReadLoad, CheckEpoch, Validate, UpdReload, UpdEpoch,
       UpdNull, UpdDetach, Traverse, TravLoad, TravDrop, ClearSlot, ClearFree, ScanFirst,
       ScanEpoch, InsertLoad, InsertCas, Adjust, Clear, Read, Reserve, AllocCount,
       Rideable, Retire, nodes
  <2> QED
    BY <2>1, <2>2
<1>4. ASSUME NEW u \in Tasks, pc'[u] = "drop" PROVE rd'[u].succ = next'[Head(work'[u])]
  <2>1. CASE u = t
    <3>1. /\ rd' = [rd EXCEPT ![t].succ = next[Head(work[t])]]
          /\ UNCHANGED <<next, work>>
      BY <1>2, <1>4, <2>1 DEF TravLoad, nodes
    <3> QED
      BY <1>0, <2>1, <3>1 DEF ReadLocals
  <2>2. CASE u # t
    <3>1. pc[u] = "drop" /\ rd'[u] = rd[u] /\ work'[u] = work[u]
      BY <1>1, <1>4, <2>2
    <3>2. work[u] # <<>>
      BY <3>1 DEF TypeInv, ReadControl
    <3>3. next'[Head(work[u])] = next[Head(work[u])]
      BY <1>3, <3>2, HeadInFlight
    <3> QED
      BY <3>1, <3>3 DEF Loaded
  <2> QED
    BY <2>1, <2>2
<1> QED
  BY <1>4 DEF Loaded

\* The accounts of the batches: what the counters, lists and queues say of them.
Accounts == TypeInv /\ Placed /\ Books /\ Flow /\ Loaded

\* At first there are no batches and no lists.
LEMMA AccountsInit == Init => Accounts
<1> SUFFICES ASSUME Init PROVE Accounts
  OBVIOUS
<1>1. TypeInv /\ Placed
  BY TypeInit, ClientInitInv DEF Init, ClientInv
<1>2. \A p \in Heads : p \notin Objs
  <2>1. \A s \in SlotIds : At(s) = INVPTR
    BY DEF Init, SlotIds, At
  <2>2. \A t \in Tasks : Walks(t) = {}
    BY DEF Init, Walks
  <2> QED
    BY <2>1, <2>2, HeadsAre, PtrAssumption DEF Ptrs
<1>3. InFlight = {}
  <2>1. ClosedUnder(next, Heads, {})
    BY <1>2 DEF ClosedUnder
  <2> QED
    BY <1>1, <2>1, ReachLeast DEF InFlight, TypeInv, TypeOK
<1>4. /\ \A t \in Tasks : batch[t] = <<>> /\ list[t] = {} /\ work[t] = <<>>
      /\ \A t \in Tasks : pc[t] = "idle" /\ rt[t] = NoRetire /\ rd[t] = NoRead
      /\ \A o \in Objs : status[o] # "retired"
      /\ \A s \in SlotIds : At(s) = INVPTR
  BY DEF Init, ClientInit, At, SlotIds
<1>5. BatchesApart /\ WalkSafe /\ Counted /\ Queued
  BY <1>3, <1>4 DEF BatchesApart, Building, WalkSafe, Counted, Queued, IsBatch
<1>6. OnePointer
  BY <1>3, <1>4, PtrAssumption DEF OnePointer, Ptrs, Walks
<1>7. \A t \in Tasks : Assigned(t)
  BY <1>4 DEF Assigned
<1>8. Flow
  BY <1>4 DEF Flow, WorkControl, ReadFlow, NoRead
<1>9. Loaded
  BY <1>4 DEF Loaded
<1> QED
  BY <1>1, <1>5, <1>6, <1>7, <1>8, <1>9 DEF Accounts, Books

\* Every step keeps the accounts.
LEMMA AccountsNext == Accounts /\ [Next]_vars => Accounts'
<1> SUFFICES ASSUME Accounts, [Next]_vars PROVE Accounts'
  OBVIOUS
<1> USE DEF Accounts
<1>1. TypeInv'
  BY TypeNext
<1>2. ASSUME NEW t \in Tasks, Step(t) PROVE Accounts'
  BY <1>1, <1>2, PlacedStep, BooksStep, FlowStep, LoadedStep
<1>3. ASSUME NEW t \in Tasks, Call(t) PROVE Accounts'
  BY <1>1, <1>3, PlacedCall, BooksCall, FlowStep, LoadedStep
<1>4. CASE UNCHANGED vars
  <2>1. UNCHANGED <<status, cell, mine, victim, first, next, refs, link, batch, list,
                    held, pc, rd, work, rt>>
    BY <1>4 DEF vars, clientVars, slots, nodes, batches, given
  <2>2. OnePointer' /\ InFlight' = InFlight
    BY <2>1, ListsUnchanged DEF Books
  <2>3. /\ \A t \in Tasks : Last(t)' = Last(t)
        /\ \A t \in Tasks : \A r : Building(t, r)' <=> Building(t, r)
        /\ \A r : IsBatch(r)' <=> IsBatch(r)
        /\ \A r : Flight(r)' = Flight(r)
    BY <2>1, <2>2 DEF Last, Building, IsBatch, Flight
  <2>4. BatchesApart' /\ WalkSafe'
    BY <2>1, <2>2, <2>3 DEF Books, BatchesApart, WalkSafe
  <2>5. Counted' /\ Queued'
    BY <2>1, <2>3 DEF Books, Counted, Queued
  <2>6. \A t \in Tasks : Assigned(t)'
    BY <2>1, <2>2, <2>3 DEF Books, Assigned
  <2>7. Placed' /\ Flow' /\ Loaded'
    BY <2>1 DEF Placed, Flow, WorkControl, ReadFlow, Loaded
  <2> QED
    BY <1>1, <2>2, <2>4, <2>5, <2>6, <2>7 DEF Books
<1> QED
  BY <1>2, <1>3, <1>4 DEF Next

\* The accounts hold in every reachable state.
LEMMA AccountsKept == Spec => []Accounts
BY AccountsInit, AccountsNext, PTL DEF Spec

-----------------------------------------------------------------------------
\* No traversal, by any thread, meets a node that was freed: a node that hangs
\* in a slot or in a detached list belongs to a batch whose counter is not yet
\* zero, or has yet to be adjusted.
THEOREM WalksAreSafe == Spec => []WalkSafe
<1>1. Accounts => WalkSafe
  BY DEF Accounts, Books
<1> QED
  BY <1>1, AccountsKept, PTL

\* The counter of every batch is the number of its nodes in slots and detached
\* lists, less the adjustment that its retirer has yet to make.
THEOREM RefsAreExact == Spec => []RefsExact
<1>1. Accounts => RefsExact
  <2> SUFFICES ASSUME Accounts, NEW r \in Objs, IsBatch(r)
               PROVE  refs[r] = Cardinality({n \in InFlight : link[n] = r})
                        - (IF \E t \in Tasks : Building(t, r)
                           THEN rt[CHOOSE t \in Tasks : Building(t, r)].adjs ELSE 0)
    BY DEF RefsExact
  <2>1. TypeOK /\ Cardinality(Flight(r)) \in Nat
    BY FlightFinite DEF Accounts, TypeInv
  <2>2. ASSUME NEW t \in Tasks, Building(t, r)
        PROVE  refs[r] = Cardinality({n \in InFlight : link[n] = r})
                        - rt[CHOOSE u \in Tasks : Building(u, r)].adjs
    <3> DEFINE b == CHOOSE u \in Tasks : Building(u, r)
    <3>1. b \in Tasks /\ Building(b, r)
      BY <2>2
    <3> HIDE DEF b
    <3>2. refs[r] = Cardinality(Flight(r)) - rt[b].adjs
      BY <3>1 DEF Accounts, Books, Counted
    <3> QED
      BY <3>2 DEF Flight, b
  <2>3. (\A t \in Tasks : ~Building(t, r)) =>
           refs[r] = Cardinality({n \in InFlight : link[n] = r})
    BY DEF Accounts, Books, Counted, Flight
  <2>4. Cardinality({n \in InFlight : link[n] = r}) \in Nat
    BY <2>1 DEF Flight
  <2> DEFINE c == Cardinality({n \in InFlight : link[n] = r})
             b == rt[CHOOSE t \in Tasks : Building(t, r)].adjs
  <2>5. CASE \E t \in Tasks : Building(t, r)
    <3>1. refs[r] = c - b
      BY <2>2, <2>5
    <3> HIDE DEF c, b
    <3>2. refs[r] = c - (IF \E t \in Tasks : Building(t, r) THEN b ELSE 0)
      BY <2>5, <3>1
    <3> QED
      BY <3>2 DEF c, b
  <2>6. CASE \A t \in Tasks : ~Building(t, r)
    <3>1. refs[r] = c /\ c \in Nat
      BY <2>3, <2>4, <2>6
    <3> HIDE DEF c, b
    <3>2. refs[r] = c - (IF \E t \in Tasks : Building(t, r) THEN b ELSE 0)
      BY <2>6, <3>1
    <3> QED
      BY <3>2 DEF c, b
  <2> QED
    BY <2>5, <2>6
<1> QED
  BY <1>1, AccountsKept, PTL

\* A batch that was handed over is queued by exactly one thread once its last
\* node was released, and by none before.
THEOREM EachBatchFreedOnce == Spec => []FreedOnce
<1>1. Accounts => FreedOnce
  <2> SUFFICES ASSUME Accounts, NEW r \in Objs, IsBatch(r),
                      \A t \in Tasks : ~Building(t, r)
               PROVE  Cardinality({t \in Tasks : r \in list[t]}) =
                         (IF refs[r] = 0 THEN 1 ELSE 0)
    BY DEF FreedOnce
  <2> USE DEF Accounts, Books
  <2>1. CASE refs[r] = 0
    <3> PICK t \in Tasks : r \in list[t]
      BY <2>1 DEF Counted
    <3>1. \A u \in Tasks : r \in list[u] => u = t
      BY DEF Queued
    <3>2. {u \in Tasks : r \in list[u]} = {t}
      BY <3>1
    <3> QED
      BY <2>1, <3>2, FS_Singleton
  <2>2. CASE refs[r] # 0
    <3>1. {u \in Tasks : r \in list[u]} = {}
      BY <2>2 DEF Queued
    <3> QED
      BY <2>2, <3>1, FS_EmptySet
  <2> QED
    BY <2>1, <2>2
<1> QED
  BY <1>1, AccountsKept, PTL

-----------------------------------------------------------------------------
\* No epoch is ahead of the global one, and do_update never takes a slot back.
Clock ==
    /\ \A o \in Objs : birth[o] <= epoch
    /\ \A t \in Tasks, j \in Idx : slotEpoch[t][j] <= epoch
    /\ \A t \in Tasks : rd[t].curr <= epoch
    /\ \A t \in Tasks : pc[t] \in {"upd", "upd_epoch"} =>
          slotEpoch[t][rd[t].idx] <= rd[t].curr

\* min_epoch is the least birth in the batch.
MinEpochs ==
    \A t \in Tasks, r \in Objs : Building(t, r) =>
        /\ \A o \in Members({r}) : minEpoch[t] <= birth[o]
        /\ \E o \in Members({r}) : minEpoch[t] = birth[o]

\* Slot s comes before the place p in the order of the scan.
Before(s, p) == s[1] < p[1] \/ (s[1] = p[1] /\ s[2] < p[2])

\* The batch of r will not be freed before slot s is left: one of its nodes is
\* in the slot, or thread u has yet to see the slot, or to push a node on it.
Hooking(u, s, r) ==
    /\ Building(u, r)
    /\ \/ pc[u] \notin Retiring
       \/ pc[u] \in {"scan", "scan_epoch"} /\ ~Before(s, rt[u].pos)
       \/ \E k \in 1 .. Len(rt[u].asg) : rt[u].asg[k][2] = s
Hooked(s, r) ==
    \/ \E n \in Chain(s) : link[n] = r
    \/ \E u \in Tasks : Hooking(u, s, r)

\* Slot s protects node h: h is no younger than the slot, and when it is
\* retired its batch is hooked to the slot.
Guarded(s, h) ==
    /\ birth[h] <= slotEpoch[s[1]][s[2]]
    /\ status[h] \in {"linked", "unlinked", "retired"}
    /\ status[h] = "retired" => \A r \in Objs : link[h] = r => Hooked(s, r)

\* The references that slot s has to protect: the one that read returned, and
\* the one that it is about to return.
Protecting(s, h) ==
    /\ first[s[1]][s[2]] # INVPTR
    /\ \/ held[s[1]][s[2]] = h
       \/ /\ pc[s[1]] = "check" /\ rd[s[1]].op = "read" /\ rd[s[1]].idx = s[2]
          /\ rd[s[1]].ptr = h /\ epoch = slotEpoch[s[1]][s[2]]

HeldGuarded ==
    \A s \in SlotIds, h \in Objs : Protecting(s, h) => Guarded(s, h)

\* What hangs in a slot belongs to a batch as old as the slot, and so does the
\* node that try_retire is about to push on it.
OldEnough ==
    /\ \A s \in SlotIds : \A n \in Chain(s) :
          \E m \in Objs : /\ status[m] = "retired" /\ link[m] = link[n]
                          /\ birth[m] <= slotEpoch[s[1]][s[2]]
    /\ \A t \in Tasks, s \in SlotIds :
          pc[t] = "ins_cas" /\ rt[t].asg[1][2] = s =>
              minEpoch[t] <= slotEpoch[s[1]][s[2]]

Shield == Clock /\ MinEpochs /\ HeldGuarded /\ OldEnough

-----------------------------------------------------------------------------
\* Steps of t that move no epoch.
LEMMA ClockKept ==
  ASSUME TypeInv, Clock, NEW t \in Tasks, UNCHANGED <<epoch, slotEpoch, birth>>,
         \A u \in Tasks \ {t} : pc'[u] = pc[u] /\ rd'[u] = rd[u],
         rd'[t].curr <= epoch,
         pc'[t] \in {"upd", "upd_epoch"} => slotEpoch[t][rd'[t].idx] <= rd'[t].curr
  PROVE  Clock'
BY DEF Clock

\* The epochs are natural numbers.
LEMMA EpochTypes ==
  ASSUME TypeInv
  PROVE  /\ epoch \in Nat /\ \A t \in Tasks, j \in Idx : slotEpoch[t][j] \in Nat
         /\ \A o \in Objs : birth[o] \in Nat
         /\ \A t \in Tasks : /\ rd[t].curr \in Nat /\ rd[t].idx \in Idx
                             /\ minEpoch[t] \in Nat
BY ParamAssumption DEF TypeInv, TypeOK, ReadLocals

\* Steps inside a call of the tracker keep the clock.
LEMMA ClockStep ==
  ASSUME TypeInv, Clock, NEW t \in Tasks, Step(t)
  PROVE  Clock'
<1>0. epoch \in Nat /\ rd[t].idx \in Idx /\ rd[t].curr <= epoch
  BY EpochTypes DEF Clock
<1>1. CASE AllocBirth(t)
  <2>1. /\ birth' = [birth EXCEPT ![mine[t]] = epoch] /\ pc'[t] = "idle"
        /\ \A u \in Tasks \ {t} : pc'[u] = pc[u]
        /\ UNCHANGED <<epoch, slotEpoch, rd>>
    BY <1>1 DEF AllocBirth, Goto, slots, TypeInv, TypeOK
  <2>2. \A o \in Objs : birth'[o] <= epoch
    BY <1>0, <2>1 DEF Clock, TypeInv, TypeOK
  <2> QED
    BY <2>1, <2>2 DEF Clock
<1>2. CASE UpdEpoch(t)
  <2> PICK i \in Idx : i = rd[t].idx
    BY <1>0
  <2>1. /\ slotEpoch' = [slotEpoch EXCEPT ![t][i] = rd[t].curr]
        /\ pc'[t] \in {"load", "check"} /\ \A u \in Tasks \ {t} : pc'[u] = pc[u]
        /\ UNCHANGED <<epoch, birth, rd>>
    BY <1>2 DEF UpdEpoch, Goto, nodes, TypeInv, TypeOK
  <2>2. \A u \in Tasks, j \in Idx : slotEpoch'[u][j] <= epoch
    BY <1>0, <2>1 DEF Clock, TypeInv, TypeOK
  <2>3. \A u \in Tasks \ {t} : slotEpoch'[u] = slotEpoch[u]
    BY <2>1 DEF TypeInv, TypeOK
  <2> QED
    BY <2>1, <2>2, <2>3 DEF Clock
<1>3. CASE \/ ReadLoad(t) \/ CheckEpoch(t) \/ Validate(t) \/ UpdReload(t)
  <2>1. /\ UNCHANGED <<epoch, slotEpoch, birth>>
        /\ \A u \in Tasks \ {t} : pc'[u] = pc[u] /\ rd'[u] = rd[u]
    BY <1>3 DEF ReadLoad, CheckEpoch, Validate, UpdReload, slots, nodes, Goto, TypeInv, TypeOK
  <2>2. rd'[t].curr \in {epoch, rd[t].curr, 0}
    BY <1>3 DEF ReadLoad, CheckEpoch, Validate, UpdReload, NoRead, TypeInv, TypeOK, ReadLocals
  <2>3. pc'[t] \in {"upd", "upd_epoch"} => rd'[t].curr = epoch /\ rd'[t].idx = rd[t].idx
    BY <1>3 DEF ReadLoad, CheckEpoch, Validate, UpdReload, Goto, TypeInv, TypeOK, ReadLocals
  <2>4. slotEpoch[t][rd[t].idx] <= epoch
    BY <1>0 DEF Clock
  <2> QED
    BY <1>0, <2>1, <2>2, <2>3, <2>4, ClockKept
<1>4. CASE UpdDetach(t)
  <2>1. /\ UNCHANGED <<epoch, slotEpoch, birth, rd>> /\ pc[t] = "upd"
        /\ \A u \in Tasks \ {t} : pc'[u] = pc[u]
    BY <1>4 DEF UpdDetach, nodes, Goto, TypeInv, TypeOK
  <2> QED
    BY <1>0, <2>1, ClockKept DEF Clock
<1>5. CASE UpdNull(t) \/ Traverse(t)
  <2>1. /\ UNCHANGED <<epoch, slotEpoch, birth>> /\ rd'[t].curr = rd[t].curr
        /\ \A u \in Tasks \ {t} : rd'[u] = rd[u]
        /\ pc'[t] \notin {"upd", "upd_epoch"}
        /\ \A u \in Tasks \ {t} : pc'[u] = pc[u]
    <3>1. pc \in [Tasks -> PC] /\ rd \in [Tasks -> ReadLocals]
      BY DEF TypeInv, TypeOK
    <3>2. CASE UpdNull(t)
      BY <3>1, <3>2 DEF UpdNull, slots, nodes, Goto
    <3>3. CASE Traverse(t)
      BY <3>1, <3>3 DEF Traverse, TravLoad, TravDrop, WalkOn, slots, nodes, Goto, ReadLocals
    <3> QED
      BY <1>5, <3>2, <3>3
  <2> QED
    BY <1>0, <2>1, ClockKept
<1>6. CASE ClearSlot(t) \/ ClearFree(t)
  <2>1. /\ UNCHANGED <<epoch, slotEpoch, birth>>
        /\ pc[t] \in {"clear", "free"} /\ rd'[t].curr \in {rd[t].curr, 0}
        /\ pc'[t] \notin {"upd", "upd_epoch"}
        /\ \A u \in Tasks \ {t} : pc'[u] = pc[u] /\ rd'[u] = rd[u]
    <3>1. CASE ClearSlot(t)
      BY <3>1, SMTT(30) DEF ClearSlot, nodes, Goto, TypeInv, TypeOK, ReadLocals
    <3>2. CASE ClearFree(t)
      BY <3>2 DEF ClearFree, slots, nodes, Goto, NoRead, TypeInv, TypeOK
    <3> QED
      BY <1>6, <3>1, <3>2
  <2> QED
    BY <1>0, <2>1, ClockKept
<1>7. CASE ScanFirst(t) \/ ScanEpoch(t) \/ InsertLoad(t) \/ InsertEpoch(t)
             \/ InsertCas(t) \/ Adjust(t)
  <2>1. /\ UNCHANGED <<epoch, slotEpoch, birth, rd>>
        /\ pc'[t] \notin {"upd", "upd_epoch"}
        /\ \A u \in Tasks \ {t} : pc'[u] = pc[u]
    BY <1>7 DEF ScanFirst, ScanEpoch, InsertLoad, InsertEpoch, InsertCas, Adjust,
         Scanned, Expect, slots, nodes, Goto, TypeInv, TypeOK
  <2> QED
    BY <1>0, <2>1, ClockKept
<1> QED
  BY <1>1, <1>2, <1>3, <1>4, <1>5, <1>6, <1>7 DEF Step

\* Steps of the rideable keep the clock: only alloc advances the epoch.
LEMMA ClockCall ==
  ASSUME TypeInv, Clock, NEW t \in Tasks, Call(t)
  PROVE  Clock'
<1>0. epoch \in Nat /\ rd[t].idx \in Idx /\ rd[t].curr <= epoch
  BY EpochTypes DEF Clock
<1>1. CASE Clear(t)
  <2>1. /\ UNCHANGED <<epoch, slotEpoch, birth>>
        /\ pc' = [pc EXCEPT ![t] = "clear"]
        /\ rd' = [rd EXCEPT ![t] = [NoRead EXCEPT !.op = "clear"]]
    BY <1>1 DEF Clear, slots, nodes, Goto
  <2>2. /\ rd'[t].curr = 0 /\ pc'[t] = "clear"
        /\ \A u \in Tasks \ {t} : pc'[u] = pc[u] /\ rd'[u] = rd[u]
    BY <2>1 DEF NoRead, TypeInv, TypeOK
  <2> QED
    BY <1>0, <2>1, <2>2, ClockKept
<1>4. ASSUME NEW c \in Cells, NEW j \in Idx, Read(t, c, j) \/ Reserve(t, c, j)
      PROVE  Clock'
  <2>1. /\ UNCHANGED <<epoch, slotEpoch, birth>>
        /\ rd'[t].curr = 0 /\ pc'[t] = "check"
        /\ \A u \in Tasks \ {t} : pc'[u] = pc[u] /\ rd'[u] = rd[u]
    BY <1>4 DEF Read, Reserve, slots, nodes, Goto, TypeInv, TypeOK
  <2> QED
    BY <1>0, <2>1, ClockKept
<1>2. CASE AllocCount(t)
  <2>1. /\ UNCHANGED <<slotEpoch, birth, rd>> /\ epoch' \in Nat /\ epoch <= epoch'
        /\ pc'[t] = "birth" /\ \A u \in Tasks \ {t} : pc'[u] = pc[u]
    BY <1>0, <1>2 DEF AllocCount, slots, nodes, Goto, TypeInv, TypeOK
  <2>2. /\ \A o \in Objs : birth[o] <= epoch'
        /\ \A u \in Tasks, j \in Idx : slotEpoch[u][j] <= epoch'
        /\ \A u \in Tasks : rd[u].curr <= epoch'
    BY <1>0, <2>1, EpochTypes DEF Clock
  <2> QED
    BY <2>1, <2>2 DEF Clock
<1>3. CASE Rideable(t) \/ Retire(t)
  <2>1. /\ UNCHANGED <<epoch, slotEpoch, birth, rd>>
        /\ pc'[t] \notin {"upd", "upd_epoch"}
        /\ \A u \in Tasks \ {t} : pc'[u] = pc[u]
    BY <1>3 DEF Rideable, Retire, slots, nodes, Goto, TypeInv, TypeOK
  <2> QED
    BY <1>0, <2>1, ClockKept
<1> QED
  BY <1>1, <1>2, <1>3, <1>4 DEF Call

\* A slot goes on protecting a node when it keeps its hold on the batch.
LEMMA GuardedKept ==
  ASSUME TypeInv, NEW s \in SlotIds, NEW h \in Objs, Guarded(s, h),
         birth'[h] = birth[h],
         slotEpoch'[s[1]][s[2]] = slotEpoch[s[1]][s[2]],
         status'[h] \in {"linked", "unlinked", "retired"},
         NEW r \in Objs, status'[h] = "retired" => link'[h] = r /\ Hooked(s, r)'
  PROVE  Guarded(s, h)'
BY DEF Guarded

\* Steps of t outside try_retire hook and unhook nothing.
LEMMA HookedOutside ==
  ASSUME TypeInv, NEW t \in Tasks, pc[t] \notin Retiring,
         NEW l \in PC \ Retiring, pc' = [pc EXCEPT ![t] = l],
         UNCHANGED <<batch, rt, link>>,
         NEW s \in SlotIds, Chain(s)' = Chain(s), NEW r \in Objs
  PROVE  Hooked(s, r)' <=> Hooked(s, r)
<1>1. pc'[t] = l /\ \A u \in Tasks \ {t} : pc'[u] = pc[u]
  BY DEF TypeInv, TypeOK
<1>2. \A u \in Tasks : Building(u, r)' <=> Building(u, r)
  BY DEF Building
<1>3. ASSUME NEW u \in Tasks PROVE Hooking(u, s, r)' <=> Hooking(u, s, r)
  <2>1. CASE u = t
    BY <1>1, <1>2, <2>1 DEF Hooking
  <2>2. CASE u # t
    BY <1>1, <1>2, <2>2 DEF Hooking
  <2> QED
    BY <2>1, <2>2
<1> QED
  BY <1>3 DEF Hooked

\* Steps of t outside try_retire that leave lists and batches alone.
LEMMA ShieldOutside ==
  ASSUME TypeInv, Shield, NEW t \in Tasks, pc[t] \notin Retiring,
         NEW l \in PC \ Retiring, pc' = [pc EXCEPT ![t] = l],
         UNCHANGED <<batch, rt, link, first, next, minEpoch>>,
         \A h \in Objs : status[h] \in {"linked", "unlinked", "retired"} =>
             /\ birth'[h] = birth[h]
             /\ status'[h] \in {"linked", "unlinked", "retired"},
         \A h \in Objs : status'[h] = "retired" <=> status[h] = "retired",
         \A u \in Tasks, j \in Idx :
             /\ slotEpoch[u][j] \in Nat /\ slotEpoch'[u][j] \in Nat
             /\ slotEpoch[u][j] <= slotEpoch'[u][j],
         \A s \in SlotIds, h \in Objs : Protecting(s, h)' =>
            /\ slotEpoch'[s[1]][s[2]] = slotEpoch[s[1]][s[2]]
            /\ \/ Protecting(s, h)
               \/ birth[h] <= slotEpoch[s[1]][s[2]] /\ status[h] = "linked"
  PROVE  MinEpochs' /\ HeldGuarded' /\ OldEnough'
<1>1. \A s \in SlotIds : Chain(s)' = Chain(s)
  BY DEF Chain
<1>2. MinEpochs'
  <2>1. \A u \in Tasks, r \in Objs : Building(u, r)' <=> Building(u, r)
    BY DEF Building
  <2>2. \A r \in Objs : Members({r})' = Members({r})
    BY DEF Members
  <2>3. \A r \in Objs : \A o \in Members({r}) : birth'[o] = birth[o]
    BY DEF Members
  <2>4. ASSUME NEW u \in Tasks, NEW r \in Objs, Building(u, r)
        PROVE  /\ \A o \in Members({r}) : minEpoch[u] <= birth'[o]
               /\ \E o \in Members({r}) : minEpoch[u] = birth'[o]
    <3>1. /\ \A o \in Members({r}) : minEpoch[u] <= birth[o]
          /\ \E o \in Members({r}) : minEpoch[u] = birth[o]
      BY <2>4 DEF Shield, MinEpochs
    <3> QED
      BY <2>3, <3>1
  <2>5. ASSUME NEW u \in Tasks, NEW r \in Objs, Building(u, r)'
        PROVE  /\ \A o \in Members({r})' : minEpoch'[u] <= birth'[o]
               /\ \E o \in Members({r})' : minEpoch'[u] = birth'[o]
    BY <2>1, <2>2, <2>4, <2>5
  <2> QED
    BY <2>5 DEF MinEpochs
<1>3. HeldGuarded'
  <2> SUFFICES ASSUME NEW s \in SlotIds, NEW h \in Objs, Protecting(s, h)'
               PROVE  Guarded(s, h)'
    BY DEF HeldGuarded
  <2>1. PICK r \in Objs : r = link[h]
    BY DEF TypeInv, TypeOK
  <2>2. Guarded(s, h)
    BY DEF Shield, HeldGuarded, Guarded
  <2>3. status'[h] = "retired" => link'[h] = r /\ Hooked(s, r)'
    BY <1>1, <2>1, <2>2, HookedOutside DEF Guarded
  <2> QED
    BY <2>2, <2>3, GuardedKept DEF Guarded
<1>4. OldEnough'
  <2>1. ASSUME NEW s \in SlotIds, NEW n \in Chain(s)
        PROVE  \E m \in Objs : /\ status'[m] = "retired" /\ link[m] = link[n]
                               /\ birth'[m] <= slotEpoch'[s[1]][s[2]]
    <3> PICK m \in Objs : /\ status[m] = "retired" /\ link[m] = link[n]
                          /\ birth[m] <= slotEpoch[s[1]][s[2]]
      BY <2>1 DEF Shield, OldEnough
    <3>1. s[1] \in Tasks /\ s[2] \in Idx /\ birth[m] \in Nat
      BY EpochTypes DEF SlotIds
    <3>2. birth'[m] <= slotEpoch'[s[1]][s[2]]
      BY <3>1
    <3> QED
      BY <3>2
  <2>2. ASSUME NEW u \in Tasks, NEW s \in SlotIds,
               pc'[u] = "ins_cas", rt[u].asg[1][2] = s
        PROVE  minEpoch[u] <= slotEpoch'[s[1]][s[2]]
    <3>1. pc[u] = "ins_cas"
      BY <2>2 DEF TypeInv, TypeOK, Retiring
    <3>2. minEpoch[u] <= slotEpoch[s[1]][s[2]]
      BY <2>2, <3>1 DEF Shield, OldEnough
    <3>3. s[1] \in Tasks /\ s[2] \in Idx /\ minEpoch[u] \in Nat
      BY EpochTypes DEF SlotIds
    <3> QED
      BY <3>2, <3>3
  <2> QED
    BY <1>1, <2>1, <2>2 DEF OldEnough
<1> QED
  BY <1>2, <1>3, <1>4

\* Steps of t that take, activate or walk its own lists, and free batches R
\* of which nothing is in flight.
LEMMA ShieldSlots ==
  ASSUME TypeInv, Shield, NEW t \in Tasks, pc[t] \notin Retiring,
         NEW l \in PC \ Retiring, pc' = [pc EXCEPT ![t] = l],
         UNCHANGED <<batch, rt, link, minEpoch, birth, slotEpoch>>,
         NEW R, \A r \in R : Flight(r) = {} /\ \A u \in Tasks : ~Building(u, r),
         status' = [o \in Objs |-> IF o \in Members(R) THEN "free" ELSE status[o]],
         \A s \in SlotIds :
            \/ Chain(s)' = Chain(s) /\ \A h \in Objs : Protecting(s, h)' => Protecting(s, h)
            \/ Chain(s)' = {} /\ \A h \in Objs : ~Protecting(s, h)'
  PROVE  MinEpochs' /\ HeldGuarded' /\ OldEnough'
<1>1. \A s \in SlotIds : \A n \in Chain(s) : link[n] \notin R
  BY FlightType DEF Flight, TypeInv
<1>2. \A o \in Objs : link[o] \notin R => status'[o] = status[o]
  BY DEF Members
<1>3. MinEpochs'
  <2>1. \A u \in Tasks, r \in Objs : Building(u, r)' <=> Building(u, r)
    BY DEF Building
  <2>2. \A u \in Tasks, r \in Objs : Building(u, r) => r \notin R
    OBVIOUS
  <2>3. \A r \in Objs : r \notin R => Members({r})' = Members({r})
    BY DEF Members
  <2> QED
    BY <2>1, <2>2, <2>3, ZenonT(40) DEF Shield, MinEpochs
<1>4. HeldGuarded'
  <2> SUFFICES ASSUME NEW s \in SlotIds, NEW h \in Objs, Protecting(s, h)'
               PROVE  Guarded(s, h)'
    BY DEF HeldGuarded
  <2>1. PICK r \in Objs : r = link[h]
    BY DEF TypeInv, TypeOK
  <2>2. Protecting(s, h) /\ Chain(s)' = Chain(s)
    OBVIOUS
  <2>3. Guarded(s, h)
    BY <2>2 DEF Shield, HeldGuarded
  <2>4. status[h] = "retired" => r \notin R /\ Hooked(s, r)
    <3>1. status[h] = "retired" => Hooked(s, r)
      BY <2>1, <2>3 DEF Guarded
    <3>2. Hooked(s, r) => r \notin R
      BY <1>1 DEF Hooked, Hooking
    <3> QED
      BY <3>1, <3>2
  <2>5. status'[h] = status[h]
    BY <2>1, <2>4 DEF Members
  <2>6. status'[h] = "retired" => link'[h] = r /\ Hooked(s, r)'
    BY <2>1, <2>2, <2>4, <2>5, HookedOutside
  <2> QED
    BY <2>3, <2>5, <2>6, GuardedKept DEF Guarded
<1>5. OldEnough'
  <2>1. ASSUME NEW s \in SlotIds, NEW n \in Chain(s)
        PROVE  \E m \in Objs : /\ status'[m] = "retired" /\ link[m] = link[n]
                               /\ birth[m] <= slotEpoch[s[1]][s[2]]
    BY <1>1, <1>2, <2>1 DEF Shield, OldEnough
  <2>2. ASSUME NEW u \in Tasks, NEW s \in SlotIds,
               pc'[u] = "ins_cas", rt[u].asg[1][2] = s
        PROVE  minEpoch[u] <= slotEpoch[s[1]][s[2]]
    <3>1. pc[u] = "ins_cas"
      BY <2>2 DEF TypeInv, TypeOK, Retiring
    <3> QED
      BY <2>2, <3>1 DEF Shield, OldEnough
  <2> QED
    BY <2>1, <2>2 DEF OldEnough
<1> QED
  BY <1>3, <1>4, <1>5

\* The slots of the other threads protect what they protected.
LEMMA ProtectingOthers ==
  ASSUME NEW t \in Tasks, UNCHANGED <<first, slotEpoch, epoch>>,
         \A u \in Tasks \ {t} : pc'[u] = pc[u] /\ rd'[u] = rd[u] /\ held'[u] = held[u],
         NEW s \in SlotIds, NEW h \in Objs, s[1] # t, Protecting(s, h)'
  PROVE  Protecting(s, h)
<1>1. s[1] \in Tasks \ {t}
  BY DEF SlotIds
<1> QED
  BY <1>1 DEF Protecting

\* Steps of read and reserve_slot that leave the slots alone.
LEMMA ShieldReading ==
  ASSUME TypeInv, Shield, NEW t \in Tasks, pc[t] \notin Retiring,
         NEW l \in PC \ Retiring, pc' = [pc EXCEPT ![t] = l],
         UNCHANGED <<batch, rt, link, first, next, minEpoch, status, birth,
                     slotEpoch, epoch>>,
         \A u \in Tasks \ {t} : rd'[u] = rd[u] /\ held'[u] = held[u],
         \A j \in Idx, h \in Objs : Protecting(<<t, j>>, h)' =>
            \/ Protecting(<<t, j>>, h)
            \/ birth[h] <= slotEpoch[t][j] /\ status[h] = "linked"
  PROVE  MinEpochs' /\ HeldGuarded' /\ OldEnough'
<1>1. \A u \in Tasks, j \in Idx : slotEpoch[u][j] \in Nat /\ slotEpoch[u][j] <= slotEpoch[u][j]
  BY EpochTypes
<1>2. \A u \in Tasks \ {t} : pc'[u] = pc[u]
  BY DEF TypeInv, TypeOK
<1>3. ASSUME NEW s \in SlotIds, NEW h \in Objs, Protecting(s, h)'
      PROVE  \/ Protecting(s, h)
             \/ birth[h] <= slotEpoch[s[1]][s[2]] /\ status[h] = "linked"
  <2>1. CASE s[1] = t
    <3> PICK j \in Idx : s = <<t, j>>
      BY <2>1 DEF SlotIds
    <3> QED
      BY <1>3
  <2>2. CASE s[1] # t
    BY <1>2, <1>3, <2>2, ProtectingOthers
  <2> QED
    BY <2>1, <2>2
<1> QED
  BY <1>1, <1>3, ShieldOutside

\* alloc and the steps of the rideable: a slot protects no private node.
LEMMA ShieldAlloc ==
  ASSUME Accounts, Shield, NEW t \in Tasks, AllocCount(t) \/ AllocBirth(t) \/ Rideable(t)
  PROVE  MinEpochs' /\ HeldGuarded' /\ OldEnough'
<1>0. TypeInv /\ Placed
  BY DEF Accounts
<1>1. \A u \in Tasks, j \in Idx : slotEpoch[u][j] \in Nat /\ slotEpoch[u][j] <= slotEpoch[u][j]
  BY <1>0, EpochTypes
<1>2. CASE AllocCount(t)
  <2> PICK o \in Objs : Malloc(t, o)
    BY <1>2 DEF AllocCount
  <2>1. /\ pc[t] = "idle" /\ pc' = [pc EXCEPT ![t] = "birth"]
        /\ "birth" \in PC \ Retiring /\ "idle" \notin Retiring
        /\ UNCHANGED <<batch, rt, link, first, next, minEpoch, birth, slotEpoch, held, rd>>
        /\ epoch' \in {epoch, epoch + 1}
    BY <1>2 DEF AllocCount, Goto, slots, nodes, batches, given, PC, Retiring
  <2>2. status' = [status EXCEPT ![o] = "private"] /\ status[o] = "free"
    BY DEF Malloc
  <2>3. ASSUME NEW h \in Objs, status[h] \in {"linked", "unlinked", "retired"}
        PROVE  status'[h] = status[h]
    BY <1>0, <2>2, <2>3 DEF TypeInv, TypeOK, ClientTypeOK
  <2>4. \A h \in Objs : status'[h] = "retired" <=> status[h] = "retired"
    BY <1>0, <2>2 DEF TypeInv, TypeOK, ClientTypeOK
  <2>5. ASSUME NEW s \in SlotIds, NEW h \in Objs, Protecting(s, h)' PROVE Protecting(s, h)
    <3>1. s[1] \in Tasks /\ s[2] \in Idx
      BY DEF SlotIds
    <3>2. slotEpoch[s[1]][s[2]] <= epoch /\ slotEpoch[s[1]][s[2]] \in Nat /\ epoch \in Nat
      BY <1>0, <3>1, EpochTypes DEF Shield, Clock
    <3>3. epoch' = slotEpoch[s[1]][s[2]] => epoch' = epoch
      BY <2>1, <3>2
    <3>4. pc'[s[1]] = "check" => pc[s[1]] = "check"
      BY <1>0, <2>1, <3>1 DEF TypeInv, TypeOK
    <3> QED
      BY <2>1, <2>5, <3>3, <3>4 DEF Protecting
  <2> QED
    BY <1>0, <1>1, <2>1, <2>3, <2>4, <2>5, ShieldOutside
<1>3. CASE AllocBirth(t)
  <2>1. /\ pc[t] = "birth" /\ pc' = [pc EXCEPT ![t] = "idle"]
        /\ "idle" \in PC \ Retiring /\ "birth" \notin Retiring
        /\ UNCHANGED <<batch, rt, link, first, next, minEpoch, slotEpoch, held, rd, status, epoch>>
        /\ birth' = [birth EXCEPT ![mine[t]] = epoch]
    BY <1>3 DEF AllocBirth, Goto, clientVars, slots, nodes, batches, given, PC, Retiring
  <2>2. \A h \in Objs : h = mine[t] => status[h] = "private"
    BY <1>0, ClientAssumption DEF Placed
  <2>3. \A h \in Objs : status[h] \in {"linked", "unlinked", "retired"} => birth'[h] = birth[h]
    BY <1>0, <2>1, <2>2 DEF TypeInv, TypeOK
  <2>4. ASSUME NEW s \in SlotIds, NEW h \in Objs, Protecting(s, h)' PROVE Protecting(s, h)
    <3>1. pc'[s[1]] = "check" => pc[s[1]] = "check"
      BY <1>0, <2>1 DEF TypeInv, TypeOK, SlotIds
    <3> QED
      BY <2>1, <2>4, <3>1 DEF Protecting
  <2> QED
    BY <1>0, <1>1, <2>1, <2>3, <2>4, ShieldOutside
<1>4. CASE Rideable(t)
  <2>1. /\ pc[t] = "idle" /\ UNCHANGED pc /\ "idle" \in PC \ Retiring
        /\ UNCHANGED <<batch, rt, link, first, next, minEpoch, birth, slotEpoch, held, rd, epoch>>
    BY <1>4 DEF Rideable, slots, nodes, batches, given, PC, Retiring
  <2>2. pc' = [pc EXCEPT ![t] = "idle"]
    BY <1>0, <2>1 DEF TypeInv, TypeOK
  <2>3. ASSUME NEW h \in Objs
        PROVE  /\ status[h] \in {"linked", "unlinked", "retired"} =>
                      status'[h] \in {"linked", "unlinked", "retired"}
               /\ status'[h] = "retired" <=> status[h] = "retired"
    <3>1. CASE Discard(t)
      BY <1>0, <3>1 DEF Discard, TypeInv, TypeOK, ClientTypeOK, Placed
    <3>2. ASSUME NEW c \in Cells, Link(t, c)
          PROVE  /\ status[h] \in {"linked", "unlinked", "retired"} =>
                        status'[h] \in {"linked", "unlinked", "retired"}
                 /\ status'[h] = "retired" <=> status[h] = "retired"
      BY <1>0, <3>2 DEF Link, TypeInv, TypeOK, ClientTypeOK, Placed
    <3>3. ASSUME NEW c \in Cells, Unlink(t, c)
          PROVE  /\ status[h] \in {"linked", "unlinked", "retired"} =>
                        status'[h] \in {"linked", "unlinked", "retired"}
                 /\ status'[h] = "retired" <=> status[h] = "retired"
      BY <1>0, <3>3 DEF Unlink, TypeInv, TypeOK, ClientTypeOK, Placed
    <3> QED
      BY <1>4, <3>1, <3>2, <3>3 DEF Rideable
  <2>4. \A s \in SlotIds, h \in Objs : Protecting(s, h)' => Protecting(s, h)
    BY <2>1 DEF Protecting
  <2> QED
    BY <1>0, <1>1, <2>1, <2>2, <2>3, <2>4, ShieldOutside
<1> QED
  BY <1>2, <1>3, <1>4

\* A node in a cell at the epoch of the slot is as old as the slot.
LEMMA LoadedGuarded ==
  ASSUME TypeInv, Placed, Clock, NEW t \in Tasks, NEW j \in Idx, NEW h \in Objs,
         NEW c \in Cells, cell[c] = h, epoch = slotEpoch[t][j]
  PROVE  birth[h] <= slotEpoch[t][j] /\ status[h] = "linked"
BY ClientAssumption DEF Placed, Clock

\* read loads a pointer: at the epoch of its slot, the node is guarded.
LEMMA ShieldBegin ==
  ASSUME Accounts, Shield, NEW t \in Tasks, NEW c \in Cells, NEW j \in Idx,
         Read(t, c, j) \/ Reserve(t, c, j)
  PROVE  MinEpochs' /\ HeldGuarded' /\ OldEnough'
<1>0. TypeInv /\ Placed /\ Clock
  BY DEF Accounts, Shield
<1>1. /\ Forget(t, {j}) /\ pc[t] = "idle"
      /\ pc' = [pc EXCEPT ![t] = "check"] /\ "check" \in PC \ Retiring /\ "idle" \notin Retiring
      /\ UNCHANGED <<batch, rt, link, first, next, minEpoch, status, birth, slotEpoch, epoch>>
      /\ \E op \in {"read", "reserve"} :
            rd' = [rd EXCEPT ![t] = [op |-> op, idx |-> j, src |-> c,
                                     ptr |-> cell[c], curr |-> 0, succ |-> NULL]]
  BY DEF Read, Reserve, Goto, slots, nodes, batches, clientVars, PC, Retiring
<1>2. /\ rd'[t].idx = j /\ rd'[t].ptr = cell[c]
      /\ \A u \in Tasks \ {t} : rd'[u] = rd[u]
  BY <1>0, <1>1 DEF TypeInv, TypeOK
<1>3. /\ held'[t][j] = NULL /\ \A u \in Tasks \ {t} : held'[u] = held[u]
      /\ \A i \in Idx \ {j} : held'[t][i] = held[t][i]
  BY <1>0, <1>1, ForgetHeld
<1>4. ASSUME NEW i \in Idx, NEW h \in Objs, Protecting(<<t, i>>, h)'
      PROVE  \/ Protecting(<<t, i>>, h)
             \/ birth[h] <= slotEpoch[t][i] /\ status[h] = "linked"
  <2>1. CASE i = j
    <3>1. cell[c] = h /\ epoch = slotEpoch[t][i]
      BY <1>1, <1>2, <1>3, <1>4, <2>1, ClientAssumption DEF Protecting
    <3> QED
      BY <1>0, <3>1, LoadedGuarded
  <2>2. CASE i # j
    BY <1>1, <1>2, <1>3, <1>4, <2>2 DEF Protecting
  <2> QED
    BY <2>1, <2>2
<1> QED
  BY <1>0, <1>1, <1>2, <1>3, <1>4, ShieldReading

\* The same in a later iteration of read.
LEMMA ShieldReadLoad ==
  ASSUME Accounts, Shield, NEW t \in Tasks, ReadLoad(t)
  PROVE  MinEpochs' /\ HeldGuarded' /\ OldEnough'
<1>0. TypeInv /\ Placed /\ Clock
  BY DEF Accounts, Shield
<1>1. /\ pc[t] = "load"
      /\ pc' = [pc EXCEPT ![t] = "check"] /\ "check" \in PC \ Retiring /\ "load" \notin Retiring
      /\ UNCHANGED <<batch, rt, link, first, next, minEpoch, status, birth, slotEpoch, epoch, held>>
      /\ rd' = [rd EXCEPT ![t].ptr = cell[rd[t].src]]
  BY DEF ReadLoad, Goto, slots, nodes, batches, clientVars, given, PC, Retiring
<1>2. PICK c \in Cells : c = rd[t].src
  BY <1>0, <1>1 DEF TypeInv, ReadControl
<1>3. rd'[t].ptr = cell[c] /\ \A u \in Tasks \ {t} : rd'[u] = rd[u]
  BY <1>0, <1>1, <1>2 DEF TypeInv, TypeOK, ReadLocals
<1>4. ASSUME NEW i \in Idx, NEW h \in Objs, Protecting(<<t, i>>, h)'
      PROVE  \/ Protecting(<<t, i>>, h)
             \/ birth[h] <= slotEpoch[t][i] /\ status[h] = "linked"
  <2>1. CASE held[t][i] = h
    BY <1>1, <1>4, <2>1 DEF Protecting
  <2>2. CASE held[t][i] # h
    <3>1. cell[c] = h /\ epoch = slotEpoch[t][i]
      BY <1>1, <1>3, <1>4, <2>2 DEF Protecting
    <3> QED
      BY <1>0, <3>1, LoadedGuarded
  <2> QED
    BY <2>1, <2>2
<1> QED
  BY <1>0, <1>1, <1>3, <1>4, ShieldReading

\* read returns what its slot protected already.
LEMMA ShieldReturn ==
  ASSUME Accounts, Shield, NEW t \in Tasks,
         CheckEpoch(t) \/ Validate(t) \/ UpdReload(t) \/ Clear(t)
  PROVE  MinEpochs' /\ HeldGuarded' /\ OldEnough'
<1>0. TypeInv
  BY DEF Accounts
<1>1. pc[t] \in {"check", "validate", "upd_reload", "idle"} /\ pc[t] \notin Retiring
  BY DEF CheckEpoch, Validate, UpdReload, Clear, Retiring
<1>2. \E l \in {"upd", "idle", "validate", "upd_epoch", "clear"} : pc' = [pc EXCEPT ![t] = l]
  BY DEF CheckEpoch, Validate, UpdReload, Clear, Goto
<1>3. PICK l \in PC \ Retiring : pc' = [pc EXCEPT ![t] = l] /\ l # "check"
  <2>1. {"upd", "idle", "validate", "upd_epoch", "clear"} \subseteq PC \ Retiring
    BY DEF PC, Retiring
  <2> QED
    BY <1>2, <2>1
<1>4. /\ UNCHANGED <<batch, rt, link, first, next, minEpoch, status, birth, slotEpoch, epoch>>
      /\ \A u \in Tasks \ {t} : rd'[u] = rd[u]
  BY <1>0 DEF CheckEpoch, Validate, UpdReload, Clear, slots, nodes, batches,
              clientVars, TypeInv, TypeOK
<1>5. \A u \in Tasks \ {t} : held'[u] = held[u]
  <2>1. Clear(t) => \A u \in Tasks \ {t} : held'[u] = held[u]
    BY <1>0, ForgetHeld DEF Clear
  <2> QED
    BY <1>0, <2>1 DEF CheckEpoch, Validate, UpdReload, given, TypeInv, TypeOK
<1>6. ASSUME NEW j \in Idx, held'[t][j] # held[t][j]
      PROVE  \/ held'[t][j] = NULL
             \/ /\ pc[t] = "check" /\ rd[t].op = "read" /\ rd[t].idx = j
                /\ rd[t].ptr = held'[t][j] /\ epoch = slotEpoch[t][j]
  <2>1. CASE CheckEpoch(t)
    <3> PICK i \in Idx : i = rd[t].idx
      BY <1>0 DEF TypeInv, TypeOK, ReadLocals
    <3>1. /\ held' = [held EXCEPT ![t][i] = rd[t].ptr] /\ rd[t].op = "read"
          /\ epoch = slotEpoch[t][i] /\ pc[t] = "check"
      BY <1>6, <2>1 DEF CheckEpoch, given
    <3> QED
      BY <1>0, <1>6, <3>1 DEF TypeInv, TypeOK
  <2>2. CASE Clear(t)
    BY <1>0, <2>2, ForgetHeld DEF Clear
  <2>3. CASE Validate(t) \/ UpdReload(t)
    BY <1>6, <2>3 DEF Validate, UpdReload, given
  <2> QED
    BY <2>1, <2>2, <2>3
<1>7. ASSUME NEW j \in Idx, NEW h \in Objs, Protecting(<<t, j>>, h)'
      PROVE  Protecting(<<t, j>>, h)
  <2>1. pc'[t] # "check"
    BY <1>0, <1>3 DEF TypeInv, TypeOK
  <2>2. held'[t][j] = h /\ first[t][j] # INVPTR
    BY <1>4, <1>7, <2>1 DEF Protecting
  <2> QED
    BY <1>6, <2>2, ClientAssumption DEF Protecting
<1> QED
  BY <1>0, <1>1, <1>3, <1>4, <1>5, <1>7, ShieldReading

\* do_update publishes an epoch; the slot protects nothing meanwhile.
LEMMA ShieldUpdEpoch ==
  ASSUME Accounts, Shield, NEW t \in Tasks, UpdEpoch(t)
  PROVE  MinEpochs' /\ HeldGuarded' /\ OldEnough'
<1>0. TypeInv /\ Clock /\ Flow
  BY DEF Accounts, Shield
<1> PICK j \in Idx : j = rd[t].idx
  BY <1>0, EpochTypes
<1>1. /\ pc[t] = "upd_epoch" /\ pc[t] \notin Retiring
      /\ slotEpoch' = [slotEpoch EXCEPT ![t][j] = rd[t].curr]
      /\ pc' = [pc EXCEPT ![t] = IF rd[t].op = "read" THEN "load" ELSE "check"]
      /\ UNCHANGED <<batch, rt, link, first, next, minEpoch, status, birth, held, rd, epoch>>
  BY DEF UpdEpoch, Goto, nodes, batches, clientVars, given, Retiring
<1>2. PICK l \in PC \ Retiring : /\ pc' = [pc EXCEPT ![t] = l]
                                 /\ l = IF rd[t].op = "read" THEN "load" ELSE "check"
  BY <1>1 DEF PC, Retiring
<1>3. /\ slotEpoch'[t][j] = rd[t].curr /\ slotEpoch[t][j] <= rd[t].curr /\ rd[t].curr \in Nat
      /\ \A i \in Idx \ {j} : slotEpoch'[t][i] = slotEpoch[t][i]
      /\ \A u \in Tasks \ {t} : slotEpoch'[u] = slotEpoch[u]
  BY <1>0, <1>1, EpochTypes DEF Clock, TypeInv, TypeOK
<1>4. \A u \in Tasks, i \in Idx :
        /\ slotEpoch[u][i] \in Nat /\ slotEpoch'[u][i] \in Nat
        /\ slotEpoch[u][i] <= slotEpoch'[u][i]
  <2>1. \A u \in Tasks, i \in Idx : slotEpoch[u][i] \in Nat /\ slotEpoch[u][i] <= slotEpoch[u][i]
    BY <1>0, EpochTypes
  <2> QED
    BY <1>3, <2>1
<1>5. held[t][j] = NULL /\ (pc'[t] = "check" => rd[t].op # "read")
  BY <1>0, <1>1, <1>2 DEF Flow, ReadFlow, TypeInv, TypeOK, ReadLocals, Retiring
<1>6. ASSUME NEW s \in SlotIds, NEW h \in Objs, Protecting(s, h)'
      PROVE  Protecting(s, h) /\ slotEpoch'[s[1]][s[2]] = slotEpoch[s[1]][s[2]]
  <2>1. s[1] \in Tasks /\ s[2] \in Idx
    BY DEF SlotIds
  <2>2. CASE s[1] = t
    BY <1>1, <1>3, <1>5, <1>6, <2>1, <2>2, ClientAssumption DEF Protecting
  <2>3. CASE s[1] # t
    <3>1. pc'[s[1]] = pc[s[1]]
      BY <1>0, <1>1, <2>1, <2>3 DEF TypeInv, TypeOK
    <3> QED
      BY <1>1, <1>3, <1>6, <2>1, <2>3, <3>1 DEF Protecting
  <2> QED
    BY <2>2, <2>3
<1> QED
  BY <1>0, <1>1, <1>2, <1>4, <1>6, ShieldOutside

\* A slot protects no more when t moves on and no slot but z changes.
LEMMA ProtectingSlot ==
  ASSUME TypeInv, NEW t \in Tasks, NEW l \in PC \ {"check"}, pc' = [pc EXCEPT ![t] = l],
         UNCHANGED <<held, slotEpoch, epoch>>,
         \A u \in Tasks \ {t} : rd'[u] = rd[u],
         NEW s \in SlotIds, At(s)' = At(s), NEW h \in Objs, Protecting(s, h)'
  PROVE  Protecting(s, h)
<1>1. pc'[t] = l /\ (\A u \in Tasks \ {t} : pc'[u] = pc[u]) /\ s[1] \in Tasks
  BY DEF TypeInv, TypeOK, SlotIds
<1>2. CASE s[1] = t
  BY <1>1, <1>2 DEF Protecting, At
<1>3. CASE s[1] # t
  BY <1>1, <1>3 DEF Protecting, At
<1> QED
  BY <1>2, <1>3

\* Nothing is freed.
LEMMA NoneFreed ==
  ASSUME TypeInv, UNCHANGED status
  PROVE  status' = [o \in Objs |-> IF o \in Members({}) THEN "free" ELSE status[o]]
BY DEF Members, TypeInv, TypeOK, ClientTypeOK

\* The batches in a list of t are not in flight.
LEMMA ListedIdle ==
  ASSUME TypeInv, Books, NEW t \in Tasks, NEW R, R = list[t] \/ R = {}
  PROVE  \A r \in R : Flight(r) = {} /\ \A u \in Tasks : ~Building(u, r)
<1>1. ASSUME NEW r \in R PROVE Flight(r) = {} /\ \A u \in Tasks : ~Building(u, r)
  <2>1. r \in Objs /\ IsBatch(r) /\ refs[r] = 0 /\ \A u \in Tasks : ~Building(u, r)
    BY <1>1 DEF Books, Queued, TypeInv, TypeOK
  <2>2. refs[r] = Cardinality(Flight(r)) /\ IsFiniteSet(Flight(r))
    BY <2>1, FlightFinite DEF Books, Counted, TypeInv
  <2> QED
    BY <2>1, <2>2, FS_EmptySet
<1> QED
  BY <1>1

\* do_update takes the list of a slot that protects nothing.
LEMMA ShieldUpdDetach ==
  ASSUME Accounts, Shield, NEW t \in Tasks, UpdDetach(t)
  PROVE  MinEpochs' /\ HeldGuarded' /\ OldEnough'
<1>0. TypeInv /\ Books /\ WorkControl
  BY DEF Accounts, Flow
<1> PICK j \in Idx : j = rd[t].idx
  BY <1>0, EpochTypes
<1> PICK R : R = IF first[t][j] \in Objs /\ CacheFull(t) THEN list[t] ELSE {}
  OBVIOUS
<1>1. /\ pc[t] = "upd" /\ pc[t] \notin Retiring /\ FreeList(R)
      /\ UNCHANGED <<batch, rt, link, next, minEpoch, birth, held, rd, epoch, slotEpoch>>
      /\ \E l \in {"upd_epoch", "trav", "upd_null"} : pc' = [pc EXCEPT ![t] = l]
  BY DEF UpdDetach, nodes, batches, given, Goto, Retiring
<1>2. PICK l \in PC \ Retiring : pc' = [pc EXCEPT ![t] = l] /\ l # "check"
  BY <1>1 DEF PC, Retiring
<1>3. \A r \in R : Flight(r) = {} /\ \A u \in Tasks : ~Building(u, r)
  BY <1>0, ListedIdle
<1>4. /\ \A s \in SlotIds \ {<<t, j>>} : Chain(s)' = Chain(s) /\ At(s)' = At(s)
      /\ \/ At(<<t, j>>)' = NULL /\ UNCHANGED <<first, work>>
         \/ At(<<t, j>>)' = INVPTR
      /\ Chain(<<t, j>>)' = {}
  BY <1>0, BooksUpdDetach
<1>5. ASSUME NEW s \in SlotIds
      PROVE  \/ Chain(s)' = Chain(s) /\ \A h \in Objs : Protecting(s, h)' => Protecting(s, h)
             \/ Chain(s)' = {} /\ \A h \in Objs : ~Protecting(s, h)'
  <2>1. At(s)' = At(s) => \A h \in Objs : Protecting(s, h)' => Protecting(s, h)
    BY <1>0, <1>1, <1>2, ProtectingSlot
  <2>2. At(s)' = INVPTR => \A h \in Objs : ~Protecting(s, h)'
    BY DEF At, Protecting
  <2>3. UNCHANGED first => Chain(s)' = Chain(s) /\ At(s)' = At(s)
    BY <1>1 DEF Chain, At
  <2> QED
    BY <1>4, <2>1, <2>2, <2>3
<1>6. status' = [o \in Objs |-> IF o \in Members(R) THEN "free" ELSE status[o]]
  BY <1>1 DEF FreeList, Free
<1> QED
  BY <1>0, <1>1, <1>2, <1>3, <1>5, <1>6, ShieldSlots

\* do_update opens the slot again: it protects nothing yet.
LEMMA ShieldUpdNull ==
  ASSUME Accounts, Shield, NEW t \in Tasks, UpdNull(t)
  PROVE  MinEpochs' /\ HeldGuarded' /\ OldEnough'
<1>0. TypeInv /\ Books /\ WorkControl /\ ReadFlow
  BY DEF Accounts, Flow
<1> PICK j \in Idx : j = rd[t].idx
  BY <1>0, EpochTypes
<1>1. /\ pc[t] = "upd_null" /\ pc[t] \notin Retiring
      /\ UNCHANGED <<batch, rt, link, minEpoch, birth, held, rd, epoch, slotEpoch, status>>
      /\ pc' = [pc EXCEPT ![t] = "upd_reload"]
      /\ "upd_reload" \in PC \ Retiring /\ "upd_reload" # "check"
  BY DEF UpdNull, nodes, batches, given, clientVars, Goto, PC, Retiring
<1>2. /\ \A s \in SlotIds \ {<<t, j>>} : Chain(s)' = Chain(s) /\ At(s)' = At(s)
      /\ Chain(<<t, j>>)' = {}
  BY <1>0, BooksUpdNull
<1>3. held[t][j] = NULL
  BY <1>0, <1>1 DEF ReadFlow, WorkControl, TypeInv, TypeOK, ReadLocals, Retiring
<1>4. \A h \in Objs : ~Protecting(<<t, j>>, h)'
  <2>1. pc'[t] = "upd_reload"
    BY <1>0, <1>1 DEF TypeInv, TypeOK
  <2> QED
    BY <1>1, <1>3, <2>1, ClientAssumption DEF Protecting
<1>5. ASSUME NEW s \in SlotIds
      PROVE  \/ Chain(s)' = Chain(s) /\ \A h \in Objs : Protecting(s, h)' => Protecting(s, h)
             \/ Chain(s)' = {} /\ \A h \in Objs : ~Protecting(s, h)'
  <2>1. At(s)' = At(s) => \A h \in Objs : Protecting(s, h)' => Protecting(s, h)
    BY <1>0, <1>1, ProtectingSlot
  <2> QED
    BY <1>2, <1>4, <2>1
<1> QED
  BY <1>0, <1>1, <1>5, NoneFreed, ShieldSlots

\* clear_all leaves a slot: it protects nothing from now on.
LEMMA ShieldClearSlot ==
  ASSUME Accounts, Shield, NEW t \in Tasks, ClearSlot(t)
  PROVE  MinEpochs' /\ HeldGuarded' /\ OldEnough'
<1>0. TypeInv /\ Books
  BY DEF Accounts
<1> PICK j \in Idx : j = rd[t].idx
  BY <1>0, EpochTypes
<1>1. /\ pc[t] = "clear" /\ pc[t] \notin Retiring
      /\ UNCHANGED <<batch, rt, link, minEpoch, birth, held, epoch, slotEpoch, status>>
      /\ \A u \in Tasks \ {t} : rd'[u] = rd[u]
      /\ \E l \in {"clear", "free", "trav"} : pc' = [pc EXCEPT ![t] = l]
  BY <1>0 DEF ClearSlot, nodes, batches, given, clientVars, Goto, Retiring, TypeInv, TypeOK
<1>2. PICK l \in PC \ Retiring : pc' = [pc EXCEPT ![t] = l] /\ l # "check"
  BY <1>1 DEF PC, Retiring
<1>3. /\ \A s \in SlotIds \ {<<t, j>>} : Chain(s)' = Chain(s) /\ At(s)' = At(s)
      /\ At(<<t, j>>)' = INVPTR /\ Chain(<<t, j>>)' = {}
  BY <1>0, BooksClearSlot
<1>4. \A h \in Objs : ~Protecting(<<t, j>>, h)'
  BY <1>3 DEF At, Protecting
<1>5. ASSUME NEW s \in SlotIds
      PROVE  \/ Chain(s)' = Chain(s) /\ \A h \in Objs : Protecting(s, h)' => Protecting(s, h)
             \/ Chain(s)' = {} /\ \A h \in Objs : ~Protecting(s, h)'
  <2>1. At(s)' = At(s) => \A h \in Objs : Protecting(s, h)' => Protecting(s, h)
    BY <1>0, <1>1, <1>2, ProtectingSlot
  <2> QED
    BY <1>3, <1>4, <2>1
<1> QED
  BY <1>0, <1>1, <1>2, <1>5, NoneFreed, ShieldSlots

\* A traversal changes no slot; the batches that are freed have no node in one.
LEMMA ShieldWalk ==
  ASSUME Accounts, Shield, NEW t \in Tasks, ClearFree(t) \/ Traverse(t)
  PROVE  MinEpochs' /\ HeldGuarded' /\ OldEnough'
<1>0. TypeInv /\ Books
  BY DEF Accounts
<1>1. /\ pc[t] \in {"free", "trav", "drop"} /\ pc[t] \notin Retiring
      /\ UNCHANGED <<batch, rt, link, next, first, minEpoch, birth, held, epoch, slotEpoch>>
      /\ \A u \in Tasks \ {t} : rd'[u] = rd[u]
      /\ \E l \in {"idle", "free", "trav", "drop", "upd_null"} : pc' = [pc EXCEPT ![t] = l]
  BY <1>0 DEF ClearFree, Traverse, TravLoad, TravDrop, WalkOn, slots, nodes, batches, given, Goto, Retiring, TypeInv, TypeOK
<1>2. PICK l \in PC \ Retiring : pc' = [pc EXCEPT ![t] = l] /\ l # "check"
  BY <1>1 DEF PC, Retiring
<1>3. \A s \in SlotIds : Chain(s)' = Chain(s) /\ At(s)' = At(s)
  BY <1>1 DEF Chain, At
<1>4. \A s \in SlotIds : Chain(s)' = Chain(s)
                         /\ \A h \in Objs : Protecting(s, h)' => Protecting(s, h)
  BY <1>0, <1>1, <1>2, <1>3, ProtectingSlot
<1>5. CASE Traverse(t)
  <2> PICK R : R = {}
    OBVIOUS
  <2>1. status' = [o \in Objs |-> IF o \in Members(R) THEN "free" ELSE status[o]]
    BY <1>0, <1>5, NoneFreed DEF Traverse, TravLoad, TravDrop, clientVars
  <2>2. \A r \in R : Flight(r) = {} /\ \A u \in Tasks : ~Building(u, r)
    OBVIOUS
  <2> QED
    BY <1>0, <1>1, <1>2, <1>4, <2>1, <2>2, ShieldSlots
<1>6. CASE ClearFree(t)
  <2> PICK R : R = list[t]
    OBVIOUS
  <2>1. status' = [o \in Objs |-> IF o \in Members(R) THEN "free" ELSE status[o]]
    BY <1>6 DEF ClearFree, FreeList, Free
  <2>2. \A r \in R : Flight(r) = {} /\ \A u \in Tasks : ~Building(u, r)
    BY <1>0, ListedIdle
  <2> QED
    BY <1>0, <1>1, <1>2, <1>4, <2>1, <2>2, ShieldSlots
<1> QED
  BY <1>5, <1>6

\* A slot that may protect a node of the batch of t is not older than the batch.
LEMMA NotOlder ==
  ASSUME TypeInv, Shield, NEW t \in Tasks, NEW r \in Objs, Building(t, r),
         NEW s \in SlotIds, NEW h \in Objs, Guarded(s, h),
         status[h] = "retired", link[h] = r
  PROVE  ~Older(t, s)
<1>1. minEpoch[t] <= birth[h] /\ birth[h] <= slotEpoch[s[1]][s[2]]
  BY DEF Shield, MinEpochs, Members, Guarded
<1>2. minEpoch[t] \in Nat /\ birth[h] \in Nat /\ slotEpoch[s[1]][s[2]] \in Nat
  BY EpochTypes DEF SlotIds
<1> QED
  BY <1>1, <1>2 DEF Older

\* Steps of try_retire keep the slots guarded when they give up their hold on
\* inactive and on older slots only, and push nodes on slots that are no older.
LEMMA ShieldTry ==
  ASSUME TypeInv, Shield, NEW t \in Tasks, pc[t] \in Retiring,
         NEW l \in Retiring \union {"idle"}, pc' = [pc EXCEPT ![t] = l],
         UNCHANGED <<batch, link, minEpoch, birth, slotEpoch, status, held, epoch, rd>>,
         \A u \in Tasks \ {t} : rt'[u] = rt[u],
         \A s \in SlotIds : /\ At(s)' = INVPTR <=> At(s) = INVPTR
                            /\ Chain(s) \subseteq Chain(s)',
         \A s \in SlotIds : \A n \in Chain(s)' :
            n \in Chain(s) \/ (Building(t, link[n]) /\ link[n] \in Objs /\ ~Older(t, s)),
         \A s \in SlotIds, r \in Objs :
            At(s) # INVPTR /\ ~Older(t, s) /\ Hooking(t, s, r) => Hooked(s, r)',
         \A s \in SlotIds : l = "ins_cas" /\ rt'[t].asg[1][2] = s => ~Older(t, s)
  PROVE  MinEpochs' /\ HeldGuarded' /\ OldEnough'
<1>1. pc'[t] = l /\ l # "check" /\ \A u \in Tasks \ {t} : pc'[u] = pc[u]
  BY DEF TypeInv, TypeOK, Retiring
<1>2. \A u \in Tasks, r \in Objs : Building(u, r)' <=> Building(u, r)
  BY DEF Building
<1>3. MinEpochs'
  BY <1>2 DEF Shield, MinEpochs, Members
<1>4. ASSUME NEW s \in SlotIds, NEW h \in Objs, Protecting(s, h)'
      PROVE  Guarded(s, h)'
  <2>1. At(s) # INVPTR /\ Protecting(s, h)
    BY <1>1, <1>4 DEF Protecting, At
  <2>2. Guarded(s, h)
    BY <2>1 DEF Shield, HeldGuarded
  <2> PICK r \in Objs : r = link[h]
    BY DEF TypeInv, TypeOK
  <2>3. ASSUME status[h] = "retired" PROVE Hooked(s, r)'
    <3>1. Hooked(s, r)
      BY <2>2, <2>3 DEF Guarded
    <3>2. CASE \E n \in Chain(s) : link[n] = r
      BY <3>2 DEF Hooked
    <3>3. ASSUME NEW u \in Tasks \ {t}, Hooking(u, s, r) PROVE Hooked(s, r)'
      BY <1>1, <1>2, <3>3 DEF Hooked, Hooking
    <3>4. CASE Hooking(t, s, r)
      <4>1. Building(t, r)
        BY <3>4 DEF Hooking
      <4>2. ~Older(t, s)
        BY <2>2, <2>3, <4>1, NotOlder
      <4> QED
        BY <2>1, <3>4, <4>2
    <3> QED
      BY <3>1, <3>2, <3>3, <3>4 DEF Hooked
  <2> QED
    BY <2>2, <2>3, GuardedKept DEF Guarded
<1>5. ASSUME NEW s \in SlotIds, NEW n \in Chain(s)'
      PROVE  \E m \in Objs : /\ status[m] = "retired" /\ link[m] = link[n]
                             /\ birth[m] <= slotEpoch[s[1]][s[2]]
  <2>1. CASE n \in Chain(s)
    BY <2>1 DEF Shield, OldEnough
  <2>2. CASE Building(t, link[n]) /\ link[n] \in Objs /\ ~Older(t, s)
    <3> PICK r \in Objs : r = link[n]
      BY <2>2
    <3>1. PICK m \in Members({r}) : minEpoch[t] = birth[m]
      BY <2>2 DEF Shield, MinEpochs
    <3>2. birth[m] <= slotEpoch[s[1]][s[2]]
      <4>1. minEpoch[t] \in Nat /\ slotEpoch[s[1]][s[2]] \in Nat
        BY EpochTypes DEF SlotIds
      <4> QED
        BY <2>2, <3>1, <4>1 DEF Older
    <3> QED
      BY <3>1, <3>2 DEF Members
  <2> QED
    BY <1>5, <2>1, <2>2
<1>6. ASSUME NEW u \in Tasks, NEW s \in SlotIds, pc'[u] = "ins_cas", rt'[u].asg[1][2] = s
      PROVE  minEpoch[u] <= slotEpoch[s[1]][s[2]]
  <2>1. CASE u = t
    <3>1. minEpoch[t] \in Nat /\ slotEpoch[s[1]][s[2]] \in Nat /\ ~Older(t, s)
      BY <1>1, <1>6, <2>1, EpochTypes DEF SlotIds
    <3> QED
      BY <2>1, <3>1 DEF Older
  <2>2. CASE u # t
    BY <1>1, <1>6, <2>2 DEF Shield, OldEnough
  <2> QED
    BY <2>1, <2>2
<1>7. OldEnough'
  BY <1>5, <1>6 DEF OldEnough
<1> QED
  BY <1>3, <1>4, <1>7 DEF HeldGuarded

\* The order of the scan.
LEMMA BeforeAfter ==
  ASSUME NEW s \in SlotIds, NEW p \in SlotIds, ~Before(s, p), s # p
  PROVE  ~Before(s, After(p)) /\ After(p) # EndPos
<1> PICK i \in Tasks, j \in Idx : s = <<i, j>>
  BY DEF SlotIds
<1> PICK k \in Tasks, m \in Idx : p = <<k, m>>
  BY DEF SlotIds
<1>1. /\ i \in Int /\ j \in Int /\ k \in Int /\ m \in Int /\ HRNum \in Int /\ TaskNum \in Int
      /\ i <= TaskNum /\ k <= TaskNum /\ 1 <= j /\ j <= HRNum /\ 1 <= m /\ m <= HRNum
  BY ParamAssumption, ClientAssumption DEF Idx, Tasks
<1>2. i # k \/ j # m
  OBVIOUS
<1>3. ~(i < k) /\ ~(i = k /\ j < m)
  BY DEF Before
<1> QED
  BY <1>1, <1>2, <1>3 DEF Before, After, EndPos

\* The first loop holds the slots that it has yet to see or has assigned.
LEMMA HookingScanned ==
  ASSUME TypeInv, NEW t \in Tasks, pc[t] \in {"scan", "scan_epoch"},
         NEW p \in SlotIds, p = rt[t].pos, NEW s \in SlotIds, NEW r, Hooking(t, s, r),
         rt'[t].pos = After(p),
         pc'[t] = IF After(p) = EndPos THEN "insert" ELSE "scan",
         UNCHANGED batch,
         \A k \in 1 .. Len(rt[t].asg) : \E i \in 1 .. Len(rt'[t].asg) :
            rt'[t].asg[i][2] = rt[t].asg[k][2],
         s # p \/ \E i \in 1 .. Len(rt'[t].asg) : rt'[t].asg[i][2] = s
  PROVE  Hooking(t, s, r)'
<1>1. Building(t, r)'
  BY DEF Hooking, Building
<1>2. CASE \E i \in 1 .. Len(rt'[t].asg) : rt'[t].asg[i][2] = s
  BY <1>1, <1>2 DEF Hooking
<1>3. CASE ~Before(s, p) /\ s # p
  <2>1. ~Before(s, After(p)) /\ After(p) # EndPos
    BY <1>3, BeforeAfter
  <2> QED
    BY <1>1, <2>1 DEF Hooking
<1> QED
  BY <1>2, <1>3 DEF Hooking, Retiring

\* The second loop drops the slot at its head.
LEMMA HookingTail ==
  ASSUME TypeInv, NEW t \in Tasks, pc[t] \in {"insert", "ins_epoch", "ins_cas"},
         rt[t].asg # <<>>, rt'[t].asg = Tail(rt[t].asg), pc'[t] = "insert",
         UNCHANGED batch, NEW s \in SlotIds, NEW r, Hooking(t, s, r),
         s # Head(rt[t].asg)[2]
  PROVE  Hooking(t, s, r)'
<1>1. Building(t, r)'
  BY DEF Hooking, Building
<1>2. PICK k \in 1 .. Len(rt[t].asg) : rt[t].asg[k][2] = s
  BY DEF Hooking, Retiring
<1>3. /\ k # 1 /\ Len(rt[t].asg) \in Nat
      /\ Len(rt'[t].asg) = Len(rt[t].asg) - 1
      /\ \A i \in 1 .. Len(rt[t].asg) - 1 : rt'[t].asg[i] = rt[t].asg[i + 1]
  BY <1>2, AssignmentType
<1>4. k - 1 \in 1 .. Len(rt'[t].asg) /\ rt'[t].asg[k - 1][2] = s
  BY <1>2, <1>3
<1> QED
  BY <1>1, <1>4 DEF Hooking

\* The same locals in the second loop hold the same slots.
LEMMA HookingSame ==
  ASSUME NEW t \in Tasks, pc[t] \in {"insert", "ins_epoch", "ins_cas"},
         rt'[t].asg = rt[t].asg, UNCHANGED batch,
         NEW s, NEW r, Hooking(t, s, r)
  PROVE  Hooking(t, s, r)'
<1>1. \E k \in 1 .. Len(rt[t].asg) : rt[t].asg[k][2] = s
  BY DEF Hooking, Retiring
<1> QED
  BY <1>1 DEF Hooking, Building

\* Steps of the two loops that push nothing.
LEMMA ShieldLoop ==
  ASSUME TypeInv, Shield, Books, NEW t \in Tasks,
         pc[t] \in {"scan", "scan_epoch", "insert", "ins_epoch", "ins_cas"},
         NEW l \in Retiring \union {"idle"}, pc' = [pc EXCEPT ![t] = l],
         UNCHANGED <<batch, link, minEpoch, birth, slotEpoch, status, held, epoch, rd, first>>,
         \A u \in Tasks \ {t} : rt'[u] = rt[u],
         \A s \in SlotIds : Chain(s)' = Chain(s),
         \A s \in SlotIds, r \in Objs :
            At(s) # INVPTR /\ ~Older(t, s) /\ Hooking(t, s, r) => Hooking(t, s, r)',
         \A s \in SlotIds : l = "ins_cas" /\ rt'[t].asg[1][2] = s => ~Older(t, s)
  PROVE  MinEpochs' /\ HeldGuarded' /\ OldEnough'
<1>1. \A s \in SlotIds : At(s)' = At(s)
  BY DEF At
<1>2. \A s \in SlotIds, r \in Objs :
         At(s) # INVPTR /\ ~Older(t, s) /\ Hooking(t, s, r) => Hooked(s, r)'
  BY DEF Hooked
<1>3. pc[t] \in Retiring
  BY DEF Retiring
<1> QED
  BY <1>1, <1>2, <1>3, ShieldTry

\* try_retire skips inactive slots: they protect nothing.
LEMMA ShieldScanFirst ==
  ASSUME Accounts, Shield, NEW t \in Tasks, ScanFirst(t)
  PROVE  MinEpochs' /\ HeldGuarded' /\ OldEnough'
<1>0. TypeInv /\ Books
  BY DEF Accounts
<1>1. /\ pc[t] = "scan"
      /\ UNCHANGED <<batch, link, next, minEpoch, birth, slotEpoch, status, held, epoch, rd, first>>
  BY DEF ScanFirst, slots, nodes, batches, given, clientVars
<1> PICK p \in SlotIds : p = rt[t].pos
  BY <1>0, <1>1 DEF TypeInv, RetireControl
<1>2. \A s \in SlotIds : Chain(s)' = Chain(s)
  BY <1>1 DEF Chain
<1>3. CASE At(p) = INVPTR
  <2>1. Scanned(t, rt[t].asg)
    BY <1>3 DEF ScanFirst, At
  <2>2. PICK l \in {"insert", "scan"} :
            /\ pc' = [pc EXCEPT ![t] = l]
            /\ l = IF After(p) = EndPos THEN "insert" ELSE "scan"
    BY <2>1 DEF Scanned, Goto
  <2>3. /\ rt'[t].pos = After(p) /\ rt'[t].asg = rt[t].asg /\ pc'[t] = l
        /\ \A u \in Tasks \ {t} : rt'[u] = rt[u]
    BY <1>0, <2>1, <2>2 DEF Scanned, TypeInv, TypeOK, RetireLocals
  <2>4. ASSUME NEW s \in SlotIds, NEW r \in Objs, At(s) # INVPTR, Hooking(t, s, r)
        PROVE  Hooking(t, s, r)'
    <3>1. s # p
      BY <1>3, <2>4
    <3> QED
      BY <1>0, <1>1, <2>2, <2>3, <2>4, <3>1, HookingScanned
  <2>5. l \in Retiring \union {"idle"} /\ l # "ins_cas"
    BY DEF Retiring
  <2> QED
    BY <1>0, <1>1, <1>2, <2>2, <2>3, <2>4, <2>5, ShieldLoop
<1>4. CASE At(p) # INVPTR
  <2>1. pc' = [pc EXCEPT ![t] = "scan_epoch"] /\ UNCHANGED rt
    BY <1>4 DEF ScanFirst, At, Goto
  <2>2. pc'[t] = "scan_epoch" /\ "scan_epoch" \in Retiring
    BY <1>0, <2>1 DEF TypeInv, TypeOK, Retiring
  <2>3. \A s \in SlotIds, r \in Objs : Hooking(t, s, r) => Hooking(t, s, r)'
    BY <1>1, <2>1, <2>2 DEF Hooking, Building, Retiring
  <2> QED
    BY <1>0, <1>1, <1>2, <2>1, <2>2, <2>3, ShieldLoop
<1> QED
  BY <1>3, <1>4

\* try_retire skips slots older than the batch: they protect nothing in it.
LEMMA ShieldScanEpoch ==
  ASSUME Accounts, Shield, NEW t \in Tasks, ScanEpoch(t)
  PROVE  MinEpochs' /\ HeldGuarded' /\ OldEnough'
<1>0. TypeInv /\ Books
  BY DEF Accounts
<1>1. /\ pc[t] = "scan_epoch"
      /\ UNCHANGED <<batch, link, next, minEpoch, birth, slotEpoch, status, held, epoch, rd, first>>
  BY DEF ScanEpoch, slots, nodes, batches, given, clientVars
<1> PICK p \in SlotIds : p = rt[t].pos
  BY <1>0, <1>1 DEF TypeInv, RetireControl
<1> PICK n : n = batch[t][Len(rt[t].asg) + 1]
  OBVIOUS
<1>2. \A s \in SlotIds : Chain(s)' = Chain(s)
  BY <1>1 DEF Chain
<1>3. CASE ~Older(t, p) /\ Len(rt[t].asg) + 1 = Len(batch[t])
  <2>1. pc' = [pc EXCEPT ![t] = "idle"] /\ rt' = [rt EXCEPT ![t] = NoRetire]
    BY <1>3 DEF ScanEpoch, Goto
  <2>2. pc'[t] = "idle" /\ "idle" \notin Retiring /\ \A u \in Tasks \ {t} : rt'[u] = rt[u]
    BY <1>0, <2>1 DEF TypeInv, TypeOK, Retiring
  <2>3. \A s \in SlotIds, r \in Objs : Hooking(t, s, r) => Hooking(t, s, r)'
    BY <1>1, <2>2 DEF Hooking, Building
  <2> QED
    BY <1>0, <1>1, <1>2, <2>1, <2>2, <2>3, ShieldLoop
<1>4. ASSUME NEW asg, Scanned(t, asg),
             \A k \in 1 .. Len(rt[t].asg) : \E i \in 1 .. Len(asg) : asg[i][2] = rt[t].asg[k][2],
             Older(t, p) \/ \E i \in 1 .. Len(asg) : asg[i][2] = p
      PROVE  MinEpochs' /\ HeldGuarded' /\ OldEnough'
  <2>2. PICK l \in {"insert", "scan"} :
            /\ pc' = [pc EXCEPT ![t] = l]
            /\ l = IF After(p) = EndPos THEN "insert" ELSE "scan"
    BY <1>4 DEF Scanned, Goto
  <2>3. /\ rt'[t].pos = After(p) /\ rt'[t].asg = asg /\ pc'[t] = l
        /\ \A u \in Tasks \ {t} : rt'[u] = rt[u]
    BY <1>0, <1>4, <2>2 DEF Scanned, TypeInv, TypeOK, RetireLocals
  <2>4. ASSUME NEW s \in SlotIds, NEW r \in Objs, ~Older(t, s), Hooking(t, s, r)
        PROVE  Hooking(t, s, r)'
    <3>1. s # p \/ \E i \in 1 .. Len(rt'[t].asg) : rt'[t].asg[i][2] = s
      BY <1>4, <2>3, <2>4
    <3> QED
      BY <1>0, <1>1, <1>4, <2>2, <2>3, <2>4, <3>1, HookingScanned
  <2>5. l \in Retiring \union {"idle"} /\ l # "ins_cas"
    BY DEF Retiring
  <2> QED
    BY <1>0, <1>1, <1>2, <2>2, <2>3, <2>4, <2>5, ShieldLoop
<1>5. CASE Older(t, p)
  <2>1. Scanned(t, rt[t].asg)
    BY <1>5 DEF ScanEpoch
  <2> QED
    BY <1>4, <1>5, <2>1
<1>6. CASE ~Older(t, p) /\ Len(rt[t].asg) + 1 # Len(batch[t])
  <2> PICK e, asg : e = <<n, p>> /\ asg = Append(rt[t].asg, e)
    OBVIOUS
  <2>1. Scanned(t, asg)
    BY <1>6 DEF ScanEpoch
  <2>2. Len(asg) = Len(rt[t].asg) + 1 /\ Len(rt[t].asg) \in Nat
    BY <1>0, AssignmentType
  <2>3. asg[Len(asg)] = e /\ \A k \in 1 .. Len(rt[t].asg) : asg[k] = rt[t].asg[k]
    BY <1>0, <2>2, AssignmentType
  <2>4. asg[Len(asg)][2] = p /\ Len(asg) \in 1 .. Len(asg)
    BY <2>2, <2>3
  <2>5. \A k \in 1 .. Len(rt[t].asg) : k \in 1 .. Len(asg) /\ asg[k][2] = rt[t].asg[k][2]
    BY <2>2, <2>3
  <2> QED
    BY <1>4, <2>1, <2>4, <2>5
<1> QED
  BY <1>3, <1>5, <1>6

\* The slot at the head of the assignment turned out to be inactive or older.
LEMMA ShieldSkip ==
  ASSUME Accounts, Shield, NEW t \in Tasks, pc[t] \in {"insert", "ins_epoch", "ins_cas"},
         rt[t].asg # <<>>, NEW s \in SlotIds, s = Head(rt[t].asg)[2],
         At(s) = INVPTR \/ Older(t, s),
         rt' = [rt EXCEPT ![t].asg = Tail(@)], pc' = [pc EXCEPT ![t] = "insert"],
         UNCHANGED <<batch, link, next, minEpoch, birth, slotEpoch, status, held, epoch, rd, first>>
  PROVE  MinEpochs' /\ HeldGuarded' /\ OldEnough'
<1>0. TypeInv /\ Books
  BY DEF Accounts
<1>1. /\ rt'[t].asg = Tail(rt[t].asg) /\ pc'[t] = "insert"
      /\ \A u \in Tasks \ {t} : rt'[u] = rt[u]
  BY <1>0 DEF TypeInv, TypeOK, RetireLocals
<1>2. \A z \in SlotIds : Chain(z)' = Chain(z)
  BY DEF Chain
<1>3. ASSUME NEW z \in SlotIds, NEW r \in Objs, At(z) # INVPTR, ~Older(t, z), Hooking(t, z, r)
      PROVE  Hooking(t, z, r)'
  <2>1. z # s
    BY <1>3
  <2> QED
    BY <1>0, <1>1, <1>3, <2>1, HookingTail
<1>4. "insert" \in Retiring \union {"idle"} /\ "insert" # "ins_cas"
  BY DEF Retiring
<1> QED
  BY <1>0, <1>1, <1>2, <1>3, <1>4, ShieldLoop

\* try_retire goes on with the head of the assignment.
LEMMA ShieldSame ==
  ASSUME Accounts, Shield, NEW t \in Tasks, pc[t] \in {"insert", "ins_epoch", "ins_cas"},
         NEW l \in {"ins_epoch", "ins_cas"}, pc' = [pc EXCEPT ![t] = l],
         rt'[t].asg = rt[t].asg, \A u \in Tasks \ {t} : rt'[u] = rt[u],
         UNCHANGED <<batch, link, minEpoch, birth, slotEpoch, status, held, epoch, rd, first>>,
         \A z \in SlotIds : Chain(z)' = Chain(z),
         \A z \in SlotIds : l = "ins_cas" /\ rt[t].asg[1][2] = z => ~Older(t, z)
  PROVE  MinEpochs' /\ HeldGuarded' /\ OldEnough'
<1>1. \A z \in SlotIds, r \in Objs : Hooking(t, z, r) => Hooking(t, z, r)'
  BY HookingSame
<1>2. TypeInv /\ Books /\ l \in Retiring \union {"idle"}
  BY DEF Accounts, Retiring
<1> QED
  BY <1>1, <1>2, ShieldLoop

\* try_retire goes on with the head that it found in the slot.
LEMMA ShieldExpect ==
  ASSUME Accounts, Shield, NEW t \in Tasks, pc[t] \in {"insert", "ins_cas"},
         rt[t].asg # <<>>, NEW s \in SlotIds, s = Head(rt[t].asg)[2],
         NEW p, p = At(s), Expect(t, p),
         UNCHANGED <<batch, link, next, minEpoch, birth, slotEpoch, status, held, epoch, rd, first>>
  PROVE  MinEpochs' /\ HeldGuarded' /\ OldEnough'
<1>0. TypeInv
  BY DEF Accounts
<1>1. CASE p = INVPTR
  <2>1. rt' = [rt EXCEPT ![t].asg = Tail(@)] /\ pc' = [pc EXCEPT ![t] = "insert"]
    BY <1>1 DEF Expect, Goto
  <2> QED
    BY <1>1, <2>1, ShieldSkip
<1>2. CASE p # INVPTR
  <2>1. rt' = [rt EXCEPT ![t].prev = p] /\ pc' = [pc EXCEPT ![t] = "ins_epoch"]
    BY <1>2 DEF Expect, Goto
  <2>2. rt'[t].asg = rt[t].asg /\ \A u \in Tasks \ {t} : rt'[u] = rt[u]
    BY <1>0, <2>1 DEF TypeInv, TypeOK, RetireLocals
  <2>3. \A z \in SlotIds : Chain(z)' = Chain(z)
    BY DEF Chain
  <2> QED
    BY <2>1, <2>2, <2>3, ShieldSame
<1> QED
  BY <1>1, <1>2

\* try_retire loads the head of the slot.
LEMMA ShieldInsertLoad ==
  ASSUME Accounts, Shield, NEW t \in Tasks, InsertLoad(t)
  PROVE  MinEpochs' /\ HeldGuarded' /\ OldEnough'
<1>1. /\ pc[t] = "insert" /\ rt[t].asg # <<>>
      /\ UNCHANGED <<batch, link, next, minEpoch, birth, slotEpoch, status, held, epoch, rd, first>>
  BY DEF InsertLoad, slots, nodes, batches, given, clientVars
<1> PICK s \in SlotIds : s = Head(rt[t].asg)[2]
  BY <1>1, AssignmentType DEF Accounts
<1>2. PICK p : p = At(s) /\ Expect(t, p)
  BY DEF InsertLoad, At
<1> QED
  BY <1>1, <1>2, ShieldExpect

\* try_retire drops a slot that is older by now, or links the node.
LEMMA ShieldInsertEpoch ==
  ASSUME Accounts, Shield, NEW t \in Tasks, InsertEpoch(t)
  PROVE  MinEpochs' /\ HeldGuarded' /\ OldEnough'
<1>1. /\ pc[t] = "ins_epoch" /\ rt[t].asg # <<>>
      /\ UNCHANGED <<batch, link, minEpoch, birth, slotEpoch, status, held, epoch, rd, first>>
  BY DEF InsertEpoch, slots, batches, given, clientVars, Accounts, TypeInv, RetireControl
<1> PICK s \in SlotIds : s = Head(rt[t].asg)[2] /\ s = rt[t].asg[1][2]
  BY <1>1, AssignmentType DEF Accounts
<1>2. \A z \in SlotIds : Chain(z)' = Chain(z)
  BY BooksInsertEpoch DEF Accounts
<1>3. CASE Older(t, s)
  <2>1. /\ rt' = [rt EXCEPT ![t].asg = Tail(@)] /\ pc' = [pc EXCEPT ![t] = "insert"]
        /\ UNCHANGED next
    BY <1>3 DEF InsertEpoch, Goto
  <2> QED
    BY <1>1, <1>3, <2>1, ShieldSkip
<1>4. CASE ~Older(t, s)
  <2>1. UNCHANGED rt /\ pc' = [pc EXCEPT ![t] = "ins_cas"]
    BY <1>4 DEF InsertEpoch, Goto
  <2> QED
    BY <1>1, <1>2, <1>4, <2>1, ShieldSame
<1> QED
  BY <1>3, <1>4

\* The push hooks the batch to the slot.
LEMMA ShieldInsertCas ==
  ASSUME Accounts, Shield, NEW t \in Tasks, InsertCas(t)
  PROVE  MinEpochs' /\ HeldGuarded' /\ OldEnough'
<1>0. TypeInv /\ Books
  BY DEF Accounts
<1>1. /\ pc[t] = "ins_cas" /\ rt[t].asg # <<>>
      /\ UNCHANGED <<batch, link, next, minEpoch, birth, slotEpoch, status, held, epoch, rd>>
  BY <1>0 DEF InsertCas, nodes, batches, given, clientVars, TypeInv, RetireControl
<1> PICK n, s : n = Head(rt[t].asg)[1] /\ s = Head(rt[t].asg)[2]
  OBVIOUS
<1>2. s \in SlotIds /\ link[n] = Last(t) /\ Building(t, Last(t)) /\ Last(t) \in Objs
  BY <1>0, <1>1, AssignedHead
<1>3. s = rt[t].asg[1][2]
  BY <1>0, <1>1, AssignmentType
<1>4. CASE At(s) = rt[t].prev
  <2>1. /\ \A z \in SlotIds \ {s} : Chain(z)' = Chain(z) /\ At(z)' = At(z)
        /\ Chain(s)' = Chain(s) \union {n} /\ At(s) # INVPTR /\ At(s)' = n
        /\ InFlight' = InFlight \union {n}
    BY <1>0, <1>4, BooksPush
  <2>2. /\ rt' = [rt EXCEPT ![t].asg = Tail(@), ![t].adjs = @ + 1]
        /\ pc' = [pc EXCEPT ![t] = "insert"]
    BY <1>4 DEF InsertCas, Goto, At
  <2>3. /\ rt'[t].asg = Tail(rt[t].asg) /\ pc'[t] = "insert"
        /\ \A u \in Tasks \ {t} : rt'[u] = rt[u]
    BY <1>0, <2>2 DEF TypeInv, TypeOK, RetireLocals
  <2>4. ~Older(t, s)
    <3>1. minEpoch[t] <= slotEpoch[s[1]][s[2]]
      BY <1>1, <1>2, <1>3 DEF Shield, OldEnough
    <3>2. minEpoch[t] \in Nat /\ slotEpoch[s[1]][s[2]] \in Nat
      BY <1>0, <1>2, EpochTypes DEF SlotIds
    <3> QED
      BY <3>1, <3>2 DEF Older
  <2>5. n # INVPTR
    <3>1. n \in Objs
      BY <1>0, <1>1, AssignedHead
    <3> QED
      BY <3>1, PtrAssumption DEF Ptrs
  <2>6. \A z \in SlotIds : /\ At(z)' = INVPTR <=> At(z) = INVPTR
                           /\ Chain(z) \subseteq Chain(z)'
    BY <2>1, <2>5
  <2>7. \A z \in SlotIds : \A m \in Chain(z)' :
            m \in Chain(z) \/ (Building(t, link[m]) /\ link[m] \in Objs /\ ~Older(t, z))
    BY <1>2, <2>1, <2>4
  <2>8. ASSUME NEW z \in SlotIds, NEW r \in Objs, Hooking(t, z, r)
        PROVE  Hooked(z, r)'
    <3>1. CASE z = s
      <4>1. r = Last(t)
        BY <2>8 DEF Hooking, Building, Last
      <4>2. n \in Chain(z)' /\ link'[n] = r
        BY <1>1, <1>2, <2>1, <3>1, <4>1
      <4> QED
        BY <4>2 DEF Hooked
    <3>2. CASE z # s
      <4>1. Hooking(t, z, r)'
        BY <1>0, <1>1, <2>3, <2>8, <3>2, HookingTail
      <4> QED
        BY <4>1 DEF Hooked
    <3> QED
      BY <3>1, <3>2
  <2>9. "insert" \in Retiring \union {"idle"} /\ "insert" # "ins_cas" /\ pc[t] \in Retiring
    BY <1>1 DEF Retiring
  <2> QED
    BY <1>0, <1>1, <2>2, <2>3, <2>6, <2>7, <2>8, <2>9, ShieldTry
<1>5. CASE At(s) # rt[t].prev
  <2>1. PICK p : p = At(s) /\ Expect(t, p)
    BY <1>5 DEF InsertCas, At
  <2>2. UNCHANGED first
    BY <1>5 DEF InsertCas, At
  <2> QED
    BY <1>1, <1>2, <2>1, <2>2, ShieldExpect
<1> QED
  BY <1>4, <1>5

\* retire adds a node to the batch: every slot is still to be seen.
LEMMA ShieldRetire ==
  ASSUME Accounts, Shield, NEW t \in Tasks, Retire(t)
  PROVE  MinEpochs' /\ HeldGuarded' /\ OldEnough'
<1>0. TypeInv /\ Books /\ Placed
  BY DEF Accounts
<1> PICK o, r : o = victim[t] /\ r = IF batch[t] = <<>> THEN o ELSE Last(t)
  OBVIOUS
<1>1. /\ InFlight' = InFlight /\ \A s \in SlotIds : Chain(s)' = Chain(s)
      /\ o \in Objs /\ r \in Objs /\ link' = [link EXCEPT ![o] = r]
      /\ status[o] = "unlinked" /\ status' = [status EXCEPT ![o] = "retired"]
      /\ \A u \in Tasks : \A q : Building(u, q)' <=> IF u = t THEN q = r ELSE Building(u, q)
  BY <1>0, BooksRetire
<1>2. /\ pc[t] = "idle" /\ "idle" \notin Retiring
      /\ UNCHANGED <<birth, slotEpoch, held, epoch, rd, first, rt>>
      /\ minEpoch' = [minEpoch EXCEPT ![t] =
                         IF batch[t] = <<>> \/ @ > birth[o] THEN birth[o] ELSE @]
  BY DEF Retire, slots, given, Retiring
<1>3. PICK l \in {"scan", "idle"} : pc' = [pc EXCEPT ![t] = l]
  BY DEF Retire, Goto
<1>4. /\ pc'[t] = l /\ \A u \in Tasks \ {t} : pc'[u] = pc[u]
      /\ link'[o] = r /\ status'[o] = "retired"
      /\ \A x \in Objs \ {o} : link'[x] = link[x] /\ status'[x] = status[x]
      /\ \A u \in Tasks \ {t} : minEpoch'[u] = minEpoch[u]
      /\ minEpoch'[t] = IF batch[t] = <<>> \/ minEpoch[t] > birth[o] THEN birth[o] ELSE minEpoch[t]
  BY <1>0, <1>1, <1>2, <1>3 DEF TypeInv, TypeOK, ClientTypeOK
<1>5. \A q \in Objs : q # r => Members({q})' = Members({q})
  BY <1>1, <1>4 DEF Members
<1>6. Members({r})' = (IF batch[t] = <<>> THEN {} ELSE Members({r})) \union {o}
  <2>1. CASE batch[t] = <<>>
    <3>1. \A x \in Objs : status[x] = "retired" => link[x] # o
      BY <1>0, <1>1 DEF Books, BatchesApart, IsBatch, TypeInv, TypeOK
    <3> QED
      BY <1>1, <1>4, <2>1, <3>1 DEF Members
  <2>2. CASE batch[t] # <<>>
    BY <1>1, <1>4, <2>2 DEF Members
  <2> QED
    BY <2>1, <2>2
<1>7. MinEpochs'
  <2>1. \A x \in Objs : birth[x] \in Nat
    BY <1>0, EpochTypes
  <2>2. minEpoch[t] \in Nat
    BY <1>0, EpochTypes
  <2>3. batch[t] # <<>> => Building(t, r)
    BY DEF Building, Last
  <2>4. ASSUME batch[t] # <<>>
        PROVE  /\ \A x \in Members({r}) : minEpoch[t] <= birth[x]
               /\ \E x \in Members({r}) : minEpoch[t] = birth[x]
    BY <1>1, <2>3, <2>4 DEF Shield, MinEpochs
  <2>5. \A x \in Members({r}) : x \in Objs
    BY DEF Members
  <2>6. ASSUME NEW x \in Members({r})' PROVE minEpoch'[t] <= birth[x]
    <3>1. CASE batch[t] = <<>>
      <4>1. x = o /\ minEpoch'[t] = birth[o]
        BY <1>4, <1>6, <2>6, <3>1
      <4> QED
        BY <1>1, <2>1, <4>1
    <3>2. CASE batch[t] # <<>>
      <4>1. x = o \/ x \in Members({r})
        BY <1>6, <2>6, <3>2
      <4>2. minEpoch'[t] = IF minEpoch[t] > birth[o] THEN birth[o] ELSE minEpoch[t]
        BY <1>4, <3>2
      <4>3. x \in Members({r}) => minEpoch[t] <= birth[x] /\ birth[x] \in Nat
        BY <2>1, <2>4, <2>5, <3>2
      <4> QED
        BY <1>1, <2>1, <2>2, <4>1, <4>2, <4>3
    <3> QED
      BY <3>1, <3>2
  <2>7. \E x \in Members({r})' : minEpoch'[t] = birth[x]
    BY <1>1, <1>4, <1>6, <2>1, <2>2, <2>4, <2>5
  <2>8. ASSUME NEW u \in Tasks \ {t}, NEW q \in Objs, Building(u, q)
        PROVE  q # r
    <3>1. IsBatch(q)
      BY <1>0, <2>8, BuildingBatch DEF TypeInv, Books
    <3>2. batch[t] # <<>> => Building(t, r)
      BY DEF Building, Last
    <3> QED
      BY <1>0, <1>1, <2>8, <3>1, <3>2 DEF IsBatch, Books, BatchesApart
  <2>9. ASSUME NEW u \in Tasks \ {t}, NEW q \in Objs, Building(u, q)
        PROVE  /\ \A x \in Members({q})' : minEpoch'[u] <= birth[x]
               /\ \E x \in Members({q})' : minEpoch'[u] = birth[x]
    <3>1. /\ \A x \in Members({q}) : minEpoch[u] <= birth[x]
          /\ \E x \in Members({q}) : minEpoch[u] = birth[x]
      BY <2>9 DEF Shield, MinEpochs
    <3> QED
      BY <1>4, <1>5, <2>8, <2>9, <3>1
  <2>10. ASSUME NEW u \in Tasks, NEW q \in Objs, Building(u, q)'
         PROVE  /\ \A x \in Members({q})' : minEpoch'[u] <= birth[x]
                /\ \E x \in Members({q})' : minEpoch'[u] = birth[x]
    <3>1. CASE u = t
      BY <1>1, <2>6, <2>7, <2>10, <3>1
    <3>2. CASE u # t
      BY <1>1, <2>9, <2>10, <3>2
    <3> QED
      BY <3>1, <3>2
  <2>11. ASSUME NEW u \in Tasks, NEW q \in Objs, Building(u, q)'
         PROVE  /\ \A x \in Members({q})' : minEpoch'[u] <= birth'[x]
                /\ \E x \in Members({q})' : minEpoch'[u] = birth'[x]
    BY <1>2, <2>10, <2>11
  <2> QED
    BY <2>11 DEF MinEpochs
<1>8. ASSUME NEW s \in SlotIds PROVE Hooking(t, s, r)'
  <2>1. Building(t, r)'
    BY <1>1
  <2>2. rt'[t].pos = <<1, 1>>
    BY <1>0, <1>2 DEF TypeInv, RetireControl, NoRetire
  <2>3. ~Before(s, <<1, 1>>)
    BY ParamAssumption, ClientAssumption DEF Before, SlotIds, Tasks, Idx
  <2>4. pc'[t] = "idle" \/ pc'[t] = "scan"
    BY <1>4
  <2> QED
    BY <2>1, <2>2, <2>3, <2>4 DEF Hooking, Retiring
<1>9. ASSUME NEW s \in SlotIds, NEW q \in Objs, Hooked(s, q) PROVE Hooked(s, q)'
  <2>1. ASSUME NEW n \in Chain(s), link[n] = q PROVE Hooked(s, q)'
    <3>1. n \in Objs /\ status[n] = "retired"
      BY <1>0, FlightType DEF TypeInv, Books, WalkSafe
    <3>2. link'[n] = q
      BY <1>1, <1>4, <2>1, <3>1
    <3> QED
      BY <1>1, <2>1, <3>2 DEF Hooked
  <2>2. ASSUME NEW u \in Tasks \ {t}, Hooking(u, s, q) PROVE Hooked(s, q)'
    <3>1. Building(u, q)'
      BY <1>1, <2>2 DEF Hooking
    <3>2. Hooking(u, s, q)'
      BY <1>2, <1>4, <2>2, <3>1 DEF Hooking
    <3> QED
      BY <3>2 DEF Hooked
  <2>3. CASE Hooking(t, s, q)
    <3>1. q = r
      BY <2>3 DEF Hooking, Building, Last
    <3> QED
      BY <1>8, <3>1 DEF Hooked
  <2> QED
    BY <1>9, <2>1, <2>2, <2>3 DEF Hooked
<1>10. ASSUME NEW s \in SlotIds, NEW h \in Objs, Protecting(s, h)'
       PROVE  Guarded(s, h)'
  <2>1. pc'[s[1]] = "check" => pc[s[1]] = "check"
    BY <1>4 DEF SlotIds
  <2>2. Protecting(s, h)
    BY <1>2, <1>10, <2>1 DEF Protecting
  <2>3. Guarded(s, h)
    BY <2>2 DEF Shield, HeldGuarded
  <2>4. CASE h = o
    <3>1. Hooked(s, r)'
      BY <1>8 DEF Hooked
    <3> QED
      BY <1>0, <1>1, <1>2, <1>4, <2>3, <2>4, <3>1, GuardedKept DEF Guarded
  <2>5. CASE h # o
    <3> PICK q \in Objs : q = link[h]
      BY <1>0 DEF TypeInv, TypeOK
    <3>1. status[h] = "retired" => Hooked(s, q)'
      BY <1>9, <2>3 DEF Guarded
    <3> QED
      BY <1>0, <1>2, <1>4, <2>3, <2>5, <3>1, GuardedKept DEF Guarded
  <2> QED
    BY <2>4, <2>5
<1>11. OldEnough'
  <2>1. ASSUME NEW s \in SlotIds, NEW n \in Chain(s)
        PROVE  \E m \in Objs : /\ status'[m] = "retired" /\ link'[m] = link'[n]
                               /\ birth[m] <= slotEpoch[s[1]][s[2]]
    <3>1. n \in Objs /\ n # o
      BY <1>0, <1>1, FlightType DEF TypeInv, Books, WalkSafe
    <3> PICK m \in Objs : /\ status[m] = "retired" /\ link[m] = link[n]
                          /\ birth[m] <= slotEpoch[s[1]][s[2]]
      BY <2>1 DEF Shield, OldEnough
    <3> QED
      BY <1>1, <1>4, <3>1
  <2>2. ASSUME NEW u \in Tasks, NEW s \in SlotIds, pc'[u] = "ins_cas", rt[u].asg[1][2] = s
        PROVE  minEpoch'[u] <= slotEpoch[s[1]][s[2]]
    BY <1>4, <2>2 DEF Shield, OldEnough
  <2> QED
    BY <1>1, <1>2, <2>1, <2>2 DEF OldEnough
<1> QED
  BY <1>7, <1>10, <1>11 DEF HeldGuarded

\* try_retire is done: every slot that may protect a node of the batch holds a
\* node of it, so a batch without nodes in flight is protected by none.
LEMMA ShieldAdjust ==
  ASSUME Accounts, Shield, NEW t \in Tasks, Adjust(t)
  PROVE  MinEpochs' /\ HeldGuarded' /\ OldEnough'
<1>0. TypeInv /\ Books
  BY DEF Accounts
<1> PICK r : r = Last(t)
  OBVIOUS
<1> PICK R : R = IF AllReleased(r, rt[t].adjs) THEN {r} ELSE {}
  OBVIOUS
<1>1. /\ \A s \in SlotIds : Chain(s)' = Chain(s)
      /\ Building(t, r) /\ r \in Objs /\ FreeList(R)
      /\ \A q \in R : q = r /\ Flight(r) = {}
      /\ \A u \in Tasks : \A q : Building(u, q)' <=> u # t /\ Building(u, q)
  BY <1>0, BooksAdjust
<1>2. /\ pc[t] = "insert" /\ rt[t].asg = <<>>
      /\ UNCHANGED <<birth, slotEpoch, held, epoch, rd, first, minEpoch, link>>
      /\ pc'[t] = "idle" /\ \A u \in Tasks \ {t} : pc'[u] = pc[u] /\ rt'[u] = rt[u]
      /\ status' = [o \in Objs |-> IF o \in Members(R) THEN "free" ELSE status[o]]
  BY <1>0, <1>1 DEF Adjust, slots, given, Goto, TypeInv, TypeOK, FreeList, Free
<1>3. \A u \in Tasks \ {t} : ~Building(u, r)
  BY <1>0, <1>1 DEF Books, BatchesApart
<1>4. \A o \in Objs : link[o] \notin R => status'[o] = status[o]
  BY <1>2 DEF Members
<1>5. \A s \in SlotIds : \A n \in Chain(s) : link[n] \notin R
  BY <1>0, <1>1, FlightType DEF Flight, TypeInv
<1>6. \A s \in SlotIds, q \in Objs : ~Hooking(t, s, q)
  <2>1. Len(rt[t].asg) = 0
    BY <1>2
  <2> QED
    BY <1>2, <2>1 DEF Hooking, Retiring
<1>7. MinEpochs'
  <2>1. ASSUME NEW u \in Tasks, NEW q \in Objs, Building(u, q)'
        PROVE  Building(u, q) /\ Members({q})' = Members({q})
    <3>1. Building(u, q) /\ q \notin R
      BY <1>1, <1>3, <2>1
    <3> QED
      BY <1>2, <1>4, <3>1 DEF Members
  <2> QED
    BY <1>2, <2>1 DEF Shield, MinEpochs
<1>8. ASSUME NEW s \in SlotIds, NEW h \in Objs, Protecting(s, h)'
      PROVE  Guarded(s, h)'
  <2>1. pc'[s[1]] = "check" => pc[s[1]] = "check"
    BY <1>2 DEF SlotIds
  <2>2. Protecting(s, h)
    BY <1>2, <1>8, <2>1 DEF Protecting
  <2>3. Guarded(s, h)
    BY <2>2 DEF Shield, HeldGuarded
  <2> PICK q \in Objs : q = link[h]
    BY <1>0 DEF TypeInv, TypeOK
  <2>4. ASSUME status[h] = "retired" PROVE q \notin R /\ Hooked(s, q)'
    <3>1. Hooked(s, q)
      BY <2>3, <2>4 DEF Guarded
    <3>2. CASE \E n \in Chain(s) : link[n] = q
      BY <1>1, <1>2, <1>5, <3>2 DEF Hooked
    <3>3. ASSUME NEW u \in Tasks, Hooking(u, s, q)
          PROVE  q \notin R /\ Hooked(s, q)'
      <4>1. u # t /\ Building(u, q)
        BY <1>6, <3>3 DEF Hooking
      <4>2. q # r
        BY <1>3, <4>1
      <4>3. Hooking(u, s, q)'
        BY <1>1, <1>2, <3>3, <4>1 DEF Hooking
      <4> QED
        BY <1>1, <4>2, <4>3 DEF Hooked
    <3> QED
      BY <3>1, <3>2, <3>3 DEF Hooked
  <2>5. status'[h] = status[h]
    BY <1>2, <2>4 DEF Members
  <2> QED
    BY <1>0, <1>2, <2>3, <2>4, <2>5, GuardedKept DEF Guarded
<1>9. OldEnough'
  <2>1. ASSUME NEW s \in SlotIds, NEW n \in Chain(s)'
        PROVE  \E m \in Objs : /\ status'[m] = "retired" /\ link'[m] = link'[n]
                               /\ birth'[m] <= slotEpoch'[s[1]][s[2]]
    <3>1. n \in Chain(s) /\ link[n] \notin R
      BY <1>1, <1>5, <2>1
    <3> PICK m \in Objs : /\ status[m] = "retired" /\ link[m] = link[n]
                          /\ birth[m] <= slotEpoch[s[1]][s[2]]
      BY <3>1 DEF Shield, OldEnough
    <3> QED
      BY <1>2, <1>4, <3>1
  <2>2. ASSUME NEW u \in Tasks, NEW s \in SlotIds, pc'[u] = "ins_cas", rt'[u].asg[1][2] = s
        PROVE  minEpoch'[u] <= slotEpoch'[s[1]][s[2]]
    BY <1>2, <2>2 DEF Shield, OldEnough
  <2> QED
    BY <2>1, <2>2 DEF OldEnough
<1> QED
  BY <1>7, <1>8, <1>9 DEF HeldGuarded

-----------------------------------------------------------------------------
\* Every step keeps the slots guarded.
LEMMA ShieldStep ==
  ASSUME Accounts, Shield, NEW t \in Tasks, Step(t) \/ Call(t)
  PROVE  Shield'
<1>1. Clock'
  BY ClockStep, ClockCall DEF Accounts, Shield
<1>2. CASE Step(t)
  <2>1. CASE AllocBirth(t) \/ ReadLoad(t) \/ CheckEpoch(t) \/ Validate(t)
    BY <1>1, <2>1, ShieldAlloc, ShieldReadLoad, ShieldReturn DEF Shield
  <2>2. CASE UpdDetach(t) \/ UpdNull(t) \/ UpdReload(t) \/ UpdEpoch(t)
    BY <1>1, <2>2, ShieldUpdDetach, ShieldUpdNull, ShieldReturn, ShieldUpdEpoch DEF Shield
  <2>3. CASE Traverse(t) \/ ClearSlot(t) \/ ClearFree(t)
    BY <1>1, <2>3, ShieldWalk, ShieldClearSlot DEF Shield
  <2>4. CASE \/ ScanFirst(t) \/ ScanEpoch(t)
             \/ InsertLoad(t) \/ InsertEpoch(t) \/ InsertCas(t) \/ Adjust(t)
    BY <1>1, <2>4, ShieldScanFirst, ShieldScanEpoch, ShieldInsertLoad, ShieldInsertEpoch,
       ShieldInsertCas, ShieldAdjust DEF Shield
  <2> QED
    BY <1>2, <2>1, <2>2, <2>3, <2>4 DEF Step
<1>3. CASE Call(t)
  <2>1. CASE Clear(t) \/ \E c \in Cells, j \in Idx : Read(t, c, j) \/ Reserve(t, c, j)
    BY <1>1, <2>1, ShieldReturn, ShieldBegin DEF Shield
  <2>2. CASE AllocCount(t) \/ Rideable(t) \/ Retire(t)
    BY <1>1, <2>2, ShieldAlloc, ShieldRetire DEF Shield
  <2> QED
    BY <1>3, <2>1, <2>2 DEF Call
<1> QED
  BY <1>2, <1>3

\* At first every slot is inactive.
LEMMA ShieldInit == Init => Shield
<1> SUFFICES ASSUME Init PROVE Shield
  OBVIOUS
<1>1. Accounts
  BY AccountsInit
<1>2. /\ epoch = 1 /\ \A o \in Objs : birth[o] = 0
      /\ \A t \in Tasks, j \in Idx : slotEpoch[t][j] = 0 /\ held[t][j] = NULL /\ first[t][j] = INVPTR
      /\ \A t \in Tasks : rd[t].curr = 0 /\ pc[t] = "idle" /\ batch[t] = <<>>
      /\ \A o \in Objs : status[o] # "retired"
  BY DEF Init, ClientInit, NoRead
<1>3. Clock
  BY <1>2 DEF Clock
<1>4. MinEpochs
  BY <1>2 DEF MinEpochs, Building
<1>5. HeldGuarded
  BY <1>2 DEF HeldGuarded, Protecting, SlotIds
<1>6. OldEnough
  <2>1. \A s \in SlotIds : Chain(s) = {}
    <3>1. \A s \in SlotIds : Chain(s) \subseteq InFlight
      BY <1>1, FlightType DEF Accounts, TypeInv
    <3>2. \A n \in InFlight : status[n] = "retired" /\ n \in Objs
      BY <1>1, FlightType DEF Accounts, TypeInv, Books, WalkSafe
    <3> QED
      BY <1>2, <3>1, <3>2
  <2> QED
    BY <1>2, <2>1 DEF OldEnough
<1> QED
  BY <1>3, <1>4, <1>5, <1>6 DEF Shield

\* The same with steps that change nothing.
LEMMA ShieldNext == Accounts /\ Shield /\ [Next]_vars => Shield'
<1> SUFFICES ASSUME Accounts, Shield, [Next]_vars PROVE Shield'
  OBVIOUS
<1>1. ASSUME NEW t \in Tasks, Step(t) \/ Call(t) PROVE Shield'
  BY <1>1, ShieldStep
<1>2. CASE UNCHANGED vars
  <2>1. UNCHANGED <<status, epoch, first, slotEpoch, next, link, birth, batch, minEpoch,
                    held, pc, rd, rt>>
    BY <1>2 DEF vars, clientVars, slots, nodes, batches, given
  <2>2. \A s \in SlotIds : Chain(s)' = Chain(s)
    BY <2>1 DEF Chain
  <2>3. /\ \A t \in Tasks, r \in Objs : Building(t, r)' <=> Building(t, r)
        /\ \A r \in Objs : Members({r})' = Members({r})
    BY <2>1 DEF Building, Members
  <2>4. Clock' /\ MinEpochs' /\ OldEnough'
    BY <2>1, <2>2, <2>3 DEF Shield, Clock, MinEpochs, OldEnough
  <2>5. \A t \in Tasks, s \in SlotIds, r \in Objs : Hooking(t, s, r)' <=> Hooking(t, s, r)
    BY <2>1, <2>3 DEF Hooking
  <2>6. \A s \in SlotIds, r \in Objs : Hooked(s, r)' <=> Hooked(s, r)
    BY <2>1, <2>2, <2>5 DEF Hooked
  <2>7. \A s \in SlotIds, h \in Objs : /\ Guarded(s, h)' <=> Guarded(s, h)
                                       /\ Protecting(s, h)' <=> Protecting(s, h)
    BY <2>1, <2>6 DEF Guarded, Protecting
  <2>8. ASSUME NEW s \in SlotIds, NEW h \in Objs, Protecting(s, h)'
        PROVE  Guarded(s, h)'
    <3>1. Protecting(s, h)
      BY <2>7, <2>8
    <3>2. Guarded(s, h)
      BY <3>1 DEF Shield, HeldGuarded
    <3> QED
      BY <2>7, <3>2
  <2> QED
    BY <2>4, <2>8 DEF Shield, HeldGuarded
<1> QED
  BY <1>1, <1>2 DEF Next

\* Accounts and Shield hold in every reachable state.
LEMMA ShieldKept == Spec => [](Accounts /\ Shield)
<1>1. Init => Accounts /\ Shield
  BY AccountsInit, ShieldInit
<1>2. Accounts /\ Shield /\ [Next]_vars => (Accounts /\ Shield)'
  BY AccountsNext, ShieldNext
<1> QED
  BY <1>1, <1>2, PTL DEF Spec

\* An active slot protects the reference that read returned.
LEMMA ShieldProtects == Accounts /\ Shield => SlotProtects
<1> SUFFICES ASSUME Accounts, Shield, NEW t \in Tasks, NEW j \in Idx,
                    first[t][j] # INVPTR, held[t][j] # NULL
             PROVE  status[held[t][j]] # "free"
  BY DEF SlotProtects
<1> PICK h \in Objs : h = held[t][j]
  BY DEF Accounts, TypeInv, TypeOK, Ptrs
<1> PICK s \in SlotIds : s = <<t, j>>
  BY DEF SlotIds
<1>1. Guarded(s, h)
  BY DEF Shield, HeldGuarded, Protecting
<1> QED
  BY <1>1 DEF Guarded

\* A reference that read returned while its slot was active is never freed,
\* whatever the other threads retire, push and release meanwhile: the batch of
\* the node is hooked to the slot until the reader leaves it.
THEOREM SlotsProtect == Spec => []SlotProtects
<1>1. Accounts /\ Shield => SlotProtects
  BY ShieldProtects
<1> QED
  BY <1>1, ShieldKept, PTL

\* A thread that stalls keeps batches with a node as old as its slot.
THEOREM StallIsBounded == Spec => []StallBounded
<1>1. Shield => StallBounded
  <2> SUFFICES ASSUME Shield, NEW t \in Tasks, NEW j \in Idx, NEW n \in Chain(<<t, j>>)
               PROVE  \E m \in Members({link[n]}) : birth[m] <= slotEpoch[t][j]
    BY DEF StallBounded
  <2> PICK s \in SlotIds : s = <<t, j>>
    BY DEF SlotIds
  <2>1. PICK m \in Objs : /\ status[m] = "retired" /\ link[m] = link[n]
                          /\ birth[m] <= slotEpoch[s[1]][s[2]]
    BY DEF Shield, OldEnough
  <2> QED
    BY <2>1 DEF Members
<1> QED
  BY <1>1, ShieldKept, PTL

\* What the active slots of a thread hold.
LEMMA GuardsOf ==
  ASSUME NEW t \in Tasks
  PROVE  \A o : o \in guards[t] <=>
            o # NULL /\ \E j \in Idx : first[t][j] # INVPTR /\ held[t][j] = o
BY DEF guards

\* The slots that hold a reference stay active.
LEMMA GuardsKept ==
  ASSUME UNCHANGED held,
         \A t \in Tasks, j \in Idx : held[t][j] # NULL =>
             (first'[t][j] = INVPTR <=> first[t][j] = INVPTR)
  PROVE  guards' = guards
<1>1. ASSUME NEW t \in Tasks
      PROVE  {held'[t][j] : j \in {i \in Idx : first'[t][i] # INVPTR}} \ {NULL}
               = {held[t][j] : j \in {i \in Idx : first[t][i] # INVPTR}} \ {NULL}
  OBVIOUS
<1> QED
  BY <1>1 DEF guards

\* A block lives until it is retired.
LEMMA RefineLive ==
  ASSUME guards' = guards,
         \A o \in Objs : status'[o] = status[o]
             \/ {status[o], status'[o]} \subseteq {"private", "linked", "unlinked"}
  PROVE  UNCHANGED <<Life, guards>>
<1>1. \A o \in Objs : Life'[o] = Life[o]
  BY DEF Life
<1> QED
  BY <1>1 DEF Life

\* free_list gives back retired blocks that no active slot holds.
LEMMA RefineFree ==
  ASSUME TypeInv, TypeInv', SlotProtects', guards' = guards, NEW R, FreeList(R)
  PROVE  Promise!Next
<1> PICK S \in SUBSET Objs : S = Members(R)
  BY DEF Members
<1>1. status' = [o \in Objs |-> IF o \in S THEN "free" ELSE status[o]]
  BY DEF FreeList, Free
<1>2. \A o \in S : status[o] = "retired" /\ Life[o] = "retired"
  BY DEF Members, Life
<1>3. Life' = [o \in Objs |-> IF o \in S THEN "free" ELSE Life[o]]
  BY <1>1 DEF Life
<1>4. ASSUME NEW u \in Tasks, NEW o \in S PROVE o \notin guards'[u]
  <2>1. SUFFICES ASSUME NEW j \in Idx, first'[u][j] # INVPTR, held'[u][j] = o, o # NULL
                 PROVE  FALSE
    BY DEF guards
  <2>2. status'[o] # "free"
    BY <2>1 DEF SlotProtects
  <2> QED
    BY <1>1, <2>2
<1>5. \A u \in Tasks : guards[u] \intersect S = {}
  BY <1>4
<1>6. Promise!Reclaim(S)
  BY <1>2, <1>3, <1>5 DEF Promise!Reclaim
<1> QED
  BY <1>6 DEF Promise!Next

\* The slots J of t give their references up.
LEMMA RefineForget ==
  ASSUME TypeInv, NEW t \in Tasks, NEW J \in SUBSET Idx, Forget(t, J),
         UNCHANGED <<clientVars, first>>
  PROVE  Promise!Next
<1>1. /\ held \in [Tasks -> [Idx -> Ptrs]]
      /\ \A j \in Idx : held'[t][j] = IF j \in J THEN NULL ELSE held[t][j]
      /\ \A u \in Tasks \ {t} : held'[u] = held[u]
  BY ForgetHeld DEF TypeInv, TypeOK
<1>2. \A u \in Tasks \ {t} : guards'[u] = guards[u]
  BY <1>1 DEF guards
<1>3. guards'[t] \subseteq guards[t] /\ guards[t] \subseteq Objs
  BY <1>1 DEF guards, Ptrs
<1> PICK S \in SUBSET Objs : S = guards[t] \ guards'[t]
  BY <1>3
<1>4. guards'[t] = guards[t] \ S
  BY <1>3
<1>5. guards' = [guards EXCEPT ![t] = @ \ S]
  BY <1>2, <1>4 DEF guards
<1>6. Promise!Release(t, S)
  BY <1>5 DEF Promise!Release, Life, clientVars
<1> QED
  BY <1>6 DEF Promise!Next

\* read returns: an active slot holds the reference from now on.
LEMMA RefineCheck ==
  ASSUME Accounts, SlotProtects', NEW t \in Tasks, CheckEpoch(t)
  PROVE  Promise!Next \/ UNCHANGED <<Life, guards>>
<1>0. TypeInv /\ Flow
  BY DEF Accounts
<1> PICK j \in Idx : j = rd[t].idx
  BY <1>0, EpochTypes
<1> PICK p \in Ptrs : p = rd[t].ptr
  BY <1>0 DEF TypeInv, TypeOK, ReadLocals
<1>1. /\ pc[t] = "check" /\ status' = status /\ first' = first
      /\ held' = held \/ (held' = [held EXCEPT ![t][j] = p] /\ rd[t].op = "read")
  BY DEF CheckEpoch, clientVars, given, slots
<1>2. CASE held' = held
  <2>1. guards' = guards
    BY <1>1, <1>2, GuardsKept
  <2> QED
    BY <1>1, <2>1, RefineLive
<1>3. CASE held' = [held EXCEPT ![t][j] = p] /\ rd[t].op = "read"
  <2>1. held[t][j] = NULL
    BY <1>0, <1>3 DEF Flow, ReadFlow
  <2>2. /\ held'[t][j] = p /\ \A i \in Idx \ {j} : held'[t][i] = held[t][i]
        /\ \A u \in Tasks \ {t} : held'[u] = held[u]
    BY <1>0, <1>3 DEF TypeInv, TypeOK
  <2>3. \A u \in Tasks \ {t} : guards'[u] = guards[u]
    BY <1>1, <2>2 DEF guards
  <2>4. CASE p = NULL \/ first[t][j] = INVPTR
    <3>1. guards'[t] = guards[t]
      BY <1>1, <2>1, <2>2, <2>4 DEF guards
    <3>2. guards' = guards
      BY <2>3, <3>1 DEF guards
    <3> QED
      BY <1>1, <3>2, RefineLive
  <2>5. CASE p # NULL /\ first[t][j] # INVPTR
    <3> PICK o \in Objs : o = p
      BY <2>5 DEF Ptrs
    <3>1. status[o] # "free"
      BY <1>1, <2>2, <2>5 DEF SlotProtects
    <3>2. guards'[t] = guards[t] \union {o}
      BY <1>1, <2>1, <2>2, <2>5 DEF guards
    <3>3. guards' = [guards EXCEPT ![t] = @ \union {o}]
      BY <2>3, <3>2 DEF guards
    <3>4. Promise!Acquire(t, o)
      BY <1>1, <3>1, <3>3 DEF Promise!Acquire, Life
    <3> QED
      BY <3>4 DEF Promise!Next
  <2> QED
    BY <2>4, <2>5
<1> QED
  BY <1>1, <1>2, <1>3

\* Whatever a thread does inside a call, the abstract promise allows.
LEMMA RefineStep ==
  ASSUME Accounts, TypeInv', SlotProtects', NEW t \in Tasks, Step(t)
  PROVE  Promise!Next \/ UNCHANGED <<Life, guards>>
<1>0. TypeInv /\ Flow /\ Books
  BY DEF Accounts
<1> PICK j \in Idx : j = rd[t].idx
  BY <1>0, EpochTypes
<1>1. CASE \/ AllocBirth(t) \/ ReadLoad(t) \/ Validate(t) \/ UpdReload(t) \/ UpdEpoch(t)
           \/ Traverse(t) \/ ScanFirst(t) \/ ScanEpoch(t) \/ InsertLoad(t) \/ InsertEpoch(t)
  <2>1. UNCHANGED <<held, first, status>>
    BY <1>1 DEF AllocBirth, ReadLoad, Validate, UpdReload, UpdEpoch, Traverse, TravLoad,
         TravDrop, ScanFirst, ScanEpoch, InsertLoad, InsertEpoch, slots, given, clientVars
  <2>2. guards' = guards
    BY <2>1, GuardsKept
  <2> QED
    BY <2>1, <2>2, RefineLive
<1>2. CASE CheckEpoch(t)
  BY <1>2, RefineCheck
<1>3. CASE UpdDetach(t) \/ UpdNull(t) \/ ClearSlot(t)
  <2>1. held' = held /\ \E p : first' = [first EXCEPT ![t][j] = p]
    <3>1. CASE UpdDetach(t) /\ first[t][j] = NULL
      <4>1. held' = held /\ first' = first
        BY <3>1 DEF UpdDetach, given
      <4>2. first' = [first EXCEPT ![t][j] = NULL]
        BY <1>0, <3>1, <4>1 DEF TypeInv, TypeOK
      <4> QED
        BY <4>1, <4>2
    <3>2. CASE UpdDetach(t) /\ first[t][j] # NULL
      BY <3>2 DEF UpdDetach, given
    <3> QED
      BY <1>3, <3>1, <3>2 DEF UpdNull, ClearSlot, given
  <2>2. held[t][j] = NULL
    <3>1. rd[t].op # "none"
      BY <1>0, <1>3 DEF UpdDetach, UpdNull, ClearSlot, Flow, ReadFlow, Retiring
    <3> QED
      BY <1>0, <3>1 DEF Flow, ReadFlow, TypeInv, TypeOK, ReadLocals
  <2>3. \A u \in Tasks, i \in Idx : <<u, i>> # <<t, j>> => first'[u][i] = first[u][i]
    BY <1>0, <2>1 DEF TypeInv, TypeOK
  <2>4. guards' = guards
    BY <2>1, <2>2, <2>3, GuardsKept
  <2>5. CASE UpdDetach(t)
    <3>1. \E R : FreeList(R)
      BY <2>5 DEF UpdDetach
    <3> QED
      BY <1>0, <2>4, <3>1, RefineFree
  <2>6. CASE UpdNull(t) \/ ClearSlot(t)
    <3>1. status' = status
      BY <2>6 DEF UpdNull, ClearSlot, clientVars
    <3> QED
      BY <2>4, <3>1, RefineLive
  <2> QED
    BY <1>3, <2>5, <2>6
<1>4. CASE ClearFree(t) \/ Adjust(t)
  <2>1. held' = held /\ first' = first /\ \E R : FreeList(R)
    BY <1>4 DEF ClearFree, Adjust, given, slots
  <2>2. guards' = guards
    BY <2>1, GuardsKept
  <2> QED
    BY <1>0, <2>1, <2>2, RefineFree
<1>5. CASE InsertCas(t)
  <2>1. held' = held /\ status' = status
    BY <1>5 DEF InsertCas, given, clientVars
  <2> PICK n, s : n = Head(rt[t].asg)[1] /\ s = Head(rt[t].asg)[2]
    OBVIOUS
  <2>2. \A z \in SlotIds : At(z)' = INVPTR <=> At(z) = INVPTR
    <3>1. CASE At(s) = rt[t].prev
      <4>1. /\ \A z \in SlotIds \ {s} : At(z)' = At(z)
            /\ At(s) # INVPTR /\ At(s)' = n
        BY <1>0, <1>5, <3>1, BooksPush
      <4>2. n # INVPTR
        <5>1. pc[t] = "ins_cas" /\ rt[t].asg # <<>>
          BY <1>0, <1>5 DEF InsertCas, TypeInv, RetireControl
        <5>2. n \in Objs
          BY <1>0, <5>1, AssignedHead
        <5> QED
          BY <5>2, PtrAssumption DEF Ptrs
      <4> QED
        BY <4>1, <4>2
    <3>2. CASE At(s) # rt[t].prev
      BY <1>5, <3>2 DEF InsertCas, At
    <3> QED
      BY <3>1, <3>2
  <2>3. ASSUME NEW u \in Tasks, NEW i \in Idx
        PROVE  first'[u][i] = INVPTR <=> first[u][i] = INVPTR
    <3> PICK z \in SlotIds : z = <<u, i>>
      BY DEF SlotIds
    <3>1. At(z)' = INVPTR <=> At(z) = INVPTR
      BY <2>2
    <3> QED
      BY <3>1 DEF At
  <2>4. guards' = guards
    BY <2>1, <2>3, GuardsKept
  <2> QED
    BY <2>1, <2>4, RefineLive
<1> QED
  BY <1>1, <1>2, <1>3, <1>4, <1>5 DEF Step

\* Whatever a rideable does between calls, the abstract promise allows.
LEMMA RefineCall ==
  ASSUME Accounts, Shield, NEW t \in Tasks, Call(t)
  PROVE  Promise!Next \/ UNCHANGED <<Life, guards>>
<1>0. TypeInv /\ Placed
  BY DEF Accounts
<1>1. status \in [Objs -> Status] /\ mine \in [Tasks -> Ptrs] /\ victim \in [Tasks -> Ptrs]
      /\ cell \in [Cells -> Ptrs]
  BY <1>0 DEF TypeInv, TypeOK, ClientTypeOK
<1>2. CASE Clear(t)
  <2>1. Forget(t, Idx) /\ UNCHANGED <<clientVars, first>>
    BY <1>2 DEF Clear, slots
  <2> QED
    BY <1>0, <2>1, RefineForget
<1>3. ASSUME NEW c \in Cells, NEW j \in Idx, Read(t, c, j) \/ Reserve(t, c, j)
      PROVE  Promise!Next
  <2>1. Forget(t, {j}) /\ UNCHANGED <<clientVars, first>>
    BY <1>3 DEF Read, Reserve, slots
  <2> QED
    BY <1>0, <2>1, RefineForget
<1>4. CASE AllocCount(t)
  <2> PICK o \in Objs : Malloc(t, o)
    BY <1>4 DEF AllocCount
  <2>1. guards' = guards
    BY <1>4, GuardsKept DEF AllocCount, slots, given
  <2>2. Promise!Alloc(o)
    BY <1>1, <2>1 DEF Malloc, Promise!Alloc, Life
  <2> QED
    BY <2>2 DEF Promise!Next
<1>5. CASE Rideable(t)
  <2>1. guards' = guards
    BY <1>5, GuardsKept DEF Rideable, slots, given
  <2>2. CASE Discard(t)
    <3> PICK o \in Objs : o = mine[t] /\ status[o] = "private"
      BY <1>0, <1>1, <2>2 DEF Discard, Placed, Ptrs
    <3>1. \A u \in Tasks : o \notin guards[u]
      <4>1. SUFFICES ASSUME NEW u \in Tasks, NEW j \in Idx, first[u][j] # INVPTR, held[u][j] = o
                     PROVE  FALSE
        BY GuardsOf
      <4>2. Guarded(<<u, j>>, o)
        BY <4>1 DEF Shield, HeldGuarded, Protecting, SlotIds
      <4> QED
        BY <4>2 DEF Guarded
    <3>2. Life' = [Life EXCEPT ![o] = "free"]
      BY <1>1, <2>2 DEF Discard, Life
    <3>3. Promise!Discard(o)
      BY <2>1, <3>1, <3>2 DEF Promise!Discard, Life
    <3> QED
      BY <3>3 DEF Promise!Next
  <2>3. ASSUME NEW c \in Cells, Link(t, c) \/ Unlink(t, c)
        PROVE  UNCHANGED <<Life, guards>>
    <3>1. \A o \in Objs : status'[o] = status[o]
             \/ {status[o], status'[o]} \subseteq {"private", "linked", "unlinked"}
      BY <1>0, <1>1, <2>3 DEF Link, Unlink, Placed
    <3> QED
      BY <2>1, <3>1, RefineLive
  <2> QED
    BY <1>5, <2>2, <2>3 DEF Rideable
<1>6. CASE Retire(t)
  <2> PICK o, r : o = victim[t] /\ r = IF batch[t] = <<>> THEN o ELSE Last(t)
    OBVIOUS
  <2>1. o \in Objs /\ status[o] = "unlinked" /\ status' = [status EXCEPT ![o] = "retired"]
    BY <1>0, <1>6, BooksRetire DEF Accounts
  <2>2. guards' = guards
    BY <1>6, GuardsKept DEF Retire, slots, given
  <2>3. Life' = [Life EXCEPT ![o] = "retired"]
    BY <1>1, <2>1 DEF Life
  <2>4. Promise!Retire(o)
    BY <2>1, <2>2, <2>3 DEF Promise!Retire, Life
  <2> QED
    BY <2>1, <2>4 DEF Promise!Next
<1> QED
  BY <1>2, <1>3, <1>4, <1>5, <1>6 DEF Call

\* The initial states of the tracker are initial states of the promise.
LEMMA RefineInit == Init => Promise!Init
<1> SUFFICES ASSUME Init PROVE Promise!Init
  OBVIOUS
<1>1. Life = [o \in Objs |-> "free"]
  BY DEF Init, ClientInit, Life
<1>2. guards = [t \in Tasks |-> {}]
  BY DEF Init, guards
<1> QED
  BY <1>1, <1>2 DEF Promise!Init

\* Every step of the tracker is a step that module Reclamation allows.
LEMMA RefineNext ==
  Accounts /\ Shield /\ Accounts' /\ Shield' /\ [Next]_vars
    => [Promise!Next]_(Promise!vars)
<1> SUFFICES ASSUME Accounts, Shield, Accounts', Shield', [Next]_vars
             PROVE  Promise!Next \/ UNCHANGED <<Life, guards>>
  BY DEF Promise!vars
<1>1. TypeInv' /\ SlotProtects'
  <2>1. (Accounts /\ Shield => SlotProtects)'
    BY ShieldProtects, PTL
  <2> QED
    BY <2>1 DEF Accounts
<1>2. ASSUME NEW t \in Tasks, Step(t) \/ Call(t)
      PROVE  Promise!Next \/ UNCHANGED <<Life, guards>>
  BY <1>1, <1>2, RefineStep, RefineCall
<1>3. CASE UNCHANGED vars
  <2>1. UNCHANGED <<held, first, status>>
    BY <1>3 DEF vars, clientVars, given, slots
  <2>2. guards' = guards
    BY <2>1, GuardsKept
  <2> QED
    BY <2>1, <2>2, RefineLive
<1> QED
  BY <1>2, <1>3 DEF Next

\* Crystalline-L implements the promise of a reclamation scheme to the data
\* structures, as far as the references are concerned that read returned while
\* their slot was active: a block goes back to the allocator once, after it was
\* retired, and while no active slot holds it.
THEOREM Implementation == Spec => Refines
<1>1. Accounts /\ Shield /\ (Accounts /\ Shield)' /\ [Next]_vars
        => [Promise!Next]_(Promise!vars)
  BY RefineNext
<1> QED
  BY <1>1, RefineInit, ShieldKept, PTL DEF Refines, Promise!Spec, Spec
=============================================================================
