----------------------------- MODULE RCUProofs -----------------------------
(***************************************************************************)
(* An announced epoch protects everything its thread reads under it, for   *)
(* both types of RCUTracker and for any number of threads, blocks, cells   *)
(* and epochs; with type_RCU that is everything a thread ever reads.       *)
(***************************************************************************)
EXTENDS RCUTracker, TLAPS

-----------------------------------------------------------------------------
\* Every block is in one place: in a cell, with a thread, or on one list.
ListInv == ListTypeOK /\ Placed /\ RetiredOnce

\* The steps of a rideable between the calls of the tracker.
ClientStep(t) ==
    \/ \E o \in Objs : Malloc(t, o)
    \/ Discard(t)
    \/ \E c \in Cells : Link(t, c) \/ Unlink(t, c)

\* At the start every block is with the allocator.
LEMMA ListInitInv == ListInit => ListInv
BY ClientAssumption
   DEF ListInit, ListInv, ListTypeOK, RetiredOnce, ClientInit, ClientTypeOK, Placed, Ptrs, Status

\* A block moves from the allocator to a thread, between a thread and a cell,
\* or from a thread back to the allocator.
LEMMA ClientStepInv ==
  ASSUME ListInv, NEW t \in Tasks, ClientStep(t), retired' = retired
  PROVE  ListInv'
<1>1. CASE \E o \in Objs : Malloc(t, o)
  BY <1>1, ClientAssumption
     DEF ListInv, ListTypeOK, ClientTypeOK, Placed, Ptrs, Status, RetiredOnce, Malloc
<1>2. CASE Discard(t)
  BY <1>2, ClientAssumption
     DEF ListInv, ListTypeOK, ClientTypeOK, Placed, Ptrs, Status, RetiredOnce, Discard
<1>3. CASE \E c \in Cells : Link(t, c)
  BY <1>3, ClientAssumption
     DEF ListInv, ListTypeOK, ClientTypeOK, Placed, Ptrs, Status, RetiredOnce, Link
<1>4. CASE \E c \in Cells : Unlink(t, c)
  BY <1>4, ClientAssumption
     DEF ListInv, ListTypeOK, ClientTypeOK, Placed, Ptrs, Status, RetiredOnce, Unlink
<1> QED
  BY <1>1, <1>2, <1>3, <1>4 DEF ClientStep

\* retire moves the node from its thread to the thread's list.
LEMMA PushInv ==
  ASSUME ListInv, NEW t \in Tasks, Push(t)
  PROVE  ListInv'
BY ClientAssumption
   DEF ListInv, ListTypeOK, ClientTypeOK, Placed, Ptrs, Status, RetiredOnce, Push, HandOver

\* empty gives nodes of the thread's list back to the allocator.
LEMMA ReclaimInv ==
  ASSUME ListInv, NEW t \in Tasks, NEW dead \in SUBSET retired[t], Reclaim(t, dead)
  PROVE  ListInv'
BY ClientAssumption
   DEF ListInv, ListTypeOK, ClientTypeOK, Placed, Ptrs, Status, RetiredOnce, Reclaim, Free

\* Nothing else changes the places of the blocks.
LEMMA ListUnchanged ==
  ASSUME ListInv, UNCHANGED <<clientVars, retired>>
  PROVE  ListInv'
BY DEF ListInv, ListTypeOK, ClientTypeOK, Placed, RetiredOnce, clientVars

-----------------------------------------------------------------------------

\* What the locals of a call hold while it runs.  An operation of type_RCU is
\* in progress exactly while its epoch is announced.
Control ==
    \A t \in Tasks :
        /\ held[t] # {} => inOp[t]
        /\ pc[t] \in {"start", "end"} => ~inOp[t]
        /\ pc[t] = "start" => type = "RCU"
        /\ pc[t] = "end" => type = "QSBR"
        /\ type = "RCU" /\ inOp[t] => reservations[t] # INF
        /\ pc[t] # "scan" => pos[t] = 1
        /\ pc[t] \notin {"scan", "sweep"} => min[t] = INF

\* No stamp and no announcement is ahead of the global epoch.
Clock ==
    /\ \A t \in Tasks : curr[t] <= epoch
    /\ \A t \in Tasks : reservations[t] # INF => reservations[t] <= epoch

\* Thread u, inside empty, has already looked at thread t.
Scanned(u, t) == pc[u] = "sweep" \/ (pc[u] = "scan" /\ pos[u] > t)

\* The announcement of t protects block o: o was not retired before it, and
\* who has o on its list and has looked at t found the announcement.
Protects(t, o) ==
    /\ status[o] \notin {"free", "private"}
    /\ status[o] = "retired" => reservations[t] <= retireEpoch[o]
    /\ \A u \in Tasks :
          o \in retired[u] /\ Scanned(u, t) => min[u] <= reservations[t]

\* Every reference read under an announcement.
Holding ==
    \A t \in Tasks : \A o \in held[t] :
        reservations[t] # INF => Protects(t, o)

TypeInv == TypeOK /\ Control
Inv == TypeInv /\ Placed /\ RetiredOnce /\ Clock /\ Holding

\* UINT64_MAX is not an epoch, thread 1 exists.
LEMMA ConstType == INF \notin Epochs /\ 0 \in Epochs /\ 1 \in Tasks
BY ParamAssumption, ClientAssumption DEF INF, Epochs, Tasks

\* The types are preserved by every step.
LEMMA TypeNext == TypeInv /\ [Next]_vars => TypeInv'
<1> SUFFICES ASSUME TypeInv, [Next]_vars PROVE TypeInv'
  OBVIOUS
<1> USE ConstType
    DEF TypeInv, Control, TypeOK, ListTypeOK, ClientTypeOK, PC, Ptrs, Goto
<1>1. ASSUME NEW t \in Tasks, Alloc(t) PROVE TypeInv'
  BY <1>1, ParamAssumption DEF Alloc, Malloc, Epochs, Status, garbage, locals
<1>2. ASSUME NEW t \in Tasks, Rideable(t) PROVE TypeInv'
  <2> USE <1>2 DEF Rideable, Status, garbage, locals
  <2>1. CASE Discard(t)
    BY <2>1 DEF Discard
  <2>2. ASSUME NEW c \in Cells, Link(t, c) PROVE TypeInv'
    BY <2>2 DEF Link
  <2>3. ASSUME NEW c \in Cells, Unlink(t, c) PROVE TypeInv'
    BY <2>3 DEF Unlink
  <2> QED
    BY <2>1, <2>2, <2>3
<1>3. ASSUME NEW t \in Tasks, StartOp(t) PROVE TypeInv'
  <2> USE <1>3 DEF StartOp, clientVars, garbage
  <2>1. CASE type = "RCU"
    BY <2>1
  <2>2. CASE type = "QSBR"
    BY <2>2
  <2> QED
    BY <2>1, <2>2
<1>4. ASSUME NEW t \in Tasks, StartStore(t) PROVE TypeInv'
  BY <1>4 DEF StartStore, clientVars, garbage, locals
<1>5. ASSUME NEW t \in Tasks, NEW c \in Cells, Read(t, c) PROVE TypeInv'
  BY <1>5 DEF Read, clientVars, garbage, locals
<1>6. ASSUME NEW t \in Tasks, EndOp(t) PROVE TypeInv'
  <2> USE <1>6 DEF EndOp, clientVars, garbage
  <2>1. CASE type = "RCU"
    BY <2>1
  <2>2. CASE type = "QSBR"
    BY <2>2
  <2> QED
    BY <2>1, <2>2
<1>7. ASSUME NEW t \in Tasks, EndStore(t) PROVE TypeInv'
  BY <1>7 DEF EndStore, clientVars, garbage, locals
<1>8. ASSUME NEW t \in Tasks, Retire(t) PROVE TypeInv'
  <2> USE <1>8 DEF Retire, locals
  <2>1. ListTypeOK'
    BY DEF Push, HandOver, Status
  <2>2. victim[t] \in Objs
    BY DEF Push, HandOver
  <2>3. retires' \in [Tasks -> 0 .. Freq - 1]
    BY ParamAssumption
  <2>4. TypeOK'
    BY <2>1, <2>2, <2>3
  <2>5. Control'
    OBVIOUS
  <2> QED
    BY <2>4, <2>5
<1>9. ASSUME NEW t \in Tasks, Scan(t) PROVE TypeInv'
  <2>1. pos[t] < TaskNum => pos[t] + 1 \in Tasks
    BY ClientAssumption DEF Tasks
  <2>2. pos' \in [Tasks -> Tasks] /\ min' \in [Tasks -> Epochs \union {INF}]
    <3>1. pos' \in [Tasks -> Tasks]
      BY <1>9, <2>1 DEF Scan, GoesOn
    <3>2. min' = [min EXCEPT ![t] = reservations[pos[t]]] \/ min' = min
      BY <1>9 DEF Scan
    <3> QED
      BY <3>1, <3>2
  <2>3. /\ pc' = [pc EXCEPT ![t] = IF pos[t] < TaskNum THEN "scan" ELSE "sweep"]
        /\ pos' = [pos EXCEPT ![t] = IF pos[t] < TaskNum THEN pos[t] + 1 ELSE 1]
    BY <1>9 DEF Scan, GoesOn
  <2>4. \A u \in Tasks \ {t} : min'[u] = min[u]
    BY <1>9 DEF Scan
  <2>5. TypeOK'
    BY <1>9, <2>2, <2>3 DEF Scan, clientVars, garbage
  <2>6. Control'
    BY <1>9, <2>3, <2>4 DEF Scan
  <2> QED
    BY <2>5, <2>6
<1>10. ASSUME NEW t \in Tasks, Sweep(t) PROVE TypeInv'
  BY <1>10 DEF Sweep, Reclaim, Free, Status
<1>11. CASE UNCHANGED vars
  BY <1>11 DEF vars, clientVars, garbage, locals
<1> QED
  BY <1>1, <1>2, <1>3, <1>4, <1>5, <1>6, <1>7, <1>8, <1>9, <1>10, <1>11
     DEF Next, Step, Call

-----------------------------------------------------------------------------
\* Every block stays in its one place.
LEMMA ListNext == Inv /\ [Next]_vars => ListInv'
<1> SUFFICES ASSUME Inv, [Next]_vars PROVE ListInv'
  OBVIOUS
<1>0. ListInv
  BY DEF Inv, TypeInv, TypeOK, ListInv
<1>1. ASSUME NEW t \in Tasks, Alloc(t) PROVE ListInv'
  BY <1>0, <1>1, ClientStepInv DEF Alloc, ClientStep, garbage
<1>2. ASSUME NEW t \in Tasks, Rideable(t) PROVE ListInv'
  BY <1>0, <1>2, ClientStepInv DEF Rideable, ClientStep, garbage
<1>3. ASSUME NEW t \in Tasks, Retire(t) PROVE ListInv'
  BY <1>0, <1>3, PushInv DEF Retire
<1>4. ASSUME NEW t \in Tasks, Sweep(t) PROVE ListInv'
  BY <1>0, <1>4, ReclaimInv DEF Sweep
<1>5. ASSUME NEW t \in Tasks,
             \/ StartOp(t) \/ StartStore(t) \/ EndOp(t) \/ EndStore(t)
             \/ Scan(t) \/ \E c \in Cells : Read(t, c)
      PROVE  UNCHANGED <<clientVars, retired>>
  BY <1>5 DEF StartOp, StartStore, EndOp, EndStore, Scan, Read, garbage
<1>6. CASE UNCHANGED vars
  BY <1>0, <1>6, ListUnchanged DEF vars, garbage
<1> QED
  BY <1>0, <1>1, <1>2, <1>3, <1>4, <1>5, <1>6, ListUnchanged
     DEF Next, Step, Call

\* Announcements are taken from the global epoch, which never goes back.
LEMMA ClockNext == Inv /\ TypeInv' /\ [Next]_vars => Clock'
<1> SUFFICES ASSUME Inv, TypeInv', [Next]_vars PROVE Clock'
  OBVIOUS
<1>1. /\ epoch \in Int /\ epoch' \in Int /\ curr \in [Tasks -> Int]
      /\ reservations \in [Tasks -> Int]
  BY ParamAssumption DEF Inv, TypeInv, TypeOK, Epochs, INF
<1>2. Clock
  BY DEF Inv
<1>3. ASSUME epoch' = epoch \/ epoch' = epoch + 1,
             UNCHANGED <<curr, reservations>>
      PROVE  Clock'
  BY <1>1, <1>2, <1>3 DEF Clock
<1>4. ASSUME NEW t \in Tasks, Alloc(t) PROVE Clock'
  BY <1>3, <1>4 DEF Alloc, locals
<1>5. ASSUME NEW t \in Tasks, StartOp(t) \/ EndOp(t) PROVE Clock'
  BY <1>1, <1>2, <1>5 DEF StartOp, EndOp, Clock
<1>6. ASSUME NEW t \in Tasks, StartStore(t) \/ EndStore(t) PROVE Clock'
  BY <1>1, <1>2, <1>6 DEF StartStore, EndStore, locals, Clock
<1>7. ASSUME NEW t \in Tasks,
             \/ Rideable(t) \/ Retire(t) \/ Scan(t) \/ Sweep(t)
             \/ \E c \in Cells : Read(t, c)
      PROVE  UNCHANGED <<epoch, curr, reservations>>
  BY <1>7 DEF Rideable, Retire, Scan, Sweep, Read, locals
<1>8. CASE UNCHANGED vars
  BY <1>3, <1>8 DEF vars, locals
<1> QED
  BY <1>3, <1>4, <1>5, <1>6, <1>7, <1>8 DEF Next, Step, Call

-----------------------------------------------------------------------------
\* A step that leaves the block and the announcement alone, and lets no thread
\* pass t unseen, leaves the protection in place.
LEMMA ProtectsFrame ==
  ASSUME NEW t \in Tasks, NEW o \in Objs, Protects(t, o),
         reservations'[t] = reservations[t],
         status'[o] \notin {"free", "private"},
         status'[o] = "retired" => reservations[t] <= retireEpoch'[o],
         \A u \in Tasks :
             o \in retired'[u] /\ Scanned(u, t)' =>
                 \/ min'[u] <= reservations[t]
                 \/ o \in retired[u] /\ Scanned(u, t) /\ min'[u] = min[u]
  PROVE  Protects(t, o)'
BY DEF Protects

\* A block that an announcement protects is not freed by any step, and stays
\* protected as long as the announcement stays.
LEMMA ProtectsKept ==
  ASSUME Inv, TypeInv', Next, NEW t \in Tasks, NEW o \in Objs, Protects(t, o),
         reservations[t] # INF, reservations'[t] = reservations[t]
  PROVE  Protects(t, o)'
<1>1. /\ status[o] \notin {"free", "private"}
      /\ status[o] = "retired" => reservations[t] <= retireEpoch[o]
  BY DEF Protects
<1>2. /\ status \in [Objs -> Status] /\ cell \in [Cells -> Ptrs]
      /\ mine \in [Tasks -> Ptrs] /\ victim \in [Tasks -> Ptrs]
      /\ retired \in [Tasks -> SUBSET Objs] /\ pc \in [Tasks -> PC]
      /\ Placed /\ RetiredOnce
  BY DEF Inv, TypeInv, TypeOK, ListTypeOK, ClientTypeOK
<1>3. /\ epoch \in Int /\ reservations \in [Tasks -> Int]
      /\ retireEpoch \in [Objs -> Int] /\ min \in [Tasks -> Int]
      /\ pos \in [Tasks -> Int] /\ t \in Int /\ TaskNum \in Int
      /\ 1 <= t /\ t <= TaskNum
  <2>1. Tasks \subseteq Int /\ t \in Int /\ TaskNum \in Int /\ 1 <= t /\ t <= TaskNum
    BY ClientAssumption DEF Tasks
  <2>2. Epochs \subseteq Int /\ INF \in Int
    BY ParamAssumption DEF Epochs, INF
  <2> QED
    BY <2>1, <2>2 DEF Inv, TypeInv, TypeOK
<1>4. \A u \in Tasks : pc'[u] = pc[u] /\ pos'[u] = pos[u]
                          => (Scanned(u, t)' => Scanned(u, t))
  BY DEF Scanned
<1>5. ASSUME UNCHANGED <<retireEpoch, retired, min>>,
             status'[o] = status[o] \/ status'[o] \in {"linked", "unlinked"},
             \A u \in Tasks : Scanned(u, t)' => Scanned(u, t)
      PROVE  Protects(t, o)'
  BY <1>1, <1>5, ProtectsFrame
<1>6. ASSUME NEW u \in Tasks, NEW l \in PC \ {"scan", "sweep"}, Goto(u, l),
             pos' = pos
      PROVE  \A v \in Tasks : Scanned(v, t)' => Scanned(v, t)
  <2>1. \A v \in Tasks \ {u} : pc'[v] = pc[v]
    BY <1>2, <1>6 DEF Goto
  <2>2. ~ Scanned(u, t)'
    BY <1>2, <1>6 DEF Goto, Scanned
  <2> QED
    BY <1>4, <1>6, <2>1, <2>2
<1>7. ASSUME UNCHANGED <<pc, pos>>
      PROVE  \A v \in Tasks : Scanned(v, t)' => Scanned(v, t)
  BY <1>4, <1>7
<1>8. ASSUME NEW u \in Tasks, Alloc(u) PROVE Protects(t, o)'
  <2>1. status'[o] = status[o]
    BY <1>1, <1>2, <1>8 DEF Alloc, Malloc
  <2> QED
    BY <1>5, <1>7, <1>8, <2>1 DEF Alloc, garbage, locals
<1>9. ASSUME NEW u \in Tasks, Rideable(u) PROVE Protects(t, o)'
  <2>1. status'[o] = status[o] \/ status'[o] \in {"linked", "unlinked"}
    <3>1. CASE Discard(u)
      BY <1>1, <1>2, <3>1 DEF Discard, Placed
    <3>2. ASSUME NEW c \in Cells, Link(u, c) \/ Unlink(u, c)
          PROVE  status'[o] = status[o] \/ status'[o] \in {"linked", "unlinked"}
      BY <1>2, <3>2 DEF Link, Unlink
    <3> QED
      BY <1>9, <3>1, <3>2 DEF Rideable
  <2> QED
    BY <1>5, <1>7, <1>9, <2>1 DEF Rideable, garbage, locals
<1>10. ASSUME NEW u \in Tasks, StartOp(u) \/ EndOp(u) PROVE Protects(t, o)'
  <2>1. \A v \in Tasks : Scanned(v, t)' => Scanned(v, t)
    BY <1>6, <1>7, <1>10 DEF StartOp, EndOp, PC
  <2>2. UNCHANGED <<status, retireEpoch, retired, min>>
    BY <1>10 DEF StartOp, EndOp, clientVars, garbage
  <2> QED
    BY <1>5, <2>1, <2>2
<1>11. ASSUME NEW u \in Tasks, StartStore(u) \/ EndStore(u)
       PROVE  Protects(t, o)'
  BY <1>5, <1>6, <1>11 DEF StartStore, EndStore, PC, clientVars, garbage, locals
<1>12. ASSUME NEW u \in Tasks, NEW c \in Cells, Read(u, c)
       PROVE  Protects(t, o)'
  BY <1>5, <1>7, <1>12 DEF Read, clientVars, garbage, locals
<1>13. ASSUME NEW u \in Tasks, Retire(u) PROVE Protects(t, o)'
  <2>1. victim[u] \in Objs /\ status[victim[u]] = "unlinked"
    BY <1>2, <1>13 DEF Retire, Push, HandOver, Placed, Ptrs
  <2>2. status'[o] \notin {"free", "private"}
    BY <1>1, <1>2, <1>13, <2>1 DEF Retire, Push, HandOver
  <2>3. status'[o] = "retired" => reservations[t] <= retireEpoch'[o]
    <3>1. CASE o = victim[u]
      <4>1. reservations[t] <= epoch
        BY DEF Inv, Clock
      <4> QED
        BY <1>3, <1>13, <3>1, <4>1 DEF Retire
    <3>2. CASE o # victim[u]
      BY <1>1, <1>2, <1>3, <1>13, <2>1, <3>2 DEF Retire, Push, HandOver
    <3> QED
      BY <3>1, <3>2
  <2>4. ~ Scanned(u, t)'
    <3>1. pc[u] = "idle" /\ pos[u] = 1 /\ pos'[u] = 1
      BY <1>13 DEF Retire, locals, Inv, TypeInv, Control
    <3>2. pc'[u] # "sweep"
      BY <1>2, <1>13, <3>1 DEF Retire, Goto
    <3> QED
      BY <1>3, <3>1, <3>2 DEF Scanned
  <2>5. \A v \in Tasks \ {u} :
           /\ Scanned(v, t)' => Scanned(v, t)
           /\ retired'[v] = retired[v] /\ min'[v] = min[v]
    BY <1>2, <1>4, <1>13 DEF Retire, Push, Goto, locals
  <2> QED
    BY <2>2, <2>3, <2>4, <2>5, ProtectsFrame
<1>14. ASSUME NEW u \in Tasks, Scan(u) PROVE Protects(t, o)'
  <2>1. UNCHANGED <<status, retireEpoch, retired, reservations>>
    BY <1>14 DEF Scan, clientVars, garbage
  <2>2. \A v \in Tasks \ {u} :
           (Scanned(v, t)' => Scanned(v, t)) /\ min'[v] = min[v]
    BY <1>2, <1>3, <1>4, <1>14 DEF Scan, Goto
  <2>3. min'[u] <= min[u] /\ min'[u] <= reservations[pos[u]]
    BY <1>3, <1>14 DEF Scan, Inv, TypeInv, TypeOK
  <2>4. ASSUME Scanned(u, t)' PROVE pos[u] = t \/ Scanned(u, t)
    <3>1. CASE pos[u] < TaskNum
      <4>1. pc[u] = "scan" /\ pc'[u] = "scan" /\ pos'[u] = pos[u] + 1
        BY <1>3, <1>14, <3>1 DEF Scan, GoesOn
      <4> QED
        BY <1>3, <2>4, <4>1 DEF Scanned
    <3>2. CASE ~(pos[u] < TaskNum)
      <4>1. pc[u] = "scan"
        BY <1>14 DEF Scan
      <4> QED
        BY <1>3, <3>2, <4>1 DEF Scanned
    <3> QED
      BY <3>1, <3>2
  <2>5. o \in retired[u] /\ Scanned(u, t) => min[u] <= reservations[t]
    BY DEF Protects
  <2>6. min'[u] \in Int
    BY ParamAssumption DEF TypeInv, TypeOK, Epochs, INF
  <2>7. o \in retired'[u] /\ Scanned(u, t)' => min'[u] <= reservations[t]
    <3>1. CASE pos[u] = t
      BY <2>3, <3>1
    <3>2. ASSUME o \in retired[u], Scanned(u, t)
          PROVE  min'[u] <= reservations[t]
      <4>1. min[u] <= reservations[t]
        BY <2>5, <3>2
      <4> QED
        BY <1>3, <2>3, <2>6, <4>1
    <3> QED
      BY <2>1, <2>4, <3>1, <3>2
  <2> QED
    BY <1>1, <2>1, <2>2, <2>7, ProtectsFrame
<1>15. ASSUME NEW u \in Tasks, Sweep(u) PROVE Protects(t, o)'
  <2>1. UNCHANGED <<retireEpoch, reservations, pos>>
    BY <1>15 DEF Sweep
  <2>2. /\ ~ Scanned(u, t)'
        /\ \A v \in Tasks \ {u} : Scanned(v, t)' => Scanned(v, t)
    BY <1>2, <1>4, <1>15, <2>1 DEF Sweep, Goto, Scanned
  <2>3. \A v \in Tasks \ {u} : retired'[v] = retired[v] /\ min'[v] = min[v]
    BY <1>2, <1>3, <1>15 DEF Sweep, Reclaim
  <2>4. status'[o] = status[o]
    <3>1. CASE o \in retired[u]
      <4>1. Scanned(u, t) /\ status[o] = "retired"
        BY <1>2, <1>15, <3>1 DEF Sweep, Scanned, RetiredOnce
      <4>2. min[u] <= reservations[t] /\ reservations[t] <= retireEpoch[o]
        BY <3>1, <4>1 DEF Protects
      <4>3. ~ Safe(u, o)
        BY <1>3, <4>2 DEF Safe
      <4> QED
        BY <1>15, <4>3 DEF Sweep, Reclaim, Free
    <3>2. CASE o \notin retired[u]
      BY <1>15, <3>2 DEF Sweep, Reclaim, Free
    <3> QED
      BY <3>1, <3>2
  <2> QED
    BY <1>1, <2>1, <2>2, <2>3, <2>4, ProtectsFrame
<1> QED
  BY <1>8, <1>9, <1>10, <1>11, <1>12, <1>13, <1>14, <1>15 DEF Next, Step, Call

\* A thread reads nodes that are linked, under the announcement it has made.
LEMMA HoldingNext == Inv /\ TypeInv' /\ Next => Holding'
<1> SUFFICES ASSUME Inv, TypeInv', Next, NEW t \in Tasks, NEW o \in Objs,
                    o \in held'[t], reservations'[t] # INF
             PROVE  Protects(t, o)'
  BY DEF Holding, TypeInv, TypeOK
<1>1. /\ held \in [Tasks -> SUBSET Objs] /\ cell \in [Cells -> Ptrs]
      /\ reservations \in [Tasks -> Epochs \union {INF}]
  BY DEF Inv, TypeInv, TypeOK, ListTypeOK, ClientTypeOK
<1>2. ASSUME o \in held[t], reservations'[t] = reservations[t]
      PROVE  Protects(t, o)'
  BY <1>2, ProtectsKept DEF Inv, Holding
<1>3. ASSUME NEW u \in Tasks,
             \/ Alloc(u) \/ Rideable(u) \/ StartOp(u) \/ Retire(u) \/ Scan(u)
             \/ Sweep(u)
      PROVE  UNCHANGED <<held, reservations>>
  BY <1>3 DEF Alloc, Rideable, StartOp, Retire, Scan, Sweep
<1>4. ASSUME NEW u \in Tasks, StartStore(u) \/ EndStore(u)
      PROVE  Protects(t, o)'
  <2>1. held' = held /\ held[u] = {}
    BY <1>4 DEF StartStore, EndStore, Inv, TypeInv, Control
  <2>2. reservations'[t] = reservations[t]
    BY <1>1, <1>4, <2>1 DEF StartStore, EndStore
  <2> QED
    BY <1>2, <2>1, <2>2
<1>5. ASSUME NEW u \in Tasks, NEW c \in Cells, Read(u, c)
      PROVE  Protects(t, o)'
  <2>1. reservations' = reservations
    BY <1>5 DEF Read
  <2>2. CASE o \in held[t]
    BY <1>2, <2>1, <2>2
  <2>3. CASE o \notin held[t]
    <3>1. o = cell[c]
      BY <1>1, <1>5, <2>3 DEF Read
    <3>2. status[o] = "linked"
      BY <3>1, ClientAssumption DEF Inv, Placed
    <3>3. \A v \in Tasks : o \notin retired[v]
      BY <3>2 DEF Inv, RetiredOnce
    <3>4. Protects(t, o)
      BY <3>2, <3>3 DEF Protects
    <3> QED
      BY <2>1, <3>4, ProtectsKept
  <2> QED
    BY <2>2, <2>3
<1>6. ASSUME NEW u \in Tasks, EndOp(u) PROVE Protects(t, o)'
  <2>1. u # t /\ o \in held[t]
    BY <1>1, <1>6 DEF EndOp
  <2>2. reservations'[t] = reservations[t]
    BY <1>1, <1>6, <2>1 DEF EndOp
  <2> QED
    BY <1>2, <2>1, <2>2
<1> QED
  BY <1>2, <1>3, <1>4, <1>5, <1>6 DEF Next, Step, Call

-----------------------------------------------------------------------------
\* The invariant holds at the start.
LEMMA InvInit == Init => Inv
<1> SUFFICES ASSUME Init PROVE Inv
  OBVIOUS
<1>1. ListInv
  BY ListInitInv DEF Init
<1>2. TypeOK
  BY <1>1, ConstType, ParamAssumption DEF Init, TypeOK, ListInv, PC, Epochs
<1>3. Control /\ Clock /\ Holding
  BY DEF Init, Control, Clock, Holding, INF, Epochs
<1> QED
  BY <1>1, <1>2, <1>3 DEF Inv, TypeInv, ListInv

\* Every step preserves the invariant.
LEMMA InvNext == Inv /\ [Next]_vars => Inv'
<1> SUFFICES ASSUME Inv, [Next]_vars PROVE Inv'
  OBVIOUS
<1>1. TypeInv'
  BY TypeNext DEF Inv
<1>2. Placed' /\ RetiredOnce' /\ Clock'
  BY <1>1, ListNext, ClockNext DEF ListInv
<1>3. CASE Next
  BY <1>1, <1>2, <1>3, HoldingNext DEF Inv
<1>4. CASE UNCHANGED vars
  <2>1. Holding'
    BY <1>4 DEF vars, clientVars, garbage, locals, Inv, Holding, Protects,
                Scanned
  <2> QED
    BY <1>1, <1>2, <2>1 DEF Inv
<1> QED
  BY <1>3, <1>4

\* The invariant holds in every reachable state.
LEMMA Invariance == Spec => []Inv
<1> QED
  BY InvInit, InvNext, PTL DEF Spec

\* Every variable keeps its type.
THEOREM TypeCorrect == Spec => []TypeOK
<1>1. Inv => TypeOK
  BY DEF Inv, TypeInv
<1> QED
  BY <1>1, Invariance, PTL

\* An operation of type_RCU announces its epoch before it reads; with either
\* type, no block is freed that a thread has read under an announced epoch, not
\* even by an empty() that looked at the thread before.
THEOREM ReadSafe == Spec => []AnnouncedNeverFreed
<1>1. Inv => AnnouncedNeverFreed
  <2> SUFFICES ASSUME Inv, NEW t \in Tasks,
                      type = "RCU" \/ reservations[t] # INF,
                      NEW o \in held[t]
               PROVE  status[o] # "free"
    BY DEF AnnouncedNeverFreed
  <2>1. reservations[t] # INF
    BY DEF Inv, TypeInv, Control
  <2> QED
    BY <2>1 DEF Inv, Holding, Protects
<1> QED
  BY <1>1, Invariance, PTL

\* Every retired block is on exactly one thread's list until that thread
\* frees it: it is neither lost nor freed twice.
THEOREM NothingLost == Spec => []RetiredOnce
<1>1. Inv => RetiredOnce
  BY DEF Inv
<1> QED
  BY <1>1, Invariance, PTL

-----------------------------------------------------------------------------
\* Every step is a step that module Reclamation allows.
LEMMA RefineNext ==
  ASSUME Inv, TypeInv', [Next]_vars
  PROVE  Promise!Next \/ UNCHANGED <<Life, guards>>
<1> USE DEF Life
<1>1. /\ held \in [Tasks -> SUBSET Objs]
      /\ status \in [Objs -> Status] /\ status' \in [Objs -> Status]
      /\ mine \in [Tasks -> Ptrs] /\ victim \in [Tasks -> Ptrs]
      /\ cell \in [Cells -> Ptrs] /\ retired \in [Tasks -> SUBSET Objs]
      /\ reservations \in [Tasks -> Epochs \union {INF}]
      /\ Placed /\ RetiredOnce
  BY DEF Inv, TypeInv, TypeOK, ListTypeOK, ClientTypeOK
<1>2. ASSUME \A o \in Objs : status'[o] = status[o]
                 \/ {status[o], status'[o]} \subseteq Status \ {"free", "retired"}
      PROVE  Life' = Life
  BY <1>2
<1>3. ASSUME UNCHANGED <<held, reservations>> PROVE guards' = guards
  BY <1>3 DEF guards
<1>4. ASSUME NEW t \in Tasks, NEW o \in guards[t]
      PROVE  o \in Objs /\ o \in held[t] /\ Protects(t, o)
  BY <1>1, <1>4 DEF guards, Inv, Holding
<1>5. ASSUME NEW t \in Tasks, Alloc(t) PROVE Promise!Next
  <2>1. PICK o \in Objs : Malloc(t, o)
    BY <1>5 DEF Alloc
  <2>2. guards' = guards
    BY <1>3, <1>5 DEF Alloc
  <2>3. Promise!Alloc(o)
    BY <1>1, <2>1, <2>2 DEF Malloc, Promise!Alloc
  <2> QED
    BY <2>3 DEF Promise!Next
<1>6. ASSUME NEW t \in Tasks, Rideable(t)
      PROVE  Promise!Next \/ UNCHANGED <<Life, guards>>
  <2>1. guards' = guards
    BY <1>3, <1>6 DEF Rideable
  <2>2. CASE Discard(t)
    <3>1. PICK o \in Objs : o = mine[t] /\ status[o] = "private"
      BY <1>1, <2>2 DEF Discard, Placed, Ptrs
    <3>2. \A u \in Tasks : o \notin guards[u]
      BY <1>4, <3>1 DEF Protects
    <3>3. Life' = [Life EXCEPT ![o] = "free"]
      BY <1>1, <2>2, <3>1 DEF Discard
    <3>4. Promise!Discard(o)
      BY <2>1, <3>1, <3>2, <3>3 DEF Promise!Discard
    <3> QED
      BY <3>4 DEF Promise!Next
  <2>3. ASSUME NEW c \in Cells, Link(t, c) PROVE Life' = Life
    BY <1>1, <1>2, <2>3 DEF Link, Placed, Status
  <2>4. ASSUME NEW c \in Cells, Unlink(t, c) PROVE Life' = Life
    BY <1>1, <1>2, <2>4 DEF Unlink, Placed, Status
  <2> QED
    BY <1>6, <2>1, <2>2, <2>3, <2>4 DEF Rideable
<1>7. ASSUME NEW t \in Tasks, Retire(t) PROVE Promise!Next
  <2>1. PICK o \in Objs : o = victim[t] /\ status[o] = "unlinked"
    BY <1>1, <1>7 DEF Retire, Push, HandOver, Placed, Ptrs
  <2>2. Life' = [Life EXCEPT ![o] = "retired"]
    BY <1>1, <1>7, <2>1 DEF Retire, Push, HandOver
  <2>3. guards' = guards
    BY <1>3, <1>7 DEF Retire
  <2>4. Promise!Retire(o)
    BY <2>1, <2>2, <2>3 DEF Promise!Retire
  <2> QED
    BY <2>4 DEF Promise!Next
<1>8. ASSUME NEW t \in Tasks, Sweep(t) PROVE Promise!Next
  <2>1. PICK dead \in SUBSET Objs : dead = {o \in retired[t] : Safe(t, o)}
    BY <1>1
  <2>2. Free(dead) /\ held' = held /\ reservations' = reservations
    BY <1>8, <2>1 DEF Sweep, Reclaim
  <2>3. \A o \in dead : status[o] = "retired" /\ status'[o] = "free"
    BY <1>1, <2>1, <2>2 DEF RetiredOnce, Free
  <2>4. ASSUME NEW u \in Tasks, NEW o \in guards[u]
        PROVE  o \notin dead
    <3>1. Next
      BY <1>8 DEF Next, Step
    <3>2. o \in Objs /\ o \in held[u] /\ Protects(u, o)
      BY <1>4, <2>4
    <3>3. reservations[u] # INF
      BY <2>4 DEF guards
    <3>4. Protects(u, o)'
      BY <2>2, <3>1, <3>2, <3>3, ProtectsKept
    <3> QED
      BY <2>3, <3>4 DEF Protects
  <2>5. \A u \in Tasks : guards[u] \intersect dead = {}
    BY <2>4
  <2>6. Life' = [o \in Objs |-> IF o \in dead THEN "free" ELSE Life[o]]
    BY <2>2 DEF Free
  <2>7. guards' = guards
    BY <1>3, <2>2
  <2>8. Promise!Reclaim(dead)
    BY <2>3, <2>5, <2>6, <2>7 DEF Promise!Reclaim
  <2> QED
    BY <2>8 DEF Promise!Next
<1>9. ASSUME NEW t \in Tasks, NEW c \in Cells, Read(t, c)
      PROVE  Promise!Next \/ UNCHANGED <<Life, guards>>
  <2>1. Life' = Life /\ reservations' = reservations
    BY <1>9 DEF Read, clientVars
  <2>2. CASE cell[c] = NULL
    <3>1. held' = held
      BY <1>1, <1>9, <2>2 DEF Read
    <3> QED
      BY <1>3, <2>1, <3>1
  <2>3. CASE reservations[t] = INF
    <3>1. \A u \in Tasks \ {t} : held'[u] = held[u]
      BY <1>1, <1>9 DEF Read
    <3>2. guards' = guards
      BY <2>1, <2>3, <3>1 DEF guards
    <3> QED
      BY <2>1, <3>2
  <2>4. CASE cell[c] # NULL /\ reservations[t] # INF
    <3>1. PICK o \in Objs : o = cell[c] /\ status[o] = "linked"
      BY <1>1, <2>4 DEF Placed, Ptrs
    <3>2. held' = [held EXCEPT ![t] = @ \union {o}]
      BY <1>9, <2>4, <3>1 DEF Read
    <3>3. guards' = [guards EXCEPT ![t] = @ \union {o}]
      BY <1>1, <2>1, <2>4, <3>2 DEF guards
    <3>4. Promise!Acquire(t, o)
      BY <2>1, <3>1, <3>3 DEF Promise!Acquire
    <3> QED
      BY <3>4 DEF Promise!Next
  <2> QED
    BY <2>2, <2>3, <2>4
<1>10. ASSUME NEW t \in Tasks, EndOp(t) PROVE Promise!Next
  <2>1. PICK S \in SUBSET Objs : S = held[t]
    BY <1>1
  <2>2. held' = [held EXCEPT ![t] = {}] /\ Life' = Life
    BY <1>10 DEF EndOp, clientVars
  <2>3. \A u \in Tasks \ {t} : reservations'[u] = reservations[u]
    BY <1>1, <1>10 DEF EndOp
  <2>4. \A u \in Tasks : guards'[u] = IF u = t THEN {} ELSE guards[u]
    BY <1>1, <2>2, <2>3 DEF guards
  <2>5. guards[t] \ S = {}
    BY <2>1 DEF guards
  <2>6. guards' = [guards EXCEPT ![t] = @ \ S]
    BY <2>4, <2>5 DEF guards
  <2>7. Promise!Release(t, S)
    BY <2>2, <2>6 DEF Promise!Release
  <2> QED
    BY <2>7 DEF Promise!Next
<1>11. ASSUME NEW t \in Tasks, StartStore(t) \/ EndStore(t)
       PROVE  UNCHANGED <<Life, guards>>
  <2>1. held' = held /\ Life' = Life /\ held[t] = {}
    BY <1>11 DEF StartStore, EndStore, clientVars, Inv, TypeInv, Control
  <2>2. \A u \in Tasks \ {t} : reservations'[u] = reservations[u]
    BY <1>1, <1>11 DEF StartStore, EndStore
  <2>3. guards' = guards
    BY <2>1, <2>2 DEF guards
  <2> QED
    BY <2>1, <2>3
<1>12. ASSUME NEW t \in Tasks, StartOp(t) \/ Scan(t)
       PROVE  UNCHANGED <<Life, guards>>
  BY <1>3, <1>12 DEF StartOp, Scan, clientVars
<1>13. CASE UNCHANGED vars
  BY <1>3, <1>13 DEF vars, clientVars
<1> QED
  BY <1>5, <1>6, <1>7, <1>8, <1>9, <1>10, <1>11, <1>12, <1>13
     DEF Next, Step, Call

\* The initial states of the tracker are initial states of the promise.
LEMMA RefineInit == Init => Promise!Init
BY DEF Init, ListInit, ClientInit, Promise!Init, Life, guards

\* With either type the tracker implements the promise of a reclamation scheme
\* to the data structures: a block goes back to the allocator once, after it
\* was retired, and while no announced operation has read it.
THEOREM Implementation == Spec => Refines
<1>1. Inv /\ [Next]_vars => [Promise!Next]_(Promise!vars)
  BY RefineNext, TypeNext DEF Inv, Promise!vars
<1> QED
  BY <1>1, RefineInit, Invariance, PTL DEF Refines, Promise!Spec, Spec
=============================================================================
