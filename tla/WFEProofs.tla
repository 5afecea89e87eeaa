----------------------------- MODULE WFEProofs -----------------------------
(***************************************************************************)
(* Wait-free eras, for any number of threads, slots, blocks and cells: who *)
(* may change a slot; that no thread advances the epoch past a request     *)
(* that was there before it began to help; and why what read returned on   *)
(* its own, and the node whose field a helper reads, are not freed.        *)
(***************************************************************************)
EXTENDS WFETracker, FiniteSetTheorems, TLAPS

-----------------------------------------------------------------------------
\* Every block is in one place: in a cell, with a thread, or on one list.
ListInv == ListTypeOK /\ Placed /\ RetiredOnce

\* The steps of a rideable between the calls of the tracker.
ClientStep(t) ==
    \/ \E o \in Objs : Malloc(t, o)
    \/ Discard(t)
    \/ \E c \in Cells : Link(t, c) \/ Unlink(t, c)

\* At the start every block is with the allocator.
LEMMA ListInitInv == ListInit => ListInv
BY ClientAssumption
   DEF ListInit, ListInv, ListTypeOK, RetiredOnce, ClientInit, ClientTypeOK, Placed, Ptrs, Status

\* A block moves from the allocator to a thread, between a thread and a cell,
\* or from a thread back to the allocator.
LEMMA ClientStepInv ==
  ASSUME ListInv, NEW t \in Tasks, ClientStep(t), retired' = retired
  PROVE  ListInv'
<1>1. CASE \E o \in Objs : Malloc(t, o)
  BY <1>1, ClientAssumption
     DEF ListInv, ListTypeOK, ClientTypeOK, Placed, Ptrs, Status, RetiredOnce, Malloc
<1>2. CASE Discard(t)
  BY <1>2, ClientAssumption
     DEF ListInv, ListTypeOK, ClientTypeOK, Placed, Ptrs, Status, RetiredOnce, Discard
<1>3. CASE \E c \in Cells : Link(t, c)
  BY <1>3, ClientAssumption
     DEF ListInv, ListTypeOK, ClientTypeOK, Placed, Ptrs, Status, RetiredOnce, Link
<1>4. CASE \E c \in Cells : Unlink(t, c)
  BY <1>4, ClientAssumption
     DEF ListInv, ListTypeOK, ClientTypeOK, Placed, Ptrs, Status, RetiredOnce, Unlink
<1> QED
  BY <1>1, <1>2, <1>3, <1>4 DEF ClientStep

\* retire moves the node from its thread to the thread's list.
LEMMA PushInv ==
  ASSUME ListInv, NEW t \in Tasks, Push(t)
  PROVE  ListInv'
BY ClientAssumption
   DEF ListInv, ListTypeOK, ClientTypeOK, Placed, Ptrs, Status, RetiredOnce, Push, HandOver

\* empty gives nodes of the thread's list back to the allocator.
LEMMA ReclaimInv ==
  ASSUME ListInv, NEW t \in Tasks, NEW dead \in SUBSET retired[t], Reclaim(t, dead)
  PROVE  ListInv'
BY ClientAssumption
   DEF ListInv, ListTypeOK, ClientTypeOK, Placed, Ptrs, Status, RetiredOnce, Reclaim, Free

\* Nothing else changes the places of the blocks.
LEMMA ListUnchanged ==
  ASSUME ListInv, UNCHANGED <<clientVars, retired>>
  PROVE  ListInv'
BY DEF ListInv, ListTypeOK, ClientTypeOK, Placed, RetiredOnce, clientVars

-----------------------------------------------------------------------------

\* In slow_path, up to counter_end; with a request made; still without having
\* seen an answer.
Slow == SlowPC \union {"send"}
Asking == {"sload", "scheck", "scas", "sslot", "sresult", "stake", "stag"}
Waiting == Asking \ {"stake", "stag"}

\* In the loop of help_read; in help_thread; with the request no longer open.
Looping == HelpPC \ {"hends", "hstarts"}
Helping == Looping \ {"hlook"}
Through == {"hold", "holdepoch", "hslot", "hrelease", "hclear"}

-----------------------------------------------------------------------------
\* The slots in the order of help_read: each number is a slot ...
LEMMA SlotAtType ==
  ASSUME NEW k \in 1 .. OwnSlots
  PROVE  SlotAt(k) \in Tasks \X Idx
<1>1. /\ HENum \in Nat /\ HENum > 0 /\ TaskNum \in Nat /\ k \in Int
      /\ k - 1 >= 0 /\ k - 1 < TaskNum * HENum
  BY ParamAssumption, ClientAssumption DEF OwnSlots
<1>2. PICK q \in Int, r \in Int :
        /\ q = (k - 1) \div HENum /\ r = (k - 1) % HENum
        /\ k - 1 = HENum * q + r /\ 0 <= r /\ r < HENum
  BY <1>1
<1>3. q >= 0
  BY <1>1, <1>2
<1>4. q < TaskNum
  <2>1. ASSUME q >= TaskNum PROVE FALSE
    <3>1. q * HENum >= TaskNum * HENum
      BY <1>1, <1>2, <2>1
    <3> QED
      BY <1>1, <1>2, <3>1
  <2> QED
    BY <1>1, <1>2, <2>1
<1> QED
  BY <1>1, <1>2, <1>3, <1>4 DEF SlotAt, Tasks, Idx

\* ... and each slot has a number.
LEMMA SlotAtOnto ==
  ASSUME NEW u \in Tasks, NEW j \in Idx
  PROVE  \E k \in 1 .. OwnSlots : SlotAt(k) = <<u, j>>
<1> DEFINE k == (u - 1) * HENum + j
<1>1. /\ HENum \in Nat /\ HENum > 0 /\ TaskNum \in Nat
      /\ u \in Int /\ 1 <= u /\ u <= TaskNum
      /\ j \in Int /\ 1 <= j /\ j <= HENum
  BY ParamAssumption, ClientAssumption DEF Tasks, Idx
<1>2. (u - 1) * HENum >= 0 /\ (u - 1) * HENum \in Int
  BY <1>1
<1>3. u * HENum <= TaskNum * HENum
  BY <1>1
<1>4. (u - 1) * HENum = u * HENum - HENum
  BY <1>1
<1>5. k \in 1 .. OwnSlots
  BY <1>1, <1>2, <1>3, <1>4 DEF OwnSlots
<1>6. (k - 1) \div HENum = u - 1 /\ (k - 1) % HENum = j - 1
  <2>1. k - 1 = HENum * (u - 1) + (j - 1)
    BY <1>1
  <2>2. PICK q \in Int, r \in Int :
          /\ q = (k - 1) \div HENum /\ r = (k - 1) % HENum
          /\ k - 1 = HENum * q + r /\ 0 <= r /\ r < HENum
    BY <1>1, <1>2
  <2>3. HENum * (q - (u - 1)) = (j - 1) - r
    BY <1>1, <2>1, <2>2
  <2>4. q = u - 1
    <3>1. CASE q - (u - 1) >= 1
      <4>1. HENum * (q - (u - 1)) >= HENum
        BY <1>1, <2>2, <3>1
      <4> QED
        BY <1>1, <2>2, <2>3, <4>1
    <3>2. CASE q - (u - 1) <= -1
      <4>1. HENum * (q - (u - 1)) <= -HENum
        BY <1>1, <2>2, <3>2
      <4> QED
        BY <1>1, <2>2, <2>3, <4>1
    <3> QED
      BY <1>1, <2>2, <3>1, <3>2
  <2> QED
    BY <1>1, <2>2, <2>3, <2>4
<1>7. SlotAt(k) = <<u, j>>
  BY <1>1, <1>6 DEF SlotAt
<1> QED
  BY <1>5, <1>7

\* The slots that empty copies, and those of its second look.
LEMMA ScanType ==
  ASSUME NEW k \in 1 .. OwnSlots + TaskNum
  PROVE  /\ CopyAt(k) \in Tasks \X (1 .. PARENT)
         /\ RecheckAt(k) \in Tasks \X AllIdx
<1>1. /\ OwnSlots \in Nat /\ TaskNum \in Nat /\ HENum \in Nat /\ k \in Int
  BY ParamAssumption, ClientAssumption DEF OwnSlots
<1>2. Idx \subseteq 1 .. PARENT /\ 1 .. PARENT \subseteq AllIdx
  BY <1>1 DEF Idx, PARENT, AllIdx
<1>3. CopyAt(k) \in Tasks \X (1 .. PARENT)
  <2>1. CASE k <= OwnSlots
    <3>1. k \in 1 .. OwnSlots
      BY <1>1, <2>1
    <3>2. SlotAt(k) \in Tasks \X (1 .. PARENT)
      BY <1>2, <3>1, SlotAtType
    <3> QED
      BY <2>1, <3>2 DEF CopyAt
  <2>2. CASE k > OwnSlots
    <3>1. /\ k - OwnSlots \in Tasks /\ ~(k <= OwnSlots)
          /\ PARENT \in 1 .. PARENT
      BY <1>1, <2>2 DEF Tasks, PARENT
    <3> QED
      BY <3>1 DEF CopyAt
  <2> QED
    BY <1>1, <2>1, <2>2
<1>4. RecheckAt(k) \in Tasks \X AllIdx
  <2>1. CASE k > TaskNum
    <3>1. k - TaskNum \in 1 .. OwnSlots /\ ~(k <= TaskNum)
      BY <1>1, <2>1
    <3> QED
      BY <1>2, <3>1, SlotAtType DEF RecheckAt
  <2>2. CASE k <= TaskNum
    BY <1>1, <2>2 DEF RecheckAt, Tasks, HELPED, AllIdx
  <2> QED
    BY <1>1, <2>1, <2>2
<1> QED
  BY <1>3, <1>4

-----------------------------------------------------------------------------
\* How the tag of a slot goes with the slow path of its owner.
Tagged ==
    \A t \in Tasks :
        /\ pc[t] = "slow" => tag[t][call[t].idx] < MaxTag
        /\ pc[t] \in SlowPC =>
              /\ call[t].seqno < MaxTag
              /\ \/ tag[t][call[t].idx] = call[t].seqno
                 \/ /\ pc[t] \in Asking
                    /\ tag[t][call[t].idx] = call[t].seqno + 1

\* A request without an answer is that of a thread in the slow path with that
\* slot; an answer is stamped with an epoch.
Requested ==
    \A u \in Tasks, j \in Idx :
        IF states[u][j].ptr = INVPTR
        THEN /\ pc[u] \in Waiting /\ call[u].idx = j
             /\ call[u].seqno = states[u][j].stamp
             /\ tag[u][j] = states[u][j].stamp
        ELSE states[u][j].stamp \in Epochs

\* Threads that help have a new block, and stay under the bound of the epoch.
\* Every slow path is counted as it starts and as it ends.
InSlow == {t \in Tasks : pc[t] \in Slow}
Counted ==
    /\ \A t \in Tasks :
          pc[t] \in HelpPC \union {"advance", "birth"} => mine[t] # NULL
    /\ epoch + Cardinality(Advancing) <= MaxEpoch
    /\ counterStart = counterEnd + Cardinality(InSlow)

\* The request of slot j of u with tag s has been made.
Issued(u, j, s) ==
    \/ s < tag[u][j]
    \/ pc[u] \in Asking /\ call[u].idx = j /\ call[u].seqno = s

\* A helper is at work on a request that was made, and leaves it when it is
\* open no longer.
Served ==
    \A t \in Tasks :
        LET u == Who(t)[1]
            j == Who(t)[2]
        IN
        /\ pc[t] \in Helping => Issued(u, j, help[t].last)
        /\ pc[t] \in Through => ~Pending(u, j, help[t].last)

\* The requests a helper found open as it began: it has passed those that are
\* still open only when it has not come to their slot; at the slot it is at,
\* none is open but the one it works on.
Passed(t, r) ==
    \/ pc[t] = "advance"
    \/ /\ pc[t] \in Looping
       /\ \E k \in 1 .. help[t].pos - 1 : SlotAt(k) = <<r[1], r[2]>>
    \/ pc[t] \in Helping /\ Who(t) = <<r[1], r[2]>> /\ r[3] # help[t].last

Attended ==
    \A t \in Tasks :
        /\ asked[t] \subseteq Tasks \X Idx \X Tags
        /\ pc[t] = "hstarts" /\ asked[t] # {} => counterStart > help[t].ends
        /\ \A r \in asked[t] :
              /\ Issued(r[1], r[2], r[3])
              /\ Passed(t, r) => ~Pending(r[1], r[2], r[3])

TypeInv == TypeOK /\ Tagged /\ Requested /\ Counted
Inv == TypeInv /\ Served /\ Attended

-----------------------------------------------------------------------------
\* The constants in their ranges.
LEMMA Names ==
  /\ Idx \subseteq 1 .. PARENT /\ Idx \subseteq AllIdx
  /\ PARENT \in AllIdx /\ HELPED \in AllIdx /\ 1 \in Idx
  /\ 0 \in Epochs /\ 0 \in Tags /\ 1 \in 1 .. OwnSlots
  /\ OwnSlots \in Nat /\ TaskNum \in Nat
  /\ NULL \in Ptrs /\ INVPTR \notin Ptrs
  /\ NoCall \in Calls /\ NoHelp \in Helps /\ NoScan \in Scans
<1>1. /\ HENum \in Nat /\ HENum > 0 /\ TaskNum \in Nat /\ TaskNum > 0
      /\ MaxEpoch \in Nat /\ MaxTag \in Nat /\ Attempts \in Nat
  BY ParamAssumption, ClientAssumption
<1>2. /\ Idx \subseteq 1 .. PARENT /\ Idx \subseteq AllIdx
      /\ PARENT \in AllIdx /\ HELPED \in AllIdx /\ 1 \in Idx
      /\ 0 \in Epochs /\ 0 \in Tags /\ 0 \in 0 .. Attempts
  BY <1>1 DEF Idx, PARENT, HELPED, AllIdx, Epochs, Tags
<1>3. /\ 1 \in 1 .. OwnSlots /\ 1 \in 1 .. OwnSlots + TaskNum
      /\ OwnSlots \in Nat
  <2>1. TaskNum * HENum >= 1
    BY <1>1
  <2> QED
    BY <1>1, <2>1 DEF OwnSlots
<1>4. NULL \in Ptrs /\ INVPTR \notin Ptrs
  BY ParamAssumption DEF Ptrs
<1> QED
  BY <1>1, <1>2, <1>3, <1>4 DEF NoCall, Calls, NoHelp, Helps, NoScan, Scans

\* The locals in their ranges.
LEMMA CallFields ==
  ASSUME TypeOK, NEW t \in Tasks
  PROVE  /\ call[t].idx \in Idx /\ call[t].cell \in Cells \union {NULL}
         /\ call[t].node \in Ptrs /\ call[t].ptr \in Ptrs
         /\ call[t].prev \in Epochs /\ call[t].curr \in Epochs
         /\ call[t].attempts \in 0 .. Attempts /\ call[t].seqno \in Tags
<1>1. call[t] \in Calls
  BY DEF TypeOK
<1> QED
  BY <1>1 DEF Calls

LEMMA HelpFields ==
  ASSUME TypeOK, NEW t \in Tasks
  PROVE  /\ help[t].pos \in 1 .. OwnSlots /\ help[t].ends \in Nat
         /\ help[t].last \in Tags /\ help[t].epoch \in Epochs
         /\ help[t].cell \in Cells \union {NULL} /\ help[t].node \in Ptrs
         /\ help[t].ptr \in Ptrs /\ help[t].prev \in Epochs
         /\ Who(t)[1] \in Tasks /\ Who(t)[2] \in Idx
<1>1. help[t] \in Helps
  BY DEF TypeOK
<1>2. /\ help[t].pos \in 1 .. OwnSlots /\ help[t].ends \in Nat
      /\ help[t].last \in Tags /\ help[t].epoch \in Epochs
      /\ help[t].cell \in Cells \union {NULL} /\ help[t].node \in Ptrs
      /\ help[t].ptr \in Ptrs /\ help[t].prev \in Epochs
  BY <1>1 DEF Helps
<1>3. Who(t)[1] \in Tasks /\ Who(t)[2] \in Idx
  BY <1>2, SlotAtType DEF Who
<1> QED
  BY <1>2, <1>3

LEMMA ScanFields ==
  ASSUME TypeOK, NEW t \in Tasks
  PROVE  /\ scan[t].pos \in 1 .. OwnSlots + TaskNum
         /\ scan[t].todo \subseteq Objs /\ scan[t].obj \in Ptrs
<1>1. scan[t] \in Scans
  BY DEF TypeOK
<1> QED
  BY <1>1 DEF Scans

\* What is in a request.
LEMMA RequestFields ==
  ASSUME TypeOK, NEW u \in Tasks, NEW j \in Idx
  PROVE  /\ states[u][j] \in Requests
         /\ states[u][j].ptr \in Ptrs \union {INVPTR}
         /\ states[u][j].stamp \in Epochs \union Tags
         /\ states[u][j].epoch \in Epochs
         /\ states[u][j].cell \in Cells \union {NULL}
         /\ states[u][j].node \in Ptrs
<1>1. states[u][j] \in Requests
  BY DEF TypeOK
<1> QED
  BY <1>1 DEF Requests

\* A local keeps its type when a field of it gets a value in range.
LEMMA CallEdit ==
  ASSUME NEW r \in Calls
  PROVE  /\ \A p \in Ptrs : [r EXCEPT !.ptr = p] \in Calls
         /\ \A e \in Epochs : [r EXCEPT !.curr = e] \in Calls
         /\ \A e \in Epochs : [r EXCEPT !.prev = e] \in Calls
         /\ \A a \in 0 .. Attempts : [r EXCEPT !.attempts = a] \in Calls
         /\ \A s \in Tags : [r EXCEPT !.seqno = s] \in Calls
         /\ \A j \in Idx : [r EXCEPT !.idx = j] \in Calls
BY DEF Calls

LEMMA HelpEdit ==
  ASSUME NEW r \in Helps
  PROVE  /\ \A k \in 1 .. OwnSlots : [r EXCEPT !.pos = k] \in Helps
         /\ \A n \in Nat : [r EXCEPT !.ends = n] \in Helps
         /\ \A s \in Tags : [r EXCEPT !.last = s] \in Helps
         /\ \A e \in Epochs : [r EXCEPT !.epoch = e] \in Helps
         /\ \A c \in Cells \union {NULL} : [r EXCEPT !.cell = c] \in Helps
         /\ \A p \in Ptrs : [r EXCEPT !.node = p] \in Helps
         /\ \A p \in Ptrs : [r EXCEPT !.ptr = p] \in Helps
         /\ \A e \in Epochs : [r EXCEPT !.prev = e] \in Helps
         /\ \A s \in Tags : [r EXCEPT !.oldTag = s] \in Helps
         /\ \A e \in Epochs : [r EXCEPT !.old = e] \in Helps
BY DEF Helps

LEMMA ScanEdit ==
  ASSUME NEW r \in Scans
  PROVE  /\ \A k \in 1 .. OwnSlots + TaskNum : [r EXCEPT !.pos = k] \in Scans
         /\ \A S \in SUBSET Objs : [r EXCEPT !.todo = S] \in Scans
         /\ \A p \in Ptrs : [r EXCEPT !.obj = p] \in Scans
         /\ \A n \in Nat : [r EXCEPT !.ends = n] \in Scans
BY DEF Scans

LEMMA RequestEdit ==
  ASSUME NEW r \in Requests
  PROVE  /\ \A p \in Ptrs \union {INVPTR} : [r EXCEPT !.ptr = p] \in Requests
         /\ \A s \in Epochs \union Tags : [r EXCEPT !.stamp = s] \in Requests
         /\ \A e \in Epochs : [r EXCEPT !.epoch = e] \in Requests
         /\ \A c \in Cells \union {NULL} : [r EXCEPT !.cell = c] \in Requests
         /\ \A p \in Ptrs : [r EXCEPT !.node = p] \in Requests
BY DEF Requests

\* The locals at the start of a call.
LEMMA CallStart ==
  /\ \A j \in Idx, c \in Cells, n \in Ptrs, p \in Ptrs :
        [NoCall EXCEPT !.op = "read", !.idx = j, !.cell = c, !.node = n,
                       !.ptr = p, !.attempts = Attempts] \in Calls
  /\ \A j \in Idx, n \in Ptrs :
        [NoCall EXCEPT !.op = "reserve", !.idx = j, !.node = n,
                       !.attempts = Attempts] \in Calls
<1>1. /\ 0 \in Epochs /\ 0 \in Tags /\ NULL \in Ptrs
      /\ Attempts \in 0 .. Attempts
  BY Names, ParamAssumption
<1> QED
  BY <1>1 DEF NoCall, Calls

\* The threads are finitely many.
LEMMA TasksFinite == IsFiniteSet(Tasks)
BY FS_Interval, ClientAssumption DEF Tasks

\* The next slot is one.
LEMMA NextPos ==
  ASSUME TypeOK, NEW t \in Tasks, help[t].pos < OwnSlots
  PROVE  [NoHelp EXCEPT !.pos = help[t].pos + 1] \in Helps
<1>1. help[t].pos + 1 \in 1 .. OwnSlots
  BY HelpFields, Names
<1> QED
  BY <1>1, Names, HelpEdit

\* While a thread may still advance the epoch there is room for it.
LEMMA EpochFree ==
  ASSUME TypeOK, Counted, NEW t \in Tasks, t \in Advancing
  PROVE  epoch + 1 \in Epochs
<1>1. IsFiniteSet(Advancing)
  BY FS_Subset, TasksFinite DEF Advancing
<1>2. Cardinality(Advancing) >= 1
  BY <1>1, FS_EmptySet, FS_CardinalityType
<1> QED
  BY <1>1, <1>2, FS_CardinalityType, ParamAssumption DEF TypeOK, Counted, Epochs

\* A tag that a helper may raise is not the last.
LEMMA LastTag ==
  ASSUME TypeOK, Tagged, Served, NEW t \in Tasks, pc[t] \in Helping,
         help[t].last = tag[Who(t)[1]][Who(t)[2]]
  PROVE  help[t].last + 1 \in Tags
<1> DEFINE u == Who(t)[1]
           j == Who(t)[2]
<1>1. u \in Tasks /\ j \in Idx /\ help[t].last \in Tags
  BY HelpFields
<1>2. Issued(u, j, help[t].last)
  BY DEF Served
<1>3. tag[u][j] \in Tags
  BY <1>1 DEF TypeOK
<1>4. pc[u] \in Asking /\ call[u].idx = j /\ call[u].seqno = help[t].last
  BY <1>1, <1>2, <1>3 DEF Issued, Tags
<1>5. call[u].seqno < MaxTag
  BY <1>1, <1>4 DEF Tagged, Asking, SlowPC
<1> QED
  BY <1>1, <1>4, <1>5, ParamAssumption DEF Tags

\* The types, but for the client's variables and the lists.
LEMMA TypeNext ==
  ASSUME Inv, [Next]_vars, ListTypeOK'
  PROVE  TypeOK'
<1>1. TypeOK
  BY DEF Inv, TypeInv
<1>2. epoch \in Epochs /\ counterStart \in Nat /\ counterEnd \in Nat
  BY <1>1 DEF TypeOK
<1>3. /\ reservations \in [Tasks -> [AllIdx -> Epochs]]
      /\ tag \in [Tasks -> [Idx -> Tags]]
  BY <1>1 DEF TypeOK
<1>4. states \in [Tasks -> [Idx -> Requests]]
  BY <1>1 DEF TypeOK
<1>5. /\ birth \in [Objs -> Epochs] /\ retireEpoch \in [Objs -> Epochs]
      /\ allocs \in [Tasks -> 0 .. EpochFreq - 1]
      /\ retires \in [Tasks -> 0 .. Freq - 1]
      /\ local \in [Tasks -> [Tasks -> [1 .. PARENT -> Epochs]]]
  BY <1>1 DEF TypeOK
<1>6. /\ held \in [Tasks -> [Idx -> Ptrs]]
      /\ helped \in [Tasks -> [Idx -> Ptrs]]
  BY <1>1 DEF TypeOK
<1>7. /\ asked \in [Tasks -> SUBSET (Tasks \X Idx \X Tags)]
      /\ pc \in [Tasks -> PC]
  BY <1>1 DEF TypeOK
<1>8. call \in [Tasks -> Calls]
  BY <1>1 DEF TypeOK
<1>9. help \in [Tasks -> Helps]
  BY <1>1 DEF TypeOK
<1>10. scan \in [Tasks -> Scans]
  BY <1>1 DEF TypeOK
<1>11. /\ cell \in [Cells -> Ptrs] /\ mine \in [Tasks -> Ptrs]
      /\ victim \in [Tasks -> Ptrs] /\ retired \in [Tasks -> SUBSET Objs]
  BY <1>1 DEF TypeOK, ListTypeOK, ClientTypeOK
<1>12. ASSUME NEW t \in Tasks, AllocAdvance(t) PROVE TypeOK'
  <2>1. t \in Advancing /\ Counted
    BY <1>12 DEF AllocAdvance, Advancing, Inv, TypeInv
  <2>2. epoch' \in Epochs
    BY <1>2, <1>12, <1>1, <2>1, EpochFree DEF AllocAdvance
  <2>3. asked' \in [Tasks -> SUBSET (Tasks \X Idx \X Tags)]
    BY <1>7, <1>12 DEF AllocAdvance
  <2>4. pc' \in [Tasks -> PC]
    BY <1>7, <1>12 DEF AllocAdvance, Goto, PC, SlowPC, HelpPC
  <2> QED
    BY <1>1, <1>12, <2>2, <2>3, <2>4
       DEF AllocAdvance, TypeOK, counters, slots, blocks, garbage, given
<1>13. ASSUME NEW t \in Tasks, AllocBirth(t) PROVE TypeOK'
  <2>1. birth' \in [Objs -> Epochs]
    BY <1>5, <1>13, <1>2 DEF AllocBirth
  <2>2. pc' \in [Tasks -> PC]
    BY <1>7, <1>13 DEF AllocBirth, Goto, PC, SlowPC, HelpPC
  <2> QED
    BY <1>1, <1>13, <2>1, <2>2
       DEF AllocBirth, TypeOK, counters, slots, blocks, garbage, given
<1>14. ASSUME NEW t \in Tasks, ReadLoad(t) PROVE TypeOK'
  <2>1. call' \in [Tasks -> Calls]
    BY <1>8, <1>14, <1>1, <1>11, CallFields, CallEdit, Names DEF ReadLoad, Load
  <2>2. pc' \in [Tasks -> PC]
    BY <1>7, <1>14 DEF ReadLoad, Goto, PC, SlowPC, HelpPC
  <2> QED
    BY <1>1, <1>14, <2>1, <2>2
       DEF ReadLoad, TypeOK, counters, slots, blocks, garbage, given
<1>15. ASSUME NEW t \in Tasks, CheckSame(t) PROVE TypeOK'
  <2>1. held' \in [Tasks -> [Idx -> Ptrs]]
    BY <1>6, <1>15, <1>1, CallFields DEF CheckSame
  <2>2. call' \in [Tasks -> Calls]
    BY <1>8, <1>15, Names DEF CheckSame
  <2>3. pc' \in [Tasks -> PC]
    BY <1>7, <1>15 DEF CheckSame, Goto, PC, SlowPC, HelpPC
  <2> QED
    BY <1>1, <1>15, <2>1, <2>2, <2>3
       DEF CheckSame, TypeOK, counters, slots, blocks, garbage, given
<1>16. ASSUME NEW t \in Tasks, CheckNew(t) PROVE TypeOK'
  <2>1. call' \in [Tasks -> Calls]
    BY <1>8, <1>16, <1>2, CallEdit DEF CheckNew
  <2>2. pc' \in [Tasks -> PC]
    BY <1>7, <1>16 DEF CheckNew, Goto, PC, SlowPC, HelpPC
  <2> QED
    BY <1>1, <1>16, <2>1, <2>2
       DEF CheckNew, TypeOK, counters, slots, blocks, garbage, given
<1>17. ASSUME NEW t \in Tasks, StoreEpoch(t) PROVE TypeOK'
  <2>1. /\ 0 \in 0 .. Attempts
        /\ (IF call[t].attempts > 1 THEN call[t].attempts - 1
              ELSE call[t].attempts) \in 0 .. Attempts
    BY <1>1, CallFields, ParamAssumption
  <2>2. reservations' \in [Tasks -> [AllIdx -> Epochs]]
    BY <1>3, <1>17, <1>1, CallFields, Names DEF StoreEpoch
  <2>3. call' \in [Tasks -> Calls]
    BY <1>8, <1>17, <2>1, CallEdit DEF StoreEpoch
  <2>4. pc' \in [Tasks -> PC]
    BY <1>7, <1>17 DEF StoreEpoch, Goto, PC, SlowPC, HelpPC
  <2> QED
    BY <1>1, <1>17, <2>2, <2>3, <2>4
       DEF StoreEpoch, TypeOK, counters, slots, blocks, garbage, given
<1>18. ASSUME NEW t \in Tasks, SlowStart(t) PROVE TypeOK'
  <2>1. /\ reservations[t][call[t].idx] \in Epochs
        /\ tag[t][call[t].idx] \in Tags
    BY <1>1, <1>3, CallFields, Names
  <2>2. counterStart' \in Nat
    BY <1>2, <1>18 DEF SlowStart
  <2>3. call' \in [Tasks -> Calls]
    BY <1>8, <1>18, <2>1, CallEdit DEF SlowStart
  <2>4. pc' \in [Tasks -> PC]
    BY <1>7, <1>18 DEF SlowStart, Goto, PC, SlowPC, HelpPC
  <2> QED
    BY <1>1, <1>18, <2>2, <2>3, <2>4
       DEF SlowStart, TypeOK, counters, slots, blocks, garbage, given
<1>19. ASSUME NEW t \in Tasks, SlowPointer(t) PROVE TypeOK'
  <2>1. states' \in [Tasks -> [Idx -> Requests]]
    BY <1>4, <1>19, <1>1, CallFields, RequestFields, RequestEdit DEF SlowPointer
  <2>2. pc' \in [Tasks -> PC]
    BY <1>7, <1>19 DEF SlowPointer, Goto, PC, SlowPC, HelpPC
  <2> QED
    BY <1>1, <1>19, <2>1, <2>2
       DEF SlowPointer, TypeOK, counters, slots, blocks, garbage, given
<1>20. ASSUME NEW t \in Tasks, SlowEpoch(t) PROVE TypeOK'
  <2>1. states' \in [Tasks -> [Idx -> Requests]]
    BY <1>4, <1>20, <1>1, <1>5, CallFields, RequestFields, RequestEdit, Names
       DEF SlowEpoch, Ptrs
  <2>2. pc' \in [Tasks -> PC]
    BY <1>7, <1>20 DEF SlowEpoch, Goto, PC, SlowPC, HelpPC
  <2> QED
    BY <1>1, <1>20, <2>1, <2>2
       DEF SlowEpoch, TypeOK, counters, slots, blocks, garbage, given
<1>21. ASSUME NEW t \in Tasks, SlowRequest(t) PROVE TypeOK'
  <2>1. states' \in [Tasks -> [Idx -> Requests]]
    BY <1>4, <1>21, <1>1, CallFields, RequestFields, RequestEdit DEF SlowRequest
  <2>2. pc' \in [Tasks -> PC]
    BY <1>7, <1>21 DEF SlowRequest, Goto, PC, SlowPC, HelpPC
  <2> QED
    BY <1>1, <1>21, <2>1, <2>2
       DEF SlowRequest, TypeOK, counters, slots, blocks, garbage, given
<1>22. ASSUME NEW t \in Tasks, SlowLoad(t) PROVE TypeOK'
  <2>1. call' \in [Tasks -> Calls]
    BY <1>8, <1>22, <1>1, <1>11, CallFields, CallEdit, Names DEF SlowLoad, Load
  <2>2. pc' \in [Tasks -> PC]
    BY <1>7, <1>22 DEF SlowLoad, Goto, PC, SlowPC, HelpPC
  <2> QED
    BY <1>1, <1>22, <2>1, <2>2
       DEF SlowLoad, TypeOK, counters, slots, blocks, garbage, given
<1>23. ASSUME NEW t \in Tasks, SlowCheck(t) PROVE TypeOK'
  <2>1. call' \in [Tasks -> Calls]
    BY <1>8, <1>23, <1>2, CallEdit DEF SlowCheck
  <2>2. pc' \in [Tasks -> PC]
    BY <1>7, <1>23 DEF SlowCheck, Goto, PC, SlowPC, HelpPC
  <2> QED
    BY <1>1, <1>23, <2>1, <2>2
       DEF SlowCheck, TypeOK, counters, slots, blocks, garbage, given
<1>24. ASSUME NEW t \in Tasks, SlowCas(t) PROVE TypeOK'
  <2>1. /\ call[t].idx \in Idx /\ call[t].ptr \in Ptrs
        /\ NULL \in Ptrs \union {INVPTR} /\ 0 \in Epochs \union Tags
    BY <1>1, CallFields, Names
  <2>2. states' \in [Tasks -> [Idx -> Requests]]
    <3>1. CASE states' = [states EXCEPT ![t][call[t].idx].ptr = NULL,
                                        ![t][call[t].idx].stamp = 0]
      BY <3>1, <1>1, <1>4, <2>1, RequestFields, RequestEdit
    <3>2. CASE UNCHANGED states
      BY <1>4, <3>2
    <3> QED
      BY <1>24, <3>1, <3>2 DEF SlowCas
  <2>3. held' \in [Tasks -> [Idx -> Ptrs]]
    <3>1. CASE held' = [held EXCEPT ![t][call[t].idx] = call[t].ptr]
      BY <3>1, <1>6, <2>1
    <3>2. CASE UNCHANGED held
      BY <1>6, <3>2
    <3> QED
      BY <1>24, <3>1, <3>2 DEF SlowCas
  <2>4. pc' \in [Tasks -> PC]
    BY <1>7, <1>24 DEF SlowCas, Goto, PC, SlowPC, HelpPC
  <2> QED
    BY <1>1, <1>24, <2>2, <2>3, <2>4
       DEF SlowCas, TypeOK, counters, slots, blocks, garbage, given
<1>25. ASSUME NEW t \in Tasks, SlowSlot(t) PROVE TypeOK'
  <2>1. call[t].idx \in AllIdx /\ call[t].curr \in Epochs
    BY <1>1, CallFields, Names
  <2>2. reservations' \in [Tasks -> [AllIdx -> Epochs]]
    <3>1. \/ reservations' = [reservations EXCEPT ![t][call[t].idx] = call[t].curr]
          \/ reservations' = reservations
      BY <1>25 DEF SlowSlot
    <3> QED
      <4>1. CASE reservations' = reservations
        BY <1>3, <4>1
      <4>2. CASE reservations' = [reservations EXCEPT ![t][call[t].idx] = call[t].curr]
        BY <1>3, <2>1, <4>2
      <4> QED
        BY <3>1, <4>1, <4>2
  <2>3. call' \in [Tasks -> Calls]
    BY <1>8, <1>25, <2>1, CallEdit DEF SlowSlot
  <2>4. pc' \in [Tasks -> PC]
    BY <1>7, <1>25 DEF SlowSlot, Goto, PC, SlowPC, HelpPC
  <2> QED
    BY <1>1, <1>25, <2>2, <2>3, <2>4
       DEF SlowSlot, TypeOK, counters, slots, blocks, garbage, given
<1>26. ASSUME NEW t \in Tasks, SlowResult(t) PROVE TypeOK'
  <2>1. states[t][call[t].idx].ptr # INVPTR =>
             /\ states[t][call[t].idx].ptr \in Ptrs
             /\ states[t][call[t].idx].stamp \in Epochs
    BY <1>1, CallFields, RequestFields DEF Inv, TypeInv, Requested
  <2>2. call' \in [Tasks -> Calls]
    BY <1>8, <1>26, CallEdit, <2>1 DEF SlowResult
  <2>3. pc' \in [Tasks -> PC]
    BY <1>7, <1>26 DEF SlowResult, Goto, PC, SlowPC, HelpPC
  <2> QED
    BY <1>1, <1>26, <2>2, <2>3
       DEF SlowResult, TypeOK, counters, slots, blocks, garbage, given
<1>27. ASSUME NEW t \in Tasks, SlowTake(t) PROVE TypeOK'
  <2>1. reservations' \in [Tasks -> [AllIdx -> Epochs]]
    BY <1>3, <1>27, <1>1, CallFields, Names DEF SlowTake
  <2>2. helped' \in [Tasks -> [Idx -> Ptrs]]
    BY <1>6, <1>27, <1>1, CallFields DEF SlowTake
  <2>3. pc' \in [Tasks -> PC]
    BY <1>7, <1>27 DEF SlowTake, Goto, PC, SlowPC, HelpPC
  <2> QED
    BY <1>1, <1>27, <2>1, <2>2, <2>3
       DEF SlowTake, TypeOK, counters, slots, blocks, garbage, given
<1>28. ASSUME NEW t \in Tasks, SlowTag(t) PROVE TypeOK'
  <2>1. call[t].seqno + 1 \in Tags
    BY <1>1, <1>28, CallFields, ParamAssumption
       DEF SlowTag, Inv, TypeInv, Tagged, SlowPC, Tags
  <2>2. tag' \in [Tasks -> [Idx -> Tags]]
    BY <1>3, <1>28, <1>1, CallFields, <2>1 DEF SlowTag
  <2>3. pc' \in [Tasks -> PC]
    BY <1>7, <1>28 DEF SlowTag, Goto, PC, SlowPC, HelpPC
  <2> QED
    BY <1>1, <1>28, <2>2, <2>3
       DEF SlowTag, TypeOK, counters, slots, blocks, garbage, given
<1>29. ASSUME NEW t \in Tasks, SlowEnd(t) PROVE TypeOK'
  <2>1. counterEnd' \in Nat
    BY <1>2, <1>29 DEF SlowEnd
  <2>2. call' \in [Tasks -> Calls]
    BY <1>8, <1>29, Names DEF SlowEnd
  <2>3. pc' \in [Tasks -> PC]
    BY <1>7, <1>29 DEF SlowEnd, Goto, PC, SlowPC, HelpPC
  <2> QED
    BY <1>1, <1>29, <2>1, <2>2, <2>3
       DEF SlowEnd, TypeOK, counters, slots, blocks, garbage, given
<1>30. ASSUME NEW t \in Tasks, HelpEnds(t) PROVE TypeOK'
  <2>1. help' \in [Tasks -> Helps]
    BY <1>9, <1>30, <1>2, HelpEdit DEF HelpEnds
  <2>2. asked' \in [Tasks -> SUBSET (Tasks \X Idx \X Tags)]
    BY <1>7, <1>30 DEF HelpEnds, Open
  <2>3. pc' \in [Tasks -> PC]
    BY <1>7, <1>30 DEF HelpEnds, Goto, PC, SlowPC, HelpPC
  <2> QED
    BY <1>1, <1>30, <2>1, <2>2, <2>3
       DEF HelpEnds, TypeOK, counters, slots, blocks, garbage, given
<1>31. ASSUME NEW t \in Tasks, HelpStarts(t) PROVE TypeOK'
  <2>1. help' \in [Tasks -> Helps]
    BY <1>9, <1>31, Names DEF HelpStarts
  <2>2. pc' \in [Tasks -> PC]
    BY <1>7, <1>31 DEF HelpStarts, Goto, PC, SlowPC, HelpPC
  <2> QED
    BY <1>1, <1>31, <2>1, <2>2
       DEF HelpStarts, TypeOK, counters, slots, blocks, garbage, given
<1>32. ASSUME NEW t \in Tasks, HelpLook(t) PROVE TypeOK'
  <2>1. /\ states[Who(t)[1]][Who(t)[2]].ptr = INVPTR =>
             states[Who(t)[1]][Who(t)[2]].stamp \in Tags
        /\ help[t].pos < OwnSlots =>
            [NoHelp EXCEPT !.pos = help[t].pos + 1] \in Helps
    <3>1. Who(t)[1] \in Tasks /\ Who(t)[2] \in Idx
      BY <1>1, HelpFields
    <3>2. states[Who(t)[1]][Who(t)[2]].ptr = INVPTR =>
             tag[Who(t)[1]][Who(t)[2]] = states[Who(t)[1]][Who(t)[2]].stamp
      BY <3>1 DEF Inv, TypeInv, Requested
    <3>3. tag[Who(t)[1]][Who(t)[2]] \in Tags
      BY <1>3, <3>1
    <3> QED
      BY <1>1, <3>2, <3>3, NextPos
  <2>2. help' \in [Tasks -> Helps]
    <3>1. CASE /\ help' = [help EXCEPT
                            ![t].last = states[Who(t)[1]][Who(t)[2]].stamp]
               /\ states[Who(t)[1]][Who(t)[2]].ptr = INVPTR
      <4>1. [help[t] EXCEPT !.last = states[Who(t)[1]][Who(t)[2]].stamp] \in Helps
        BY <3>1, <1>9, <2>1, HelpEdit
      <4> QED
        BY <1>9, <3>1, <4>1
    <3>2. CASE /\ help' = [help EXCEPT
                            ![t] = [NoHelp EXCEPT !.pos = help[t].pos + 1]]
               /\ help[t].pos < OwnSlots
      <4>1. [NoHelp EXCEPT !.pos = help[t].pos + 1] \in Helps
        BY <3>2, <1>1, NextPos
      <4> QED
        BY <1>9, <3>2, <4>1
    <3>3. CASE help' = [help EXCEPT ![t] = NoHelp]
      BY <3>3, <1>9, Names
    <3>4. CASE UNCHANGED help
      BY <1>9, <3>4
    <3> QED
      BY <1>32, <3>1, <3>2, <3>3, <3>4 DEF HelpLook, NextSlot
  <2>3. pc' \in [Tasks -> PC]
    BY <1>7, <1>32 DEF HelpLook, NextSlot, Goto, PC, SlowPC, HelpPC
  <2> QED
    BY <1>1, <1>32, <2>2, <2>3
       DEF HelpLook, TypeOK, counters, slots, blocks, garbage, given
<1>33. ASSUME NEW t \in Tasks, HelpEpoch(t) PROVE TypeOK'
  <2>1. help' \in [Tasks -> Helps]
    BY <1>9, <1>33, <1>1, HelpFields, RequestFields, HelpEdit DEF HelpEpoch
  <2>2. pc' \in [Tasks -> PC]
    BY <1>7, <1>33 DEF HelpEpoch, Goto, PC, SlowPC, HelpPC
  <2> QED
    BY <1>1, <1>33, <2>1, <2>2
       DEF HelpEpoch, TypeOK, counters, slots, blocks, garbage, given
<1>34. ASSUME NEW t \in Tasks, HelpParent(t) PROVE TypeOK'
  <2>1. reservations' \in [Tasks -> [AllIdx -> Epochs]]
    BY <1>3, <1>34, <1>1, HelpFields, Names DEF HelpParent
  <2>2. pc' \in [Tasks -> PC]
    BY <1>7, <1>34 DEF HelpParent, Goto, PC, SlowPC, HelpPC
  <2> QED
    BY <1>1, <1>34, <2>1, <2>2
       DEF HelpParent, TypeOK, counters, slots, blocks, garbage, given
<1>35. ASSUME NEW t \in Tasks, HelpPointer(t) PROVE TypeOK'
  <2>1. help' \in [Tasks -> Helps]
    BY <1>9, <1>35, <1>1, HelpFields, RequestFields, HelpEdit DEF HelpPointer
  <2>2. pc' \in [Tasks -> PC]
    BY <1>7, <1>35 DEF HelpPointer, Goto, PC, SlowPC, HelpPC
  <2> QED
    BY <1>1, <1>35, <2>1, <2>2
       DEF HelpPointer, TypeOK, counters, slots, blocks, garbage, given
<1>36. ASSUME NEW t \in Tasks, HelpSeqno(t) PROVE TypeOK'
  <2>1. pc' \in [Tasks -> PC]
    BY <1>7, <1>36 DEF HelpSeqno, Goto, PC, SlowPC, HelpPC
  <2> QED
    BY <1>1, <1>36, <2>1
       DEF HelpSeqno, TypeOK, counters, slots, blocks, garbage, given
<1>37. ASSUME NEW t \in Tasks, HelpFirst(t) PROVE TypeOK'
  <2>1. help' \in [Tasks -> Helps]
    BY <1>9, <1>37, <1>2, HelpEdit DEF HelpFirst
  <2>2. pc' \in [Tasks -> PC]
    BY <1>7, <1>37 DEF HelpFirst, Goto, PC, SlowPC, HelpPC
  <2> QED
    BY <1>1, <1>37, <2>1, <2>2
       DEF HelpFirst, TypeOK, counters, slots, blocks, garbage, given
<1>38. ASSUME NEW t \in Tasks, HelpStore(t) PROVE TypeOK'
  <2>1. reservations' \in [Tasks -> [AllIdx -> Epochs]]
    BY <1>3, <1>38, <1>1, HelpFields, Names DEF HelpStore
  <2>2. pc' \in [Tasks -> PC]
    BY <1>7, <1>38 DEF HelpStore, Goto, PC, SlowPC, HelpPC
  <2> QED
    BY <1>1, <1>38, <2>1, <2>2
       DEF HelpStore, TypeOK, counters, slots, blocks, garbage, given
<1>39. ASSUME NEW t \in Tasks, HelpLoad(t) PROVE TypeOK'
  <2>1. help' \in [Tasks -> Helps]
    BY <1>9, <1>39, <1>1, <1>11, HelpFields, HelpEdit, Names DEF HelpLoad, Load
  <2>2. pc' \in [Tasks -> PC]
    BY <1>7, <1>39 DEF HelpLoad, Goto, PC, SlowPC, HelpPC
  <2> QED
    BY <1>1, <1>39, <2>1, <2>2
       DEF HelpLoad, TypeOK, counters, slots, blocks, garbage, given
<1>40. ASSUME NEW t \in Tasks, HelpCheck(t) PROVE TypeOK'
  <2>1. help' \in [Tasks -> Helps]
    BY <1>9, <1>40, <1>2, HelpEdit DEF HelpCheck
  <2>2. pc' \in [Tasks -> PC]
    BY <1>7, <1>40 DEF HelpCheck, Goto, PC, SlowPC, HelpPC
  <2> QED
    BY <1>1, <1>40, <2>1, <2>2
       DEF HelpCheck, TypeOK, counters, slots, blocks, garbage, given
<1>41. ASSUME NEW t \in Tasks, HelpAgain(t) PROVE TypeOK'
  <2>1. pc' \in [Tasks -> PC]
    BY <1>7, <1>41 DEF HelpAgain, Goto, PC, SlowPC, HelpPC
  <2> QED
    BY <1>1, <1>41, <2>1
       DEF HelpAgain, TypeOK, counters, slots, blocks, garbage, given
<1>42. ASSUME NEW t \in Tasks, HelpCas(t) PROVE TypeOK'
  <2>1. /\ Who(t)[1] \in Tasks /\ Who(t)[2] \in Idx
        /\ help[t].ptr \in Ptrs \union {INVPTR}
        /\ help[t].prev \in Epochs \union Tags
    BY <1>1, HelpFields
  <2>2. states' \in [Tasks -> [Idx -> Requests]]
    <3>1. CASE states' = [states EXCEPT
                            ![Who(t)[1]][Who(t)[2]].ptr = help[t].ptr,
                            ![Who(t)[1]][Who(t)[2]].stamp = help[t].prev]
      BY <3>1, <1>1, <1>4, <2>1, RequestFields, RequestEdit
    <3>2. CASE UNCHANGED states
      BY <1>4, <3>2
    <3> QED
      BY <1>42, <3>1, <3>2 DEF HelpCas
  <2>3. pc' \in [Tasks -> PC]
    BY <1>7, <1>42 DEF HelpCas, Goto, PC, SlowPC, HelpPC
  <2> QED
    BY <1>1, <1>42, <2>2, <2>3
       DEF HelpCas, TypeOK, counters, slots, blocks, garbage, given
<1>43. ASSUME NEW t \in Tasks, HelpOldTag(t) PROVE TypeOK'
  <2>1. tag[Who(t)[1]][Who(t)[2]] \in Tags
    BY <1>1, <1>3, HelpFields
  <2>2. help' \in [Tasks -> Helps]
    BY <1>9, <1>43, HelpEdit, <2>1 DEF HelpOldTag
  <2>3. pc' \in [Tasks -> PC]
    BY <1>7, <1>43 DEF HelpOldTag, Goto, PC, SlowPC, HelpPC
  <2> QED
    BY <1>1, <1>43, <2>2, <2>3
       DEF HelpOldTag, TypeOK, counters, slots, blocks, garbage, given
<1>44. ASSUME NEW t \in Tasks, HelpOldEpoch(t) PROVE TypeOK'
  <2>1. reservations[Who(t)[1]][Who(t)[2]] \in Epochs
    BY <1>1, <1>3, HelpFields, Names
  <2>2. help' \in [Tasks -> Helps]
    BY <1>9, <1>44, HelpEdit, <2>1 DEF HelpOldEpoch
  <2>3. pc' \in [Tasks -> PC]
    BY <1>7, <1>44 DEF HelpOldEpoch, Goto, PC, SlowPC, HelpPC
  <2> QED
    BY <1>1, <1>44, <2>2, <2>3
       DEF HelpOldEpoch, TypeOK, counters, slots, blocks, garbage, given
<1>45. ASSUME NEW t \in Tasks, HelpSlot(t) PROVE TypeOK'
  <2>1. /\ Who(t)[1] \in Tasks /\ Who(t)[2] \in Idx /\ Who(t)[2] \in AllIdx
        /\ help[t].prev \in Epochs
        /\ tag[Who(t)[1]][Who(t)[2]] \in Tags
        /\ reservations[Who(t)[1]][Who(t)[2]] \in Epochs
        /\ help[t].last = tag[Who(t)[1]][Who(t)[2]] => help[t].last + 1 \in Tags
    <3>1. pc[t] \in Helping /\ Tagged /\ Served
      BY <1>45 DEF HelpSlot, Helping, Looping, HelpPC, Inv, TypeInv
    <3> QED
      BY <1>1, <1>3, <3>1, HelpFields, Names, LastTag
  <2>2. reservations' \in [Tasks -> [AllIdx -> Epochs]]
    <3>1. CASE reservations' = [reservations EXCEPT
                                  ![Who(t)[1]][Who(t)[2]] = help[t].prev]
      BY <3>1, <1>3, <2>1
    <3>2. CASE UNCHANGED reservations
      BY <1>3, <3>2
    <3> QED
      BY <1>45, <3>1, <3>2 DEF HelpSlot, SlotAsLoaded, SlotIs, slots
  <2>3. tag' \in [Tasks -> [Idx -> Tags]]
    <3>1. CASE /\ tag' = [tag EXCEPT ![Who(t)[1]][Who(t)[2]] = help[t].last + 1]
               /\ help[t].last = tag[Who(t)[1]][Who(t)[2]]
      <4>1. help[t].last + 1 \in Tags
        BY <3>1, <2>1
      <4> QED
        BY <1>3, <3>1, <4>1, <2>1
    <3>2. CASE UNCHANGED tag
      BY <1>3, <3>2
    <3> QED
      BY <1>45, <3>1, <3>2 DEF HelpSlot, SlotAsLoaded, SlotIs, slots
  <2>4. help' \in [Tasks -> Helps]
    <3>1. CASE help' = [help EXCEPT
                             ![t].oldTag = tag[Who(t)[1]][Who(t)[2]],
                             ![t].old = reservations[Who(t)[1]][Who(t)[2]]]
      BY <3>1, <1>9, <2>1, HelpEdit
    <3>2. CASE UNCHANGED help
      BY <1>9, <3>2
    <3> QED
      BY <1>45, <3>1, <3>2 DEF HelpSlot, SlotAsLoaded, SlotIs, slots
  <2>5. pc' \in [Tasks -> PC]
    BY <1>7, <1>45 DEF HelpSlot, Goto, PC, SlowPC, HelpPC
  <2> QED
    BY <1>1, <1>45, <2>2, <2>3, <2>4, <2>5
       DEF HelpSlot, TypeOK, counters, slots, blocks, garbage, given
<1>46. ASSUME NEW t \in Tasks, HelpRelease(t) PROVE TypeOK'
  <2>1. reservations' \in [Tasks -> [AllIdx -> Epochs]]
    BY <1>3, <1>46, Names DEF HelpRelease
  <2>2. pc' \in [Tasks -> PC]
    BY <1>7, <1>46 DEF HelpRelease, Goto, PC, SlowPC, HelpPC
  <2> QED
    BY <1>1, <1>46, <2>1, <2>2
       DEF HelpRelease, TypeOK, counters, slots, blocks, garbage, given
<1>47. ASSUME NEW t \in Tasks, HelpClear(t) PROVE TypeOK'
  <2>1. help[t].pos < OwnSlots =>
            [NoHelp EXCEPT !.pos = help[t].pos + 1] \in Helps
    BY <1>1, NextPos
  <2>2. reservations' \in [Tasks -> [AllIdx -> Epochs]]
    BY <1>3, <1>47, Names DEF HelpClear
  <2>3. help' \in [Tasks -> Helps]
    BY <1>9, <1>47, Names, <2>1 DEF HelpClear, NextSlot
  <2>4. pc' \in [Tasks -> PC]
    BY <1>7, <1>47 DEF HelpClear, NextSlot, Goto, PC, SlowPC, HelpPC
  <2> QED
    BY <1>1, <1>47, <2>2, <2>3, <2>4
       DEF HelpClear, TypeOK, counters, slots, blocks, garbage, given
<1>48. ASSUME NEW t \in Tasks, ClearSlot(t) PROVE TypeOK'
  <2>1. call[t].idx < HENum => call[t].idx + 1 \in Idx
    BY <1>1, CallFields, ParamAssumption DEF Idx
  <2>2. reservations' \in [Tasks -> [AllIdx -> Epochs]]
    BY <1>3, <1>48, <1>1, CallFields, Names DEF ClearSlot
  <2>3. call' \in [Tasks -> Calls]
    BY <1>8, <1>48, <1>1, CallFields, CallEdit, Names, <2>1 DEF ClearSlot
  <2>4. pc' \in [Tasks -> PC]
    BY <1>7, <1>48 DEF ClearSlot, Goto, PC, SlowPC, HelpPC
  <2> QED
    BY <1>1, <1>48, <2>2, <2>3, <2>4
       DEF ClearSlot, TypeOK, counters, slots, blocks, garbage, given
<1>49. ASSUME NEW t \in Tasks, CopySlot(t) PROVE TypeOK'
  <2>1. /\ CopyAt(scan[t].pos)[1] \in Tasks
        /\ CopyAt(scan[t].pos)[2] \in 1 .. PARENT
        /\ reservations[CopyAt(scan[t].pos)[1]][CopyAt(scan[t].pos)[2]] \in Epochs
        /\ scan[t].pos < LastSlot => scan[t].pos + 1 \in 1 .. OwnSlots + TaskNum
        /\ retired[t] \in SUBSET Objs
    <3>1. scan[t].pos \in 1 .. OwnSlots + TaskNum
      BY <1>1, ScanFields
    <3>2. CopyAt(scan[t].pos) \in Tasks \X (1 .. PARENT)
      BY <3>1, ScanType
    <3>3. 1 .. PARENT \subseteq AllIdx
      BY ParamAssumption DEF PARENT, AllIdx
    <3>4. scan[t].pos < LastSlot => scan[t].pos + 1 \in 1 .. OwnSlots + TaskNum
      BY <3>1, Names DEF LastSlot
    <3> QED
      BY <1>3, <1>11, <3>2, <3>3, <3>4
  <2>2. local' \in [Tasks -> [Tasks -> [1 .. PARENT -> Epochs]]]
    BY <1>5, <1>49, <2>1 DEF CopySlot
  <2>3. scan' \in [Tasks -> Scans]
    <3>1. CASE /\ scan' = [scan EXCEPT ![t].pos = scan[t].pos + 1]
               /\ scan[t].pos < LastSlot
      <4>1. [scan[t] EXCEPT !.pos = scan[t].pos + 1] \in Scans
        BY <3>1, <1>10, <2>1, ScanEdit
      <4> QED
        BY <1>10, <3>1, <4>1
    <3>2. CASE scan' = [scan EXCEPT ![t] = [NoScan EXCEPT !.todo = retired[t]]]
      <4>1. [NoScan EXCEPT !.todo = retired[t]] \in Scans
        BY <2>1, ScanEdit, Names
      <4> QED
        BY <1>10, <3>2, <4>1
    <3>3. CASE UNCHANGED scan
      BY <1>10, <3>3
    <3> QED
      BY <1>49, <3>1, <3>2, <3>3 DEF CopySlot
  <2>4. pc' \in [Tasks -> PC]
    BY <1>7, <1>49 DEF CopySlot, Goto, PC, SlowPC, HelpPC
  <2> QED
    BY <1>1, <1>49, <2>2, <2>3, <2>4
       DEF CopySlot, TypeOK, counters, slots, blocks, garbage, given
<1>50. ASSUME NEW t \in Tasks, EmptyEnds(t) PROVE TypeOK'
  <2>1. \A o \in scan[t].todo : o \in Ptrs /\ scan[t].todo \ {o} \in SUBSET Objs
    BY <1>1, ScanFields DEF Ptrs
  <2>2. scan' \in [Tasks -> Scans]
    <3>1. ASSUME NEW o \in scan[t].todo,
                scan' = [scan EXCEPT ![t].obj = o,
                                     ![t].ends = counterEnd]
          PROVE  scan' \in [Tasks -> Scans]
      BY <3>1, <1>10, <2>1, <1>2, ScanEdit
    <3>2. ASSUME NEW o \in scan[t].todo,
                scan' = [scan EXCEPT ![t].todo = scan[t].todo \ {o}]
          PROVE  scan' \in [Tasks -> Scans]
      BY <3>2, <1>10, <2>1, ScanEdit
    <3>3. CASE UNCHANGED scan
      BY <1>10, <3>3
    <3> QED
      BY <1>50, <3>1, <3>2, <3>3 DEF EmptyEnds
  <2>3. pc' \in [Tasks -> PC]
    BY <1>7, <1>50 DEF EmptyEnds, Goto, PC, SlowPC, HelpPC
  <2> QED
    BY <1>1, <1>50, <2>2, <2>3
       DEF EmptyEnds, TypeOK, counters, slots, blocks, garbage, given
<1>51. ASSUME NEW t \in Tasks, EmptyStarts(t) PROVE TypeOK'
  <2>1. [NoScan EXCEPT !.todo = scan[t].todo \ {scan[t].obj}] \in Scans
    BY <1>1, ScanFields, ScanEdit, Names
  <2>2. scan' \in [Tasks -> Scans]
    BY <1>10, <1>51, <2>1 DEF EmptyStarts, NextBlock
  <2>3. pc' \in [Tasks -> PC]
    BY <1>7, <1>51 DEF EmptyStarts, NextBlock, Goto, PC, SlowPC, HelpPC
  <2> QED
    BY <1>1, <1>51, <2>2, <2>3
       DEF EmptyStarts, TypeOK, counters, slots, blocks, garbage, given
<1>52. ASSUME NEW t \in Tasks, Recheck(t) PROVE TypeOK'
  <2>1. /\ [NoScan EXCEPT !.todo = scan[t].todo \ {scan[t].obj}] \in Scans
        /\ scan[t].pos < LastSlot => scan[t].pos + 1 \in 1 .. OwnSlots + TaskNum
    BY <1>1, ScanFields, ScanEdit, Names DEF LastSlot
  <2>2. scan' \in [Tasks -> Scans]
    <3>1. CASE /\ scan' = [scan EXCEPT ![t].pos = scan[t].pos + 1]
               /\ scan[t].pos < LastSlot
      <4>1. [scan[t] EXCEPT !.pos = scan[t].pos + 1] \in Scans
        BY <3>1, <1>10, <2>1, ScanEdit
      <4> QED
        BY <1>10, <3>1, <4>1
    <3>2. CASE scan' = [scan EXCEPT
                ![t] = [NoScan EXCEPT !.todo = scan[t].todo \ {scan[t].obj}]]
      <4>1. [NoScan EXCEPT !.todo = scan[t].todo \ {scan[t].obj}] \in Scans
        BY <2>1
      <4> QED
        BY <1>10, <3>2, <4>1
    <3>3. CASE UNCHANGED scan
      BY <1>10, <3>3
    <3> QED
      BY <1>52, <3>1, <3>2, <3>3 DEF Recheck, NextBlock
  <2>3. pc' \in [Tasks -> PC]
    BY <1>7, <1>52 DEF Recheck, NextBlock, Goto, PC, SlowPC, HelpPC
  <2> QED
    BY <1>1, <1>52, <2>2, <2>3
       DEF Recheck, TypeOK, counters, slots, blocks, garbage, given
<1>53. ASSUME NEW t \in Tasks, EmptyDone(t) PROVE TypeOK'
  <2>1. local' \in [Tasks -> [Tasks -> [1 .. PARENT -> Epochs]]]
    BY <1>5, <1>53, Names DEF EmptyDone
  <2>2. scan' \in [Tasks -> Scans]
    BY <1>10, <1>53, Names DEF EmptyDone
  <2>3. pc' \in [Tasks -> PC]
    BY <1>7, <1>53 DEF EmptyDone, Goto, PC, SlowPC, HelpPC
  <2> QED
    BY <1>1, <1>53, <2>1, <2>2, <2>3
       DEF EmptyDone, TypeOK, counters, slots, blocks, garbage, given
<1>54. ASSUME NEW t \in Tasks, Clear(t) PROVE TypeOK'
  <2>1. held' \in [Tasks -> [Idx -> Ptrs]]
    BY <1>6, <1>54, Names DEF Clear
  <2>2. helped' \in [Tasks -> [Idx -> Ptrs]]
    BY <1>6, <1>54, Names DEF Clear
  <2>3. pc' \in [Tasks -> PC]
    BY <1>7, <1>54 DEF Clear, Goto, PC, SlowPC, HelpPC
  <2> QED
    BY <1>1, <1>54, <2>1, <2>2, <2>3
       DEF Clear, TypeOK, counters, slots, blocks, garbage, given
<1>55. ASSUME NEW t \in Tasks, AllocCount(t) PROVE TypeOK'
  <2>1. allocs' \in [Tasks -> 0 .. EpochFreq - 1]
    BY <1>5, <1>55, ParamAssumption DEF AllocCount
  <2>2. pc' \in [Tasks -> PC]
    BY <1>7, <1>55 DEF AllocCount, Goto, PC, SlowPC, HelpPC
  <2> QED
    BY <1>1, <1>55, <2>1, <2>2
       DEF AllocCount, TypeOK, counters, slots, blocks, garbage, given
<1>56. ASSUME NEW t \in Tasks, Add(t) PROVE TypeOK'
  <2> QED
    BY <1>1, <1>56 DEF Add, TypeOK, counters, slots, blocks, garbage, given
<1>57. ASSUME NEW t \in Tasks, Remove(t) PROVE TypeOK'
  <2> QED
    BY <1>1, <1>57 DEF Remove, TypeOK, counters, slots, blocks, garbage, given
<1>58. ASSUME NEW t \in Tasks, Retire(t) PROVE TypeOK'
  <2>1. retireEpoch' \in [Objs -> Epochs]
    BY <1>5, <1>58, <1>2 DEF Retire
  <2>2. retires' \in [Tasks -> 0 .. Freq - 1]
    BY <1>5, <1>58, ParamAssumption DEF Retire
  <2>3. pc' \in [Tasks -> PC]
    BY <1>7, <1>58 DEF Retire, Goto, PC, SlowPC, HelpPC
  <2> QED
    BY <1>1, <1>58, <2>1, <2>2, <2>3
       DEF Retire, TypeOK, counters, slots, blocks, garbage, given
<1>59. CASE UNCHANGED vars
  BY <1>1, <1>59 DEF TypeOK, vars, counters, slots, blocks, garbage, given
<1>60. ASSUME NEW t \in Tasks, NEW c \in Cells, NEW j \in Idx,
              NEW n \in Ptrs, Read(t, c, j, n)
       PROVE TypeOK'
  <2>1. call' \in [Tasks -> Calls]
    BY <1>8, <1>11, <1>60, Names, CallStart DEF Read
  <2>2. pc' \in [Tasks -> PC]
    BY <1>7, <1>60 DEF Read, Goto, PC
  <2>3. /\ held' \in [Tasks -> [Idx -> Ptrs]]
        /\ helped' \in [Tasks -> [Idx -> Ptrs]]
    BY <1>6, <1>60, Names DEF Read
  <2> QED
    BY <1>1, <1>60, <2>1, <2>2, <2>3
       DEF Read, TypeOK, counters, slots, blocks, garbage, given
<1>61. ASSUME NEW t \in Tasks, NEW j \in Idx, NEW n \in Ptrs, Reserve(t, j, n) PROVE TypeOK'
  <2>1. call' \in [Tasks -> Calls]
    BY <1>8, <1>11, <1>61, Names, CallStart DEF Reserve
  <2>2. pc' \in [Tasks -> PC]
    BY <1>7, <1>61 DEF Reserve, Goto, PC
  <2>3. /\ held' \in [Tasks -> [Idx -> Ptrs]]
        /\ helped' \in [Tasks -> [Idx -> Ptrs]]
    BY <1>6, <1>61, Names DEF Reserve
  <2> QED
    BY <1>1, <1>61, <2>1, <2>2, <2>3
       DEF Reserve, TypeOK, counters, slots, blocks, garbage, given
<1> QED
  BY <1>12, <1>13, <1>14, <1>15, <1>16, <1>17, <1>18, <1>19, <1>20, <1>21,
     <1>22, <1>23, <1>24, <1>25, <1>26, <1>27, <1>28, <1>29, <1>30, <1>31,
     <1>32, <1>33, <1>34, <1>35, <1>36, <1>37, <1>38, <1>39, <1>40, <1>41,
     <1>42, <1>43, <1>44, <1>45, <1>46, <1>47, <1>48, <1>49, <1>50, <1>51,
     <1>52, <1>53, <1>54, <1>55, <1>56, <1>57, <1>58, <1>59, <1>60, <1>61
     DEF Next, Step, Call

-----------------------------------------------------------------------------
\* The steps of slow_path and of the store before it; those of help_read; the
\* others, which have to do with no request.
SlowStep(t) ==
    \/ StoreEpoch(t) \/ SlowStart(t) \/ SlowPointer(t) \/ SlowEpoch(t)
    \/ SlowRequest(t) \/ SlowLoad(t) \/ SlowCheck(t) \/ SlowCas(t)
    \/ SlowSlot(t) \/ SlowResult(t) \/ SlowTake(t) \/ SlowTag(t) \/ SlowEnd(t)
HelpStep(t) ==
    \/ HelpEnds(t) \/ HelpStarts(t) \/ HelpLook(t) \/ HelpEpoch(t)
    \/ HelpParent(t) \/ HelpPointer(t) \/ HelpSeqno(t) \/ HelpFirst(t)
    \/ HelpStore(t) \/ HelpLoad(t) \/ HelpCheck(t) \/ HelpAgain(t)
    \/ HelpCas(t) \/ HelpOldTag(t) \/ HelpOldEpoch(t) \/ HelpSlot(t)
    \/ HelpRelease(t) \/ HelpClear(t)
ListStep(t) ==
    \/ AllocCount(t) \/ Add(t) \/ Remove(t) \/ Retire(t)
    \/ EmptyStarts(t) \/ Recheck(t)
PlainStep(t) ==
    \/ AllocAdvance(t) \/ AllocBirth(t) \/ ReadLoad(t) \/ CheckSame(t)
    \/ CheckNew(t) \/ Clear(t) \/ ClearSlot(t) \/ CopySlot(t) \/ EmptyEnds(t)
    \/ EmptyDone(t)
    \/ \E c \in Cells, j \in Idx, n \in Ptrs : Read(t, c, j, n)
    \/ \E j \in Idx, n \in Ptrs : Reserve(t, j, n)

\* Every step is of one of the four kinds.
LEMMA Steps ==
  ASSUME Next
  PROVE  \E t \in Tasks : SlowStep(t) \/ HelpStep(t) \/ ListStep(t) \/ PlainStep(t)
BY DEF Next, Step, Call, SlowStep, HelpStep, ListStep, PlainStep

\* What the other threads keep.
Kept(u) ==
    /\ pc'[u] = pc[u] /\ call'[u] = call[u] /\ help'[u] = help[u]
    /\ asked'[u] = asked[u] /\ mine'[u] = mine[u]

\* What a step of the slow path leaves alone, and where it goes.
LEMMA SlowKeeps ==
  ASSUME TypeOK, NEW t \in Tasks, SlowStep(t)
  PROVE  /\ \A u \in Tasks \ {t} : Kept(u)
         /\ UNCHANGED <<clientVars, retired, epoch, help, asked>>
         /\ pc[t] \in Slow \union {"store", "slow"}
         /\ pc'[t] \in Slow \union {"load", "check", "slow", "idle"}
<1> USE DEF Goto, Slow, SlowPC
<1>1. pc \in [Tasks -> PC] /\ call \in [Tasks -> Calls]
  BY DEF TypeOK
<1>2. CASE StoreEpoch(t) \/ SlowStart(t) \/ SlowPointer(t) \/ SlowEpoch(t)
  BY <1>1, <1>2
     DEF StoreEpoch, SlowStart, SlowPointer, SlowEpoch, Kept, clientVars,
         garbage
<1>3. CASE SlowRequest(t) \/ SlowLoad(t) \/ SlowCheck(t) \/ SlowCas(t)
  BY <1>1, <1>3
     DEF SlowRequest, SlowLoad, SlowCheck, SlowCas, Kept, clientVars, garbage
<1>4. CASE SlowSlot(t) \/ SlowResult(t) \/ SlowTake(t) \/ SlowTag(t) \/ SlowEnd(t)
  BY <1>1, <1>4
     DEF SlowSlot, SlowResult, SlowTake, SlowTag, SlowEnd, Kept, clientVars,
         garbage
<1> QED
  BY <1>2, <1>3, <1>4 DEF SlowStep

\* The same for a step of help_read, ...
LEMMA HelpKeeps ==
  ASSUME TypeOK, NEW t \in Tasks, HelpStep(t)
  PROVE  /\ \A u \in Tasks \ {t} : Kept(u)
         /\ UNCHANGED <<clientVars, retired, epoch, counterStart, counterEnd, call>>
         /\ pc[t] \in HelpPC
         /\ pc'[t] \in (HelpPC \ {"hends"}) \union {"advance"}
<1> USE DEF Goto, HelpPC
<1>1. pc \in [Tasks -> PC] /\ help \in [Tasks -> Helps]
      /\ asked \in [Tasks -> SUBSET (Tasks \X Idx \X Tags)]
  BY DEF TypeOK
<1>2. CASE HelpEnds(t) \/ HelpStarts(t) \/ HelpEpoch(t) \/ HelpParent(t)
  BY <1>1, <1>2
     DEF HelpEnds, HelpStarts, HelpEpoch, HelpParent, Kept, clientVars, garbage,
         counters
<1>3. CASE HelpPointer(t) \/ HelpSeqno(t) \/ HelpFirst(t) \/ HelpStore(t)
           \/ HelpLoad(t)
  BY <1>1, <1>3
     DEF HelpPointer, HelpSeqno, HelpFirst, HelpStore, HelpLoad, Kept,
         clientVars, garbage, counters
<1>4. CASE HelpCheck(t) \/ HelpAgain(t) \/ HelpCas(t) \/ HelpOldTag(t)
           \/ HelpOldEpoch(t)
  BY <1>1, <1>4
     DEF HelpCheck, HelpAgain, HelpCas, HelpOldTag, HelpOldEpoch, Kept,
         clientVars, garbage, counters
<1>5. CASE HelpSlot(t) \/ HelpRelease(t)
  BY <1>1, <1>5 DEF HelpSlot, HelpRelease, Kept, clientVars, garbage, counters
<1>6. CASE HelpLook(t) \/ HelpClear(t)
  BY <1>1, <1>6
     DEF HelpLook, HelpClear, NextSlot, Kept, clientVars, garbage, counters
<1> QED
  BY <1>2, <1>3, <1>4, <1>5, <1>6 DEF HelpStep

\* ... for the steps that touch the structure or the lists, ...
LEMMA ListKeeps ==
  ASSUME TypeOK, NEW t \in Tasks, ListStep(t)
  PROVE  /\ \A u \in Tasks \ {t} : Kept(u)
         /\ UNCHANGED <<epoch, counterStart, counterEnd, tag, states, help,
                        asked, call>>
         /\ pc[t] \in {"idle", "starts", "recheck"}
         /\ pc'[t] \in {"idle", "hends", "birth", "copy", "ends", "recheck"}
         /\ pc'[t] \in {"hends", "birth"} => mine'[t] # NULL
         /\ pc'[t] = "hends" => epoch + Cardinality(Advancing) < MaxEpoch
<1> USE DEF Goto
<1>1. pc \in [Tasks -> PC] /\ mine \in [Tasks -> Ptrs]
  BY DEF TypeOK, ListTypeOK, ClientTypeOK
<1>2. CASE AllocCount(t)
  <2>1. PICK o \in Objs : Malloc(t, o)
    BY <1>2 DEF AllocCount
  <2>2. o # NULL /\ mine' = [mine EXCEPT ![t] = o]
    BY <2>1, ClientAssumption DEF Malloc
  <2>3. pc'[t] = "hends" => epoch + Cardinality(Advancing) < MaxEpoch
    BY <1>1, <1>2 DEF AllocCount
  <2> QED
    BY <1>1, <1>2, <2>2, <2>3 DEF AllocCount, Kept, counters, slots
<1>3. CASE Add(t) \/ Remove(t)
  BY <1>1, <1>3 DEF Add, Remove, Discard, Link, Unlink, Kept, counters, slots
<1>4. CASE Retire(t)
  BY <1>1, <1>4 DEF Retire, Push, HandOver, Kept, counters, slots
<1>5. CASE EmptyStarts(t)
  BY <1>1, <1>5
     DEF EmptyStarts, Reclaim, Free, NextBlock, clientVars, Kept, counters,
         slots
<1>6. CASE Recheck(t)
  BY <1>1, <1>6
     DEF Recheck, Reclaim, Free, NextBlock, clientVars, Kept, counters, slots
<1> QED
  BY <1>2, <1>3, <1>4, <1>5, <1>6 DEF ListStep

\* ... and for the others.
LEMMA PlainKeeps ==
  ASSUME TypeOK, NEW t \in Tasks, PlainStep(t)
  PROVE  /\ \A u \in Tasks \ {t} : Kept(u)
         /\ UNCHANGED <<clientVars, retired, counterStart, counterEnd, tag,
                        states, help>>
         /\ pc[t] \in {"idle", "load", "check", "clear", "advance", "birth",
                       "copy", "ends"}
         /\ pc'[t] \in {"idle", "load", "check", "store", "clear", "birth", "copy",
                        "ends", "starts"}
         /\ asked'[t] \subseteq asked[t]
         /\ pc'[t] = "birth" <=> pc[t] = "advance"
         /\ epoch' = IF pc[t] = "advance" THEN epoch + 1 ELSE epoch
<1> USE DEF Goto
<1>1. pc \in [Tasks -> PC] /\ call \in [Tasks -> Calls]
      /\ asked \in [Tasks -> SUBSET (Tasks \X Idx \X Tags)]
  BY DEF TypeOK
<1>2. CASE AllocAdvance(t) \/ AllocBirth(t) \/ ReadLoad(t) \/ CheckSame(t)
           \/ CheckNew(t)
  BY <1>1, <1>2
     DEF AllocAdvance, AllocBirth, ReadLoad, CheckSame, CheckNew, Kept,
         clientVars, counters, slots, garbage
<1>3. CASE Clear(t) \/ ClearSlot(t) \/ CopySlot(t)
  BY <1>1, <1>3
     DEF Clear, ClearSlot, CopySlot, Kept, clientVars, counters, slots, garbage
<1>4. CASE EmptyEnds(t) \/ EmptyDone(t)
  BY <1>1, <1>4
     DEF EmptyEnds, EmptyDone, Kept, clientVars, counters, slots, garbage
<1>5. ASSUME NEW c \in Cells, NEW j \in Idx, NEW n \in Ptrs, Read(t, c, j, n)
      PROVE  /\ \A u \in Tasks \ {t} : Kept(u)
             /\ UNCHANGED <<clientVars, retired, epoch, counterStart,
                            counterEnd, tag, states, help, asked>>
             /\ pc[t] = "idle" /\ pc'[t] = "check"
  BY <1>1, <1>5 DEF Read, Kept, clientVars, counters, slots, garbage
<1>6. ASSUME NEW j \in Idx, NEW n \in Ptrs, Reserve(t, j, n)
      PROVE  /\ \A u \in Tasks \ {t} : Kept(u)
             /\ UNCHANGED <<clientVars, retired, epoch, counterStart,
                            counterEnd, tag, states, help, asked>>
             /\ pc[t] = "idle" /\ pc'[t] = "check"
  BY <1>1, <1>6 DEF Reserve, Kept, clientVars, counters, slots, garbage
<1> QED
  BY <1>2, <1>3, <1>4, <1>5, <1>6 DEF PlainStep

\* The client's variables and the lists.
LEMMA ListNext ==
  ASSUME TypeOK, [Next]_vars
  PROVE  ListTypeOK'
<1>1. /\ status \in [Objs -> Status] /\ cell \in [Cells -> Ptrs]
      /\ mine \in [Tasks -> Ptrs] /\ victim \in [Tasks -> Ptrs]
      /\ retired \in [Tasks -> SUBSET Objs] /\ NULL \in Ptrs /\ Objs \subseteq Ptrs
  BY DEF TypeOK, ListTypeOK, ClientTypeOK, Ptrs
<1>2. CASE UNCHANGED <<clientVars, retired>>
  BY <1>1, <1>2 DEF ListTypeOK, ClientTypeOK, clientVars
<1>3. ASSUME NEW t \in Tasks, AllocCount(t) PROVE ListTypeOK'
  <2>1. PICK o \in Objs : Malloc(t, o)
    BY <1>3 DEF AllocCount
  <2> QED
    BY <1>1, <1>3, <2>1
       DEF AllocCount, Malloc, ListTypeOK, ClientTypeOK, Status, garbage
<1>4. ASSUME NEW t \in Tasks, Add(t) PROVE ListTypeOK'
  <2>1. CASE Discard(t)
    BY <1>1, <1>4, <2>1
       DEF Add, Discard, ListTypeOK, ClientTypeOK, Status, garbage
  <2>2. ASSUME NEW c \in Cells, Link(t, c) PROVE ListTypeOK'
    BY <1>1, <1>4, <2>2 DEF Add, Link, ListTypeOK, ClientTypeOK, Status, garbage
  <2> QED
    BY <1>4, <2>1, <2>2 DEF Add
<1>5. ASSUME NEW t \in Tasks, Remove(t) PROVE ListTypeOK'
  <2>1. PICK c \in Cells : Unlink(t, c)
    BY <1>5 DEF Remove
  <2> QED
    BY <1>1, <1>5, <2>1
       DEF Remove, Unlink, ListTypeOK, ClientTypeOK, Status, garbage
<1>6. ASSUME NEW t \in Tasks, Push(t) PROVE ListTypeOK'
  <2>1. victim[t] \in Objs
    BY <1>1, <1>6 DEF Push, HandOver, Ptrs
  <2> QED
    BY <1>1, <1>6, <2>1 DEF Push, HandOver, ListTypeOK, ClientTypeOK, Status
<1>7. ASSUME NEW t \in Tasks, NEW dead, Reclaim(t, dead) PROVE ListTypeOK'
  BY <1>1, <1>7 DEF Reclaim, Free, ListTypeOK, ClientTypeOK, Status
<1>8. ASSUME NEW t \in Tasks, Retire(t) \/ EmptyStarts(t) \/ Recheck(t)
      PROVE  ListTypeOK'
  BY <1>2, <1>6, <1>7, <1>8 DEF Retire, EmptyStarts, Recheck
<1>9. CASE UNCHANGED vars
  BY <1>2, <1>9 DEF vars, garbage
<1>10. ASSUME NEW t \in Tasks, SlowStep(t) \/ HelpStep(t) \/ PlainStep(t)
       PROVE  ListTypeOK'
  BY <1>2, <1>10, SlowKeeps, HelpKeeps, PlainKeeps
<1> QED
  BY <1>3, <1>4, <1>5, <1>8, <1>9, <1>10, Steps DEF ListStep

-----------------------------------------------------------------------------
\* A tag changes by the next tag of the slow path, or by a helper that found
\* the owner asking with that tag.
LEMMA TagStep ==
  ASSUME Inv, NEW t \in Tasks,
         SlowStep(t) \/ HelpStep(t) \/ ListStep(t) \/ PlainStep(t)
  PROVE  \/ UNCHANGED tag
         \/ /\ SlowTag(t)
            /\ tag' = [tag EXCEPT ![t][call[t].idx] = call[t].seqno + 1]
            /\ tag[t][call[t].idx] \in {call[t].seqno, call[t].seqno + 1}
         \/ \E u \in Tasks, j \in Idx :
              /\ HelpSlot(t) /\ u = Who(t)[1] /\ j = Who(t)[2]
              /\ pc[u] \in Asking /\ call[u].idx = j
              /\ call[u].seqno = tag[u][j]
              /\ help[t].last = tag[u][j]
              /\ ~Pending(u, j, tag[u][j])
              /\ tag' = [tag EXCEPT ![u][j] = tag[u][j] + 1]
<1>1. TypeOK /\ Tagged /\ Served
  BY DEF Inv, TypeInv
<1>2. CASE SlowTag(t)
  BY <1>1, <1>2 DEF SlowTag, Tagged, SlowPC
<1>3. CASE HelpSlot(t)
  <2>1. CASE UNCHANGED tag
    BY <2>1
  <2>2. CASE ~UNCHANGED tag
    <3> DEFINE u == Who(t)[1]
               j == Who(t)[2]
    <3>1. u \in Tasks /\ j \in Idx
      BY <1>1, HelpFields
    <3>2. /\ help[t].last = tag[u][j]
          /\ tag' = [tag EXCEPT ![u][j] = help[t].last + 1]
      BY <1>3, <2>2 DEF HelpSlot, SlotAsLoaded, SlotIs, slots
    <3>3. Issued(u, j, help[t].last) /\ ~Pending(u, j, help[t].last)
      BY <1>1, <1>3 DEF HelpSlot, Served, Helping, Through, Looping, HelpPC
    <3>4. tag[u][j] \in Nat
      BY <1>1, <3>1 DEF TypeOK, Tags
    <3>5. pc[u] \in Asking /\ call[u].idx = j /\ call[u].seqno = tag[u][j]
      BY <3>2, <3>3, <3>4 DEF Issued
    <3>6. tag' = [tag EXCEPT ![u][j] = tag[u][j] + 1] /\ ~Pending(u, j, tag[u][j])
      BY <3>2, <3>3
    <3> QED
      BY <1>3, <3>1, <3>2, <3>5, <3>6
  <2> QED
    BY <2>1, <2>2
<1>4. CASE SlowStep(t) /\ ~SlowTag(t)
  <2>1. CASE StoreEpoch(t) \/ SlowStart(t) \/ SlowPointer(t) \/ SlowEpoch(t)
    BY <2>1 DEF StoreEpoch, SlowStart, SlowPointer, SlowEpoch, slots
  <2>2. CASE SlowRequest(t) \/ SlowLoad(t) \/ SlowCheck(t) \/ SlowCas(t)
    BY <2>2 DEF SlowRequest, SlowLoad, SlowCheck, SlowCas, slots
  <2>3. CASE SlowSlot(t) \/ SlowResult(t) \/ SlowTake(t) \/ SlowEnd(t)
    BY <2>3 DEF SlowSlot, SlowResult, SlowTake, SlowEnd, slots
  <2> QED
    BY <1>4, <2>1, <2>2, <2>3 DEF SlowStep
<1>5. CASE HelpStep(t) /\ ~HelpSlot(t)
  <2>1. CASE HelpEnds(t) \/ HelpStarts(t) \/ HelpEpoch(t) \/ HelpParent(t)
    BY <2>1 DEF HelpEnds, HelpStarts, HelpEpoch, HelpParent, slots
  <2>2. CASE HelpPointer(t) \/ HelpSeqno(t) \/ HelpFirst(t) \/ HelpStore(t)
    BY <2>2 DEF HelpPointer, HelpSeqno, HelpFirst, HelpStore, slots
  <2>3. CASE HelpLoad(t) \/ HelpCheck(t) \/ HelpAgain(t) \/ HelpCas(t)
    BY <2>3 DEF HelpLoad, HelpCheck, HelpAgain, HelpCas, slots
  <2>4. CASE HelpOldTag(t) \/ HelpOldEpoch(t) \/ HelpRelease(t)
    BY <2>4 DEF HelpOldTag, HelpOldEpoch, HelpRelease, slots
  <2>5. CASE HelpLook(t) \/ HelpClear(t)
    BY <2>5 DEF HelpLook, HelpClear, slots
  <2> QED
    BY <1>5, <2>1, <2>2, <2>3, <2>4, <2>5 DEF HelpStep
<1> QED
  BY <1>1, <1>2, <1>3, <1>4, <1>5, ListKeeps, PlainKeeps

\* A request is made by its owner, and taken back or answered once.
LEMMA RequestStep ==
  ASSUME Inv, NEW t \in Tasks,
         SlowStep(t) \/ HelpStep(t) \/ ListStep(t) \/ PlainStep(t),
         NEW u \in Tasks, NEW j \in Idx
  PROVE  \/ /\ states'[u][j].ptr = states[u][j].ptr
            /\ states'[u][j].stamp = states[u][j].stamp
         \/ /\ SlowRequest(t) /\ u = t /\ j = call[t].idx
            /\ states'[u][j].ptr = INVPTR
            /\ states'[u][j].stamp = call[t].seqno
         \/ /\ SlowCas(t) \/ HelpCas(t)
            /\ states'[u][j].ptr # INVPTR
            /\ states'[u][j].stamp \in Epochs
<1>1. TypeOK /\ states \in [Tasks -> [Idx -> Requests]]
  BY DEF Inv, TypeInv, TypeOK
<1>2. \A v \in Tasks, k \in Idx : states[v][k] \in Requests
  BY <1>1
<1>3. call[t].idx \in Idx
  BY <1>1, CallFields
<1>4. CASE SlowPointer(t) \/ SlowEpoch(t)
  <2>1. CASE SlowPointer(t)
    <3>1. states' = [states EXCEPT ![t][call[t].idx].cell = call[t].cell,
                                   ![t][call[t].idx].node = call[t].node]
      BY <2>1 DEF SlowPointer
    <3>2. /\ states'[u][j].ptr = states[u][j].ptr
          /\ states'[u][j].stamp = states[u][j].stamp
      BY <1>1, <1>2, <1>3, <3>1 DEF Requests
    <3> QED
      BY <3>2
  <2>2. CASE SlowEpoch(t)
    <3>1. PICK e : states' = [states EXCEPT ![t][call[t].idx].epoch = e]
      BY <2>2 DEF SlowEpoch
    <3>2. /\ states'[u][j].ptr = states[u][j].ptr
          /\ states'[u][j].stamp = states[u][j].stamp
      BY <1>1, <1>2, <1>3, <3>1 DEF Requests
    <3> QED
      BY <3>2
  <2> QED
    BY <1>4, <2>1, <2>2
<1>5. CASE SlowRequest(t)
  <2>1. states' = [states EXCEPT ![t][call[t].idx].ptr = INVPTR,
                                 ![t][call[t].idx].stamp = call[t].seqno]
    BY <1>5 DEF SlowRequest
  <2>2. CASE u = t /\ j = call[t].idx
    <3>1. states'[u][j].ptr = INVPTR /\ states'[u][j].stamp = call[t].seqno
      BY <1>1, <1>2, <1>3, <2>1, <2>2 DEF Requests
    <3> QED
      BY <1>5, <2>2, <3>1
  <2>3. CASE ~(u = t /\ j = call[t].idx)
    BY <1>1, <1>3, <2>1, <2>3
  <2> QED
    BY <2>2, <2>3
<1>6. CASE SlowCas(t)
  <2>1. CASE states' = [states EXCEPT ![t][call[t].idx].ptr = NULL,
                                      ![t][call[t].idx].stamp = 0]
    <3>1. CASE u = t /\ j = call[t].idx
      <4>1. states'[u][j].ptr = NULL /\ states'[u][j].stamp = 0
        BY <1>1, <1>2, <1>3, <2>1, <3>1 DEF Requests
      <4> QED
        BY <1>6, <4>1, Names
    <3>2. CASE ~(u = t /\ j = call[t].idx)
      BY <1>1, <1>3, <2>1, <3>2
    <3> QED
      BY <3>1, <3>2
  <2>2. CASE UNCHANGED states
    BY <2>2
  <2> QED
    BY <1>6, <2>1, <2>2 DEF SlowCas
<1>7. CASE HelpCas(t)
  <2> DEFINE v == Who(t)[1]
             k == Who(t)[2]
  <2>1. CASE states' = [states EXCEPT ![v][k].ptr = help[t].ptr,
                                      ![v][k].stamp = help[t].prev]
    <3>1. /\ v \in Tasks /\ k \in Idx
          /\ help[t].ptr # INVPTR /\ help[t].prev \in Epochs
      BY <1>1, HelpFields, Names
    <3>2. CASE u = v /\ j = k
      <4>1. states'[u][j].ptr = help[t].ptr /\ states'[u][j].stamp = help[t].prev
        BY <1>1, <1>2, <2>1, <3>1, <3>2 DEF Requests
      <4> QED
        BY <1>7, <3>1, <4>1
    <3>3. CASE ~(u = v /\ j = k)
      BY <1>1, <2>1, <3>1, <3>3
    <3> QED
      BY <3>2, <3>3
  <2>2. CASE UNCHANGED states
    BY <2>2
  <2> QED
    BY <1>7, <2>1, <2>2 DEF HelpCas
<1>8. CASE SlowStep(t) /\ ~(SlowPointer(t) \/ SlowEpoch(t) \/ SlowRequest(t)
                            \/ SlowCas(t))
  <2>1. CASE StoreEpoch(t) \/ SlowStart(t) \/ SlowLoad(t) \/ SlowCheck(t)
    BY <2>1 DEF StoreEpoch, SlowStart, SlowLoad, SlowCheck
  <2>2. CASE SlowSlot(t) \/ SlowResult(t) \/ SlowTake(t) \/ SlowTag(t) \/ SlowEnd(t)
    BY <2>2 DEF SlowSlot, SlowResult, SlowTake, SlowTag, SlowEnd
  <2> QED
    BY <1>8, <2>1, <2>2 DEF SlowStep
<1>9. CASE HelpStep(t) /\ ~HelpCas(t)
  <2>1. CASE HelpEnds(t) \/ HelpStarts(t) \/ HelpEpoch(t) \/ HelpParent(t)
    BY <2>1 DEF HelpEnds, HelpStarts, HelpEpoch, HelpParent
  <2>2. CASE HelpPointer(t) \/ HelpSeqno(t) \/ HelpFirst(t) \/ HelpStore(t)
    BY <2>2 DEF HelpPointer, HelpSeqno, HelpFirst, HelpStore
  <2>3. CASE HelpLoad(t) \/ HelpCheck(t) \/ HelpAgain(t) \/ HelpSlot(t)
    BY <2>3 DEF HelpLoad, HelpCheck, HelpAgain, HelpSlot
  <2>4. CASE HelpOldTag(t) \/ HelpOldEpoch(t) \/ HelpRelease(t)
    BY <2>4 DEF HelpOldTag, HelpOldEpoch, HelpRelease
  <2>5. CASE HelpLook(t) \/ HelpClear(t)
    BY <2>5 DEF HelpLook, HelpClear
  <2> QED
    BY <1>9, <2>1, <2>2, <2>3, <2>4, <2>5 DEF HelpStep
<1> QED
  BY <1>1, <1>4, <1>5, <1>6, <1>7, <1>8, <1>9, ListKeeps, PlainKeeps

\* How a thread goes through the slow path: the slot and the tag of its
\* request stay the same until it is over.
LEMMA SlowMoves ==
  ASSUME Inv, NEW t \in Tasks, SlowStep(t)
  PROVE  /\ pc'[t] \in SlowPC /\ pc[t] # "slow" =>
              /\ pc[t] \in SlowPC
              /\ call'[t].idx = call[t].idx /\ call'[t].seqno = call[t].seqno
         /\ pc'[t] \in Asking => pc[t] \in Asking \/ SlowRequest(t)
         /\ pc[t] \in Asking => pc'[t] \in Asking \/ SlowTag(t)
         /\ pc'[t] \in Waiting => pc[t] \in Waiting \/ SlowRequest(t)
         /\ pc[t] \in Waiting =>
              \/ pc'[t] \in Waiting
              \/ states'[t][call[t].idx].ptr # INVPTR
         /\ pc[t] = "slow" =>
              /\ SlowStart(t) /\ pc'[t] \in SlowPC \ Asking
              /\ call'[t].idx = call[t].idx
              /\ call'[t].seqno = tag[t][call[t].idx]
         /\ pc'[t] = "slow" =>
              /\ call'[t].idx = call[t].idx
              /\ tag[t][call[t].idx] # MaxTag /\ tag' = tag
<1> USE DEF Asking, Waiting, SlowPC, Goto
<1>1. /\ pc \in [Tasks -> PC] /\ call \in [Tasks -> Calls] /\ call[t] \in Calls
      /\ states \in [Tasks -> [Idx -> Requests]] /\ call[t].idx \in Idx
      /\ states[t][call[t].idx] \in Requests
  <2>1. TypeOK
    BY DEF Inv, TypeInv
  <2> QED
    BY <2>1, CallFields DEF TypeOK
<1>2. CASE StoreEpoch(t)
  BY <1>1, <1>2 DEF StoreEpoch, Calls
<1>3. CASE SlowStart(t)
  BY <1>1, <1>3 DEF SlowStart, Calls
<1>4. CASE SlowPointer(t) \/ SlowEpoch(t)
  BY <1>1, <1>4 DEF SlowPointer, SlowEpoch
<1>5. CASE SlowRequest(t)
  BY <1>1, <1>5 DEF SlowRequest
<1>6. CASE SlowLoad(t) \/ SlowCheck(t)
  BY <1>1, <1>6 DEF SlowLoad, SlowCheck, Calls
<1>7. CASE SlowCas(t)
  <2>1. CASE pc'[t] = "stag"
    <3>1. states' = [states EXCEPT ![t][call[t].idx].ptr = NULL,
                                   ![t][call[t].idx].stamp = 0]
      BY <1>1, <1>7, <2>1 DEF SlowCas
    <3>2. states'[t][call[t].idx].ptr = NULL
      BY <1>1, <3>1 DEF Requests
    <3>3. NULL # INVPTR
      BY Names
    <3> QED
      BY <1>1, <1>7, <2>1, <3>2, <3>3 DEF SlowCas
  <2>2. CASE pc'[t] = "sslot"
    BY <1>1, <1>7, <2>2 DEF SlowCas
  <2> QED
    BY <1>1, <1>7, <2>1, <2>2 DEF SlowCas
<1>8. CASE SlowSlot(t)
  BY <1>1, <1>8 DEF SlowSlot, Calls
<1>9. CASE SlowResult(t)
  BY <1>1, <1>9 DEF SlowResult, Calls
<1>10. CASE SlowTake(t) \/ SlowTag(t) \/ SlowEnd(t)
  BY <1>1, <1>10 DEF SlowTake, SlowTag, SlowEnd
<1> QED
  BY <1>2, <1>3, <1>4, <1>5, <1>6, <1>7, <1>8, <1>9, <1>10 DEF SlowStep

-----------------------------------------------------------------------------
\* Steps of the other kinds are not in the slow path.
LEMMA OtherMoves ==
  ASSUME TypeOK, NEW t \in Tasks, HelpStep(t) \/ ListStep(t) \/ PlainStep(t)
  PROVE  /\ pc[t] \notin Slow \union {"slow"} /\ pc'[t] \notin Slow \union {"slow"}
         /\ UNCHANGED <<counterStart, counterEnd>>
BY HelpKeeps, ListKeeps, PlainKeeps DEF Slow, SlowPC, HelpPC

\* No step moves another thread.
LEMMA StepKeeps ==
  ASSUME TypeOK, NEW t \in Tasks,
         SlowStep(t) \/ HelpStep(t) \/ ListStep(t) \/ PlainStep(t)
  PROVE  \A u \in Tasks \ {t} : Kept(u)
BY SlowKeeps, HelpKeeps, ListKeeps, PlainKeeps

\* The same for one tag.
LEMMA TagAt ==
  ASSUME Inv, NEW t \in Tasks,
         SlowStep(t) \/ HelpStep(t) \/ ListStep(t) \/ PlainStep(t),
         NEW u \in Tasks, NEW j \in Idx
  PROVE  \/ tag'[u][j] = tag[u][j]
         \/ /\ SlowTag(t) /\ u = t /\ j = call[t].idx
            /\ tag'[u][j] = call[t].seqno + 1
            /\ tag[u][j] \in {call[t].seqno, call[t].seqno + 1}
         \/ /\ HelpSlot(t)
            /\ pc[u] \in Asking /\ call[u].idx = j /\ call[u].seqno = tag[u][j]
            /\ ~Pending(u, j, tag[u][j])
            /\ tag'[u][j] = tag[u][j] + 1
<1>1. TypeOK /\ tag \in [Tasks -> [Idx -> Tags]]
  BY DEF Inv, TypeInv, TypeOK
<1>2. call[t].idx \in Idx
  BY <1>1, CallFields
<1>3. CASE UNCHANGED tag
  BY <1>3
<1>4. CASE /\ SlowTag(t)
           /\ tag' = [tag EXCEPT ![t][call[t].idx] = call[t].seqno + 1]
           /\ tag[t][call[t].idx] \in {call[t].seqno, call[t].seqno + 1}
  BY <1>1, <1>2, <1>4
<1>5. ASSUME NEW v \in Tasks, NEW k \in Idx, HelpSlot(t),
             pc[v] \in Asking, call[v].idx = k, call[v].seqno = tag[v][k],
             ~Pending(v, k, tag[v][k]),
             tag' = [tag EXCEPT ![v][k] = tag[v][k] + 1]
      PROVE  \/ tag'[u][j] = tag[u][j]
             \/ /\ HelpSlot(t)
                /\ pc[u] \in Asking /\ call[u].idx = j /\ call[u].seqno = tag[u][j]
                /\ ~Pending(u, j, tag[u][j])
                /\ tag'[u][j] = tag[u][j] + 1
  <2>1. CASE v = u /\ k = j
    BY <1>1, <1>5, <2>1
  <2>2. CASE ~(v = u /\ k = j)
    BY <1>1, <1>5, <2>2
  <2> QED
    BY <2>1, <2>2
<1> QED
  BY <1>3, <1>4, <1>5, TagStep

\* A tag goes from one request to the next with its owner.
LEMMA TaggedNext ==
  ASSUME Inv, NEW t \in Tasks,
         SlowStep(t) \/ HelpStep(t) \/ ListStep(t) \/ PlainStep(t)
  PROVE  Tagged'
<1>1. TypeOK /\ Tagged
  BY DEF Inv, TypeInv
<1>2. SUFFICES ASSUME NEW u \in Tasks
      PROVE  /\ pc'[u] = "slow" => tag'[u][call'[u].idx] < MaxTag
             /\ pc'[u] \in SlowPC =>
                  /\ call'[u].seqno < MaxTag
                  /\ \/ tag'[u][call'[u].idx] = call'[u].seqno
                     \/ /\ pc'[u] \in Asking
                        /\ tag'[u][call'[u].idx] = call'[u].seqno + 1
  BY DEF Tagged
<1>3. /\ pc \in [Tasks -> PC] /\ call[u].idx \in Idx
      /\ call[u].seqno \in Nat /\ MaxTag \in Nat
      /\ tag[u][call[u].idx] \in Nat /\ tag[u][call[u].idx] <= MaxTag
  <2>1. pc \in [Tasks -> PC] /\ tag \in [Tasks -> [Idx -> Tags]]
    BY <1>1 DEF TypeOK
  <2>2. call[u].idx \in Idx /\ call[u].seqno \in Tags /\ MaxTag \in Nat
    BY <1>1, CallFields, ParamAssumption
  <2> QED
    BY <2>1, <2>2 DEF Tags
\* The tag of the slot that u works on.
<1>4. \/ tag'[u][call[u].idx] = tag[u][call[u].idx]
      \/ SlowTag(t) /\ u = t
      \/ /\ ~SlowStep(t)
         /\ pc[u] \in Asking /\ call[u].seqno = tag[u][call[u].idx]
         /\ tag'[u][call[u].idx] = tag[u][call[u].idx] + 1
  <2>1. HelpSlot(t) => ~SlowStep(t)
    BY <1>1, SlowKeeps DEF HelpSlot, Slow, SlowPC
  <2> QED
    BY <1>3, <2>1, TagAt
<1>5. CASE u # t
  <2>1. pc'[u] = pc[u] /\ call'[u] = call[u]
    BY <1>1, <1>5, StepKeeps DEF Kept
  <2>2. pc[u] \in Asking => pc[u] # "slow"
    BY DEF Asking
  <2> QED
    BY <1>1, <1>4, <1>5, <2>1, <2>2 DEF Tagged
<1>6. CASE u = t /\ ~SlowStep(t)
  BY <1>1, <1>6, OtherMoves DEF Slow
<1>7. CASE u = t /\ SlowStep(t)
  <2>1. CASE SlowTag(t)
    BY <1>3, <1>7, <2>1 DEF SlowTag, Goto, SlowPC
  <2>2. CASE ~SlowTag(t)
    <3>1. tag'[u][call[u].idx] = tag[u][call[u].idx]
      BY <1>4, <1>7, <2>2
    <3>2. CASE pc'[u] = "slow"
      BY <1>3, <1>7, <3>2, SlowMoves DEF SlowPC
    <3>3. CASE pc[u] = "slow"
      BY <1>1, <1>7, <3>1, <3>3, SlowMoves DEF Tagged, SlowPC
    <3>4. CASE pc'[u] \in SlowPC /\ pc[u] # "slow"
      <4>1. /\ pc[u] \in SlowPC
            /\ call'[u].idx = call[u].idx /\ call'[u].seqno = call[u].seqno
            /\ pc[u] \in Asking => pc'[u] \in Asking
        BY <1>7, <2>2, <3>4, SlowMoves
      <4> QED
        BY <1>1, <3>1, <3>4, <4>1 DEF Tagged, SlowPC
    <3> QED
      BY <3>2, <3>3, <3>4
  <2> QED
    BY <2>1, <2>2
<1> QED
  BY <1>5, <1>6, <1>7

\* A request is made with the tag of the slot, and taken back, or
\* answered with an epoch, while its owner waits.
LEMMA RequestedNext ==
  ASSUME Inv, NEW t \in Tasks,
         SlowStep(t) \/ HelpStep(t) \/ ListStep(t) \/ PlainStep(t)
  PROVE  Requested'
<1>1. TypeOK /\ Tagged /\ Requested
  BY DEF Inv, TypeInv
<1>2. SUFFICES ASSUME NEW u \in Tasks, NEW j \in Idx
      PROVE  IF states'[u][j].ptr = INVPTR
             THEN /\ pc'[u] \in Waiting /\ call'[u].idx = j
                  /\ call'[u].seqno = states'[u][j].stamp
                  /\ tag'[u][j] = states'[u][j].stamp
             ELSE states'[u][j].stamp \in Epochs
  BY DEF Requested
<1>3. /\ pc \in [Tasks -> PC] /\ tag \in [Tasks -> [Idx -> Tags]]
      /\ call \in [Tasks -> Calls]
  BY <1>1 DEF TypeOK
<1>4. CASE states'[u][j].ptr # INVPTR
  <2>1. \/ states[u][j].ptr # INVPTR /\ states'[u][j].stamp = states[u][j].stamp
        \/ states'[u][j].stamp \in Epochs
    BY <1>4, RequestStep
  <2> QED
    BY <1>1, <1>4, <2>1 DEF Requested
<1>5. CASE SlowRequest(t) /\ u = t /\ j = call[t].idx
           /\ states'[u][j].ptr = INVPTR /\ states'[u][j].stamp = call[t].seqno
  <2>1. /\ pc'[t] = "sload" /\ call' = call /\ tag' = tag /\ pc[t] = "request"
    BY <1>3, <1>5 DEF SlowRequest, Goto, slots
  <2>2. tag[t][j] = call[t].seqno
    BY <1>1, <1>5, <2>1 DEF Tagged, SlowPC, Asking
  <2> QED
    BY <1>5, <2>1, <2>2 DEF Waiting, Asking
<1>6. CASE /\ states[u][j].ptr = INVPTR /\ states'[u][j].ptr = INVPTR
           /\ states'[u][j].stamp = states[u][j].stamp
  <2>1. /\ pc[u] \in Waiting /\ call[u].idx = j
        /\ call[u].seqno = states[u][j].stamp
        /\ tag[u][j] = states[u][j].stamp
    BY <1>1, <1>6 DEF Requested
  <2>2. tag'[u][j] = tag[u][j]
    <3>1. ~(SlowTag(t) /\ u = t)
      BY <2>1 DEF SlowTag, Waiting, Asking
    <3>2. Pending(u, j, tag[u][j])
      BY <1>6, <2>1 DEF Pending
    <3> QED
      BY <3>1, <3>2, TagAt
  <2>3. CASE u # t
    BY <1>1, <1>6, <2>1, <2>2, <2>3, StepKeeps DEF Kept
  <2>4. CASE u = t
    <3>1. SlowStep(t)
      BY <1>1, <2>1, <2>4, OtherMoves DEF Waiting, Asking, Slow, SlowPC
    <3>2. pc'[u] \in Waiting
      BY <1>6, <2>1, <2>4, <3>1, SlowMoves
    <3>3. call'[u].idx = call[u].idx /\ call'[u].seqno = call[u].seqno
      BY <2>1, <2>4, <3>1, <3>2, SlowMoves DEF Waiting, Asking, SlowPC
    <3> QED
      BY <1>6, <2>1, <2>2, <3>2, <3>3
  <2> QED
    BY <2>3, <2>4
<1> QED
  BY <1>4, <1>5, <1>6, RequestStep

\* Once issued, a request stays so ...
LEMMA IssuedKept ==
  ASSUME Inv, NEW t \in Tasks,
         SlowStep(t) \/ HelpStep(t) \/ ListStep(t) \/ PlainStep(t),
         NEW u \in Tasks, NEW j \in Idx, NEW s \in Tags, Issued(u, j, s)
  PROVE  Issued(u, j, s)'
<1>1. TypeOK /\ tag \in [Tasks -> [Idx -> Tags]]
  BY DEF Inv, TypeInv, TypeOK
<1>2. /\ s \in Nat /\ tag[u][j] \in Nat /\ call[u].idx \in Idx
      /\ call[u].seqno \in Nat
  BY <1>1, CallFields, ParamAssumption DEF Tags
<1>3. \/ tag'[u][j] = tag[u][j] \/ tag'[u][j] = tag[u][j] + 1
      \/ SlowTag(t) /\ u = t /\ j = call[t].idx /\ tag'[u][j] = call[t].seqno + 1
         /\ tag[u][j] \in {call[t].seqno, call[t].seqno + 1}
  BY TagAt
<1>4. CASE s < tag[u][j]
  BY <1>2, <1>3, <1>4 DEF Issued
<1>5. CASE pc[u] \in Asking /\ call[u].idx = j /\ call[u].seqno = s
  <2>1. CASE u # t
    BY <1>1, <1>5, <2>1, StepKeeps DEF Kept, Issued
  <2>2. CASE u = t /\ SlowTag(t)
    <3>1. tag'[u][j] = s + 1
      BY <1>1, <1>2, <1>5, <2>2 DEF SlowTag
    <3> QED
      BY <1>2, <3>1 DEF Issued
  <2>3. CASE u = t /\ ~SlowTag(t)
    <3>1. SlowStep(t)
      BY <1>1, <1>5, <2>3, OtherMoves DEF Asking, Slow, SlowPC
    <3>2. pc'[u] \in Asking
      BY <1>5, <2>3, <3>1, SlowMoves
    <3>3. call'[u].idx = call[u].idx /\ call'[u].seqno = call[u].seqno
      BY <1>5, <2>3, <3>1, <3>2, SlowMoves DEF Asking, SlowPC
    <3> QED
      BY <1>5, <3>2, <3>3 DEF Issued
  <2> QED
    BY <2>1, <2>2, <2>3
<1> QED
  BY <1>4, <1>5 DEF Issued

\* ... and once closed it is not opened again.
LEMMA ClosedKept ==
  ASSUME Inv, NEW t \in Tasks,
         SlowStep(t) \/ HelpStep(t) \/ ListStep(t) \/ PlainStep(t),
         NEW u \in Tasks, NEW j \in Idx, NEW s \in Tags,
         Issued(u, j, s), ~Pending(u, j, s)
  PROVE  ~Pending(u, j, s)'
<1>1. TypeOK /\ Tagged
  BY DEF Inv, TypeInv
<1>2. CASE SlowRequest(t) /\ u = t /\ j = call[t].idx
  <2>1. pc[t] = "request" /\ tag[t][j] = call[t].seqno
    BY <1>1, <1>2 DEF SlowRequest, Tagged, SlowPC, Asking
  <2>2. call[t].seqno \in Nat
    BY <1>1, CallFields, ParamAssumption DEF Tags
  <2>3. s # call[t].seqno
    BY <1>2, <2>1, <2>2 DEF Issued, Asking
  <2> QED
    BY <1>2, <2>3, RequestStep DEF Pending
<1>3. CASE ~(SlowRequest(t) /\ u = t /\ j = call[t].idx)
  BY <1>3, RequestStep DEF Pending
<1> QED
  BY <1>2, <1>3

-----------------------------------------------------------------------------
\* counter_start and counter_end around the slow path.
LEMMA SlowCounts ==
  ASSUME TypeOK, NEW t \in Tasks, SlowStep(t)
  PROVE  \/ /\ pc[t] \notin Slow /\ pc'[t] \in Slow
            /\ counterStart' = counterStart + 1 /\ counterEnd' = counterEnd
         \/ /\ pc[t] \in Slow /\ pc'[t] \notin Slow
            /\ counterStart' = counterStart /\ counterEnd' = counterEnd + 1
         \/ /\ pc[t] \in Slow <=> pc'[t] \in Slow
            /\ counterStart' = counterStart /\ counterEnd' = counterEnd
<1> USE DEF Slow, SlowPC, Goto
<1>1. pc \in [Tasks -> PC]
  BY DEF TypeOK
<1>2. CASE StoreEpoch(t) \/ SlowPointer(t) \/ SlowEpoch(t) \/ SlowRequest(t)
  BY <1>1, <1>2 DEF StoreEpoch, SlowPointer, SlowEpoch, SlowRequest, counters
<1>3. CASE SlowLoad(t) \/ SlowCheck(t) \/ SlowCas(t) \/ SlowSlot(t)
  BY <1>1, <1>3 DEF SlowLoad, SlowCheck, SlowCas, SlowSlot, counters
<1>4. CASE SlowResult(t) \/ SlowTake(t) \/ SlowTag(t)
  BY <1>1, <1>4 DEF SlowResult, SlowTake, SlowTag, counters
<1>5. CASE SlowStart(t) \/ SlowEnd(t)
  BY <1>1, <1>5 DEF SlowStart, SlowEnd
<1> QED
  BY <1>2, <1>3, <1>4, <1>5 DEF SlowStep

\* The counters count, and the epoch keeps room for those that advance it.
LEMMA CountedNext ==
  ASSUME Inv, NEW t \in Tasks,
         SlowStep(t) \/ HelpStep(t) \/ ListStep(t) \/ PlainStep(t)
  PROVE  Counted'
<1>1. TypeOK /\ Counted
  BY DEF Inv, TypeInv
<1>2. /\ pc \in [Tasks -> PC] /\ epoch \in Nat /\ MaxEpoch \in Nat
      /\ counterStart \in Nat /\ counterEnd \in Nat
  BY <1>1, ParamAssumption DEF TypeOK, Epochs
<1>3. \A u \in Tasks \ {t} : Kept(u)
  BY <1>1, StepKeeps
<1>4. ASSUME NEW u \in Tasks, pc'[u] \in HelpPC \union {"advance", "birth"}
      PROVE  mine'[u] # NULL
  <2>1. CASE u # t
    BY <1>1, <1>3, <1>4, <2>1 DEF Kept, Counted
  <2>2. CASE u = t
    BY <1>1, <1>4, <2>2, SlowKeeps, HelpKeeps, ListKeeps, PlainKeeps
       DEF Counted, Slow, SlowPC, HelpPC, clientVars
  <2> QED
    BY <2>1, <2>2
<1>5. epoch' + Cardinality(Advancing') <= MaxEpoch
  <2>1. IsFiniteSet(Advancing) /\ Cardinality(Advancing) \in Nat
    BY FS_Subset, TasksFinite, FS_CardinalityType DEF Advancing
  <2>2. \A u \in Tasks \ {t} : u \in Advancing' <=> u \in Advancing
    BY <1>3 DEF Kept, Advancing
  <2>3. CASE t \in Advancing' <=> t \in Advancing
    <3>1. Advancing' = Advancing
      BY <2>2, <2>3 DEF Advancing
    <3>2. epoch' = epoch
      BY <1>1, <2>3, SlowKeeps, HelpKeeps, ListKeeps, PlainKeeps
         DEF Advancing, HelpPC
    <3> QED
      BY <1>1, <3>1, <3>2 DEF Counted
  <2>4. CASE t \in Advancing' /\ t \notin Advancing
    <3>1. Advancing' = Advancing \union {t}
      BY <2>2, <2>4 DEF Advancing
    <3>2. Cardinality(Advancing') = Cardinality(Advancing) + 1
      BY <2>1, <2>4, <3>1, FS_AddElement
    <3>3. epoch' = epoch /\ epoch + Cardinality(Advancing) < MaxEpoch
      BY <1>1, <2>4, SlowKeeps, HelpKeeps, ListKeeps, PlainKeeps
         DEF Advancing, HelpPC, Slow, SlowPC
    <3> QED
      BY <1>2, <2>1, <3>2, <3>3
  <2>5. CASE t \notin Advancing' /\ t \in Advancing
    <3>1. Advancing' = Advancing \ {t}
      BY <2>2, <2>5 DEF Advancing
    <3>2. Cardinality(Advancing') = Cardinality(Advancing) - 1
      BY <2>1, <2>5, <3>1, FS_RemoveElement
    <3>3. epoch' = epoch + 1
      BY <1>1, <2>5, SlowKeeps, HelpKeeps, ListKeeps, PlainKeeps
         DEF Advancing, HelpPC, Slow, SlowPC
    <3> QED
      BY <1>1, <1>2, <2>1, <3>2, <3>3 DEF Counted
  <2> QED
    BY <2>3, <2>4, <2>5
<1>6. counterStart' = counterEnd' + Cardinality(InSlow')
  <2>1. IsFiniteSet(InSlow) /\ Cardinality(InSlow) \in Nat
    BY FS_Subset, TasksFinite, FS_CardinalityType DEF InSlow
  <2>2. \A u \in Tasks \ {t} : u \in InSlow' <=> u \in InSlow
    BY <1>3 DEF Kept, InSlow
  <2>3. CASE /\ pc[t] \notin Slow /\ pc'[t] \in Slow
             /\ counterStart' = counterStart + 1 /\ counterEnd' = counterEnd
    <3>1. InSlow' = InSlow \union {t} /\ t \notin InSlow
      BY <2>2, <2>3 DEF InSlow
    <3>2. Cardinality(InSlow') = Cardinality(InSlow) + 1
      BY <2>1, <3>1, FS_AddElement
    <3> QED
      BY <1>1, <1>2, <2>1, <2>3, <3>2 DEF Counted
  <2>4. CASE /\ pc[t] \in Slow /\ pc'[t] \notin Slow
             /\ counterStart' = counterStart /\ counterEnd' = counterEnd + 1
    <3>1. InSlow' = InSlow \ {t} /\ t \in InSlow
      BY <2>2, <2>4 DEF InSlow
    <3>2. Cardinality(InSlow') = Cardinality(InSlow) - 1
      BY <2>1, <3>1, FS_RemoveElement
    <3> QED
      BY <1>1, <1>2, <2>1, <2>4, <3>2 DEF Counted
  <2>5. CASE /\ pc[t] \in Slow <=> pc'[t] \in Slow
             /\ counterStart' = counterStart /\ counterEnd' = counterEnd
    <3>1. InSlow' = InSlow
      BY <2>2, <2>5 DEF InSlow
    <3> QED
      BY <1>1, <2>5, <3>1 DEF Counted
  <2> QED
    BY <1>1, <2>3, <2>4, <2>5, SlowCounts, OtherMoves
<1> QED
  BY <1>4, <1>5, <1>6 DEF Counted

\* A thread with a request without an answer is in the slow path.
LEMMA PendingIssued ==
  ASSUME Inv, NEW u \in Tasks, NEW j \in Idx, NEW s, Pending(u, j, s)
  PROVE  /\ Issued(u, j, s) /\ s \in Tags /\ tag[u][j] = s
         /\ u \in InSlow
<1>1. TypeOK /\ Requested /\ states[u][j].ptr = INVPTR /\ states[u][j].stamp = s
  BY DEF Inv, TypeInv, Pending
<1>2. /\ pc[u] \in Waiting /\ call[u].idx = j /\ call[u].seqno = s
      /\ tag[u][j] = s
  BY <1>1 DEF Requested
<1>3. s \in Tags
  BY <1>1, <1>2, CallFields
<1> QED
  BY <1>2, <1>3 DEF Issued, InSlow, Waiting, Asking, Slow, SlowPC

-----------------------------------------------------------------------------
\* How a helper goes: it takes up a request that is open, stays with it to the
\* end, and gets there when it is closed.
LEMMA HelpMoves ==
  ASSUME Inv, NEW t \in Tasks, HelpStep(t)
  PROVE  \/ HelpEnds(t)
         \/ HelpStarts(t)
         \* on to the next slot
         \/ /\ pc[t] \in {"hlook", "hclear"} /\ NextSlot(t)
            /\ pc[t] = "hlook" => states[Who(t)[1]][Who(t)[2]].ptr # INVPTR
         \* a request is found
         \/ /\ pc[t] = "hlook" /\ pc'[t] = "hepoch"
            /\ help'[t].pos = help[t].pos
            /\ Pending(Who(t)[1], Who(t)[2], help'[t].last)
         \* at work
         \/ /\ pc[t] \in Helping /\ pc'[t] \in Helping
            /\ help'[t].pos = help[t].pos /\ help'[t].last = help[t].last
            /\ \/ pc'[t] \notin Through
               \/ pc[t] \in Through
               \/ ~Pending(Who(t)[1], Who(t)[2], help[t].last)
               \/ states'[Who(t)[1]][Who(t)[2]].ptr # INVPTR
<1> USE DEF Helping, Looping, HelpPC, Through, Goto
<1>1. /\ pc \in [Tasks -> PC] /\ help \in [Tasks -> Helps] /\ help[t] \in Helps
      /\ TypeOK /\ Requested
  BY DEF Inv, TypeInv, TypeOK
<1>2. CASE HelpEnds(t) \/ HelpStarts(t)
  BY <1>2
<1>3. CASE HelpLook(t)
  <2>1. CASE NextSlot(t) /\ states[Who(t)[1]][Who(t)[2]].ptr # INVPTR
    BY <1>3, <2>1 DEF HelpLook
  <2>2. CASE /\ states[Who(t)[1]][Who(t)[2]].ptr = INVPTR
             /\ help' = [help EXCEPT ![t].last = states[Who(t)[1]][Who(t)[2]].stamp]
             /\ Goto(t, "hepoch")
    <3>1. /\ help'[t].pos = help[t].pos
          /\ help'[t].last = states[Who(t)[1]][Who(t)[2]].stamp
      BY <1>1, <2>2 DEF Helps
    <3> QED
      BY <1>1, <1>3, <2>2, <3>1 DEF HelpLook, Pending
  <2> QED
    BY <1>3, <2>1, <2>2 DEF HelpLook
<1>4. CASE HelpClear(t)
  BY <1>4 DEF HelpClear
<1>5. CASE HelpEpoch(t) \/ HelpPointer(t) \/ HelpFirst(t) \/ HelpLoad(t)
  BY <1>1, <1>5 DEF HelpEpoch, HelpPointer, HelpFirst, HelpLoad, Helps
<1>6. CASE HelpCheck(t) \/ HelpOldTag(t) \/ HelpOldEpoch(t)
  BY <1>1, <1>6 DEF HelpCheck, HelpOldTag, HelpOldEpoch, Helps
<1>7. CASE HelpParent(t) \/ HelpStore(t) \/ HelpRelease(t)
  BY <1>1, <1>7 DEF HelpParent, HelpStore, HelpRelease
<1>8. CASE HelpSeqno(t)
  <2>1. Who(t)[1] \in Tasks /\ Who(t)[2] \in Idx
    BY <1>1, HelpFields
  <2>2. ~Current(t) => ~Pending(Who(t)[1], Who(t)[2], help[t].last)
    BY <1>1, <2>1 DEF Current, Pending, Requested
  <2> QED
    BY <1>1, <1>8, <2>2 DEF HelpSeqno
<1>9. CASE HelpAgain(t)
  BY <1>1, <1>9 DEF HelpAgain, Unanswered
<1>10. CASE HelpCas(t)
  <2>1. CASE Unanswered(t)
    <3> DEFINE u == Who(t)[1]
               j == Who(t)[2]
    <3>1. /\ u \in Tasks /\ j \in Idx /\ help[t].ptr \in Ptrs
          /\ states \in [Tasks -> [Idx -> Requests]] /\ states[u][j] \in Requests
      BY <1>1, HelpFields DEF TypeOK
    <3>2. states' = [states EXCEPT ![u][j].ptr = help[t].ptr,
                                   ![u][j].stamp = help[t].prev]
      BY <1>10, <2>1 DEF HelpCas
    <3>3. states'[u][j].ptr = help[t].ptr
      BY <3>1, <3>2 DEF Requests
    <3>4. states'[u][j].ptr # INVPTR
      BY <3>1, <3>3, Names
    <3>5. help' = help /\ pc[t] = "hcas" /\ pc'[t] = "hold"
      BY <1>1, <1>10, <2>1 DEF HelpCas
    <3> QED
      BY <3>4, <3>5
  <2>2. CASE ~Unanswered(t)
    BY <1>1, <1>10, <2>2 DEF HelpCas, Unanswered
  <2> QED
    BY <2>1, <2>2
<1>11. CASE HelpSlot(t)
  BY <1>1, <1>11 DEF HelpSlot, Helps
<1> QED
  BY <1>2, <1>3, <1>4, <1>5, <1>6, <1>7, <1>8, <1>9, <1>10, <1>11 DEF HelpStep

\* A helper works on an issued request, and past its loop on a closed one.
LEMMA ServedNext ==
  ASSUME Inv, NEW t \in Tasks,
         SlowStep(t) \/ HelpStep(t) \/ ListStep(t) \/ PlainStep(t)
  PROVE  Served'
<1>1. TypeOK /\ Served
  BY DEF Inv, TypeInv
<1>2. SUFFICES ASSUME NEW u \in Tasks, pc'[u] \in Helping
      PROVE  /\ Issued(Who(u)[1], Who(u)[2], help[u].last)'
             /\ pc'[u] \in Through => ~Pending(Who(u)[1], Who(u)[2], help[u].last)'
  BY DEF Served, Through, Helping, Looping, HelpPC
<1>3. Who(u)[1] \in Tasks /\ Who(u)[2] \in Idx /\ help[u].last \in Tags
  BY <1>1, HelpFields
\* What a helper at work keeps.
<1>4. ASSUME pc[u] \in Helping,
             help'[u].pos = help[u].pos, help'[u].last = help[u].last,
             \/ pc'[u] \notin Through
             \/ pc[u] \in Through
             \/ ~Pending(Who(u)[1], Who(u)[2], help[u].last)
             \/ states'[Who(u)[1]][Who(u)[2]].ptr # INVPTR
      PROVE  /\ Issued(Who(u)[1], Who(u)[2], help[u].last)'
             /\ pc'[u] \in Through => ~Pending(Who(u)[1], Who(u)[2], help[u].last)'
  <2> DEFINE v == Who(u)[1]
             k == Who(u)[2]
             s == help[u].last
  <2>1. Who(u)' = Who(u) /\ s' = s
    BY <1>4 DEF Who
  <2>2. Issued(v, k, s) /\ (pc[u] \in Through => ~Pending(v, k, s))
    BY <1>1, <1>4 DEF Served
  <2> HIDE DEF v, k, s
  <2>3. \A a \in Tasks, b \in Idx, c \in Tags :
          /\ Issued(a, b, c) => Issued(a, b, c)'
          /\ Issued(a, b, c) /\ ~Pending(a, b, c) => ~Pending(a, b, c)'
    BY IssuedKept, ClosedKept
  <2>4. v \in Tasks /\ k \in Idx /\ s \in Tags
    BY <1>3 DEF v, k, s
  <2> QED
    BY <1>4, <2>1, <2>2, <2>3, <2>4 DEF Issued, Pending, v, k, s
<1>5. CASE u # t
  BY <1>1, <1>2, <1>4, <1>5, StepKeeps DEF Kept
<1>6. CASE u = t
  <2>1. HelpStep(t)
    BY <1>1, <1>2, <1>6, SlowKeeps, ListKeeps, PlainKeeps
       DEF Helping, Looping, HelpPC, Slow, SlowPC
  <2>2. CASE HelpEnds(t) \/ HelpStarts(t)
    BY <1>1, <1>2, <1>6, <2>2
       DEF HelpEnds, HelpStarts, Goto, Helping, Looping, HelpPC, TypeOK
  <2>3. CASE NextSlot(t)
    BY <1>1, <1>2, <1>6, <2>3
       DEF NextSlot, Goto, Helping, Looping, HelpPC, TypeOK
  <2>4. CASE /\ pc[t] = "hlook" /\ pc'[t] = "hepoch"
             /\ help'[t].pos = help[t].pos
             /\ Pending(Who(t)[1], Who(t)[2], help'[t].last)
    <3>1. Who(t)' = Who(t)
      BY <2>4 DEF Who
    <3>2. /\ Issued(Who(t)[1], Who(t)[2], help'[t].last)
          /\ help'[t].last \in Tags
      BY <1>3, <1>6, <2>4, PendingIssued
    <3>3. \A a \in Tasks, b \in Idx, c \in Tags :
             Issued(a, b, c) => Issued(a, b, c)'
      BY IssuedKept
    <3> QED
      BY <1>3, <1>6, <2>4, <3>1, <3>2, <3>3 DEF Issued, Through
  <2> QED
    BY <1>4, <1>6, <2>1, <2>2, <2>3, <2>4, HelpMoves
<1> QED
  BY <1>5, <1>6

\* Where a helper is past the slot of a request, the request is closed.
LEMMA AttendedNext ==
  ASSUME Inv, NEW t \in Tasks,
         SlowStep(t) \/ HelpStep(t) \/ ListStep(t) \/ PlainStep(t)
  PROVE  Attended'
<1>1. TypeOK /\ Served /\ Attended
  BY DEF Inv, TypeInv
<1>2. \A a \in Tasks, b \in Idx, c \in Tags :
        /\ Issued(a, b, c) => Issued(a, b, c)'
        /\ Issued(a, b, c) /\ ~Pending(a, b, c) => ~Pending(a, b, c)'
  BY IssuedKept, ClosedKept
<1>3. /\ pc \in [Tasks -> PC] /\ help \in [Tasks -> Helps]
      /\ asked \in [Tasks -> SUBSET (Tasks \X Idx \X Tags)]
      /\ counterStart \in Nat /\ counterEnd \in Nat
  BY <1>1 DEF TypeOK
<1>4. /\ counterStart' >= counterStart /\ counterStart' \in Nat
      /\ \A u \in Tasks : help[u].ends \in Nat
  <2>1. counterStart' >= counterStart /\ counterStart' \in Nat
    BY <1>1, <1>3, SlowCounts, OtherMoves
  <2> QED
    BY <1>1, <2>1, HelpFields
<1>5. SUFFICES ASSUME NEW v \in Tasks
      PROVE  /\ asked'[v] \subseteq Tasks \X Idx \X Tags
             /\ pc'[v] = "hstarts" /\ asked'[v] # {} =>
                  counterStart' > help'[v].ends
             /\ \A r \in asked'[v] :
                  /\ Issued(r[1], r[2], r[3])'
                  /\ Passed(v, r)' => ~Pending(r[1], r[2], r[3])'
  BY DEF Attended
\* Issued requests that were closed, or whose helper is not past them now.
<1>6. ASSUME asked'[v] \subseteq asked[v],
             \A r \in asked[v] : Passed(v, r)' => ~Pending(r[1], r[2], r[3])
      PROVE  /\ asked'[v] \subseteq Tasks \X Idx \X Tags
             /\ \A r \in asked'[v] :
                  /\ Issued(r[1], r[2], r[3])'
                  /\ Passed(v, r)' => ~Pending(r[1], r[2], r[3])'
  <2>1. asked[v] \subseteq Tasks \X Idx \X Tags
    BY <1>3
  <2>2. ASSUME NEW r \in asked'[v]
        PROVE  /\ Issued(r[1], r[2], r[3])'
               /\ Passed(v, r)' => ~Pending(r[1], r[2], r[3])'
    <3>1. r[1] \in Tasks /\ r[2] \in Idx /\ r[3] \in Tags /\ r \in asked[v]
      BY <1>6, <2>1, <2>2
    <3>2. Issued(r[1], r[2], r[3])
      BY <1>1, <3>1 DEF Attended
    <3>3. PICK a \in Tasks, b \in Idx, c \in Tags : a = r[1] /\ b = r[2] /\ c = r[3]
      BY <3>1
    <3>4. Issued(a, b, c) /\ (Passed(v, r)' => ~Pending(a, b, c))
      BY <1>6, <3>1, <3>2, <3>3
    <3>5. Issued(a, b, c)' /\ (Passed(v, r)' => ~Pending(a, b, c)')
      BY <1>2, <3>4
    <3> QED
      BY <3>3, <3>5
  <2> QED
    BY <1>6, <2>1, <2>2
<1>7. CASE v # t
  <2>1. Kept(v)
    BY <1>1, <1>7, StepKeeps
  <2>2. \A r \in asked[v] : Passed(v, r)' => Passed(v, r)
    BY <2>1 DEF Kept, Passed, Who
  <2> QED
    BY <1>1, <1>3, <1>4, <1>6, <2>1, <2>2 DEF Kept, Attended
<1>8. CASE v = t /\ ~HelpStep(t)
  <2>1. /\ pc'[t] \notin Looping \union {"advance", "hstarts"}
        /\ asked'[t] \subseteq asked[t]
    BY <1>1, <1>8, SlowKeeps, ListKeeps, PlainKeeps
       DEF Looping, HelpPC, Slow, SlowPC
  <2>2. \A r \in asked[v] : ~Passed(v, r)'
    BY <1>8, <2>1 DEF Passed, Helping
  <2> QED
    BY <1>6, <1>8, <2>1, <2>2
<1>9. CASE v = t /\ HelpEnds(t)
  <2>1. /\ asked'[t] = Open /\ help'[t].ends = counterEnd /\ pc'[t] = "hstarts"
        /\ counterStart' = counterStart
    BY <1>3, <1>9 DEF HelpEnds, Goto, Helps, counters
  <2>2. ASSUME NEW r \in Open
        PROVE  /\ Issued(r[1], r[2], r[3])' /\ ~Passed(t, r)'
               /\ InSlow # {}
    <3>1. /\ r[1] \in Tasks /\ r[2] \in Idx /\ r[3] \in Tags
          /\ Pending(r[1], r[2], r[3])
      BY <2>2 DEF Open
    <3>2. PICK a \in Tasks, b \in Idx, c \in Tags : a = r[1] /\ b = r[2] /\ c = r[3]
      BY <3>1
    <3>3. Issued(a, b, c) /\ a \in InSlow
      BY <3>1, <3>2, PendingIssued
    <3>4. Issued(a, b, c)'
      BY <1>2, <3>3
    <3>5. ~Passed(t, r)'
      BY <2>1 DEF Passed, Looping, Helping, HelpPC
    <3> QED
      BY <3>2, <3>3, <3>4, <3>5
  <2>3. Open \subseteq Tasks \X Idx \X Tags
    BY DEF Open
  <2>4. Open # {} => counterStart > counterEnd
    <3>1. IsFiniteSet(InSlow)
      BY FS_Subset, TasksFinite DEF InSlow
    <3>2. Open # {} => Cardinality(InSlow) >= 1
      BY <2>2, <3>1, FS_EmptySet, FS_CardinalityType
    <3>3. counterStart = counterEnd + Cardinality(InSlow)
      BY DEF Inv, TypeInv, Counted
    <3> QED
      BY <1>3, <3>1, <3>2, <3>3, FS_CardinalityType
  <2> QED
    BY <1>9, <2>1, <2>2, <2>3, <2>4
<1>10. CASE v = t /\ HelpStep(t) /\ ~HelpEnds(t)
  <2>1. asked' = asked
    <3>1. CASE HelpStarts(t) \/ HelpLook(t) \/ HelpEpoch(t) \/ HelpParent(t)
      BY <3>1 DEF HelpStarts, HelpLook, HelpEpoch, HelpParent
    <3>2. CASE HelpPointer(t) \/ HelpSeqno(t) \/ HelpFirst(t) \/ HelpStore(t)
      BY <3>2 DEF HelpPointer, HelpSeqno, HelpFirst, HelpStore
    <3>3. CASE HelpLoad(t) \/ HelpCheck(t) \/ HelpAgain(t) \/ HelpCas(t)
      BY <3>3 DEF HelpLoad, HelpCheck, HelpAgain, HelpCas
    <3>4. CASE HelpOldTag(t) \/ HelpOldEpoch(t) \/ HelpSlot(t) \/ HelpRelease(t)
               \/ HelpClear(t)
      BY <3>4 DEF HelpOldTag, HelpOldEpoch, HelpSlot, HelpRelease, HelpClear
    <3> QED
      BY <1>10, <3>1, <3>2, <3>3, <3>4 DEF HelpStep
  <2>2. ASSUME \A r \in asked[t] : Passed(t, r)' => ~Pending(r[1], r[2], r[3]),
               pc'[t] # "hstarts"
        PROVE  /\ asked'[v] \subseteq Tasks \X Idx \X Tags
               /\ pc'[v] = "hstarts" /\ asked'[v] # {} =>
                    counterStart' > help'[v].ends
               /\ \A r \in asked'[v] :
                    /\ Issued(r[1], r[2], r[3])'
                    /\ Passed(v, r)' => ~Pending(r[1], r[2], r[3])'
    BY <1>6, <1>10, <2>1, <2>2
  <2>3. CASE HelpStarts(t)
    <3>1. /\ pc[t] = "hstarts" /\ help'[t].pos = 1
          /\ pc'[t] = IF counterStart = help[t].ends THEN "advance" ELSE "hlook"
      BY <1>3, <2>3 DEF HelpStarts, Goto, NoHelp, NobodyWaits
    <3>2. counterStart = help[t].ends => asked[t] = {}
      BY <1>1, <1>3, <1>4, <3>1 DEF Attended
    <3>3. pc'[t] = "hlook" => \A r \in asked[t] : ~Passed(t, r)'
      BY <3>1 DEF Passed, Helping
    <3> QED
      BY <2>2, <3>1, <3>2, <3>3
  <2>4. CASE /\ pc[t] \in {"hlook", "hclear"} /\ NextSlot(t)
             /\ pc[t] = "hlook" => states[Who(t)[1]][Who(t)[2]].ptr # INVPTR
    <3>1. help[t].pos \in 1 .. OwnSlots /\ OwnSlots \in Nat
      BY <1>1, HelpFields, Names
    <3>2. /\ pc'[t] # "hstarts"
          /\ \/ pc'[t] = "hlook" /\ help'[t].pos = help[t].pos + 1
             \/ pc'[t] = "advance" /\ help[t].pos = OwnSlots
      BY <1>3, <2>4 DEF NextSlot, Goto, NoHelp
    <3>3. ASSUME NEW r \in asked[t], NEW k \in 1 .. help[t].pos,
                 SlotAt(k) = <<r[1], r[2]>>
          PROVE  ~Pending(r[1], r[2], r[3])
      <4>1. CASE k # help[t].pos
        <5>1. k \in 1 .. help[t].pos - 1
          BY <3>1, <4>1
        <5>2. Passed(t, r)
          BY <2>4, <3>3, <5>1 DEF Passed, Looping, HelpPC
        <5> QED
          BY <1>1, <5>2 DEF Attended
      <4>2. CASE k = help[t].pos
        <5>1. Who(t) = <<r[1], r[2]>>
          BY <3>3, <4>2 DEF Who
        <5>2. CASE pc[t] = "hlook"
          BY <2>4, <5>1, <5>2 DEF Pending
        <5>3. CASE pc[t] = "hclear" /\ r[3] = help[t].last
          BY <1>1, <5>1, <5>3 DEF Served, Through
        <5>4. CASE pc[t] = "hclear" /\ r[3] # help[t].last
          <6>1. Passed(t, r)
            BY <5>1, <5>4 DEF Passed, Helping, Looping, HelpPC
          <6> QED
            BY <1>1, <6>1 DEF Attended
        <5> QED
          BY <2>4, <5>2, <5>3, <5>4
      <4> QED
        BY <4>1, <4>2
    <3>4. ASSUME NEW r \in asked[t], Passed(t, r)'
          PROVE  ~Pending(r[1], r[2], r[3])
      <4>1. CASE pc'[t] = "hlook" /\ help'[t].pos = help[t].pos + 1
        <5>1. PICK k \in 1 .. help'[t].pos - 1 : SlotAt(k) = <<r[1], r[2]>>
          BY <3>4, <4>1 DEF Passed, Helping
        <5>2. k \in 1 .. help[t].pos
          BY <3>1, <4>1, <5>1
        <5> QED
          BY <3>3, <5>1, <5>2
      <4>2. CASE help[t].pos = OwnSlots
        <5>1. r[1] \in Tasks /\ r[2] \in Idx
          BY <1>3
        <5>2. PICK k \in 1 .. OwnSlots : SlotAt(k) = <<r[1], r[2]>>
          BY <5>1, SlotAtOnto
        <5> QED
          BY <3>3, <4>2, <5>2
      <4> QED
        BY <3>2, <4>1, <4>2
    <3> QED
      BY <2>2, <3>2, <3>4
  <2>5. CASE /\ pc[t] = "hlook" /\ pc'[t] = "hepoch"
             /\ help'[t].pos = help[t].pos
             /\ Pending(Who(t)[1], Who(t)[2], help'[t].last)
    <3>1. ASSUME NEW r \in asked[t], Passed(t, r)'
          PROVE  ~Pending(r[1], r[2], r[3])
      <4>1. Who(t)' = Who(t)
        BY <2>5 DEF Who
      <4>2. CASE \E k \in 1 .. help[t].pos - 1 : SlotAt(k) = <<r[1], r[2]>>
        <5>1. Passed(t, r)
          BY <2>5, <4>2 DEF Passed, Looping, HelpPC
        <5> QED
          BY <1>1, <5>1 DEF Attended
      <4>3. CASE Who(t) = <<r[1], r[2]>> /\ r[3] # help'[t].last
        BY <2>5, <4>3 DEF Pending
      <4> QED
        BY <2>5, <3>1, <4>1, <4>2, <4>3 DEF Passed
    <3> QED
      BY <2>2, <2>5, <3>1
  <2>6. CASE /\ pc[t] \in Helping /\ pc'[t] \in Helping
             /\ help'[t].pos = help[t].pos /\ help'[t].last = help[t].last
    <3>1. \A r \in asked[t] : Passed(t, r)' => Passed(t, r)
      <4>1. pc'[t] # "advance" /\ pc[t] \in Looping
        BY <2>6 DEF Helping, Looping, HelpPC
      <4> QED
        BY <2>6, <4>1 DEF Passed, Who
    <3>2. pc'[t] # "hstarts"
      BY <2>6 DEF Helping, Looping
    <3> QED
      BY <1>1, <2>2, <3>1, <3>2 DEF Attended
  <2> QED
    BY <1>10, <2>3, <2>4, <2>5, <2>6, HelpMoves
<1> QED
  BY <1>7, <1>8, <1>9, <1>10

-----------------------------------------------------------------------------
\* The invariant holds at the start, after every step, and always.
LEMMA InvInit == Init => Inv
<1> SUFFICES ASSUME Init PROVE Inv
  OBVIOUS
<1>1. ListTypeOK
  BY ListInitInv DEF Init, ListInv
<1>2. /\ pc = [t \in Tasks |-> "idle"] /\ call = [t \in Tasks |-> NoCall]
      /\ help = [t \in Tasks |-> NoHelp] /\ scan = [t \in Tasks |-> NoScan]
      /\ states = [t \in Tasks |-> [j \in Idx |-> NoRequest]]
      /\ asked = [t \in Tasks |-> {}]
      /\ epoch = 1 /\ counterStart = 0 /\ counterEnd = 0
  BY DEF Init
<1>3. NoRequest \in Requests /\ 1 \in Epochs
  BY Names, ParamAssumption DEF NoRequest, Requests, Epochs
<1>4. TypeOK
  <2>1. /\ reservations \in [Tasks -> [AllIdx -> Epochs]]
        /\ tag \in [Tasks -> [Idx -> Tags]]
        /\ states \in [Tasks -> [Idx -> Requests]]
        /\ birth \in [Objs -> Epochs] /\ retireEpoch \in [Objs -> Epochs]
        /\ local \in [Tasks -> [Tasks -> [1 .. PARENT -> Epochs]]]
        /\ held \in [Tasks -> [Idx -> Ptrs]]
        /\ helped \in [Tasks -> [Idx -> Ptrs]]
    BY <1>3, Names DEF Init
  <2>2. /\ call \in [Tasks -> Calls] /\ help \in [Tasks -> Helps]
        /\ scan \in [Tasks -> Scans] /\ pc \in [Tasks -> PC]
        /\ asked \in [Tasks -> SUBSET (Tasks \X Idx \X Tags)]
    BY <1>2, Names DEF PC
  <2>3. /\ allocs \in [Tasks -> 0 .. EpochFreq - 1]
        /\ retires \in [Tasks -> 0 .. Freq - 1]
    BY ParamAssumption DEF Init
  <2> QED
    BY <1>1, <1>2, <1>3, <2>1, <2>2, <2>3 DEF TypeOK
<1>5. \A t \in Tasks : pc[t] = "idle" /\ asked[t] = {}
  BY <1>2
<1>6. Tagged /\ Served /\ Attended
  BY <1>5
     DEF Tagged, Served, Attended, SlowPC, Helping, Looping, HelpPC, Through
<1>7. Requested
  BY <1>2, Names DEF Requested, NoRequest
<1>8. Counted
  <2>1. Advancing = {} /\ InSlow = {}
    BY <1>5 DEF Advancing, InSlow, Slow, SlowPC, HelpPC
  <2>2. \A t \in Tasks : pc[t] \notin HelpPC \union {"advance", "birth"}
    BY <1>5 DEF HelpPC
  <2> QED
    BY <1>2, <2>1, <2>2, FS_EmptySet, ParamAssumption DEF Counted
<1> QED
  BY <1>4, <1>6, <1>7, <1>8 DEF Inv, TypeInv

LEMMA InvNext == Inv /\ [Next]_vars => Inv'
<1> SUFFICES ASSUME Inv, [Next]_vars PROVE Inv'
  OBVIOUS
<1>1. TypeOK'
  BY ListNext, TypeNext DEF Inv, TypeInv
<1>2. CASE Next
  BY <1>1, <1>2, Steps, TaggedNext, RequestedNext, CountedNext, ServedNext,
     AttendedNext
     DEF Inv, TypeInv
<1>3. CASE UNCHANGED vars
  <2>1. UNCHANGED <<mine, epoch, counterStart, counterEnd, tag, states,
                    asked, pc, call, help>>
    BY <1>3 DEF vars, clientVars, counters, slots
  <2>2. Tagged' /\ Requested'
    BY <2>1 DEF Inv, TypeInv, Tagged, Requested
  <2>3. Counted'
    BY <2>1 DEF Inv, TypeInv, Counted, Advancing, InSlow
  <2>4. Served' /\ Attended'
    BY <2>1 DEF Inv, Served, Attended, Issued, Pending, Passed, Who
  <2> QED
    BY <1>1, <2>2, <2>3, <2>4 DEF Inv, TypeInv
<1> QED
  BY <1>2, <1>3

LEMMA Invariance == Spec => []Inv
BY InvInit, InvNext, PTL DEF Spec

\* Wait-free eras keep their types: every epoch and tag under its bound, every
\* position a slot, every answer an epoch.
THEOREM TypeCorrect == Spec => []TypeOK
<1>1. Inv => TypeOK
  BY DEF Inv, TypeInv
<1> QED
  BY <1>1, Invariance, PTL

\* No thread advances the epoch past a request that was there before it began
\* to help (alloc and help_read), so a slow read goes round at most once per
\* thread.
THEOREM ReadsEnd == Spec => []HelpBeforeAdvance
<1>1. Inv => HelpBeforeAdvance
  BY DEF Inv, Attended, HelpBeforeAdvance, Passed
<1> QED
  BY <1>1, Invariance, PTL

\* Whoever changes the epoch in a slot for reads.
LEMMA SlotStep ==
  ASSUME Inv, NEW t \in Tasks,
         SlowStep(t) \/ HelpStep(t) \/ ListStep(t) \/ PlainStep(t),
         NEW u \in Tasks, NEW j \in Idx
  PROVE  \/ reservations'[u][j] = reservations[u][j]
         \/ u = t /\ (pc'[u] # pc[u] \/ call'[u] # call[u])
         \/ pc[u] \in SlowPC /\ call[u].idx = j
<1>1. TypeOK /\ Served
  BY DEF Inv, TypeInv
<1>2. /\ reservations \in [Tasks -> [AllIdx -> Epochs]]
      /\ tag \in [Tasks -> [Idx -> Tags]]
      /\ pc \in [Tasks -> PC] /\ call \in [Tasks -> Calls]
  BY <1>1 DEF TypeOK
<1>3. j # PARENT /\ j # HELPED /\ j \in AllIdx
  BY ParamAssumption DEF PARENT, HELPED, Idx, AllIdx
<1>4. CASE StoreEpoch(t) \/ SlowSlot(t) \/ SlowTake(t)
  BY <1>2, <1>4 DEF StoreEpoch, SlowSlot, SlowTake, Goto
<1>5. CASE HelpParent(t) \/ HelpStore(t) \/ HelpRelease(t) \/ HelpClear(t)
  BY <1>2, <1>3, <1>5 DEF HelpParent, HelpStore, HelpRelease, HelpClear
<1>6. CASE HelpSlot(t)
  <2>1. CASE UNCHANGED reservations
    BY <2>1
  <2>2. CASE /\ help[t].last = tag[Who(t)[1]][Who(t)[2]]
             /\ reservations' =
                  [reservations EXCEPT ![Who(t)[1]][Who(t)[2]] = help[t].prev]
    <3>1. Who(t)[1] \in Tasks /\ Who(t)[2] \in Idx
      BY <1>1, HelpFields
    <3>2. CASE u = Who(t)[1] /\ j = Who(t)[2]
      <4>1. Issued(u, j, tag[u][j])
        BY <1>1, <1>6, <2>2, <3>2 DEF HelpSlot, Served, Helping, Looping, HelpPC
      <4>2. tag[u][j] \in Nat
        BY <1>2 DEF Tags
      <4> QED
        BY <4>1, <4>2 DEF Issued, Asking, SlowPC
    <3>3. CASE ~(u = Who(t)[1] /\ j = Who(t)[2])
      BY <1>2, <2>2, <3>1, <3>3
    <3> QED
      BY <3>2, <3>3
  <2> QED
    BY <1>6, <2>1, <2>2 DEF HelpSlot, SlotAsLoaded, SlotIs, slots
<1>7. CASE ClearSlot(t)
  <2>1. call[t].idx \in Idx /\ HENum \in Nat /\ NoCall.idx = 1 /\ call[t] \in Calls
    BY <1>1, <1>2, CallFields, ParamAssumption DEF NoCall
  <2>2. pc'[t] # pc[t] \/ call'[t] # call[t]
    BY <1>2, <1>7, <2>1 DEF ClearSlot, Goto, Calls, Idx
  <2>3. u # t => reservations'[u][j] = reservations[u][j]
    BY <1>2, <1>7 DEF ClearSlot
  <2> QED
    BY <2>2, <2>3
<1>8. CASE ListStep(t)
  BY <1>8
     DEF ListStep, AllocCount, Add, Remove, Retire, EmptyStarts, Recheck, slots
<1>9. CASE SlowStep(t) /\ ~(StoreEpoch(t) \/ SlowSlot(t) \/ SlowTake(t))
  <2>1. CASE SlowStart(t) \/ SlowPointer(t) \/ SlowEpoch(t) \/ SlowRequest(t)
    BY <2>1 DEF SlowStart, SlowPointer, SlowEpoch, SlowRequest, slots
  <2>2. CASE SlowLoad(t) \/ SlowCheck(t) \/ SlowCas(t)
    BY <2>2 DEF SlowLoad, SlowCheck, SlowCas, slots
  <2>3. CASE SlowResult(t) \/ SlowTag(t) \/ SlowEnd(t)
    BY <2>3 DEF SlowResult, SlowTag, SlowEnd, slots
  <2> QED
    BY <1>9, <2>1, <2>2, <2>3 DEF SlowStep
<1>10. CASE HelpStep(t) /\ ~(HelpParent(t) \/ HelpStore(t) \/ HelpRelease(t)
                             \/ HelpClear(t) \/ HelpSlot(t))
  <2>1. CASE HelpEnds(t) \/ HelpStarts(t) \/ HelpLook(t) \/ HelpEpoch(t)
    BY <2>1 DEF HelpEnds, HelpStarts, HelpLook, HelpEpoch, slots
  <2>2. CASE HelpPointer(t) \/ HelpSeqno(t) \/ HelpFirst(t) \/ HelpLoad(t)
    BY <2>2 DEF HelpPointer, HelpSeqno, HelpFirst, HelpLoad, slots
  <2>3. CASE HelpCheck(t) \/ HelpAgain(t) \/ HelpCas(t) \/ HelpOldTag(t)
             \/ HelpOldEpoch(t)
    BY <2>3 DEF HelpCheck, HelpAgain, HelpCas, HelpOldTag, HelpOldEpoch, slots
  <2> QED
    BY <1>10, <2>1, <2>2, <2>3 DEF HelpStep
<1>11. CASE PlainStep(t) /\ ~ClearSlot(t)
  <2>1. CASE AllocAdvance(t) \/ AllocBirth(t) \/ ReadLoad(t) \/ CheckSame(t)
             \/ CheckNew(t)
    BY <2>1 DEF AllocAdvance, AllocBirth, ReadLoad, CheckSame, CheckNew, slots
  <2>2. CASE Clear(t) \/ CopySlot(t) \/ EmptyEnds(t) \/ EmptyDone(t)
    BY <2>2 DEF Clear, CopySlot, EmptyEnds, EmptyDone, slots
  <2>3. CASE \/ \E c \in Cells, k \in Idx, n \in Ptrs : Read(t, c, k, n)
             \/ \E k \in Idx, n \in Ptrs : Reserve(t, k, n)
    BY <2>3 DEF Read, Reserve, slots
  <2> QED
    BY <1>11, <2>1, <2>2, <2>3 DEF PlainStep
<1> QED
  BY <1>4, <1>5, <1>6, <1>7, <1>8, <1>9, <1>10, <1>11

\* Nobody changes the slot of a thread that is not in slow_path with it: a
\* helper that comes late fails (help_thread, the last compare-and-swap).
THEOREM HelpersLate == Spec => LateHelpHarmless
<1>1. Inv /\ [Next]_vars =>
        [\A u \in Tasks, j \in Idx :
            \/ SlotIs(u, j, reservations'[u][j], tag'[u][j])
            \/ pc'[u] # pc[u] \/ call'[u] # call[u]
            \/ pc[u] \in SlowPC /\ call[u].idx = j]_vars
  <2> SUFFICES ASSUME Inv, Next, NEW u \in Tasks, NEW j \in Idx
               PROVE  \/ SlotIs(u, j, reservations'[u][j], tag'[u][j])
                      \/ pc'[u] # pc[u] \/ call'[u] # call[u]
                      \/ pc[u] \in SlowPC /\ call[u].idx = j
    OBVIOUS
  <2>1. PICK t \in Tasks : SlowStep(t) \/ HelpStep(t) \/ ListStep(t) \/ PlainStep(t)
    BY Steps
  <2>2. \/ tag'[u][j] = tag[u][j]
        \/ u = t /\ pc'[u] # pc[u]
        \/ pc[u] \in SlowPC /\ call[u].idx = j
    <3>1. SlowTag(t) => pc'[t] # pc[t]
      BY DEF SlowTag, Goto, Inv, TypeInv, TypeOK
    <3> QED
      BY <2>1, <3>1, TagAt DEF Asking, SlowPC
  <2> QED
    BY <2>1, <2>2, SlotStep DEF SlotIs
<1> QED
  BY <1>1, Invariance, PTL DEF Spec, LateHelpHarmless

-----------------------------------------------------------------------------
\* Why nothing is freed that a slot guards.
\*
\* In read or reserve_slot; with a request that names the node the cell is in,
\* and its birth too.  In the part of empty that looks at one block after the
\* other.  In the loop of help_thread; past its answer.
InCall == {"load", "check", "store", "slow"} \union SlowPC
Named == SlowPC \ {"pointer"}
Described == SlowPC \ {"pointer", "epoch"}
Sweeping == {"ends", "starts", "recheck"}
Reading == {"hfirst", "hstore", "hload", "hcheck", "hagain"}
Moving == {"hold", "holdepoch", "hslot"}

\* No stamp is ahead of the global epoch, and a block is stamped before it can
\* be linked.
ClockSlots ==
    /\ epoch >= 1
    /\ \A t \in Tasks : \A j \in AllIdx : reservations[t][j] <= epoch
ClockLocals ==
    \A t \in Tasks :
        call[t].curr <= epoch /\ help[t].prev <= epoch /\ help[t].epoch <= epoch
ClockStates ==
    \A t \in Tasks : \A j \in Idx :
        /\ states[t][j].epoch <= epoch
        /\ states[t][j].ptr # INVPTR => states[t][j].stamp <= epoch
ClockBlocks ==
    /\ \A o \in Objs :
          /\ birth[o] <= epoch
          /\ status[o] \notin {"free", "private"} => birth[o] >= 1
    /\ \A t \in Tasks :
          mine[t] # NULL => \/ birth[mine[t]] >= 1
                            \/ pc[t] \in HelpPC \union {"advance", "birth"}
Clock == ClockSlots /\ ClockLocals /\ ClockStates /\ ClockBlocks

\* What empty still has to look at is on its thread's list, and the block it
\* looks at passed the test on the copies.
Swept ==
    \A t \in Tasks :
        /\ pc[t] \notin Sweeping \union {"copy"} => scan[t] = NoScan
        /\ pc[t] \in Sweeping => scan[t].todo \subseteq retired[t]
        /\ pc[t] \in {"starts", "recheck"} =>
              /\ scan[t].obj \in scan[t].todo
              /\ \A o \in Objs : scan[t].obj = o => CanDelete(t, o)

\* A call has given up what it got through its slot, but holds the node whose
\* field it reads in another slot.
CallHolds ==
    \A t \in Tasks :
        /\ pc[t] \in InCall /\ pc[t] # "stag" => held[t][call[t].idx] = NULL
        /\ pc[t] = "clear" => \A k \in Idx : held[t][k] = NULL
        /\ pc[t] = "load" => call[t].op = "read"
        /\ pc[t] \in {"check", "store"} /\ call[t].op # "read" =>
              call[t].ptr = NULL
        /\ pc[t] \in InCall /\ call[t].node # NULL =>
              \E k \in Idx \ {call[t].idx} : held[t][k] = call[t].node

\* The request names that node and its birth.
CallNames ==
    \A t \in Tasks :
        LET r == states[t][call[t].idx]
            n == call[t].node
        IN
        /\ pc[t] \in Named => r.node = n
        /\ pc[t] \in Described => r.epoch = IF n = NULL THEN 0 ELSE birth[n]

\* Until the request is answered the slot holds what its owner last stored.
CallOwns ==
    \A t \in Tasks, j \in Idx :
        /\ call[t].idx = j
        /\ pc[t] \in {"pointer", "epoch", "request"} \/ states[t][j].ptr = INVPTR
        => reservations[t][j] = call[t].prev /\ tag[t][j] = call[t].seqno

\* Thread v, inside empty, has already copied slot j of thread t.
Copied(v, t, j) ==
    \/ pc[v] = "copy" /\ \E k \in 1 .. scan[v].pos - 1 : CopyAt(k) = <<t, j>>
    \/ pc[v] \in Sweeping

\* Some copy that thread v has made keeps it from freeing o.
Sheltered(v, o) ==
    \E t \in Tasks, j \in 1 .. PARENT :
        Copied(v, t, j) /\ ~Outside(local[v][t][j], o)

\* Slot j of thread t guards block o: its epoch lies in the life of o, and
\* whoever may free o and has passed the slot saw an epoch in the life of o.
Guarded(t, j, o) ==
    /\ status[o] \notin {"free", "private"}
    /\ birth[o] <= reservations[t][j]
    /\ status[o] = "retired" => reservations[t][j] <= retireEpoch[o]
    /\ \A v \in Tasks : o \in retired[v] /\ Copied(v, t, j) => Sheltered(v, o)

\* The pointer loaded through slot j is the one read returns, unless the
\* epoch moves or a helper answers first.
Loaded(t, j) ==
    \/ pc[t] = "check" /\ reservations[t][j] = epoch
    \/ pc[t] = "scheck" /\ call[t].prev = epoch /\ states[t][j].ptr = INVPTR
    \/ pc[t] = "scas" /\ states[t][j].ptr = INVPTR

HeldGuarded ==
    \A t \in Tasks, j \in Idx, o \in Objs :
        held[t][j] = o => Guarded(t, j, o)
LoadGuarded ==
    \A t \in Tasks, j \in Idx, o \in Objs :
        call[t].idx = j /\ call[t].ptr = o /\ Loaded(t, j) => Guarded(t, j, o)

\* Helper t is at slot j of u, with the request that is the last there.
Serves(t, u, j) == Who(t) = <<u, j>> /\ help[t].last = tag[u][j]

\* A helper that may still move a slot finds nothing held through it.
LateHelp ==
    \A t, u \in Tasks, j \in Idx :
        pc[t] \in Moving /\ Serves(t, u, j) => held[u][j] = NULL

\* What a helper has taken from the request, while the request is the same.
HelpCopies ==
    \A t, u \in Tasks, j \in Idx : Serves(t, u, j) =>
        /\ pc[t] = "hparent" => help[t].epoch = states[u][j].epoch
        /\ pc[t] \in {"hpointer", "hseqno"} =>
              reservations[t][PARENT] = states[u][j].epoch
        /\ pc[t] = "hseqno" => help[t].node = states[u][j].node

\* The parent slot guards the node whose field the helper reads.
ParentGuarded ==
    \A t \in Tasks, o \in Objs :
        pc[t] \in Reading /\ help[t].node = o => Guarded(t, PARENT, o)

Shield ==
    /\ Placed /\ RetiredOnce /\ Clock /\ Swept
    /\ CallHolds /\ CallNames /\ CallOwns
    /\ HeldGuarded /\ LoadGuarded /\ LateHelp /\ HelpCopies /\ ParentGuarded

-----------------------------------------------------------------------------
\* What the steps of the slow path and of a helper leave alone, ...
LEMMA SlowFrame ==
  ASSUME NEW t \in Tasks, SlowStep(t)
  PROVE  UNCHANGED <<local, scan, birth, retireEpoch, help>>
<1>1. CASE StoreEpoch(t) \/ SlowStart(t) \/ SlowPointer(t) \/ SlowEpoch(t)
  BY <1>1 DEF StoreEpoch, SlowStart, SlowPointer, SlowEpoch, garbage, blocks
<1>2. CASE SlowRequest(t) \/ SlowLoad(t) \/ SlowCheck(t) \/ SlowCas(t)
  BY <1>2 DEF SlowRequest, SlowLoad, SlowCheck, SlowCas, garbage, blocks
<1>3. CASE SlowSlot(t) \/ SlowResult(t) \/ SlowTake(t) \/ SlowTag(t) \/ SlowEnd(t)
  BY <1>3 DEF SlowSlot, SlowResult, SlowTake, SlowTag, SlowEnd, garbage, blocks
<1> QED
  BY <1>1, <1>2, <1>3 DEF SlowStep

LEMMA HelpFrame ==
  ASSUME NEW t \in Tasks, HelpStep(t)
  PROVE  UNCHANGED <<local, scan, birth, retireEpoch, held, call>>
<1>1. CASE HelpEnds(t) \/ HelpStarts(t) \/ HelpLook(t) \/ HelpEpoch(t)
  BY <1>1 DEF HelpEnds, HelpStarts, HelpLook, HelpEpoch, garbage, blocks, given
<1>2. CASE HelpParent(t) \/ HelpPointer(t) \/ HelpSeqno(t) \/ HelpFirst(t)
  BY <1>2
     DEF HelpParent, HelpPointer, HelpSeqno, HelpFirst, garbage, blocks, given
<1>3. CASE HelpStore(t) \/ HelpLoad(t) \/ HelpCheck(t) \/ HelpAgain(t)
  BY <1>3 DEF HelpStore, HelpLoad, HelpCheck, HelpAgain, garbage, blocks, given
<1>4. CASE HelpCas(t) \/ HelpOldTag(t) \/ HelpOldEpoch(t) \/ HelpSlot(t)
  BY <1>4 DEF HelpCas, HelpOldTag, HelpOldEpoch, HelpSlot, garbage, blocks, given
<1>5. CASE HelpRelease(t) \/ HelpClear(t)
  BY <1>5 DEF HelpRelease, HelpClear, garbage, blocks, given
<1> QED
  BY <1>1, <1>2, <1>3, <1>4, <1>5 DEF HelpStep

\* ... those of a rideable and of the end of empty, ...
LEMMA ListFrame ==
  ASSUME NEW t \in Tasks, ListStep(t)
  PROVE  UNCHANGED <<epoch, reservations, tag, states, birth, held, call, help,
                     local>>
BY DEF ListStep, AllocCount, Add, Remove, Retire, EmptyStarts, Recheck, slots,
       blocks, garbage, given

\* ... and the others.
LEMMA PlainFrame ==
  ASSUME NEW t \in Tasks, PlainStep(t)
  PROVE  /\ UNCHANGED <<clientVars, retired, tag, states, help, retireEpoch>>
         /\ ~AllocAdvance(t) => epoch' = epoch
         /\ ~AllocBirth(t) => birth' = birth
         /\ ~ClearSlot(t) => reservations' = reservations
         /\ ~(CopySlot(t) \/ EmptyEnds(t) \/ EmptyDone(t)) =>
               UNCHANGED <<local, scan>>
         /\ ~(CheckSame(t) \/ Clear(t)
              \/ (\E c \in Cells, j \in Idx, n \in Ptrs : Read(t, c, j, n))
              \/ (\E j \in Idx, n \in Ptrs : Reserve(t, j, n))) => held' = held
<1>1. CASE AllocAdvance(t) \/ AllocBirth(t) \/ ReadLoad(t)
  BY <1>1 DEF AllocAdvance, AllocBirth, ReadLoad, slots, blocks, garbage, given
<1>2. CASE CheckSame(t) \/ CheckNew(t)
  BY <1>2 DEF CheckSame, CheckNew, slots, blocks, garbage, given
<1>3. CASE Clear(t) \/ ClearSlot(t) \/ CopySlot(t)
  BY <1>3 DEF Clear, ClearSlot, CopySlot, slots, blocks, garbage, given
<1>4. CASE EmptyEnds(t) \/ EmptyDone(t)
  BY <1>4 DEF EmptyEnds, EmptyDone, slots, blocks, garbage, given
<1>5. CASE \E c \in Cells, j \in Idx, n \in Ptrs : Read(t, c, j, n)
  BY <1>5 DEF Read, slots, blocks, garbage, given
<1>6. CASE \E j \in Idx, n \in Ptrs : Reserve(t, j, n)
  BY <1>6 DEF Reserve, slots, blocks, garbage, given
<1> QED
  BY <1>1, <1>2, <1>3, <1>4, <1>5, <1>6 DEF PlainStep

\* Every block stays in its one place.
LEMMA PlacedNext ==
  ASSUME Inv, Placed, RetiredOnce, Swept, NEW t \in Tasks,
         SlowStep(t) \/ HelpStep(t) \/ ListStep(t) \/ PlainStep(t)
  PROVE  Placed' /\ RetiredOnce'
<1>1. TypeOK /\ ListInv
  BY DEF Inv, TypeInv, TypeOK, ListInv
<1>2. CASE AllocCount(t) \/ Add(t) \/ Remove(t)
  BY <1>1, <1>2, ClientStepInv
     DEF AllocCount, Add, Remove, ClientStep, ListInv, garbage
<1>3. CASE Retire(t)
  BY <1>1, <1>3, PushInv DEF Retire, ListInv
<1>4. CASE EmptyStarts(t) \/ Recheck(t)
  <2>1. {scan[t].obj} \in SUBSET retired[t]
    BY <1>4 DEF EmptyStarts, Recheck, Swept, Sweeping
  <2>2. Reclaim(t, {scan[t].obj}) \/ UNCHANGED <<clientVars, retired>>
    BY <1>4 DEF EmptyStarts, Recheck
  <2> QED
    BY <1>1, <2>1, <2>2, ReclaimInv, ListUnchanged DEF ListInv
<1>5. CASE UNCHANGED <<clientVars, retired>>
  BY <1>1, <1>5, ListUnchanged DEF ListInv
<1> QED
  BY <1>1, <1>2, <1>3, <1>4, <1>5, SlowKeeps, HelpKeeps, PlainKeeps DEF ListStep

-----------------------------------------------------------------------------
\* The steps that write no slot.
LEMMA OtherSlots ==
  ASSUME NEW t \in Tasks,
         SlowStep(t) \/ HelpStep(t) \/ ListStep(t) \/ PlainStep(t)
  PROVE  \/ reservations' = reservations
         \/ StoreEpoch(t) \/ SlowSlot(t) \/ SlowTake(t) \/ ClearSlot(t)
         \/ HelpParent(t) \/ HelpStore(t) \/ HelpSlot(t) \/ HelpRelease(t)
         \/ HelpClear(t)
<1>1. CASE SlowStart(t) \/ SlowPointer(t) \/ SlowEpoch(t) \/ SlowRequest(t)
  BY <1>1 DEF SlowStart, SlowPointer, SlowEpoch, SlowRequest, slots
<1>2. CASE SlowLoad(t) \/ SlowCheck(t) \/ SlowCas(t)
  BY <1>2 DEF SlowLoad, SlowCheck, SlowCas, slots
<1>3. CASE SlowResult(t) \/ SlowTag(t) \/ SlowEnd(t)
  BY <1>3 DEF SlowResult, SlowTag, SlowEnd, slots
<1>4. CASE HelpEnds(t) \/ HelpStarts(t) \/ HelpLook(t) \/ HelpEpoch(t)
  BY <1>4 DEF HelpEnds, HelpStarts, HelpLook, HelpEpoch, slots
<1>5. CASE HelpPointer(t) \/ HelpSeqno(t) \/ HelpFirst(t) \/ HelpLoad(t)
  BY <1>5 DEF HelpPointer, HelpSeqno, HelpFirst, HelpLoad, slots
<1>6. CASE HelpCheck(t) \/ HelpAgain(t) \/ HelpCas(t) \/ HelpOldTag(t)
           \/ HelpOldEpoch(t)
  BY <1>6 DEF HelpCheck, HelpAgain, HelpCas, HelpOldTag, HelpOldEpoch, slots
<1> QED
  BY <1>1, <1>2, <1>3, <1>4, <1>5, <1>6, ListFrame, PlainFrame
     DEF SlowStep, HelpStep

\* Every epoch that is stored was loaded before: those of the slots, ...
LEMMA SlotSource ==
  ASSUME TypeOK, NEW t \in Tasks,
         SlowStep(t) \/ HelpStep(t) \/ ListStep(t) \/ PlainStep(t),
         NEW u \in Tasks, NEW j \in AllIdx
  PROVE  reservations'[u][j] \in {reservations[u][j], 0, call[t].curr,
                                  help[t].prev, help[t].epoch}
<1>1. /\ reservations \in [Tasks -> [AllIdx -> Epochs]]
      /\ call[t].idx \in AllIdx /\ PARENT \in AllIdx /\ HELPED \in AllIdx
      /\ Who(t)[1] \in Tasks /\ Who(t)[2] \in AllIdx
  BY CallFields, HelpFields, Names DEF TypeOK
<1>2. CASE UNCHANGED reservations
  BY <1>2
<1>3. ASSUME NEW v \in Tasks, NEW k \in AllIdx,
             NEW e \in {0, call[t].curr, help[t].prev, help[t].epoch},
             reservations' = [reservations EXCEPT ![v][k] = e]
      PROVE  reservations'[u][j] \in {reservations[u][j], 0, call[t].curr,
                                      help[t].prev, help[t].epoch}
  BY <1>1, <1>3
<1>4. CASE StoreEpoch(t) \/ SlowSlot(t) \/ SlowTake(t)
  BY <1>1, <1>2, <1>3, <1>4 DEF StoreEpoch, SlowSlot, SlowTake
<1>5. CASE HelpParent(t) \/ HelpStore(t) \/ HelpRelease(t) \/ HelpClear(t)
  BY <1>1, <1>3, <1>5 DEF HelpParent, HelpStore, HelpRelease, HelpClear
<1>6. CASE HelpSlot(t)
  BY <1>1, <1>2, <1>3, <1>6 DEF HelpSlot, slots
<1>7. CASE ClearSlot(t)
  BY <1>1, <1>3, <1>7 DEF ClearSlot
<1> QED
  BY <1>2, <1>4, <1>5, <1>6, <1>7, OtherSlots

\* ... those of a call, ...
LEMMA CallSource ==
  ASSUME TypeOK, NEW t \in Tasks,
         SlowStep(t) \/ HelpStep(t) \/ ListStep(t) \/ PlainStep(t)
  PROVE  \/ call'[t].curr \in {call[t].curr, 0, epoch}
         \/ /\ states[t][call[t].idx].ptr # INVPTR
            /\ call'[t].curr = states[t][call[t].idx].stamp
<1>1. call \in [Tasks -> Calls] /\ call[t] \in Calls /\ NoCall.curr = 0
  BY DEF TypeOK, NoCall
<1>2. CASE UNCHANGED call
  BY <1>2
<1>3. CASE StoreEpoch(t) \/ SlowStart(t)
  BY <1>1, <1>3 DEF StoreEpoch, SlowStart, Calls
<1>4. CASE SlowPointer(t) \/ SlowEpoch(t) \/ SlowRequest(t) \/ SlowCas(t)
  BY <1>2, <1>4 DEF SlowPointer, SlowEpoch, SlowRequest, SlowCas
<1>5. CASE SlowLoad(t) \/ SlowCheck(t) \/ SlowSlot(t)
  BY <1>1, <1>5 DEF SlowLoad, SlowCheck, SlowSlot, Calls
<1>6. CASE SlowResult(t)
  BY <1>1, <1>6 DEF SlowResult, Calls
<1>7. CASE SlowTake(t) \/ SlowTag(t) \/ SlowEnd(t)
  BY <1>1, <1>7 DEF SlowTake, SlowTag, SlowEnd
<1>8. CASE AllocAdvance(t) \/ AllocBirth(t) \/ Clear(t) \/ CopySlot(t)
           \/ EmptyEnds(t) \/ EmptyDone(t)
  BY <1>2, <1>8
     DEF AllocAdvance, AllocBirth, Clear, CopySlot, EmptyEnds, EmptyDone
<1>9. CASE ReadLoad(t) \/ CheckSame(t) \/ CheckNew(t) \/ ClearSlot(t)
  BY <1>1, <1>9 DEF ReadLoad, CheckSame, CheckNew, ClearSlot, Calls
<1>10. CASE \/ \E c \in Cells, j \in Idx, n \in Ptrs : Read(t, c, j, n)
            \/ \E j \in Idx, n \in Ptrs : Reserve(t, j, n)
  <2>1. ASSUME NEW c \in Cells, NEW j \in Idx, NEW n \in Ptrs, Read(t, c, j, n)
        PROVE  call'[t].curr = 0
    <3>1. call'[t] = [NoCall EXCEPT !.op = "read", !.idx = j, !.cell = c,
                         !.node = n, !.ptr = cell[c], !.attempts = Attempts]
      BY <1>1, <2>1 DEF Read
    <3> QED
      BY <3>1 DEF NoCall
  <2>2. ASSUME NEW j \in Idx, NEW n \in Ptrs, Reserve(t, j, n) PROVE call'[t].curr = 0
    <3>1. call'[t] = [NoCall EXCEPT !.op = "reserve", !.idx = j, !.node = n,
                                    !.attempts = Attempts]
      BY <1>1, <2>2 DEF Reserve
    <3> QED
      BY <3>1 DEF NoCall
  <2> QED
    BY <1>10, <2>1, <2>2
<1> QED
  BY <1>2, <1>3, <1>4, <1>5, <1>6, <1>7, <1>8, <1>9, <1>10, HelpFrame, ListFrame
     DEF SlowStep, PlainStep

\* ... those of a helper, ...
LEMMA HelpSource ==
  ASSUME TypeOK, NEW t \in Tasks, HelpStep(t)
  PROVE  /\ help'[t].prev \in {help[t].prev, 0, epoch}
         /\ help'[t].epoch \in {help[t].epoch, 0,
                                states[Who(t)[1]][Who(t)[2]].epoch}
<1>1. /\ help \in [Tasks -> Helps] /\ help[t] \in Helps
      /\ NoHelp.prev = 0 /\ NoHelp.epoch = 0
      /\ \A k : [NoHelp EXCEPT !.pos = k].prev = 0
      /\ \A k : [NoHelp EXCEPT !.pos = k].epoch = 0
  BY DEF TypeOK, NoHelp
<1>2. CASE HelpEnds(t) \/ HelpStarts(t) \/ HelpEpoch(t) \/ HelpPointer(t)
  BY <1>1, <1>2 DEF HelpEnds, HelpStarts, HelpEpoch, HelpPointer, Helps
<1>3. CASE HelpParent(t) \/ HelpSeqno(t) \/ HelpStore(t) \/ HelpAgain(t)
           \/ HelpCas(t) \/ HelpRelease(t)
  BY <1>3 DEF HelpParent, HelpSeqno, HelpStore, HelpAgain, HelpCas, HelpRelease
<1>4. CASE HelpFirst(t) \/ HelpLoad(t) \/ HelpCheck(t)
  BY <1>1, <1>4 DEF HelpFirst, HelpLoad, HelpCheck, Helps
<1>5. CASE HelpOldTag(t) \/ HelpOldEpoch(t) \/ HelpSlot(t)
  BY <1>1, <1>5 DEF HelpOldTag, HelpOldEpoch, HelpSlot, Helps
<1>6. CASE HelpLook(t) \/ HelpClear(t)
  <2>1. \/ help'[t] = [help[t] EXCEPT !.last =
                           states[Who(t)[1]][Who(t)[2]].stamp]
        \/ help'[t] = [NoHelp EXCEPT !.pos = help[t].pos + 1]
        \/ help'[t] = NoHelp
    BY <1>1, <1>6 DEF HelpLook, HelpClear, NextSlot
  <2> QED
    BY <1>1, <2>1 DEF Helps
<1> QED
  BY <1>2, <1>3, <1>4, <1>5, <1>6 DEF HelpStep

\* ... and those of a request.  Only its owner names a node in it.
LEMMA RequestSource ==
  ASSUME TypeOK, NEW t \in Tasks,
         SlowStep(t) \/ HelpStep(t) \/ ListStep(t) \/ PlainStep(t),
         NEW u \in Tasks, NEW j \in Idx
  PROVE  /\ \/ states'[u][j].stamp = states[u][j].stamp
               /\ states'[u][j].ptr = states[u][j].ptr
            \/ SlowRequest(t) /\ states'[u][j].ptr = INVPTR
            \/ SlowCas(t) /\ states'[u][j].stamp = 0
            \/ HelpCas(t) /\ states'[u][j].stamp = help[t].prev
         /\ \/ /\ states'[u][j].node = states[u][j].node
               /\ states'[u][j].epoch = states[u][j].epoch
            \/ /\ SlowPointer(t) /\ u = t /\ j = call[t].idx
               /\ states'[u][j].node = call[t].node
               /\ states'[u][j].epoch = states[u][j].epoch
            \/ /\ SlowEpoch(t) /\ u = t /\ j = call[t].idx
               /\ states'[u][j].node = states[u][j].node
               /\ states'[u][j].epoch =
                     IF call[t].node = NULL THEN 0 ELSE birth[call[t].node]
<1>1. /\ states \in [Tasks -> [Idx -> Requests]]
      /\ \A v \in Tasks, k \in Idx : states[v][k] \in Requests
      /\ call[t].idx \in Idx /\ Who(t)[1] \in Tasks /\ Who(t)[2] \in Idx
  BY CallFields, HelpFields DEF TypeOK
<1>2. CASE UNCHANGED states
  BY <1>2
<1>3. CASE SlowPointer(t)
  <2>1. states' = [states EXCEPT ![t][call[t].idx].cell = call[t].cell,
                                 ![t][call[t].idx].node = call[t].node]
    BY <1>3 DEF SlowPointer
  <2>2. CASE u = t /\ j = call[t].idx
    <3>1. /\ states'[u][j].stamp = states[u][j].stamp
          /\ states'[u][j].ptr = states[u][j].ptr
          /\ states'[u][j].epoch = states[u][j].epoch
          /\ states'[u][j].node = call[t].node
      BY <1>1, <2>1, <2>2 DEF Requests
    <3> QED
      BY <1>3, <2>2, <3>1
  <2>3. CASE ~(u = t /\ j = call[t].idx)
    BY <1>1, <2>1, <2>3
  <2> QED
    BY <2>2, <2>3
<1>4. CASE SlowEpoch(t)
  <2> DEFINE e == IF call[t].node = NULL THEN 0 ELSE birth[call[t].node]
  <2>1. states' = [states EXCEPT ![t][call[t].idx].epoch = e]
    BY <1>4 DEF SlowEpoch
  <2>2. CASE u = t /\ j = call[t].idx
    <3>1. /\ states'[u][j].stamp = states[u][j].stamp
          /\ states'[u][j].ptr = states[u][j].ptr
          /\ states'[u][j].epoch = e
          /\ states'[u][j].node = states[u][j].node
      BY <1>1, <2>1, <2>2 DEF Requests
    <3> QED
      BY <1>4, <2>2, <3>1
  <2>3. CASE ~(u = t /\ j = call[t].idx)
    BY <1>1, <2>1, <2>3
  <2> QED
    BY <2>2, <2>3
<1>5. CASE SlowRequest(t)
  <2>1. states' = [states EXCEPT ![t][call[t].idx].ptr = INVPTR,
                                 ![t][call[t].idx].stamp = call[t].seqno]
    BY <1>5 DEF SlowRequest
  <2>2. CASE u = t /\ j = call[t].idx
    <3>1. /\ states'[u][j].ptr = INVPTR
          /\ states'[u][j].node = states[u][j].node
          /\ states'[u][j].epoch = states[u][j].epoch
      BY <1>1, <2>1, <2>2 DEF Requests
    <3> QED
      BY <1>5, <3>1
  <2>3. CASE ~(u = t /\ j = call[t].idx)
    BY <1>1, <2>1, <2>3
  <2> QED
    BY <2>2, <2>3
<1>6. CASE SlowCas(t) /\ ~UNCHANGED states
  <2>1. states' = [states EXCEPT ![t][call[t].idx].ptr = NULL,
                                 ![t][call[t].idx].stamp = 0]
    BY <1>6 DEF SlowCas
  <2>2. CASE u = t /\ j = call[t].idx
    <3>1. /\ states'[u][j].stamp = 0
          /\ states'[u][j].node = states[u][j].node
          /\ states'[u][j].epoch = states[u][j].epoch
      BY <1>1, <2>1, <2>2 DEF Requests
    <3> QED
      BY <1>6, <3>1
  <2>3. CASE ~(u = t /\ j = call[t].idx)
    BY <1>1, <2>1, <2>3
  <2> QED
    BY <2>2, <2>3
<1>7. CASE HelpCas(t) /\ ~UNCHANGED states
  <2>1. states' = [states EXCEPT ![Who(t)[1]][Who(t)[2]].ptr = help[t].ptr,
                                 ![Who(t)[1]][Who(t)[2]].stamp = help[t].prev]
    BY <1>7 DEF HelpCas
  <2>2. CASE u = Who(t)[1] /\ j = Who(t)[2]
    <3>1. /\ states'[u][j].stamp = help[t].prev
          /\ states'[u][j].node = states[u][j].node
          /\ states'[u][j].epoch = states[u][j].epoch
      BY <1>1, <2>1, <2>2 DEF Requests
    <3> QED
      BY <1>7, <3>1
  <2>3. CASE ~(u = Who(t)[1] /\ j = Who(t)[2])
    BY <1>1, <2>1, <2>3
  <2> QED
    BY <2>2, <2>3
<1>8. CASE SlowStep(t) /\ ~(SlowPointer(t) \/ SlowEpoch(t) \/ SlowRequest(t)
                            \/ SlowCas(t))
  <2>1. CASE StoreEpoch(t) \/ SlowStart(t) \/ SlowLoad(t) \/ SlowCheck(t)
    BY <1>2, <2>1 DEF StoreEpoch, SlowStart, SlowLoad, SlowCheck
  <2>2. CASE SlowSlot(t) \/ SlowResult(t) \/ SlowTake(t) \/ SlowTag(t)
             \/ SlowEnd(t)
    BY <1>2, <2>2 DEF SlowSlot, SlowResult, SlowTake, SlowTag, SlowEnd
  <2> QED
    BY <1>8, <2>1, <2>2 DEF SlowStep
<1>9. CASE HelpStep(t) /\ ~HelpCas(t)
  <2>1. CASE HelpEnds(t) \/ HelpStarts(t) \/ HelpLook(t) \/ HelpEpoch(t)
             \/ HelpParent(t) \/ HelpPointer(t) \/ HelpSeqno(t)
    BY <1>2, <2>1
       DEF HelpEnds, HelpStarts, HelpLook, HelpEpoch, HelpParent, HelpPointer,
           HelpSeqno
  <2>2. CASE HelpFirst(t) \/ HelpStore(t) \/ HelpLoad(t) \/ HelpCheck(t)
             \/ HelpAgain(t)
    BY <1>2, <2>2 DEF HelpFirst, HelpStore, HelpLoad, HelpCheck, HelpAgain
  <2>3. CASE HelpOldTag(t) \/ HelpOldEpoch(t) \/ HelpSlot(t)
             \/ HelpRelease(t) \/ HelpClear(t)
    BY <1>2, <2>3
       DEF HelpOldTag, HelpOldEpoch, HelpSlot, HelpRelease, HelpClear
  <2> QED
    BY <1>9, <2>1, <2>2, <2>3 DEF HelpStep
<1> QED
  BY <1>2, <1>3, <1>4, <1>5, <1>6, <1>7, <1>8, <1>9, ListFrame, PlainFrame

\* The epochs are numbers, and the global one only grows.
LEMMA EpochStep ==
  ASSUME Inv, NEW t \in Tasks,
         SlowStep(t) \/ HelpStep(t) \/ ListStep(t) \/ PlainStep(t)
  PROVE  /\ Epochs \subseteq Nat /\ epoch \in Nat
         /\ epoch' = epoch \/ (epoch' = epoch + 1 /\ AllocAdvance(t))
<1>1. TypeOK /\ Epochs \subseteq Nat /\ epoch \in Nat
  BY ParamAssumption DEF Inv, TypeInv, TypeOK, Epochs
<1>2. AllocAdvance(t) => epoch' = epoch + 1
  BY DEF AllocAdvance
<1>3. CASE SlowStep(t) \/ HelpStep(t)
  BY <1>1, <1>3, SlowKeeps, HelpKeeps
<1>4. CASE ListStep(t)
  BY <1>1, <1>4, ListFrame
<1>5. CASE PlainStep(t)
  BY <1>1, <1>2, <1>5, PlainFrame
<1> QED
  BY <1>3, <1>4, <1>5

LEMMA ClockNext ==
  ASSUME Inv, Placed, Clock, NEW t \in Tasks,
         SlowStep(t) \/ HelpStep(t) \/ ListStep(t) \/ PlainStep(t)
  PROVE  Clock'
<1>1. TypeOK
  BY DEF Inv, TypeInv
<1>2. /\ Epochs \subseteq Nat /\ epoch \in Nat /\ epoch >= 1
      /\ epoch' \in Nat /\ epoch' >= epoch
  BY EpochStep DEF Clock, ClockSlots
<1>3. ClockSlots'
  <2> SUFFICES ASSUME NEW u \in Tasks, NEW j \in AllIdx
               PROVE  reservations'[u][j] <= epoch'
    BY <1>2 DEF ClockSlots
  <2>1. /\ reservations[u][j] \in Nat /\ call[t].curr \in Nat
        /\ help[t].prev \in Nat /\ help[t].epoch \in Nat
    BY <1>1, <1>2, CallFields, HelpFields, ZenonT(40) DEF TypeOK
  <2>2. /\ reservations[u][j] <= epoch /\ call[t].curr <= epoch
        /\ help[t].prev <= epoch /\ help[t].epoch <= epoch
    BY DEF Clock, ClockSlots, ClockLocals
  <2>3. reservations'[u][j] \in {reservations[u][j], 0, call[t].curr,
                                 help[t].prev, help[t].epoch}
    BY <1>1, SlotSource
  <2> QED
    BY <1>2, <2>1, <2>2, <2>3
<1>4. ClockLocals'
  <2> SUFFICES ASSUME NEW u \in Tasks
               PROVE  /\ call'[u].curr <= epoch' /\ help'[u].prev <= epoch'
                      /\ help'[u].epoch <= epoch'
    BY DEF ClockLocals
  <2>1. /\ call[u].curr \in Nat /\ help[u].prev \in Nat /\ help[u].epoch \in Nat
        /\ call[u].curr <= epoch /\ help[u].prev <= epoch
        /\ help[u].epoch <= epoch
    BY <1>1, <1>2, CallFields, HelpFields DEF Clock, ClockLocals
  <2>2. CASE u # t
    <3>1. call'[u] = call[u] /\ help'[u] = help[u]
      BY <1>1, <2>2, StepKeeps DEF Kept
    <3> QED
      BY <1>2, <2>1, <3>1
  <2>3. CASE u = t
    <3>1. call'[t].curr <= epoch'
      <4>1. call[t].idx \in Idx
        BY <1>1, CallFields
      <4>2. CASE call'[t].curr \in {call[t].curr, 0, epoch}
        BY <1>2, <2>1, <2>3, <4>2
      <4>3. CASE /\ states[t][call[t].idx].ptr # INVPTR
                 /\ call'[t].curr = states[t][call[t].idx].stamp
        <5>1. states[t][call[t].idx].stamp \in Epochs
          BY <4>1, <4>3 DEF Inv, TypeInv, Requested
        <5>2. states[t][call[t].idx].stamp <= epoch
          BY <4>1, <4>3 DEF Clock, ClockStates
        <5>3. states[t][call[t].idx].stamp \in Nat
          BY <1>2, <5>1
        <5>4. call'[t].curr \in Nat /\ call'[t].curr <= epoch
          BY <4>3, <5>2, <5>3
        <5> QED
          BY <1>2, <5>4
      <4> QED
        BY <1>1, <4>2, <4>3, CallSource
    <3>2. help'[t].prev <= epoch' /\ help'[t].epoch <= epoch'
      <4>1. CASE HelpStep(t)
        <5> DEFINE r == states[Who(t)[1]][Who(t)[2]]
        <5>1. r.epoch \in Nat /\ r.epoch <= epoch
          BY <1>1, <1>2, HelpFields, RequestFields DEF Clock, ClockStates
        <5>2. /\ help'[t].prev \in {help[t].prev, 0, epoch}
              /\ help'[t].epoch \in {help[t].epoch, 0, r.epoch}
          BY <1>1, <4>1, HelpSource
        <5> QED
          BY <1>2, <2>1, <2>3, <5>1, <5>2
      <4>2. CASE ~HelpStep(t)
        <5>1. help' = help
          BY <4>2, SlowFrame, ListFrame, PlainFrame
        <5> QED
          BY <1>2, <2>1, <2>3, <5>1
      <4> QED
        BY <4>1, <4>2
    <3> QED
      BY <2>3, <3>1, <3>2
  <2> QED
    BY <2>2, <2>3
<1>5. ClockStates'
  <2> SUFFICES ASSUME NEW u \in Tasks, NEW j \in Idx
               PROVE  /\ states'[u][j].epoch <= epoch'
                      /\ states'[u][j].ptr # INVPTR => states'[u][j].stamp <= epoch'
    BY DEF ClockStates
  <2>1. /\ states[u][j].epoch \in Nat /\ states[u][j].epoch <= epoch
        /\ states[u][j].ptr # INVPTR => /\ states[u][j].stamp <= epoch
                                        /\ states[u][j].stamp \in Nat
        /\ help[t].prev \in Nat /\ help[t].prev <= epoch
    BY <1>1, <1>2, RequestFields, HelpFields
       DEF Clock, ClockStates, ClockLocals, Inv, TypeInv, Requested
  <2>2. states'[u][j].epoch <= epoch'
    <3>1. CASE states'[u][j].epoch = states[u][j].epoch
      BY <1>2, <2>1, <3>1
    <3>2. CASE states'[u][j].epoch =
                  IF call[t].node = NULL THEN 0 ELSE birth[call[t].node]
      <4>1. CASE call[t].node = NULL
        BY <1>2, <3>2, <4>1
      <4>2. CASE call[t].node # NULL
        <5>1. call[t].node \in Objs
          BY <1>1, <4>2, CallFields DEF Ptrs
        <5>2. birth[call[t].node] \in Nat /\ birth[call[t].node] <= epoch
          BY <1>1, <1>2, <5>1 DEF TypeOK, Clock, ClockBlocks
        <5> QED
          BY <1>2, <3>2, <4>2, <5>2
      <4> QED
        BY <4>1, <4>2
    <3> QED
      BY <1>1, <3>1, <3>2, RequestSource
  <2>3. states'[u][j].ptr # INVPTR => states'[u][j].stamp <= epoch'
    <3>1. \/ states'[u][j].stamp = states[u][j].stamp
             /\ states'[u][j].ptr = states[u][j].ptr
          \/ states'[u][j].ptr = INVPTR
          \/ states'[u][j].stamp = 0
          \/ states'[u][j].stamp = help[t].prev
      BY <1>1, RequestSource
    <3> QED
      BY <1>2, <2>1, <3>1
  <2> QED
    BY <2>2, <2>3
<1>6. ClockBlocks'
  <2>0. /\ mine \in [Tasks -> Ptrs] /\ status \in [Objs -> Status]
        /\ victim \in [Tasks -> Ptrs] /\ cell \in [Cells -> Ptrs]
        /\ birth \in [Objs -> Epochs] /\ pc \in [Tasks -> PC]
        /\ ClockBlocks
    BY <1>1 DEF TypeOK, ListTypeOK, ClientTypeOK, Clock
  <2>1. CASE AllocBirth(t)
    <3>1. UNCHANGED <<status, mine>> /\ birth' = [birth EXCEPT ![mine[t]] = epoch]
          /\ pc' = [pc EXCEPT ![t] = "idle"] /\ epoch' = epoch
      BY <2>1 DEF AllocBirth, clientVars, Goto
    <3>2. mine[t] \in Objs
      BY <2>0, <2>1 DEF AllocBirth, Inv, TypeInv, Counted, Ptrs
    <3>3. \A o \in Objs :
             /\ birth'[o] <= epoch'
             /\ status'[o] \notin {"free", "private"} => birth'[o] >= 1
      BY <1>2, <2>0, <3>1, <3>2 DEF ClockBlocks
    <3>4. ASSUME NEW u \in Tasks, mine'[u] # NULL
          PROVE  \/ birth'[mine'[u]] >= 1
                 \/ pc'[u] \in HelpPC \union {"advance", "birth"}
      <4>1. mine[u] \in Objs
        BY <2>0, <3>1, <3>4 DEF Ptrs
      <4> QED
        BY <1>2, <2>0, <3>1, <3>2, <3>4, <4>1 DEF ClockBlocks
    <3> QED
      BY <3>3, <3>4 DEF ClockBlocks
  <2>2. CASE ~AllocBirth(t)
    <3>1. birth' = birth
      BY <2>2, SlowFrame, HelpFrame, ListFrame, PlainFrame
    <3>2. ASSUME NEW o \in Objs, status'[o] \notin {"free", "private"}
          PROVE  birth[o] >= 1
      <4>1. CASE status[o] \notin {"free", "private"}
        BY <2>0, <4>1 DEF ClockBlocks
      <4>2. CASE status[o] \in {"free", "private"}
        <5>1. status'[o] # status[o]
          BY <3>2, <4>2
        <5>2. ListStep(t)
          BY <1>1, <5>1, SlowKeeps, HelpKeeps, PlainKeeps DEF clientVars
        <5>3. Add(t) /\ \E c \in Cells : Link(t, c)
          <6>1. ~AllocCount(t)
            BY <2>0, <3>2, <5>1 DEF AllocCount, Malloc
          <6>2. ~Remove(t)
            BY <2>0, <4>2, <5>1 DEF Remove, Unlink, Placed
          <6>3. ~Retire(t)
            BY <2>0, <4>2, <5>1 DEF Retire, Push, HandOver, Placed
          <6>4. ~EmptyStarts(t) /\ ~Recheck(t)
            BY <2>0, <3>2, <5>1
               DEF EmptyStarts, Recheck, Reclaim, Free, clientVars
          <6>5. Add(t)
            BY <5>2, <6>1, <6>2, <6>3, <6>4 DEF ListStep
          <6>6. ~Discard(t)
            BY <2>0, <3>2, <5>1 DEF Discard
          <6> QED
            BY <6>5, <6>6 DEF Add
        <5>4. o = mine[t] /\ mine[t] # NULL /\ pc[t] = "idle"
          BY <2>0, <5>1, <5>3 DEF Link, Add
        <5> QED
          BY <2>0, <5>4 DEF ClockBlocks, HelpPC
      <4> QED
        BY <4>1, <4>2
    <3>3. ASSUME NEW u \in Tasks, mine'[u] # NULL
          PROVE  \/ birth[mine'[u]] >= 1
                 \/ pc'[u] \in HelpPC \union {"advance", "birth"}
      <4>1. CASE u # t
        BY <1>1, <2>0, <3>3, <4>1, StepKeeps DEF Kept, ClockBlocks
      <4>2. CASE u = t /\ AllocCount(t)
        BY <2>0, <4>2 DEF AllocCount, Goto, HelpPC
      <4>3. CASE u = t /\ ListStep(t) /\ ~AllocCount(t)
        <5>1. mine'[t] = mine[t] \/ mine'[t] = NULL
          <6>1. Add(t) => mine'[t] = mine[t] \/ mine'[t] = NULL
            BY <2>0 DEF Add, Discard, Link
          <6>2. Remove(t) \/ Retire(t) => mine' = mine
            BY DEF Remove, Unlink, Retire, Push, HandOver
          <6>3. EmptyStarts(t) \/ Recheck(t) => mine' = mine
            BY DEF EmptyStarts, Recheck, Reclaim, Free, clientVars
          <6> QED
            BY <4>3, <6>1, <6>2, <6>3 DEF ListStep
        <5>2. pc[t] \in {"idle", "starts", "recheck"}
          BY <1>1, <4>3, ListKeeps
        <5> QED
          BY <2>0, <3>3, <4>3, <5>1, <5>2 DEF ClockBlocks, HelpPC
      <4>4. CASE u = t /\ ~ListStep(t)
        <5>1. mine' = mine
          BY <1>1, <4>4, SlowKeeps, HelpKeeps, PlainKeeps DEF clientVars
        <5>2. pc[t] \in HelpPC \union {"advance", "birth"} =>
                 pc'[t] \in HelpPC \union {"advance", "birth"}
          <6>1. SlowStep(t) => pc[t] \notin HelpPC \union {"advance", "birth"}
            BY <1>1, SlowKeeps DEF Slow, SlowPC, HelpPC
          <6>2. HelpStep(t) => pc'[t] \in HelpPC \union {"advance"}
            BY <1>1, HelpKeeps
          <6>3. PlainStep(t) /\ pc[t] = "birth" => AllocBirth(t)
            BY DEF PlainStep, AllocAdvance, ReadLoad, CheckSame, CheckNew,
                   Clear, ClearSlot, CopySlot, EmptyEnds, EmptyDone, Read, Reserve
          <6>4. PlainStep(t) /\ pc[t] = "advance" => pc'[t] = "birth"
            BY <1>1, PlainKeeps
          <6>5. PlainStep(t) => pc[t] \notin HelpPC
            BY <1>1, PlainKeeps DEF HelpPC
          <6> QED
            BY <2>2, <4>4, <6>1, <6>2, <6>3, <6>4, <6>5
        <5> QED
          BY <2>0, <3>3, <4>4, <5>1, <5>2 DEF ClockBlocks
      <4> QED
        BY <4>1, <4>2, <4>3, <4>4
    <3>4. \A o \in Objs : birth[o] <= epoch'
      <4>1. \A o \in Objs : birth[o] \in Nat
        BY <1>2, <2>0
      <4> QED
        BY <1>2, <2>0, <4>1 DEF ClockBlocks
    <3> QED
      BY <3>1, <3>2, <3>3, <3>4 DEF ClockBlocks
  <2> QED
    BY <2>1, <2>2
<1> QED
  BY <1>3, <1>4, <1>5, <1>6 DEF Clock

\* Only empty takes blocks off a list, those of its own thread.
LEMMA SweptNext ==
  ASSUME Inv, Placed, RetiredOnce, Swept, NEW t \in Tasks,
         SlowStep(t) \/ HelpStep(t) \/ ListStep(t) \/ PlainStep(t)
  PROVE  Swept'
<1>1. TypeOK
  BY DEF Inv, TypeInv
<1>2. /\ retired \in [Tasks -> SUBSET Objs] /\ scan \in [Tasks -> Scans]
      /\ local \in [Tasks -> [Tasks -> [1 .. PARENT -> Epochs]]]
      /\ pc \in [Tasks -> PC] /\ mine \in [Tasks -> Ptrs]
      /\ victim \in [Tasks -> Ptrs] /\ birth \in [Objs -> Epochs]
      /\ retireEpoch \in [Objs -> Epochs]
      /\ NoScan.todo = {} /\ scan[t] \in Scans
  BY <1>1 DEF TypeOK, ListTypeOK, ClientTypeOK, NoScan
<1>3. ASSUME NEW u \in Tasks, NEW o \in retired[u]
      PROVE  birth'[o] = birth[o] /\ retireEpoch'[o] = retireEpoch[o]
  <2>1. status[o] = "retired" /\ o \in Objs
    BY <1>2, <1>3 DEF RetiredOnce
  <2>2. CASE AllocBirth(t)
    <3>1. o # mine[t]
      BY <2>1, ClientAssumption DEF Placed
    <3> QED
      BY <1>2, <2>2, <3>1 DEF AllocBirth, blocks
  <2>3. CASE Retire(t)
    <3>1. o # victim[t]
      BY <2>1, ClientAssumption DEF Placed
    <3> QED
      BY <1>2, <2>3, <3>1 DEF Retire
  <2>4. CASE ~AllocBirth(t) /\ ~Retire(t)
    <3>1. birth' = birth
      BY <2>4, SlowFrame, HelpFrame, ListFrame, PlainFrame
    <3>2. ListStep(t) => retireEpoch' = retireEpoch
      BY <2>4 DEF ListStep, AllocCount, Add, Remove, EmptyStarts, Recheck, blocks
    <3> QED
      BY <3>1, <3>2, SlowFrame, HelpFrame, PlainFrame
  <2> QED
    BY <2>2, <2>3, <2>4
<1>4. \A u \in Tasks : \A o \in retired[u] :
         CanDelete(u, o) /\ local'[u] = local[u] => CanDelete(u, o)'
  BY <1>3 DEF CanDelete, Outside
<1>5. ASSUME NEW u \in Tasks, scan'[u] = scan[u], local'[u] = local[u],
             retired'[u] = retired[u], pc'[u] = pc[u]
      PROVE  /\ pc'[u] \notin Sweeping \union {"copy"} => scan'[u] = NoScan
             /\ pc'[u] \in Sweeping => scan'[u].todo \subseteq retired'[u]
             /\ pc'[u] \in {"starts", "recheck"} =>
                   /\ scan'[u].obj \in scan'[u].todo
                   /\ \A o \in Objs : scan'[u].obj = o => CanDelete(u, o)'
  BY <1>4, <1>5 DEF Swept, Sweeping
<1>6. ASSUME NEW u \in Tasks, u # t
      PROVE  scan'[u] = scan[u] /\ local'[u] = local[u] /\ retired'[u] = retired[u]
             /\ pc'[u] = pc[u]
  <2>1. pc'[u] = pc[u]
    BY <1>1, <1>6, StepKeeps DEF Kept
  <2>2. CASE SlowStep(t) \/ HelpStep(t)
    BY <1>1, <2>1, <2>2, SlowFrame, HelpFrame, SlowKeeps, HelpKeeps
  <2>3. CASE ListStep(t)
    BY <1>2, <1>6, <2>1, <2>3
       DEF ListStep, AllocCount, Add, Remove, Retire, Push, EmptyStarts, Recheck,
           Reclaim, NextBlock, garbage
  <2>4. CASE PlainStep(t)
    <3>1. CASE CopySlot(t) \/ EmptyEnds(t) \/ EmptyDone(t)
      BY <1>2, <1>6, <2>1, <3>1 DEF CopySlot, EmptyEnds, EmptyDone, garbage
    <3>2. CASE ~(CopySlot(t) \/ EmptyEnds(t) \/ EmptyDone(t))
      BY <2>1, <2>4, <3>2, PlainFrame
    <3> QED
      BY <2>4, <3>1, <3>2, PlainFrame
  <2> QED
    BY <2>2, <2>3, <2>4
<1>7. /\ pc'[t] \notin Sweeping \union {"copy"} => scan'[t] = NoScan
      /\ pc'[t] \in Sweeping => scan'[t].todo \subseteq retired'[t]
      /\ pc'[t] \in {"starts", "recheck"} =>
            /\ scan'[t].obj \in scan'[t].todo
            /\ \A o \in Objs : scan'[t].obj = o => CanDelete(t, o)'
  <2>1. CASE SlowStep(t) \/ HelpStep(t)
    <3>1. pc[t] \notin Sweeping \union {"copy"} /\ pc'[t] \notin Sweeping \union {"copy"}
      BY <1>1, <2>1, SlowKeeps, HelpKeeps DEF Slow, SlowPC, HelpPC, Sweeping
    <3> QED
      BY <2>1, <3>1, SlowFrame, HelpFrame DEF Swept, Sweeping
  <2>2. CASE AllocCount(t) \/ Add(t) \/ Remove(t) \/ Retire(t)
    <3>1. pc[t] = "idle" /\ scan' = scan /\ pc'[t] \notin Sweeping
      BY <1>2, <2>2 DEF AllocCount, Add, Remove, Retire, Goto, Sweeping
    <3> QED
      BY <3>1 DEF Swept, Sweeping
  <2>3. CASE EmptyStarts(t) \/ Recheck(t)
    <3>1. CASE /\ UNCHANGED <<retired, local>>
               /\ scan'[t].todo = scan[t].todo /\ scan'[t].obj = scan[t].obj
               /\ pc'[t] = "recheck"
      BY <1>4, <2>3, <3>1 DEF EmptyStarts, Recheck, Swept, Sweeping
    <3>2. CASE NextBlock(t) /\ (Reclaim(t, {scan[t].obj}) \/ retired' = retired)
      <4>1. /\ pc'[t] = "ends"
            /\ scan'[t] = [NoScan EXCEPT !.todo = scan[t].todo \ {scan[t].obj}]
        BY <1>2, <3>2 DEF NextBlock, Goto
      <4>2. scan'[t].todo = scan[t].todo \ {scan[t].obj}
        BY <4>1 DEF NoScan
      <4>3. retired[t] \ {scan[t].obj} \subseteq retired'[t]
        BY <1>2, <3>2 DEF Reclaim
      <4>4. scan[t].todo \subseteq retired[t]
        BY <2>3 DEF EmptyStarts, Recheck, Swept, Sweeping
      <4> QED
        BY <4>1, <4>2, <4>3, <4>4 DEF Sweeping
    <3>3. CASE EmptyStarts(t)
      <4>1. CASE NextBlock(t) /\ Reclaim(t, {scan[t].obj})
        BY <3>2, <4>1
      <4>2. CASE Goto(t, "recheck") /\ UNCHANGED <<clientVars, retired, scan>>
        BY <1>2, <3>1, <3>3, <4>2 DEF Goto, EmptyStarts
      <4> QED
        BY <3>3, <4>1, <4>2 DEF EmptyStarts
    <3>4. CASE Recheck(t)
      <4>1. CASE NextBlock(t) /\ (Reclaim(t, {scan[t].obj})
                                  \/ UNCHANGED <<clientVars, retired>>)
        BY <3>2, <4>1
      <4>2. CASE /\ scan' = [scan EXCEPT ![t].pos = @ + 1]
                 /\ UNCHANGED <<clientVars, retired, pc>>
        <5>1. scan'[t].todo = scan[t].todo /\ scan'[t].obj = scan[t].obj
          BY <1>2, <4>2 DEF Scans
        <5> QED
          BY <1>2, <3>1, <3>4, <4>2, <5>1 DEF Recheck
      <4> QED
        BY <3>4, <4>1, <4>2 DEF Recheck
    <3> QED
      BY <2>3, <3>3, <3>4
  <2>4. CASE CopySlot(t)
    <3>1. pc[t] = "copy" /\ retired' = retired
      BY <2>4 DEF CopySlot
    <3>2. CASE pc' = pc
      BY <3>1, <3>2 DEF Sweeping
    <3>3. CASE /\ Goto(t, "ends")
               /\ scan' = [scan EXCEPT ![t] = [NoScan EXCEPT !.todo = retired[t]]]
      <4>1. pc'[t] = "ends" /\ scan'[t] = [NoScan EXCEPT !.todo = retired[t]]
        BY <1>2, <3>3 DEF Goto
      <4>2. scan'[t].todo = retired[t]
        BY <4>1 DEF NoScan
      <4> QED
        BY <3>1, <4>1, <4>2 DEF Sweeping
    <3> QED
      BY <2>4, <3>2, <3>3 DEF CopySlot
  <2>5. CASE EmptyEnds(t)
    <3>1. PICK o \in scan[t].todo :
            \/ /\ CanDelete(t, o)
               /\ scan' = [scan EXCEPT ![t].obj = o, ![t].ends = counterEnd]
               /\ Goto(t, "starts")
            \/ /\ ~CanDelete(t, o)
               /\ scan' = [scan EXCEPT ![t].todo = @ \ {o}]
               /\ UNCHANGED pc
      BY <2>5 DEF EmptyEnds
    <3>2. /\ pc[t] = "ends" /\ scan[t].todo \subseteq retired[t]
          /\ UNCHANGED <<retired, local>>
      BY <2>5 DEF EmptyEnds, garbage, Swept, Sweeping
    <3>3. CASE /\ CanDelete(t, o)
               /\ scan' = [scan EXCEPT ![t].obj = o, ![t].ends = counterEnd]
               /\ Goto(t, "starts")
      <4>1. scan'[t].obj = o /\ scan'[t].todo = scan[t].todo
        BY <1>2, <3>3 DEF Scans
      <4>2. CanDelete(t, o)'
        BY <1>4, <3>2, <3>3
      <4>3. pc'[t] = "starts"
        BY <1>2, <3>3 DEF Goto
      <4> QED
        BY <3>2, <4>1, <4>2, <4>3 DEF Sweeping
    <3>4. CASE scan' = [scan EXCEPT ![t].todo = @ \ {o}] /\ UNCHANGED pc
      <4>1. scan'[t].todo = scan[t].todo \ {o}
        BY <1>2, <3>4 DEF Scans
      <4> QED
        BY <3>2, <3>4, <4>1 DEF Sweeping
    <3> QED
      BY <3>1, <3>3, <3>4
  <2>6. CASE EmptyDone(t)
    BY <1>2, <2>6 DEF EmptyDone, Goto, Sweeping
  <2>7. CASE PlainStep(t) /\ ~(CopySlot(t) \/ EmptyEnds(t) \/ EmptyDone(t))
    <3>1. UNCHANGED <<local, scan, retired>>
      BY <2>7, PlainFrame
    <3>2. pc'[t] \notin Sweeping \union {"copy"} /\ pc[t] \notin Sweeping \union {"copy"}
      <4>1. CASE AllocAdvance(t) \/ AllocBirth(t) \/ ReadLoad(t) \/ CheckSame(t)
                 \/ CheckNew(t) \/ Clear(t)
        BY <1>2, <4>1
           DEF AllocAdvance, AllocBirth, ReadLoad, CheckSame, CheckNew, Clear,
               Goto, Sweeping
      <4>2. CASE ClearSlot(t)
        BY <1>2, <4>2 DEF ClearSlot, Goto, Sweeping
      <4>3. CASE \/ \E c \in Cells, j \in Idx, n \in Ptrs : Read(t, c, j, n)
                 \/ \E j \in Idx, n \in Ptrs : Reserve(t, j, n)
        BY <1>2, <4>3 DEF Read, Reserve, Goto, Sweeping
      <4> QED
        BY <2>7, <4>1, <4>2, <4>3 DEF PlainStep
    <3> QED
      BY <3>1, <3>2 DEF Swept, Sweeping
  <2> QED
    BY <2>1, <2>2, <2>3, <2>4, <2>5, <2>6, <2>7 DEF ListStep, PlainStep
<1>8. ASSUME NEW u \in Tasks
      PROVE  /\ pc'[u] \notin Sweeping \union {"copy"} => scan'[u] = NoScan
             /\ pc'[u] \in Sweeping => scan'[u].todo \subseteq retired'[u]
             /\ pc'[u] \in {"starts", "recheck"} =>
                   /\ scan'[u].obj \in scan'[u].todo
                   /\ \A o \in Objs : scan'[u].obj = o => CanDelete(u, o)'
  <2>1. CASE u = t
    BY <1>7, <2>1
  <2>2. CASE u # t
    BY <1>5, <1>6, <2>2
  <2> QED
    BY <2>1, <2>2
<1> QED
  BY <1>8 DEF Swept

-----------------------------------------------------------------------------
\* Two numbers of the loops over threads and slots name two slots.
LEMMA SlotAtOnce ==
  ASSUME NEW k \in 1 .. OwnSlots, NEW l \in 1 .. OwnSlots, SlotAt(k) = SlotAt(l)
  PROVE  k = l
<1>1. /\ HENum \in Nat /\ HENum > 0 /\ k \in Int /\ l \in Int
      /\ k >= 1 /\ l >= 1
  BY ParamAssumption, Names
<1>2. PICK q \in Int, r \in Int :
        /\ q = (k - 1) \div HENum /\ r = (k - 1) % HENum
        /\ k - 1 = HENum * q + r
  BY <1>1
<1>3. PICK p \in Int, s \in Int :
        /\ p = (l - 1) \div HENum /\ s = (l - 1) % HENum
        /\ l - 1 = HENum * p + s
  BY <1>1
<1>4. q + 1 = p + 1 /\ r + 1 = s + 1
  BY <1>2, <1>3 DEF SlotAt
<1>5. q = p /\ r = s
  BY <1>4
<1> QED
  BY <1>1, <1>2, <1>3, <1>5

LEMMA CopyAtOnce ==
  ASSUME NEW k \in 1 .. LastSlot, NEW l \in 1 .. LastSlot, CopyAt(k) = CopyAt(l)
  PROVE  k = l
<1>1. OwnSlots \in Nat /\ TaskNum \in Nat /\ k \in Int /\ l \in Int
      /\ k >= 1 /\ l >= 1
  BY Names DEF LastSlot
<1>2. \A m \in 1 .. LastSlot :
         IF m <= OwnSlots THEN m \in 1 .. OwnSlots /\ CopyAt(m)[2] \in Idx
         ELSE CopyAt(m) = <<m - OwnSlots, PARENT>>
  BY <1>1, SlotAtType DEF CopyAt, LastSlot
<1>3. PARENT \notin Idx
  BY ParamAssumption DEF PARENT, Idx
<1>4. CASE k <= OwnSlots /\ l <= OwnSlots
  <2>1. SlotAt(k) = SlotAt(l)
    BY <1>4 DEF CopyAt
  <2>2. k \in 1 .. OwnSlots /\ l \in 1 .. OwnSlots
    BY <1>1, <1>4
  <2> QED
    BY <2>1, <2>2, SlotAtOnce
<1>5. CASE ~(k <= OwnSlots) /\ ~(l <= OwnSlots)
  BY <1>1, <1>2, <1>5
<1>6. CASE (k <= OwnSlots) /\ ~(l <= OwnSlots)
  BY <1>2, <1>3, <1>6
<1>7. CASE ~(k <= OwnSlots) /\ (l <= OwnSlots)
  BY <1>2, <1>3, <1>7
<1> QED
  BY <1>4, <1>5, <1>6, <1>7

\* Every slot for reads and every parent slot is copied, the former first.
LEMMA CopyAtOnto ==
  ASSUME NEW t \in Tasks, NEW j \in 1 .. PARENT
  PROVE  \E k \in 1 .. LastSlot :
            CopyAt(k) = <<t, j>> /\ (k <= OwnSlots <=> j \in Idx)
<1>1. /\ OwnSlots \in Nat /\ TaskNum \in Nat /\ HENum \in Nat
      /\ PARENT = HENum + 1
  BY Names, ParamAssumption DEF PARENT
<1>2. CASE j \in Idx
  <2>1. PICK k \in 1 .. OwnSlots : SlotAt(k) = <<t, j>>
    BY <1>2, SlotAtOnto
  <2>2. k \in 1 .. LastSlot /\ k <= OwnSlots
    BY <1>1, <2>1 DEF LastSlot
  <2> QED
    BY <1>2, <2>1, <2>2 DEF CopyAt
<1>3. CASE j \notin Idx
  <2>1. j = PARENT
    BY <1>1, <1>3 DEF Idx
  <2>2. /\ OwnSlots + t \in 1 .. LastSlot /\ ~(OwnSlots + t <= OwnSlots)
        /\ (OwnSlots + t) - OwnSlots = t
    BY <1>1 DEF LastSlot, Tasks
  <2>3. CopyAt(OwnSlots + t) = <<t, PARENT>>
    BY <2>2 DEF CopyAt
  <2> QED
    BY <1>3, <2>1, <2>2, <2>3
<1> QED
  BY <1>2, <1>3

-----------------------------------------------------------------------------
\* What a step does to the copies of a thread: nothing, or the copying has not
\* begun or is over, or it copies one more slot.
SameCopies(v) ==
    /\ \A t \in Tasks, j \in 1 .. PARENT : Copied(v, t, j)' <=> Copied(v, t, j)
    /\ local'[v] = local[v] /\ retired'[v] \subseteq retired[v]
NoCopies(v) == \A t \in Tasks, j \in 1 .. PARENT : ~Copied(v, t, j)'
NextCopy(v) ==
    /\ retired'[v] = retired[v]
    /\ \E u \in Tasks, i \in 1 .. PARENT :
          /\ \A t \in Tasks, j \in 1 .. PARENT :
                /\ Copied(v, t, j)' <=> Copied(v, t, j) \/ (t = u /\ j = i)
                /\ ~(t = u /\ j = i) => local'[v][t][j] = local[v][t][j]
          /\ ~Copied(v, u, i)
          /\ local'[v][u][i] = reservations[u][i]

LEMMA ScanStep ==
  ASSUME Inv, Swept, NEW t \in Tasks,
         SlowStep(t) \/ HelpStep(t) \/ ListStep(t) \/ PlainStep(t),
         NEW v \in Tasks
  PROVE  SameCopies(v) \/ NoCopies(v) \/ NextCopy(v)
<1>1. TypeOK
  BY DEF Inv, TypeInv
<1>2. /\ retired \in [Tasks -> SUBSET Objs] /\ scan \in [Tasks -> Scans]
      /\ local \in [Tasks -> [Tasks -> [1 .. PARENT -> Epochs]]]
      /\ pc \in [Tasks -> PC] /\ NoScan.pos = 1 /\ scan[t] \in Scans
  BY <1>1 DEF TypeOK, ListTypeOK, NoScan
<1>3. CASE v # t
  <2>1. pc'[v] = pc[v]
    BY <1>1, <1>3, StepKeeps DEF Kept
  <2>2. scan'[v] = scan[v] /\ local'[v] = local[v] /\ retired'[v] = retired[v]
    <3>1. CASE SlowStep(t) \/ HelpStep(t)
      BY <1>1, <3>1, SlowFrame, HelpFrame, SlowKeeps, HelpKeeps
    <3>2. CASE ListStep(t)
      BY <1>2, <1>3, <3>2
         DEF ListStep, AllocCount, Add, Remove, Retire, Push, EmptyStarts,
             Recheck, Reclaim, NextBlock, garbage
    <3>3. CASE CopySlot(t) \/ EmptyEnds(t) \/ EmptyDone(t)
      BY <1>2, <1>3, <3>3 DEF CopySlot, EmptyEnds, EmptyDone, garbage
    <3>4. CASE PlainStep(t) /\ ~(CopySlot(t) \/ EmptyEnds(t) \/ EmptyDone(t))
      BY <3>4, PlainFrame
    <3> QED
      BY <3>1, <3>2, <3>3, <3>4
  <2> QED
    BY <2>1, <2>2 DEF SameCopies, Copied
<1>4. pc'[t] \notin Sweeping \union {"copy"} => NoCopies(t)
  BY DEF NoCopies, Copied, Sweeping
<1>5. ASSUME pc[t] \in Sweeping, pc'[t] \in Sweeping,
             local'[t] = local[t], retired'[t] \subseteq retired[t]
      PROVE  SameCopies(t)
  BY <1>5 DEF SameCopies, Copied, Sweeping
<1>6. CASE v = t
  <2>1. CASE SlowStep(t) \/ HelpStep(t)
    <3>1. pc'[t] \notin Sweeping \union {"copy"}
      BY <1>1, <2>1, SlowKeeps, HelpKeeps DEF Slow, SlowPC, HelpPC, Sweeping
    <3> QED
      BY <1>4, <1>6, <3>1
  <2>2. CASE AllocCount(t) \/ Add(t) \/ Remove(t)
    <3>1. pc'[t] \notin Sweeping \union {"copy"}
      BY <1>2, <2>2 DEF AllocCount, Add, Remove, Goto, Sweeping
    <3> QED
      BY <1>4, <1>6, <3>1
  <2>3. CASE Retire(t)
    <3>1. pc[t] = "idle" /\ scan' = scan /\ pc'[t] \in {"idle", "copy"}
      BY <1>2, <2>3 DEF Retire, Goto
    <3>2. scan'[t].pos = 1
      BY <1>2, <3>1 DEF Swept, Sweeping
    <3>3. \A k \in 1 .. scan'[t].pos - 1 : FALSE
      BY <3>2
    <3>4. NoCopies(t)
      BY <3>1, <3>3 DEF NoCopies, Copied, Sweeping
    <3> QED
      BY <1>6, <3>4
  <2>4. CASE EmptyStarts(t) \/ Recheck(t)
    <3>1. pc[t] \in Sweeping /\ local' = local
      BY <2>4 DEF EmptyStarts, Recheck, Sweeping
    <3>2. pc'[t] \in Sweeping
      BY <1>2, <2>4, <3>1 DEF EmptyStarts, Recheck, NextBlock, Goto, Sweeping
    <3>3. retired'[t] \subseteq retired[t]
      BY <1>2, <2>4 DEF EmptyStarts, Recheck, Reclaim
    <3> QED
      BY <1>5, <1>6, <3>1, <3>2, <3>3
  <2>5. CASE EmptyEnds(t)
    <3>1. pc[t] \in Sweeping /\ local' = local /\ retired' = retired
      BY <2>5 DEF EmptyEnds, garbage, Sweeping
    <3>2. pc'[t] \in Sweeping
      BY <1>2, <2>5, <3>1 DEF EmptyEnds, Goto, Sweeping
    <3> QED
      BY <1>5, <1>6, <3>1, <3>2
  <2>6. CASE EmptyDone(t)
    BY <1>2, <1>4, <1>6, <2>6 DEF EmptyDone, Goto, Sweeping
  <2>7. CASE CopySlot(t)
    <3> DEFINE k == scan[t].pos
    <3>1. /\ pc[t] = "copy" /\ retired' = retired
          /\ local' = [local EXCEPT ![t][CopyAt(k)[1]][CopyAt(k)[2]] =
                          reservations[CopyAt(k)[1]][CopyAt(k)[2]]]
      BY <2>7 DEF CopySlot
    <3>2. k \in 1 .. LastSlot /\ k \in Int /\ LastSlot \in Int
      BY <1>1, ScanFields, Names DEF LastSlot
    <3>3. CopyAt(k) \in Tasks \X (1 .. PARENT)
      BY <3>2, ScanType DEF LastSlot
    <3>4. PICK u \in Tasks, i \in 1 .. PARENT : CopyAt(k) = <<u, i>>
      BY <3>3
    <3>5. local' = [local EXCEPT ![t][u][i] = reservations[u][i]]
      BY <3>1, <3>4
    <3>6. /\ local'[t][u][i] = reservations[u][i]
          /\ \A w \in Tasks, j \in 1 .. PARENT :
                ~(w = u /\ j = i) => local'[t][w][j] = local[t][w][j]
      <4>1. /\ local[t] \in [Tasks -> [1 .. PARENT -> Epochs]]
            /\ local[t][u] \in [1 .. PARENT -> Epochs]
        BY <1>2
      <4>2. local'[t] = [local[t] EXCEPT ![u][i] = reservations[u][i]]
        BY <1>2, <3>5
      <4>3. local'[t][u] = [local[t][u] EXCEPT ![i] = reservations[u][i]]
        BY <4>1, <4>2
      <4>4. \A w \in Tasks : w # u => local'[t][w] = local[t][w]
        BY <4>1, <4>2
      <4> QED
        BY <4>1, <4>3, <4>4
    <3>7. ~Copied(t, u, i)
      <4> SUFFICES ASSUME NEW l \in 1 .. k - 1, CopyAt(l) = <<u, i>> PROVE FALSE
        BY <3>1 DEF Copied, Sweeping
      <4>1. l \in 1 .. LastSlot /\ l # k
        BY <3>2
      <4> QED
        BY <3>2, <3>4, <4>1, CopyAtOnce
    <3>8. ASSUME NEW w \in Tasks, NEW j \in 1 .. PARENT
          PROVE  Copied(t, w, j)' <=> Copied(t, w, j) \/ (w = u /\ j = i)
      <4>1. Copied(t, w, j) <=> \E l \in 1 .. k - 1 : CopyAt(l) = <<w, j>>
        BY <3>1 DEF Copied, Sweeping
      <4>2. Copied(t, w, j)' <=> \E l \in 1 .. k : CopyAt(l) = <<w, j>>
        <5>1. CASE k < LastSlot
          <6>1. scan' = [scan EXCEPT ![t].pos = @ + 1] /\ pc' = pc
            BY <2>7, <3>2, <5>1 DEF CopySlot
          <6>2. scan'[t].pos = k + 1
            BY <1>2, <6>1 DEF Scans
          <6>3. scan'[t].pos - 1 = k
            BY <3>2, <6>2
          <6> QED
            BY <3>1, <6>1, <6>3 DEF Copied, Sweeping
        <5>2. CASE k = LastSlot
          <6>1. pc'[t] = "ends"
            BY <1>2, <2>7, <3>2, <5>2 DEF CopySlot, Goto
          <6>2. Copied(t, w, j)'
            BY <6>1 DEF Copied, Sweeping
          <6>3. \E l \in 1 .. k : CopyAt(l) = <<w, j>>
            BY <5>2, CopyAtOnto
          <6> QED
            BY <6>2, <6>3
        <5> QED
          BY <3>2, <5>1, <5>2
      <4>3. \A l \in 1 .. k : l \in 1 .. k - 1 \/ l = k
        BY <3>2
      <4>4. 1 .. k - 1 \subseteq 1 .. k /\ k \in 1 .. k
        BY <3>2
      <4>5. CopyAt(k) = <<w, j>> <=> w = u /\ j = i
        BY <3>4
      <4> QED
        BY <4>1, <4>2, <4>3, <4>4, <4>5
    <3>9. NextCopy(t)
      BY <3>1, <3>6, <3>7, <3>8 DEF NextCopy
    <3> QED
      BY <1>6, <3>9
  <2>8. CASE PlainStep(t) /\ ~(CopySlot(t) \/ EmptyEnds(t) \/ EmptyDone(t))
    <3>1. pc'[t] \notin Sweeping \union {"copy"}
      <4>1. CASE AllocAdvance(t) \/ AllocBirth(t) \/ ReadLoad(t) \/ CheckSame(t)
                 \/ CheckNew(t) \/ Clear(t)
        BY <1>2, <4>1
           DEF AllocAdvance, AllocBirth, ReadLoad, CheckSame, CheckNew, Clear,
               Goto, Sweeping
      <4>2. CASE ClearSlot(t)
        BY <1>2, <4>2 DEF ClearSlot, Goto, Sweeping
      <4>3. CASE \/ \E c \in Cells, j \in Idx, n \in Ptrs : Read(t, c, j, n)
                 \/ \E j \in Idx, n \in Ptrs : Reserve(t, j, n)
        BY <1>2, <4>3 DEF Read, Reserve, Goto, Sweeping
      <4> QED
        BY <2>8, <4>1, <4>2, <4>3 DEF PlainStep
    <3> QED
      BY <1>4, <1>6, <3>1
  <2> QED
    BY <2>1, <2>2, <2>3, <2>4, <2>5, <2>6, <2>7, <2>8 DEF ListStep, PlainStep
<1> QED
  BY <1>3, <1>6

\* A copy that keeps a thread from freeing o keeps it to the end.
LEMMA ShelterKept ==
  ASSUME NEW v \in Tasks, NEW o, Sheltered(v, o), SameCopies(v) \/ NextCopy(v),
         birth'[o] = birth[o], retireEpoch'[o] = retireEpoch[o]
  PROVE  Sheltered(v, o)'
<1>1. PICK t \in Tasks, j \in 1 .. PARENT :
        Copied(v, t, j) /\ ~Outside(local[v][t][j], o)
  BY DEF Sheltered
<1>2. Copied(v, t, j)' /\ local'[v][t][j] = local[v][t][j]
  BY <1>1 DEF SameCopies, NextCopy
<1>3. ~(\/ local'[v][t][j] < birth'[o] \/ local'[v][t][j] > retireEpoch'[o]
        \/ local'[v][t][j] = 0)
  BY <1>1, <1>2 DEF Outside
<1> QED
  BY <1>2, <1>3 DEF Sheltered, Outside

\* The stamps of a shared block: its birth is fixed, it is stamped again when
\* it is retired.
LEMMA StampsKept ==
  ASSUME Inv, Placed, NEW t \in Tasks,
         SlowStep(t) \/ HelpStep(t) \/ ListStep(t) \/ PlainStep(t),
         NEW o \in Objs, status[o] \notin {"free", "private"}
  PROVE  /\ birth'[o] = birth[o]
         /\ \/ retireEpoch'[o] = retireEpoch[o]
            \/ /\ Retire(t) /\ o = victim[t] /\ status[o] = "unlinked"
               /\ retireEpoch'[o] = epoch
<1>1. /\ retireEpoch \in [Objs -> Epochs] /\ birth \in [Objs -> Epochs]
      /\ mine \in [Tasks -> Ptrs] /\ o # NULL
  BY ClientAssumption DEF Inv, TypeInv, TypeOK, ListTypeOK, ClientTypeOK
<1>2. birth'[o] = birth[o]
  <2>1. CASE AllocBirth(t)
    <3>1. o # mine[t]
      BY <1>1 DEF Placed
    <3> QED
      BY <1>1, <2>1, <3>1 DEF AllocBirth
  <2> QED
    BY <2>1, SlowFrame, HelpFrame, ListFrame, PlainFrame
<1>3. CASE Retire(t)
  <2>1. retireEpoch' = [retireEpoch EXCEPT ![victim[t]] = epoch]
    BY <1>3 DEF Retire
  <2>2. CASE o = victim[t]
    <3>1. status[o] = "unlinked"
      BY <1>1, <2>2 DEF Placed
    <3> QED
      BY <1>1, <1>2, <1>3, <2>1, <2>2, <3>1
  <2>3. CASE o # victim[t]
    BY <1>1, <1>2, <2>1, <2>3
  <2> QED
    BY <2>2, <2>3
<1>4. CASE ~Retire(t)
  <2>1. ListStep(t) => retireEpoch' = retireEpoch
    BY <1>4 DEF ListStep, AllocCount, Add, Remove, EmptyStarts, Recheck, blocks
  <2> QED
    BY <1>2, <2>1, SlowFrame, HelpFrame, PlainFrame
<1> QED
  BY <1>3, <1>4

\* A shared block stays shared unless empty frees it.
LEMMA StatusKept ==
  ASSUME Inv, Placed, NEW t \in Tasks,
         SlowStep(t) \/ HelpStep(t) \/ ListStep(t) \/ PlainStep(t),
         NEW o \in Objs, status[o] \notin {"free", "private"}
  PROVE  \/ /\ status'[o] \notin {"free", "private"}
            /\ status'[o] = "retired" =>
                  status[o] = "retired" \/ (Retire(t) /\ o = victim[t])
         \/ (EmptyStarts(t) \/ Recheck(t)) /\ scan[t].obj = o
<1>1. TypeOK
  BY DEF Inv, TypeInv
<1>2. /\ status \in [Objs -> Status] /\ cell \in [Cells -> Ptrs]
      /\ mine \in [Tasks -> Ptrs] /\ victim \in [Tasks -> Ptrs] /\ o # NULL
  BY <1>1, ClientAssumption DEF TypeOK, ListTypeOK, ClientTypeOK
<1>3. CASE status' = status
  BY <1>3
<1>4. CASE AllocCount(t)
  <2>1. status'[o] = status[o]
    BY <1>2, <1>4 DEF AllocCount, Malloc
  <2> QED
    BY <2>1
<1>5. CASE Add(t)
  <2>1. CASE Discard(t)
    <3>1. status'[o] = status[o]
      BY <1>2, <2>1 DEF Discard, Placed
    <3> QED
      BY <3>1
  <2>2. ASSUME NEW c \in Cells, Link(t, c)
        PROVE  status'[o] = status[o] \/ status'[o] = "linked"
    BY <1>2, <2>2 DEF Link
  <2> QED
    BY <1>5, <2>1, <2>2 DEF Add
<1>6. CASE Remove(t)
  <2>1. status'[o] = status[o] \/ status'[o] = "unlinked"
    BY <1>2, <1>6 DEF Remove, Unlink
  <2> QED
    BY <2>1
<1>7. CASE Retire(t)
  <2>1. status' = [status EXCEPT ![victim[t]] = "retired"]
    BY <1>7 DEF Retire, Push, HandOver
  <2>2. o = victim[t] => status'[o] = "retired"
    BY <1>2, <2>1
  <2>3. o # victim[t] => status'[o] = status[o]
    BY <1>2, <2>1
  <2> QED
    BY <1>7, <2>2, <2>3
<1>8. CASE EmptyStarts(t) \/ Recheck(t)
  <2>1. CASE UNCHANGED clientVars
    BY <2>1 DEF clientVars
  <2>2. CASE Reclaim(t, {scan[t].obj})
    <3>1. o # scan[t].obj => status'[o] = status[o]
      BY <1>2, <2>2 DEF Reclaim, Free
    <3> QED
      BY <1>8, <3>1
  <2> QED
    BY <1>8, <2>1, <2>2 DEF EmptyStarts, Recheck
<1> QED
  BY <1>1, <1>3, <1>4, <1>5, <1>6, <1>7, <1>8, SlowKeeps, HelpKeeps, PlainKeeps
     DEF ListStep, clientVars

\* A block that a slot guards is not freed by any step, and stays guarded as
\* long as the slot is not written.
LEMMA GuardedKept ==
  ASSUME Inv, Placed, RetiredOnce, Clock, Swept, NEW t \in Tasks,
         SlowStep(t) \/ HelpStep(t) \/ ListStep(t) \/ PlainStep(t),
         NEW u \in Tasks, NEW j \in 1 .. PARENT, NEW o \in Objs,
         Guarded(u, j, o), reservations'[u][j] = reservations[u][j]
  PROVE  Guarded(u, j, o)'
<1>1. TypeOK /\ Epochs \subseteq Nat /\ epoch \in Nat
  BY EpochStep DEF Inv, TypeInv
<1>2. /\ status[o] \notin {"free", "private"}
      /\ birth[o] <= reservations[u][j]
      /\ status[o] = "retired" => reservations[u][j] <= retireEpoch[o]
      /\ \A v \in Tasks : o \in retired[v] /\ Copied(v, u, j) => Sheltered(v, o)
  BY DEF Guarded
<1>3. j \in AllIdx
  BY Names, ParamAssumption DEF PARENT, AllIdx
<1>4. /\ reservations[u][j] \in Nat /\ birth[o] \in Nat
      /\ retireEpoch[o] \in Nat
      /\ birth[o] >= 1 /\ reservations[u][j] <= epoch
  <2>1. /\ reservations[u][j] \in Epochs /\ birth[o] \in Epochs
        /\ retireEpoch[o] \in Epochs
    BY <1>1, <1>3 DEF TypeOK
  <2>2. birth[o] >= 1
    BY <1>2 DEF Clock, ClockBlocks
  <2>3. reservations[u][j] <= epoch
    BY <1>3 DEF Clock, ClockSlots
  <2> QED
    BY <1>1, <2>1, <2>2, <2>3
<1>5. /\ birth'[o] = birth[o]
      /\ \/ retireEpoch'[o] = retireEpoch[o]
         \/ /\ Retire(t) /\ o = victim[t] /\ status[o] = "unlinked"
            /\ retireEpoch'[o] = epoch
  BY <1>2, StampsKept
<1>6. /\ status'[o] \notin {"free", "private"}
      /\ status'[o] = "retired" =>
            status[o] = "retired" \/ (Retire(t) /\ o = victim[t])
  <2>1. CASE (EmptyStarts(t) \/ Recheck(t)) /\ scan[t].obj = o
    <3>1. pc[t] \in {"starts", "recheck"}
      BY <2>1 DEF EmptyStarts, Recheck
    <3>2. o \in retired[t] /\ CanDelete(t, o)
      BY <2>1, <3>1 DEF Swept, Sweeping
    <3>3. Sheltered(t, o)
      BY <1>2, <3>1, <3>2 DEF Copied, Sweeping
    <3> QED
      BY <3>2, <3>3 DEF Sheltered, CanDelete
  <2> QED
    BY <1>2, <2>1, StatusKept
<1>7. status'[o] = "retired" => reservations[u][j] <= retireEpoch'[o]
  <2>1. CASE Retire(t) /\ o = victim[t]
    <3>1. retireEpoch'[o] = epoch
      BY <1>1, <2>1 DEF Retire, TypeOK
    <3> QED
      BY <1>4, <3>1
  <2>2. CASE ~(Retire(t) /\ o = victim[t])
    BY <1>2, <1>5, <1>6, <2>2
  <2> QED
    BY <2>1, <2>2
<1>8. ASSUME NEW v \in Tasks, o \in retired'[v], Copied(v, u, j)'
      PROVE  Sheltered(v, o)'
  <2>1. SameCopies(v) \/ NextCopy(v)
    BY <1>8, ScanStep DEF NoCopies
  <2>2. o \in retired[v]
    BY <1>8, <2>1 DEF SameCopies, NextCopy
  <2>3. status[o] = "retired"
    BY <2>2 DEF RetiredOnce
  <2>4. retireEpoch'[o] = retireEpoch[o]
    BY <1>5, <2>3
  <2>5. CASE Copied(v, u, j)
    BY <1>2, <1>5, <2>1, <2>2, <2>4, <2>5, ShelterKept
  <2>6. CASE ~Copied(v, u, j)
    <3>1. local'[v][u][j] = reservations[u][j]
      BY <1>8, <2>1, <2>6 DEF SameCopies, NextCopy
    <3>2. ~(\/ local'[v][u][j] < birth'[o] \/ local'[v][u][j] > retireEpoch'[o]
            \/ local'[v][u][j] = 0)
      BY <1>2, <1>4, <1>5, <2>3, <2>4, <3>1
    <3> QED
      BY <1>8, <3>2 DEF Sheltered, Outside
  <2> QED
    BY <2>5, <2>6
<1> QED
  BY <1>2, <1>5, <1>6, <1>7, <1>8 DEF Guarded

\* A node loaded from a cell while the slot holds the global epoch is guarded:
\* it is linked, so nobody has it on a list, and it was born by then.
LEMMA LoadGuards ==
  ASSUME Inv, Placed, RetiredOnce, Clock, NEW t \in Tasks, NEW j \in Idx,
         NEW c \in Cells, NEW o \in Objs, cell[c] = o,
         reservations[t][j] = epoch
  PROVE  Guarded(t, j, o)
<1>1. status[o] = "linked"
  BY ClientAssumption DEF Placed
<1>2. \A v \in Tasks : o \notin retired[v]
  BY <1>1 DEF RetiredOnce
<1>3. birth[o] <= epoch
  BY DEF Clock, ClockBlocks
<1> QED
  BY <1>1, <1>2, <1>3 DEF Guarded

\* Which steps write a slot for reads, and a parent slot.
LEMMA ReadSlotStep ==
  ASSUME Inv, NEW t \in Tasks,
         SlowStep(t) \/ HelpStep(t) \/ ListStep(t) \/ PlainStep(t),
         NEW u \in Tasks, NEW j \in Idx
  PROVE  \/ reservations'[u][j] = reservations[u][j]
         \/ StoreEpoch(t) /\ u = t /\ j = call[t].idx
         \/ SlowSlot(t) /\ u = t /\ j = call[t].idx
         \/ SlowTake(t) /\ u = t /\ j = call[t].idx
         \/ ClearSlot(t) /\ u = t /\ j = call[t].idx
         \/ HelpSlot(t) /\ Serves(t, u, j)
<1>1. TypeOK
  BY DEF Inv, TypeInv
<1>2. /\ reservations \in [Tasks -> [AllIdx -> Epochs]]
      /\ Who(t)[1] \in Tasks /\ Who(t)[2] \in Idx
      /\ Who(t) = <<Who(t)[1], Who(t)[2]>>
  <2>1. Who(t) \in Tasks \X Idx
    BY <1>1, HelpFields, SlotAtType DEF Who
  <2> QED
    BY <1>1, <2>1 DEF TypeOK
<1>3. j # PARENT /\ j # HELPED /\ j \in AllIdx
  BY ParamAssumption DEF PARENT, HELPED, Idx, AllIdx
<1>4. CASE UNCHANGED reservations
  BY <1>4
<1>5. CASE StoreEpoch(t) \/ SlowTake(t) \/ ClearSlot(t)
  <2>1. PICK e : reservations' = [reservations EXCEPT ![t][call[t].idx] = e]
    BY <1>5 DEF StoreEpoch, SlowTake, ClearSlot
  <2>2. CASE u = t /\ j = call[t].idx
    BY <1>5, <2>2
  <2>3. CASE ~(u = t /\ j = call[t].idx)
    BY <1>2, <1>3, <2>1, <2>3
  <2> QED
    BY <2>2, <2>3
<1>6. CASE SlowSlot(t) /\ ~UNCHANGED reservations
  <2>1. reservations' = [reservations EXCEPT ![t][call[t].idx] = call[t].curr]
    BY <1>6 DEF SlowSlot
  <2>2. CASE u = t /\ j = call[t].idx
    BY <1>6, <2>2
  <2>3. CASE ~(u = t /\ j = call[t].idx)
    BY <1>2, <1>3, <2>1, <2>3
  <2> QED
    BY <2>2, <2>3
<1>7. CASE HelpParent(t) \/ HelpStore(t) \/ HelpRelease(t) \/ HelpClear(t)
  BY <1>2, <1>3, <1>7 DEF HelpParent, HelpStore, HelpRelease, HelpClear
<1>8. CASE HelpSlot(t) /\ ~UNCHANGED reservations
  <2>1. /\ help[t].oldTag = help[t].last
        /\ SlotIs(Who(t)[1], Who(t)[2], help[t].old, help[t].oldTag)
        /\ reservations' =
              [reservations EXCEPT ![Who(t)[1]][Who(t)[2]] = help[t].prev]
    BY <1>8 DEF HelpSlot, SlotAsLoaded, slots
  <2>2. CASE u = Who(t)[1] /\ j = Who(t)[2]
    BY <1>2, <1>8, <2>1, <2>2 DEF SlotIs, Serves
  <2>3. CASE ~(u = Who(t)[1] /\ j = Who(t)[2])
    BY <1>2, <2>1, <2>3
  <2> QED
    BY <2>2, <2>3
<1> QED
  BY <1>4, <1>5, <1>6, <1>7, <1>8, OtherSlots

\* A parent slot is written by its thread, as it helps.
LEMMA ParentSlotStep ==
  ASSUME Inv, NEW t \in Tasks,
         SlowStep(t) \/ HelpStep(t) \/ ListStep(t) \/ PlainStep(t),
         NEW u \in Tasks
  PROVE  \/ reservations'[u][PARENT] = reservations[u][PARENT]
         \/ u = t /\ (HelpParent(t) \/ HelpClear(t))
<1>1. TypeOK
  BY DEF Inv, TypeInv
<1>2. /\ reservations \in [Tasks -> [AllIdx -> Epochs]]
      /\ call[t].idx \in Idx /\ Who(t)[2] \in Idx
  BY <1>1, CallFields, HelpFields DEF TypeOK
<1>3. PARENT \notin Idx /\ PARENT # HELPED /\ PARENT \in AllIdx
  BY ParamAssumption DEF PARENT, HELPED, Idx, AllIdx
<1>4. CASE StoreEpoch(t) \/ SlowSlot(t) \/ SlowTake(t) \/ ClearSlot(t)
  BY <1>2, <1>3, <1>4 DEF StoreEpoch, SlowSlot, SlowTake, ClearSlot
<1>5. CASE HelpSlot(t)
  BY <1>2, <1>3, <1>5 DEF HelpSlot, slots
<1>6. CASE HelpStore(t) \/ HelpRelease(t)
  BY <1>2, <1>3, <1>6 DEF HelpStore, HelpRelease
<1>7. CASE HelpParent(t) \/ HelpClear(t)
  BY <1>2, <1>3, <1>7 DEF HelpParent, HelpClear
<1> QED
  BY <1>4, <1>5, <1>6, <1>7, OtherSlots

-----------------------------------------------------------------------------
\* A reference is given up at the start of a call, and got at its end.
LEMMA HeldStep ==
  ASSUME TypeOK, NEW t \in Tasks,
         SlowStep(t) \/ HelpStep(t) \/ ListStep(t) \/ PlainStep(t),
         NEW u \in Tasks, NEW j \in Idx
  PROVE  \/ held'[u][j] = held[u][j]
         \/ u = t /\ held'[u][j] = NULL /\ pc'[t] \in {"check", "clear"}
         \/ /\ u = t /\ j = call[t].idx /\ held'[u][j] = call[t].ptr
            /\ CheckSame(t) /\ pc[t] = "check" /\ pc'[t] = "idle"
            /\ reservations[t][j] = epoch
         \/ /\ u = t /\ j = call[t].idx /\ held'[u][j] = call[t].ptr
            /\ SlowCas(t) /\ pc[t] = "scas" /\ pc'[t] = "stag"
            /\ states[t][j].ptr = INVPTR
<1>1. held \in [Tasks -> [Idx -> Ptrs]] /\ pc \in [Tasks -> PC]
  BY DEF TypeOK
<1>2. CASE held' = held
  BY <1>2
<1>3. CASE CheckSame(t)
  <2>1. /\ held' = [held EXCEPT ![t][call[t].idx] = call[t].ptr]
        /\ pc[t] = "check" /\ pc'[t] = "idle"
        /\ epoch = reservations[t][call[t].idx]
    BY <1>1, <1>3 DEF CheckSame, Goto
  <2>2. CASE u = t /\ j = call[t].idx
    <3>1. held'[u][j] = call[t].ptr
      BY <1>1, <2>1, <2>2
    <3> QED
      BY <1>3, <2>1, <2>2, <3>1
  <2>3. CASE ~(u = t /\ j = call[t].idx)
    BY <1>1, <2>1, <2>3
  <2> QED
    BY <2>2, <2>3
<1>4. CASE SlowCas(t) /\ held' # held
  <2>1. /\ held' = [held EXCEPT ![t][call[t].idx] = call[t].ptr]
        /\ pc[t] = "scas" /\ pc'[t] = "stag"
        /\ states[t][call[t].idx].ptr = INVPTR
    BY <1>1, <1>4 DEF SlowCas, Goto, Pending
  <2>2. CASE u = t /\ j = call[t].idx
    <3>1. held'[u][j] = call[t].ptr
      BY <1>1, <2>1, <2>2
    <3> QED
      BY <1>4, <2>1, <2>2, <3>1
  <2>3. CASE ~(u = t /\ j = call[t].idx)
    BY <1>1, <2>1, <2>3
  <2> QED
    BY <2>2, <2>3
<1>5. CASE Clear(t)
  BY <1>1, <1>5 DEF Clear, Goto
<1>6. ASSUME NEW c \in Cells, NEW k \in Idx, NEW n \in Ptrs, Read(t, c, k, n)
      PROVE  \/ held'[u][j] = held[u][j]
             \/ u = t /\ held'[u][j] = NULL /\ pc'[t] \in {"check", "clear"}
  BY <1>1, <1>6 DEF Read, Goto
<1>7. ASSUME NEW k \in Idx, NEW n \in Ptrs, Reserve(t, k, n)
      PROVE  \/ held'[u][j] = held[u][j]
             \/ u = t /\ held'[u][j] = NULL /\ pc'[t] \in {"check", "clear"}
  BY <1>1, <1>7 DEF Reserve, Goto
<1>8. CASE SlowStep(t) /\ ~SlowCas(t)
  <2>1. CASE StoreEpoch(t) \/ SlowStart(t) \/ SlowPointer(t) \/ SlowEpoch(t)
    BY <1>2, <2>1 DEF StoreEpoch, SlowStart, SlowPointer, SlowEpoch, given
  <2>2. CASE SlowRequest(t) \/ SlowLoad(t) \/ SlowCheck(t) \/ SlowSlot(t)
    BY <1>2, <2>2 DEF SlowRequest, SlowLoad, SlowCheck, SlowSlot, given
  <2>3. CASE SlowResult(t) \/ SlowTake(t) \/ SlowTag(t) \/ SlowEnd(t)
    BY <1>2, <2>3 DEF SlowResult, SlowTake, SlowTag, SlowEnd, given
  <2> QED
    BY <1>8, <2>1, <2>2, <2>3 DEF SlowStep
<1> QED
  BY <1>2, <1>3, <1>4, <1>5, <1>6, <1>7, <1>8, HelpFrame, ListFrame, PlainFrame

\* In a call the slot, the node and the kind of the call stay what they are.
LEMMA CallFixed ==
  ASSUME TypeOK, NEW t \in Tasks, SlowStep(t), pc'[t] # "idle"
  PROVE  /\ call'[t].idx = call[t].idx /\ call'[t].node = call[t].node
         /\ call'[t].op = call[t].op
         /\ pc[t] \in InCall /\ (pc'[t] # "send" => pc[t] # "stag")
         /\ pc'[t] = "load" => call[t].op = "read"
         /\ pc'[t] = "check" => /\ pc[t] = "store" /\ call[t].op # "read"
                                /\ call'[t].ptr = call[t].ptr
         /\ pc'[t] # "store"
<1>1. call \in [Tasks -> Calls] /\ call[t] \in Calls /\ pc \in [Tasks -> PC]
  BY DEF TypeOK
<1> USE DEF InCall, SlowPC, Goto
<1>2. CASE StoreEpoch(t)
  BY <1>1, <1>2 DEF StoreEpoch, Calls
<1>3. CASE SlowStart(t)
  BY <1>1, <1>3 DEF SlowStart, Calls
<1>4. CASE SlowPointer(t) \/ SlowEpoch(t) \/ SlowRequest(t) \/ SlowCas(t)
  BY <1>1, <1>4 DEF SlowPointer, SlowEpoch, SlowRequest, SlowCas
<1>5. CASE SlowLoad(t) \/ SlowCheck(t) \/ SlowSlot(t)
  BY <1>1, <1>5 DEF SlowLoad, SlowCheck, SlowSlot, Calls
<1>6. CASE SlowResult(t)
  BY <1>1, <1>6 DEF SlowResult, Calls
<1>7. CASE SlowTake(t) \/ SlowTag(t)
  BY <1>1, <1>7 DEF SlowTake, SlowTag
<1>8. CASE SlowEnd(t)
  BY <1>1, <1>8 DEF SlowEnd
<1> QED
  BY <1>2, <1>3, <1>4, <1>5, <1>6, <1>7, <1>8 DEF SlowStep

\* A call has given up what it got through its slot, and holds the node whose
\* field it reads.
LEMMA CallHoldsNext ==
  ASSUME Inv, CallHolds, NEW t \in Tasks,
         SlowStep(t) \/ HelpStep(t) \/ ListStep(t) \/ PlainStep(t)
  PROVE  CallHolds'
<1>1. TypeOK
  BY DEF Inv, TypeInv
<1>2. /\ held \in [Tasks -> [Idx -> Ptrs]] /\ pc \in [Tasks -> PC]
      /\ call \in [Tasks -> Calls] /\ call[t] \in Calls /\ call[t].idx \in Idx
  BY <1>1, CallFields DEF TypeOK
<1> DEFINE Holds(u) ==
      /\ pc'[u] \in InCall /\ pc'[u] # "stag" => held'[u][call'[u].idx] = NULL
      /\ pc'[u] = "clear" => \A k \in Idx : held'[u][k] = NULL
      /\ pc'[u] = "load" => call'[u].op = "read"
      /\ pc'[u] \in {"check", "store"} /\ call'[u].op # "read" =>
            call'[u].ptr = NULL
      /\ pc'[u] \in InCall /\ call'[u].node # NULL =>
            \E k \in Idx \ {call'[u].idx} : held'[u][k] = call'[u].node
<1>3. ASSUME NEW u \in Tasks, u # t PROVE Holds(u)
  <2>1. pc'[u] = pc[u] /\ call'[u] = call[u]
    BY <1>1, <1>3, StepKeeps DEF Kept
  <2>2. \A k \in Idx : held'[u][k] = held[u][k]
    BY <1>1, <1>3, HeldStep
  <2>3. call[u].idx \in Idx
    BY <1>1, CallFields
  <2> QED
    BY <2>1, <2>2, <2>3 DEF CallHolds
<1>4. ASSUME pc'[t] \notin InCall \union {"clear"} PROVE Holds(t)
  BY <1>4 DEF InCall
<1>5. ASSUME SlowStep(t) PROVE Holds(t)
  <2> SUFFICES ASSUME pc'[t] \in InCall PROVE Holds(t)
    <3>1. pc'[t] # "clear"
      BY <1>1, <1>5, SlowKeeps DEF Slow, SlowPC
    <3> QED
      BY <1>4, <3>1
  <2>1. /\ call'[t].idx = call[t].idx /\ call'[t].node = call[t].node
        /\ call'[t].op = call[t].op /\ pc[t] \in InCall /\ pc[t] # "stag"
        /\ pc'[t] = "load" => call[t].op = "read"
        /\ pc'[t] = "check" => /\ pc[t] = "store" /\ call[t].op # "read"
                               /\ call'[t].ptr = call[t].ptr
        /\ pc'[t] # "store"
    BY <1>1, <1>5, CallFixed DEF InCall, SlowPC
  <2>2. pc'[t] # "clear"
    BY DEF InCall, SlowPC
  <2>3. \A k \in Idx : held'[t][k] = held[t][k]
                       \/ (k = call[t].idx /\ pc'[t] = "stag")
    <3> SUFFICES ASSUME NEW k \in Idx
                 PROVE  held'[t][k] = held[t][k]
                        \/ (k = call[t].idx /\ pc'[t] = "stag")
      OBVIOUS
    <3>1. pc'[t] = "check" => held' = held
      <4>1. pc'[t] = "check" => StoreEpoch(t)
        BY <1>2, <1>5
           DEF SlowStep, SlowStart, SlowPointer, SlowEpoch, SlowRequest,
               SlowLoad, SlowCheck, SlowCas, SlowSlot, SlowResult, SlowTake,
               SlowTag, SlowEnd, Goto
      <4> QED
        BY <4>1 DEF StoreEpoch, given
    <3> QED
      BY <1>1, <1>5, <2>1, <2>2, <3>1, HeldStep DEF InCall, SlowPC
  <2>4. pc'[t] # "stag" => held'[t][call'[t].idx] = NULL
    BY <1>2, <2>1, <2>3 DEF CallHolds
  <2>5. call'[t].node # NULL =>
           \E k \in Idx \ {call'[t].idx} : held'[t][k] = call'[t].node
    BY <2>1, <2>3 DEF CallHolds
  <2>6. pc'[t] \in {"check", "store"} /\ call'[t].op # "read" =>
           call'[t].ptr = NULL
    BY <2>1 DEF CallHolds
  <2> QED
    BY <2>1, <2>2, <2>4, <2>5, <2>6
<1>6. ASSUME HelpStep(t) \/ ListStep(t) PROVE Holds(t)
  BY <1>1, <1>4, <1>6, HelpKeeps, ListKeeps DEF InCall, SlowPC, HelpPC
<1>7. ASSUME ReadLoad(t) PROVE Holds(t)
  <2>1. /\ pc[t] = "load" /\ pc'[t] = "check" /\ held' = held
        /\ call'[t] = [call[t] EXCEPT !.ptr = Load(call[t].cell)]
    BY <1>2, <1>7 DEF ReadLoad, given, Goto
  <2>2. /\ call'[t].idx = call[t].idx /\ call'[t].node = call[t].node
        /\ call'[t].op = call[t].op
    BY <1>2, <2>1 DEF Calls
  <2> QED
    BY <2>1, <2>2 DEF CallHolds, InCall
<1>8. ASSUME CheckNew(t) PROVE Holds(t)
  <2>1. /\ pc[t] = "check" /\ pc'[t] = "store" /\ held' = held
        /\ call'[t] = [call[t] EXCEPT !.curr = epoch]
    BY <1>2, <1>8 DEF CheckNew, given, Goto
  <2>2. /\ call'[t].idx = call[t].idx /\ call'[t].node = call[t].node
        /\ call'[t].op = call[t].op /\ call'[t].ptr = call[t].ptr
    BY <1>2, <2>1 DEF Calls
  <2> QED
    BY <2>1, <2>2 DEF CallHolds, InCall
<1>9. ASSUME \/ CheckSame(t) \/ AllocAdvance(t) \/ AllocBirth(t) \/ CopySlot(t)
             \/ EmptyEnds(t) \/ EmptyDone(t)
      PROVE  Holds(t)
  <2>1. pc'[t] \notin InCall \union {"clear"}
    BY <1>2, <1>9
       DEF CheckSame, AllocAdvance, AllocBirth, CopySlot, EmptyEnds, EmptyDone,
           Goto, InCall, SlowPC
  <2> QED
    BY <1>4, <2>1
<1>10. ASSUME Clear(t) PROVE Holds(t)
  <2>1. pc'[t] = "clear" /\ \A k \in Idx : held'[t][k] = NULL
    BY <1>2, <1>10 DEF Clear, Goto
  <2> QED
    BY <2>1 DEF InCall, SlowPC
<1>11. ASSUME ClearSlot(t) PROVE Holds(t)
  <2>1. pc[t] = "clear" /\ pc'[t] \in {"clear", "idle"} /\ held' = held
    BY <1>2, <1>11 DEF ClearSlot, Goto, given
  <2> QED
    BY <2>1 DEF InCall, SlowPC, CallHolds
<1>12. ASSUME NEW c \in Cells, NEW j \in Idx, NEW n \in Ptrs, Read(t, c, j, n)
       PROVE  Holds(t)
  <2>1. /\ pc'[t] = "check" /\ held'[t][j] = NULL
        /\ \A k \in Idx \ {j} : held'[t][k] = held[t][k]
        /\ n = NULL \/ \E k \in Idx \ {j} : held[t][k] = n
    BY <1>2, <1>12 DEF Read, Goto
  <2>2. call'[t] = [NoCall EXCEPT !.op = "read", !.idx = j, !.cell = c,
                       !.node = n, !.ptr = cell[c], !.attempts = Attempts]
    BY <1>2, <1>12 DEF Read
  <2>3. call'[t].idx = j /\ call'[t].node = n /\ call'[t].op = "read"
    BY <2>2 DEF NoCall
  <2> QED
    BY <2>1, <2>3 DEF InCall
<1>13. ASSUME NEW j \in Idx, NEW n \in Ptrs, Reserve(t, j, n) PROVE Holds(t)
  <2>1. /\ pc'[t] = "check" /\ held'[t][j] = NULL
        /\ \A k \in Idx \ {j} : held'[t][k] = held[t][k]
        /\ n = NULL \/ \E k \in Idx \ {j} : held[t][k] = n
    BY <1>2, <1>13 DEF Reserve, Goto
  <2>2. call'[t] = [NoCall EXCEPT !.op = "reserve", !.idx = j, !.node = n,
                                  !.attempts = Attempts]
    BY <1>2, <1>13 DEF Reserve
  <2>3. call'[t].idx = j /\ call'[t].node = n /\ call'[t].ptr = NULL
    BY <2>2 DEF NoCall
  <2> QED
    BY <2>1, <2>3 DEF InCall
<1>14. Holds(t)
  BY <1>5, <1>6, <1>7, <1>8, <1>9, <1>10, <1>11, <1>12, <1>13 DEF PlainStep
<1>15. ASSUME NEW u \in Tasks PROVE Holds(u)
  BY <1>3, <1>14
<1> QED
  BY <1>15 DEF CallHolds

\* A helper at a request that is still the last of its slot finds the owner
\* of the slot with that request.
LEMMA ServesAsking ==
  ASSUME TypeOK, Served, NEW t \in Tasks, pc[t] \in Helping,
         NEW u \in Tasks, NEW j \in Idx, Serves(t, u, j)
  PROVE  /\ pc[u] \in Asking /\ call[u].idx = j
         /\ call[u].seqno = tag[u][j] /\ help[t].last = tag[u][j]
         /\ Issued(u, j, tag[u][j]) /\ tag[u][j] \in Tags
<1>1. Who(t)[1] = u /\ Who(t)[2] = j /\ help[t].last = tag[u][j]
  BY DEF Serves
<1>2. tag[u][j] \in Tags /\ tag[u][j] \in Nat
  BY ParamAssumption DEF TypeOK, Tags
<1>3. Issued(u, j, tag[u][j])
  BY <1>1 DEF Served
<1> QED
  BY <1>1, <1>2, <1>3 DEF Issued

\* The node of a call in progress has kept its birth, for the thread holds it.
LEMMA NodeKept ==
  ASSUME Inv, Placed, CallHolds, HeldGuarded, NEW t \in Tasks,
         SlowStep(t) \/ HelpStep(t) \/ ListStep(t) \/ PlainStep(t),
         NEW u \in Tasks, pc[u] \in InCall, call[u].node # NULL
  PROVE  birth'[call[u].node] = birth[call[u].node]
<1> DEFINE o == call[u].node
<1>1. o \in Objs
  BY CallFields DEF Inv, TypeInv, Ptrs
<1>2. PICK k \in Idx : held[u][k] = o
  BY DEF CallHolds
<1>3. Guarded(u, k, o)
  BY <1>1, <1>2 DEF HeldGuarded
<1> QED
  BY <1>1, <1>3, StampsKept DEF Guarded

\* The request names the node of the call and its birth.
LEMMA CallNamesNext ==
  ASSUME Inv, Placed, CallHolds, HeldGuarded, CallNames, NEW t \in Tasks,
         SlowStep(t) \/ HelpStep(t) \/ ListStep(t) \/ PlainStep(t)
  PROVE  CallNames'
<1>1. TypeOK
  BY DEF Inv, TypeInv
<1>2. pc \in [Tasks -> PC] /\ \A u \in Tasks : call[u].idx \in Idx
  BY <1>1, CallFields DEF TypeOK
<1> DEFINE Names1(u) ==
      /\ pc'[u] \in Named => states'[u][call'[u].idx].node = call'[u].node
      /\ pc'[u] \in Described =>
            states'[u][call'[u].idx].epoch =
               IF call'[u].node = NULL THEN 0 ELSE birth'[call'[u].node]
<1>3. ASSUME NEW u \in Tasks, u # t PROVE Names1(u)
  <2>1. pc'[u] = pc[u] /\ call'[u] = call[u]
    BY <1>1, <1>3, StepKeeps DEF Kept
  <2>2. /\ states'[u][call[u].idx].node = states[u][call[u].idx].node
        /\ states'[u][call[u].idx].epoch = states[u][call[u].idx].epoch
    BY <1>1, <1>2, <1>3, RequestSource
  <2>3. pc[u] \in Described /\ call[u].node # NULL =>
           birth'[call[u].node] = birth[call[u].node]
    BY NodeKept DEF Described, InCall
  <2> QED
    BY <2>1, <2>2, <2>3 DEF CallNames
<1>4. Names1(t)
  <2>1. CASE SlowStep(t) /\ pc'[t] \in Named
    <3> DEFINE j == call[t].idx
               n == call[t].node
    <3>1. call'[t].idx = j /\ call'[t].node = n /\ pc[t] \in InCall
      BY <1>1, <2>1, CallFixed DEF Named, SlowPC
    <3>2. n # NULL => birth'[n] = birth[n]
      BY <3>1, NodeKept
    <3>3. CASE SlowPointer(t)
      <4>1. pc[t] = "pointer" /\ pc'[t] = "epoch"
        BY <1>2, <3>3 DEF SlowPointer, Goto
      <4>2. states'[t][j].node = n
        <5>1. ~SlowEpoch(t)
          BY <4>1 DEF SlowEpoch
        <5>2. /\ states \in [Tasks -> [Idx -> Requests]]
              /\ states[t][j] \in Requests /\ j \in Idx
              /\ states' = [states EXCEPT ![t][j].cell = call[t].cell,
                                          ![t][j].node = n]
          BY <1>1, <1>2, <3>3, RequestFields DEF SlowPointer, TypeOK
        <5> QED
          BY <5>2 DEF Requests
      <4> QED
        BY <3>1, <4>1, <4>2 DEF Described
    <3>4. CASE SlowEpoch(t)
      <4>1. pc[t] = "epoch" /\ pc'[t] = "request"
        BY <1>2, <3>4 DEF SlowEpoch, Goto
      <4>2. states[t][j].node = n
        BY <4>1 DEF CallNames, Named, SlowPC
      <4>3. /\ states \in [Tasks -> [Idx -> Requests]]
            /\ states[t][j] \in Requests /\ j \in Idx
            /\ states' = [states EXCEPT ![t][j].epoch =
                             IF n = NULL THEN 0 ELSE birth[n]]
        BY <1>1, <1>2, <3>4, RequestFields DEF SlowEpoch, TypeOK
      <4>4. /\ states'[t][j].node = states[t][j].node
            /\ states'[t][j].epoch = IF n = NULL THEN 0 ELSE birth[n]
        BY <4>3 DEF Requests
      <4> QED
        BY <3>1, <3>2, <4>2, <4>4
    <3>5. CASE ~SlowPointer(t) /\ ~SlowEpoch(t)
      <4>1. /\ states'[t][j].node = states[t][j].node
            /\ states'[t][j].epoch = states[t][j].epoch
        BY <1>1, <1>2, <3>5, RequestSource
      <4>2. pc'[t] # "epoch" /\ pc[t] \in Described
        <5>1. CASE StoreEpoch(t) \/ SlowStart(t)
          BY <1>2, <2>1, <5>1
             DEF StoreEpoch, SlowStart, Named, SlowPC, Goto
        <5>2. CASE ~StoreEpoch(t) /\ ~SlowStart(t)
          BY <1>2, <2>1, <3>5, <5>2
             DEF SlowStep, SlowRequest, SlowLoad, SlowCheck, SlowCas, SlowSlot,
                 SlowResult, SlowTake, SlowTag, SlowEnd, Goto, Described, Named,
                 SlowPC
        <5> QED
          BY <5>1, <5>2
      <4>3. /\ states[t][j].node = n
            /\ states[t][j].epoch = IF n = NULL THEN 0 ELSE birth[n]
        BY <4>2 DEF CallNames, Described, Named
      <4> QED
        BY <3>1, <3>2, <4>1, <4>3
    <3> QED
      BY <3>3, <3>4, <3>5
  <2>2. CASE pc'[t] \notin Named
    BY <2>2 DEF Named, Described
  <2>3. ~SlowStep(t) => pc'[t] \notin Named
    BY <1>1, OtherMoves DEF Slow, Named
  <2> QED
    BY <2>1, <2>2, <2>3
<1>5. ASSUME NEW u \in Tasks PROVE Names1(u)
  BY <1>3, <1>4
<1> QED
  BY <1>5 DEF CallNames

\* A request that is open was open before, or its owner has just made it.
LEMMA OpenStep ==
  ASSUME Inv, NEW t \in Tasks,
         SlowStep(t) \/ HelpStep(t) \/ ListStep(t) \/ PlainStep(t),
         NEW u \in Tasks, NEW j \in Idx, states'[u][j].ptr = INVPTR
  PROVE  \/ states[u][j].ptr = INVPTR
         \/ SlowRequest(t) /\ u = t /\ j = call[t].idx
BY RequestStep

\* A helper changes no slot whose owner waits for an answer, or has not asked.
LEMMA OpenSlot ==
  ASSUME Inv, NEW t \in Tasks, HelpSlot(t),
         NEW u \in Tasks, NEW j \in Idx, Serves(t, u, j)
  PROVE  states[u][j].ptr # INVPTR /\ pc[u] \in Asking /\ call[u].idx = j
<1>1. TypeOK /\ Served /\ Requested
  BY DEF Inv, TypeInv
<1>2. pc[t] \in Helping /\ pc[t] \in Through
  BY DEF HelpSlot, Helping, Through, Looping, HelpPC
<1>3. /\ pc[u] \in Asking /\ call[u].idx = j /\ help[t].last = tag[u][j]
  BY <1>1, <1>2, ServesAsking
<1>4. ~Pending(u, j, help[t].last)
  BY <1>1, <1>2 DEF Served, Serves
<1> QED
  BY <1>1, <1>3, <1>4 DEF Requested, Pending

\* Until the request is answered its slot holds what its owner last stored.
LEMMA CallOwnsNext ==
  ASSUME Inv, Inv', CallOwns, NEW t \in Tasks,
         SlowStep(t) \/ HelpStep(t) \/ ListStep(t) \/ PlainStep(t)
  PROVE  CallOwns'
<1>1. TypeOK /\ Requested /\ Served /\ Requested'
  BY DEF Inv, TypeInv
<1>2. /\ pc \in [Tasks -> PC] /\ call \in [Tasks -> Calls] /\ call[t] \in Calls
      /\ reservations \in [Tasks -> [AllIdx -> Epochs]]
      /\ tag \in [Tasks -> [Idx -> Tags]] /\ Idx \subseteq AllIdx
  BY <1>1, Names DEF TypeOK
<1> SUFFICES ASSUME NEW u \in Tasks, NEW j \in Idx, call'[u].idx = j,
                    \/ pc'[u] \in {"pointer", "epoch", "request"}
                    \/ states'[u][j].ptr = INVPTR
             PROVE  reservations'[u][j] = call'[u].prev /\ tag'[u][j] = call'[u].seqno
  BY DEF CallOwns
<1>3. pc'[u] \in SlowPC /\ (states'[u][j].ptr = INVPTR => pc'[u] \in Waiting)
  BY <1>1 DEF Requested, Waiting, Asking, SlowPC
<1>4. CASE u # t
  <2>1. pc'[u] = pc[u] /\ call'[u] = call[u]
    BY <1>1, <1>4, StepKeeps DEF Kept
  <2>2. \/ pc[u] \in {"pointer", "epoch", "request"}
        \/ states[u][j].ptr = INVPTR
    BY <1>4, <2>1, OpenStep
  <2>3. reservations'[u][j] = reservations[u][j]
    <3>1. ~(HelpSlot(t) /\ Serves(t, u, j))
      BY <2>2, OpenSlot DEF Asking
    <3> QED
      BY <1>4, <3>1, ReadSlotStep
  <2>4. tag'[u][j] = tag[u][j]
    <3>1. ~(/\ pc[u] \in Asking /\ call[u].idx = j /\ call[u].seqno = tag[u][j]
            /\ ~Pending(u, j, tag[u][j]))
      BY <1>1, <2>2 DEF Asking, Requested, Pending
    <3> QED
      BY <1>4, <3>1, TagAt
  <2> QED
    BY <2>1, <2>2, <2>3, <2>4 DEF CallOwns
<1>5. CASE u = t
  <2>1. SlowStep(t) /\ pc'[t] # "idle" /\ pc'[t] # "send"
    BY <1>1, <1>3, <1>5, OtherMoves DEF Slow, SlowPC
  <2>2. call'[t].idx = call[t].idx /\ call[t].idx = j
    BY <1>1, <1>5, <2>1, CallFixed
  <2>3. CASE StoreEpoch(t)
    BY <1>2, <1>3, <1>5, <2>3 DEF StoreEpoch, Goto, SlowPC
  <2>4. CASE SlowStart(t)
    <3>1. call'[t] = [call[t] EXCEPT !.prev = reservations[t][call[t].idx],
                                     !.seqno = tag[t][call[t].idx]]
      BY <1>2, <2>4 DEF SlowStart
    <3>2. /\ call'[t].prev = reservations[t][j] /\ call'[t].seqno = tag[t][j]
      BY <1>2, <2>2, <3>1 DEF Calls
    <3> QED
      BY <1>5, <2>4, <3>2 DEF SlowStart, slots
  <2>5. CASE SlowPointer(t) \/ SlowEpoch(t)
    <3>1. /\ pc[t] \in {"pointer", "epoch"}
          /\ UNCHANGED <<reservations, tag, call>>
      BY <2>5 DEF SlowPointer, SlowEpoch, slots
    <3> QED
      BY <1>5, <2>2, <3>1 DEF CallOwns
  <2>6. CASE SlowRequest(t)
    <3>1. pc[t] = "request" /\ UNCHANGED <<reservations, tag, call>>
      BY <2>6 DEF SlowRequest, slots
    <3> QED
      BY <1>5, <2>2, <3>1 DEF CallOwns
  <2>7. CASE ~(StoreEpoch(t) \/ SlowStart(t) \/ SlowPointer(t) \/ SlowEpoch(t)
               \/ SlowRequest(t))
    <3>1. pc[t] \in Asking
      BY <1>2, <2>1, <2>7
         DEF SlowStep, SlowLoad, SlowCheck, SlowCas, SlowSlot, SlowResult,
             SlowTake, SlowTag, SlowEnd, Asking, Goto
    <3>2. states'[t][j].ptr = INVPTR
      <4>1. pc'[t] \notin {"pointer", "epoch", "request"}
        <5>1. pc'[t] \in Asking \/ SlowTag(t)
          BY <2>1, <3>1, SlowMoves
        <5>2. SlowTag(t) => pc'[t] = "send"
          BY <1>2 DEF SlowTag, Goto
        <5> QED
          BY <5>1, <5>2 DEF Asking
      <4> QED
        BY <1>5, <4>1
    <3>3. states[t][j].ptr = INVPTR
      BY <2>7, <3>2, OpenStep
    <3>4. /\ reservations[t][j] = call[t].prev /\ tag[t][j] = call[t].seqno
          /\ pc[t] \in Waiting
      BY <1>1, <2>2, <3>3 DEF CallOwns, Requested
    <3>5. CASE SlowLoad(t) \/ SlowCheck(t)
      <4>1. UNCHANGED <<reservations, tag>>
        BY <3>5 DEF SlowLoad, SlowCheck, slots
      <4>2. call'[t].prev = call[t].prev /\ call'[t].seqno = call[t].seqno
        BY <1>2, <3>5 DEF SlowLoad, SlowCheck, Calls
      <4> QED
        BY <1>5, <3>4, <4>1, <4>2
    <3>6. CASE SlowCas(t)
      BY <1>5, <3>4, <3>6 DEF SlowCas, slots
    <3>7. CASE SlowSlot(t)
      <4>1. reservations' = [reservations EXCEPT ![t][j] = call[t].curr]
        BY <2>2, <3>4, <3>7 DEF SlowSlot, SlotIs
      <4>2. reservations'[t][j] = call[t].curr
        BY <1>2, <4>1
      <4>3. call'[t] = [call[t] EXCEPT !.prev = call[t].curr] /\ tag' = tag
        BY <1>2, <3>7 DEF SlowSlot
      <4>4. call'[t].prev = call[t].curr /\ call'[t].seqno = call[t].seqno
        BY <1>2, <4>3 DEF Calls
      <4> QED
        BY <1>5, <3>4, <4>2, <4>3, <4>4
    <3>8. CASE SlowResult(t)
      BY <1>5, <2>2, <3>3, <3>4, <3>8 DEF SlowResult, slots
    <3>9. CASE SlowTake(t) \/ SlowTag(t) \/ SlowEnd(t)
      BY <3>4, <3>9 DEF SlowTake, SlowTag, SlowEnd, Waiting, Asking
    <3> QED
      BY <2>1, <2>7, <3>5, <3>6, <3>7, <3>8, <3>9 DEF SlowStep
  <2> QED
    BY <2>3, <2>4, <2>5, <2>6, <2>7
<1> QED
  BY <1>4, <1>5

-----------------------------------------------------------------------------
\* Nothing is held through a slot as it is written: its owner is in a call with
\* it or clears it, or a helper is there in time.
LEMMA NothingHeld ==
  ASSUME Inv, CallHolds, LateHelp, NEW t \in Tasks,
         SlowStep(t) \/ HelpStep(t) \/ ListStep(t) \/ PlainStep(t),
         NEW u \in Tasks, NEW j \in Idx,
         reservations'[u][j] # reservations[u][j]
  PROVE  held[u][j] = NULL
<1>1. CASE StoreEpoch(t) /\ u = t /\ j = call[t].idx
  BY <1>1 DEF StoreEpoch, CallHolds, InCall
<1>2. CASE SlowSlot(t) /\ u = t /\ j = call[t].idx
  BY <1>2 DEF SlowSlot, CallHolds, InCall, SlowPC
<1>3. CASE SlowTake(t) /\ u = t /\ j = call[t].idx
  BY <1>3 DEF SlowTake, CallHolds, InCall, SlowPC
<1>4. CASE ClearSlot(t) /\ u = t /\ j = call[t].idx
  BY <1>4 DEF ClearSlot, CallHolds
<1>5. CASE HelpSlot(t) /\ Serves(t, u, j)
  BY <1>5 DEF HelpSlot, LateHelp, Moving
<1> QED
  BY <1>1, <1>2, <1>3, <1>4, <1>5, ReadSlotStep

\* What a thread holds stays guarded by its slot.
LEMMA HeldGuardedNext ==
  ASSUME Inv, Placed, RetiredOnce, Clock, Swept, CallHolds, HeldGuarded,
         LoadGuarded, LateHelp, NEW t \in Tasks,
         SlowStep(t) \/ HelpStep(t) \/ ListStep(t) \/ PlainStep(t)
  PROVE  HeldGuarded'
<1>1. TypeOK
  BY DEF Inv, TypeInv
<1> SUFFICES ASSUME NEW u \in Tasks, NEW j \in Idx, NEW o \in Objs,
                    held'[u][j] = o
             PROVE  Guarded(u, j, o)'
  BY DEF HeldGuarded
<1>2. o # NULL /\ j \in 1 .. PARENT
  BY ClientAssumption, Names
<1>3. CASE held'[u][j] = held[u][j]
  <2>1. Guarded(u, j, o)
    BY <1>3 DEF HeldGuarded
  <2>2. reservations'[u][j] = reservations[u][j]
    BY <1>2, <1>3, NothingHeld
  <2> QED
    BY <1>2, <2>1, <2>2, GuardedKept
<1>4. CASE /\ u = t /\ j = call[t].idx /\ held'[u][j] = call[t].ptr
           /\ CheckSame(t) /\ pc[t] = "check" /\ pc'[t] = "idle"
           /\ reservations[t][j] = epoch
  <2>1. Guarded(u, j, o)
    BY <1>4 DEF LoadGuarded, Loaded
  <2>2. reservations'[u][j] = reservations[u][j]
    BY <1>4 DEF CheckSame, slots
  <2> QED
    BY <1>2, <2>1, <2>2, GuardedKept
<1>5. CASE /\ u = t /\ j = call[t].idx /\ held'[u][j] = call[t].ptr
           /\ SlowCas(t) /\ pc[t] = "scas" /\ pc'[t] = "stag"
           /\ states[t][j].ptr = INVPTR
  <2>1. Guarded(u, j, o)
    BY <1>5 DEF LoadGuarded, Loaded
  <2>2. reservations'[u][j] = reservations[u][j]
    BY <1>5 DEF SlowCas, slots
  <2> QED
    BY <1>2, <2>1, <2>2, GuardedKept
<1> QED
  BY <1>1, <1>2, <1>3, <1>4, <1>5, HeldStep

-----------------------------------------------------------------------------
\* The same for the pointer that a read may return.
LEMMA LoadGuardedNext ==
  ASSUME Inv, Inv', Placed, RetiredOnce, Clock, Swept, CallHolds, CallOwns,
         LoadGuarded, NEW t \in Tasks,
         SlowStep(t) \/ HelpStep(t) \/ ListStep(t) \/ PlainStep(t)
  PROVE  LoadGuarded'
<1>1. TypeOK /\ Requested /\ Requested'
  BY DEF Inv, TypeInv
<1>2. /\ pc \in [Tasks -> PC] /\ call \in [Tasks -> Calls] /\ call[t] \in Calls
      /\ reservations \in [Tasks -> [AllIdx -> Epochs]] /\ Idx \subseteq AllIdx
  BY <1>1, Names DEF TypeOK
<1>3. /\ Epochs \subseteq Nat /\ epoch \in Nat
      /\ epoch' = epoch \/ epoch' = epoch + 1
  BY EpochStep
<1> SUFFICES ASSUME NEW u \in Tasks, NEW j \in Idx, NEW o \in Objs,
                    call'[u].idx = j, call'[u].ptr = o, Loaded(u, j)'
             PROVE  Guarded(u, j, o)'
  BY DEF LoadGuarded
<1>4. o # NULL /\ j \in 1 .. PARENT /\ j \in AllIdx
  BY ClientAssumption, Names
<1>5. pc'[u] \in {"check", "scheck", "scas"}
  BY DEF Loaded
<1>6. CASE u # t
  <2>1. pc'[u] = pc[u] /\ call'[u] = call[u]
    BY <1>1, <1>6, StepKeeps DEF Kept
  <2>2. pc[u] # "check" => states[u][j].ptr = INVPTR
    <3>1. pc[u] # "check" => states'[u][j].ptr = INVPTR
      BY <2>1 DEF Loaded
    <3> QED
      BY <1>6, <3>1, OpenStep
  <2>3. reservations'[u][j] = reservations[u][j]
    <3>1. ~(HelpSlot(t) /\ Serves(t, u, j))
      <4>1. HelpSlot(t) /\ Serves(t, u, j) =>
               states[u][j].ptr # INVPTR /\ pc[u] \in Asking
        BY OpenSlot
      <4> QED
        BY <1>5, <2>1, <2>2, <4>1 DEF Asking
    <3> QED
      BY <1>6, <3>1, ReadSlotStep
  <2>4. reservations[u][j] \in Nat /\ reservations[u][j] <= epoch
    <3>1. reservations[u][j] \in Epochs
      BY <1>2, <1>4
    <3> QED
      BY <1>3, <1>4, <3>1 DEF Clock, ClockSlots
  <2>5. pc[u] # "check" => reservations[u][j] = call[u].prev
    BY <2>1, <2>2 DEF CallOwns
  <2>6. Loaded(u, j)
    <3>1. CASE pc[u] = "check"
      <4>1. reservations'[u][j] = epoch'
        BY <2>1, <3>1 DEF Loaded
      <4>2. reservations[u][j] = epoch
        BY <1>3, <2>3, <2>4, <4>1
      <4> QED
        BY <3>1, <4>2 DEF Loaded
    <3>2. CASE pc[u] = "scheck"
      <4>1. call[u].prev = epoch'
        BY <2>1, <3>2 DEF Loaded
      <4>2. call[u].prev = epoch
        BY <1>3, <2>4, <2>5, <3>2, <4>1
      <4> QED
        BY <2>2, <3>2, <4>2 DEF Loaded
    <3>3. CASE pc[u] = "scas"
      BY <2>2, <3>3 DEF Loaded
    <3> QED
      BY <1>5, <2>1, <3>1, <3>2, <3>3
  <2>7. Guarded(u, j, o)
    BY <2>1, <2>6 DEF LoadGuarded
  <2> QED
    BY <1>4, <2>3, <2>7, GuardedKept
<1>7. CASE u = t
  <2>1. CASE pc'[t] = "check"
    <3>1. reservations'[t][j] = epoch'
      BY <1>7, <2>1 DEF Loaded
    <3>2. CASE SlowStep(t)
      <4>1. call'[t].ptr = call[t].ptr /\ call[t].op # "read" /\ pc[t] = "store"
        BY <1>1, <2>1, <3>2, CallFixed
      <4> QED
        BY <1>4, <1>7, <4>1 DEF CallHolds
    <3>3. ASSUME NEW d \in Cells \union {NULL}, call'[t].ptr = Load(d),
                 UNCHANGED <<epoch, reservations>>
          PROVE  Guarded(u, j, o)'
      <4>1. d \in Cells /\ cell[d] = o
        BY <1>4, <1>7, <3>3 DEF Load
      <4>2. Guarded(t, j, o)
        BY <3>1, <3>3, <4>1, LoadGuards
      <4> QED
        BY <1>4, <1>7, <3>3, <4>2, GuardedKept
    <3>4. CASE ReadLoad(t)
      <4>1. call'[t] = [call[t] EXCEPT !.ptr = Load(call[t].cell)]
        BY <1>2, <3>4 DEF ReadLoad
      <4>2. call'[t].ptr = Load(call[t].cell)
        BY <1>2, <4>1 DEF Calls
      <4>3. UNCHANGED <<epoch, reservations>>
        BY <3>4 DEF ReadLoad, slots
      <4>4. call[t].cell \in Cells \union {NULL}
        BY <1>1, CallFields
      <4> QED
        BY <3>3, <4>2, <4>3, <4>4
    <3>5. ASSUME NEW c \in Cells, NEW k \in Idx, NEW n \in Ptrs, Read(t, c, k, n)
          PROVE  Guarded(u, j, o)'
      <4>1. call'[t] = [NoCall EXCEPT !.op = "read", !.idx = k, !.cell = c,
                           !.node = n, !.ptr = cell[c], !.attempts = Attempts]
        BY <1>2, <3>5 DEF Read
      <4>2. call'[t].ptr = cell[c] /\ call'[t].idx = k
        BY <4>1 DEF NoCall
      <4>3. UNCHANGED <<epoch, reservations>>
        BY <3>5 DEF Read, slots
      <4>4. Guarded(t, j, o)
        BY <1>7, <3>1, <4>2, <4>3, LoadGuards
      <4> QED
        BY <1>4, <1>7, <4>3, <4>4, GuardedKept
    <3>6. ASSUME NEW k \in Idx, NEW n \in Ptrs, Reserve(t, k, n) PROVE FALSE
      <4>1. call'[t] = [NoCall EXCEPT !.op = "reserve", !.idx = k, !.node = n,
                                      !.attempts = Attempts]
        BY <1>2, <3>6 DEF Reserve
      <4>2. call'[t].ptr = NULL
        BY <4>1 DEF NoCall
      <4> QED
        BY <1>4, <1>7, <4>2
    <3>7. ~(\/ HelpStep(t) \/ ListStep(t) \/ AllocAdvance(t) \/ AllocBirth(t)
            \/ CheckSame(t) \/ CheckNew(t) \/ Clear(t) \/ ClearSlot(t)
            \/ CopySlot(t) \/ EmptyEnds(t) \/ EmptyDone(t))
      <4>1. ~HelpStep(t) /\ ~ListStep(t)
        BY <1>1, <2>1, HelpKeeps, ListKeeps DEF HelpPC
      <4> QED
        BY <1>2, <2>1, <4>1
           DEF AllocAdvance, AllocBirth, CheckSame, CheckNew, Clear, ClearSlot,
               CopySlot, EmptyEnds, EmptyDone, Goto
    <3> QED
      BY <3>2, <3>4, <3>5, <3>6, <3>7 DEF PlainStep
  <2>2. CASE pc'[t] = "scheck"
    <3>1. SlowLoad(t)
      <4>1. SlowStep(t)
        BY <1>1, <2>2, OtherMoves DEF Slow, SlowPC
      <4> QED
        BY <1>2, <2>2, <4>1
           DEF SlowStep, StoreEpoch, SlowStart, SlowPointer, SlowEpoch,
               SlowRequest, SlowCheck, SlowCas, SlowSlot, SlowResult, SlowTake,
               SlowTag, SlowEnd, Goto
    <3>2. call'[t] = [call[t] EXCEPT !.ptr = Load(call[t].cell)]
          /\ UNCHANGED <<epoch, states, reservations>>
      BY <1>2, <3>1 DEF SlowLoad, slots
    <3>3. /\ call'[t].ptr = Load(call[t].cell) /\ call'[t].idx = call[t].idx
          /\ call'[t].prev = call[t].prev
      BY <1>2, <3>2 DEF Calls
    <3>4. states[t][j].ptr = INVPTR /\ call[t].prev = epoch
      BY <1>7, <2>2, <3>2, <3>3 DEF Loaded
    <3>5. reservations[t][j] = epoch
      BY <1>7, <3>3, <3>4 DEF CallOwns
    <3>6. call[t].cell \in Cells /\ cell[call[t].cell] = o
      <4>1. call[t].cell \in Cells \union {NULL}
        BY <1>1, CallFields
      <4> QED
        BY <1>4, <1>7, <3>3, <4>1 DEF Load
    <3>7. Guarded(t, j, o)
      BY <3>5, <3>6, LoadGuards
    <3> QED
      BY <1>4, <1>7, <3>2, <3>7, GuardedKept
  <2>3. CASE pc'[t] = "scas"
    <3>1. SlowCheck(t)
      <4>1. SlowStep(t)
        BY <1>1, <2>3, OtherMoves DEF Slow, SlowPC
      <4> QED
        BY <1>2, <2>3, <4>1
           DEF SlowStep, StoreEpoch, SlowStart, SlowPointer, SlowEpoch,
               SlowRequest, SlowLoad, SlowCas, SlowSlot, SlowResult, SlowTake,
               SlowTag, SlowEnd, Goto
    <3>2. /\ call'[t] = [call[t] EXCEPT !.curr = epoch]
          /\ epoch = call[t].prev /\ pc[t] = "scheck"
          /\ UNCHANGED <<epoch, states, reservations>>
      BY <1>2, <2>3, <3>1 DEF SlowCheck, slots, Goto
    <3>3. call'[t].ptr = call[t].ptr /\ call'[t].idx = call[t].idx
      BY <1>2, <3>2 DEF Calls
    <3>4. Loaded(t, j)
      BY <1>7, <2>3, <3>2 DEF Loaded
    <3>5. Guarded(t, j, o)
      BY <1>7, <3>3, <3>4 DEF LoadGuarded
    <3> QED
      BY <1>4, <1>7, <3>2, <3>5, GuardedKept
  <2> QED
    BY <1>5, <1>7, <2>1, <2>2, <2>3
<1> QED
  BY <1>6, <1>7

-----------------------------------------------------------------------------
\* A request that was made and is the last of its slot was the last before.
LEMMA LastKept ==
  ASSUME Inv, NEW t \in Tasks,
         SlowStep(t) \/ HelpStep(t) \/ ListStep(t) \/ PlainStep(t),
         NEW v \in Tasks, pc[v] \in Helping, NEW u \in Tasks, NEW j \in Idx,
         Who(v) = <<u, j>>, help[v].last = tag'[u][j]
  PROVE  tag'[u][j] = tag[u][j] /\ Serves(v, u, j)
<1>1. TypeOK /\ Served
  BY DEF Inv, TypeInv
<1>2. /\ tag[u][j] \in Nat /\ help[v].last \in Nat /\ call[u].seqno \in Nat
      /\ call[t].seqno \in Nat
  <2>1. /\ tag[u][j] \in Tags /\ help[v].last \in Tags
        /\ call[u].seqno \in Tags /\ call[t].seqno \in Tags
    BY <1>1, CallFields, HelpFields DEF TypeOK
  <2>2. Tags \subseteq Nat
    BY ParamAssumption DEF Tags
  <2> QED
    BY <2>1, <2>2
<1>3. Issued(u, j, help[v].last)
  BY <1>1 DEF Served
<1>4. tag'[u][j] = tag[u][j]
  BY <1>2, <1>3, TagAt DEF Issued
<1> QED
  BY <1>4 DEF Serves

\* What a helper at work on the last request of a slot does.
LEMMA ServesStep ==
  ASSUME Inv, NEW t \in Tasks, HelpStep(t), pc'[t] \in Helping \ {"hepoch"},
         NEW u \in Tasks, NEW j \in Idx, Serves(t, u, j)'
  PROVE  pc[t] \in Helping /\ Serves(t, u, j)
<1>1. TypeOK
  BY DEF Inv, TypeInv
<1>2. pc \in [Tasks -> PC] /\ help \in [Tasks -> Helps]
  BY <1>1 DEF TypeOK
<1> USE DEF Helping, Looping, HelpPC
<1>3. /\ pc[t] \in Helping
      /\ help'[t].pos = help[t].pos /\ help'[t].last = help[t].last
  <2>1. ~HelpEnds(t) /\ ~HelpStarts(t)
    BY <1>2 DEF HelpEnds, HelpStarts, Goto
  <2>2. ~NextSlot(t)
    BY <1>2 DEF NextSlot, Goto
  <2> QED
    BY <2>1, <2>2, HelpMoves
<1>4. Who(t) = <<u, j>> /\ help[t].last = tag'[u][j]
  BY <1>3 DEF Serves, Who
<1> QED
  BY <1>3, <1>4, LastKept

\* A helper that another thread's step leaves alone.
LEMMA ServesKept ==
  ASSUME Inv, NEW t \in Tasks,
         SlowStep(t) \/ HelpStep(t) \/ ListStep(t) \/ PlainStep(t),
         NEW v \in Tasks, v # t, pc'[v] \in Helping,
         NEW u \in Tasks, NEW j \in Idx, Serves(v, u, j)'
  PROVE  pc'[v] = pc[v] /\ help'[v] = help[v] /\ Serves(v, u, j)
<1>1. pc'[v] = pc[v] /\ help'[v] = help[v]
  BY StepKeeps DEF Kept, Inv, TypeInv
<1>2. Who(v) = <<u, j>> /\ help[v].last = tag'[u][j]
  BY <1>1 DEF Serves, Who
<1> QED
  BY <1>1, <1>2, LastKept

\* Nothing is held through the slot that a helper may still move.
LEMMA LateHelpNext ==
  ASSUME Inv, CallHolds, LateHelp, NEW t \in Tasks,
         SlowStep(t) \/ HelpStep(t) \/ ListStep(t) \/ PlainStep(t)
  PROVE  LateHelp'
<1>1. TypeOK /\ Served /\ Requested /\ pc \in [Tasks -> PC]
  BY DEF Inv, TypeInv, TypeOK
<1>2. Moving \subseteq Through /\ Through \subseteq Helping \ {"hepoch"}
  BY DEF Moving, Through, Helping, Looping, HelpPC
<1> SUFFICES ASSUME NEW v \in Tasks, NEW u \in Tasks, NEW j \in Idx,
                    pc'[v] \in Moving, Serves(v, u, j)'
             PROVE  held'[u][j] = NULL
  BY DEF LateHelp
<1>3. CASE v # t
  <2>1. pc'[v] = pc[v] /\ Serves(v, u, j)
    BY <1>2, <1>3, ServesKept
  <2>2. held[u][j] = NULL
    BY <2>1 DEF LateHelp
  <2>3. pc[u] \in Asking /\ help[v].last = tag[u][j] /\ pc[v] \in Through
    BY <1>1, <1>2, <2>1, ServesAsking
  <2>4. states[u][j].ptr # INVPTR
    <3>1. ~Pending(u, j, tag[u][j])
      BY <1>1, <2>1, <2>3 DEF Served, Serves
    <3> QED
      BY <1>1, <3>1 DEF Pending, Requested
  <2> QED
    BY <1>1, <2>2, <2>3, <2>4, HeldStep DEF Asking
<1>4. CASE v = t
  <2>1. HelpStep(t)
    BY <1>1, <1>4, SlowKeeps, ListKeeps, PlainKeeps DEF Moving, Slow, SlowPC
  <2>2. Serves(t, u, j) /\ pc[t] \in Helping
    BY <1>2, <1>4, <2>1, ServesStep
  <2>3. held' = held
    BY <2>1, HelpFrame
  <2>4. CASE pc[t] \in Moving
    BY <2>2, <2>3, <2>4 DEF LateHelp
  <2>5. CASE pc[t] \notin Moving
    <3>1. HelpCas(t) /\ Unanswered(t)
      BY <1>1, <1>4, <2>1, <2>2, <2>5
         DEF HelpStep, HelpEnds, HelpStarts, HelpLook, HelpEpoch, HelpParent,
             HelpPointer, HelpSeqno, HelpFirst, HelpStore, HelpLoad, HelpCheck,
             HelpAgain, HelpCas, HelpOldTag, HelpOldEpoch, HelpSlot,
             HelpRelease, HelpClear, NextSlot, Goto, Moving
    <3>2. pc[u] \in Waiting /\ call[u].idx = j
      BY <1>1, <2>2, <3>1 DEF Unanswered, Pending, Requested, Serves
    <3>3. held[u][j] = NULL
      BY <3>2 DEF CallHolds, InCall, SlowPC, Waiting, Asking
    <3> QED
      BY <2>3, <3>3
  <2> QED
    BY <2>4, <2>5
<1> QED
  BY <1>3, <1>4

\* What a helper took from the request is what is there.
LEMMA HelpCopiesNext ==
  ASSUME Inv, HelpCopies, NEW t \in Tasks,
         SlowStep(t) \/ HelpStep(t) \/ ListStep(t) \/ PlainStep(t)
  PROVE  HelpCopies'
<1>1. TypeOK /\ Served /\ pc \in [Tasks -> PC] /\ help \in [Tasks -> Helps]
      /\ reservations \in [Tasks -> [AllIdx -> Epochs]] /\ PARENT \in AllIdx
  BY Names DEF Inv, TypeInv, TypeOK
<1> DEFINE Taking == {"hparent", "hpointer", "hseqno"}
<1>2. Taking \subseteq Helping \ {"hepoch"}
  BY DEF Helping, Looping, HelpPC
<1> SUFFICES ASSUME NEW v \in Tasks, NEW u \in Tasks, NEW j \in Idx,
                    pc'[v] \in Taking, Serves(v, u, j)'
             PROVE  /\ pc'[v] = "hparent" => help'[v].epoch = states'[u][j].epoch
                    /\ pc'[v] \in {"hpointer", "hseqno"} =>
                          reservations'[v][PARENT] = states'[u][j].epoch
                    /\ pc'[v] = "hseqno" => help'[v].node = states'[u][j].node
  BY DEF HelpCopies
<1>3. v = t => HelpStep(t)
  BY <1>1, SlowKeeps, ListKeeps, PlainKeeps DEF Slow, SlowPC
<1>4. Serves(v, u, j) /\ pc[v] \in Helping
  BY <1>2, <1>3, ServesKept, ServesStep
<1>5. /\ states'[u][j].epoch = states[u][j].epoch
      /\ states'[u][j].node = states[u][j].node
  <2>1. pc[u] \in Asking
    BY <1>1, <1>4, ServesAsking
  <2>2. ~(SlowPointer(t) /\ u = t) /\ ~(SlowEpoch(t) /\ u = t)
    BY <2>1 DEF SlowPointer, SlowEpoch, Asking
  <2> QED
    BY <1>1, <2>2, RequestSource
<1>6. CASE v # t
  <2>1. pc'[v] = pc[v] /\ help'[v] = help[v]
    BY <1>2, <1>6, ServesKept
  <2>2. reservations'[v][PARENT] = reservations[v][PARENT]
    BY <1>6, ParentSlotStep
  <2> QED
    BY <1>4, <1>5, <2>1, <2>2 DEF HelpCopies
<1>7. CASE v = t
  <2>1. help[t] \in Helps /\ HelpStep(t) /\ Who(t) = <<u, j>>
    BY <1>1, <1>3, <1>4, <1>7 DEF Serves
  <2>2. HelpEpoch(t) \/ HelpParent(t) \/ HelpPointer(t)
    BY <1>1, <1>4, <1>7, <2>1
       DEF HelpStep, HelpEnds, HelpStarts, HelpLook, HelpEpoch, HelpParent,
           HelpPointer, HelpSeqno, HelpFirst, HelpStore, HelpLoad, HelpCheck,
           HelpAgain, HelpCas, HelpOldTag, HelpOldEpoch, HelpSlot, HelpRelease,
           HelpClear, NextSlot, Goto
  <2>3. CASE HelpEpoch(t)
    <3>1. help'[t] = [help[t] EXCEPT !.epoch = states[u][j].epoch]
          /\ pc'[t] = "hparent"
      BY <1>1, <2>1, <2>3 DEF HelpEpoch, Goto
    <3>2. help'[t].epoch = states[u][j].epoch
      BY <2>1, <3>1 DEF Helps
    <3> QED
      BY <1>5, <1>7, <3>1, <3>2
  <2>4. CASE HelpParent(t)
    <3>1. pc[t] = "hparent" /\ pc'[t] = "hpointer"
          /\ reservations' = [reservations EXCEPT ![t][PARENT] = help[t].epoch]
      BY <1>1, <2>4 DEF HelpParent, Goto
    <3>2. reservations'[t][PARENT] = help[t].epoch
      BY <1>1, <3>1
    <3> QED
      BY <1>4, <1>5, <1>7, <3>1, <3>2 DEF HelpCopies
  <2>5. CASE HelpPointer(t)
    <3>1. /\ pc[t] = "hpointer" /\ pc'[t] = "hseqno"
          /\ help'[t] = [help[t] EXCEPT !.cell = states[u][j].cell,
                                        !.node = states[u][j].node]
          /\ reservations' = reservations
      BY <1>1, <2>1, <2>5 DEF HelpPointer, Goto, slots
    <3>2. help'[t].node = states[u][j].node
      BY <2>1, <3>1 DEF Helps
    <3> QED
      BY <1>4, <1>5, <1>7, <3>1, <3>2 DEF HelpCopies
  <2> QED
    BY <2>2, <2>3, <2>4, <2>5
<1> QED
  BY <1>6, <1>7

-----------------------------------------------------------------------------
\* Whoever has copied a parent slot has copied all slots for reads before.
LEMMA ParentLater ==
  ASSUME NEW v \in Tasks, NEW t \in Tasks, Copied(v, t, PARENT),
         NEW u \in Tasks, NEW k \in Idx,
         pc[v] = "copy" => scan[v].pos \in 1 .. LastSlot
  PROVE  Copied(v, u, k)
<1>1. CASE pc[v] \in Sweeping
  BY <1>1 DEF Copied
<1>2. CASE pc[v] = "copy"
  <2>1. PICK m \in 1 .. scan[v].pos - 1 : CopyAt(m) = <<t, PARENT>>
    BY <1>2 DEF Copied, Sweeping
  <2>2. /\ OwnSlots \in Nat /\ TaskNum \in Nat /\ LastSlot \in Nat
        /\ scan[v].pos \in Nat /\ scan[v].pos <= LastSlot
        /\ PARENT \in 1 .. PARENT /\ PARENT \notin Idx /\ k \in 1 .. PARENT
    BY <1>2, Names, ParamAssumption DEF LastSlot, PARENT, Idx
  <2>3. m \in 1 .. LastSlot
    BY <2>2
  <2>4. PICK n \in 1 .. LastSlot : CopyAt(n) = <<t, PARENT>> /\ ~(n <= OwnSlots)
    BY <2>2, CopyAtOnto
  <2>5. m = n
    BY <2>1, <2>3, <2>4, CopyAtOnce
  <2>6. PICK l \in 1 .. LastSlot : CopyAt(l) = <<u, k>> /\ l <= OwnSlots
    BY <2>2, CopyAtOnto
  <2>7. l \in 1 .. scan[v].pos - 1
    BY <2>1, <2>2, <2>4, <2>5, <2>6
  <2> QED
    BY <1>2, <2>6, <2>7 DEF Copied
<1> QED
  BY <1>1, <1>2 DEF Copied

\* A parent slot with the birth of a node guards the node when a thread holds
\* it, though the thread may let go of it later: empty copies the slot of that
\* thread before, the parent slots last.
LEMMA ParentTakesOver ==
  ASSUME Inv, NEW t \in Tasks, NEW u \in Tasks, NEW k \in Idx, NEW o \in Objs,
         Guarded(u, k, o), reservations[t][PARENT] = birth[o]
  PROVE  Guarded(t, PARENT, o)
<1>1. TypeOK
  BY DEF Inv, TypeInv
<1>2. /\ birth[o] \in Nat /\ reservations[u][k] \in Nat /\ retireEpoch[o] \in Nat
  <2>1. /\ birth[o] \in Epochs /\ reservations[u][k] \in Epochs
        /\ retireEpoch[o] \in Epochs
    BY <1>1, Names DEF TypeOK
  <2> QED
    BY <2>1, ParamAssumption DEF Epochs
<1>3. \A v \in Tasks : scan[v].pos \in 1 .. LastSlot
  BY <1>1, ScanFields DEF LastSlot
<1>4. ASSUME NEW v \in Tasks, o \in retired[v], Copied(v, t, PARENT)
      PROVE  Sheltered(v, o)
  <2>1. Copied(v, u, k)
    BY <1>3, <1>4, ParentLater
  <2> QED
    BY <1>4, <2>1 DEF Guarded
<1>5. status[o] = "retired" => birth[o] <= retireEpoch[o]
  BY <1>2 DEF Guarded
<1> QED
  BY <1>2, <1>4, <1>5 DEF Guarded

\* The parent slot guards the node whose field the helper reads.
LEMMA ParentGuardedNext ==
  ASSUME Inv, Placed, RetiredOnce, Clock, Swept, CallHolds, CallNames,
         HeldGuarded, HelpCopies, ParentGuarded, NEW t \in Tasks,
         SlowStep(t) \/ HelpStep(t) \/ ListStep(t) \/ PlainStep(t)
  PROVE  ParentGuarded'
<1>1. /\ TypeOK /\ Served /\ pc \in [Tasks -> PC] /\ help \in [Tasks -> Helps]
      /\ PARENT \in 1 .. PARENT
  BY Names, ParamAssumption DEF Inv, TypeInv, TypeOK, PARENT
<1> SUFFICES ASSUME NEW v \in Tasks, NEW o \in Objs,
                    pc'[v] \in Reading, help'[v].node = o
             PROVE  Guarded(v, PARENT, o)'
  BY DEF ParentGuarded
<1>2. CASE v # t
  <2>1. pc'[v] = pc[v] /\ help'[v] = help[v]
    BY <1>1, <1>2, StepKeeps DEF Kept
  <2>2. Guarded(v, PARENT, o)
    BY <2>1 DEF ParentGuarded
  <2>3. reservations'[v][PARENT] = reservations[v][PARENT]
    BY <1>2, ParentSlotStep
  <2> QED
    BY <1>1, <2>2, <2>3, GuardedKept
<1>3. CASE v = t
  <2>1. HelpStep(t)
    BY <1>1, <1>3, SlowKeeps, ListKeeps, PlainKeeps DEF Slow, SlowPC, Reading
  <2>2. \/ HelpFirst(t) \/ HelpStore(t) \/ HelpLoad(t) \/ HelpCheck(t)
        \/ HelpAgain(t) \/ HelpSeqno(t)
    BY <1>1, <1>3, <2>1
       DEF HelpStep, HelpEnds, HelpStarts, HelpLook, HelpEpoch, HelpParent,
           HelpPointer, HelpCas, HelpOldTag, HelpOldEpoch, HelpSlot,
           HelpRelease, HelpClear, NextSlot, Goto, Reading
  <2>3. reservations'[t][PARENT] = reservations[t][PARENT]
    <3>1. ~HelpParent(t) /\ ~HelpClear(t)
      BY <1>1, <1>3 DEF HelpParent, HelpClear, NextSlot, Goto, Reading
    <3> QED
      BY <3>1, <2>1, ParentSlotStep
  <2>4. help'[t].node = help[t].node
    BY <1>1, <2>2
       DEF HelpFirst, HelpStore, HelpLoad, HelpCheck, HelpAgain, HelpSeqno, Helps
  <2>5. CASE ~HelpSeqno(t)
    <3>1. pc[t] \in Reading
      BY <2>2, <2>5
         DEF HelpFirst, HelpStore, HelpLoad, HelpCheck, HelpAgain, Reading
    <3>2. Guarded(t, PARENT, o)
      BY <1>3, <2>4, <3>1 DEF ParentGuarded
    <3> QED
      BY <1>1, <1>3, <2>3, <3>2, GuardedKept
  <2>6. CASE HelpSeqno(t)
    <3> DEFINE u == Who(t)[1]
               j == Who(t)[2]
    <3>1. pc[t] = "hseqno" /\ Current(t)
      BY <1>1, <1>3, <2>6 DEF HelpSeqno, Goto, Reading
    <3>2. u \in Tasks /\ j \in Idx /\ Who(t) = <<u, j>>
      <4>1. Who(t) \in Tasks \X Idx
        BY <1>1, HelpFields, SlotAtType DEF Who
      <4> QED
        BY <4>1
    <3>3. Serves(t, u, j)
      BY <3>1, <3>2 DEF Current, Serves
    <3>4. pc[u] \in Asking /\ call[u].idx = j
      BY <1>1, <3>1, <3>2, <3>3, ServesAsking DEF Helping, Looping, HelpPC
    <3>5. reservations[t][PARENT] = states[u][j].epoch
          /\ help[t].node = states[u][j].node
      BY <3>1, <3>2, <3>3 DEF HelpCopies
    <3>6. call[u].node = o /\ states[u][j].epoch = birth[o]
      <4>1. states[u][j].node = call[u].node
        BY <3>2, <3>4 DEF CallNames, Asking, Named, SlowPC
      <4>2. states[u][j].epoch =
               IF call[u].node = NULL THEN 0 ELSE birth[call[u].node]
        BY <3>2, <3>4 DEF CallNames, Asking, Described, SlowPC
      <4> QED
        BY <1>3, <2>4, <3>5, <4>1, <4>2, ClientAssumption
    <3>7. PICK k \in Idx : held[u][k] = o
      BY <3>2, <3>4, <3>6, ClientAssumption DEF CallHolds, InCall, Asking, SlowPC
    <3>8. Guarded(u, k, o)
      BY <3>2, <3>7 DEF HeldGuarded
    <3>9. Guarded(t, PARENT, o)
      BY <3>2, <3>5, <3>6, <3>8, ParentTakesOver
    <3> QED
      BY <1>1, <1>3, <2>3, <3>9, GuardedKept
  <2> QED
    BY <2>5, <2>6
<1> QED
  BY <1>2, <1>3

-----------------------------------------------------------------------------
\* All of it holds at the start, where nothing is shared, held or asked for.
LEMMA ShieldInit == Init => Shield
<1> SUFFICES ASSUME Init PROVE Shield
  OBVIOUS
<1>1. /\ TaskNum \in Nat \ {0} /\ NULL \notin Objs /\ INVPTR # NULL
      /\ NoCall.idx = 1 /\ NoCall.prev = 0 /\ NoCall.curr = 0
      /\ NoCall.node = NULL /\ NoHelp.prev = 0 /\ NoHelp.epoch = 0
      /\ NoRequest.epoch = 0 /\ NoRequest.stamp = 0 /\ NoRequest.ptr = NULL
  BY ClientAssumption, ParamAssumption, Names
     DEF NoCall, NoHelp, NoRequest, Ptrs
<1>2. \A t \in Tasks :
         /\ pc[t] = "idle" /\ call[t] = NoCall /\ help[t] = NoHelp
         /\ scan[t] = NoScan /\ retired[t] = {}
         /\ mine[t] = NULL /\ victim[t] = NULL
         /\ \A j \in AllIdx : reservations[t][j] = 0
         /\ \A j \in Idx : states[t][j] = NoRequest /\ held[t][j] = NULL
  BY DEF Init, ListInit, ClientInit
<1>3. \A o \in Objs : status[o] = "free" /\ birth[o] = 0
  BY DEF Init, ListInit, ClientInit
<1>4. Placed /\ RetiredOnce
  BY <1>2, <1>3, <1>1
     DEF Placed, RetiredOnce, Init, ListInit, ClientInit
<1>5. Clock
  BY <1>1, <1>2, <1>3
     DEF Init, Clock, ClockSlots, ClockLocals, ClockStates, ClockBlocks
<1>6. Swept /\ CallHolds /\ CallNames
  BY <1>2
     DEF Swept, Sweeping, CallHolds, InCall, SlowPC, CallNames, Named, Described
<1>7. CallOwns
  BY <1>1, <1>2 DEF CallOwns
<1>8. HeldGuarded /\ LoadGuarded
  BY <1>1, <1>2 DEF HeldGuarded, LoadGuarded, NoCall
<1>9. LateHelp /\ HelpCopies /\ ParentGuarded
  BY <1>2 DEF LateHelp, Moving, HelpCopies, ParentGuarded, Reading
<1> QED
  BY <1>4, <1>5, <1>6, <1>7, <1>8, <1>9 DEF Shield

\* Every step keeps it.
LEMMA ShieldNext == Inv /\ Inv' /\ Shield /\ [Next]_vars => Shield'
<1> SUFFICES ASSUME Inv, Inv', Shield, [Next]_vars
             PROVE  Shield'
  OBVIOUS
<1>1. /\ Placed /\ RetiredOnce /\ Clock /\ Swept /\ CallHolds /\ CallNames
      /\ CallOwns /\ HeldGuarded /\ LoadGuarded /\ LateHelp /\ HelpCopies
      /\ ParentGuarded
  BY DEF Shield
<1>2. ASSUME NEW t \in Tasks,
             SlowStep(t) \/ HelpStep(t) \/ ListStep(t) \/ PlainStep(t)
      PROVE  Shield'
  <2>1. Placed' /\ RetiredOnce' /\ Clock' /\ Swept'
    BY <1>1, <1>2, PlacedNext, ClockNext, SweptNext
  <2>2. CallHolds' /\ CallNames' /\ CallOwns'
    BY <1>1, <1>2, CallHoldsNext, CallNamesNext, CallOwnsNext
  <2>3. HeldGuarded' /\ LoadGuarded'
    BY <1>1, <1>2, HeldGuardedNext, LoadGuardedNext
  <2>4. LateHelp' /\ HelpCopies' /\ ParentGuarded'
    BY <1>1, <1>2, LateHelpNext, HelpCopiesNext, ParentGuardedNext
  <2> QED
    BY <2>1, <2>2, <2>3, <2>4 DEF Shield
<1>3. CASE UNCHANGED vars
  <2> USE <1>1, <1>3
      DEF vars, clientVars, slots, blocks, garbage, given, counters
  <2>1. Placed' /\ RetiredOnce'
    BY DEF Placed, RetiredOnce
  <2>2. Clock'
    BY DEF Clock, ClockSlots, ClockLocals, ClockStates, ClockBlocks
  <2>3. Swept' /\ CallHolds'
    BY DEF Swept, CanDelete, Outside, CallHolds
  <2>4. CallNames' /\ CallOwns'
    BY DEF CallNames, CallOwns
  <2>5. ASSUME NEW v \in Tasks, NEW t \in Tasks, NEW j \in 1 .. PARENT
        PROVE  Copied(v, t, j)' <=> Copied(v, t, j)
    BY DEF Copied
  <2>6. ASSUME NEW t \in Tasks, NEW j \in 1 .. PARENT, NEW o \in Objs,
               Guarded(t, j, o)
        PROVE  Guarded(t, j, o)'
    <3>1. ASSUME NEW v \in Tasks, Sheltered(v, o) PROVE Sheltered(v, o)'
      BY <2>5, <3>1 DEF Sheltered, Outside
    <3>2. ASSUME NEW v \in Tasks, o \in retired'[v], Copied(v, t, j)'
          PROVE  Sheltered(v, o)'
      BY <2>5, <2>6, <3>1, <3>2 DEF Guarded
    <3> QED
      BY <2>6, <3>2 DEF Guarded
  <2>7. HeldGuarded' /\ LoadGuarded' /\ ParentGuarded'
    <3>1. Idx \subseteq 1 .. PARENT /\ PARENT \in 1 .. PARENT
      BY Names, ParamAssumption DEF PARENT
    <3>2. HeldGuarded'
      BY <2>6, <3>1 DEF HeldGuarded
    <3>3. ASSUME NEW t \in Tasks, NEW j \in Idx, Loaded(t, j)'
          PROVE  Loaded(t, j)
      BY <3>3 DEF Loaded
    <3>4. LoadGuarded'
      BY <2>6, <3>1, <3>3 DEF LoadGuarded
    <3>5. ParentGuarded'
      BY <2>6, <3>1 DEF ParentGuarded
    <3> QED
      BY <3>2, <3>4, <3>5
  <2>8. LateHelp' /\ HelpCopies'
    BY DEF LateHelp, HelpCopies, Serves, Who
  <2> QED
    BY <2>1, <2>2, <2>3, <2>4, <2>7, <2>8 DEF Shield
<1> QED
  BY <1>2, <1>3, Steps

LEMMA ShieldInvariance == Spec => [](Inv /\ Shield)
<1>1. (Inv /\ Shield) /\ [Next]_vars => (Inv /\ Shield)'
  BY InvNext, ShieldNext
<1> QED
  BY <1>1, InvInit, ShieldInit, PTL DEF Spec

\* No block is lost, and none is freed twice: a retired block is on the list
\* of one thread, and on none before (retire, empty).
THEOREM NothingLost == Spec => []RetiredOnce
<1>1. Shield => RetiredOnce
  BY DEF Shield
<1> QED
  BY <1>1, ShieldInvariance, PTL

\* A block that read returned without help is not freed before its thread
\* reuses or clears the slot, whatever helpers do (read, slow_path, empty).
THEOREM OwnReads == Spec => []OwnReadsSafe
<1>1. Inv /\ Shield => OwnReadsSafe
  <2> SUFFICES ASSUME Inv, Shield, NEW t \in Tasks, NEW j \in Idx,
                      held[t][j] # NULL
               PROVE  status[held[t][j]] # "free"
    BY DEF OwnReadsSafe
  <2>1. held[t][j] \in Objs
    BY DEF Inv, TypeInv, TypeOK, Ptrs
  <2> QED
    BY <2>1 DEF Shield, HeldGuarded, Guarded
<1> QED
  BY <1>1, ShieldInvariance, PTL

\* The node whose field a helper reads is not freed, though its owner may have
\* let go of it: the parent slot keeps it (help_thread, empty).
THEOREM Parents == Spec => []ParentSafe
<1>1. Inv /\ Shield => ParentSafe
  <2> SUFFICES ASSUME Inv, Shield, NEW t \in Tasks, pc[t] = "hload",
                      help[t].node # NULL
               PROVE  status[help[t].node] # "free"
    BY DEF ParentSafe
  <2>1. help[t].node \in Objs
    BY HelpFields DEF Inv, TypeInv, Ptrs
  <2> QED
    BY <2>1 DEF Shield, ParentGuarded, Reading, Guarded
<1> QED
  BY <1>1, ShieldInvariance, PTL

-----------------------------------------------------------------------------
\* The references of a thread, one by one.
LEMMA GuardsOf ==
  ASSUME held \in [Tasks -> [Idx -> Ptrs]], NEW t \in Tasks
  PROVE  \A o : o \in guards[t] <=> o # NULL /\ \E j \in Idx : held[t][j] = o
BY DEF guards

\* Every step of the tracker is a step that module Reclamation allows.
LEMMA RefineNext ==
  Inv /\ Shield /\ Inv' /\ Shield' /\ [Next]_vars => [Promise!Next]_(Promise!vars)
<1> SUFFICES ASSUME Inv, Shield, Inv', Shield', [Next]_vars
             PROVE  Promise!Next \/ UNCHANGED <<Life, guards>>
  BY DEF Promise!vars
<1> USE DEF Life
<1>1. /\ held \in [Tasks -> [Idx -> Ptrs]] /\ held' \in [Tasks -> [Idx -> Ptrs]]
      /\ status \in [Objs -> Status] /\ status' \in [Objs -> Status]
      /\ mine \in [Tasks -> Ptrs] /\ victim \in [Tasks -> Ptrs]
      /\ cell \in [Cells -> Ptrs] /\ call \in [Tasks -> Calls]
      /\ retired \in [Tasks -> SUBSET Objs] /\ TypeOK
  BY DEF Inv, TypeInv, TypeOK, ListTypeOK, ClientTypeOK
<1>2. /\ Placed /\ RetiredOnce /\ CallHolds /\ HeldGuarded /\ LoadGuarded
      /\ HeldGuarded'
  BY DEF Shield
<1>3. held' = held => guards' = guards
  BY DEF guards
<1>4. ASSUME held' = held,
             \A o \in Objs : status'[o] = status[o]
                 \/ {status[o], status'[o]} \subseteq Status \ {"free", "retired"}
      PROVE  UNCHANGED <<Life, guards>>
  <2>1. \A o \in Objs : Life'[o] = Life[o]
    BY <1>4
  <2> QED
    BY <1>3, <1>4, <2>1
<1>5. ASSUME NEW t \in Tasks, NEW o \in Objs, o \in guards[t]
      PROVE  status[o] \notin {"free", "private"}
  <2>1. PICK j \in Idx : held[t][j] = o
    BY <1>1, <1>5, GuardsOf
  <2> QED
    BY <1>2, <2>1 DEF HeldGuarded, Guarded
<1>6. ASSUME NEW t \in Tasks, AllocCount(t) PROVE Promise!Next
  <2>1. PICK o \in Objs : Malloc(t, o)
    BY <1>6 DEF AllocCount
  <2>2. Promise!Alloc(o)
    BY <1>1, <1>3, <1>6, <2>1 DEF AllocCount, Malloc, Promise!Alloc, given
  <2> QED
    BY <2>2 DEF Promise!Next
<1>7. ASSUME NEW t \in Tasks, Add(t)
      PROVE  Promise!Next \/ UNCHANGED <<Life, guards>>
  <2>0. held' = held
    BY <1>7 DEF Add, given
  <2>1. CASE Discard(t)
    <3>1. mine[t] \in Objs /\ status[mine[t]] = "private"
      BY <1>1, <1>2, <2>1 DEF Discard, Placed, Ptrs
    <3>2. \A u \in Tasks : mine[t] \notin guards[u]
      BY <1>5, <3>1
    <3>3. Life' = [Life EXCEPT ![mine[t]] = "free"]
      BY <1>1, <2>1 DEF Discard
    <3>4. PICK o \in Objs : o = mine[t]
      BY <3>1
    <3>5. Promise!Discard(o)
      BY <1>3, <2>0, <3>1, <3>2, <3>3, <3>4 DEF Promise!Discard
    <3> QED
      BY <3>5 DEF Promise!Next
  <2>2. ASSUME NEW c \in Cells, Link(t, c) PROVE UNCHANGED <<Life, guards>>
    BY <1>1, <1>2, <1>4, <2>0, <2>2 DEF Link, Placed, Status
  <2> QED
    BY <1>7, <2>1, <2>2 DEF Add
<1>8. ASSUME NEW t \in Tasks, Remove(t) PROVE UNCHANGED <<Life, guards>>
  <2>1. held' = held
    BY <1>8 DEF Remove, given
  <2>2. PICK c \in Cells : Unlink(t, c)
    BY <1>8 DEF Remove
  <2> QED
    BY <1>1, <1>2, <1>4, <2>1, <2>2 DEF Unlink, Placed, Status
<1>9. ASSUME NEW t \in Tasks, Retire(t) PROVE Promise!Next
  <2>1. victim[t] \in Objs /\ status[victim[t]] = "unlinked"
    BY <1>1, <1>2, <1>9 DEF Retire, Push, HandOver, Placed, Ptrs
  <2>2. Life' = [Life EXCEPT ![victim[t]] = "retired"]
    BY <1>1, <1>9 DEF Retire, Push, HandOver
  <2>3. guards' = guards
    BY <1>3, <1>9 DEF Retire, given
  <2>4. PICK o \in Objs : o = victim[t]
    BY <2>1
  <2>5. Promise!Retire(o)
    BY <2>1, <2>2, <2>3, <2>4 DEF Promise!Retire
  <2> QED
    BY <2>5 DEF Promise!Next
<1>10. ASSUME NEW t \in Tasks, EmptyStarts(t) \/ Recheck(t)
       PROVE  Promise!Next \/ UNCHANGED <<Life, guards>>
  <2>1. held' = held
    BY <1>10 DEF EmptyStarts, Recheck, given
  <2>2. CASE UNCHANGED clientVars
    BY <1>4, <2>1, <2>2 DEF clientVars
  <2>3. CASE Reclaim(t, {scan[t].obj})
    <3>1. scan[t].obj \in retired[t]
      BY <1>10 DEF EmptyStarts, Recheck, Shield, Swept, Sweeping
    <3>2. PICK o \in Objs : o = scan[t].obj
      BY <1>1, <3>1
    <3>3. status[o] = "retired" /\ o # NULL
      BY <1>2, <3>1, <3>2, ClientAssumption DEF RetiredOnce
    <3>4. status' = [p \in Objs |-> IF p \in {o} THEN "free" ELSE status[p]]
      BY <2>3, <3>2 DEF Reclaim, Free
    <3>5. \A u \in Tasks : o \notin guards[u]
      <4>1. SUFFICES ASSUME NEW u \in Tasks, NEW j \in Idx, held[u][j] = o
                     PROVE  FALSE
        BY <1>1, GuardsOf
      <4>2. Guarded(u, j, o)'
        BY <1>2, <2>1, <4>1 DEF HeldGuarded
      <4> QED
        BY <3>4, <4>2 DEF Guarded
    <3>6. Life' = [p \in Objs |-> IF p \in {o} THEN "free" ELSE Life[p]]
      BY <1>1, <3>4
    <3>7. Promise!Reclaim({o})
      BY <1>3, <2>1, <3>3, <3>5, <3>6 DEF Promise!Reclaim
    <3> QED
      BY <3>7 DEF Promise!Next
  <2> QED
    BY <1>10, <2>2, <2>3 DEF EmptyStarts, Recheck
<1>11. ASSUME UNCHANGED clientVars, NEW t \in Tasks, NEW J \in SUBSET Idx,
              held' = [held EXCEPT ![t] = [j \in Idx |->
                           IF j \in J THEN NULL ELSE held[t][j]]]
       PROVE  Promise!Next
  <2>1. \A u \in Tasks \ {t} : guards'[u] = guards[u]
    BY <1>1, <1>11 DEF guards
  <2>2. guards'[t] \subseteq guards[t] /\ guards[t] \subseteq Objs
    BY <1>1, <1>11 DEF guards, Ptrs
  <2>3. PICK S \in SUBSET Objs : S = guards[t] \ guards'[t]
    BY <2>2
  <2>4. guards'[t] = guards[t] \ S
    BY <2>2, <2>3
  <2>5. guards' = [guards EXCEPT ![t] = @ \ S]
    BY <2>1, <2>4 DEF guards
  <2>6. Life' = Life
    BY <1>11 DEF clientVars
  <2>7. Promise!Release(t, S)
    BY <2>5, <2>6 DEF Promise!Release
  <2> QED
    BY <2>7 DEF Promise!Next
<1>12. ASSUME NEW t \in Tasks,
              \/ \E c \in Cells, j \in Idx, n \in Ptrs : Read(t, c, j, n)
              \/ \E j \in Idx, n \in Ptrs : Reserve(t, j, n)
       PROVE  Promise!Next
  <2>1. PICK i \in Idx : held' = [held EXCEPT ![t][i] = NULL]
    BY <1>12 DEF Read, Reserve
  <2>2. held' = [held EXCEPT ![t] = [j \in Idx |->
                     IF j \in {i} THEN NULL ELSE held[t][j]]]
    BY <1>1, <2>1
  <2>3. UNCHANGED clientVars
    BY <1>12 DEF Read, Reserve
  <2> QED
    BY <1>11, <2>2, <2>3
<1>13. ASSUME NEW t \in Tasks, Clear(t) PROVE Promise!Next
  <2>1. held' = [held EXCEPT ![t] = [j \in Idx |->
                     IF j \in Idx THEN NULL ELSE held[t][j]]]
    BY <1>1, <1>13 DEF Clear
  <2>2. UNCHANGED clientVars
    BY <1>13 DEF Clear
  <2> QED
    BY <1>11, <2>1, <2>2
<1>14. ASSUME NEW t \in Tasks, CheckSame(t) \/ SlowCas(t)
       PROVE  Promise!Next \/ UNCHANGED <<Life, guards>>
  <2> DEFINE j == call[t].idx
             p == call[t].ptr
  <2>1. UNCHANGED clientVars /\ j \in Idx /\ p \in Ptrs
    BY <1>1, <1>14, CallFields DEF CheckSame, SlowCas
  <2>2. Life' = Life
    BY <2>1 DEF clientVars
  <2>3. CASE held' = held
    BY <1>3, <2>2, <2>3
  <2>4. CASE held' = [held EXCEPT ![t][j] = p] /\ Loaded(t, j)
             /\ pc[t] \in {"check", "scas"}
    <3>1. held[t][j] = NULL
      BY <1>2, <2>4 DEF CallHolds, InCall, SlowPC
    <3>2. CASE p = NULL
      <4>1. held' = held
        BY <1>1, <2>1, <2>4, <3>1, <3>2
      <4> QED
        BY <1>3, <2>2, <4>1
    <3>3. CASE p # NULL
      <4>1. p \in Objs
        BY <2>1, <3>3 DEF Ptrs
      <4>2. status[p] # "free"
        BY <1>2, <2>1, <2>4, <4>1 DEF LoadGuarded, Guarded
      <4>3. \A u \in Tasks \ {t} : guards'[u] = guards[u]
        BY <1>1, <2>1, <2>4 DEF guards
      <4>4. guards'[t] = guards[t] \union {p}
        BY <1>1, <2>1, <2>4, <3>1, <3>3 DEF guards
      <4>5. guards' = [guards EXCEPT ![t] = @ \union {p}]
        BY <4>3, <4>4 DEF guards
      <4>6. Promise!Acquire(t, p)
        BY <2>2, <4>1, <4>2, <4>5 DEF Promise!Acquire
      <4> QED
        BY <4>1, <4>6 DEF Promise!Next
    <3> QED
      BY <3>2, <3>3
  <2>5. CASE CheckSame(t)
    BY <2>4, <2>5 DEF CheckSame, Loaded
  <2>6. CASE SlowCas(t)
    BY <2>3, <2>4, <2>6 DEF SlowCas, Loaded, Pending
  <2> QED
    BY <1>14, <2>5, <2>6
<1>15. ASSUME held' = held, UNCHANGED clientVars PROVE UNCHANGED <<Life, guards>>
  BY <1>4, <1>15 DEF clientVars
<1>16. ASSUME NEW t \in Tasks, SlowStep(t), ~SlowCas(t)
       PROVE  UNCHANGED <<Life, guards>>
  <2>1. held' = held
    BY <1>16
       DEF SlowStep, StoreEpoch, SlowStart, SlowPointer, SlowEpoch, SlowRequest,
           SlowLoad, SlowCheck, SlowSlot, SlowResult, SlowTake, SlowTag,
           SlowEnd, given
  <2> QED
    BY <1>1, <1>15, <1>16, <2>1, SlowKeeps
<1>17. ASSUME NEW t \in Tasks, HelpStep(t) PROVE UNCHANGED <<Life, guards>>
  BY <1>1, <1>15, <1>17, HelpKeeps, HelpFrame
<1>18. CASE UNCHANGED vars
  BY <1>15, <1>18 DEF vars, clientVars, given
<1>19. ASSUME NEW t \in Tasks, PlainStep(t)
       PROVE  Promise!Next \/ UNCHANGED <<Life, guards>>
  <2>1. UNCHANGED clientVars
    BY <1>1, <1>19, PlainKeeps
  <2> QED
    BY <1>12, <1>13, <1>14, <1>15, <1>19, <2>1, PlainFrame
<1>20. ASSUME NEW t \in Tasks, ListStep(t)
       PROVE  Promise!Next \/ UNCHANGED <<Life, guards>>
  BY <1>6, <1>7, <1>8, <1>9, <1>10, <1>20 DEF ListStep
<1> QED
  BY <1>14, <1>16, <1>17, <1>18, <1>19, <1>20, Steps

\* The initial states of the tracker are initial states of the promise.
LEMMA RefineInit == Init => Promise!Init
BY DEF Init, ListInit, ClientInit, Promise!Init, Life, guards

\* Wait-free eras implement the promise of a reclamation scheme to the data
\* structures, as far as a read that ends without help is concerned: a block
\* goes back to the allocator once, after it was retired, and while no thread
\* holds it.
THEOREM Implementation == Spec => Refines
<1>1. (Inv /\ Shield) /\ (Inv /\ Shield)' /\ [Next]_vars =>
         [Promise!Next]_(Promise!vars)
  BY RefineNext
<1> QED
  BY <1>1, RefineInit, ShieldInvariance, PTL DEF Refines, Promise!Spec, Spec
=============================================================================
