----------------------------- MODULE WFETracker -----------------------------
(***************************************************************************)
(* Wait-free eras (benchmark/src/trackers/WFETracker.hpp): hazard eras     *)
(* whose reads end.  A slot is a pair of an epoch and a tag.  A read that  *)
(* finds a new epoch too often asks for help: it publishes a request, and  *)
(* whoever is about to advance the epoch answers all requests first.  The  *)
(* answer is a pointer and an epoch, agreed on by compare-and-swap on the  *)
(* request; the epoch is then moved into the reader's slot by a            *)
(* compare-and-swap on the pair.  Two more slots per thread protect a      *)
(* helper: one the node that holds the cell, one the node it reads.        *)
(* Every access to a shared atomic is one step.                            *)
(***************************************************************************)
EXTENDS RetireList, FiniteSets

CONSTANTS
    HENum,      \* he_num: slots of a thread for its own reads
    Attempts,   \* rounds of the fast path (16 in the code)
    EpochFreq,  \* epochFreq * task_num: allocations of a thread per epoch
    Freq,       \* freq (emptyFreq): retirements between two calls of empty
    MaxEpoch,   \* bound: the epoch is not advanced beyond it
    MaxTag,     \* bound: the slow path is entered MaxTag times per slot
    Readers,    \* the threads that call read
    Reservers,  \* the threads that call reserve_slot
    Adders,     \* the threads that allocate and link
    Removers,   \* the threads that unlink and retire
    INVPTR      \* (uint64_t) -1: a request without an answer

Idx == 1 .. HENum
PARENT == HENum + 1     \* slot[he_num]: the node whose field a helper reads
HELPED == HENum + 2     \* slot[he_num+1]: the node a helper has read
AllIdx == 1 .. HENum + 2

ASSUME ParamAssumption ==
    /\ HENum \in Nat \ {0}
    /\ Attempts \in Nat \ {0}
    /\ EpochFreq \in Nat \ {0}
    /\ Freq \in Nat \ {0}
    /\ MaxEpoch \in Nat \ {0}
    /\ MaxTag \in Nat
    /\ INVPTR \notin Ptrs

VARIABLES
    epoch,          \* global epoch
    counterStart,   \* counter_start: slow paths entered
    counterEnd,     \* counter_end: slow paths left
    reservations,   \* reservations[t][j]: slot[j].pair[0], an epoch
    tag,            \* tag[t][j]: slot[j].pair[1]
    states,         \* states[t][j]: the request of t's slot j
    birth,          \* birth[o]: birth_epoch
    retireEpoch,    \* retireEpoch[o]: retire_epoch
    allocs,         \* alloc_counters[t], modulo EpochFreq
    retires,        \* retire_counters[t], modulo Freq
    local,          \* local[t][u][j]: t's copy of reservations[u][j]
    held,           \* held[t][j]: what t's own check let read return
    helped,         \* helped[t][j]: what read returned from an answer
    asked,          \* the requests pending when t started to help
    pc,             \* the next step
    call,           \* the locals of read, reserve_slot and slow_path
    help,           \* the locals of help_read and help_thread
    scan            \* the locals of empty

counters == <<counterStart, counterEnd>>
slots == <<reservations, tag>>
blocks == <<birth, retireEpoch>>
garbage == <<allocs, retires, retired, local>>
given == <<held, helped>>
vars == <<clientVars, epoch, counters, slots, states, blocks, garbage, given,
          asked, pc, call, help, scan>>

Epochs == 0 .. MaxEpoch
Tags == 0 .. MaxTag

\* A request: result is the pair of a pointer and, when answered, an epoch;
\* INVPTR and the tag of the slot until then.
Requests == [ptr : Ptrs \union {INVPTR}, stamp : Epochs \union Tags,
             epoch : Epochs, cell : Cells \union {NULL}, node : Ptrs]
NoRequest == [ptr |-> NULL, stamp |-> 0, epoch |-> 0, cell |-> NULL,
              node |-> NULL]

Calls == [op : {"none", "read", "reserve"}, idx : Idx,
          cell : Cells \union {NULL}, node : Ptrs, ptr : Ptrs,
          prev : Epochs, curr : Epochs, attempts : 0 .. Attempts, seqno : Tags]
NoCall == [op |-> "none", idx |-> 1, cell |-> NULL, node |-> NULL,
           ptr |-> NULL, prev |-> 0, curr |-> 0, attempts |-> 0, seqno |-> 0]

\* The slots in the order of the loops over threads and slots.
OwnSlots == TaskNum * HENum
SlotAt(k) == <<((k - 1) \div HENum) + 1, ((k - 1) % HENum) + 1>>

Helps == [pos : 1 .. OwnSlots, ends : Nat, last : Tags, epoch : Epochs,
          cell : Cells \union {NULL}, node : Ptrs, ptr : Ptrs,
          prev : Epochs, curr : Epochs, oldTag : Tags, old : Epochs]
NoHelp == [pos |-> 1, ends |-> 0, last |-> 0, epoch |-> 0, cell |-> NULL,
           node |-> NULL, ptr |-> NULL, prev |-> 0, curr |-> 0, oldTag |-> 0,
           old |-> 0]

\* empty copies the slots for reads of all threads, then their parent slots.
\* Its second look at a block begins with what helpers have read.
LastSlotOver == OwnSlots + TaskNum + 1   \* with <= for <
LastSlot == OwnSlots + TaskNum
CopyAt(k) == IF k <= OwnSlots THEN SlotAt(k) ELSE <<k - OwnSlots, PARENT>>
RecheckAt(k) == IF k <= TaskNum THEN <<k, HELPED>> ELSE SlotAt(k - TaskNum)

Scans == [pos : 1 .. OwnSlots + TaskNum, todo : SUBSET Objs, obj : Ptrs, ends : Nat]
NoScan == [pos |-> 1, todo |-> {}, obj |-> NULL, ends |-> 0]

\* The steps of slow_path up to the store of the next tag, and of help_read.
SlowPC == {"pointer", "epoch", "request", "sload", "scheck", "scas", "sslot",
           "sresult", "stake", "stag"}
HelpPC == {"hends", "hstarts", "hlook", "hepoch", "hparent", "hpointer",
           "hseqno", "hfirst", "hstore", "hload", "hcheck", "hcas", "hold",
           "holdepoch", "hslot", "hagain", "hrelease", "hclear"}
PC == SlowPC \union HelpPC \union
      {"idle", "load", "check", "store", "slow", "send", "clear", "advance",
       "birth", "copy", "ends", "starts", "recheck"}

TypeOK ==
    /\ ListTypeOK
    /\ epoch \in Epochs
    /\ counterStart \in Nat /\ counterEnd \in Nat
    /\ reservations \in [Tasks -> [AllIdx -> Epochs]]
    /\ tag \in [Tasks -> [Idx -> Tags]]
    /\ states \in [Tasks -> [Idx -> Requests]]
    /\ birth \in [Objs -> Epochs] /\ retireEpoch \in [Objs -> Epochs]
    /\ allocs \in [Tasks -> 0 .. EpochFreq - 1]
    /\ retires \in [Tasks -> 0 .. Freq - 1]
    /\ local \in [Tasks -> [Tasks -> [1 .. PARENT -> Epochs]]]
    /\ held \in [Tasks -> [Idx -> Ptrs]]
    /\ helped \in [Tasks -> [Idx -> Ptrs]]
    /\ asked \in [Tasks -> SUBSET (Tasks \X Idx \X Tags)]
    /\ pc \in [Tasks -> PC]
    /\ call \in [Tasks -> Calls]
    /\ help \in [Tasks -> Helps]
    /\ scan \in [Tasks -> Scans]

Init ==
    /\ ListInit
    /\ epoch = 1
    /\ counterStart = 0 /\ counterEnd = 0
    /\ reservations = [t \in Tasks |-> [j \in AllIdx |-> 0]]
    /\ tag = [t \in Tasks |-> [j \in Idx |-> 0]]
    /\ states = [t \in Tasks |-> [j \in Idx |-> NoRequest]]
    /\ birth = [o \in Objs |-> 0] /\ retireEpoch = [o \in Objs |-> 0]
    /\ allocs = [t \in Tasks |-> 0]
    /\ retires = [t \in Tasks |-> 0]
    /\ local = [t \in Tasks |-> [u \in Tasks |-> [j \in 1 .. PARENT |-> 0]]]
    /\ held = [t \in Tasks |-> [j \in Idx |-> NULL]]
    /\ helped = [t \in Tasks |-> [j \in Idx |-> NULL]]
    /\ asked = [t \in Tasks |-> {}]
    /\ pc = [t \in Tasks |-> "idle"]
    /\ call = [t \in Tasks |-> NoCall]
    /\ help = [t \in Tasks |-> NoHelp]
    /\ scan = [t \in Tasks |-> NoScan]

Goto(t, l) == pc' = [pc EXCEPT ![t] = l]

\* The node that a pointer to a cell leads to; reserve_slot passes nullptr.
Load(c) == IF c = NULL THEN NULL ELSE cell[c]

-----------------------------------------------------------------------------
\* The threads that help, each about to advance the epoch.
Advancing == {t \in Tasks : pc[t] \in HelpPC \union {"advance"}}

\* alloc, to help_read: the counter and the block.  Every EpochFreq calls the
\* thread helps, then advances the epoch (not beyond MaxEpoch).
AllocCount(t) ==
    /\ pc[t] = "idle"
    /\ allocs' = [allocs EXCEPT ![t] = (@ + 1) % EpochFreq]
    /\ \E o \in Objs : Malloc(t, o)
    /\ \/ /\ allocs'[t] = 0
          /\ epoch + Cardinality(Advancing) < MaxEpoch
          /\ Goto(t, "hends")
       \/ allocs'[t] # 0 /\ Goto(t, "birth")
    /\ UNCHANGED <<epoch, counters, slots, states, blocks, retires, retired,
                   local, given, asked, call, help, scan>>

\* alloc: the fetch_add, after help_read.
AllocAdvance(t) ==
    /\ pc[t] = "advance"
    /\ epoch' = epoch + 1
    /\ asked' = [asked EXCEPT ![t] = {}]
    /\ Goto(t, "birth")
    /\ UNCHANGED <<clientVars, counters, slots, states, blocks, garbage,
                   given, call, help, scan>>

\* alloc: the load of the epoch.
AllocBirth(t) ==
    /\ pc[t] = "birth"
    /\ birth' = [birth EXCEPT ![mine[t]] = epoch]
    /\ Goto(t, "idle")
    /\ UNCHANGED <<clientVars, epoch, counters, slots, states, retireEpoch,
                   garbage, given, asked, call, help, scan>>

\* Steps of the rideable that do not involve the tracker.
Add(t) ==
    /\ pc[t] = "idle"
    /\ Discard(t) \/ \E c \in Cells : Link(t, c)
    /\ UNCHANGED <<epoch, counters, slots, states, blocks, garbage, given,
                   asked, pc, call, help, scan>>

Remove(t) ==
    /\ pc[t] = "idle"
    /\ \E c \in Cells : Unlink(t, c)
    /\ UNCHANGED <<epoch, counters, slots, states, blocks, garbage, given,
                   asked, pc, call, help, scan>>

-----------------------------------------------------------------------------
\* read: the call and the first load of the cell; the caller gives up what it
\* got through slot j before.  The cell is a field of node n, a reference
\* that the thread holds in another slot, or a root when n is nullptr.
Read(t, c, j, n) ==
    /\ pc[t] = "idle"
    /\ n = NULL \/ \E k \in Idx \ {j} : held[t][k] = n
    /\ held' = [held EXCEPT ![t][j] = NULL]
    /\ helped' = [helped EXCEPT ![t][j] = NULL]
    /\ call' = [call EXCEPT ![t] =
            [NoCall EXCEPT !.op = "read", !.idx = j, !.cell = c, !.node = n,
                           !.ptr = cell[c], !.attempts = Attempts]]
    /\ Goto(t, "check")
    /\ UNCHANGED <<clientVars, epoch, counters, slots, states, blocks,
                   garbage, asked, help, scan>>

\* reserve_slot: the call.  The node only goes into the request.
Reserve(t, j, n) ==
    /\ pc[t] = "idle"
    /\ n = NULL \/ \E k \in Idx \ {j} : held[t][k] = n
    /\ held' = [held EXCEPT ![t][j] = NULL]
    /\ helped' = [helped EXCEPT ![t][j] = NULL]
    /\ call' = [call EXCEPT ![t] =
            [NoCall EXCEPT !.op = "reserve", !.idx = j, !.node = n,
                           !.attempts = Attempts]]
    /\ Goto(t, "check")
    /\ UNCHANGED <<clientVars, epoch, counters, slots, states, blocks,
                   garbage, asked, help, scan>>

\* read: the load of the cell in a later round of the fast path.
ReadLoad(t) ==
    /\ pc[t] = "load"
    /\ call' = [call EXCEPT ![t].ptr = Load(call[t].cell)]
    /\ Goto(t, "check")
    /\ UNCHANGED <<clientVars, epoch, counters, slots, states, blocks,
                   garbage, given, asked, help, scan>>

\* The fast path finds the epoch its slot holds: the call is over.
CheckSame(t) ==
    /\ pc[t] = "check"
    /\ epoch = reservations[t][call[t].idx]
    /\ held' = [held EXCEPT ![t][call[t].idx] = call[t].ptr]
    /\ call' = [call EXCEPT ![t] = NoCall]
    /\ Goto(t, "idle")
    /\ UNCHANGED <<clientVars, epoch, counters, slots, states, blocks,
                   garbage, helped, asked, help, scan>>

\* The fast path finds another epoch.
CheckNew(t) ==
    /\ pc[t] = "check"
    /\ epoch # reservations[t][call[t].idx]
    /\ call' = [call EXCEPT ![t].curr = epoch]
    /\ Goto(t, "store")
    /\ UNCHANGED <<clientVars, epoch, counters, slots, states, blocks,
                   garbage, given, asked, help, scan>>

\* The fast path publishes that epoch and goes round, Attempts times.  (A slot
\* that has been through the slow path MaxTag times stays on the fast path.)
StoreEpoch(t) ==
    LET r == call[t]
        more == r.attempts > 1 \/ tag[t][r.idx] = MaxTag
    IN
    /\ pc[t] = "store"
    /\ reservations' = [reservations EXCEPT ![t][r.idx] = r.curr]
    /\ \/ /\ more
          /\ call' = [call EXCEPT ![t].attempts = IF @ > 1 THEN @ - 1 ELSE @]
          /\ Goto(t, IF r.op = "read" THEN "load" ELSE "check")
       \/ /\ ~more
          /\ call' = [call EXCEPT ![t].attempts = 0]
          /\ Goto(t, "slow")
    /\ UNCHANGED <<clientVars, epoch, counters, tag, states, blocks, garbage,
                   given, asked, help, scan>>

-----------------------------------------------------------------------------
\* slow_path: its own slot, which nobody else writes now; counter_start.
SlowStart(t) ==
    /\ pc[t] = "slow"
    /\ counterStart' = counterStart + 1
    /\ call' = [call EXCEPT ![t].prev = reservations[t][call[t].idx],
                            ![t].seqno = tag[t][call[t].idx]]
    /\ Goto(t, "pointer")
    /\ UNCHANGED <<clientVars, epoch, counterEnd, slots, states, blocks,
                   garbage, given, asked, help, scan>>

\* slow_path: the cell to read.
SlowPointer(t) ==
    /\ pc[t] = "pointer"
    /\ states' = [states EXCEPT ![t][call[t].idx].cell = call[t].cell,
                                ![t][call[t].idx].node = call[t].node]
    /\ Goto(t, "epoch")
    /\ UNCHANGED <<clientVars, epoch, counters, slots, blocks, garbage, given,
                   asked, call, help, scan>>

\* slow_path: the birth of the node that holds it.
SlowEpoch(t) ==
    LET n == call[t].node IN
    /\ pc[t] = "epoch"
    /\ states' = [states EXCEPT ![t][call[t].idx].epoch =
                    IF n = NULL THEN 0 ELSE birth[n]]
    /\ Goto(t, "request")
    /\ UNCHANGED <<clientVars, epoch, counters, slots, blocks, garbage, given,
                   asked, call, help, scan>>

\* slow_path: the request is there.
SlowRequest(t) ==
    /\ pc[t] = "request"
    /\ states' = [states EXCEPT ![t][call[t].idx].ptr = INVPTR,
                                ![t][call[t].idx].stamp = call[t].seqno]
    /\ Goto(t, "sload")
    /\ UNCHANGED <<clientVars, epoch, counters, slots, blocks, garbage, given,
                   asked, call, help, scan>>

\* slow_path: the load of the cell.
SlowLoad(t) ==
    /\ pc[t] = "sload"
    /\ call' = [call EXCEPT ![t].ptr = Load(call[t].cell)]
    /\ Goto(t, "scheck")
    /\ UNCHANGED <<clientVars, epoch, counters, slots, states, blocks,
                   garbage, given, asked, help, scan>>

\* slow_path: the load of the epoch.
SlowCheck(t) ==
    /\ pc[t] = "scheck"
    /\ call' = [call EXCEPT ![t].curr = epoch]
    /\ Goto(t, IF epoch = call[t].prev THEN "scas" ELSE "sslot")
    /\ UNCHANGED <<clientVars, epoch, counters, slots, states, blocks,
                   garbage, given, asked, help, scan>>

\* The request of slot j of u is still the one with tag s.
Pending(u, j, s) == states[u][j].ptr = INVPTR /\ states[u][j].stamp = s

\* slow_path: the thread found the epoch of its slot and takes the request
\* back, unless it was answered.
SlowCas(t) ==
    LET j == call[t].idx IN
    /\ pc[t] = "scas"
    /\ \/ /\ Pending(t, j, call[t].seqno)
          /\ states' = [states EXCEPT ![t][j].ptr = NULL, ![t][j].stamp = 0]
          /\ held' = [held EXCEPT ![t][j] = call[t].ptr]
          /\ Goto(t, "stag")
       \/ /\ ~Pending(t, j, call[t].seqno)
          /\ Goto(t, "sslot")
          /\ UNCHANGED <<states, held>>
    /\ UNCHANGED <<clientVars, epoch, counters, slots, blocks, garbage,
                   helped, asked, call, help, scan>>

\* Slot j of u holds epoch e and tag s.
SlotIs(u, j, e, s) == reservations[u][j] = e /\ tag[u][j] = s

\* slow_path: publish the epoch, unless a helper has moved the slot on.
SlowSlot(t) ==
    LET r == call[t] IN
    /\ pc[t] = "sslot"
    /\ \/ /\ SlotIs(t, r.idx, r.prev, r.seqno)
          /\ reservations' = [reservations EXCEPT ![t][r.idx] = r.curr]
       \/ /\ ~SlotIs(t, r.idx, r.prev, r.seqno)
          /\ UNCHANGED reservations
    /\ call' = [call EXCEPT ![t].prev = r.curr]
    /\ Goto(t, "sresult")
    /\ UNCHANGED <<clientVars, epoch, counters, tag, states, blocks, garbage,
                   given, asked, help, scan>>

\* slow_path: is there an answer?  Nobody writes an answered request.
SlowResult(t) ==
    LET r == states[t][call[t].idx] IN
    /\ pc[t] = "sresult"
    /\ \/ /\ r.ptr = INVPTR
          /\ Goto(t, "sload")
          /\ UNCHANGED call
       \/ /\ r.ptr # INVPTR
          /\ call' = [call EXCEPT ![t].ptr = r.ptr, ![t].curr = r.stamp]
          /\ Goto(t, "stake")
    /\ UNCHANGED <<clientVars, epoch, counters, slots, states, blocks,
                   garbage, given, asked, help, scan>>

\* slow_path: the epoch of the answer.
SlowTake(t) ==
    LET r == call[t] IN
    /\ pc[t] = "stake"
    /\ reservations' = [reservations EXCEPT ![t][r.idx] = r.curr]
    /\ helped' = [helped EXCEPT ![t][r.idx] = r.ptr]
    /\ Goto(t, "stag")
    /\ UNCHANGED <<clientVars, epoch, counters, tag, states, blocks, garbage,
                   held, asked, call, help, scan>>

\* slow_path: the next tag.
SlowTag(t) ==
    /\ pc[t] = "stag"
    /\ tag' = [tag EXCEPT ![t][call[t].idx] = call[t].seqno + 1]
    /\ Goto(t, "send")
    /\ UNCHANGED <<clientVars, epoch, counters, reservations, states, blocks,
                   garbage, given, asked, call, help, scan>>

\* slow_path: counter_end, and the return.
SlowEnd(t) ==
    /\ pc[t] = "send"
    /\ counterEnd' = counterEnd + 1
    /\ call' = [call EXCEPT ![t] = NoCall]
    /\ Goto(t, "idle")
    /\ UNCHANGED <<clientVars, epoch, counterStart, slots, states, blocks,
                   garbage, given, asked, help, scan>>

-----------------------------------------------------------------------------
\* All requests without an answer.
Open == {r \in Tasks \X Idx \X Tags : Pending(r[1], r[2], r[3])}

\* help_read: counter_end first.
HelpEnds(t) ==
    /\ pc[t] = "hends"
    /\ help' = [help EXCEPT ![t].ends = counterEnd]
    /\ asked' = [asked EXCEPT ![t] = Open]
    /\ Goto(t, "hstarts")
    /\ UNCHANGED <<clientVars, epoch, counters, slots, states, blocks,
                   garbage, given, call, scan>>

\* help_read: equal counters mean that nobody waits; the same off by one.
OneWaits(t) == counterStart <= help[t].ends + 1
NobodyWaits(t) == counterStart = help[t].ends

\* help_read: counter_start.
HelpStarts(t) ==
    /\ pc[t] = "hstarts"
    /\ help' = [help EXCEPT ![t] = NoHelp]
    /\ Goto(t, IF NobodyWaits(t) THEN "advance" ELSE "hlook")
    /\ UNCHANGED <<clientVars, epoch, counters, slots, states, blocks,
                   garbage, given, asked, call, scan>>

\* help_thread is over: the next slot, or the end of help_read.
NextSlot(t) ==
    \/ /\ help[t].pos < OwnSlots
       /\ help' = [help EXCEPT ![t] = [NoHelp EXCEPT !.pos = help[t].pos + 1]]
       /\ Goto(t, "hlook")
    \/ /\ help[t].pos = OwnSlots
       /\ help' = [help EXCEPT ![t] = NoHelp]
       /\ Goto(t, "advance")

\* The thread and the slot that t helps.
Who(t) == SlotAt(help[t].pos)

\* help_read and help_thread: look for a request.
HelpLook(t) ==
    LET r == states[Who(t)[1]][Who(t)[2]] IN
    /\ pc[t] = "hlook"
    /\ \/ /\ r.ptr = INVPTR
          /\ help' = [help EXCEPT ![t].last = r.stamp]
          /\ Goto(t, "hepoch")
       \/ r.ptr # INVPTR /\ NextSlot(t)
    /\ UNCHANGED <<clientVars, epoch, counters, slots, states, blocks,
                   garbage, given, asked, call, scan>>

\* help_thread: the birth of the parent ...
HelpEpoch(t) ==
    /\ pc[t] = "hepoch"
    /\ help' = [help EXCEPT ![t].epoch = states[Who(t)[1]][Who(t)[2]].epoch]
    /\ Goto(t, "hparent")
    /\ UNCHANGED <<clientVars, epoch, counters, slots, states, blocks,
                   garbage, given, asked, call, scan>>

\* help_thread: ... goes into the helper's parent slot.
HelpParent(t) ==
    /\ pc[t] = "hparent"
    /\ reservations' = [reservations EXCEPT ![t][PARENT] = help[t].epoch]
    /\ Goto(t, "hpointer")
    /\ UNCHANGED <<clientVars, epoch, counters, tag, states, blocks, garbage,
                   given, asked, call, help, scan>>

\* help_thread: the cell to read.
HelpPointer(t) ==
    LET r == states[Who(t)[1]][Who(t)[2]] IN
    /\ pc[t] = "hpointer"
    /\ help' = [help EXCEPT ![t].cell = r.cell, ![t].node = r.node]
    /\ Goto(t, "hseqno")
    /\ UNCHANGED <<clientVars, epoch, counters, slots, states, blocks,
                   garbage, given, asked, call, scan>>

\* help_thread: all that belongs to the request if the tag has not changed.
Current(t) == help[t].last = tag[Who(t)[1]][Who(t)[2]]

HelpSeqno(t) ==
    /\ pc[t] = "hseqno"
    /\ Goto(t, IF Current(t) THEN "hfirst" ELSE "hclear")
    /\ UNCHANGED <<clientVars, epoch, counters, slots, states, blocks,
                   garbage, given, asked, call, help, scan>>

\* help_thread: the epoch before the loop.
HelpFirst(t) ==
    /\ pc[t] = "hfirst"
    /\ help' = [help EXCEPT ![t].prev = epoch]
    /\ Goto(t, "hstore")
    /\ UNCHANGED <<clientVars, epoch, counters, slots, states, blocks,
                   garbage, given, asked, call, scan>>

\* help_thread: publish the epoch.
HelpStore(t) ==
    /\ pc[t] = "hstore"
    /\ reservations' = [reservations EXCEPT ![t][HELPED] = help[t].prev]
    /\ Goto(t, "hload")
    /\ UNCHANGED <<clientVars, epoch, counters, tag, states, blocks, garbage,
                   given, asked, call, help, scan>>

\* help_thread: read the cell for the other thread.
HelpLoad(t) ==
    /\ pc[t] = "hload"
    /\ help' = [help EXCEPT ![t].ptr = Load(help[t].cell)]
    /\ Goto(t, "hcheck")
    /\ UNCHANGED <<clientVars, epoch, counters, slots, states, blocks,
                   garbage, given, asked, call, scan>>

\* help_thread: the load of the epoch.
HelpCheck(t) ==
    /\ pc[t] = "hcheck"
    /\ \/ /\ epoch = help[t].prev
          /\ Goto(t, "hcas")
          /\ UNCHANGED help
       \/ /\ epoch # help[t].prev
          /\ help' = [help EXCEPT ![t].prev = epoch]
          /\ Goto(t, "hagain")
    /\ UNCHANGED <<clientVars, epoch, counters, slots, states, blocks,
                   garbage, given, asked, call, scan>>

\* help_thread: go round while the request has no answer.
Unanswered(t) == Pending(Who(t)[1], Who(t)[2], help[t].last)

HelpAgain(t) ==
    /\ pc[t] = "hagain"
    /\ Goto(t, IF Unanswered(t) THEN "hstore" ELSE "hrelease")
    /\ UNCHANGED <<clientVars, epoch, counters, slots, states, blocks,
                   garbage, given, asked, call, help, scan>>

\* help_thread: answer the request.
HelpCas(t) ==
    /\ pc[t] = "hcas"
    /\ \/ /\ Unanswered(t)
          /\ states' = [states EXCEPT
                ![Who(t)[1]][Who(t)[2]].ptr = help[t].ptr,
                ![Who(t)[1]][Who(t)[2]].stamp = help[t].prev]
          /\ Goto(t, "hold")
       \/ /\ ~Unanswered(t)
          /\ Goto(t, "hrelease")
          /\ UNCHANGED states
    /\ UNCHANGED <<clientVars, epoch, counters, slots, blocks, garbage, given,
                   asked, call, help, scan>>

\* help_thread: what the slot of the other thread holds, tag first.
HelpOldTag(t) ==
    /\ pc[t] = "hold"
    /\ help' = [help EXCEPT ![t].oldTag = tag[Who(t)[1]][Who(t)[2]]]
    /\ Goto(t, "holdepoch")
    /\ UNCHANGED <<clientVars, epoch, counters, slots, states, blocks,
                   garbage, given, asked, call, scan>>

HelpOldEpoch(t) ==
    /\ pc[t] = "holdepoch"
    /\ help' = [help EXCEPT ![t].old = reservations[Who(t)[1]][Who(t)[2]]]
    /\ Goto(t, "hslot")
    /\ UNCHANGED <<clientVars, epoch, counters, slots, states, blocks,
                   garbage, given, asked, call, scan>>

\* help_thread: the compare-and-swap on the slot finds what was loaded; a
\* store in its place.
AlwaysLoaded(t) == TRUE
SlotAsLoaded(t) == SlotIs(Who(t)[1], Who(t)[2], help[t].old, help[t].oldTag)

\* help_thread: move the slot on, unless its owner has.
HelpSlot(t) ==
    LET u == Who(t)[1]
        j == Who(t)[2]
    IN
    /\ pc[t] = "hslot"
    /\ \/ /\ help[t].oldTag # help[t].last
          /\ Goto(t, "hrelease")
          /\ UNCHANGED <<slots, help>>
       \/ /\ help[t].oldTag = help[t].last
          /\ SlotAsLoaded(t)
          /\ reservations' = [reservations EXCEPT ![u][j] = help[t].prev]
          /\ tag' = [tag EXCEPT ![u][j] = help[t].last + 1]
          /\ Goto(t, "hrelease")
          /\ UNCHANGED help
       \/ /\ help[t].oldTag = help[t].last
          /\ ~SlotAsLoaded(t)
          /\ help' = [help EXCEPT ![t].oldTag = tag[u][j],
                                  ![t].old = reservations[u][j]]
          /\ UNCHANGED <<slots, pc>>
    /\ UNCHANGED <<clientVars, epoch, counters, states, blocks, garbage, given,
                   asked, call, scan>>

\* help_thread: give up what was read, then the parent.
HelpRelease(t) ==
    /\ pc[t] = "hrelease"
    /\ reservations' = [reservations EXCEPT ![t][HELPED] = 0]
    /\ Goto(t, "hclear")
    /\ UNCHANGED <<clientVars, epoch, counters, tag, states, blocks, garbage,
                   given, asked, call, help, scan>>

HelpClear(t) ==
    /\ pc[t] = "hclear"
    /\ reservations' = [reservations EXCEPT ![t][PARENT] = 0]
    /\ NextSlot(t)
    /\ UNCHANGED <<clientVars, epoch, counters, tag, states, blocks, garbage,
                   given, asked, call, scan>>

-----------------------------------------------------------------------------
\* clear_all: the call.
Clear(t) ==
    /\ pc[t] = "idle"
    /\ held' = [held EXCEPT ![t] = [j \in Idx |-> NULL]]
    /\ helped' = [helped EXCEPT ![t] = [j \in Idx |-> NULL]]
    /\ Goto(t, "clear")
    /\ UNCHANGED <<clientVars, epoch, counters, slots, states, blocks,
                   garbage, asked, call, help, scan>>

\* clear_all: one slot.
ClearSlot(t) ==
    LET j == call[t].idx IN
    /\ pc[t] = "clear"
    /\ reservations' = [reservations EXCEPT ![t][j] = 0]
    /\ \/ /\ j < HENum
          /\ call' = [call EXCEPT ![t].idx = j + 1]
          /\ UNCHANGED pc
       \/ /\ j = HENum
          /\ call' = [call EXCEPT ![t] = NoCall]
          /\ Goto(t, "idle")
    /\ UNCHANGED <<clientVars, epoch, counters, tag, states, blocks, garbage,
                   given, asked, help, scan>>

-----------------------------------------------------------------------------
\* retire: stamp the block, put it on the list, call empty every Freq calls.
Retire(t) ==
    /\ pc[t] = "idle"
    /\ Push(t)
    /\ retireEpoch' = [retireEpoch EXCEPT ![victim[t]] = epoch]
    /\ retires' = [retires EXCEPT ![t] = (@ + 1) % Freq]
    /\ \/ retires[t] = 0 /\ Goto(t, "copy")
       \/ retires[t] # 0 /\ UNCHANGED pc
    /\ UNCHANGED <<epoch, counters, slots, states, birth, allocs, local, given,
                   asked, call, help, scan>>

\* empty: copy one slot.
CopySlot(t) ==
    LET s == CopyAt(scan[t].pos) IN
    /\ pc[t] = "copy"
    /\ local' = [local EXCEPT ![t][s[1]][s[2]] = reservations[s[1]][s[2]]]
    /\ \/ /\ scan[t].pos < LastSlot
          /\ scan' = [scan EXCEPT ![t].pos = @ + 1]
          /\ UNCHANGED pc
       \/ /\ scan[t].pos = LastSlot
          /\ scan' = [scan EXCEPT ![t] = [NoScan EXCEPT !.todo = retired[t]]]
          /\ Goto(t, "ends")
    /\ UNCHANGED <<clientVars, epoch, counters, slots, states, blocks, allocs,
                   retires, retired, given, asked, call, help>>

\* can_delete: e is no epoch of the life of o, and the same off by one.
OutsideOrLast(e, o) == e < birth[o] \/ e >= retireEpoch[o] \/ e = 0
Outside(e, o) == e < birth[o] \/ e > retireEpoch[o] \/ e = 0

\* can_delete on the copies of the slots for reads and of the parent slots,
\* and without the latter.
CanDeleteParent(t, o) ==
    \A u \in Tasks, j \in Idx : Outside(local[t][u][j], o)
CanDelete(t, o) ==
    \A u \in Tasks, j \in 1 .. PARENT : Outside(local[t][u][j], o)

\* empty is done with a block: go on with the rest of the list.
NextBlock(t) ==
    LET rest == scan[t].todo \ {scan[t].obj} IN
    /\ scan' = [scan EXCEPT ![t] = [NoScan EXCEPT !.todo = rest]]
    /\ Goto(t, "ends")

\* empty: the next block; counter_end, and the first look at the slots.
EmptyEnds(t) ==
    /\ pc[t] = "ends" /\ scan[t].todo # {}
    /\ \E o \in scan[t].todo :
        \/ /\ CanDelete(t, o)
           /\ scan' = [scan EXCEPT ![t].obj = o, ![t].ends = counterEnd]
           /\ Goto(t, "starts")
        \/ /\ ~CanDelete(t, o)
           /\ scan' = [scan EXCEPT ![t].todo = @ \ {o}]
           /\ UNCHANGED pc
    /\ UNCHANGED <<clientVars, epoch, counters, slots, states, blocks,
                   garbage, given, asked, call, help>>

\* empty: counter_start.  With equal counters the block goes, else the slots
\* themselves are looked at.
EmptyStarts(t) ==
    /\ pc[t] = "starts"
    /\ \/ /\ counterStart = scan[t].ends
          /\ Reclaim(t, {scan[t].obj})
          /\ NextBlock(t)
       \/ /\ counterStart # scan[t].ends
          /\ Goto(t, "recheck")
          /\ UNCHANGED <<clientVars, retired, scan>>
    /\ UNCHANGED <<epoch, counters, slots, states, blocks, allocs, retires,
                   local, given, asked, call, help>>

\* empty: one slot of the second look.
Recheck(t) ==
    LET s == RecheckAt(scan[t].pos)
        out == Outside(reservations[s[1]][s[2]], scan[t].obj)
    IN
    /\ pc[t] = "recheck"
    /\ \/ /\ ~out
          /\ NextBlock(t)
          /\ UNCHANGED <<clientVars, retired>>
       \/ /\ out /\ scan[t].pos < LastSlot
          /\ scan' = [scan EXCEPT ![t].pos = @ + 1]
          /\ UNCHANGED <<clientVars, retired, pc>>
       \/ /\ out /\ scan[t].pos = LastSlot
          /\ Reclaim(t, {scan[t].obj})
          /\ NextBlock(t)
    /\ UNCHANGED <<epoch, counters, slots, states, blocks, allocs, retires,
                   local, given, asked, call, help>>

\* empty: the end of the list.  The copies are not used again.
EmptyDone(t) ==
    /\ pc[t] = "ends" /\ scan[t].todo = {}
    /\ local' = [local EXCEPT ![t] = [u \in Tasks |-> [j \in 1 .. PARENT |-> 0]]]
    /\ scan' = [scan EXCEPT ![t] = NoScan]
    /\ Goto(t, "idle")
    /\ UNCHANGED <<clientVars, epoch, counters, slots, states, blocks, allocs,
                   retires, retired, given, asked, call, help>>

-----------------------------------------------------------------------------
\* What a thread does inside a call of the tracker.
Step(t) ==
    \/ AllocAdvance(t) \/ AllocBirth(t)
    \/ ReadLoad(t) \/ CheckSame(t) \/ CheckNew(t) \/ StoreEpoch(t)
    \/ SlowStart(t) \/ SlowPointer(t) \/ SlowEpoch(t) \/ SlowRequest(t)
    \/ SlowLoad(t) \/ SlowCheck(t) \/ SlowCas(t) \/ SlowSlot(t)
    \/ SlowResult(t) \/ SlowTake(t) \/ SlowTag(t) \/ SlowEnd(t)
    \/ HelpEnds(t) \/ HelpStarts(t) \/ HelpLook(t) \/ HelpEpoch(t)
    \/ HelpParent(t) \/ HelpPointer(t) \/ HelpSeqno(t) \/ HelpFirst(t)
    \/ HelpStore(t) \/ HelpLoad(t) \/ HelpCheck(t) \/ HelpAgain(t)
    \/ HelpCas(t) \/ HelpOldTag(t) \/ HelpOldEpoch(t) \/ HelpSlot(t)
    \/ HelpRelease(t) \/ HelpClear(t)
    \/ ClearSlot(t) \/ CopySlot(t) \/ EmptyEnds(t) \/ EmptyStarts(t)
    \/ Recheck(t) \/ EmptyDone(t)

\* What a rideable does between calls: one step of its own, or a call.
Call(t) ==
    \/ Clear(t)
    \/ t \in Readers /\ \E c \in Cells, j \in Idx, n \in Ptrs : Read(t, c, j, n)
    \/ t \in Reservers /\ \E j \in Idx, n \in Ptrs : Reserve(t, j, n)
    \/ t \in Adders /\ (AllocCount(t) \/ Add(t))
    \/ t \in Removers /\ (Remove(t) \/ Retire(t))

Next == \E t \in Tasks : Step(t) \/ Call(t)

Spec == Init /\ [][Next]_vars

-----------------------------------------------------------------------------
\* What a rideable expects: a block that read returned is not freed until its
\* thread reuses the slot or clears it.
HeldNeverFreed ==
    \A t \in Tasks, j \in Idx :
        /\ held[t][j] # NULL => status[held[t][j]] # "free"
        /\ helped[t][j] # NULL => status[helped[t][j]] # "free"

\* What the code gives: that for the reads that the thread ended itself, on
\* the fast path or on the slow one, while helpers work on the same request
\* and other threads copy slots that change under them.
OwnReadsSafe ==
    \A t \in Tasks, j \in Idx : held[t][j] # NULL => status[held[t][j]] # "free"

\* A helper reads a field of a node that only the thread it helps holds.
\* That thread may have ended its read, cleared its slots and retired the
\* node meanwhile: the parent slot keeps it.
ParentSafe ==
    \A t \in Tasks :
        pc[t] = "hload" /\ help[t].node # NULL => status[help[t].node] # "free"

\* Why reads end: a thread advances the epoch only when every request that
\* was pending as it began to help has been answered or taken back.  A slow
\* read thus goes round at most once per thread.
HelpBeforeAdvance ==
    \A t \in Tasks : pc[t] = "advance" =>
        \A r \in asked[t] : ~Pending(r[1], r[2], r[3])

\* A late helper disturbs no slot: others change the epoch or the tag of a
\* slot only while its owner is in the slow path with it.
LateHelpHarmless ==
    [][\A u \in Tasks, j \in Idx :
        \/ SlotIs(u, j, reservations'[u][j], tag'[u][j])
        \/ pc'[u] # pc[u] \/ call'[u] # call[u]
        \/ pc[u] \in SlowPC /\ call[u].idx = j]_vars

\* The references of own reads, as the abstract guards.
guards == [t \in Tasks |-> {held[t][j] : j \in Idx} \ {NULL}]
Promise == INSTANCE Reclamation WITH Threads <- Tasks, status <- Life
Refines == Promise!Spec

=============================================================================
