---------------------------- MODULE RCUTracker ----------------------------
(***************************************************************************)
(* Epochs for whole operations (benchmark/src/trackers/RCUTracker.hpp).    *)
(* With type_RCU a thread announces the global epoch when an operation     *)
(* starts and withdraws it at the end; with type_QSBR it announces an      *)
(* epoch at the end of every operation, which protects the next one.       *)
(* retire stamps a block with the epoch; empty() frees the blocks of its   *)
(* thread whose stamp is below every announced epoch.  Every access to a   *)
(* shared atomic is one step; accesses are sequentially consistent.        *)
(***************************************************************************)
EXTENDS RetireList

CONSTANTS
    EpochFreq,  \* epochFreq * task_num: allocations of a thread per epoch
    Freq,       \* freq (emptyFreq): retirements between two calls of empty
    MaxEpoch,   \* bound: the epoch is not advanced beyond it
    Updaters    \* the threads that allocate, link, unlink and retire

ASSUME ParamAssumption ==
    /\ EpochFreq \in Nat \ {0}
    /\ Freq \in Nat \ {0}
    /\ MaxEpoch \in Nat

VARIABLES
    type,           \* the RCUType given to the constructor
    epoch,          \* global epoch
    reservations,   \* reservations[t]: the epoch t has announced
    retireEpoch,    \* retireEpoch[o]: the epoch in the block's RCUInfo
    allocs,         \* alloc_counters[t], modulo EpochFreq
    retires,        \* retire_counters[t], modulo Freq
    inOp,           \* inOp[t]: t is between start_op and end_op
    held,           \* held[t]: what t has read in this operation
    pc,             \* the next step
    curr,           \* the epoch loaded by start_op or end_op
    pos, min        \* empty: the thread looked at next, minEpoch

garbage == <<retireEpoch, retires, retired>>
locals == <<curr, pos, min>>
vars == <<clientVars, type, epoch, reservations, garbage, allocs, inOp, held,
          pc, locals>>

\* UINT64_MAX, an epoch that is never reached.
INF == MaxEpoch + 1
Epochs == 0 .. MaxEpoch

PC == {"idle", "start", "end", "scan", "sweep"}

TypeOK ==
    /\ ListTypeOK
    /\ type \in {"RCU", "QSBR"}
    /\ epoch \in Epochs
    /\ reservations \in [Tasks -> Epochs \union {INF}]
    /\ retireEpoch \in [Objs -> Epochs]
    /\ allocs \in [Tasks -> 0 .. EpochFreq - 1]
    /\ retires \in [Tasks -> 0 .. Freq - 1]
    /\ inOp \in [Tasks -> BOOLEAN]
    /\ held \in [Tasks -> SUBSET Objs]
    /\ pc \in [Tasks -> PC]
    /\ curr \in [Tasks -> Epochs]
    /\ pos \in [Tasks -> Tasks]
    /\ min \in [Tasks -> Epochs \union {INF}]

Init ==
    /\ ListInit
    /\ type \in {"RCU", "QSBR"}
    /\ epoch = 0
    /\ reservations = [t \in Tasks |-> INF]
    /\ retireEpoch = [o \in Objs |-> 0]
    /\ allocs = [t \in Tasks |-> 0]
    /\ retires = [t \in Tasks |-> 0]
    /\ inOp = [t \in Tasks |-> FALSE]
    /\ held = [t \in Tasks |-> {}]
    /\ pc = [t \in Tasks |-> "idle"]
    /\ curr = [t \in Tasks |-> 0]
    /\ pos = [t \in Tasks |-> 1]
    /\ min = [t \in Tasks |-> INF]

Goto(t, l) == pc' = [pc EXCEPT ![t] = l]

-----------------------------------------------------------------------------
\* alloc.  A rideable allocates before start_op or inside the operation.
Alloc(t) ==
    /\ pc[t] = "idle"
    /\ allocs' = [allocs EXCEPT ![t] = (@ + 1) % EpochFreq]
    /\ \/ allocs'[t] = 0 /\ epoch < MaxEpoch /\ epoch' = epoch + 1
       \/ allocs'[t] # 0 /\ epoch' = epoch
    /\ \E o \in Objs : Malloc(t, o)
    /\ UNCHANGED <<type, reservations, garbage, inOp, held, pc, locals>>

\* A step of the rideable that does not involve the tracker.
Rideable(t) ==
    /\ pc[t] = "idle" /\ inOp[t]
    /\ Discard(t) \/ \E c \in Cells : Link(t, c) \/ Unlink(t, c)
    /\ UNCHANGED <<type, epoch, reservations, garbage, allocs, inOp, held, pc,
                   locals>>

-----------------------------------------------------------------------------
\* start_op: type_RCU loads the epoch, type_QSBR does nothing.
StartOp(t) ==
    /\ pc[t] = "idle" /\ ~inOp[t]
    /\ \/ /\ type = "RCU"
          /\ curr' = [curr EXCEPT ![t] = epoch]
          /\ Goto(t, "start")
          /\ UNCHANGED inOp
       \/ /\ type = "QSBR"
          /\ inOp' = [inOp EXCEPT ![t] = TRUE]
          /\ UNCHANGED <<curr, pc>>
    /\ UNCHANGED <<type, clientVars, epoch, reservations, garbage, allocs,
                   held, pos, min>>

\* start_op of type_RCU: announce the epoch loaded.
StartStore(t) ==
    /\ pc[t] = "start"
    /\ reservations' = [reservations EXCEPT ![t] = curr[t]]
    /\ inOp' = [inOp EXCEPT ![t] = TRUE]
    /\ Goto(t, "idle")
    /\ UNCHANGED <<type, clientVars, epoch, garbage, allocs, held, locals>>

\* read is the load of the cell (BaseTracker::read).
Read(t, c) ==
    /\ pc[t] = "idle" /\ inOp[t]
    /\ held' = [held EXCEPT ![t] = @ \union ({cell[c]} \ {NULL})]
    /\ UNCHANGED <<type, clientVars, epoch, reservations, garbage, allocs,
                   inOp, pc, locals>>

\* end_op: the operation is over, its references are gone, its node is linked
\* or given back, what it unlinked is retired.  type_RCU withdraws the epoch,
\* type_QSBR loads the global one.
EndOp(t) ==
    /\ pc[t] = "idle" /\ inOp[t]
    /\ mine[t] = NULL /\ victim[t] = NULL
    /\ held' = [held EXCEPT ![t] = {}]
    /\ inOp' = [inOp EXCEPT ![t] = FALSE]
    /\ \/ /\ type = "RCU"
          /\ reservations' = [reservations EXCEPT ![t] = INF]
          /\ UNCHANGED <<curr, pc>>
       \/ /\ type = "QSBR"
          /\ curr' = [curr EXCEPT ![t] = epoch]
          /\ Goto(t, "end")
          /\ UNCHANGED reservations
    /\ UNCHANGED <<type, clientVars, epoch, garbage, allocs, pos, min>>

\* end_op of type_QSBR: announce the epoch loaded.
EndStore(t) ==
    /\ pc[t] = "end"
    /\ reservations' = [reservations EXCEPT ![t] = curr[t]]
    /\ Goto(t, "idle")
    /\ UNCHANGED <<type, clientVars, epoch, garbage, allocs, inOp, held,
                   locals>>

-----------------------------------------------------------------------------
\* retire: stamp the block, put it on the list, call empty every Freq calls.
Retire(t) ==
    /\ pc[t] = "idle" /\ inOp[t]
    /\ Push(t)
    /\ retireEpoch' = [retireEpoch EXCEPT ![victim[t]] = epoch]
    /\ retires' = [retires EXCEPT ![t] = (@ + 1) % Freq]
    /\ \/ retires[t] = 0 /\ Goto(t, "scan")
       \/ retires[t] # 0 /\ UNCHANGED pc
    /\ UNCHANGED <<type, epoch, reservations, allocs, inOp, held, locals>>

\* empty: the loop over the threads goes on; with <= it runs over.
GoesOver(u) == u <= TaskNum
GoesOn(u) == u < TaskNum

\* empty: the announcement of one thread.
Scan(t) ==
    LET u == pos[t] IN
    /\ pc[t] = "scan"
    /\ \/ /\ reservations[u] < min[t]
          /\ min' = [min EXCEPT ![t] = reservations[u]]
       \/ /\ ~(reservations[u] < min[t])
          /\ UNCHANGED min
    /\ \/ /\ GoesOn(u)
          /\ pos' = [pos EXCEPT ![t] = u + 1]
          /\ UNCHANGED pc
       \/ /\ ~GoesOn(u)
          /\ pos' = [pos EXCEPT ![t] = 1]
          /\ Goto(t, "sweep")
    /\ UNCHANGED <<type, clientVars, epoch, reservations, garbage, allocs,
                   inOp, held, curr>>

\* empty: the test that lets a block go, and the same off by one.
SafeOrEqual(t, o) == retireEpoch[o] <= min[t]
Safe(t, o) == retireEpoch[o] < min[t]

\* empty: free the blocks stamped before every announced epoch.
Sweep(t) ==
    LET dead == {o \in retired[t] : Safe(t, o)} IN
    /\ pc[t] = "sweep"
    /\ Reclaim(t, dead)
    /\ min' = [min EXCEPT ![t] = INF]
    /\ Goto(t, "idle")
    /\ UNCHANGED <<type, epoch, reservations, retireEpoch, retires, allocs,
                   inOp, held, curr, pos>>

-----------------------------------------------------------------------------
\* What a thread does inside a call of the tracker.
Step(t) == StartStore(t) \/ EndStore(t) \/ Scan(t) \/ Sweep(t)

\* What a rideable does between calls: one step of its own, or a call.
Call(t) ==
    \/ StartOp(t) \/ EndOp(t)
    \/ \E c \in Cells : Read(t, c)
    \/ t \in Updaters /\ (Alloc(t) \/ Rideable(t) \/ Retire(t))

Next == \E t \in Tasks : Step(t) \/ Call(t)

Spec == Init /\ [][Next]_vars

-----------------------------------------------------------------------------
\* Whatever a thread reads in an operation stays allocated until the operation
\* ends: with type_RCU for every operation, even when the thread stalled
\* between the load of the epoch and its announcement in start_op while others
\* went on retiring and emptying; with type_QSBR for the operations of a thread
\* that has announced an epoch before.  The first operation of a thread is not
\* protected with type_QSBR: start_op does nothing.
AnnouncedNeverFreed ==
    \A t \in Tasks : type = "RCU" \/ reservations[t] # INF =>
        \A o \in held[t] : status[o] # "free"

\* The references of the announced operations, as the abstract guards.
guards == [t \in Tasks |-> IF reservations[t] # INF THEN held[t] ELSE {}]
Promise == INSTANCE Reclamation WITH Threads <- Tasks, status <- Life
Refines == Promise!Spec

=============================================================================
