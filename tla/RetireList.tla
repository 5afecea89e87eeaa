----------------------------- MODULE RetireList -----------------------------
(***************************************************************************)
(* What the trackers that scan share (HETracker, RCUTracker and            *)
(* HazardTracker in benchmark/src/trackers): every thread has a list of    *)
(* the blocks it has retired, linked through their headers.  retire puts a *)
(* block at the front; empty() walks the list of its own thread and frees  *)
(* the blocks that pass the tracker's test.  No other thread touches the   *)
(* list, and its order decides nothing: it is a set here.                  *)
(***************************************************************************)
EXTENDS Client

VARIABLE retired    \* retired[t]: the blocks on t's list

ListTypeOK == ClientTypeOK /\ retired \in [Tasks -> SUBSET Objs]

ListInit == ClientInit /\ retired = [t \in Tasks |-> {}]

\* retire: the block that the thread has unlinked goes on its list.
Push(t) ==
    /\ HandOver(t)
    /\ retired' = [retired EXCEPT ![t] = @ \union {victim[t]}]

\* empty: take the blocks in dead off the list of the thread and free them.
Reclaim(t, dead) ==
    /\ Free(dead)
    /\ retired' = [retired EXCEPT ![t] = @ \ dead]

-----------------------------------------------------------------------------
\* A block is on the list of exactly one thread from retire until it is
\* freed, and on none before: no block is lost, none is freed twice.
RetiredOnce ==
    /\ \A o \in Objs :
        status[o] = "retired" <=> \E t \in Tasks : o \in retired[t]
    /\ \A t, u \in Tasks : t # u => retired[t] \intersect retired[u] = {}
=============================================================================
