---------------------------- MODULE Reclamation ----------------------------
(***************************************************************************)
(* What every reclamation scheme of benchmark/src/trackers promises to the *)
(* data structures of benchmark/src/rideables: a block that was retired is *)
(* given back to the allocator only when no thread holds a reference to it *)
(* that the scheme handed out, and only once.                              *)
(*                                                                         *)
(* The interface is the one of BaseTracker<T>: alloc, read (and            *)
(* reserve_slot), retire, clear_all (or end_op), reclaim.                  *)
(***************************************************************************)
CONSTANTS
    Threads,    \* the worker threads (tid)
    Objs        \* the blocks the allocator can hand out

VARIABLES
    status,     \* status[o]: "free", "live" (allocated) or "retired"
    guards      \* guards[t]: blocks that thread t holds a reference to

vars == <<status, guards>>

Status == {"free", "live", "retired"}

TypeOK ==
    /\ status \in [Objs -> Status]
    /\ guards \in [Threads -> SUBSET Objs]

Init ==
    /\ status = [o \in Objs |-> "free"]
    /\ guards = [t \in Threads |-> {}]

\* BaseTracker::alloc
Alloc(o) ==
    /\ status[o] = "free"
    /\ status' = [status EXCEPT ![o] = "live"]
    /\ UNCHANGED guards

\* BaseTracker::reclaim of a block that its thread never shared.
Discard(o) ==
    /\ status[o] = "live"
    /\ \A t \in Threads : o \notin guards[t]
    /\ status' = [status EXCEPT ![o] = "free"]
    /\ UNCHANGED guards

\* BaseTracker::retire
Retire(o) ==
    /\ status[o] = "live"
    /\ status' = [status EXCEPT ![o] = "retired"]
    /\ UNCHANGED guards

\* BaseTracker::read returns a reference.  The block may have been retired
\* since the pointer was loaded, never freed.
Acquire(t, o) ==
    /\ status[o] # "free"
    /\ guards' = [guards EXCEPT ![t] = @ \union {o}]
    /\ UNCHANGED status

\* clear_all, end_op, or a read that reuses the slot of an older reference.
Release(t, S) ==
    /\ guards' = [guards EXCEPT ![t] = @ \ S]
    /\ UNCHANGED status

\* reclaim: destructor and free() of the blocks that nobody holds.
Reclaim(S) ==
    /\ \A o \in S : status[o] = "retired"
    /\ \A t \in Threads : guards[t] \intersect S = {}
    /\ status' = [o \in Objs |-> IF o \in S THEN "free" ELSE status[o]]
    /\ UNCHANGED guards

Next ==
    \/ \E o \in Objs : Alloc(o) \/ Discard(o) \/ Retire(o)
    \/ \E t \in Threads, o \in Objs : Acquire(t, o)
    \/ \E t \in Threads, S \in SUBSET Objs : Release(t, S)
    \/ \E S \in SUBSET Objs : Reclaim(S)

Spec == Init /\ [][Next]_vars

-----------------------------------------------------------------------------
\* A held block is never back in the allocator.
NoUseAfterFree == \A t \in Threads : \A o \in guards[t] : status[o] # "free"

=============================================================================
