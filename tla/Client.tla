------------------------------- MODULE Client -------------------------------
(***************************************************************************)
(* The part of a rideable (benchmark/src/rideables) that a reclamation     *)
(* scheme sees.  The structure is a set of cells, its std::atomic<Node*>   *)
(* fields.  A thread allocates a node, links it into the structure with a  *)
(* compare-and-swap or gives it back unused; it unlinks a node with a      *)
(* compare-and-swap, and only the thread whose swap succeeded retires the  *)
(* node.  The tracker modules extend this one: they add what alloc, read,  *)
(* retire and the other calls do to the state of the scheme.               *)
(***************************************************************************)
EXTENDS Integers

CONSTANTS
    TaskNum,    \* task_num: number of threads
    Objs,       \* the blocks of the allocator; free() makes a block reusable
    Cells,      \* the structure's atomic pointers
    NULL        \* nullptr

Tasks == 1 .. TaskNum
Ptrs == Objs \union {NULL}

ASSUME ClientAssumption ==
    /\ TaskNum \in Nat \ {0}
    /\ NULL \notin Objs

VARIABLES
    status,     \* status[o]: where block o is in its life
    cell,       \* cell[c]: the pointer in cell c
    mine,       \* mine[t]: the node t has allocated and not linked yet
    victim      \* victim[t]: the node t has unlinked and not retired yet

clientVars == <<status, cell, mine, victim>>

Status == {"free", "private", "linked", "unlinked", "retired"}

ClientTypeOK ==
    /\ status \in [Objs -> Status]
    /\ cell \in [Cells -> Ptrs]
    /\ mine \in [Tasks -> Ptrs]
    /\ victim \in [Tasks -> Ptrs]

ClientInit ==
    /\ status = [o \in Objs |-> "free"]
    /\ cell = [c \in Cells |-> NULL]
    /\ mine = [t \in Tasks |-> NULL]
    /\ victim = [t \in Tasks |-> NULL]

\* malloc hands out block o.
Malloc(t, o) ==
    /\ mine[t] = NULL
    /\ status[o] = "free"
    /\ status' = [status EXCEPT ![o] = "private"]
    /\ mine' = [mine EXCEPT ![t] = o]
    /\ UNCHANGED <<cell, victim>>

\* The thread's node becomes reachable.
Link(t, c) ==
    /\ mine[t] # NULL
    /\ cell[c] = NULL
    /\ status' = [status EXCEPT ![mine[t]] = "linked"]
    /\ cell' = [cell EXCEPT ![c] = mine[t]]
    /\ mine' = [mine EXCEPT ![t] = NULL]
    /\ UNCHANGED victim

\* The key was there already: the node was never shared, reclaim frees it.
Discard(t) ==
    /\ mine[t] # NULL
    /\ status' = [status EXCEPT ![mine[t]] = "free"]
    /\ mine' = [mine EXCEPT ![t] = NULL]
    /\ UNCHANGED <<cell, victim>>

\* The thread's compare-and-swap takes the node of a cell out.
Unlink(t, c) ==
    /\ victim[t] = NULL
    /\ cell[c] # NULL
    /\ status' = [status EXCEPT ![cell[c]] = "unlinked"]
    /\ cell' = [cell EXCEPT ![c] = NULL]
    /\ victim' = [victim EXCEPT ![t] = cell[c]]
    /\ UNCHANGED mine

\* The thread hands the node it unlinked to retire.
HandOver(t) ==
    /\ victim[t] # NULL
    /\ status' = [status EXCEPT ![victim[t]] = "retired"]
    /\ victim' = [victim EXCEPT ![t] = NULL]
    /\ UNCHANGED <<cell, mine>>

\* The scheme frees the blocks in S.
Free(S) ==
    /\ status' = [o \in Objs |-> IF o \in S THEN "free" ELSE status[o]]
    /\ UNCHANGED <<cell, mine, victim>>

\* Every node is in one place: what the status says, in one cell or with one
\* thread.
Placed ==
    /\ \A c \in Cells : cell[c] # NULL => status[cell[c]] = "linked"
    /\ \A c, d \in Cells : cell[c] = cell[d] /\ cell[c] # NULL => c = d
    /\ \A t \in Tasks : mine[t] # NULL => status[mine[t]] = "private"
    /\ \A t, u \in Tasks : mine[t] = mine[u] /\ mine[t] # NULL => t = u
    /\ \A t \in Tasks : victim[t] # NULL => status[victim[t]] = "unlinked"
    /\ \A t, u \in Tasks : victim[t] = victim[u] /\ victim[t] # NULL => t = u

\* The life of a block as module Reclamation sees it.
Life == [o \in Objs |->
            IF status[o] \in {"free", "retired"} THEN status[o] ELSE "live"]
=============================================================================
