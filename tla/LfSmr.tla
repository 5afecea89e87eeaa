------------------------------- MODULE LfSmr -------------------------------
(***************************************************************************)
(* The Hyaline library as the headers lfsmr.h, lfbsmr.h, lfsmro.h and      *)
(* lfbsmro.h put it together, under the Hyaline trackers: the common part  *)
(* with the heads of two words or of one, and what all of it promises.     *)
(***************************************************************************)
EXTENDS Hyaline1, Hyaline2

\* The calls of the rideable.
Calls(t) ==
    \/ Enter1(t) \/ Enter2(t) \/ Leave1(t) \/ Leave2(t) \/ Trim(t)
    \/ \E c \in Cells : Read(t, c) \/ Deref(t, c)
    \/ /\ t \in Updaters
       /\ Alloc(t) \/ Rideable(t) \/ \E c \in Cells : Retire(t, c)

\* The steps inside a call.
Steps(t) ==
    \/ EnterLook(t) \/ EnterAdd(t)
    \/ DerefValue(t) \/ DerefGlobal(t) \/ DerefAccess1(t) \/ DerefAccess2(t)
    \/ RtAccess(t) \/ RtLoad(t) \/ RtRetry(t) \/ RtPush1(t) \/ RtPush2(t)
    \/ RtAdjust(t) \/ RtCount(t) \/ RtFin(t)
    \/ LeaveTrim1(t) \/ LeaveTrim2(t) \/ LeaveRetry(t) \/ LeaveCas(t)
    \/ LeaveClear(t) \/ LeaveAdjust(t)
    \/ Traverse(t) \/ Ack(t) \/ FreeList(t)

Next == \E t \in Tasks : Calls(t) \/ Steps(t)

Spec == HyalineInit /\ [][Next]_vars

-----------------------------------------------------------------------------
\* The nodes on the way from n along the successors f to e, or to the end of
\* the list.
Trail(f, n, e) ==
    LET found[k \in 0 .. Cardinality(Objs)] ==
            IF k = 0 THEN {n} \ {NULL}
            ELSE LET S == found[k - 1]
                 IN  S \union ({f[m] : m \in S \ {e}} \ {NULL})
    IN  found[Cardinality(Objs)]

\* The nodes of the list of a slot from n to e, or to its end.
Chain(n, e) == Trail(next, n, e)

\* The thread is counted in the head of its slot.
Inside(t) ==
    \/ pc[t] \in {"in", "value", "global", "access", "leave", "lv_cas",
                  "rt_access", "rt_load", "rt_cas", "rt_adj", "rt_count",
                  "rt_fin"}
    \/ pc[t] \in {"trav", "ack", "free"} /\ wk[t].ret = "in"

\* The list of the thread's slot, from its head to where the thread entered.
Line(t) == IF Inside(t) THEN Chain(head[vec[t]].ptr, handle[t]) ELSE {}

\* The nodes whose reference the thread drops when it leaves: with heads of two
\* words a node has references once it is buried.
ToDrop(t) ==
    IF build.words = 1 THEN Line(t) ELSE Line(t) \ {head[vec[t]].ptr}

\* The nodes whose reference the thread has still to drop.
Owed(t) ==
    ToDrop(t) \union
    UNION {Chain(wk[t].segs[i].cur, wk[t].segs[i].end) :
              i \in DOMAIN wk[t].segs}

\* The thread holds an adjustment back for a batch.
Adjusting(t) == pc[t] \in {"rt_adj", "rt_fin", "lv_adj"}

\* The last node of the batch that the thread is retiring.
Retiring(t) == IF rt[t].first = NULL THEN NULL ELSE link[rt[t].first]

\* The references of batch r that threads have still to drop.
Debts(r) == UNION {{t} \X {n \in Owed(t) : link[n] = r} : t \in Tasks}

\* The references that the counter of r still lacks on account of one thread:
\* with heads of two words those of the threads that were inside when a node of
\* r was buried; with heads of one word those of the nodes pushed, until the
\* last adjustment.
Withheld(t, r) ==
    IF Retiring(t) = r /\ build.words = 1 THEN rt[t].adjs
    ELSE IF ~Adjusting(t) \/ link[rt[t].node] # r THEN 0
    ELSE IF build.words = 1 THEN rt[t].amt
    ELSE IF pc[t] = "rt_adj" THEN (rt[t].amt - Addend) % CounterMod
    ELSE 0

Late(r) == UNION {{t} \X (1 .. Withheld(t, r)) : t \in Tasks}

\* The slots where a call of retire has not pushed a node, or not yet: their
\* addends are still to be added.
Lacking(t) ==
    IF rt[t].first # NULL
    THEN 1 .. NumSlots - SMRBatch + Len(rt[t].todo)
              - (IF pc[t] \in {"rt_adj", "rt_count"} THEN 1 ELSE 0)
    ELSE {k \in 1 .. NumSlots : \A i \in 1 .. k - 1 :
             (i * Addend) % CounterMod # rt[t].amt}

\* The threads that push nodes of r, or have yet to make the last adjustment.
Active(r) ==
    {t \in Tasks : Retiring(t) = r \/ (pc[t] = "rt_fin" /\ link[rt[t].node] = r)}

\* The addends that the counter of r still lacks: those of the slots where r
\* is at the head, or was until an adjustment that is on its way, and those
\* of the slots where it was not pushed.
Missing(r) ==
    Cardinality({s \in Slots : head[s].ptr # NULL /\ link[head[s].ptr] = r})
    + Cardinality({t \in Tasks : /\ pc[t] \in {"rt_adj", "lv_adj"}
                                /\ link[rt[t].node] = r})
    + Cardinality(UNION {{t} \X Lacking(t) : t \in Active(r)})

\* The nodes of slot s that the thread has still to acknowledge: those pushed
\* since it came in, and those of its walks, of which there are at most two, for
\* leave is called in the traversal of trim once.
Unacked(t, s) ==
    LET walk(i) ==
            IF i \in DOMAIN wk[t].segs
            THEN LET g == wk[t].segs[i]
                 IN  g.n + Cardinality(Chain(g.cur, g.end))
                     + (IF g.cur # NULL /\ g.end = NULL THEN 1 ELSE 0)
            ELSE 0
    IN  IF vec[t] = s
        THEN Cardinality(Line(t) \ {handle[t]}) + walk(1) + walk(2)
        ELSE 0

\* The threads that have to acknowledge what retire has pushed on s, but not
\* counted yet.
Uncounted(t, s) ==
    IF pc[t] \in {"rt_adj", "rt_count"} /\ at[t] = s THEN rt[t].refs ELSE 0

\* As many pairs as f counts for the threads.
Sum(f) == UNION {{t} \X (1 .. f[t]) : t \in Tasks}

\* The nodes that some thread has still to look at, on behalf of a batch.
Busy == (UNION {Owed(t) : t \in Tasks})
        \union {head[s].ptr : s \in Slots}
        \union {rt[t].node : t \in {u \in Tasks : Adjusting(u)}}
        \union {rt[t].first : t \in Tasks}

\* The retired nodes of o's batch.
BatchOf(o) == {n \in Objs : /\ status[n] = "retired"
                            /\ \/ n = o \/ link[n] = link[o]
                               \/ link[n] = o \/ link[o] = n}

-----------------------------------------------------------------------------
\* The nodes that leave, trim, traverse and retire have still to read are not
\* freed before, nor are the nodes with their counters.  (lfsmr_cas2.h reads
\* batch_next of a node after it has pushed the node and adjusted others.)
WalkSafe ==
    /\ \A n \in Busy \ {NULL} :
          status[n] = "retired" /\ status[link[n]] = "retired"
    /\ \A t \in Tasks : \A i \in DOMAIN rt[t].todo :
          status[rt[t].todo[i]] = "retired"

\* The counter of a batch is the number of references that threads have still
\* to drop, but for the adjustments on their way and the addends of the slots
\* where the batch is the head or may still be pushed.
RefsExact ==
    \A r \in {link[n] : n \in Busy \ {NULL}} :
        refs[r] = (Cardinality(Debts(r)) - Cardinality(Late(r))
                   - IF build.words = 1 THEN 0 ELSE Addend * Missing(r))
                  % CounterMod

\* A batch on its way to free is with one thread alone, and no other thread
\* will touch its nodes again.
QueuedUntouched ==
    \A t \in Tasks : \A r \in list[t] :
        /\ \A n \in Busy \ {NULL} : n \notin BatchOf(r)
        /\ \A u \in Tasks : r \in list[u] => u = t

\* No retired node is forgotten: it is in a batch that grows, or a thread will
\* come past its batch: one that owes a reference, adjusts the counter, is
\* about to take the list of the slot, or is inside a slot with the batch at
\* the head.
NothingLost ==
    LET cleared(s) == \E t \in Tasks : /\ pc[t] = "lv_clear" /\ vec[t] = s
                                       /\ rt[t].node = head[s].ptr
        live == {s \in Slots : head[s].ref > 0 \/ cleared(s)}
        kept == (UNION {Owed(t) \union list[t] \union {rt[t].first} : t \in Tasks})
                \union {rt[t].node : t \in {u \in Tasks : Adjusting(u)}}
                \union {head[s].ptr : s \in live}
    IN \A o \in Objs : status[o] = "retired" =>
          \/ \E t \in Tasks : \E i \in DOMAIN batch[t] : batch[t][i] = o
          \/ BatchOf(o) \intersect kept # {}

\* The counter of a slot of Hyaline-S is the number of nodes that its threads
\* have still to acknowledge, but for what retire has pushed and not counted yet.
AckExact ==
    Acks => \A s \in Slots :
        counter[s] = Cardinality(Sum([t \in Tasks |-> Unacked(t, s)]))
                     - Cardinality(Sum([t \in Tasks |-> Uncounted(t, s)]))

\* The epoch of a slot covers every node read by the threads inside.
EraCovers ==
    build.robust =>
        \A t \in Tasks : \A o \in held[t] : EpochGeq(access[vec[t]], birth[o])

\* A thread that has stalled holds back only batches with a node that was
\* allocated before the last deref in its slot.
StallBounded ==
    build.robust =>
        \A t \in Tasks : \A n \in ToDrop(t) :
            \E m \in BatchOf(n) : EpochGeq(access[vec[t]], birth[m])

\* The node with the counter of a batch is never pushed: batch_next and the
\* counter share a word.
CounterNodeSpared ==
    \A t \in Tasks : pc[t] = "rt_cas" => Len(rt[t].todo) > 1

\* Hyaline is a reclamation scheme: held gives the references.
Scheme == INSTANCE Reclamation WITH Threads <- Tasks, status <- Life,
                                    guards <- held
Refines == Scheme!Spec
=============================================================================
