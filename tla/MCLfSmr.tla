------------------------------ MODULE MCLfSmr ------------------------------
\* Model-checking instances of LfSmr.
EXTENDS LfSmr, TLC

\* One slot, where a batch has two nodes: the lists of the threads meet.  And
\* two slots: both libraries with heads of one word, and Hyaline-S.
OpsBuilds ==
    {[robust |-> r, words |-> 2, full |-> f, order |-> 0] :
        <<r, f>> \in {<<FALSE, FALSE>>, <<FALSE, TRUE>>, <<TRUE, TRUE>>}}
    \union {[robust |-> r, words |-> w, full |-> TRUE, order |-> 1] :
        <<r, w>> \in {<<FALSE, 1>>, <<TRUE, 1>>, <<TRUE, 2>>}}

\* Two slots, where a batch has three nodes and the addends are not zero; more
\* slots than threads, where a batch has only as many nodes as slots; and heads
\* of one word with a slot per thread.
SlotsBuilds ==
    {[robust |-> r, words |-> w, full |-> TRUE, order |-> n] :
        <<r, w, n>> \in {<<FALSE, 2, 1>>, <<TRUE, 2, 1>>, <<TRUE, 2, 2>>,
                        <<FALSE, 1, 2>>}}

\* Bounds of Hyaline_ops: Hyaline-S, where every allocation counts, uses every
\* node; two threads make batches in one build only.
OpsBounds ==
    /\ build.robust =>
          \A o \in Objs : status[o] = "private" => status'[o] # "free"
    /\ build.full => mine'[1] = NULL /\ batch'[1] = <<>>

\* Bounds of Hyaline_slots: only thread 2 reads.  Thread 3 stays out, or, in
\* Hyaline-S, enters (with two slots, the slot of thread 1) and stalls.  There,
\* and with heads of one word, an operation reads one node.  Heads of one word
\* take batches of four nodes, two of them in one list.
SlotsBounds ==
    /\ build.robust \/ build.words = 1 => Cardinality(held'[2]) < 2
    /\ build.words = 2 => status'[7] = "free" /\ status'[8] = "free"
    /\ held'[1] = {} /\ held'[3] = {}
    /\ pc'[3] \in IF build.robust THEN {"out", "look", "add", "in"} ELSE {"out"}
    /\ build.robust \/ build.words = 1 =>
          \A o \in Objs : status[o] = "private" => status'[o] # "free"

\* Bounds: the allocator hands out the first free block (blocks are numbers).
FirstFit ==
    \A t \in Tasks : mine[t] = NULL /\ mine'[t] # NULL =>
        \A o \in Objs : status[o] = "free" => mine'[t] <= o

\* The blocks of the allocator are interchangeable (blocks are model values).
Symmetry == Permutations(Objs)

\* States that differ only in fields that are written before they are read
\* again are one.
Unpushed(o) ==
    \E t \in Tasks :
        o \in Range(batch[t] \o IF pc[t] \in {"rt_adj", "rt_count"}
                                THEN Tail(rt[t].todo) ELSE rt[t].todo)
Header(o) ==
    IF status[o] = "retired"
    THEN <<IF Unpushed(o) THEN NULL ELSE next[o], link[o], refs[o], birth[o]>>
    ELSE IF status[o] = "free" THEN <<>> ELSE <<birth[o]>>
View ==
    <<clientVars, build, head, epochs, [o \in Objs |-> Header(o)], allocs,
      batch, [t \in Tasks |-> IF batch[t] = <<>> /\ rt[t].todo = <<>> THEN 0
                              ELSE minEpoch[t]],
      vec, [t \in Tasks |-> IF Inside(t) THEN handle[t] ELSE NULL],
      held, pc, locals>>
=============================================================================
