---------------------------- MODULE MCHRTracker ----------------------------
\* Model-checking instances of HRTracker.
EXTENDS HRTracker, TLC

\* The blocks of the allocator are interchangeable.
Symmetry == Permutations(Objs)

\* The header of a block says nothing while the block is not retired (but for
\* its birth while it is live), and min_epoch nothing while the batch is
\* empty: the code never reads them then, so states that differ only there
\* are one.
Header(o) ==
    IF status[o] = "retired" THEN <<next[o], refs[o], link[o], birth[o]>>
    ELSE IF status[o] = "free" THEN <<>>
    ELSE <<birth[o]>>
View ==
    <<clientVars, epoch, allocs, slots, [o \in Objs |-> Header(o)], batch,
      [t \in Tasks |-> IF batch[t] = <<>> THEN 0 ELSE minEpoch[t]],
      list, listCount, given, pc, rd, work, rt>>

\* The case split that keeps HR_ops small: thread 1 either uses its second
\* slot, or makes and retires nodes of its own as thread 2 does.  (Between the
\* two it may change from the latter to the former.)
UsesSecond ==
    \/ slotEpoch[1][2] # 0 \/ first[1][2] # INVPTR
    \/ rd[1].op \in {"read", "reserve"} /\ rd[1].idx = 2
Updates == batch[1] # <<>> \/ victim[1] # NULL \/ mine[1] # NULL \/ allocs[1] # 0
Bounds == UsesSecond' => ~Updates'
=============================================================================
