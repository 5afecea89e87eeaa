---------------------------- MODULE MCRCUTracker ----------------------------
\* Model-checking instances of RCUTracker.
EXTENDS RCUTracker, TLC

\* The blocks of the allocator are interchangeable.
Symmetry == Permutations(Objs)

\* The stamp of a block that is not retired is never read.
View ==
    <<clientVars, type, epoch, reservations, retires, retired, allocs, inOp,
      held, pc, locals,
      [o \in Objs |-> IF status[o] = "retired" THEN retireEpoch[o] ELSE 0]>>
=============================================================================
