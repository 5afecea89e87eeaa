---------------------------- MODULE MCHETracker ----------------------------
\* Model-checking instances of HETracker.
EXTENDS HETracker, TLC

\* The blocks of the allocator are interchangeable.
Symmetry == Permutations(Objs)

\* The stamps of a block that are not set yet are never read: states that
\* differ only there are one.
View ==
    <<clientVars, epoch, reservations, allocs, garbage, given, pc, frame, pos,
      [o \in Objs |-> IF status[o] = "free" THEN 0 ELSE birth[o]],
      [o \in Objs |-> IF status[o] = "retired" THEN retireEpoch[o] ELSE 0]>>
=============================================================================
