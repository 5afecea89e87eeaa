-------------------------- MODULE MCHazardTracker --------------------------
\* Model-checking instances of HazardTracker.
EXTENDS HazardTracker, TLC

\* The blocks of the allocator are interchangeable.
Symmetry == Permutations(Objs)
=============================================================================
