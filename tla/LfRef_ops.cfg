SPECIFICATION LfRefSpec
CONSTANTS
  Threads = {t1, t2}
  RefMod = 2
  PtrVals = {0, 1}
  Unknown = Unknown
  Builds <- MCBuilds
SYMMETRY Symmetry
INVARIANTS
  LfRefTypeOK
  Coherent
PROPERTY Refines
